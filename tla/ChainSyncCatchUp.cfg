\* One miner, one follower, a lossy broadcast. The chains stop growing at the bound.
CONSTANTS
    m1 = m1
    m2 = m2
    f1 = f1
    Nodes = {m1, f1}
    Miners = {m1}
    Links <- Pair
    MaxRange = 3
    GossipSize = 1
    MaxHeight = 4
    MaxDrops = 2
SPECIFICATION FairSpec
INVARIANTS FollowsMiner
PROPERTIES CatchesUp
CHECK_DEADLOCK FALSE
