\* The node with peers; it may stop when the chain and the clock reach their bounds.
CONSTANTS
    c1 = c1
    c2 = c2
    Clients = {c1, c2}
    Transfers <- FounderAndMiner
    MaxHeight = 2
    MaxClock = 2
    MaxActions = 1
    Treasury = "treasury"
    Miner = "miner"
    PeerMiner = "peer"
    RewardBase = 2
    HalvingPeriod = 2
    MaxHalvings = 2
    MinFee = 1
    ActionLedger = "action_ledger"
    MaxSize = 1
    BlockLimit = 1
    MaxAge = 1
    Accounts <- MCAccounts
    Pool = "pool"
    Founder = "founder"
    FounderTotal <- MCFounderTotal
    InitialBalance <- MCInitial
    U64Modulus = 64
SYMMETRY ClientSymmetry
SPECIFICATION Spec
INVARIANTS   MempoolBounded
PROPERTIES PoolKeepsUnconfirmed
CHECK_DEADLOCK FALSE
