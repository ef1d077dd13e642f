\* One task registers a model of one stage and claims it.
CONSTANTS
    t1 = t1
    m1 = m1
    n1 = n1
    Tasks = {t1}
    ModelIds = {m1}
    ShardOf <- OneShard
    StageNodes = {n1}
    StageCounts = {1}
SPECIFICATION RegistryFairSpec
PROPERTIES ClaimAnswered
CHECK_DEADLOCK FALSE
