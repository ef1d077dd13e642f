\* The node alone, one client at a time; it may stop when the chain and the clock reach their bounds.
CONSTANTS
    c1 = c1
    c2 = c2
    Clients = {c1}
    Transfers <- SameSender
    MaxHeight = 2
    MaxClock = 1
    MaxActions = 0
    Treasury = "treasury"
    Miner = "miner"
    PeerMiner = "peer"
    RewardBase = 2
    HalvingPeriod = 2
    MaxHalvings = 2
    MinFee = 1
    ActionLedger = "action_ledger"
    MaxSize = 2
    BlockLimit = 2
    MaxAge = 1
    Accounts <- MCAccounts
    Pool = "pool"
    Founder = "founder"
    FounderTotal <- MCFounderTotal
    InitialBalance <- MCInitial
    U64Modulus = 64
SPECIFICATION LocalSpec
PROPERTIES TickAppends
CHECK_DEADLOCK FALSE
