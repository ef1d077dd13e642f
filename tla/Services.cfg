\* Every service may stop when its bounds are reached.
CONSTANTS
    n1 = n1  n2 = n2  j1 = j1  s1 = s1  s2 = s2  h1 = h1  h2 = h2
    ComputeNodes = {n1, n2}
    JobIds = {j1}
    Submitters = {s1, s2}
    Requirements <- MarketRequirements
    Capabilities <- MarketCapabilities
    Prices = {1}
    ClaimedScores = {0}
    ResultHashes = {h1, h2}
    Bonuses = {0}
    MaxBids = 2
    MaxResults = 2
    t1 = t1  t2 = t2  t3 = t3  m1 = m1
    Tasks = {t1, t2, t3}
    ModelIds = {m1}
    ShardOf <- OneShard
    StageNodes = {n1, n2}
    StageCounts = {1, 2}
    Vocabulary = {0, 1, 2}
    Eos = 0
    StopLists <- StopSequences
    PromptLengths = {1, 2}
    TokenLimits = {0, 1, 3}
    Layers = 2
    KvHeads = 2
    GroupSize = 2
    MaxSeqLen = 4
    Callers = {"first", "later"}
    Headers <- PairingHeaders
    MemoryWallets = {"w"}
    MemoryKeys = {"k"}
    Codes = {1, 2}
    Devices = {"d"}
    MemoryValues = {"v"}
    MaxCalls = 4
    Binds = {"new", "bulk", "forced", "named"}
    BindRequest <- BindRequests
    Employees = {"e1", "e2"}
    Masters = {"m1", "m2"}
    HEARTBEAT_TIMEOUT = 0
    MaxBeatTime = 1
    Seen <- WalletsSeen
    Peers2 = {"n1", "n2"}
    Links = {"l1", "l2"}
    Agents = {"a", "b"}
    Texts = {"hi"}
    Envelopes <- RelayEnvelopes
    RoomIds = {"lab"}
    GossipCapacity = 1
    MaxMillis = 1
    MaxSends = 2
    Orders = {"o1", "o2"}
    Jobs <- ToolJobs
    StopOnError <- FirstStops
    WalletOf <- TwoWallets
    Environments <- ToolEnvironments
    Existing <- ToolPaths
    Ancestors <- ToolAncestors
    KnowledgeKeys = {1}
    MaxToolMillis = 1
    Addresses = {"x", "lan"}
    PrivateAddresses = {"lan"}
    Requests <- GateRequests
    max_requests = 2
    window_secs = 2
    MaxClock = 5
SPECIFICATION ServicesSpec
INVARIANTS
     CreditEarned
    RegistryConsistent
    EndsOnTime CachesAligned
    PairingGuards RecallReaches
    
    
    
  
CHECK_DEADLOCK FALSE
