\* The writers, block appliers and dialling tasks may stop when the bounds are
\* reached.
CONSTANTS
    w1 = w1
    w2 = w2
    k1 = k1
    k2 = k2
    Writers = {w1, w2}
    Floats <- LedgerFloats
    JsonRoundTrip <- LedgerRoundTrip
    MaxEntries = 5
    MaxCrashes = 2
    StoreFails = TRUE
    Threads = {t1}
    Candidates <- MCCandidates
    MaxStoreCrashes = 2
    Accounts <- MCAccounts
    Pool = "pool"
    Founder = "founder"
    FounderTotal <- MCFounderTotal
    InitialBalance <- MCInitial
    MaxHeight = 3
    U64Modulus = 64
    Endpoints = {"lan", "pub"}
    PublicPeers = {"pub"}
    SeedSets <- PeerSeedSets
    Dialers = {k1, k2}
    MAX_PEERS = 2
    DIAL_BACKOFF_BASE_SECS = 1
    DIAL_BACKOFF_MAX_SECS = 3
    QUARANTINE_THRESHOLD = 2
    QUARANTINE_BASE = 2
    PRUNE_FAILURES = 2
    MaxSeconds = 2
    MaxDials = 3
    MaxStarts = 2
    Histories <- LaneHistories
    NewDecisions <- LaneDecisions
    EndsIn00 <- LaneNamesIn00
    MaxNew = 2
    MaxStops = 2
    u1 = u1
    u2 = u2
    Uploads = {u1, u2}
    Layout <- TwoLayouts
    SameLabel <- OneLabel
    ChunkIds = {"a", "b", "c", "d"}
    Shared = {"b"}
    MAX_LOCAL_CHUNKS = 2
    FileSizes = {1, 3, 4, 5, 11, 12, 13, 16}
    CHUNK_SIZE = 3
    RS_DATA_SHARDS = 4
    RS_PARITY_SHARDS = 2
    RangeSizes = {1, 2}
    NumRanges = 2
    DhtPeers = {"d1", "d2"}
    DhtHolders = {"d1", "d2"}
    DhtChunks = {"c1", "c2", "c3"}
    K_BUCKET_SIZE = 1
    MAX_DHT_RECORDS = 2
    MaxAge = 0
    MaxTime = 1
    p1 = p1
    p2 = p2
    a1 = a1
    a2 = a2
    Workers = {p1, p2}
    Aggregators = {a1, a2}
    Quorums = {0, 2}
    MaxRounds = 2
    MaxDeliveries = 4
SYMMETRY DurableSymmetry
SPECIFICATION DurableSpec
INVARIANTS
     ChainIntact AckedDurable AckedServed SerialRecovers
    
    OneConnection DialsJustified BookFollowsDials
     CorpusClean ManifestAccounts
    IndexSound AnsweredDownloads
    FilesRestored ProofBinds
    FreshestKept
      QuorumAsAnnounced
PROPERTIES KeepsPromise
CHECK_DEADLOCK FALSE
