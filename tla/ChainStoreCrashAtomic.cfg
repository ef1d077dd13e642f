\* No more blocks arrive once the candidates are applied.
CONSTANTS
    Threads = {t1}
    Candidates <- MCCandidates
    MaxStoreCrashes = 1
    Accounts <- MCAccounts
    Pool = "pool"
    Founder = "founder"
    FounderTotal <- MCFounderTotal
    InitialBalance <- MCInitial
    MaxHeight = 3
    U64Modulus = 64
SPECIFICATION StoreSpec
INVARIANTS CommitAtomic
CHECK_DEADLOCK FALSE
