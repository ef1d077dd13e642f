\* No more blocks arrive once the candidates are applied.
CONSTANTS
    Threads = {t1, t2}
    Candidates <- Rivals
    MaxStoreCrashes = 0
    Accounts <- MCAccounts
    Pool = "pool"
    Founder = "founder"
    FounderTotal <- MCFounderTotal
    InitialBalance <- MCInitial
    MaxHeight = 3
    U64Modulus = 64
SPECIFICATION StoreSpec
INVARIANTS StoreSupplyConserved
CHECK_DEADLOCK FALSE
