\* Two workers, one of whose gradients is delivered twice.
CONSTANTS
    p1 = p1
    p2 = p2
    a1 = a1
    a2 = a2
    Workers = {p1, p2}
    Aggregators = {a1, a2}
    Quorums = {0, 2}
    MaxRounds = 1
    MaxDeliveries = 2
SPECIFICATION TrainingSpec
INVARIANTS QuorumCountsWorkers
CHECK_DEADLOCK FALSE
