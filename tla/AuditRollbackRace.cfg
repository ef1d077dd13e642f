\* Two writers, one of whose durable appends may fail; no crash.
CONSTANTS
    w1 = w1
    w2 = w2
    Writers = {w1, w2}
    Floats <- ExactFloats
    JsonRoundTrip <- ExactRoundTrip
    MaxEntries = 2
    MaxCrashes = 0
    StoreFails = TRUE
SPECIFICATION Spec
INVARIANTS AckedLinked
CHECK_DEADLOCK FALSE
