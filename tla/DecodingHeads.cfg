\* Grouped-query attention: two query heads to a KV head.
CONSTANTS
    Vocabulary = {0, 1}
    Eos = 0
    StopLists <- NoStops
    PromptLengths = {1, 2}
    TokenLimits = {3}
    Layers = 1
    KvHeads = 2
    GroupSize = 2
    MaxSeqLen = 4
SPECIFICATION DecodingSpec
INVARIANTS CacheKeepsHeads
CHECK_DEADLOCK FALSE
