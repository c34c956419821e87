SPECIFICATION Spec
CONSTANTS
    NumProducts = 2
    v1 = v1
    v2 = v2
    Variants <- OneVariant
    ProductOf <- ProductOfOne
    Channels = {c1}
    DefaultChannel = c1
    Workers = {w1}
    None = None
    ReindexProductsChunkSize = 1
    ReindexBulkOperationSizeLimit = 2
    MaxEdits = 2
    MaxRuns = 1
    MaxFaults = 0
INVARIANT EveryProductIsIndexed
CHECK_DEADLOCK FALSE
