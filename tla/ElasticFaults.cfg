SPECIFICATION Spec
CONSTANTS
    NumProducts = 2
    v1 = v1
    v2 = v2
    Variants <- OneVariant
    ProductOf <- ProductOfOne
    Channels = {c1, c2}
    DefaultChannel = c1
    Workers = {w1, w2}
    None = None
    ReindexProductsChunkSize = 1
    ReindexBulkOperationSizeLimit = 4
    MaxEdits = 2
    MaxRuns = 2
    MaxFaults = 1
INVARIANTS QuietIndexIsCurrent AliasIsServed
SYMMETRY Symmetry
CHECK_DEADLOCK FALSE
