SPECIFICATION Spec
CONSTANTS
    NumProducts = 2
    v1 = v1
    v2 = v2
    Variants <- TwoVariants
    ProductOf <- ProductOfTwo
    Channels = {c1, c2}
    DefaultChannel = c1
    Workers = {w1, w2}
    None = None
    ReindexProductsChunkSize = 1
    ReindexBulkOperationSizeLimit = 2
    MaxEdits = 2
    MaxRuns = 2
    MaxFaults = 0
INVARIANTS TypeOK QuietIndexIsCurrent AliasIsServed
SYMMETRY Symmetry
CHECK_DEADLOCK FALSE
