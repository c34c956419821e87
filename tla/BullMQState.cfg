SPECIFICATION Spec
CONSTANTS
    j1 = j1
    j2 = j2
    q1 = q1
    q2 = q2
    Jobs <- OneJob
    Queues <- OneQueue
    QueueOf <- QueueOfOne
    Workers = {w1}
    Stoppable = {}
    Requests = {r1}
    None = None
    DEFAULT_CONCURRENCY = 1
    ConfiguredConcurrency = 1
    MaxRetries = 1
    MaxStalledCount = 1
    MaxRequests = 1
    MaxCrashes = 0
    MaxStalls = 0
INVARIANT StateIsDetermined
CHECK_DEADLOCK FALSE
