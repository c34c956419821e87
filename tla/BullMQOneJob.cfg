SPECIFICATION FairSpec
CONSTANTS
    j1 = j1
    j2 = j2
    q1 = q1
    q2 = q2
    Jobs <- OneJob
    Queues <- OneQueue
    QueueOf <- QueueOfOne
    Workers = {w1, w2}
    Stoppable = {w1}
    Requests = {r1}
    None = None
    DEFAULT_CONCURRENCY = 1
    ConfiguredConcurrency = 1
    MaxRetries = 0
    MaxStalledCount = 1
    MaxRequests = 1
    MaxCrashes = 1
    MaxStalls = 1
PROPERTY EveryJobIsSettled ImplementsJobQueue
CHECK_DEADLOCK FALSE
