SPECIFICATION Spec
CONSTANTS
    j1 = j1
    j2 = j2
    q1 = q1
    q2 = q2
    Jobs <- TwoJobs
    Queues <- TwoQueues
    QueueOf <- QueueOfTwo
    Workers = {w1}
    Stoppable = {}
    Requests = {r1}
    None = None
    DEFAULT_CONCURRENCY = 2
    ConfiguredConcurrency = 1
    MaxRetries = 1
    MaxStalledCount = 0
    MaxRequests = 1
    MaxCrashes = 0
    MaxStalls = 1
INVARIANT TypeOK
INVARIANT OnlyAskedIsCancelled
INVARIANT RetriesAreUsed
PROPERTY ImplementsJobQueue
CHECK_DEADLOCK FALSE
