\* The plugins beside Mollie, webhooks, BullMQ and the index: one at a time.
CONSTANTS
    r1 = r1 r2 = r2 h1 = h1 h2 = h2 j1 = j1 j2 = j2 p1 = p1
    p2 = p2 v1 = v1 v2 = v2 f1 = f1 f2 = f2 s1 = s1
    Requests = {r1, r2} MaxFaults = 1 None = None
    Handlers = {h1, h2} Totals = {249, 300} HasFraction = FALSE NoCustomer = NoCustomer
    MaxIntents = 2 MaxRequests = 2
    Nonces = {n1, n2} Undefined = Undefined MaxPayments = 3
    Jobs = {j1, j2} Processes = {w1, w2} Functions = {f1} MaxLives = 2
    Buffers = {b1, b2} BufferedJobs = {j1, j2} Flushers = {f1, f2} MaxFlushes = 2
    Events = {e1} EmailHandlers = {h1, h2} Channels = {w1} Retries = 1
    MaxMailFaults = 2
    Names <- SomeNames Contents = {j1, j2} Sizes = {s1} Modes <- SomeModes Presets = {p1}
    FocalPoints = {} Formats = {"jpg"} Qualities = {} Queries <- SomeQueries
    Visits = {r1, r2} MaxVisits = 2
    Products = {p1, p2} Variants = {v1, v2} Collections = {s1} ProductOf <- SomeVariants
    PurgeRules <- SomeRules KeyLimit = 1 MaxEvents = 2 MaxFills = 1
    Documents <- SomeDocuments FacetValues = {f1, f2} Inputs <- SomeInputs DefaultTake = 2
    SearchConfigs <- SomeConfigs Precision = 1 MaxChanges = 1
    Orders = {1, 2} Take = 1 MaxTick = 7 NrOfEntries = 3 LeapYears = {1} FirstDay = 4 LastDay = 20
    Never = Never
SPECIFICATION MCSpec
INVARIANTS
    TypeOK
    UnamendedOrderIsChargedOnce
    IntentIsRecordedOnce
    OneStripeCustomer
    MoneyIsRecorded
    ChargedOnce
    BufferedJobsLeaveOnce
    MailLeavesOnce
    OutcomeIsAnnounced
    SentImageIsRight
    
    NumbersAgree
    RecentOrderIsCountedOnce
PROPERTIES
    PaidOrderIsSettled
    ImplementsJobQueue
    EveryPublishedJobIsSettled
    AcceptedEventIsMailed
    RequestIsAnswered
    
\* Requests, jobs and days run out.
CHECK_DEADLOCK FALSE
