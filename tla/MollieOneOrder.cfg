CONSTANTS
    MollieIds = {m1}
    Webhooks = {w1, w2}
    Shoppers = {s1}
    Admins = {a1}
    NoMollie = NoMollie
    AutoCapture = FALSE
    MaxTotal = 2
    MaxEdits = 1
    MaxFaults = 1
SPECIFICATION FairSpec
INVARIANTS TypeOK PaymentsBacked UnamendedOrderIsPaidOnce
PROPERTIES PaidIsRecorded CapturedIsSettled
CHECK_DEADLOCK FALSE
