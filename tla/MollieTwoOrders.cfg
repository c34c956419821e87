CONSTANTS
    MollieIds = {m1, m2}
    Webhooks = {w1}
    Shoppers = {s1}
    Admins = {a1}
    NoMollie = NoMollie
    AutoCapture = TRUE
    MaxTotal = 2
    MaxEdits = 1
    MaxFaults = 1
SPECIFICATION Spec
INVARIANTS PaymentsBacked UnamendedOrderIsPaidOnce
SYMMETRY Symmetry
CHECK_DEADLOCK FALSE
