CONSTANTS
    MollieIds = {m1}
    Webhooks = {w1}
    Shoppers = {s1}
    Admins = {}
    NoMollie = NoMollie
    AutoCapture = FALSE
    MaxTotal = 2
    MaxEdits = 1
    MaxFaults = 0
SPECIFICATION FairSpec
PROPERTIES AuthorizedIsRecorded
CHECK_DEADLOCK FALSE
