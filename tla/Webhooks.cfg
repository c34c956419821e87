CONSTANTS
    Ids = {i1, i2}
    Events = {e1, e2}
    Channels = {c1}
    Urls = {u1, u2}
    ClientTypes = {"rest"}
    Processes = {p1, p2}
    Requests = {r1, r2}
    Absent = Absent
    None = None
    MaxRequests = 3
SPECIFICATION Spec
INVARIANTS TypeOK MappedIsListening QuietWebhooksAreRegistered
SYMMETRY Symmetry
CHECK_DEADLOCK FALSE
