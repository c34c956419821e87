CONSTANTS
    Ids = {i1}
    Events = {e1, e2}
    Channels = {c1}
    Urls = {u1, u2}
    ClientTypes = {"rest"}
    Processes = {p1}
    Requests = {r1, r2}
    Absent = Absent
    None = None
    MaxRequests = 4
SPECIFICATION Spec
INVARIANT RegisteredIsTriggered
CHECK_DEADLOCK FALSE
