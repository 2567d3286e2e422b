SPECIFICATION Spec
CONSTANTS
    d1 = d1  d2 = d2  c1 = c1  c2 = c2  r1 = r1  a1 = a1
    Devices = {d1}
    Conns = {c1, c2}
    Reqs = {}
    Admins = {}
    None = None
    Limits = {1}
    SaveMayFail = FALSE
    DevOf <- DevOfShared
INVARIANT ServedIsOnline
CHECK_DEADLOCK FALSE
