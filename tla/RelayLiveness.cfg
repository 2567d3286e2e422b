SPECIFICATION FairSpec
CONSTANTS
    d1 = d1  d2 = d2  c1 = c1  c2 = c2  r1 = r1  a1 = a1
    Devices = {d1}
    Conns = {c1}
    Reqs = {r1}
    Admins = {a1}
    None = None
    Limits = {0, 1}
    SaveMayFail = TRUE
    DevOf <- DevOfOne
PROPERTIES ExecResolved DisconnectFinishes CleanupFinishes ReloadFinishes
CHECK_DEADLOCK FALSE
