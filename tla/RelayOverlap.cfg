SPECIFICATION Spec
CONSTANTS
    d1 = d1  d2 = d2  c1 = c1  c2 = c2  r1 = r1  a1 = a1
    Devices = {d1}
    Conns = {c1, c2}
    Reqs = {r1}
    Admins = {a1}
    None = None
    Limits = {1}
    SaveMayFail = FALSE
    DevOf <- DevOfShared
INVARIANTS SpawnIsAuthorised SessionHasClient NeverDropped NoDanglingSender ToldMatchesFlag
PROPERTY ImplementsService
CHECK_DEADLOCK FALSE
