SPECIFICATION Spec
CONSTANTS
    Devices = {d1, d2}
    Pairing = {d1, d2}
    Admins = {a1, a2}
    Reloads = {l1}
    MaxDevices = 1
    None = None
    Empty = Empty
    Garbled = Garbled
    MayCrash = TRUE
    SaveMayFail = TRUE
INVARIANTS TypeOK OnlyGranted FileIsMemory RegistrationKept
SYMMETRY DeviceSymmetry
CHECK_DEADLOCK FALSE
