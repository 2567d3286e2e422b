SPECIFICATION BeatSpec
CONSTANTS
    Interval = 2
    Timeout = 4
    Delays = {0, 1, 2}
    Lates = {0, 1, 2}
INVARIANTS LiveKept NoticedInTime
