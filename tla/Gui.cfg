SPECIFICATION GuiSpec
CONSTANTS
    Daemons = {d1, d2}
    None = None
INVARIANTS Stoppable NoGhost
CHECK_DEADLOCK FALSE
