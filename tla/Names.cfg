SPECIFICATION NamesSpec
CONSTANTS
    Ids = {"ab", "abc"}
    Pairing = {"ab"}
    Names = {"a", "ab", "abc", "x"}
    Begins <- BeginsMC
    None = None
INVARIANT Loadable
PROPERTY EditApplies
CHECK_DEADLOCK FALSE
