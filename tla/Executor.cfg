SPECIFICATION FairExecutorSpec
CONSTANTS
    Ptys = {p1}
    Cmds = {n1}
    Cap = 1
    OutputCap = 1
    None = None
INVARIANTS ExecutorTypeOK OneFinal LateOutputBounded CommandEndsLast TableWatched
PROPERTIES ExitReported ReaderStops ReplyReturns
CHECK_DEADLOCK FALSE
