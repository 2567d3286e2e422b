SPECIFICATION ConnSpec
CONSTANTS
    Outputs <- OutputsMC
    MaxInputs = 1
    MaxPings = 1
INVARIANTS TextPrinted AnswerTrue
CHECK_DEADLOCK FALSE
