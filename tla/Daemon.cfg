SPECIFICATION FairDaemonSpec
INVARIANTS DaemonTypeOK CommandsApproved
PROPERTIES ImplementsLifecycle SilenceNoticed Reconnects SignalEndsConnection
CHECK_DEADLOCK FALSE
