SPECIFICATION FairSpec
CONSTANTS
    conn_mgr = conn_mgr
    data_mgr = data_mgr
    NoLine = NoLine
    Writer <- MCWriter
    First <- MCFirst
    Cancellable <- MCCancellable
    What <- MCWhat
    GatewayMayFail = TRUE
    LogMayFail = TRUE
    ReadMax = 2
    MaxEvents = 2
INVARIANTS
    TypeOK
    NoStrandedData
    WriterOrder
PROPERTIES
    ImplementsEventLog
    NoLossWhileHeld
    LogCallReturns
    ReadIsLogged
CHECK_DEADLOCK FALSE
