SPECIFICATION Spec
CONSTANTS
    conn_mgr = conn_mgr
    data_mgr = data_mgr
    NoLine = NoLine
    Writer <- MCWriter
    First <- MCFirst
    Cancellable <- MCCancellable
    What <- MCWhat
    GatewayMayFail = FALSE
    LogMayFail = FALSE
    ReadMax = 2
    MaxEvents = 3
INVARIANT NoEventLost
CHECK_DEADLOCK FALSE
