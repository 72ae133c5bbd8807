SPECIFICATION FairSpec
CONSTANTS
    client_1 = client_1
    client_2 = client_2
    NoClient = NoClient
    Client <- OneClient
    Device <- OneDevice
    MaxClients = 1
    Messages = 3
    Window = 2
    GatewayMayFail = TRUE
    OpenMayFail = FALSE
CHECK_DEADLOCK FALSE
INVARIANTS
    StoredInTimeOrder
    AveragedBeforeStored
PROPERTIES
    ImplementsReadingStore
    ShutdownOrStuck
    MarkedIsStored
