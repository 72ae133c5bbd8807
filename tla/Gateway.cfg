SPECIFICATION Spec
CONSTANTS
    client_1 = client_1
    client_2 = client_2
    NoClient = NoClient
    Client <- MCClient
    Device <- MCDevice
    MaxClients = 1
    Messages = 2
    Window = 2
    GatewayMayFail = TRUE
    OpenMayFail = TRUE
CHECK_DEADLOCK FALSE
INVARIANTS
    TypeOK
    WalkIsStable
    QuietIsProcessed
