SPECIFICATION FairSpec
CONSTANTS
    client_1 = client_1
    client_2 = client_2
    NoClient = NoClient
    Client <- OneClient
    Device <- OneDevice
    MaxClients = 1
    Messages = 2
    Window = 2
    GatewayMayFail = FALSE
    OpenMayFail = FALSE
CHECK_DEADLOCK FALSE
PROPERTY ShutdownCompletes
