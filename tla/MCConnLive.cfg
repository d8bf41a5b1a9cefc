SPECIFICATION FairSpec
CONSTANTS
    Data <- AllData
    Wires <- LiveWires
    ConnectionNames <- ConnectionSpelt
    KeepaliveValues <- KeepaliveSpelt
    Responses <- OneFixed
    RequestQueueSize = 1
    RequestBodyQueueSize = 2
    MaxInitialRequestBytes = 100
    MaxInitialRequestPackets = 2
    MaxWrites = 1
    Environment = {"stop", "tick", "reset"}
PROPERTIES ClosingEnds RequestsAnswered IdleConnectionsClose
