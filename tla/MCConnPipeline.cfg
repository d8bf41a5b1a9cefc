SPECIFICATION Spec
CONSTANTS
    Data <- AllData
    Wires <- PipelineWires
    ConnectionNames <- ConnectionSpelt
    KeepaliveValues <- KeepaliveSpelt
    Responses <- AnyResponse
    RequestQueueSize = 1
    RequestBodyQueueSize = 2
    MaxInitialRequestBytes = 100
    MaxInitialRequestPackets = 3
    MaxWrites = 1
    Environment = {"halfclosed"}
INVARIANTS TypeOK RequestIntact BodyBelongsToRequest KeptResponsesFramed
