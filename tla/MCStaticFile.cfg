SPECIFICATION StaticFileSpec
CONSTANTS
    r1 = r1
    r2 = r2
    Requests <- TwoRequests
    Asks <- Conversations
    MaxVersion = 3
    Size <- Shrinking
    Stamp <- Stamps
    MaxCacheFileEntities = 1
    MaxCacheFileSize = 3
    ReadFileChunkSize = 2
    Unlimited = 100
SYMMETRY Interchangeable
INVARIANTS HeadersHonest OneVersion
