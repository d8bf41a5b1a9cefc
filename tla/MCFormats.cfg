SPECIFICATION Spec
CONSTANTS
    ULLONG_MAX = 255
    max_header_size = 100
    Wires <- MCWires
    MaxLength = 14
    VALUE_MASK = 50
    Strings <- MCStrings
    Numbers <- MCNumbers
    INT_MAX = 127
    MIN_POW = 30
    MAX_POW = 30
    StringTexts <- MCStringTexts
    NumberTexts <- MCNumberTexts
    IntMax = 127
    Samples <- MCSamples
    UrlSamples <- MCUrlSamples
    Chunks = {a, b, e}
    StaticChunks = {e}
    EmptyChunks = {e}
    NoChunk = none
    PacketNames = {p1, p2}
    MaxFragments = 3
    Addresses = {a1, a2, a3}
    Null = null
    MessageTexts <- PrefixAndWhole
    FixedKeys = {"Server"}
    RemainKeys = {"Location"}
    MayMeetSource = FALSE
    MaxExchanges = 2
    MaxAdditions = 1
INVARIANTS CutIndependent WireUnderstood Apart DocumentReadable DecodedInPlace NumberExact
    ModelReturns PartsReadBack CachesCurrent OwnHeadersSent NoDangling BytesKept
CHECK_DEADLOCK FALSE
