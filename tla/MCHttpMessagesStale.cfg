SPECIFICATION MessagesSpec
CONSTANTS
    Addresses = {a1, a2, a3}
    Null = null
    MessageTexts <- PrefixAndWhole
    FixedKeys = {"Server"}
    RemainKeys = {"Location"}
    MayMeetSource = TRUE
    MaxExchanges = 2
    MaxAdditions = 1
INVARIANTS CachesCurrent
