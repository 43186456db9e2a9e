SPECIFICATION Spec
CONSTANTS
    Null = Null
    epic = epic
    topic = topic
    twin = twin
    Topic0 = Topic0
    red = red
    blue = blue
    both = both
    abandonNote = abandonNote
    toA = toA
    Names <- MCNames
    NameRank <- MCNameRank
    Types <- MCTypes
    Keys <- MCKeys
    Values <- MCValues
    Contents <- MCContents
    RelTypes <- MCRelTypes
    Spellings <- MCSpellings
    Norm <- MCNorm
    Agents <- MCAgents
    BlockedStatuses = {}
    AbandonNote = abandonNote
    DispatchNote <- MCDispatchNote
    DefaultLimit = 2
    Words = {"r", "b", "t", "z"}
    TextWords <- MCTextWords
    NameWords <- MCNameWords
    CandidatePool = 2
    Damping = 60
    Scale = 238266
    Chars <- MCChars
    Alphanumerics <- MCAlphanumerics
    Blanks = {" "}
    LowerCase <- MCLowerCase
    Slug <- MCSlug
    Characters <- MCCharacters
    Samples <- MCSamples
    w1 = w1
    w2 = w2
    Workers = {w1}
    Commands <- FilteredSearches
    InitialGraphs <- StartGraphs
    MaxTime = 0
    MaxCommands = 1
PROPERTY SearchIntersects
CHECK_DEADLOCK FALSE
