SPECIFICATION HSpec
CONSTANTS
    Null = Null
    epic = epic
    child = child
    topic = topic
    Child = Child
    Topic = Topic
    n1 = n1
    n2 = n2
    abandonNote = abandonNote
    toA = toA
    toB = toB
    Names <- MCNames
    NameRank <- MCNameRank
    Types <- MCTypes
    Keys <- MCKeys
    Values <- MCValues
    Contents <- MCContents
    RelTypes <- MCRelTypes
    Spellings <- MCSpellings
    Norm <- MCNorm
    Agents <- MCAgents
    BlockedStatuses <- MCBlocked
    AbandonNote = abandonNote
    DispatchNote <- MCDispatchNote
    DefaultLimit = 2
    Callers = {"c1", "ticker", "c2"}
    Handles = {"h1", "h2"}
    HandleOf <- ServerAndCli
    Sweepers = {"ticker"}
    Requests <- LifeRequests
    AbandonDays = 1
    RetentionDays = 1
    InitialGraphs <- StartTopic
    StartTime = 0
    MaxTime = 4
    MaxCalls = 2
INVARIANT GraphConsistent
PROPERTY AbandonsOnlyIdle
PROPERTY TwoStepLifecycle
