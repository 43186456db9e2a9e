SPECIFICATION FairSpec
CONSTANTS
    Null = Null
    epic = epic
    child = child
    topic = topic
    Child = Child
    Topic = Topic
    n1 = n1
    n2 = n2
    abandonNote = abandonNote
    toA = toA
    toB = toB
    Names <- MCNames
    NameRank <- MCNameRank
    Types <- MCTypes
    Keys <- MCKeys
    Values <- MCValues
    Contents <- MCContents
    RelTypes <- MCRelTypes
    Spellings <- MCSpellings
    Norm <- MCNorm
    Agents <- MCAgents
    BlockedStatuses <- MCBlocked
    AbandonNote = abandonNote
    DispatchNote <- MCDispatchNote
    DefaultLimit = 2
    Callers = {"c1", "ticker"}
    Handles = {"h1"}
    HandleOf <- ServerOnly
    Sweepers = {"ticker"}
    Requests <- FewRequests
    AbandonDays = 1
    RetentionDays = 1
    InitialGraphs <- StartPlanned
    StartTime = 0
    MaxTime = 4
    MaxCalls = 1
PROPERTY CallsEnd
PROPERTY FinishedTasksGo
PROPERTY IdleTasksEnd
