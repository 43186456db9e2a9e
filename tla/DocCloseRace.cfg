SPECIFICATION Spec
CONSTANTS
    Null = Null
    project = project
    epic = epic
    task1 = task1
    task2 = task2
    Epic = Epic
    Task1 = Task1
    Task2 = Task2
    scope = scope
    plan = plan
    lesson = lesson
    note = note
    outcome = outcome
    abandonNote = abandonNote
    toA = toA
    toB = toB
    Names <- MCNames
    NameRank <- MCNameRank
    Types <- MCTypes
    Keys <- MCKeys
    Values <- MCValues
    Contents <- MCContents
    RelTypes <- MCRelTypes
    Spellings <- MCSpellings
    Norm <- MCNorm
    Agents <- MCAgents
    BlockedStatuses <- MCBlocked
    AbandonNote = abandonNote
    DispatchNote <- MCDispatchNote
    DefaultLimit = 2
    TaskName <- MCTaskName
    ProjectOf <- MCProjectOf
    ScopeNote <- MCScopeNote
    PlanNote <- MCPlanNote
    OutcomeNote = outcome
    ObservationLimit = 2
    StartTime = 0
    Workers = {"w1", "w2"}
    Commands <- RacingClose
    InitialGraphs <- StartDone
    AbandonDays = 0
    RetentionDays = 0
    MaxTime = 0
    MaxCommands = 2
PROPERTY ClosesAllDoneEpics
CHECK_DEADLOCK FALSE
