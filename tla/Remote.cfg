SPECIFICATION FairSpec
CONSTANTS
    Null = Null
    Unset = Unset
    Broken = Broken
    task = task
    next = next
    gone = gone
    abandonNote = abandonNote
    toA = toA
    c1 = c1
    c2 = c2
    Names <- MCNames
    NameRank <- MCNameRank
    Types = {"task"}
    Keys = {"status", "claimed_by"}
    Values <- MCValues
    Contents = {abandonNote, toA}
    RelTypes = {"part_of"}
    Spellings <- MCNames
    Norm <- MCNorm
    Agents <- MCAgents
    BlockedStatuses = {}
    AbandonNote = abandonNote
    DispatchNote <- MCDispatchNote
    DefaultLimit = 2
    Depth = 2
    DataDirs = {}
    Addresses = {"server", "nowhere"}
    GraphNames = {"asobi", "Bad_Name"}
    DefaultGraph = "asobi"
    Clients = {c1, c2}
    Commands <- MCCommands
    Server = "server"
    Builds <- MCBuilds
    ValidNames = {"asobi"}
    Unopenable = {}
    InitialTrees <- MCTrees
    Holdings <- MCHoldings
    Effect <- MCEffect
    InitialGraphs <- MCGraphs
    MaxCommands = 2
    MaxRestarts = 1
INVARIANT TypeOK
INVARIANT AnswersTrue
INVARIANT OldServersUncalled
INVARIANT OneWorkspace
PROPERTY FailsClosed
PROPERTY AtMostOnceKept
PROPERTY CommandsEnd
CHECK_DEADLOCK FALSE
