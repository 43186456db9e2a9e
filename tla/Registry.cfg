SPECIFICATION FairSpec
CONSTANTS
    Graphs = {"notes", "old", "Bad_Name"}
    ValidGraphs = {"notes", "old"}
    Requests = {r1}
    Sweeper = sweeper
    Locals = {l1}
    SharedGraphs = {"notes"}
    Absent = Absent
    Nobody = Nobody
    InitialFiles <- MCInitialFiles
INVARIANT TypeOK
INVARIANT OneStore
INVARIANT StoresComplete
PROPERTY OthersUntouched
PROPERTY NewFilesShrink
PROPERTY SweepReaches
PROPERTY AllAnswered
CHECK_DEADLOCK FALSE
