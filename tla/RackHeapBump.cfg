SPECIFICATION FairSpec
CONSTANTS
    HeapCells = 8
    Requests = {24, 30}
    Discipline = "any"
    Ops = {"store", "string", "combined", "empty", "reset"}
PROPERTIES SearchLeaves FaultsOnlyWhenFull AbsSpec
CHECK_DEADLOCK FALSE
