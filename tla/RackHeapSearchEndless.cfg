SPECIFICATION FairSpec
CONSTANTS
    HeapCells = 6
    Requests = {24}
    Discipline = "any"
    Ops = {"free"}
PROPERTY SearchLeaves
CHECK_DEADLOCK FALSE
