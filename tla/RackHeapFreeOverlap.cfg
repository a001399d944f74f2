SPECIFICATION Spec
CONSTANTS
    HeapCells = 8
    Requests = {24, 90}
    Discipline = "any"
    Ops = {"free"}
INVARIANT LiveDisjoint
CHECK_DEADLOCK FALSE
