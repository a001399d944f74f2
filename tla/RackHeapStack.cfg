SPECIFICATION Spec
CONSTANTS
    HeapCells = 7
    Requests = {24, 30}
    Discipline = "stack"
    Ops = {"free", "shrink", "store", "string", "combined"}
INVARIANTS LiveDisjoint LiveHeaders LiveSafebytes FreeJoined
PROPERTIES AbsSpec
CHECK_DEADLOCK FALSE
