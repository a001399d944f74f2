SPECIFICATION FairSpec
CONSTANTS
    HeapCells = 6
    Requests = {24, 30}
    Discipline = "any"
    Ops = {"free", "grow", "string", "reset"}
INVARIANTS TypeOK
PROPERTIES OnlyMovesTurnBack SearchEnds
CHECK_DEADLOCK FALSE
