CONSTANTS
    Sources <- Programs
    MaxDepth = 2
SPECIFICATION ToolSpec
INVARIANTS TypeOK LabelsPlaced DataPlaced HeapAsDeclared InStep
PROPERTY AbsSpec
CHECK_DEADLOCK FALSE
