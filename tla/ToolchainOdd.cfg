CONSTANTS
    Sources <- RegisterPrograms
    MaxDepth = 2
SPECIFICATION ToolSpec
INVARIANT InStep
CHECK_DEADLOCK FALSE
