SPECIFICATION Spec
CONSTANTS
    StackSize = 8
    Words = {0, 1}
    Rets = {0, 1}
    Ops = {"rerun_any"}
INVARIANT FramesNested
CHECK_DEADLOCK FALSE
