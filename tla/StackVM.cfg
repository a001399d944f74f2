SPECIFICATION Spec
CONSTANTS
    StackSize = 8
    Words = {0, 1}
    Rets = {0, 1}
    Ops = {"main_returns", "rerun"}
INVARIANTS TypeOK FramesNested SentinelsIntact
PROPERTY AbsSpec
CHECK_DEADLOCK FALSE
