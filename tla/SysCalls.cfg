SPECIFICATION Spec
CONSTANTS
    Slots = 4
    Vals = {"a", "b"}
    Height = 1
    Ops = {}
INVARIANTS TypeOK ArgsInArray EntriesMatch
PROPERTY AbsSpec
