SPECIFICATION Spec
CONSTANTS
    first = first
    second = second
    third = third
    None = None
    Lists <- MCLists
    Default = first
    MaxOps = 5
INVARIANTS AllFollow StuckOnlyIfCrossed
PROPERTIES ComesToRest
CHECK_DEADLOCK FALSE
