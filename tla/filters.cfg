SPECIFICATION Spec
CONSTANTS
    rock = rock
    jazz = jazz
    ann = ann
    bob = bob
    Tracks <- MCTracks
    N = 2
    Delayed <- MCDelayed
    MaxScans = 2
    MaxSelects = 2
INVARIANTS ValuesAreSelected QueriesChain ShowsLibrary
PROPERTY PanesLeaveScanning
CHECK_DEADLOCK FALSE
