SPECIFICATION Spec
CONSTANTS
    Files <- MCFiles
    Second = 2
    MaxSeeks = 2
INVARIANTS NoGaps EndIsTheEnd ListedLengthPlays
PROPERTY ReadingEnds
CHECK_DEADLOCK FALSE
