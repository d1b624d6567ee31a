SPECIFICATION Spec
CONSTANTS
    Handles = {1, 2}
    Bits <- MCBits
    Stray = {0, 16}
    Supports <- MCSupports
    Writes = {w1, w2}
INVARIANT HandleStays
CHECK_DEADLOCK FALSE
