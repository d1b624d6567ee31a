SPECIFICATION Spec
CONSTANTS
    albumA = albumA
    albumB = albumB
    Cats <- MCCats
    Blank = Blank
    MaxRows = 4
    MaxInsert = 2
INVARIANTS BlocksAreRuns HeadersDrawn
CONSTRAINT Mended
SYMMETRY MCSymmetry
CHECK_DEADLOCK FALSE
