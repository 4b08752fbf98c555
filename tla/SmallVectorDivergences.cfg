CONSTANTS
    left = left
    right = right
    zero = zero
    one = one
    Raw = Raw
    Moved = Moved
    Bad = Bad
    Vectors <- MCVectors
    Values <- MCValues
    Default = zero
    Inline = 1
    SizeTypeMax = 3
    Blocks <- MCBlocks
    OwnRanges = TRUE
    EmptyRanges = FALSE
SPECIFICATION Spec
SYMMETRY AnyOrder
INVARIANTS
    HoldsItsSequence
