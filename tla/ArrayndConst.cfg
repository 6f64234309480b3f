\* A constant array of 2 x 2 elements, and what views of it may be written.
SPECIFICATION Spec
CONSTANTS
    Arrays = {a, b}
    Shapes <- MCShapes
    Ranges <- MCRanges
    Slices <- MCSlices
    Factors <- MCFactors
    Values = {0, 1}
    Initial = {0}
    TrueValue = 1
    Op <- MCOp
    Rel <- MCRel
    MaxBuffers = 2
    MaxAxes = 2
    MaxWrites = 1
PROPERTIES
    ConstantsUnchanged
CHECK_DEADLOCK FALSE
SYMMETRY MCSymmetry
