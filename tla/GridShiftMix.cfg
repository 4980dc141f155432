\* No file is replaced: one with a 3D grid, one with the two others.
SPECIFICATION Spec
CONSTANTS
    Cells <- MCCells
    Outside = 0
    Content <- MCMixContent
    Optional = {}
    Kinds = {"gridshift"}
    MaxIterations = 3
    Addresses = {"a"}
    MaxPublished = 0
INVARIANTS
    SameAnswer
