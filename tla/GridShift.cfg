\* Both files may be replaced, one by an unreadable file.
SPECIFICATION FairSpec
CONSTANTS
    Cells <- MCCells
    Outside = 0
    Content <- MCContent
    Optional = {1}
    Kinds = {"hgridshift", "vgridshift", "gridshift"}
    MaxIterations = 3
    Addresses = {"a"}
    MaxPublished = 2
INVARIANTS
    AnswerFromOpenGrids
    NetworkErrorIsReported
    MandatoryGridsAreThere
PROPERTIES
    CallReturns
