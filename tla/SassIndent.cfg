SPECIFICATION Spec
CONSTANTS
    None = None
    Kind <- MostKinds
    Indent = {0, 1, 2}
    MaxNesting = 2
INVARIANTS
    BracesBalance
    DeeperAndDeeper
    BlocksFollowUnlessAstray
PROPERTIES
    BracketsAreOneLine
CHECK_DEADLOCK FALSE
