\* Documents edited once anywhere, and openings typed onto twice.
SPECIFICATION Spec
CONSTANTS
    MaxDepth = 16
    MaxScan = 30
    MaxSignals = 30
    Document <- MCDocument
    Opening <- MCOpening
    Inserted <- MCInserted
    MaxDeleted = 1
    MaxTyped = 2
INVARIANTS
    Total
    Lossless
    ErrorsReported
PROPERTIES
    ItemsStay
    ExactWhenCorrect
CHECK_DEADLOCK FALSE
