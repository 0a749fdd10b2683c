\* A depth limit that the texts reach.
SPECIFICATION Spec
CONSTANTS
    MaxDepth = 4
    MaxScan = 30
    MaxSignals = 30
    Document = {}
    Opening <- DeepOpening
    Inserted <- DeepInserted
    MaxDeleted = 0
    MaxTyped = 2
INVARIANTS
    Total
CHECK_DEADLOCK FALSE
