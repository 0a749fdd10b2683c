SPECIFICATION Spec
CONSTANTS
    main = main
    other = other
    lib = lib
    t0 = t0
    t1 = t1
    bad = bad
    big = big
    None = None
    Doc = main
    Uri <- MCUri
    Imports <- MCImports
    Text = {t0, t1, bad}
    Oversize = {}
    Unparsable = {bad}
    EditorFiles = {main}
    DiskFiles = {main}
    OpenVersion = {1, 2}
    OnDisk = t0
    MaxEvents = 5
INVARIANTS
    QuietMeansCurrent
    SessionsKeptApart
PROPERTIES
    ImplementsMailbox
    Converges
CHECK_DEADLOCK FALSE
