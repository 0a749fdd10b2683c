SPECIFICATION Spec
CONSTANTS
    main = main
    other = other
    lib = lib
    t0 = t0
    t1 = t1
    bad = bad
    big = big
    None = None
    Doc = main
    Uri <- MCSharingUri
    Imports <- MCSharingImports
    Text = {t0, t1, bad, big}
    Oversize = {big}
    Unparsable = {bad}
    EditorFiles = {main}
    DiskFiles = {lib, other}
    OpenVersion = {1}
    OnDisk = t0
    MaxEvents = 4
INVARIANTS
    CascadeReaches
CHECK_DEADLOCK FALSE
