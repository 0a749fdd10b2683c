SPECIFICATION Spec
CONSTANTS
    app = app
    lib = lib
    light = light
    dark = dark
    s1 = s1
    s2 = s2
    home = home
    folder = folder
    None = None
    File <- MCFile
    Specifier <- MCSpecifier
    Uses <- Cyclic
    Setting <- MCSetting
    Initial = s1
    Resolve <- MCResolve
    Prepends <- PrependTheme
    Root = {home, folder}
    RootOf <- MCRootOf
    RootsOf <- MCRootsOf
    ExtraFolders = {folder}
    MaxDependencyFiles = 3
    WriterPreference = FALSE
    MaxIndexings = 3
    MaxChanges = 2
INVARIANTS
    NoReentry
    GraphClosed
PROPERTIES
    IndexingEnds
CHECK_DEADLOCK FALSE
