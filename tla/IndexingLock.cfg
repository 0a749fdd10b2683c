SPECIFICATION Spec
CONSTANTS
    app = app
    lib = lib
    light = light
    dark = dark
    s1 = s1
    s2 = s2
    home = home
    folder = folder
    None = None
    File <- MCFile
    Specifier <- MCSpecifier
    Uses <- Cyclic
    Setting <- MCSetting
    Initial = s1
    Resolve <- MCResolve
    Prepends <- NoPrepends
    Root = {home, folder}
    RootOf <- MCRootOf
    RootsOf <- MCRootsOf
    ExtraFolders = {folder}
    MaxDependencyFiles = 4
    WriterPreference = TRUE
    MaxIndexings = 1
    MaxChanges = 1
PROPERTIES
    ConfigurationApplied
CHECK_DEADLOCK FALSE
