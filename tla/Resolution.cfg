CONSTANTS
    Files <- MCFiles
    Names <- MCNames
    Uses <- MCUses
    LoadPaths <- MCLoadPaths
    Registered <- MCRegistered
    Builtins <- MCBuiltins
    NodeModules = TRUE
    MaxChanges = 2

SPECIFICATION MCSpec

INVARIANTS
    StaleOnlyByCreation
    QuietEdgesLand
    OfferedPathsResolve

PROPERTIES
    OneFileMatters
