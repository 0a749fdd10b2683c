CONSTANTS
    Projects <- MCProjects
    NewName = "new"
    MaxEdits = 1
    LoadPaths <- MCLoadPaths
    Registered <- MCRegistered
    Builtins <- MCBuiltins
    BuiltinSymbols <- MCBuiltinSymbols
    CssGlobalFunctions <- MCCssGlobalFunctions
    Wide <- MCWide
    NodeModules = FALSE
    MaxDepth = 32
    MaxScan = 60
    MaxSignals = 60

SPECIFICATION Spec

INVARIANTS
    ReferencesAreUses
    CursorAgrees
    LinksAreEdges
    CallsAgree
    OfferedResolves
    HintsMatchSignature
    MiscountsAreReal
    PositionsRoundTrip
    TokensMarkNames

PROPERTIES
    RenameKeepsMeaning
    AutoImportCures
    RemovalKeepsMeaning
    ExtractionKeepsSense
    RefreshSuffices

CHECK_DEADLOCK FALSE
