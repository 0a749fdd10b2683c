\* Two tokens, and markers or errors at the first eight events.
SPECIFICATION Spec
CONSTANTS
    t = t
    k = k
    Token = {t}
    Input <- TwoTokens
    Kinds = {k}
    MaxEvents = 8
INVARIANTS
    TreeAsMarked
CHECK_DEADLOCK FALSE
