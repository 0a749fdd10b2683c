\* Three files and caches of one entry: the LRU lists overflow at every turn.
SPECIFICATION Spec
CONSTANTS
    a = a
    b = b
    c = c
    x = x
    y = y
    None = None
    Uri = {a, b, c}
    SassFiles = {b}
    Text = {x, y}
    Worker = w
    Reader = {r}
    MaxTrees = 1
    MaxSources = 1
INVARIANTS
    Recoverable
    TreesTracked
    TreeListBounded
    Coherent
SYMMETRY Renamings
VIEW Behaviour
