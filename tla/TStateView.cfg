\* Two keys, so that operations on different keys interleave in the log, and two
\* values, so that a key is changed, and given its old value back.
CONSTANTS
    Keys = {k1, k2}
    Values = {a, b}
    None = None
    Unset = Unset
    MaxOps = 4
SPECIFICATION ViewSpec
INVARIANTS
    ViewInv
PROPERTIES
    ImplementsMap
