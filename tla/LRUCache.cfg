\* A cache of three entries for four keys.
SPECIFICATION Spec
CONSTANTS
    Keys = {k1, k2, k3, k4}
    Values = {v1, v2}
    Capacity = 3
    None = None
INVARIANTS
    Linked
PROPERTY
    ImplementsLRUMap
