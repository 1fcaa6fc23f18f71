SPECIFICATION Spec
CONSTANTS
    Names <- MCNames
    Values <- MCValues
    Keys <- MCKeys
    None = None
    n1 = n1
    n2 = n2
    v1 = v1
    v2 = v2
    k1 = k1
    k2 = k2
    k3 = k3
INVARIANT TypeOK
INVARIANT DumpShowsRecentOnly
PROPERTY ImplementsContract
