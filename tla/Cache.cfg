SPECIFICATION Spec
CONSTANTS
    User = {u1, u2}
    first = first
    second = second
    broken = broken
    pass = pass
    none = none
    kept = kept
    Keeping = {none, kept}
    Source = {first, second, broken}
    Placeholder = pass
    Graph <- PartlyBuiltGraphs
    Unbuildable <- NotBuilt
    Nothing = Nothing
    d1 = d1
    d2 = d2
    Digest = {d1, d2}
    DigestOf <- CollidingDigest
    Garbage = Garbage
    MaxOrphans = 1
INVARIANTS ServesBuiltTree NoStrayTemp
PROPERTIES NoTornFile WarmStaysWarm ImplementsService
