SPECIFICATION Spec
CONSTANTS
    t1 = t1
    t2 = t2
    k0 = k0
    k1 = k1
    k2 = k2
    k3 = k3
    None = None
SYMMETRY MCSymmetry
INVARIANTS
    TextExact
    DeltasMerge
    RevisionsExact
    ResultsExact
PROPERTIES
    EvictedOnlyWhenFull
CHECK_DEADLOCK FALSE
