SPECIFICATION Spec
CONSTANTS
    Conns = {c1, c2, c3}
    Hellos = {h1, h2, h3}
    Skew = 1
    MaxEntries = 1
    Stamps <- NowAndBefore
    MaxTime = 3
    MaxGen = 1
SYMMETRY Symm
CHECK_DEADLOCK FALSE
INVARIANTS TypeOK OldHelloOnce CacheBound
