SPECIFICATION Spec
CONSTANTS
    Conns = {c1, c2, c3, c4}
    IPs = {a1, a2}
    Maxes = {0, 1, 2}
    MaxGen = 1
SYMMETRY Symm
CHECK_DEADLOCK FALSE
INVARIANTS TypeOK NoStuckSlot OvershootBounded
PROPERTY RefusalJustified
