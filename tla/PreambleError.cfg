SPECIFICATION Spec
CONSTANTS
    Addrs <- MixedHosts
    RelayAddrs <- RelayPort
    Modes = {"proxy"}
    Preambles = {TRUE}
    Reqs = {r1}
    Conns = {c1}
CHECK_DEADLOCK FALSE
INVARIANT PreambleCostsOneConnection
