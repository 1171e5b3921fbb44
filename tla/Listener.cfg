SPECIFICATION FairSpec
CONSTANTS
    Addrs <- MixedHosts
    RelayAddrs <- RelayPort
    Modes = {"proxy", "back"}
    Preambles = {TRUE, FALSE}
    Reqs = {r1, r2}
    Conns = {c1}
CHECK_DEADLOCK FALSE
INVARIANTS TypeOK NoListenerLeak DrainedOnExit AckedIsServed
PROPERTY LoopFollowsListener
