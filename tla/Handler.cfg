SPECIFICATION FairSpec
CONSTANTS
    Conns = {c1, c2}
    IPs = {a}
    Users = {u1}
    Kinds = {"ee", "dd", "badHello", "badInner"}
    Protocols = {"faketls", "secure"}
    FrontingActions = {"splice", "fallback", "redirect"}
    MiddleProxy = TRUE
    Thresholds = {1, 2}
    Window = 1
    Duration = 1
    HandshakeTimeout = 1
    MaxTime = 2
CHECK_DEADLOCK FALSE
INVARIANTS TypeOK StatsExact SpliceInOrder RelayOutlivesHandshake BlockedJustified
PROPERTY HandshakeBounded
