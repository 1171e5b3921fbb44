SPECIFICATION Spec
CONSTANTS
    Conns = {c1}
    IPs = {a}
    Users = {u1}
    Kinds = {"http"}
    Protocols = {"faketls", "secure"}
    FrontingActions = {"splice"}
    MiddleProxy = FALSE
    Thresholds = {2}
    Window = 1
    Duration = 1
    HandshakeTimeout = 1
    MaxTime = 2
CHECK_DEADLOCK FALSE
INVARIANT FallbackSeesRequest
