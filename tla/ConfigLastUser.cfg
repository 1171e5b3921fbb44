SPECIFICATION Spec
CONSTANTS
    Names = {n1, n2}
    Hosts = {"h1"}
    Settings = {s1}
    Reqs = {r1}
    Ops = {"users", "settings"}
CHECK_DEADLOCK FALSE
INVARIANT DiskLoadable
