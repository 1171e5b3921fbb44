SPECIFICATION Spec
CONSTANTS
    Names = {n1, n2}
    Hosts = {"h1"}
    Settings = {s1, s2}
    Reqs = {r1, r2}
    Ops = {"users", "settings", "reload", "edit", "fail", "crash"}
SYMMETRY Symm
CHECK_DEADLOCK FALSE
INVARIANTS TypeOK AckedUserKept SettingsAgree UsersAgree
