SPECIFICATION Spec
CONSTANTS
    Reqs = {r1}
    Hosts <- UnitHosts
CHECK_DEADLOCK FALSE
INVARIANT AcceptedUninstallDisables
