------------------------ MODULE MCServiceUninstall ------------------------
(* Instance of ServiceUninstall for TLC. *)
EXTENDS ServiceUninstall

\* A host as deploy/install.sh sets it up, with removal allowed, except that the
\* unit runs as a user whose requests systemd takes.
UnitHosts == {[allow |-> TRUE, systemctl |-> TRUE, may |-> TRUE, root |-> r, inUnit |-> TRUE] : r \in BOOLEAN}
=============================================================================
