-------------------------- MODULE ServiceUninstall --------------------------
(***************************************************************************)
(* Removal of the systemd service: the admin API and the WebUI schedule    *)
(* service.Uninstall in a goroutine of the proxy itself, the command line  *)
(* runs deploy/uninstall.sh.  systemd is external: it is modelled as far   *)
(* as systemctl shows it to the code.  A unit stops by SIGTERM to every    *)
(* process of its control group (deploy/phantom-proxy.service sets no      *)
(* KillMode), and systemctl stop returns once they are all gone.           *)
(***************************************************************************)
CONSTANTS
    Reqs,       \* uninstall requests
    Hosts       \* hosts: [allow, systemctl, may, root, inUnit], see below

\* allow: management.allow_service_uninstall; systemctl: found in PATH; may: PID 1
\* takes this user's requests (root's always); root: os.Getuid() = 0; inUnit: the
\* proxy is the unit's own process, not one started by hand.
Host == [allow : BOOLEAN, systemctl : BOOLEAN, may : BOOLEAN, root : BOOLEAN, inUnit : BOOLEAN]

VARIABLES
    host,
    proc,       \* the proxy process: "running", "stopping" (SIGTERM), "gone"
    unit,       \* ActiveState: "active", "deactivating", "inactive"
    enabled,    \* the unit is started at boot
    installed,  \* unit file, /opt/phantomproxy and /etc/phantomproxy exist
    pc,         \* request -> where it, or its goroutine, is
    purge       \* request -> the flag it came with

vars == <<host, proc, unit, enabled, installed, pc, purge>>

Init ==
    /\ host \in Hosts
    /\ proc = "running" /\ unit = "active" /\ enabled = TRUE /\ installed = TRUE
    /\ pc = [r \in Reqs |-> "idle"] /\ purge = [r \in Reqs |-> FALSE]

Goto(r, to) == pc' = [pc EXCEPT ![r] = to]
Underway(r) == pc[r] \in {"scheduled", "stop", "purge"}

-----------------------------------------------------------------------------
(* The proxy *)

\* A wrong phrase, or the operation is disabled.
Refused(r, confirmed) ==
    /\ pc[r] = "idle" /\ proc = "running"
    /\ ~host.allow \/ ~confirmed
    /\ Goto(r, "refused")
    /\ UNCHANGED <<host, proc, unit, enabled, installed, purge>>

\* ScheduleUninstall: without systemctl the answer is a command to run by hand
\* (200), with it a goroutine is started (202).
ScheduleUninstall(r, confirmed, p) ==
    /\ pc[r] = "idle" /\ proc = "running"
    /\ host.allow /\ confirmed
    /\ Goto(r, IF host.systemctl THEN "scheduled" ELSE "manual")
    /\ purge' = [purge EXCEPT ![r] = p]
    /\ UNCHANGED <<host, proc, unit, enabled, installed>>

handleServiceUninstall(r, confirmed, p) ==
    Refused(r, confirmed) \/ ScheduleUninstall(r, confirmed, p)

\* After two seconds the goroutine calls Uninstall, whose first command asks
\* PID 1 to stop the unit: every process of the unit gets SIGTERM.
Stop(r) ==
    /\ pc[r] = "scheduled" /\ host.may
    /\ unit' = IF unit = "active" THEN "deactivating" ELSE unit
    /\ proc' = IF host.inUnit /\ proc = "running" THEN "stopping" ELSE proc
    /\ Goto(r, "stop")
    /\ UNCHANGED <<host, enabled, installed, purge>>

\* systemctl stop fails and Uninstall returns its error, which nobody reads: PID 1
\* refused, the 30 seconds are over, or systemctl, a process of the same unit, was
\* killed by the SIGTERM it asked for.
StopFails(r) ==
    /\ (pc[r] = "scheduled" /\ ~host.may) \/ pc[r] = "stop"
    /\ Goto(r, "failed")
    /\ UNCHANGED <<host, proc, unit, enabled, installed, purge>>

\* systemctl stop returns, then systemctl disable runs.
Disable(r) ==
    /\ pc[r] = "stop" /\ unit = "inactive"
    /\ enabled' = FALSE
    /\ Goto(r, IF purge[r] THEN "purge" ELSE "done")
    /\ UNCHANGED <<host, proc, unit, installed, purge>>

\* Only root may purge; the results of the removals are not looked at.
Purge(r) ==
    /\ pc[r] = "purge"
    /\ installed' = (installed /\ ~host.root)
    /\ Goto(r, IF host.root THEN "done" ELSE "failed")
    /\ UNCHANGED <<host, proc, unit, enabled, purge>>

\* runServer returns after the SIGTERM, and its goroutines end with it.
Exit ==
    /\ proc = "stopping"
    /\ proc' = "gone"
    /\ pc' = [r \in Reqs |-> IF Underway(r) THEN "killed" ELSE pc[r]]
    /\ UNCHANGED <<host, unit, enabled, installed, purge>>

-----------------------------------------------------------------------------
(* systemd, and the administrator *)

\* The stop job is finished: the unit has no process left, systemctl included.
UnitStopped ==
    /\ unit = "deactivating"
    /\ host.inUnit => proc = "gone" /\ \A r \in Reqs : pc[r] # "stop"
    /\ unit' = "inactive"
    /\ UNCHANGED <<host, proc, enabled, installed, pc, purge>>

\* The host is started again: the unit starts if it is enabled and still there.
Reboot ==
    /\ unit = "inactive"
    /\ unit' = IF enabled /\ installed THEN "active" ELSE "inactive"
    /\ proc' = IF host.inUnit /\ unit' = "active" THEN "running" ELSE "gone"
    /\ pc' = [r \in Reqs |-> IF Underway(r) THEN "killed" ELSE pc[r]]
    /\ UNCHANGED <<host, enabled, installed, purge>>

\* deploy/uninstall.sh, to its end: the unit is stopped with its processes,
\* disabled and removed.
RunScript(p) ==
    /\ unit' = "inactive" /\ enabled' = FALSE
    /\ installed' = (installed /\ ~p)
    /\ proc' = IF host.inUnit THEN "gone" ELSE proc
    /\ pc' = [r \in Reqs |-> IF host.inUnit /\ Underway(r) THEN "killed" ELSE pc[r]]
    /\ UNCHANGED <<host, purge>>

\* telegram-proxy uninstall, run by root in a shell, outside of the unit.
cmdUninstall(p) ==
    /\ host.root /\ unit # "deactivating"
    /\ RunScript(p)

Next ==
    \/ \E r \in Reqs, confirmed \in BOOLEAN, p \in BOOLEAN : handleServiceUninstall(r, confirmed, p)
    \/ \E r \in Reqs : Stop(r) \/ StopFails(r) \/ Disable(r) \/ Purge(r)
    \/ Exit \/ UnitStopped \/ Reboot
    \/ \E p \in BOOLEAN : cmdUninstall(p)

Spec == Init /\ [][Next]_vars

-----------------------------------------------------------------------------
(* Property *)

\* An uninstall was accepted, and none is under way.
UninstallOver ==
    /\ \E r \in Reqs : pc[r] \in {"done", "failed", "killed"}
    /\ \A r \in Reqs : ~Underway(r)

\* docs/API.md:200, "Останавливает и отключает systemd-сервис на хосте": where
\* systemd takes the proxy's requests, a unit that stopped after an uninstall was
\* accepted (202) and has no uninstall under way is also disabled, so the next
\* boot does not bring the proxy back.
AcceptedUninstallDisables ==
    host.may /\ unit = "inactive" /\ UninstallOver => ~enabled
=============================================================================
