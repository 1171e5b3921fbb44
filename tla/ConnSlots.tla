----------------------------- MODULE ConnSlots -----------------------------
(***************************************************************************)
(* Per-IP connection slots: the accept loop of internal/proxy/server.go,   *)
(* the goroutine it starts for each connection, the limiter of             *)
(* internal/limit/connlimit.go, and the replacement of that limiter by     *)
(* Runtime.Reload and Runtime.UpdateSettings.                              *)
(*                                                                         *)
(* rt.Limiter is a plain pointer: the accept loop reads it to Acquire, the *)
(* goroutine reads it again to defer the Release, and an admin request may *)
(* store a fresh limiter in between.  A limiter object is a generation     *)
(* number; "limiter" is the one rt.Limiter points to.                      *)
(***************************************************************************)
EXTENDS Integers, FiniteSets

CONSTANTS
    Conns,      \* identities of TCP connections; each one is accepted once
    IPs,        \* client addresses
    Maxes,      \* values max_connections_per_ip may be configured to
    MaxGen      \* bound: how often the limiter is replaced

ASSUME ConnsFinite == IsFiniteSet(Conns)
ASSUME MaxesInt == Maxes \subseteq Int
ASSUME MaxGenNat == MaxGen \in Nat

VARIABLES
    limiter,    \* generation of the limiter rt.Limiter points to
    max,        \* generation -> ConnLimiter.max
    counts,     \* generation -> IP -> ConnLimiter.counts (absent key = 0)
    loop,       \* the connection the accept loop is working on, or "none"
    pc,         \* connection -> where it is in its life
    ip,         \* connection -> its RemoteAddr host
    acq,        \* connection -> generation it acquired its slot from
    rel         \* connection -> generation its deferred Release is bound to

vars == <<limiter, max, counts, loop, pc, ip, acq, rel>>

Gens == 0..MaxGen
NoConn == "none"

\* accepted : returned by Accept, in the accept loop
\* admitted : Acquire succeeded, goroutine not yet running
\* running  : handleConnection, the Release already deferred
\* closed   : handleConnection returned (conn.Close done), Release pending
Phases == {"new", "accepted", "admitted", "running", "closed", "released", "refused"}

Init ==
    /\ limiter = 0
    /\ \E m \in Maxes : max = [g \in Gens |-> m]
    /\ counts = [g \in Gens |-> [i \in IPs |-> 0]]
    /\ loop = NoConn
    /\ pc = [c \in Conns |-> "new"]
    /\ ip \in [Conns -> IPs]
    /\ acq = [c \in Conns |-> 0]
    /\ rel = [c \in Conns |-> 0]

-----------------------------------------------------------------------------
(* ConnLimiter *)

\* Acquire takes a slot of limiter g for address i unless the address already
\* holds max of them; with max <= 0 there is no limit and nothing is counted.
Acquire(g, i) ==
    IF max[g] <= 0 THEN [ok |-> TRUE, counts |-> counts]
    ELSE IF counts[g][i] >= max[g] THEN [ok |-> FALSE, counts |-> counts]
    ELSE [ok |-> TRUE, counts |-> [counts EXCEPT ![g][i] = @ + 1]]

\* Mutants of Release: an absent count goes below zero; the last slot of an
\* address is never given back; a count of 2 is deleted with one still open.
ReleaseUnguarded(g, i) ==
    IF max[g] <= 0 THEN counts ELSE [counts EXCEPT ![g][i] = @ - 1]
ReleaseKeepsLast(g, i) ==
    IF max[g] <= 0 \/ counts[g][i] <= 1 THEN counts
    ELSE [counts EXCEPT ![g][i] = @ - 1]
ReleaseDropsTwo(g, i) ==
    IF max[g] <= 0 THEN counts
    ELSE [counts EXCEPT ![g][i] = IF @ <= 2 THEN 0 ELSE @ - 1]

\* Release gives one back; a count of 1, or an absent one, is deleted.
Release(g, i) ==
    IF max[g] <= 0 THEN counts
    ELSE [counts EXCEPT ![g][i] = IF @ <= 1 THEN 0 ELSE @ - 1]

-----------------------------------------------------------------------------
(* The accept loop: one goroutine, one connection at a time. *)

\* ln.Accept returned c (the PROXY preamble, if any, is already parsed).
Accept(c) ==
    /\ loop = NoConn
    /\ pc[c] = "new"
    /\ loop' = c
    /\ pc' = [pc EXCEPT ![c] = "accepted"]
    /\ UNCHANGED <<limiter, max, counts, ip, acq, rel>>

\* s.rt.Limiter.Acquire(conn): a refused connection is closed at once, an
\* admitted one is handed to a new goroutine.
Admit(c) ==
    /\ loop = c
    /\ pc[c] = "accepted"
    /\ LET r == Acquire(limiter, ip[c])
       IN /\ counts' = r.counts
          /\ pc' = [pc EXCEPT ![c] = IF r.ok THEN "admitted" ELSE "refused"]
    /\ acq' = [acq EXCEPT ![c] = limiter]
    /\ loop' = NoConn
    /\ UNCHANGED <<limiter, max, ip, rel>>

(* The goroutine of connection c. *)

\* "defer s.rt.Limiter.Release(c)" evaluates the pointer here, when the
\* goroutine gets to run, not when the slot was taken.
Start(c) ==
    /\ pc[c] = "admitted"
    /\ pc' = [pc EXCEPT ![c] = "running"]
    /\ rel' = [rel EXCEPT ![c] = limiter]
    /\ UNCHANGED <<limiter, max, counts, loop, ip, acq>>

\* handleConnection returns; its own "defer conn.Close()" closes the socket.
HandlerReturns(c) ==
    /\ pc[c] = "running"
    /\ pc' = [pc EXCEPT ![c] = "closed"]
    /\ UNCHANGED <<limiter, max, counts, loop, ip, acq, rel>>

\* The deferred Release runs after handleConnection returned.
RunRelease(c) ==
    /\ pc[c] = "closed"
    /\ counts' = Release(rel[c], ip[c])
    /\ pc' = [pc EXCEPT ![c] = "released"]
    /\ UNCHANGED <<limiter, max, loop, ip, acq, rel>>

-----------------------------------------------------------------------------
(* Runtime *)

\* Mutant: the new limiter inherits the old one's counts.
ReplaceLimiterKeepsCounts(m) ==
    /\ limiter < MaxGen
    /\ limiter' = limiter + 1
    /\ max' = [max EXCEPT ![limiter + 1] = m]
    /\ counts' = [counts EXCEPT ![limiter + 1] = counts[limiter]]
    /\ UNCHANGED <<loop, pc, ip, acq, rel>>

\* Reload and UpdateSettings install NewConnLimiter(m): no counts, no link to
\* the slots still held in the limiter it replaces.
ReplaceLimiter(m) ==
    /\ limiter < MaxGen
    /\ limiter' = limiter + 1
    /\ max' = [max EXCEPT ![limiter + 1] = m]
    /\ UNCHANGED <<counts, loop, pc, ip, acq, rel>>

Next ==
    \/ \E c \in Conns :
        \/ Accept(c)
        \/ Admit(c)
        \/ Start(c)
        \/ HandlerReturns(c)
        \/ RunRelease(c)
    \/ \E m \in Maxes : ReplaceLimiter(m)

Spec == Init /\ [][Next]_vars

-----------------------------------------------------------------------------
(* Properties *)

TypeOK ==
    /\ limiter \in Gens
    /\ max \in [Gens -> Maxes]
    /\ counts \in [Gens -> [IPs -> Nat]]
    /\ loop \in Conns \cup {NoConn}
    /\ pc \in [Conns -> Phases]
    /\ ip \in [Conns -> IPs]
    /\ acq \in [Conns -> Gens]
    /\ rel \in [Conns -> Gens]

\* Connections of address i that are open, or whose Release has yet to run.
Live(i) == {c \in Conns : ip[c] = i /\ pc[c] \in {"admitted", "running", "closed"}}

\* ... of those, the ones that took their slot from limiter g.
Holders(g, i) == {c \in Live(i) : acq[c] = g}

\* Connections that released into limiter g a slot they had taken elsewhere.
Strays(g, i) == {c \in Conns : /\ ip[c] = i /\ pc[c] = "released"
                               /\ rel[c] = g /\ acq[c] # g}

\* The limiter in force never counts more slots for an address than the
\* connections that hold them: an address is not locked out by connections
\* that are gone, whatever limiter replacement happened while they lived.
NoStuckSlot ==
    \A i \in IPs : counts[limiter][i] <= Cardinality(Holders(limiter, i))

\* Refusal is justified: Acquire turns a connection away only while the
\* address holds max open slots taken from the limiter in force.
RefusalJustified ==
    [][\A c \in Conns : pc[c] = "accepted" /\ pc'[c] = "refused" =>
          Cardinality(Holders(limiter, ip[c])) >= max[limiter]]_vars

\* How far the limit can be exceeded: the slots of the limiter in force held
\* by one address are at most max, plus one for every connection that took its
\* slot from an older limiter but released it into this one.
OvershootBounded ==
    max[limiter] > 0 =>
        \A i \in IPs : Cardinality(Holders(limiter, i))
                         <= max[limiter] + Cardinality(Strays(limiter, i))

-----------------------------------------------------------------------------
(* The inductive invariant behind NoStuckSlot and OvershootBounded. *)

\* A connection acquires from, and binds its release to, a limiter that has
\* been installed, and never releases into an older one than it acquired from.
GenOrder ==
    \A c \in Conns :
        /\ acq[c] <= limiter
        /\ rel[c] <= limiter
        /\ pc[c] \in {"running", "closed", "released"} => acq[c] <= rel[c]

\* A limiter that is not installed yet, or does not limit, counts nothing.
FreshCounts ==
    \A g \in Gens : \A i \in IPs :
        g > limiter \/ max[g] <= 0 => counts[g][i] = 0

\* The count is the number of holders, less at most the stray releases.
Accounting(i) ==
    /\ counts[limiter][i] <= Cardinality(Holders(limiter, i))
    /\ max[limiter] > 0 =>
         /\ counts[limiter][i] <= max[limiter]
         /\ Cardinality(Holders(limiter, i))
              <= counts[limiter][i] + Cardinality(Strays(limiter, i))

SlotInv == TypeOK /\ GenOrder /\ FreshCounts /\ \A i \in IPs : Accounting(i)
=============================================================================
