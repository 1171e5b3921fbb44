---------------------------- MODULE AntiReplay -----------------------------
(***************************************************************************)
(* Replay protection of the fake-TLS handshake: ReplayCache.Check          *)
(* (internal/faketls/replay.go) followed by the timestamp test of          *)
(* validateClientHello, as handleFakeTLSPath runs them for concurrent      *)
(* connections.  All ClientHellos here carry a valid digest; a hello is    *)
(* identified by its random, which is the cache key and hides ts.          *)
(*                                                                         *)
(* The cache measures ages on the fine clock, the timestamp test compares  *)
(* whole seconds.  Time runs in half seconds, enough to tell the two       *)
(* apart.  TTL (2 minutes) and timestampSkewSeconds (120) are the same     *)
(* length in the code: one constant.                                       *)
(*                                                                         *)
(* Runtime.Reload replaces the cache.  A goroutine that has read           *)
(* s.rt.Replay goes on with the cache it read, so caches are numbered, and *)
(* a replaced one may still be looked into and filled.                     *)
(***************************************************************************)
EXTENDS Integers, FiniteSets

CONSTANTS
    Conns,          \* connections, each presents one ClientHello
    Hellos,         \* distinct ClientHellos
    Skew,           \* timestampSkewSeconds = TTL, in seconds
    MaxEntries,     \* ReplayCache.max
    Stamps,         \* timestamps the clients put into their hellos, in seconds
    MaxTime,        \* bound on the clock, in half seconds
    MaxGen          \* bound on the reloads

ASSUME SkewNat == Skew \in Nat
ASSUME MaxEntriesNat == MaxEntries \in Nat \ {0}    \* NewReplayCache has a default
ASSUME StampsInt == Stamps \subseteq Int
ASSUME MaxTimeNat == MaxTime \in Nat
ASSUME MaxGenNat == MaxGen \in Nat
ASSUME HellosFinite == IsFiniteSet(Hellos)

TicksPerSecond == 2
TTL == Skew * TicksPerSecond
Unix(t) == t \div TicksPerSecond        \* time.Time.Unix
Gens == 0..MaxGen

VARIABLES
    now,        \* the clock
    ts,         \* hello -> timestamp the client encoded
    gen,        \* number of the cache that is Runtime.Replay
    seen, at,   \* cache -> ReplayCache.entries: keys, and key -> time
    pc,         \* connection -> step
    hello,      \* connection -> ClientHello it presents
    mine,       \* connection -> cache it has read from the Runtime
    chk,        \* connection -> time.Now() taken at the start of Check
    locked,     \* connection -> clock when it held the cache lock (history)
    lossy       \* caches that lost entries to the size limit (history)

vars == <<now, ts, gen, seen, at, pc, hello, mine, chk, locked, lossy>>

Init ==
    /\ now = 0
    /\ ts \in [Hellos -> Stamps]
    /\ gen = 0
    /\ seen = [g \in Gens |-> {}]
    /\ at = [g \in Gens |-> [h \in Hellos |-> 0]]
    /\ pc = [c \in Conns |-> "new"]
    /\ hello \in [Conns -> Hellos]
    /\ mine = [c \in Conns |-> 0]
    /\ chk = [c \in Conns |-> 0] /\ locked = [c \in Conns |-> 0]
    /\ lossy = {}

Tick ==
    /\ now < MaxTime
    /\ now' = now + 1
    /\ UNCHANGED <<ts, gen, seen, at, pc, hello, mine, chk, locked, lossy>>

\* s.rt.Replay, read without a lock.
ReadCache(c) ==
    /\ pc[c] = "new"
    /\ pc' = [pc EXCEPT ![c] = "calling"]
    /\ mine' = [mine EXCEPT ![c] = gen]
    /\ UNCHANGED <<now, ts, gen, seen, at, hello, chk, locked, lossy>>

\* Mutant: the time of expiry is computed backwards.
CheckStartBackwards(c) ==
    /\ pc[c] = "calling"
    /\ pc' = [pc EXCEPT ![c] = "locking"]
    /\ chk' = [chk EXCEPT ![c] = now - TTL]
    /\ UNCHANGED <<now, ts, gen, seen, at, hello, mine, locked, lossy>>

\* Check, before the lock: now := time.Now().
CheckStart(c) ==
    /\ pc[c] = "calling"
    /\ pc' = [pc EXCEPT ![c] = "locking"]
    /\ chk' = [chk EXCEPT ![c] = now]
    /\ UNCHANGED <<now, ts, gen, seen, at, hello, mine, locked, lossy>>

\* Mutant: entries expire a second early.
FreshTooShort(g, t) == {h \in seen[g] : t - at[g][h] <= TTL - TicksPerSecond}

\* evict, first loop: entries older than the TTL go.
Fresh(g, t) == {h \in seen[g] : t - at[g][h] <= TTL}

\* Mutant: the size limit is not enforced.
KeepAll(S) == {S}

\* evict, second loop: while there are more than max, any entry goes (Go's map
\* iteration order decides which).
Kept(S) ==
    IF Cardinality(S) <= MaxEntries THEN {S}
    ELSE {K \in SUBSET S : Cardinality(K) = MaxEntries}

\* Check under the lock: evict, then a hit, or a new entry.  The limit is
\* applied before the entry is added.
Check(c) ==
    /\ pc[c] = "locking"
    /\ LET g == mine[c]
       IN \E K \in Kept(Fresh(g, chk[c])) :
            /\ lossy' = IF K = Fresh(g, chk[c]) THEN lossy ELSE lossy \cup {g}
            /\ IF hello[c] \in K
               THEN /\ pc' = [pc EXCEPT ![c] = "replay"]
                    /\ seen' = [seen EXCEPT ![g] = K]
                    /\ UNCHANGED at
               ELSE /\ pc' = [pc EXCEPT ![c] = "checked"]
                    /\ seen' = [seen EXCEPT ![g] = K \cup {hello[c]}]
                    /\ at' = [at EXCEPT ![g][hello[c]] = chk[c]]
    /\ locked' = [locked EXCEPT ![c] = now]
    /\ UNCHANGED <<now, ts, gen, hello, mine, chk>>

\* validateClientHello: the timestamp is within the skew of the wall clock.
Validate(c) ==
    /\ pc[c] = "checked"
    /\ LET diff == Unix(now) - ts[hello[c]]
       IN pc' = [pc EXCEPT ![c] = IF -Skew <= diff /\ diff <= Skew
                                  THEN "accepted" ELSE "stale"]
    /\ UNCHANGED <<now, ts, gen, seen, at, hello, mine, chk, locked, lossy>>

\* Policy, fingerprint whitelist or a disabled user: refused before or instead
\* of the timestamp test, the entry stays.
Refuse(c) ==
    /\ pc[c] = "checked"
    /\ pc' = [pc EXCEPT ![c] = "refused"]
    /\ UNCHANGED <<now, ts, gen, seen, at, hello, mine, chk, locked, lossy>>

\* Runtime.Reload installs the next cache, which is still empty.
Reload ==
    /\ gen < MaxGen
    /\ gen' = gen + 1
    /\ UNCHANGED <<now, ts, seen, at, pc, hello, mine, chk, locked, lossy>>

Next ==
    \/ Tick
    \/ \E c \in Conns :
         \/ ReadCache(c) \/ CheckStart(c) \/ Check(c) \/ Validate(c) \/ Refuse(c)
    \/ Reload

Spec == Init /\ [][Next]_vars

-----------------------------------------------------------------------------
(* Properties *)

TypeOK ==
    /\ now \in Nat
    /\ ts \in [Hellos -> Stamps]
    /\ gen \in Gens
    /\ seen \in [Gens -> SUBSET Hellos]
    /\ at \in [Gens -> [Hellos -> Nat]]
    /\ pc \in [Conns -> {"new", "calling", "locking", "replay", "checked",
                         "accepted", "stale", "refused"}]
    /\ hello \in [Conns -> Hellos]
    /\ mine \in [Conns -> Gens]
    /\ chk \in [Conns -> Nat]
    /\ locked \in [Conns -> Nat]
    /\ lossy \subseteq Gens

\* Two connections looked into one cache that lost no entry to the size limit.
SameCache(c, d) == mine[c] = mine[d] /\ mine[c] \notin lossy

AcceptedTwice(c, d) ==
    /\ c # d /\ hello[c] = hello[d]
    /\ pc[c] = "accepted" /\ pc[d] = "accepted"

\* Whatever else a reload replaces meanwhile, one cache that lost nothing to the
\* size limit lets a ClientHello whose timestamp lies before the second in which
\* it was first checked through once: when its entry expires, the timestamp test
\* has begun to refuse it.
OldHelloOnce ==
    \A c, d \in Conns :
        AcceptedTwice(c, d) /\ SameCache(c, d) =>
            ts[hello[c]] >= Unix(chk[c]) \/ ts[hello[c]] >= Unix(chk[d])

\* Every cache, in use or replaced, exceeds its size by at most the entry being
\* added.
CacheBound == \A g \in Gens : Cardinality(seen[g]) <= MaxEntries + 1

-----------------------------------------------------------------------------
(* The inductive invariant behind OldHelloOnce. *)

Passed(c) == pc[c] \in {"checked", "accepted", "stale", "refused"}

\* A connection that passed the check is still protected by its own entry, or
\* the TTL has run out since.
Guarded(c) ==
    \/ hello[c] \in seen[mine[c]] /\ at[mine[c]][hello[c]] = chk[c]
    \/ now > chk[c] + TTL

ReplayInv ==
    /\ TypeOK
    /\ \A c \in Conns : chk[c] <= now /\ locked[c] <= now
    /\ \A c \in Conns : pc[c] = "accepted" => Unix(locked[c]) <= ts[hello[c]] + Skew
    /\ \A c \in Conns : Passed(c) /\ mine[c] \notin lossy => Guarded(c)
    /\ \A c, d \in Conns :
         c # d /\ hello[c] = hello[d] /\ Passed(c) /\ Passed(d) /\ SameCache(c, d) =>
           locked[d] > chk[c] + TTL \/ locked[c] > chk[d] + TTL
=============================================================================
