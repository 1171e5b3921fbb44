------------------------- MODULE AntiReplayProofs --------------------------
(***************************************************************************)
(* Proofs about AntiReplay.  The argument: a connection that passed the    *)
(* cache leaves an entry that either still guards its ClientHello or has   *)
(* outlived the TTL (Guarded), so two connections that passed with one     *)
(* hello held the cache lock more than a TTL apart; the timestamp test     *)
(* then leaves the second one only hellos that were not old at the first.  *)
(***************************************************************************)
EXTENDS AntiReplay, FiniteSetTheorems, TLAPS

-----------------------------------------------------------------------------
(* Whole seconds *)

\* Truncation to whole seconds keeps the order of two times.
LEMMA UnixMonotone ==
    ASSUME NEW s \in Nat, NEW t \in Nat, s <= t
    PROVE  Unix(s) \in Nat /\ Unix(s) <= Unix(t)
BY SMT DEF Unix, TicksPerSecond

\* More than a TTL later on the fine clock is at least Skew seconds later.
LEMMA TTLInSeconds ==
    ASSUME NEW s \in Nat, NEW t \in Nat, t > s + TTL
    PROVE  Unix(t) >= Unix(s) + Skew
BY SkewNat, SMT DEF Unix, TTL, TicksPerSecond

-----------------------------------------------------------------------------
(* The invariant *)

\* Every step of Check, validation, the clock and Reload keeps the types.
LEMMA TypeStep == TypeOK /\ [Next]_vars => TypeOK'
<1> SUFFICES ASSUME TypeOK, [Next]_vars PROVE TypeOK'
    OBVIOUS
<1>1. CASE Tick
  BY <1>1, SMT DEF Tick, TypeOK
<1>2. ASSUME NEW c \in Conns, CheckStart(c) PROVE TypeOK'
  BY <1>2 DEF CheckStart, TypeOK
<1>3. ASSUME NEW c \in Conns, Check(c) PROVE TypeOK'
  <2> DEFINE g == mine[c]
  <2>1. PICK K \in Kept(Fresh(g, chk[c])) :
          /\ lossy' = IF K = Fresh(g, chk[c]) THEN lossy ELSE lossy \cup {g}
          /\ IF hello[c] \in K
             THEN /\ pc' = [pc EXCEPT ![c] = "replay"]
                  /\ seen' = [seen EXCEPT ![g] = K]
                  /\ UNCHANGED at
             ELSE /\ pc' = [pc EXCEPT ![c] = "checked"]
                  /\ seen' = [seen EXCEPT ![g] = K \cup {hello[c]}]
                  /\ at' = [at EXCEPT ![g][hello[c]] = chk[c]]
    BY <1>3 DEF Check
  <2>2. /\ hello[c] \in Hellos /\ chk[c] \in Nat /\ now \in Nat /\ g \in Gens
        /\ seen \in [Gens -> SUBSET Hellos] /\ at \in [Gens -> [Hellos -> Nat]]
    BY DEF TypeOK
  <2> HIDE DEF g
  <2>3. K \subseteq Hellos
    BY <2>1, <2>2 DEF Kept, Fresh
  <2>4. /\ seen' \in [Gens -> SUBSET Hellos]
        /\ at' \in [Gens -> [Hellos -> Nat]]
        /\ pc' \in [Conns -> {"new", "calling", "locking", "replay", "checked",
                              "accepted", "stale", "refused"}]
    <3>1. seen' \in [Gens -> SUBSET Hellos]
      BY <2>1, <2>2, <2>3
    <3>2. at' = at \/ at' = [at EXCEPT ![g] = [@ EXCEPT ![hello[c]] = chk[c]]]
      BY <2>1
    <3>3. [at[g] EXCEPT ![hello[c]] = chk[c]] \in [Hellos -> Nat]
      BY <2>2
    <3>4. at' \in [Gens -> [Hellos -> Nat]]
      BY <2>2, <3>2, <3>3
    <3>5. pc' = [pc EXCEPT ![c] = "replay"] \/ pc' = [pc EXCEPT ![c] = "checked"]
      BY <2>1
    <3> QED BY <3>1, <3>4, <3>5 DEF TypeOK
  <2>5. lossy' \subseteq Gens
    BY <2>1, <2>2 DEF TypeOK
  <2>6. locked' \in [Conns -> Nat]
    BY <1>3, <2>2 DEF Check, TypeOK
  <2> QED BY <1>3, <2>4, <2>5, <2>6 DEF Check, TypeOK
<1>4. ASSUME NEW c \in Conns, Validate(c) PROVE TypeOK'
  BY <1>4 DEF Validate, TypeOK
<1>5. ASSUME NEW c \in Conns, Refuse(c) PROVE TypeOK'
  BY <1>5 DEF Refuse, TypeOK
<1>6. CASE Reload
  BY <1>6, MaxGenNat DEF Reload, TypeOK, Gens
<1>8. ASSUME NEW c \in Conns, ReadCache(c) PROVE TypeOK'
  BY <1>8 DEF ReadCache, TypeOK
<1>7. CASE UNCHANGED vars
  BY <1>7 DEF vars, TypeOK
<1> QED BY <1>1, <1>2, <1>3, <1>4, <1>5, <1>6, <1>7, <1>8 DEF Next

\* The initial states satisfy the invariant: nobody has passed the cache.
LEMMA ReplayInit == Init => ReplayInv
<1> SUFFICES ASSUME Init PROVE ReplayInv
    OBVIOUS
<1>1. TypeOK
  BY MaxGenNat DEF Init, TypeOK, Gens
<1>2. \A c \in Conns : chk[c] <= now /\ locked[c] <= now
  BY DEF Init
<1>3. \A c \in Conns : pc[c] # "accepted" /\ ~Passed(c)
  BY DEF Init, Passed
<1> QED BY <1>1, <1>2, <1>3 DEF ReplayInv

\* The step that matters: Check under the lock.
LEMMA CheckStep ==
    ASSUME ReplayInv, TypeOK', NEW c \in Conns, Check(c)
    PROVE  ReplayInv'
<1> USE DEF ReplayInv
<1> DEFINE g == mine[c]
<1>1. PICK K \in Kept(Fresh(g, chk[c])) :
        /\ lossy' = IF K = Fresh(g, chk[c]) THEN lossy ELSE lossy \cup {g}
        /\ IF hello[c] \in K
           THEN /\ pc' = [pc EXCEPT ![c] = "replay"]
                /\ seen' = [seen EXCEPT ![g] = K]
                /\ UNCHANGED at
           ELSE /\ pc' = [pc EXCEPT ![c] = "checked"]
                /\ seen' = [seen EXCEPT ![g] = K \cup {hello[c]}]
                /\ at' = [at EXCEPT ![g][hello[c]] = chk[c]]
  BY DEF Check
<1>2. /\ now' = now /\ ts' = ts /\ hello' = hello /\ chk' = chk /\ mine' = mine
      /\ locked' = [locked EXCEPT ![c] = now]
      /\ pc[c] = "locking"
  BY DEF Check
<1>3. /\ now \in Nat /\ hello \in [Conns -> Hellos] /\ mine \in [Conns -> Gens]
      /\ chk \in [Conns -> Nat] /\ locked \in [Conns -> Nat]
      /\ at \in [Gens -> [Hellos -> Nat]] /\ seen \in [Gens -> SUBSET Hellos]
      /\ DOMAIN pc = Conns /\ TTL \in Nat /\ g \in Gens /\ mine[c] = g
  BY SkewNat, SMT DEF TypeOK, TTL, TicksPerSecond
<1> HIDE DEF g
<1>4. \A d \in Conns : chk'[d] <= now' /\ locked'[d] <= now'
  BY <1>2, <1>3
<1>5. pc'[c] \in {"replay", "checked"} /\ \A d \in Conns \ {c} : pc'[d] = pc[d]
  BY <1>1, <1>3
<1>6. \A d \in Conns : pc'[d] = "accepted" => Unix(locked'[d]) <= ts'[hello'[d]] + Skew
  BY <1>2, <1>3, <1>5
<1>7. \A d \in Conns : mine[d] \notin lossy' =>
        mine[d] \notin lossy /\ (mine[d] = g => K = Fresh(g, chk[c]))
  BY <1>1
<1>8. ASSUME K = Fresh(g, chk[c])
      PROVE  \A h \in Hellos : h \in K <=> h \in seen[g] /\ chk[c] - at[g][h] <= TTL
  BY <1>3, <1>8 DEF Fresh
<1>9. \A d \in Conns \ {c} : Passed(d)' <=> Passed(d)
  BY <1>5 DEF Passed
<1>10. \A k \in Gens \ {g} : seen'[k] = seen[k] /\ at'[k] = at[k]
  BY <1>1, <1>3
<1>11. ASSUME NEW d \in Conns, Passed(d)', mine[d] \notin lossy'
       PROVE  Guarded(d)'
  <2>1. CASE d = c
    BY <1>1, <1>2, <1>3, <1>11, <2>1 DEF Passed, Guarded
  <2>2. CASE d # c
    <3>1. Passed(d) /\ Guarded(d)
      BY <1>7, <1>9, <1>11, <2>2
    <3>2. CASE now > chk[d] + TTL
      BY <1>2, <3>2 DEF Guarded
    <3>3. CASE hello[d] \in seen[mine[d]] /\ at[mine[d]][hello[d]] = chk[d]
      <4>1. CASE mine[d] # g
        BY <1>2, <1>3, <1>10, <3>3, <4>1 DEF Guarded
      <4>2. CASE mine[d] = g /\ hello[d] \in K
        <5>1. hello[d] \in seen'[g] /\ at'[g][hello[d]] = at[g][hello[d]]
          BY <1>1, <1>3, <4>2
        <5> QED BY <1>2, <3>3, <4>2, <5>1 DEF Guarded
      <4>3. CASE mine[d] = g /\ hello[d] \notin K
        <5>1. chk[c] - chk[d] > TTL
          BY <1>3, <1>7, <1>8, <1>11, <3>3, <4>3
        <5> QED BY <1>2, <1>3, <5>1 DEF Guarded
      <4> QED BY <4>1, <4>2, <4>3
    <3> QED BY <3>1, <3>2, <3>3 DEF Guarded
  <2> QED BY <2>1, <2>2
<1>12. ASSUME NEW d \in Conns, d # c, hello[d] = hello[c], Passed(d), Passed(c)',
              mine[d] = g, g \notin lossy'
       PROVE  locked'[c] > chk[d] + TTL
  <2>1. hello[c] \notin K
    BY <1>1, <1>3, <1>12 DEF Passed
  <2>2. Guarded(d) /\ K = Fresh(g, chk[c])
    BY <1>7, <1>12
  <2>3. now > chk[d] + TTL
    BY <1>3, <1>8, <1>12, <2>1, <2>2 DEF Guarded
  <2> QED BY <1>2, <1>3, <2>3
<1>13. ASSUME NEW d \in Conns, NEW e \in Conns, d # e, hello'[d] = hello'[e],
              Passed(d)', Passed(e)', SameCache(d, e)'
       PROVE  locked'[e] > chk'[d] + TTL \/ locked'[d] > chk'[e] + TTL
  <2>0. hello[d] = hello[e] /\ mine[d] = mine[e] /\ mine[d] \notin lossy'
    BY <1>2, <1>13 DEF SameCache
  <2>1. CASE e = c
    BY <1>2, <1>3, <1>9, <1>12, <1>13, <2>0, <2>1
  <2>2. CASE d = c
    BY <1>2, <1>3, <1>9, <1>12, <1>13, <2>0, <2>2
  <2>3. CASE d # c /\ e # c
    <3>1. Passed(d) /\ Passed(e) /\ SameCache(d, e)
      BY <1>7, <1>9, <1>13, <2>0, <2>3 DEF SameCache
    <3>2. locked[e] > chk[d] + TTL \/ locked[d] > chk[e] + TTL
      BY <1>13, <2>0, <3>1
    <3> QED BY <1>2, <1>3, <2>3, <3>2
  <2> QED BY <2>1, <2>2, <2>3
<1>14. TTL' = TTL /\ Skew' = Skew
  BY DEF TTL, TicksPerSecond
<1> QED BY <1>2, <1>4, <1>6, <1>11, <1>13, <1>14 DEF Unix

\* Every other step keeps the invariant too: only time can weaken a guard.
LEMMA ReplayStep == ReplayInv /\ [Next]_vars => ReplayInv'
<1> SUFFICES ASSUME ReplayInv, [Next]_vars PROVE ReplayInv'
    OBVIOUS
<1>0. TypeOK' /\ TypeOK
  BY TypeStep DEF ReplayInv
<1>t. TTL \in Nat /\ Skew \in Nat
  BY SkewNat, SMT DEF TTL, TicksPerSecond
<1>1. CASE Tick
  <2>1. /\ now \in Nat /\ now' = now + 1
        /\ UNCHANGED <<ts, seen, at, pc, hello, mine, chk, locked, lossy>>
    BY <1>0, <1>1 DEF Tick, TypeOK
  <2>2. \A c \in Conns : chk[c] \in Nat /\ locked[c] \in Nat
    BY <1>0 DEF TypeOK
  <2>3. \A c \in Conns : Guarded(c) => Guarded(c)'
    BY <1>t, <2>1, <2>2 DEF Guarded, TTL
  <2> QED BY <1>0, <2>1, <2>2, <2>3 DEF ReplayInv, Passed, SameCache, Unix, TTL
<1>2. ASSUME NEW c \in Conns, CheckStart(c) PROVE ReplayInv'
  <2>1. /\ UNCHANGED <<now, ts, seen, at, hello, mine, locked, lossy>>
        /\ \A d \in Conns : Passed(d)' => d # c
        /\ \A d \in Conns \ {c} : pc'[d] = pc[d] /\ chk'[d] = chk[d]
        /\ pc'[c] = "locking" /\ chk'[c] = now
    BY <1>0, <1>2 DEF CheckStart, Passed, TypeOK
  <2>2. \A d \in Conns : chk'[d] <= now
    <3>1. now \in Nat /\ \A d \in Conns : chk[d] <= now
      BY <1>0 DEF ReplayInv, TypeOK
    <3> QED BY <2>1, <3>1
  <2>3. \A d \in Conns : Passed(d)' => Passed(d) /\ chk'[d] = chk[d] /\ (Guarded(d) => Guarded(d)')
    BY <2>1 DEF Passed, Guarded, TTL
  <2> QED BY <1>0, <2>1, <2>2, <2>3 DEF ReplayInv, SameCache, Unix, TTL
<1>3. ASSUME NEW c \in Conns, Check(c) PROVE ReplayInv'
  BY <1>0, <1>3, CheckStep
<1>4. ASSUME NEW c \in Conns, Validate(c) PROVE ReplayInv'
  <2>1. /\ UNCHANGED <<now, ts, seen, at, hello, mine, chk, locked, lossy>>
        /\ \A d \in Conns \ {c} : pc'[d] = pc[d]
        /\ pc[c] = "checked" /\ pc'[c] \in {"accepted", "stale"}
        /\ pc'[c] = "accepted" => Unix(now) - ts[hello[c]] <= Skew
    BY <1>0, <1>4 DEF Validate, TypeOK
  <2>2. \A d \in Conns : Passed(d)' <=> Passed(d)
    BY <2>1 DEF Passed
  <2>3. pc'[c] = "accepted" => Unix(locked[c]) <= ts[hello[c]] + Skew
    <3>1. now \in Nat /\ locked[c] \in Nat /\ locked[c] <= now /\ ts[hello[c]] \in Int
      BY <1>0, StampsInt DEF TypeOK, ReplayInv
    <3>2. Unix(locked[c]) \in Nat /\ Unix(now) \in Nat /\ Unix(locked[c]) <= Unix(now)
      BY <3>1, UnixMonotone
    <3> QED BY <1>t, <2>1, <3>1, <3>2
  <2>4. \A d \in Conns : pc'[d] = "accepted" => Unix(locked[d]) <= ts[hello[d]] + Skew
    BY <2>1, <2>3 DEF ReplayInv
  <2>5. \A d \in Conns : Guarded(d)' <=> Guarded(d)
    BY <2>1 DEF Guarded, TTL
  <2> QED BY <1>0, <2>1, <2>2, <2>4, <2>5 DEF ReplayInv, SameCache, Unix, TTL
<1>5. ASSUME NEW c \in Conns, Refuse(c) PROVE ReplayInv'
  <2>1. /\ UNCHANGED <<now, ts, seen, at, hello, mine, chk, locked, lossy>>
        /\ \A d \in Conns : Passed(d)' <=> Passed(d)
        /\ \A d \in Conns : pc'[d] = "accepted" => pc[d] = "accepted"
    BY <1>0, <1>5 DEF Refuse, Passed, TypeOK
  <2> QED BY <1>0, <2>1 DEF ReplayInv, Guarded, SameCache, Unix, TTL
<1>6. CASE Reload
  BY <1>0, <1>6 DEF Reload, ReplayInv, Passed, Guarded, SameCache, Unix, TTL
<1>7. CASE UNCHANGED vars
  BY <1>0, <1>7 DEF vars, ReplayInv, Passed, Guarded, SameCache, Unix, TTL
<1>8. ASSUME NEW c \in Conns, ReadCache(c) PROVE ReplayInv'
  <2>1. /\ UNCHANGED <<now, ts, seen, at, hello, chk, locked, lossy>>
        /\ \A d \in Conns : Passed(d)' => d # c /\ Passed(d)
        /\ \A d \in Conns \ {c} : mine'[d] = mine[d]
        /\ \A d \in Conns : pc'[d] = "accepted" => pc[d] = "accepted"
    BY <1>0, <1>8 DEF ReadCache, Passed, TypeOK
  <2> QED BY <1>0, <2>1 DEF ReplayInv, Guarded, SameCache, Unix, TTL
<1> QED BY <1>1, <1>2, <1>3, <1>4, <1>5, <1>6, <1>7, <1>8 DEF Next

\* Spec keeps the types and the guard of every ClientHello in the cache.
THEOREM ReplayInvariance == Spec => []ReplayInv
BY ReplayInit, ReplayStep, PTL DEF Spec

\* Every variable of the replay protection keeps its type.
THEOREM TypeCorrect == Spec => []TypeOK
<1>1. ReplayInv => TypeOK
  BY DEF ReplayInv
<1> QED BY <1>1, ReplayInvariance, PTL

\* What the guard means: one ReplayCache that lost nothing to its size limit and
\* the timestamp test together accept an old ClientHello at most once, for every
\* TTL, clock and number of concurrent connections, also while and after Reload
\* replaces the cache.
THEOREM OldHelloOnceInvariance == Spec => []OldHelloOnce
<1>1. ReplayInv => OldHelloOnce
  <2> SUFFICES ASSUME ReplayInv, NEW c \in Conns, NEW d \in Conns,
                      AcceptedTwice(c, d), SameCache(c, d)
               PROVE  ts[hello[c]] >= Unix(chk[c]) \/ ts[hello[c]] >= Unix(chk[d])
    BY DEF OldHelloOnce
  <2>1. locked[d] > chk[c] + TTL \/ locked[c] > chk[d] + TTL
    BY DEF ReplayInv, AcceptedTwice, Passed
  <2>2. /\ Unix(locked[c]) <= ts[hello[c]] + Skew
        /\ Unix(locked[d]) <= ts[hello[c]] + Skew
    BY DEF ReplayInv, AcceptedTwice
  <2>3. /\ chk[c] \in Nat /\ chk[d] \in Nat /\ locked[c] \in Nat /\ locked[d] \in Nat
        /\ ts[hello[c]] \in Int
    BY StampsInt DEF ReplayInv, TypeOK
  <2>4. Unix(chk[c]) \in Nat /\ Unix(chk[d]) \in Nat
    BY <2>3, UnixMonotone
  <2>5. CASE locked[d] > chk[c] + TTL
    <3>1. Unix(locked[d]) >= Unix(chk[c]) + Skew /\ Unix(locked[d]) \in Nat
      BY <2>3, <2>5, TTLInSeconds, UnixMonotone
    <3> QED BY <2>2, <2>3, <2>4, <3>1, SkewNat
  <2>6. CASE locked[c] > chk[d] + TTL
    <3>1. Unix(locked[c]) >= Unix(chk[d]) + Skew /\ Unix(locked[c]) \in Nat
      BY <2>3, <2>6, TTLInSeconds, UnixMonotone
    <3> QED BY <2>2, <2>3, <2>4, <3>1, SkewNat
  <2> QED BY <2>1, <2>5, <2>6
<1> QED BY <1>1, ReplayInvariance, PTL

-----------------------------------------------------------------------------
(* The size of the cache *)

\* evict leaves at most max entries, and Check adds one: the cache never
\* exceeds its size by more than that.
THEOREM CacheBoundInvariance == Spec => []CacheBound
<1>1. Init => CacheBound
  BY MaxEntriesNat, FS_EmptySet DEF Init, CacheBound
<1>2. TypeOK /\ CacheBound /\ [Next]_vars => CacheBound'
  <2> SUFFICES ASSUME TypeOK, CacheBound, [Next]_vars PROVE CacheBound'
    OBVIOUS
  <2>1. ASSUME NEW c \in Conns, Check(c) PROVE CacheBound'
    <3> DEFINE g == mine[c]
    <3>1. PICK K \in Kept(Fresh(g, chk[c])) :
            \/ seen' = [seen EXCEPT ![g] = K]
            \/ seen' = [seen EXCEPT ![g] = K \cup {hello[c]}]
      BY <2>1 DEF Check
    <3>2. Fresh(g, chk[c]) \subseteq Hellos /\ g \in Gens /\ seen \in [Gens -> SUBSET Hellos]
      BY DEF Fresh, TypeOK
    <3> HIDE DEF g
    <3>3. K \subseteq Hellos /\ Cardinality(K) <= MaxEntries
      BY <3>1, <3>2, MaxEntriesNat DEF Kept
    <3>4. IsFiniteSet(K)
      BY <3>3, HellosFinite, FS_Subset
    <3>5. Cardinality(K) \in Nat
      BY <3>4, FS_CardinalityType
    <3>6. Cardinality(K \cup {hello[c]}) <= Cardinality(K) + 1
      <4>1. CASE hello[c] \in K
        BY <3>5, <4>1, K \cup {hello[c]} = K
      <4>2. CASE hello[c] \notin K
        <5>1. Cardinality(K \cup {hello[c]}) = Cardinality(K) + 1
          BY <3>4, <4>2, FS_AddElement, Zenon
        <5> QED BY <3>5, <5>1
      <4> QED BY <4>1, <4>2
    <3>7. Cardinality(K \cup {hello[c]}) \in Nat
      BY <3>4, FS_AddElement, FS_CardinalityType
    <3>8. Cardinality(seen'[g]) <= MaxEntries + 1
      <4>1. Cardinality(K) <= MaxEntries + 1 /\ Cardinality(K \cup {hello[c]}) <= MaxEntries + 1
        BY <3>3, <3>5, <3>6, <3>7, MaxEntriesNat
      <4>2. CASE seen' = [seen EXCEPT ![g] = K]
        <5>1. seen'[g] = K
          BY <3>2, <4>2
        <5> QED BY <4>1, <5>1
      <4>3. CASE seen' = [seen EXCEPT ![g] = K \cup {hello[c]}]
        <5>1. seen'[g] = K \cup {hello[c]}
          BY <3>2, <4>3
        <5> QED BY <4>1, <5>1
      <4> QED BY <3>1, <4>2, <4>3
    <3>9. \A k \in Gens \ {g} : seen'[k] = seen[k]
      BY <3>1, <3>2
    <3> QED BY <3>8, <3>9 DEF CacheBound
  <2>2. CASE UNCHANGED seen
    BY <2>2 DEF CacheBound
  <2> QED BY <2>1, <2>2
       DEF Next, vars, Tick, ReadCache, CheckStart, Validate, Refuse, Reload
<1> QED BY <1>1, <1>2, TypeCorrect, PTL DEF Spec
=============================================================================
