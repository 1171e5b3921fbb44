-------------------------- MODULE ConnSlotsProofs --------------------------
(***************************************************************************)
(* Proofs about ConnSlots, for every set of connections, addresses and     *)
(* limits, and any number of limiter replacements.                         *)
(***************************************************************************)
EXTENDS ConnSlots, FiniteSetTheorems, TLAPS

\* The sets the limiter's counts are compared with are finite.
LEMMA SlotSetsFinite ==
    ASSUME NEW g, NEW i
    PROVE  /\ IsFiniteSet(Holders(g, i)) /\ Cardinality(Holders(g, i)) \in Nat
           /\ IsFiniteSet(Strays(g, i)) /\ Cardinality(Strays(g, i)) \in Nat
  <1>1. Holders(g, i) \subseteq Conns /\ Strays(g, i) \subseteq Conns
    BY DEF Holders, Live, Strays
  <1> QED
    BY <1>1, ConnsFinite, FS_Subset, FS_CardinalityType

\* One connection more, or one less, changes a cardinality by one.
LEMMA OneMore ==
    ASSUME NEW S, NEW T, NEW x, IsFiniteSet(S), x \notin S, T = S \cup {x}
    PROVE  Cardinality(T) = Cardinality(S) + 1
  BY FS_AddElement

LEMMA OneLess ==
    ASSUME NEW S, NEW T, NEW x, IsFiniteSet(S), x \in S, T = S \ {x}
    PROVE  Cardinality(T) = Cardinality(S) - 1
  BY FS_RemoveElement

\* Acquire(g, i) either changes nothing, or counts one more for i in g.
LEMMA AcquireEffect ==
    ASSUME TypeOK, NEW g \in Gens, NEW i \in IPs
    PROVE  /\ Acquire(g, i).ok \in BOOLEAN
           /\ Acquire(g, i).counts \in [Gens -> [IPs -> Nat]]
           /\ \A h \in Gens : \A j \in IPs :
                Acquire(g, i).counts[h][j] =
                  IF h = g /\ j = i /\ max[g] > 0 /\ Acquire(g, i).ok
                  THEN counts[h][j] + 1 ELSE counts[h][j]
           /\ Acquire(g, i).ok <=> (max[g] <= 0 \/ counts[g][i] < max[g])
  <1> USE MaxesInt DEF TypeOK
  <1>1. max[g] \in Int /\ counts[g][i] \in Nat
    OBVIOUS
  <1>2. CASE max[g] <= 0 \/ counts[g][i] >= max[g]
    BY <1>1, <1>2 DEF Acquire
  <1>3. CASE max[g] > 0 /\ counts[g][i] < max[g]
    <2> DEFINE d == [counts EXCEPT ![g][i] = @ + 1]
    <2>1. Acquire(g, i) = [ok |-> TRUE, counts |-> d]
      BY <1>1, <1>3 DEF Acquire
    <2>2. d \in [Gens -> [IPs -> Nat]]
      <3>1. [counts[g] EXCEPT ![i] = @ + 1] \in [IPs -> Nat]
        BY <1>1
      <3> QED BY <3>1
    <2>3. \A h \in Gens : \A j \in IPs :
            d[h][j] = IF h = g /\ j = i THEN counts[h][j] + 1 ELSE counts[h][j]
      OBVIOUS
    <2> QED
      BY <1>1, <1>3, <2>1, <2>2, <2>3
  <1> QED
    BY <1>1, <1>2, <1>3

\* Release(g, i) counts one less for i in g, and never less than none.
LEMMA ReleaseEffect ==
    ASSUME TypeOK, NEW g \in Gens, NEW i \in IPs
    PROVE  /\ Release(g, i) \in [Gens -> [IPs -> Nat]]
           /\ \A h \in Gens : \A j \in IPs :
                Release(g, i)[h][j] =
                  IF h = g /\ j = i /\ max[g] > 0 /\ counts[g][i] > 0
                  THEN counts[h][j] - 1 ELSE counts[h][j]
  <1> USE MaxesInt DEF TypeOK
  <1>1. max[g] \in Int /\ counts[g][i] \in Nat
    OBVIOUS
  <1>2. CASE max[g] <= 0
    BY <1>1, <1>2 DEF Release
  <1>3. CASE max[g] > 0
    <2> DEFINE d == [counts EXCEPT ![g][i] = IF @ <= 1 THEN 0 ELSE @ - 1]
    <2>1. Release(g, i) = d
      BY <1>1, <1>3 DEF Release
    <2>2. d \in [Gens -> [IPs -> Nat]]
      <3>1. [counts[g] EXCEPT ![i] = IF @ <= 1 THEN 0 ELSE @ - 1] \in [IPs -> Nat]
        BY <1>1
      <3> QED BY <3>1
    <2>3. \A h \in Gens : \A j \in IPs :
            d[h][j] = IF h = g /\ j = i
                      THEN (IF counts[g][i] <= 1 THEN 0 ELSE counts[g][i] - 1)
                      ELSE counts[h][j]
      OBVIOUS
    <2> QED
      BY <1>1, <1>3, <2>1, <2>2, <2>3
  <1> QED
    BY <1>1, <1>2, <1>3

LEMMA InitSlotInv == Init => SlotInv
  <1> SUFFICES ASSUME Init PROVE SlotInv
    OBVIOUS
  <1> USE MaxGenNat, MaxesInt
  <1>1. TypeOK
    BY DEF Init, TypeOK, Gens, Phases
  <1>2. GenOrder /\ FreshCounts
    BY DEF Init, GenOrder, FreshCounts, Gens
  <1>3. ASSUME NEW i \in IPs PROVE Accounting(i)
    <2>1. counts[limiter][i] = 0 /\ max[limiter] \in Int
      BY DEF Init, Gens
    <2>2. Holders(limiter, i) = {}
      BY DEF Init, Holders, Live
    <2> QED
      BY <2>1, <2>2, FS_EmptySet, SlotSetsFinite DEF Accounting
  <1> QED
    BY <1>1, <1>2, <1>3 DEF SlotInv

\* Type correctness is inductive on its own.
LEMMA NextTypeOK == TypeOK /\ [Next]_vars => TypeOK'
  <1> SUFFICES ASSUME TypeOK, [Next]_vars PROVE TypeOK'
    OBVIOUS
  <1> USE MaxGenNat, MaxesInt DEF TypeOK, Gens, Phases
  <1>1. ASSUME NEW c \in Conns, Accept(c) PROVE TypeOK'
    BY <1>1 DEF Accept
  <1>2. ASSUME NEW c \in Conns, Admit(c) PROVE TypeOK'
    <2>1. Acquire(limiter, ip[c]).counts \in [Gens -> [IPs -> Nat]]
      BY AcquireEffect
    <2> QED BY <1>2, <2>1 DEF Admit
  <1>3. ASSUME NEW c \in Conns, Start(c) PROVE TypeOK'
    BY <1>3 DEF Start
  <1>4. ASSUME NEW c \in Conns, HandlerReturns(c) PROVE TypeOK'
    BY <1>4 DEF HandlerReturns
  <1>5. ASSUME NEW c \in Conns, RunRelease(c) PROVE TypeOK'
    <2>1. Release(rel[c], ip[c]) \in [Gens -> [IPs -> Nat]]
      BY ReleaseEffect
    <2> QED BY <1>5, <2>1 DEF RunRelease
  <1>6. ASSUME NEW m \in Maxes, ReplaceLimiter(m) PROVE TypeOK'
    BY <1>6 DEF ReplaceLimiter
  <1>7. CASE UNCHANGED vars
    BY <1>7 DEF vars
  <1> QED
    BY <1>1, <1>2, <1>3, <1>4, <1>5, <1>6, <1>7 DEF Next

\* The order of limiter generations is preserved.
LEMMA NextGenOrder == TypeOK /\ GenOrder /\ [Next]_vars => GenOrder'
  <1> SUFFICES ASSUME TypeOK, GenOrder, [Next]_vars PROVE GenOrder'
    OBVIOUS
  <1> USE MaxGenNat DEF TypeOK, Gens, Phases, GenOrder
  <1>1. ASSUME NEW c \in Conns, Accept(c) \/ HandlerReturns(c) \/ RunRelease(c)
        PROVE  GenOrder'
    BY <1>1 DEF Accept, HandlerReturns, RunRelease
  <1>2. ASSUME NEW c \in Conns, Admit(c) PROVE GenOrder'
    BY <1>2 DEF Admit
  <1>3. ASSUME NEW c \in Conns, Start(c) PROVE GenOrder'
    BY <1>3 DEF Start
  <1>4. ASSUME NEW m \in Maxes, ReplaceLimiter(m) PROVE GenOrder'
    <2>1. limiter' = limiter + 1 /\ UNCHANGED <<acq, rel, pc>>
      BY <1>4 DEF ReplaceLimiter
    <2>2. limiter \in Int /\ \A c \in Conns : acq[c] \in Int /\ rel[c] \in Int
      OBVIOUS
    <2> HIDE DEF TypeOK
    <2> QED BY <2>1, <2>2
  <1>5. CASE UNCHANGED vars
    BY <1>5 DEF vars
  <1> QED
    BY <1>1, <1>2, <1>3, <1>4, <1>5 DEF Next

\* A limiter that is not in force yet stays empty.
LEMMA NextFreshCounts ==
    TypeOK /\ GenOrder /\ FreshCounts /\ [Next]_vars => FreshCounts'
  <1> SUFFICES ASSUME TypeOK, GenOrder, FreshCounts, [Next]_vars
               PROVE FreshCounts'
    OBVIOUS
  <1>0. limiter \in Int /\ limiter \in Gens /\ \A g \in Gens : g \in Int
    BY MaxGenNat DEF TypeOK, Gens
  <1>1. ASSUME NEW c \in Conns, Accept(c) \/ HandlerReturns(c) \/ Start(c)
        PROVE  FreshCounts'
    BY <1>1 DEF Accept, HandlerReturns, Start, FreshCounts
  <1>2. ASSUME NEW c \in Conns, Admit(c) PROVE FreshCounts'
    <2>1. \A h \in Gens : \A j \in IPs :
            counts'[h][j] # counts[h][j] => h = limiter /\ max[limiter] > 0
      <3>1. ip[c] \in IPs
        BY DEF TypeOK
      <3> QED BY <1>0, <1>2, <3>1, AcquireEffect DEF Admit
    <2>2. UNCHANGED <<limiter, max>>
      BY <1>2 DEF Admit
    <2>3. \A h \in Gens : max[h] \in Int
      BY MaxesInt DEF TypeOK
    <2> QED BY <1>0, <2>1, <2>2, <2>3 DEF FreshCounts
  <1>3. ASSUME NEW c \in Conns, RunRelease(c) PROVE FreshCounts'
    <2>1. rel[c] \in Gens /\ ip[c] \in IPs
      BY DEF TypeOK
    <2>2. \A h \in Gens : \A j \in IPs :
            counts'[h][j] # counts[h][j] => counts[h][j] > 0
      BY <1>3, <2>1, ReleaseEffect DEF RunRelease
    <2>3. UNCHANGED <<limiter, max>>
      BY <1>3 DEF RunRelease
    <2>4. ASSUME NEW g \in Gens, NEW i \in IPs, g > limiter \/ max[g] <= 0
          PROVE  counts'[g][i] = 0
      <3>1. counts[g][i] = 0
        BY <2>4 DEF FreshCounts
      <3> QED BY <2>2, <3>1
    <2> QED BY <2>3, <2>4 DEF FreshCounts
  <1>4. ASSUME NEW m \in Maxes, ReplaceLimiter(m) PROVE FreshCounts'
    <2>1. \A g \in Gens : g > limiter + 1 \/ g = limiter + 1 \/ g <= limiter
      BY <1>0
    <2>2. \A g \in Gens : max'[g] = IF g = limiter + 1 THEN m ELSE max[g]
      BY <1>4 DEF ReplaceLimiter, TypeOK
    <2> QED BY <1>0, <1>4, <2>1, <2>2 DEF ReplaceLimiter, FreshCounts
  <1>5. CASE UNCHANGED vars
    BY <1>5 DEF vars, FreshCounts
  <1> QED
    BY <1>1, <1>2, <1>3, <1>4, <1>5 DEF Next

\* The count of the limiter in force keeps following its holders.
LEMMA NextAccounting ==
    ASSUME SlotInv, [Next]_vars, NEW i \in IPs
    PROVE  Accounting(i)'
  <1>0. /\ TypeOK /\ Accounting(i) /\ GenOrder /\ FreshCounts
        /\ limiter \in Gens /\ limiter \in Nat /\ counts[limiter][i] \in Nat
        /\ max[limiter] \in Int
    <2>1. TypeOK /\ GenOrder /\ FreshCounts /\ Accounting(i)
      BY DEF SlotInv
    <2>2. limiter \in Gens /\ limiter \in Nat
      BY <2>1, MaxGenNat DEF TypeOK, Gens
    <2>3. counts[limiter][i] \in Nat /\ max[limiter] \in Int
      BY <2>1, <2>2, MaxesInt DEF TypeOK
    <2> QED BY <2>1, <2>2, <2>3
  <1>t. \A c \in Conns : /\ ip[c] \in IPs /\ pc[c] \in Phases
                         /\ acq[c] \in Gens /\ rel[c] \in Gens
                         /\ acq[c] \in Nat /\ rel[c] \in Nat
    BY <1>0, MaxGenNat DEF TypeOK, Gens
  <1>f. /\ IsFiniteSet(Holders(limiter, i)) /\ Cardinality(Holders(limiter, i)) \in Nat
        /\ IsFiniteSet(Strays(limiter, i)) /\ Cardinality(Strays(limiter, i)) \in Nat
    BY SlotSetsFinite
  <1>1. ASSUME NEW c \in Conns, Accept(c) \/ HandlerReturns(c) \/ Start(c)
        PROVE  Accounting(i)'
    <2>1. Holders(limiter, i)' = Holders(limiter, i)
      BY <1>0, <1>1 DEF Holders, Live, TypeOK, Accept, HandlerReturns, Start
    <2>2. Strays(limiter, i)' = Strays(limiter, i)
      BY <1>0, <1>1 DEF Strays, TypeOK, Accept, HandlerReturns, Start
    <2>3. UNCHANGED <<counts, max, limiter>>
      BY <1>1 DEF Accept, HandlerReturns, Start
    <2> QED
      BY <1>0, <2>1, <2>2, <2>3 DEF Accounting
  <1>2. ASSUME NEW c \in Conns, Admit(c) PROVE Accounting(i)'
    <2>1. UNCHANGED <<max, limiter, ip, rel>>
      BY <1>2 DEF Admit
    <2>2. Strays(limiter, i)' = Strays(limiter, i)
      BY <1>0, <1>2 DEF Strays, TypeOK, Admit
    <2>3. c \notin Holders(limiter, i)
      BY <1>0, <1>2 DEF Holders, Live, TypeOK, Admit
    <2>4. CASE ip[c] = i /\ pc'[c] = "admitted"
      <3>1. Holders(limiter, i)' = Holders(limiter, i) \cup {c}
        BY <1>0, <1>2, <2>4 DEF Holders, Live, TypeOK, Admit
      <3>2. Cardinality(Holders(limiter, i)') = Cardinality(Holders(limiter, i)) + 1
        BY <3>1, <2>3, <1>f, OneMore
      <3>3. \/ max[limiter] <= 0 /\ counts'[limiter][i] = 0
            \/ max[limiter] > 0 /\ counts[limiter][i] < max[limiter]
               /\ counts'[limiter][i] = counts[limiter][i] + 1
        <4>1. Acquire(limiter, i).ok /\ counts' = Acquire(limiter, i).counts
          BY <1>0, <1>2, <2>4 DEF Admit, TypeOK
        <4>2. max[limiter] <= 0 => counts[limiter][i] = 0
          BY <1>0 DEF FreshCounts
        <4>3. /\ max[limiter] <= 0 \/ counts[limiter][i] < max[limiter]
              /\ counts'[limiter][i] = IF max[limiter] > 0 THEN counts[limiter][i] + 1
                                       ELSE counts[limiter][i]
          BY <1>0, <4>1, AcquireEffect
        <4> QED
          BY <1>0, <4>2, <4>3
      <3> QED
        BY <1>0, <1>f, <2>1, <2>2, <3>2, <3>3 DEF Accounting
    <2>5. CASE ip[c] # i \/ pc'[c] # "admitted"
      <3>1. Holders(limiter, i)' = Holders(limiter, i)
        BY <1>0, <1>2, <2>5 DEF Holders, Live, TypeOK, Admit
      <3>2. counts'[limiter][i] = counts[limiter][i]
        <4>1. /\ counts' = Acquire(limiter, ip[c]).counts
              /\ Acquire(limiter, ip[c]).ok => pc'[c] = "admitted"
          BY <1>0, <1>2 DEF Admit, TypeOK
        <4> QED
          BY <1>0, <1>t, <2>5, <4>1, AcquireEffect
      <3> QED
        BY <1>0, <2>1, <2>2, <3>1, <3>2 DEF Accounting
    <2> QED
      BY <2>4, <2>5
  <1>3. ASSUME NEW c \in Conns, RunRelease(c) PROVE Accounting(i)'
    <2>1. UNCHANGED <<max, limiter, ip, rel, acq>>
      BY <1>3 DEF RunRelease
    <2>2. acq[c] <= rel[c] /\ rel[c] <= limiter /\ acq[c] \in Int /\ rel[c] \in Int
      BY <1>0, <1>t, <1>3 DEF RunRelease, GenOrder
    <2>3. CASE ip[c] # i \/ rel[c] # limiter
      <3>1. Holders(limiter, i)' = Holders(limiter, i)
        <4>1. acq[c] = limiter => rel[c] = limiter
          BY <1>0, <2>2
        <4> QED
          BY <1>0, <1>3, <2>3, <4>1 DEF Holders, Live, TypeOK, RunRelease
      <3>2. Strays(limiter, i)' = Strays(limiter, i)
        BY <1>0, <1>3, <2>3 DEF Strays, TypeOK, RunRelease
      <3>3. counts'[limiter][i] = counts[limiter][i]
        BY <1>0, <1>t, <1>3, <2>3, ReleaseEffect DEF RunRelease
      <3> QED
        BY <1>0, <2>1, <3>1, <3>2, <3>3 DEF Accounting
    <2>4. CASE ip[c] = i /\ rel[c] = limiter
      <3>1. counts'[limiter][i] =
              IF max[limiter] <= 0 \/ counts[limiter][i] = 0
              THEN counts[limiter][i] ELSE counts[limiter][i] - 1
        BY <1>0, <1>t, <1>3, <2>4, ReleaseEffect DEF RunRelease
      <3>2. CASE acq[c] = limiter
        <4>1. c \in Holders(limiter, i)
          BY <1>0, <1>3, <2>4, <3>2 DEF Holders, Live, TypeOK, RunRelease
        <4>2. Holders(limiter, i)' = Holders(limiter, i) \ {c}
          BY <1>0, <1>3, <3>2 DEF Holders, Live, TypeOK, RunRelease
        <4>3. Cardinality(Holders(limiter, i)') = Cardinality(Holders(limiter, i)) - 1
          BY <4>1, <4>2, <1>f, OneLess
        <4>4. Strays(limiter, i)' = Strays(limiter, i)
          BY <1>0, <1>3, <3>2 DEF Strays, TypeOK, RunRelease
        <4>5. Cardinality(Holders(limiter, i)') \in Nat
          <5>1. IsFiniteSet(Holders(limiter, i)')
            BY <4>2, <1>f, FS_Subset
          <5> QED BY <5>1, FS_CardinalityType
        <4>6. max[limiter] <= 0 => counts[limiter][i] = 0
          BY <1>0 DEF FreshCounts
        <4> QED
          BY <1>0, <1>f, <2>1, <3>1, <4>3, <4>4, <4>5, <4>6 DEF Accounting
      <3>3. CASE acq[c] # limiter
        <4>1. Holders(limiter, i)' = Holders(limiter, i)
          BY <1>0, <1>3, <3>3 DEF Holders, Live, TypeOK, RunRelease
        <4>2. c \notin Strays(limiter, i)
          BY <1>0, <1>3 DEF Strays, TypeOK, RunRelease
        <4>3. Strays(limiter, i)' = Strays(limiter, i) \cup {c}
          BY <1>0, <1>3, <2>4, <3>3 DEF Strays, TypeOK, RunRelease
        <4>4. Cardinality(Strays(limiter, i)') = Cardinality(Strays(limiter, i)) + 1
          BY <4>2, <4>3, <1>f, OneMore
        <4> QED
          BY <1>0, <1>f, <2>1, <3>1, <4>1, <4>4 DEF Accounting
      <3> QED
        BY <3>2, <3>3
    <2> QED
      BY <2>3, <2>4
  <1>4. ASSUME NEW m \in Maxes, ReplaceLimiter(m) PROVE Accounting(i)'
    <2>1. /\ limiter' = limiter + 1 /\ limiter + 1 \in Gens
          /\ counts'[limiter + 1][i] = 0 /\ max'[limiter + 1] \in Int
      BY <1>0, <1>4, MaxGenNat, MaxesInt DEF ReplaceLimiter, FreshCounts, TypeOK, Gens
    <2>2. Holders(limiter, i)' = {}
      BY <1>0, <1>4 DEF ReplaceLimiter, Holders, Live, GenOrder
    <2>3. Cardinality(Strays(limiter, i)') \in Nat
      <3>1. Strays(limiter, i)' \subseteq Conns
        BY DEF Strays
      <3> QED BY <3>1, ConnsFinite, FS_Subset, FS_CardinalityType
    <2>4. Cardinality(Holders(limiter, i)') = 0
      BY <2>2, FS_EmptySet
    <2> QED
      BY <2>1, <2>3, <2>4 DEF Accounting
  <1>5. CASE UNCHANGED vars
    BY <1>0, <1>5 DEF vars, Accounting, Holders, Live, Strays
  <1> QED
    BY <1>1, <1>2, <1>3, <1>4, <1>5 DEF Next

LEMMA NextSlotInv == SlotInv /\ [Next]_vars => SlotInv'
  BY NextTypeOK, NextGenOrder, NextFreshCounts, NextAccounting DEF SlotInv

\* The accounting behind the limiter is an invariant of every execution.
THEOREM SlotInvariance == Spec => []SlotInv
  BY InitSlotInv, NextSlotInv, PTL DEF Spec

\* Type correctness of the limiter, the accept loop and the connections.
THEOREM TypeCorrect == Spec => []TypeOK
  <1>1. SlotInv => TypeOK
    BY DEF SlotInv
  <1> QED
    BY <1>1, SlotInvariance, PTL

\* No address is ever locked out by connections that are gone, however often
\* Reload or UpdateSettings replaced the limiter while they were alive.
THEOREM NoStuckSlotInvariance == Spec => []NoStuckSlot
  <1>1. SlotInv => NoStuckSlot
    BY DEF SlotInv, NoStuckSlot, Accounting
  <1> QED
    BY <1>1, SlotInvariance, PTL

\* The limit of the limiter in force is exceeded by no more than the stray
\* releases it received from connections that started under an older limiter.
THEOREM OvershootInvariance == Spec => []OvershootBounded
  <1>1. SlotInv => OvershootBounded
    <2> SUFFICES ASSUME SlotInv, max[limiter] > 0, NEW i \in IPs
                 PROVE  Cardinality(Holders(limiter, i))
                          <= max[limiter] + Cardinality(Strays(limiter, i))
      BY DEF OvershootBounded
    <2>1. /\ counts[limiter][i] <= max[limiter]
          /\ Cardinality(Holders(limiter, i))
               <= counts[limiter][i] + Cardinality(Strays(limiter, i))
      BY DEF SlotInv, Accounting
    <2>2. max[limiter] \in Int /\ counts[limiter][i] \in Nat
      BY MaxesInt DEF SlotInv, TypeOK, Gens
    <2> QED
      BY <2>1, <2>2, SlotSetsFinite
  <1> QED
    BY <1>1, SlotInvariance, PTL

\* A connection is refused only while its address holds max open slots of the
\* limiter in force.
THEOREM RefusalIsJustified == Spec => RefusalJustified
  <1>1. SlotInv /\ [Next]_vars =>
          [\A c \in Conns : pc[c] = "accepted" /\ pc'[c] = "refused" =>
             Cardinality(Holders(limiter, ip[c])) >= max[limiter]]_vars
    <2> SUFFICES ASSUME SlotInv, Next, NEW c \in Conns,
                        pc[c] = "accepted", pc'[c] = "refused"
                 PROVE  Cardinality(Holders(limiter, ip[c])) >= max[limiter]
      OBVIOUS
    <2> USE DEF SlotInv, TypeOK, Gens
    <2>1. Admit(c)
      BY DEF Next, Accept, Admit, Start, HandlerReturns, RunRelease, ReplaceLimiter
    <2>2. counts[limiter][ip[c]] >= max[limiter]
      BY <2>1 DEF Admit, Acquire
    <2>3. counts[limiter][ip[c]] <= Cardinality(Holders(limiter, ip[c]))
      BY DEF Accounting
    <2>4. /\ max[limiter] \in Int /\ counts[limiter][ip[c]] \in Nat
          /\ Cardinality(Holders(limiter, ip[c])) \in Nat
      BY MaxesInt, SlotSetsFinite
    <2> QED
      BY <2>2, <2>3, <2>4
  <1> QED
    BY <1>1, SlotInvariance, PTL DEF Spec, RefusalJustified
=============================================================================
