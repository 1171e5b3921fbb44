------------------------- MODULE ConfigStoreProofs -------------------------
(***************************************************************************)
(* Proofs about ConfigStore, for any number of concurrent requests, users  *)
(* and settings, and every choice of operations and failures.              *)
(***************************************************************************)
EXTENDS ConfigStore, SequenceTheorems, WellFoundedInduction, TLAPS

ReqRec == [pc : {"idle", "toggle", "persist", "saving"} \cup ReloadSteps,
           op : {"none", "create", "update", "enable", "disable", "delete", "settings", "reload"},
           arg : Names \cup Settings \cup {"none"}, snap : File \cup {Empty}]
HostValues == Hosts \cup {"", DefaultHost}

-----------------------------------------------------------------------------
(* Lists of users *)

LEMMA NamesAppend ==
    ASSUME NEW us \in Seq(User), NEW u \in User
    PROVE  /\ Append(us, u) \in UserList
           /\ NamesOf(us) \subseteq NamesOf(Append(us, u)) /\ u.name \in NamesOf(Append(us, u))
<1>1. /\ Append(us, u) \in Seq(User) /\ Len(Append(us, u)) = Len(us) + 1 /\ Len(us) \in Nat
      /\ DOMAIN us = 1..Len(us) /\ DOMAIN Append(us, u) = 1..(Len(us) + 1)
      /\ \A i \in 1..Len(us) : Append(us, u)[i] = us[i]
      /\ Append(us, u)[Len(us) + 1] = u
  OBVIOUS
<1> QED BY <1>1 DEF NamesOf, UserList

LEMMA NamesReplace ==
    ASSUME NEW us \in UserList, NEW i \in DOMAIN us, NEW u \in User, us[i].name = u.name
    PROVE  [us EXCEPT ![i] = u] \in UserList /\ NamesOf([us EXCEPT ![i] = u]) = NamesOf(us)
<1> DEFINE new == [us EXCEPT ![i] = u]
<1>1. /\ us \in Seq(User) /\ Len(us) >= 1 /\ new \in Seq(User) /\ Len(new) = Len(us)
      /\ DOMAIN new = DOMAIN us /\ \A j \in DOMAIN us : new[j].name = us[j].name
  BY DEF UserList
<1> QED BY <1>1 DEF NamesOf, UserList

LEMMA NamesRemove ==
    ASSUME NEW us \in Seq(User), Len(us) > 1, NEW i \in DOMAIN us
    PROVE  LET new == SubSeq(us, 1, i - 1) \o SubSeq(us, i + 1, Len(us))
           IN new \in UserList /\ NamesOf(us) \ {us[i].name} \subseteq NamesOf(new)
<1> DEFINE a == SubSeq(us, 1, i - 1)
           b == SubSeq(us, i + 1, Len(us))
           new == a \o b
<1>1. i \in 1..Len(us) /\ Len(us) \in Nat
  OBVIOUS
<1>2. /\ a \in Seq(User) /\ Len(a) = i - 1 /\ \A j \in 1..(i - 1) : a[j] = us[j]
  BY <1>1
<1>3. /\ b \in Seq(User) /\ Len(b) = Len(us) - i /\ \A j \in 1..(Len(us) - i) : b[j] = us[i + j]
  BY <1>1
<1> HIDE DEF a, b
<1>4. /\ new \in Seq(User) /\ Len(new) = Len(us) - 1
      /\ \A j \in 1..(Len(us) - 1) : new[j] = IF j <= i - 1 THEN a[j] ELSE b[j - (i - 1)]
  <2>1. /\ new \in Seq(User) /\ Len(new) = Len(a) + Len(b)
        /\ \A j \in 1..(Len(a) + Len(b)) : new[j] = IF j <= Len(a) THEN a[j] ELSE b[j - Len(a)]
    BY <1>2, <1>3, ConcatProperties
  <2>2. Len(a) + Len(b) = Len(us) - 1
    BY <1>1, <1>2, <1>3
  <2> QED BY <1>2, <2>1, <2>2
<1> HIDE DEF new
<1>5. ASSUME NEW j \in 1..Len(us), j # i
      PROVE  \E k \in 1..(Len(us) - 1) : new[k] = us[j]
  <2>1. CASE j < i
    <3>1. j \in 1..(Len(us) - 1) /\ j \in 1..(i - 1)
      BY <1>1, <2>1
    <3> QED BY <1>2, <1>4, <3>1
  <2>2. CASE j > i
    <3>1. /\ j - 1 \in 1..(Len(us) - 1) /\ ~(j - 1 <= i - 1)
          /\ (j - 1) - (i - 1) = j - i /\ j - i \in 1..(Len(us) - i) /\ i + (j - i) = j
      BY <1>1, <2>2
    <3> QED BY <1>3, <1>4, <3>1
  <2> QED BY <1>1, <1>5, <2>1, <2>2
<1>6. DOMAIN new = 1..(Len(us) - 1) /\ DOMAIN us = 1..Len(us)
  BY <1>4
<1>7. NamesOf(us) \ {us[i].name} \subseteq NamesOf(new)
  <2>1. ASSUME NEW j \in DOMAIN us, us[j].name # us[i].name
        PROVE  us[j].name \in NamesOf(new)
    <3>1. j # i
      BY <2>1
    <3>2. PICK k \in DOMAIN new : new[k] = us[j]
      BY <1>5, <1>6, <3>1
    <3> QED BY <3>2 DEF NamesOf
  <2> QED BY <2>1 DEF NamesOf
<1>8. new \in UserList
  BY <1>1, <1>4 DEF UserList
<1> QED BY <1>7, <1>8 DEF new, a, b

-----------------------------------------------------------------------------
(* The mask host *)

LEMMA SmallestIndex ==
    ASSUME NEW S, S \subseteq Nat, S # {}
    PROVE  \E i \in S : \A j \in S : i <= j
<1>1. \E i \in S : \A j \in S : ~(<<j, i>> \in OpToRel(<, Nat))
  BY NatLessThanWellFounded, WFMin
<1>2. PICK i \in S : \A j \in S : ~(<<j, i>> \in OpToRel(<, Nat))
  BY <1>1
<1>3. ASSUME NEW j \in S PROVE i <= j
  <2>1. i \in Nat /\ j \in Nat
    OBVIOUS
  <2>2. j < i => <<j, i>> \in OpToRel(<, Nat)
    BY <2>1 DEF OpToRel
  <2>3. ~(<<j, i>> \in OpToRel(<, Nat))
    BY <1>2, Zenon
  <2>4. ~(j < i)
    BY <2>2, <2>3, Zenon
  <2> QED BY <2>1, <2>4
<1> QED BY <1>3

LEMMA LargestIndex ==
    ASSUME NEW n \in Nat, NEW S, S \subseteq 1..n, S # {}
    PROVE  \E i \in S : \A j \in S : j <= i
<1> DEFINE T == {n - i : i \in S}
<1>1. T \subseteq Nat /\ T # {}
  <2>1. ASSUME NEW i \in S PROVE n - i \in Nat
    <3>1. i \in 1..n
      OBVIOUS
    <3> QED BY <3>1
  <2> QED BY <2>1
<1> HIDE DEF T
<1>2. PICK t \in T : \A u \in T : t <= u
  BY <1>1, SmallestIndex
<1>3. PICK i \in S : t = n - i
  BY DEF T
<1>4. ASSUME NEW j \in S PROVE j <= i
  <2>1. n - j \in T
    BY DEF T
  <2>2. n - i <= n - j /\ i \in 1..n /\ j \in 1..n
    BY <1>2, <1>3, <2>1
  <2> QED BY <2>2
<1> QED BY <1>4

LEMMA MaskHostType ==
    ASSUME NEW us \in Seq(User), NEW current \in HostValues
    PROVE  refreshMaskHost(us) \in HostValues /\ replaceMaskHost(us, current) \in HostValues
<1> DEFINE withHost == {i \in Enabled(us) : us[i].host # ""}
<1>1. Len(us) \in Nat /\ withHost \subseteq 1..Len(us) /\ withHost \subseteq Nat
  <2>1. Enabled(us) \subseteq 1..Len(us) /\ Len(us) \in Nat
    BY DEF Enabled
  <2>2. 1..Len(us) \subseteq Nat
    BY <2>1
  <2> QED BY <2>1, <2>2
<1>2. \A i \in withHost : us[i].host \in Hosts
  <2>1. \A i \in 1..Len(us) : us[i] \in User
    OBVIOUS
  <2>2. \A u \in User : u.host \in Hosts
    BY DEF User
  <2> QED BY <1>1, <2>1, <2>2
<1> HIDE DEF withHost
<1>3. ASSUME withHost # {}
      PROVE  /\ us[CHOOSE i \in withHost : \A j \in withHost : i <= j].host \in HostValues
             /\ us[CHOOSE i \in withHost : \A j \in withHost : j <= i].host \in HostValues
  <2>1. /\ \E i \in withHost : \A j \in withHost : i <= j
        /\ \E i \in withHost : \A j \in withHost : j <= i
    BY <1>1, <1>3, SmallestIndex, LargestIndex
  <2>2. /\ (CHOOSE i \in withHost : \A j \in withHost : i <= j) \in withHost
        /\ (CHOOSE i \in withHost : \A j \in withHost : j <= i) \in withHost
    BY <2>1
  <2> QED BY <1>2, <2>2 DEF HostValues
<1> QED BY <1>3 DEF withHost, refreshMaskHost, replaceMaskHost, HostValues

-----------------------------------------------------------------------------
(* The invariant, in parts *)

Typed ==
    /\ users \in UserList /\ maskHost \in HostValues
    /\ ja \in Settings /\ limit \in Settings /\ cfg \in Settings
    /\ mu \in Reqs \cup {Nobody} /\ req \in [Reqs -> ReqRec] /\ disk \in File \cup {Empty}
    /\ up \in BOOLEAN /\ acked \subseteq Names
    /\ dirty \in BOOLEAN /\ unsaved \in BOOLEAN /\ overlap \in BOOLEAN
Lock == up => \A r \in Reqs : (mu = r) <=> (req[r].pc = "saving")
ReqShape ==
    \A r \in Reqs :
        /\ req[r].pc = "saving" => req[r].snap \in File /\ (up => disk = Empty)
        /\ req[r].pc \in ReloadSteps <=> req[r].op = "reload"
        /\ req[r].pc \in ReloadSteps => req[r].snap \in File
        /\ req[r].pc = "idle" => req[r].op = "none"
        /\ req[r].pc = "toggle" => req[r].op \in {"enable", "disable"}
        /\ req[r].op = "settings" => req[r].pc = "saving"
        /\ req[r].op = "create" => req[r].arg \in Names \cup {"none"}
Parts == Typed /\ Lock /\ ReqShape /\ ReloadAlone /\ KeptInv /\ AgreeInv

LEMMA StoreParts == (StoreInv => Parts) /\ (Parts => StoreInv)
<1>1. ASSUME StoreInv PROVE Parts
  BY <1>1 DEF StoreInv, Parts, TypeOK, ReqInv, Typed, Lock, ReqShape, ReqRec, HostValues, UserList
<1>2. ASSUME Parts PROVE StoreInv
  <2>1. users \in Seq(User) /\ Len(users) >= 1
    BY <1>2 DEF Parts, Typed, UserList
  <2>2. disk = Empty \/ (disk.set \in Settings /\ disk.users \in Seq(User))
    BY <1>2 DEF Parts, Typed, File, UserList
  <2> QED BY <1>2, <2>1, <2>2 DEF StoreInv, Parts, TypeOK, ReqInv, Typed, Lock, ReqShape, ReqRec, HostValues
<1> QED BY <1>1, <1>2

\* A file that was written has users, so it is not the truncated one.
LEMMA FileNotEmpty == \A f \in File : f # Empty /\ f.set \in Settings /\ f.users \in UserList
<1>1. Empty.users = << >> /\ Len(<< >>) = 0
  BY DEF Empty, Snap
<1> QED BY <1>1 DEF File, UserList

LEMMA SnapFile == \A s \in Settings, us \in UserList : Snap(s, us) \in File
BY DEF Snap, File

-----------------------------------------------------------------------------
(* What a step does to the requests *)

Others(r) == \A q \in Reqs \ {r} : req'[q] = req[q]

LEMMA BeginEffect ==
    ASSUME Typed, NEW r \in Reqs, NEW pc, NEW op, NEW arg, NEW snap,
           [pc |-> pc, op |-> op, arg |-> arg, snap |-> snap] \in ReqRec,
           Begin(r, pc, op, arg, snap)
    PROVE  /\ req' \in [Reqs -> ReqRec] /\ Others(r)
           /\ req'[r].pc = pc /\ req'[r].op = op /\ req'[r].arg = arg /\ req'[r].snap = snap
BY DEF Begin, Typed, Others

LEMMA FinishEffect ==
    ASSUME Typed, NEW r \in Reqs, Finish(r)
    PROVE  /\ req' \in [Reqs -> ReqRec] /\ Others(r)
           /\ req'[r].pc = "idle" /\ req'[r].op = "none"
<1>1. Idle \in ReqRec /\ Idle.pc = "idle" /\ Idle.op = "none"
  BY DEF Idle, ReqRec
<1> QED BY <1>1 DEF Finish, Typed, Others

LEMMA GotoEffect ==
    ASSUME Typed, NEW r \in Reqs, NEW pc \in ReloadSteps, Goto(r, pc)
    PROVE  /\ req' \in [Reqs -> ReqRec] /\ Others(r)
           /\ req'[r].pc = pc /\ req'[r].op = req[r].op
           /\ req'[r].arg = req[r].arg /\ req'[r].snap = req[r].snap
<1>1. req[r] \in ReqRec
  BY DEF Typed
<1>2. [req[r] EXCEPT !.pc = pc] \in ReqRec
  BY <1>1 DEF ReqRec
<1>3. req' = [req EXCEPT ![r] = [req[r] EXCEPT !.pc = pc]]
  BY DEF Goto
<1>4. req' \in [Reqs -> ReqRec] /\ Others(r) /\ req'[r] = [req[r] EXCEPT !.pc = pc]
  BY <1>2, <1>3 DEF Typed, Others
<1>5. LET new == [req[r] EXCEPT !.pc = pc]
      IN new.pc = pc /\ new.op = req[r].op /\ new.arg = req[r].arg /\ new.snap = req[r].snap
  BY <1>1 DEF ReqRec
<1> QED BY <1>4, <1>5

-----------------------------------------------------------------------------
(* Saving *)

LEMMA PersistUsersStep ==
    ASSUME Parts, up, NEW r \in Reqs, PersistUsers(r)
    PROVE  Parts'
<1> USE DEF Parts
<1>1. /\ req[r].pc = "persist" /\ mu = Nobody /\ mu' = r /\ disk' = Empty /\ unsaved' = FALSE
      /\ UNCHANGED <<users, maskHost, ja, cfg, limit, up, acked, dirty, overlap>>
  BY DEF PersistUsers
<1>2. Snap(cfg, users) \in File /\ Snap(cfg, users).set = cfg /\ Snap(cfg, users).users = users
  BY SnapFile DEF Typed, Snap
<1>3. /\ req' \in [Reqs -> ReqRec] /\ Others(r) /\ req'[r].pc = "saving" /\ req'[r].op = req[r].op
      /\ req'[r].arg = req[r].arg /\ req'[r].snap = Snap(cfg, users)
  <2> DEFINE new == [req[r] EXCEPT !.pc = "saving", !.snap = Snap(cfg, users)]
  <2>1. req[r] \in ReqRec /\ req' = [req EXCEPT ![r] = new]
    BY DEF PersistUsers, Typed
  <2>2. /\ new \in ReqRec /\ new.pc = "saving" /\ new.op = req[r].op
        /\ new.arg = req[r].arg /\ new.snap = Snap(cfg, users)
    BY <1>2, <2>1 DEF ReqRec
  <2> HIDE DEF new
  <2> QED BY <2>1, <2>2 DEF Typed, Others
<1>4. \A q \in Reqs : req[q].pc # "saving"
  BY <1>1, NobodyFresh DEF Lock
<1>5. Typed'
  BY <1>1, <1>3 DEF Typed
<1>6. Lock'
  BY <1>1, <1>3, <1>4 DEF Lock, Others
<1>7. ReqShape'
  BY <1>1, <1>2, <1>3 DEF ReqShape, Others, ReloadSteps
<1>8. ReloadAlone'
  BY <1>1, <1>3 DEF ReloadAlone, ReqShape, Others
<1>9. KeptInv'
  BY <1>1, <1>2, <1>3 DEF KeptInv, Others
<1>10. AgreeInv'
  <2> SUFFICES ASSUME ~overlap PROVE AgreeInv'
    BY <1>1 DEF AgreeInv
  <2>1. \A q \in Reqs : req[q].op \notin {"reload", "settings"} /\ req'[q].op = req[q].op
    BY <1>1, <1>3, <1>4 DEF Others, ReloadAlone, ReqShape, ReloadSteps
  <2>2. \A q \in Reqs : req'[q].pc = "saving" => req'[q].snap.set = cfg' /\ req'[q].snap.users = users'
    BY <1>1, <1>2, <1>3, <1>4 DEF Others
  <2>3. ~dirty' => ja' = cfg' /\ limit' = cfg'
    BY <1>1, <2>1 DEF AgreeInv
  <2> QED BY <1>1, <2>1, <2>2, <2>3 DEF AgreeInv
<1> QED BY <1>5, <1>6, <1>7, <1>8, <1>9, <1>10

LEMMA UpdateSettingsStep ==
    ASSUME Parts, up, NEW r \in Reqs, NEW s \in Settings, UpdateSettings(r, s)
    PROVE  Parts'
<1> USE DEF Parts
<1>1. /\ req[r].pc = "idle" /\ mu = Nobody /\ mu' = r /\ disk' = Empty /\ unsaved' = FALSE
      /\ ja' = s /\ limit' = s
      /\ overlap' = (overlap \/ \E q \in Reqs : req[q].op = "reload")
      /\ UNCHANGED <<users, maskHost, cfg, up, acked, dirty>>
  BY DEF UpdateSettings, NoteReload
<1>2. Snap(s, users) \in File /\ Snap(s, users).set = s /\ Snap(s, users).users = users
  BY SnapFile DEF Typed, Snap
<1>3. /\ req' \in [Reqs -> ReqRec] /\ Others(r) /\ req'[r].pc = "saving" /\ req'[r].op = "settings"
      /\ req'[r].arg = s /\ req'[r].snap = Snap(s, users)
  <2>1. [pc |-> "saving", op |-> "settings", arg |-> s, snap |-> Snap(s, users)] \in ReqRec
    BY <1>2 DEF ReqRec
  <2> QED BY <2>1, BeginEffect DEF UpdateSettings
<1>4. \A q \in Reqs : req[q].pc # "saving"
  BY <1>1, NobodyFresh DEF Lock
<1>5. Typed'
  BY <1>1, <1>3 DEF Typed
<1>6. Lock'
  BY <1>1, <1>3, <1>4 DEF Lock, Others
<1>7. ReqShape'
  BY <1>1, <1>2, <1>3 DEF ReqShape, Others, ReloadSteps
<1>8. ReloadAlone'
  BY <1>1, <1>3 DEF ReloadAlone, ReqShape, Others
<1>9. KeptInv'
  BY <1>1, <1>2, <1>3 DEF KeptInv, Others
<1>10. AgreeInv'
  <2> SUFFICES ASSUME ~overlap' PROVE AgreeInv'
    BY <1>1 DEF AgreeInv
  <2>1. \A q \in Reqs : req'[q].op # "reload"
    BY <1>1, <1>3 DEF Others
  <2>2. \A q \in Reqs : req'[q].pc = "saving" =>
            /\ q = r /\ req'[q].op = "settings"
            /\ ja' = req'[q].snap.set /\ limit' = req'[q].snap.set /\ req'[q].snap.users = users'
    BY <1>1, <1>2, <1>3, <1>4 DEF Others
  <2> QED BY <1>1, <1>3, <2>1, <2>2 DEF AgreeInv
<1> QED BY <1>5, <1>6, <1>7, <1>8, <1>9, <1>10

\* The settings changed and the file did not: dirty says so.
LEMMA UpdateSettingsFailsStep ==
    ASSUME Parts, up, NEW r \in Reqs, NEW s \in Settings, UpdateSettingsFails(r, s)
    PROVE  Parts'
<1> USE DEF Parts
<1>1. /\ mu = Nobody /\ ja' = s /\ limit' = s /\ dirty' = TRUE
      /\ overlap' = (overlap \/ \E q \in Reqs : req[q].op = "reload")
      /\ UNCHANGED <<users, maskHost, cfg, mu, disk, up, req, acked, unsaved>>
  BY DEF UpdateSettingsFails, NoteReload
<1>2. \A q \in Reqs : req[q].pc # "saving"
  BY <1>1, NobodyFresh DEF Lock
<1>3. Typed' /\ Lock' /\ ReqShape'
  BY <1>1 DEF Typed, Lock, ReqShape
<1>4. ReloadAlone'
  BY <1>1 DEF ReloadAlone
<1>5. KeptInv' 
  BY <1>1 DEF KeptInv
<1>6. AgreeInv'
  BY <1>1, <1>2 DEF AgreeInv
<1> QED BY <1>3, <1>4, <1>5, <1>6

LEMMA SaveDoneStep ==
    ASSUME Parts, up, NEW r \in Reqs, SaveDone(r)
    PROVE  Parts'
<1> USE DEF Parts
<1>1. /\ req[r].pc = "saving" /\ disk' = req[r].snap /\ cfg' = req[r].snap.set /\ mu' = Nobody
      /\ acked' = IF req[r].op = "create" THEN acked \cup ({req[r].arg} \ {"none"}) ELSE acked
      /\ dirty' = IF req[r].op = "settings" THEN FALSE ELSE dirty
      /\ UNCHANGED <<users, maskHost, ja, limit, up, unsaved, overlap>>
  BY DEF SaveDone
<1>2. req' \in [Reqs -> ReqRec] /\ Others(r) /\ req'[r].pc = "idle" /\ req'[r].op = "none"
  BY FinishEffect DEF SaveDone
<1>3. mu = r /\ req[r].snap \in File /\ req[r].op # "reload"
  BY <1>1 DEF Lock, ReqShape, ReloadSteps
<1>4. req[r].snap # Empty /\ req[r].snap.set \in Settings
  BY <1>3, FileNotEmpty
<1>5. \A q \in Reqs \ {r} : req[q].pc # "saving"
  BY <1>3 DEF Lock
<1>6. Typed'
  <2>1. acked' \subseteq Names
    BY <1>1 DEF Typed, ReqShape
  <2> QED BY <1>1, <1>2, <1>3, <1>4, <2>1 DEF Typed
<1>7. Lock'
  BY <1>1, <1>2, <1>5, NobodyFresh DEF Lock, Others
<1>8. ReqShape'
  BY <1>1, <1>2, <1>5 DEF ReqShape, Others, ReloadSteps
<1>9. ReloadAlone'
  BY <1>1, <1>2 DEF ReloadAlone, ReqShape, Others
<1>10. KeptInv'
  <2> SUFFICES ASSUME ~overlap' PROVE KeptInv'
    BY DEF KeptInv
  <2>1. acked' \subseteq NamesOf(users') /\ acked' \subseteq NamesOf(req[r].snap.users)
    BY <1>1 DEF KeptInv
  <2>2. \A q \in Reqs : req'[q].pc \notin {"saving", "replaceUsers"}
    BY <1>1, <1>2, <1>5 DEF Others, ReloadAlone, ReqShape, ReloadSteps
  <2> QED BY <1>1, <1>2, <2>1, <2>2 DEF KeptInv, Others
<1>11. AgreeInv'
  <2> SUFFICES ASSUME ~overlap PROVE AgreeInv'
    BY <1>1 DEF AgreeInv
  <2>1. \A q \in Reqs : req'[q].pc # "saving" /\ req'[q].op \notin {"reload", "settings"}
    BY <1>1, <1>2, <1>5 DEF Others, ReloadAlone, ReqShape, ReloadSteps
  <2>2. ~dirty' => ja' = cfg' /\ limit' = cfg' /\ disk'.set = cfg'
    <3>1. CASE req[r].op = "settings"
      BY <1>1, <3>1 DEF AgreeInv
    <3>2. CASE req[r].op # "settings"
      <4>1. \A q \in Reqs : req[q].op \notin {"reload", "settings"}
        BY <1>2, <1>3, <2>1, <3>2 DEF Others
      <4>2. req[r].snap.set = cfg
        BY <1>1, <3>2 DEF AgreeInv
      <4> QED BY <1>1, <3>2, <4>1, <4>2 DEF AgreeInv
    <3> QED BY <3>1, <3>2
  <2>3. ~unsaved' => disk'.users = users'
    BY <1>1 DEF AgreeInv
  <2> QED BY <2>1, <2>2, <2>3 DEF AgreeInv
<1> QED BY <1>6, <1>7, <1>8, <1>9, <1>10, <1>11

LEMMA SaveBreaksStep ==
    ASSUME Parts, up, NEW r \in Reqs, SaveBreaks(r)
    PROVE  Parts'
<1> USE DEF Parts
<1>1. /\ req[r].pc = "saving" /\ mu' = Nobody /\ unsaved' = TRUE
      /\ dirty' = IF req[r].op = "settings" THEN TRUE ELSE dirty
      /\ UNCHANGED <<users, maskHost, ja, cfg, limit, disk, up, acked, overlap>>
  BY DEF SaveBreaks
<1>2. req' \in [Reqs -> ReqRec] /\ Others(r) /\ req'[r].pc = "idle" /\ req'[r].op = "none"
  BY FinishEffect DEF SaveBreaks
<1>3. mu = r /\ req[r].op # "reload" /\ disk = Empty
  BY <1>1 DEF Lock, ReqShape, ReloadSteps
<1>4. \A q \in Reqs \ {r} : req[q].pc # "saving"
  BY <1>3 DEF Lock
<1>5. Typed'
  BY <1>1, <1>2 DEF Typed
<1>6. Lock'
  BY <1>1, <1>2, <1>4, NobodyFresh DEF Lock, Others
<1>7. ReqShape'
  BY <1>1, <1>2, <1>4 DEF ReqShape, Others, ReloadSteps
<1>8. ReloadAlone'
  BY <1>1, <1>2 DEF ReloadAlone, ReqShape, Others
<1>9. KeptInv'
  BY <1>1, <1>2 DEF KeptInv, Others
<1>10. AgreeInv'
  <2> SUFFICES ASSUME ~overlap PROVE AgreeInv'
    BY <1>1 DEF AgreeInv
  <2>1. \A q \in Reqs : req'[q].pc # "saving" /\ req'[q].op \notin {"reload", "settings"}
    BY <1>1, <1>2, <1>4 DEF Others, ReloadAlone, ReqShape, ReloadSteps
  <2>2. ~dirty' => \A q \in Reqs : req[q].op \notin {"reload", "settings"}
    BY <1>1, <1>2, <1>3, <2>1 DEF Others
  <2> QED BY <1>1, <1>3, <2>1, <2>2 DEF AgreeInv
<1> QED BY <1>5, <1>6, <1>7, <1>8, <1>9, <1>10

\* A request that gives up changes nothing.
LEMMA GivesUpStep ==
    ASSUME Parts, up, NEW r \in Reqs, PersistFails(r) \/ toggleMisses(r)
    PROVE  Parts'
<1> USE DEF Parts
<1>1. /\ req[r].pc \in {"persist", "toggle"}
      /\ UNCHANGED <<users, maskHost, ja, cfg, limit, mu, disk, up, acked, dirty, unsaved, overlap>>
  BY DEF PersistFails, toggleMisses, mem, hist
<1>2. req' \in [Reqs -> ReqRec] /\ Others(r) /\ req'[r].pc = "idle" /\ req'[r].op = "none"
  BY FinishEffect DEF PersistFails, toggleMisses
<1>3. req[r].op \notin {"reload", "settings"}
  BY <1>1 DEF ReqShape, ReloadSteps
<1>4. Typed'
  BY <1>1, <1>2 DEF Typed
<1>5. Lock'
  BY <1>1, <1>2 DEF Lock, Others
<1>6. ReqShape'
  BY <1>1, <1>2 DEF ReqShape, Others, ReloadSteps
<1>7. ReloadAlone'
  BY <1>1, <1>2 DEF ReloadAlone, Others
<1>8. KeptInv'
  BY <1>1, <1>2 DEF KeptInv, Others
<1>9. AgreeInv'
  BY <1>1, <1>2, <1>3 DEF AgreeInv, Others
<1> QED BY <1>4, <1>5, <1>6, <1>7, <1>8, <1>9

-----------------------------------------------------------------------------
(* Changes of the user list *)

\* Request r has changed the list and goes on to save it, or gives up; other
\* creations may have been overtaken.
Saves(r) ==
    /\ req' \in [Reqs -> ReqRec]
    /\ \/ req'[r].pc = "idle" /\ req'[r].op = "none"
       \/ /\ req'[r].pc = "persist" /\ req'[r].op \in {"create", "update", "enable", "disable", "delete"}
          /\ req'[r].op = "create" => req'[r].arg \in Names
    /\ \A q \in Reqs \ {r} : /\ req'[q].pc = req[q].pc /\ req'[q].op = req[q].op
                             /\ req'[q].snap = req[q].snap /\ req'[q].arg \in {req[q].arg, "none"}

\* What every such change has in common.
LEMMA UsersStep ==
    ASSUME Parts, up, NEW r \in Reqs, req[r].pc \in {"idle", "toggle"}, Saves(r),
           users' \in UserList, maskHost' \in HostValues, unsaved' = TRUE,
           UNCHANGED <<ja, cfg, limit, mu, disk, up, dirty>>,
           overlap' \in BOOLEAN, overlap => overlap',
           req[r].pc = "idle" /\ (\E q \in Reqs : req[q].op = "reload") => overlap',
           acked' \subseteq acked,
           ~overlap' => /\ acked' \subseteq NamesOf(users')
                        /\ \A q \in Reqs : req'[q].op = "create" /\ req'[q].arg # "none" =>
                                          req'[q].arg \in NamesOf(users')
    PROVE  Parts'
<1> USE DEF Parts
<1>1. \A q \in Reqs : req'[q].pc = "saving" => req[q].pc = "saving" /\ q # r
  BY DEF Saves
<1>2. ~overlap' => \A q \in Reqs : req[q].op # "reload" /\ req'[q].op # "reload"
  BY DEF Saves, ReloadAlone, ReqShape, ReloadSteps
<1>3. Typed'
  BY DEF Typed, Saves
<1>4. Lock'
  BY DEF Lock, Saves
<1>5. ReqShape'
  BY <1>1 DEF ReqShape, Saves, ReloadSteps
<1>6. ReloadAlone'
  BY <1>2 DEF ReloadAlone
<1>7. KeptInv'
  <2> SUFFICES ASSUME ~overlap' PROVE KeptInv'
    BY DEF KeptInv
  <2>1. /\ ~overlap
        /\ \A q \in Reqs : req'[q].pc \in {"saving", "replaceUsers"} =>
                q # r /\ req[q].pc = req'[q].pc /\ req'[q].snap = req[q].snap
    BY DEF Saves
  <2>2. \A q \in Reqs : req'[q].pc \in {"saving", "replaceUsers"} => acked' \subseteq NamesOf(req'[q].snap.users)
    BY <2>1 DEF KeptInv
  <2>3. disk' # Empty => acked' \subseteq NamesOf(disk'.users)
    BY <2>1 DEF KeptInv
  <2>4. ASSUME NEW q \in Reqs, req'[q].op = "create", req'[q].arg # "none", req'[q].pc = "saving"
        PROVE  req'[q].arg \in NamesOf(req'[q].snap.users)
    <3>1. q # r /\ req[q].op = "create" /\ req[q].arg = req'[q].arg /\ req[q].pc = "saving"
      BY <1>1, <2>4 DEF Saves
    <3>2. req'[q].snap = req[q].snap
      BY <3>1 DEF Saves
    <3> QED BY <2>1, <2>4, <3>1, <3>2 DEF KeptInv
  <2> QED BY <2>2, <2>3, <2>4 DEF KeptInv
<1>8. AgreeInv'
  <2> SUFFICES ASSUME ~overlap' PROVE AgreeInv'
    BY DEF AgreeInv
  <2>1. req[r].op # "settings"
    BY DEF ReqShape
  <2>2. ASSUME NEW q \in Reqs, req'[q].pc = "saving"
        PROVE  IF req'[q].op = "settings" THEN ja' = req'[q].snap.set /\ limit' = req'[q].snap.set
               ELSE req'[q].snap.set = cfg'
    <3>1. q # r /\ req[q].pc = "saving"
      BY <1>1, <2>2
    <3>2. req'[q].op = req[q].op /\ req'[q].snap = req[q].snap
      BY <3>1 DEF Saves
    <3> QED BY <3>1, <3>2 DEF AgreeInv
  <2>3. ~dirty' /\ (\A q \in Reqs : req'[q].op \notin {"reload", "settings"}) =>
            ja' = cfg' /\ limit' = cfg' /\ (disk' # Empty => disk'.set = cfg')
    <3>1. (\A q \in Reqs : req'[q].op \notin {"reload", "settings"}) =>
             \A q \in Reqs : req[q].op \notin {"reload", "settings"}
      BY <1>2, <2>1 DEF Saves
    <3> QED BY <3>1 DEF AgreeInv
  <2> QED BY <1>2, <2>2, <2>3 DEF AgreeInv
<1> QED BY <1>3, <1>4, <1>5, <1>6, <1>7, <1>8

LEMMA CreateUserStep ==
    ASSUME Parts, up, NEW r \in Reqs, NEW u \in User, createUser(r, u)
    PROVE  Parts'
<1> USE DEF Parts
<1>1. /\ req[r].pc = "idle" /\ unsaved' = TRUE /\ users' = Append(users, u)
      /\ maskHost' = IF u.enabled /\ u.host # "" THEN u.host ELSE maskHost
      /\ overlap' = (overlap \/ \E q \in Reqs : req[q].op = "reload")
      /\ UNCHANGED <<ja, cfg, limit, mu, disk, up, acked, dirty>>
  BY DEF createUser, AddUser, NoteReload
<1>2. u.name \in Names /\ u.host \in Hosts
  BY DEF User
<1>3. /\ req' \in [Reqs -> ReqRec] /\ Others(r)
      /\ req'[r].pc = "persist" /\ req'[r].op = "create" /\ req'[r].arg = u.name
  <2>1. [pc |-> "persist", op |-> "create", arg |-> u.name, snap |-> Empty] \in ReqRec
    BY <1>2 DEF ReqRec
  <2> QED BY <2>1, BeginEffect DEF createUser
<1>4. Saves(r)
  BY <1>2, <1>3 DEF Saves, Others
<1>5. users' \in UserList /\ NamesOf(users) \subseteq NamesOf(users') /\ u.name \in NamesOf(users')
  <2>1. users \in Seq(User)
    BY DEF Typed, UserList
  <2> QED BY <1>1, <2>1, NamesAppend
<1>6. maskHost' \in HostValues
  BY <1>1, <1>2 DEF Typed, HostValues
<1>7. ~overlap' => /\ acked' \subseteq NamesOf(users')
                   /\ \A q \in Reqs : req'[q].op = "create" /\ req'[q].arg # "none" =>
                                     req'[q].arg \in NamesOf(users')
  BY <1>1, <1>3, <1>5 DEF KeptInv, Others, Typed
<1>8. overlap' \in BOOLEAN
  BY <1>1
<1> HIDE DEF Parts
<1> QED BY <1>1, <1>4, <1>5, <1>6, <1>7, <1>8, UsersStep

\* Changed, after a change of the list that has kept the requests rq.
LEMMA ChangedEffect ==
    ASSUME NEW r \in Reqs, NEW op \in {"update", "enable", "disable", "delete"}, NEW n \in Names,
           NEW rq \in [Reqs -> ReqRec], Changed(rq, r, op, n),
           \A q \in Reqs : /\ rq[q].pc = req[q].pc /\ rq[q].op = req[q].op
                           /\ rq[q].snap = req[q].snap /\ rq[q].arg \in {req[q].arg, "none"}
    PROVE  /\ Saves(r) /\ req'[r].op # "create"
           /\ \A q \in Reqs \ {r} : req'[q] = rq[q]
<1> DEFINE new == [pc |-> "persist", op |-> op, arg |-> n, snap |-> Empty]
<1>1. Idle \in ReqRec /\ Idle.pc = "idle" /\ Idle.op = "none"
  BY DEF Idle, ReqRec
<1>2. new \in ReqRec /\ new.pc = "persist" /\ new.op = op
  BY DEF ReqRec
<1>3. req' = [rq EXCEPT ![r] = Idle] \/ req' = [rq EXCEPT ![r] = new]
  BY DEF Changed
<1> HIDE DEF new
<1>4. req' \in [Reqs -> ReqRec] /\ req'[r] \in {Idle, new} /\ \A q \in Reqs \ {r} : req'[q] = rq[q]
  BY <1>1, <1>2, <1>3
<1> QED BY <1>1, <1>2, <1>4 DEF Saves

LEMMA UpdateUserEffect ==
    ASSUME Parts, NEW u \in User, UpdateUser(u)
    PROVE  users' \in UserList /\ maskHost' \in HostValues /\ NamesOf(users') = NamesOf(users)
<1>1. PICK i \in DOMAIN users : users[i].name = u.name /\ users' = [users EXCEPT ![i] = u]
  BY DEF UpdateUser, FirstNamed
<1>2. users' \in UserList /\ NamesOf(users') = NamesOf(users)
  BY <1>1, NamesReplace DEF Parts, Typed
<1>3. maskHost' = refreshMaskHost(users') /\ users' \in Seq(User) /\ maskHost \in HostValues
  BY <1>2 DEF UpdateUser, UserList, Parts, Typed
<1> QED BY <1>2, <1>3, MaskHostType

LEMMA UpdateUserStep ==
    ASSUME Parts, up, NEW r \in Reqs, NEW u \in User, updateUser(r, u)
    PROVE  Parts'
<1>1. /\ req[r].pc = "idle" /\ unsaved' = TRUE
      /\ overlap' = (overlap \/ \E q \in Reqs : req[q].op = "reload")
      /\ UNCHANGED <<ja, cfg, limit, mu, disk, up, acked, dirty>>
  BY DEF updateUser, NoteReload, Changed
<1>2. users' \in UserList /\ maskHost' \in HostValues /\ NamesOf(users') = NamesOf(users)
  BY UpdateUserEffect DEF updateUser
<1>3. /\ Saves(r) /\ req'[r].op # "create"
      /\ \A q \in Reqs \ {r} : req'[q] = req[q]
  <2>1. u.name \in Names /\ Changed(req, r, "update", u.name) /\ req \in [Reqs -> ReqRec]
    BY DEF User, updateUser, Parts, Typed
  <2> QED BY <2>1, ChangedEffect
<1>4. ~overlap' => /\ acked' \subseteq NamesOf(users')
                   /\ \A q \in Reqs : req'[q].op = "create" /\ req'[q].arg # "none" =>
                                     req'[q].arg \in NamesOf(users')
  BY <1>1, <1>2, <1>3 DEF Parts, KeptInv, Typed
<1>5. overlap' \in BOOLEAN
  BY <1>1
<1> QED BY <1>1, <1>2, <1>3, <1>4, <1>5, UsersStep

LEMMA ToggleWriteStep ==
    ASSUME Parts, up, NEW r \in Reqs, toggleWrite(r)
    PROVE  Parts'
<1>1. /\ req[r].pc = "toggle" /\ unsaved' = TRUE
      /\ UNCHANGED <<ja, cfg, limit, mu, disk, up, acked, dirty, overlap>>
  BY DEF toggleWrite, Changed
<1>0. PICK i \in DOMAIN users :
         users[i].name = req[r].arg /\ UpdateUser([users[i] EXCEPT !.enabled = (req[r].op = "enable")])
  BY DEF toggleWrite
<1>t. users[i] \in User
  <2>1. users \in Seq(User)
    BY DEF Parts, Typed, UserList
  <2> QED BY <1>0, <2>1
<1>2. users' \in UserList /\ maskHost' \in HostValues /\ NamesOf(users') = NamesOf(users)
  <2>1. [users[i] EXCEPT !.enabled = (req[r].op = "enable")] \in User
    BY <1>t DEF User
  <2> QED BY <1>0, <2>1, UpdateUserEffect
<1>3. /\ Saves(r) /\ req'[r].op # "create"
      /\ \A q \in Reqs \ {r} : req'[q] = req[q]
  <2>1. /\ req[r].arg \in Names /\ Changed(req, r, req[r].op, req[r].arg)
        /\ req \in [Reqs -> ReqRec] /\ req[r].op \in {"enable", "disable"}
    BY <1>0, <1>1, <1>t DEF User, toggleWrite, Parts, Typed, ReqShape
  <2> QED BY <2>1, ChangedEffect
<1>4. ~overlap' => /\ acked' \subseteq NamesOf(users')
                   /\ \A q \in Reqs : req'[q].op = "create" /\ req'[q].arg # "none" =>
                                     req'[q].arg \in NamesOf(users')
  BY <1>1, <1>2, <1>3 DEF Parts, KeptInv, Typed
<1>5. overlap' \in BOOLEAN
  BY <1>1 DEF Parts, Typed
<1> QED BY <1>1, <1>2, <1>3, <1>4, <1>5, UsersStep

LEMMA DeleteUserStep ==
    ASSUME Parts, up, NEW r \in Reqs, NEW n \in Names, deleteUser(r, n)
    PROVE  Parts'
<1>1. /\ req[r].pc = "idle" /\ unsaved' = TRUE /\ acked' = acked \ {n}
      /\ overlap' = (overlap \/ \E q \in Reqs : req[q].op = "reload")
      /\ UNCHANGED <<ja, cfg, limit, mu, disk, up, dirty>>
  BY DEF deleteUser, NoteReload, Changed
<1>2. users' \in UserList /\ maskHost' \in HostValues /\ NamesOf(users) \ {n} \subseteq NamesOf(users')
  <2>1. PICK i \in DOMAIN users :
          users[i].name = n /\ users' = SubSeq(users, 1, i - 1) \o SubSeq(users, i + 1, Len(users))
    BY DEF deleteUser, RemoveUser, FirstNamed
  <2>2. users \in Seq(User) /\ Len(users) > 1 /\ maskHost \in HostValues
    BY DEF Parts, Typed, UserList, deleteUser, RemoveUser
  <2>3. users' \in UserList /\ NamesOf(users) \ {n} \subseteq NamesOf(users')
    BY <2>1, <2>2, NamesRemove
  <2>4. maskHost' = refreshMaskHost(users') /\ users' \in Seq(User)
    BY <2>3 DEF deleteUser, RemoveUser, UserList
  <2> QED BY <2>2, <2>3, <2>4, MaskHostType
<1>3. /\ Overtaken(n) \in [Reqs -> ReqRec]
      /\ \A q \in Reqs :
           /\ Overtaken(n)[q].pc = req[q].pc /\ Overtaken(n)[q].op = req[q].op
           /\ Overtaken(n)[q].snap = req[q].snap
           /\ Overtaken(n)[q].arg = IF req[q].op = "create" /\ req[q].arg = n THEN "none" ELSE req[q].arg
  <2>1. ASSUME NEW q \in Reqs
        PROVE  LET new == [req[q] EXCEPT !.arg = "none"]
               IN /\ req[q] \in ReqRec /\ new \in ReqRec
                  /\ new.pc = req[q].pc /\ new.op = req[q].op /\ new.snap = req[q].snap /\ new.arg = "none"
    <3>1. req[q] \in ReqRec
      BY DEF Parts, Typed
    <3> QED BY <3>1 DEF ReqRec
  <2> QED BY <2>1 DEF Overtaken
<1>4. /\ Saves(r) /\ req'[r].op # "create"
      /\ \A q \in Reqs \ {r} : req'[q] = Overtaken(n)[q]
  <2>1. Changed(Overtaken(n), r, "delete", n)
    BY DEF deleteUser
  <2> QED BY <1>3, <2>1, ChangedEffect
<1>5. ASSUME ~overlap'
      PROVE  /\ acked' \subseteq NamesOf(users')
             /\ \A q \in Reqs : req'[q].op = "create" /\ req'[q].arg # "none" =>
                                req'[q].arg \in NamesOf(users')
  <2>1. acked \subseteq NamesOf(users) /\ \A q \in Reqs : req[q].op = "create" /\ req[q].arg # "none" =>
                                                     req[q].arg \in NamesOf(users)
    BY <1>1, <1>5 DEF Parts, KeptInv
  <2>2. ASSUME NEW q \in Reqs, req'[q].op = "create", req'[q].arg # "none"
        PROVE  req'[q].arg \in NamesOf(users) \ {n}
    <3>1. q # r /\ req'[q] = Overtaken(n)[q]
      BY <1>4, <2>2
    <3>2. req[q].op = "create" /\ req[q].arg # n /\ req'[q].arg = req[q].arg
      BY <1>3, <2>2, <3>1
    <3> QED BY <2>1, <2>2, <3>2
  <2> QED BY <1>1, <1>2, <2>1, <2>2
<1>6. overlap' \in BOOLEAN
  BY <1>1
<1> QED BY <1>1, <1>2, <1>4, <1>5, <1>6, UsersStep

LEMMA ToggleReadStep ==
    ASSUME Parts, up, NEW r \in Reqs, NEW n \in Names, toggleRead(r, n)
    PROVE  Parts'
<1> USE DEF Parts
<1>1. /\ req[r].pc = "idle"
      /\ overlap' = (overlap \/ \E q \in Reqs : req[q].op = "reload")
      /\ UNCHANGED <<users, maskHost, ja, cfg, limit, mu, disk, up, acked, dirty, unsaved>>
  BY DEF toggleRead, NoteReload, mem
<1>2. PICK i \in DOMAIN users :
         Begin(r, "toggle", IF users[i].enabled THEN "disable" ELSE "enable", n, Empty)
  BY DEF toggleRead
<1>3. req' \in [Reqs -> ReqRec] /\ Others(r) /\ req'[r].pc = "toggle" /\ req'[r].op \in {"enable", "disable"}
  <2> DEFINE op == IF users[i].enabled THEN "disable" ELSE "enable"
  <2>1. op \in {"enable", "disable"}
    OBVIOUS
  <2> HIDE DEF op
  <2>2. [pc |-> "toggle", op |-> op, arg |-> n, snap |-> Empty] \in ReqRec
    BY <2>1 DEF ReqRec
  <2>3. Begin(r, "toggle", op, n, Empty)
    BY <1>2 DEF op
  <2> QED BY <2>1, <2>2, <2>3, BeginEffect
<1>4. Typed'
  BY <1>1, <1>3 DEF Typed
<1>5. Lock'
  BY <1>1, <1>3 DEF Lock, Others
<1>6. ReqShape'
  BY <1>1, <1>3 DEF ReqShape, Others, ReloadSteps
<1>7. ReloadAlone'
  BY <1>1, <1>3 DEF ReloadAlone, Others
<1>8. KeptInv'
  BY <1>1, <1>3 DEF KeptInv, Others
<1>9. AgreeInv'
  <2>1. req[r].op = "none"
    BY <1>1 DEF ReqShape
  <2> QED BY <1>1, <1>3, <2>1 DEF AgreeInv, Others
<1> QED BY <1>4, <1>5, <1>6, <1>7, <1>8, <1>9

-----------------------------------------------------------------------------
(* Reload *)

LEMMA ReloadLoadStep ==
    ASSUME Parts, up, NEW r \in Reqs, ReloadLoad(r)
    PROVE  Parts'
<1> USE DEF Parts
<1>1. /\ req[r].pc = "idle" /\ Loadable(disk) /\ dirty' = FALSE
      /\ overlap' = (overlap \/ \E q \in Reqs : req[q].pc # "idle")
      /\ UNCHANGED <<users, maskHost, ja, cfg, limit, mu, disk, up, acked, unsaved>>
  BY DEF ReloadLoad, mem
<1>2. disk \in File /\ disk # Empty
  <2>1. Enabled(Empty.users) = {}
    BY DEF Enabled, Empty, Snap
  <2> QED BY <1>1, <2>1 DEF Loadable, Typed
<1>3. /\ req' \in [Reqs -> ReqRec] /\ Others(r)
      /\ req'[r].pc = "replaceUsers" /\ req'[r].op = "reload" /\ req'[r].snap = disk
  <2>1. [pc |-> "replaceUsers", op |-> "reload", arg |-> "none", snap |-> disk] \in ReqRec
    BY <1>2 DEF ReqRec, ReloadSteps
  <2> QED BY <2>1, BeginEffect DEF ReloadLoad
<1>4. Typed'
  BY <1>1, <1>3 DEF Typed
<1>5. Lock'
  BY <1>1, <1>3 DEF Lock, Others
<1>6. ReqShape'
  BY <1>1, <1>2, <1>3 DEF ReqShape, Others, ReloadSteps
<1>7. ReloadAlone'
  <2>1. ~overlap' => \A q \in Reqs \ {r} : req'[q].pc = "idle" /\ req'[q].op = "none"
    BY <1>1, <1>3 DEF Others, ReqShape
  <2> QED BY <2>1 DEF ReloadAlone
<1>8. KeptInv'
  BY <1>1, <1>2, <1>3 DEF KeptInv, Others
<1>9. AgreeInv'
  <2> SUFFICES ASSUME ~overlap' PROVE AgreeInv'
    BY DEF AgreeInv
  <2>1. \A q \in Reqs \ {r} : req'[q].pc = "idle" /\ req'[q].op = "none"
    BY <1>1, <1>3 DEF Others, ReqShape
  <2> QED BY <1>1, <1>2, <1>3, <2>1 DEF AgreeInv
<1> QED BY <1>4, <1>5, <1>6, <1>7, <1>8, <1>9

LEMMA ReloadUsersStep ==
    ASSUME Parts, up, NEW r \in Reqs, ReloadUsers(r)
    PROVE  Parts'
<1> USE DEF Parts
<1>1. /\ req[r].pc = "replaceUsers" /\ unsaved' = FALSE
      /\ users' = req[r].snap.users /\ maskHost' = replaceMaskHost(req[r].snap.users, maskHost)
      /\ UNCHANGED <<ja, cfg, limit, mu, disk, up, acked, dirty, overlap>>
  BY DEF ReloadUsers
<1>2. /\ req' \in [Reqs -> ReqRec] /\ Others(r)
      /\ req'[r].pc = "fingerprints" /\ req'[r].op = req[r].op /\ req'[r].snap = req[r].snap
  BY GotoEffect DEF ReloadUsers, ReloadSteps
<1>3. req[r].op = "reload" /\ req[r].snap \in File
  BY <1>1 DEF ReqShape, ReloadSteps
<1>4. users' \in UserList /\ maskHost' \in HostValues
  <2>1. users' \in UserList
    BY <1>1, <1>3, FileNotEmpty
  <2>2. req[r].snap.users \in Seq(User) /\ maskHost \in HostValues
    BY <1>1, <2>1 DEF UserList, Typed
  <2> QED BY <1>1, <2>1, <2>2, MaskHostType
<1>5. Typed'
  BY <1>1, <1>2, <1>4 DEF Typed
<1>6. Lock'
  BY <1>1, <1>2 DEF Lock, Others
<1>7. ReqShape'
  BY <1>1, <1>2, <1>3 DEF ReqShape, Others, ReloadSteps
<1>8. ReloadAlone'
  BY <1>1, <1>2, <1>3 DEF ReloadAlone, Others
<1>9. ~overlap => \A q \in Reqs \ {r} : req'[q].pc = "idle" /\ req'[q].op = "none"
  BY <1>2, <1>3 DEF ReloadAlone, ReqShape, Others
<1>10. KeptInv'
  BY <1>1, <1>2, <1>3, <1>9 DEF KeptInv
<1>11. AgreeInv'
  <2> SUFFICES ASSUME ~overlap PROVE AgreeInv'
    BY <1>1 DEF AgreeInv
  <2>1. disk # Empty /\ disk.users = req[r].snap.users /\ (~dirty => disk.set = req[r].snap.set)
    BY <1>3 DEF AgreeInv
  <2> QED BY <1>1, <1>2, <1>3, <1>9, <2>1 DEF AgreeInv
<1> QED BY <1>5, <1>6, <1>7, <1>8, <1>10, <1>11

\* The other three steps leave users and file alone.
LEMMA ReloadRestStep ==
    ASSUME Parts, up, NEW r \in Reqs, ReloadFingerprints(r) \/ ReloadConfig(r) \/ ReloadLimiter(r)
    PROVE  Parts'
<1> USE DEF Parts
<1>1. /\ req[r].pc \in {"fingerprints", "config", "limiter"}
      /\ UNCHANGED <<users, maskHost, mu, disk, up, acked, dirty, unsaved, overlap>>
      /\ ja' = IF req[r].pc = "fingerprints" THEN req[r].snap.set ELSE ja
      /\ cfg' = IF req[r].pc = "config" THEN req[r].snap.set ELSE cfg
      /\ limit' = IF req[r].pc = "limiter" THEN req[r].snap.set ELSE limit
  BY DEF ReloadFingerprints, ReloadConfig, ReloadLimiter, hist
<1>2. req' \in [Reqs -> ReqRec] /\ Others(r)
  BY GotoEffect, FinishEffect DEF ReloadFingerprints, ReloadConfig, ReloadLimiter, ReloadSteps
<1>3. \/ /\ req[r].pc = "fingerprints" /\ req'[r].pc = "config"
         /\ req'[r].op = req[r].op /\ req'[r].snap = req[r].snap
      \/ /\ req[r].pc = "config" /\ req'[r].pc = "limiter"
         /\ req'[r].op = req[r].op /\ req'[r].snap = req[r].snap
      \/ req[r].pc = "limiter" /\ req'[r].pc = "idle" /\ req'[r].op = "none"
  BY GotoEffect, FinishEffect DEF ReloadFingerprints, ReloadConfig, ReloadLimiter, ReloadSteps
<1>4. req[r].op = "reload" /\ req[r].snap \in File /\ req[r].snap.set \in Settings
  BY <1>1, FileNotEmpty DEF ReqShape, ReloadSteps
<1>5. Typed'
  BY <1>1, <1>2, <1>4 DEF Typed
<1>6. Lock'
  BY <1>1, <1>2, <1>3 DEF Lock, Others
<1>7. ReqShape'
  BY <1>1, <1>2, <1>3, <1>4 DEF ReqShape, Others, ReloadSteps
<1>8. ReloadAlone'
  BY <1>1, <1>2, <1>3, <1>4 DEF ReloadAlone, Others
<1>9. ~overlap => \A q \in Reqs \ {r} : req'[q].pc = "idle" /\ req'[q].op = "none"
  BY <1>2, <1>4 DEF ReloadAlone, ReqShape, Others
<1>10. KeptInv'
  BY <1>1, <1>3, <1>4, <1>9 DEF KeptInv
<1>11. AgreeInv'
  <2> SUFFICES ASSUME ~overlap PROVE AgreeInv'
    BY <1>1 DEF AgreeInv
  <2>1. /\ disk # Empty /\ disk.users = req[r].snap.users
        /\ ~dirty => disk.set = req[r].snap.set
        /\ req[r].pc \in {"config", "limiter"} => ja = req[r].snap.set
        /\ req[r].pc = "limiter" => cfg = req[r].snap.set
        /\ ~unsaved => disk.users = users
    BY <1>4 DEF AgreeInv
  <2>2. \A q \in Reqs : req'[q].pc # "saving"
    BY <1>3, <1>9
  <2>3. CASE req[r].pc = "limiter"
    <3>1. \A q \in Reqs : req'[q].op = "none"
      BY <1>3, <1>9, <2>3
    <3> QED BY <1>1, <2>1, <2>2, <2>3, <3>1 DEF AgreeInv
  <2>4. CASE req[r].pc # "limiter"
    BY <1>1, <1>3, <1>4, <1>9, <2>1, <2>2, <2>4 DEF AgreeInv
  <2> QED BY <2>3, <2>4
<1> QED BY <1>5, <1>6, <1>7, <1>8, <1>10, <1>11

-----------------------------------------------------------------------------
(* The environment, Init, and the theorems *)

LEMMA EditFileStep ==
    ASSUME Parts, up, NEW s \in Settings, EditFile(s)
    PROVE  Parts'
<1> USE DEF Parts
<1>1. /\ disk # Empty /\ disk' = [disk EXCEPT !.set = s] /\ dirty' = TRUE
      /\ UNCHANGED <<users, maskHost, ja, cfg, limit, mu, up, req, acked, unsaved, overlap>>
  BY DEF EditFile, mem
<1>2. disk \in File
  BY <1>1 DEF Typed
<1>3. disk' \in File /\ disk'.users = disk.users
  BY <1>1, <1>2 DEF File
<1>4. disk' # Empty
  BY <1>3, FileNotEmpty
<1>5. Typed' /\ Lock'
  BY <1>1, <1>3 DEF Typed, Lock
<1>6. ReqShape'
  BY <1>1 DEF ReqShape
<1>7. ReloadAlone' /\ KeptInv'
  BY <1>1, <1>3 DEF ReloadAlone, KeptInv
<1>8. AgreeInv'
  BY <1>1, <1>3, <1>4 DEF AgreeInv, ReqShape
<1> QED BY <1>5, <1>6, <1>7, <1>8

LEMMA CrashStep ==
    ASSUME Parts, up, Crash
    PROVE  Parts'
<1> USE DEF Parts
<1>1. /\ dirty' = FALSE /\ unsaved' = FALSE /\ UNCHANGED <<disk, acked, overlap>>
      /\ req' = [r \in Reqs |-> Idle]
  BY DEF Crash
<1>2. /\ req' \in [Reqs -> ReqRec]
      /\ \A r \in Reqs : req'[r].pc = "idle" /\ req'[r].op = "none"
  <2>1. Idle \in ReqRec /\ Idle.pc = "idle" /\ Idle.op = "none"
    BY DEF Idle, ReqRec
  <2> QED BY <1>1, <2>1
<1>3. ReqShape' /\ ReloadAlone'
  BY <1>2 DEF ReqShape, ReloadAlone, ReloadSteps
<1>4. CASE Loadable(disk)
  <2>1. disk \in File /\ disk # Empty
    <3>1. Enabled(Empty.users) = {}
      BY DEF Enabled, Empty, Snap
    <3> QED BY <1>4, <3>1 DEF Loadable, Typed
  <2>2. /\ users' = disk.users /\ maskHost' = replaceMaskHost(disk.users, "") /\ up' = up
        /\ ja' = disk.set /\ limit' = disk.set /\ cfg' = disk.set /\ mu' = Nobody
    BY <1>4 DEF Crash, Boot
  <2>3. users' \in UserList /\ disk.set \in Settings /\ maskHost' \in HostValues
    <3>1. users' \in UserList /\ disk.set \in Settings
      BY <2>1, <2>2, FileNotEmpty
    <3>2. disk.users \in Seq(User) /\ "" \in HostValues
      BY <2>2, <3>1 DEF UserList, HostValues
    <3> QED BY <2>2, <3>1, <3>2, MaskHostType
  <2>4. Typed'
    BY <1>1, <1>2, <2>2, <2>3 DEF Typed
  <2>5. Lock'
    BY <1>2, <2>2, NobodyFresh DEF Lock
  <2>6. KeptInv'
    BY <1>1, <1>2, <2>1, <2>2 DEF KeptInv
  <2>7. AgreeInv'
    BY <1>1, <1>2, <2>2 DEF AgreeInv
  <2> QED BY <1>3, <2>4, <2>5, <2>6, <2>7
<1>5. CASE ~Loadable(disk)
  <2>1. up' = FALSE /\ UNCHANGED <<users, maskHost, ja, cfg, limit, mu>>
    BY <1>5 DEF Crash, mem
  <2>2. Typed'
    BY <1>1, <1>2, <2>1 DEF Typed
  <2>3. Lock' /\ AgreeInv'
    BY <2>1 DEF Lock, AgreeInv
  <2>4. KeptInv'
    BY <1>1, <1>2, <2>1 DEF KeptInv
  <2> QED BY <1>3, <2>2, <2>3, <2>4
<1> QED BY <1>4, <1>5

LEMMA InitParts == Init => Parts
<1> SUFFICES ASSUME Init PROVE Parts
  OBVIOUS
<1> USE DEF Parts
<1>1. PICK n \in Names, h \in Hosts, s \in Settings :
        LET us == << [name |-> n, host |-> h, enabled |-> TRUE] >>
        IN /\ disk = Snap(s, us)
           /\ users = us /\ maskHost = replaceMaskHost(us, "")
           /\ ja = s /\ limit = s /\ cfg = s
  BY DEF Init
<1>2. users \in UserList
  <2>1. [name |-> n, host |-> h, enabled |-> TRUE] \in User
    BY DEF User
  <2> DEFINE u == [name |-> n, host |-> h, enabled |-> TRUE]
  <2> HIDE DEF u
  <2>2. <<u>> \in Seq(User) /\ Len(<<u>>) = 1
    BY <2>1 DEF u
  <2>3. <<u>> \in UserList
    BY <2>2 DEF UserList
  <2> QED BY <1>1, <2>3 DEF u
<1>3. disk \in File /\ disk.set = s /\ disk.users = users
  BY <1>1, <1>2, SnapFile DEF Snap
<1>4. maskHost \in HostValues
  <2>1. users \in Seq(User) /\ "" \in HostValues /\ maskHost = replaceMaskHost(users, "")
    BY <1>1, <1>2 DEF UserList, HostValues
  <2> QED BY <2>1, MaskHostType
<1>5. /\ req \in [Reqs -> ReqRec]
      /\ \A r \in Reqs : req[r].pc = "idle" /\ req[r].op = "none"
  <2>1. Idle \in ReqRec /\ Idle.pc = "idle" /\ Idle.op = "none"
    BY DEF Idle, ReqRec
  <2> QED BY <2>1 DEF Init
<1>6. /\ mu = Nobody /\ up = TRUE /\ acked = {}
      /\ dirty = FALSE /\ unsaved = FALSE /\ overlap = FALSE
  BY DEF Init
<1>7. Typed
  BY <1>1, <1>2, <1>3, <1>4, <1>5, <1>6 DEF Typed
<1>8. Lock /\ ReqShape /\ ReloadAlone
  BY <1>5, <1>6, NobodyFresh DEF Lock, ReqShape, ReloadAlone, ReloadSteps
<1>9. KeptInv /\ AgreeInv
  BY <1>1, <1>3, <1>5, <1>6 DEF KeptInv, AgreeInv
<1> QED BY <1>7, <1>8, <1>9

LEMMA NextParts == Parts /\ [Next]_vars => Parts'
<1> SUFFICES ASSUME Parts, [Next]_vars PROVE Parts'
  OBVIOUS
<1>1. ASSUME up, NEW r \in Reqs, Request(r) PROVE Parts'
  BY <1>1, CreateUserStep, UpdateUserStep, ToggleReadStep, DeleteUserStep, UpdateSettingsStep,
     UpdateSettingsFailsStep, ReloadLoadStep DEF Request
<1>2. ASSUME up, NEW r \in Reqs, Step(r) PROVE Parts'
  BY <1>2, ToggleWriteStep, GivesUpStep, PersistUsersStep, SaveDoneStep, SaveBreaksStep,
     ReloadUsersStep, ReloadRestStep DEF Step
<1>3. CASE UNCHANGED vars
  <2>1. UNCHANGED <<users, maskHost, ja, cfg, limit, mu, disk, up, req, acked, dirty, unsaved, overlap>>
    BY <1>3 DEF vars, mem, hist
  <2>2. Typed' /\ Lock' /\ ReqShape'
    BY <2>1 DEF Parts, Typed, Lock, ReqShape
  <2>3. ReloadAlone' /\ KeptInv' /\ AgreeInv'
    BY <2>1 DEF Parts, ReloadAlone, KeptInv, AgreeInv
  <2> QED BY <2>2, <2>3 DEF Parts
<1> QED BY <1>1, <1>2, <1>3, EditFileStep, CrashStep DEF Next

\* StoreInv holds of every reachable state.
THEOREM StoreInvariance == Spec => []StoreInv
<1>1. Spec => []Parts
  BY InitParts, NextParts, PTL DEF Spec
<1> QED BY <1>1, StoreParts, PTL

\* The state is well formed, and r.mu is held by the request that writes the
\* file and by nobody else.
THEOREM TypeCorrect == Spec => []TypeOK
BY StoreInvariance, PTL DEF StoreInv

\* A user whose creation was answered with success is in memory and in the file
\* until its deletion is requested.
THEOREM AckedUserKeptInvariance == Spec => []AckedUserKept
<1>1. StoreInv => AckedUserKept
  BY DEF StoreInv, KeptInv, AckedUserKept
<1> QED BY <1>1, StoreInvariance, PTL

\* File, Runtime.Config, whitelist and limiter agree in every quiet moment.
THEOREM SettingsAgreeInvariance == Spec => []SettingsAgree
<1>1. StoreInv => SettingsAgree
  BY DEF StoreInv, ReqInv, AgreeInv, SettingsAgree, Quiet
<1> QED BY <1>1, StoreInvariance, PTL

\* The saved user list is the one in use in every quiet moment.
THEOREM UsersAgreeInvariance == Spec => []UsersAgree
<1>1. StoreInv => UsersAgree
  BY DEF StoreInv, AgreeInv, UsersAgree, Quiet
<1> QED BY <1>1, StoreInvariance, PTL
=============================================================================
