------------------------- MODULE ConnHandlerProofs -------------------------
(***************************************************************************)
(* Proofs about ConnHandler, for any number of connections, addresses and  *)
(* users, every configuration of the blacklist and any length of time.     *)
(***************************************************************************)
EXTENDS ConnHandler, FiniteSetTheorems, SequenceTheorems, TLAPS

Steps == {"new", "first", "hello", "inner", "header", "reject", "probe",
          "dial", "middle", "relay", "splice", "fallback", "upstream", "closed"}
Whys == {"none", "invalid", "aborted", "timeout", "dial", "dialTimeout", "served"}
Sock == [deadline : Nat \cup {Never}, pos : 0..3, capture : Seq(Nat), site : Seq(Nat)]

\* The parts of TypeOK, with the length of the stream worked out.
LEMMA TypeParts ==
    TypeOK <=>
    /\ now \in 0..MaxTime
    /\ ip \in [Conns -> IPs] /\ user \in [Conns -> Users] /\ kind \in [Conns -> Kinds]
    /\ pc \in [Conns -> Steps] /\ sock \in [Conns -> Sock] /\ why \in [Conns -> Whys]
    /\ cut \subseteq Conns
    /\ threshold \in Thresholds /\ counts \in [IPs -> SUBSET Conns]
    /\ blocked \in [IPs -> Nat \cup {Never}] /\ rec \in [Conns -> Nat \cup {Never}]
    /\ active \in [Users -> Nat] /\ total \in [Users -> Nat]
<1>1. Len(Stream) = 3
  BY DEF Stream
<1> QED BY <1>1, Zenon DEF TypeOK, Steps, Whys, Sock

\* The same after a step.
LEMMA TypePartsNext ==
    ASSUME now' \in 0..MaxTime,
           ip' \in [Conns -> IPs], user' \in [Conns -> Users], kind' \in [Conns -> Kinds],
           pc' \in [Conns -> Steps], sock' \in [Conns -> Sock], why' \in [Conns -> Whys],
           cut' \subseteq Conns,
           threshold' \in Thresholds, counts' \in [IPs -> SUBSET Conns],
           blocked' \in [IPs -> Nat \cup {Never}], rec' \in [Conns -> Nat \cup {Never}],
           active' \in [Users -> Nat], total' \in [Users -> Nat]
    PROVE  TypeOK'
<1>1. Len(Stream) = 3
  BY DEF Stream
<1> QED BY <1>1, Zenon DEF TypeOK, Steps, Whys, Sock

-----------------------------------------------------------------------------
(* The stream and its beginnings *)

LEMMA Beginnings ==
    /\ SubSeq(Stream, 1, 1) = <<1>>
    /\ Append(SubSeq(Stream, 1, 1), 2) = SubSeq(Stream, 1, 2)
    /\ Append(SubSeq(Stream, 1, 2), 3) = SubSeq(Stream, 1, 3)
    /\ \A n \in 0..2 : Append(SubSeq(Stream, 1, n), n + 1) = SubSeq(Stream, 1, n + 1)
    /\ \A n \in 0..3 : SubSeq(Stream, 1, n) \in Seq(Nat)
<1>1. Stream \in Seq(Nat) /\ Len(Stream) = 3 /\ \A n \in 1..3 : Stream[n] = n
  BY DEF Stream
<1>2. \A n \in 0..3 : SubSeq(Stream, 1, n) \in Seq(Nat) /\ Len(SubSeq(Stream, 1, n)) = n
  BY <1>1
<1>3. ASSUME NEW n \in 0..2 PROVE Append(SubSeq(Stream, 1, n), n + 1) = SubSeq(Stream, 1, n + 1)
  BY <1>1, <1>2
<1>4. SubSeq(Stream, 1, 1) = <<1>>
  <2>1. SubSeq(Stream, 1, 1) \in Seq(Nat) /\ Len(SubSeq(Stream, 1, 1)) = 1
    BY <1>2
  <2>2. SubSeq(Stream, 1, 1)[1] = 1
    BY <1>1
  <2>3. <<1>> \in Seq(Nat) /\ Len(<<1>>) = 1 /\ <<1>>[1] = 1
    OBVIOUS
  <2>4. \A i \in 1..Len(<<1>>) : SubSeq(Stream, 1, 1)[i] = <<1>>[i]
    BY <2>2, <2>3
  <2> HIDE DEF Stream
  <2> QED BY <2>1, <2>3, <2>4, SeqEqual
<1> QED BY <1>2, <1>3, <1>4

-----------------------------------------------------------------------------
(* What one step of a connection's goroutine can change. *)

ConnStep(c) == DeadlineFires(c) \/ OwnStep(c) \/ ClientStep(c) \/ PeerStep(c)

\* Nothing of another connection, nor what this one is.
OwnStateOf(c) ==
    /\ UNCHANGED <<now, ip, user, kind>>
    /\ pc' \in [Conns -> Steps] /\ pc' = [pc EXCEPT ![c] = pc'[c]]
    /\ why' \in [Conns -> Whys] /\ why' = [why EXCEPT ![c] = why'[c]]
    /\ sock' \in [Conns -> Sock] /\ sock' = [sock EXCEPT ![c] = sock'[c]]

LEMMA GotoEffect ==
    ASSUME TypeOK, NEW c \in Conns, NEW s \in Steps, Goto(c, s)
    PROVE  pc' \in [Conns -> Steps] /\ pc' = [pc EXCEPT ![c] = pc'[c]] /\ pc'[c] = s
BY TypeParts DEF Goto

LEMMA ReasonEffect ==
    ASSUME TypeOK, NEW c \in Conns, NEW w \in Whys, Reason(c, w)
    PROVE  why' \in [Conns -> Whys] /\ why' = [why EXCEPT ![c] = why'[c]] /\ why'[c] = w
BY TypeParts DEF Reason

LEMMA SocketEffect ==
    ASSUME TypeOK, NEW c \in Conns, NEW s \in Sock, Socket(c, s)
    PROVE  sock' \in [Conns -> Sock] /\ sock' = [sock EXCEPT ![c] = sock'[c]] /\ sock'[c] = s
BY TypeParts DEF Socket

\* What is left alone is a step of the same form.
LEMMA Unmoved ==
    ASSUME TypeOK, NEW c \in Conns
    PROVE  /\ UNCHANGED pc => pc' \in [Conns -> Steps] /\ pc' = [pc EXCEPT ![c] = pc'[c]]
           /\ UNCHANGED why => why' \in [Conns -> Whys] /\ why' = [why EXCEPT ![c] = why'[c]]
           /\ UNCHANGED sock => sock' \in [Conns -> Sock] /\ sock' = [sock EXCEPT ![c] = sock'[c]]
BY TypeParts

\* The records the steps build.
LEMMA SockTypes ==
    /\ NewSock \in Sock
    /\ \A s \in Sock :
         /\ \A d \in Nat \cup {Never} : /\ [s EXCEPT !.deadline = d] \in Sock
                                        /\ [NewSock EXCEPT !.deadline = d] \in Sock
         /\ \A t \in Seq(Nat) : /\ [s EXCEPT !.site = t] \in Sock /\ [s EXCEPT !.capture = t] \in Sock
                                /\ [s EXCEPT !.site = t, !.capture = << >>] \in Sock
         /\ \A t \in Seq(Nat), n \in 0..3 : [s EXCEPT !.pos = n, !.capture = t] \in Sock
         /\ \A t \in Seq(Nat), n \in 0..3 : [s EXCEPT !.pos = n, !.site = t] \in Sock
         /\ \A t \in Seq(Nat), n \in 0..3, d \in Nat \cup {Never} :
              [s EXCEPT !.pos = n, !.deadline = d, !.capture = t] \in Sock
<1>1. NewSock \in Sock
  BY DEF NewSock, Sock
<1>2. ASSUME NEW s \in Sock, NEW d \in Nat \cup {Never}
      PROVE  [s EXCEPT !.deadline = d] \in Sock /\ [NewSock EXCEPT !.deadline = d] \in Sock
  <2>1. \A r \in Sock : [r EXCEPT !.deadline = d] \in Sock
    BY DEF Sock
  <2> QED BY <1>1, <2>1
<1>3. ASSUME NEW s \in Sock, NEW t \in Seq(Nat)
      PROVE  /\ [s EXCEPT !.site = t] \in Sock /\ [s EXCEPT !.capture = t] \in Sock
             /\ [s EXCEPT !.site = t, !.capture = << >>] \in Sock
  <2>1. << >> \in Seq(Nat)
    OBVIOUS
  <2>2. [s EXCEPT !.site = t] \in Sock
    BY DEF Sock
  <2>3. [s EXCEPT !.capture = t] \in Sock
    BY DEF Sock
  <2>4. [s EXCEPT !.site = t, !.capture = << >>] \in Sock
    BY <2>1 DEF Sock
  <2> QED BY <2>2, <2>3, <2>4
<1>4. ASSUME NEW s \in Sock, NEW t \in Seq(Nat), NEW n \in 0..3
      PROVE  [s EXCEPT !.pos = n, !.capture = t] \in Sock /\ [s EXCEPT !.pos = n, !.site = t] \in Sock
  BY DEF Sock
<1>5. ASSUME NEW s \in Sock, NEW t \in Seq(Nat), NEW n \in 0..3, NEW d \in Nat \cup {Never}
      PROVE  [s EXCEPT !.pos = n, !.deadline = d, !.capture = t] \in Sock
  BY DEF Sock
<1> QED BY <1>1, <1>2, <1>3, <1>4, <1>5

\* A goroutine's own state after a step of its own.
LEMMA OwnState ==
    ASSUME TypeOK, NEW c \in Conns, ConnStep(c)
    PROVE  OwnStateOf(c)
<1>t. /\ now \in Nat /\ sock[c] \in Sock /\ sock[c].deadline \in Nat \cup {Never}
      /\ sock[c].pos \in 0..3 /\ sock[c].capture \in Seq(Nat) /\ sock[c].site \in Seq(Nat)
  BY TypeParts, MaxTimeNat DEF Sock
<1>w. \A w \in {"none", "invalid", "aborted", "timeout", "dial", "dialTimeout", "served"} : w \in Whys
  BY DEF Whys
<1>p. /\ {"first", "hello", "inner", "header", "reject", "probe", "dial", "middle", "relay"} \subseteq Steps
      /\ {"splice", "fallback", "upstream", "closed"} \subseteq Steps
  BY DEF Steps
<1>n. NewSock \in Sock
  BY SockTypes
<1> USE DEF OwnStateOf, conns
<1>1. CASE Begin(c)
  <2>1. CASE IsBlocked(ip[c])
    BY <1>1, <1>w, <1>n, <1>p, <2>1, GotoEffect, ReasonEffect, SocketEffect, Unmoved DEF Begin, Closed, Forget
  <2>2. CASE ~IsBlocked(ip[c])
    <3>0. now + HandshakeTimeout \in Nat \cup {Never}
      BY <1>t, TimeoutNat
    <3>1. [sock[c] EXCEPT !.deadline = now + HandshakeTimeout] \in Sock
      BY <1>t, <3>0, SockTypes
    <3> QED BY <1>1, <1>p, <2>2, <3>1, GotoEffect, ReasonEffect, SocketEffect, Unmoved DEF Begin, Arm
  <2> QED BY <2>1, <2>2
<1>2. CASE ReadFirst(c)
  <2>1. (IF ViaTLS(c) THEN Prepend ELSE sock[c].capture) \in Seq(Nat)
    BY <1>t DEF Prepend
  <2>2. [sock[c] EXCEPT !.pos = 1, !.capture = IF ViaTLS(c) THEN Prepend ELSE @] \in Sock
    <3>1. 1 \in 0..3
      OBVIOUS
    <3>2. \A t \in Seq(Nat), n \in 0..3 : [sock[c] EXCEPT !.pos = n, !.capture = t] \in Sock
      BY <1>t, SockTypes
    <3> QED BY <2>1, <3>1, <3>2
  <2>3. CASE ViaTLS(c) \/ "secure" \in Protocols
    BY <1>2, <1>p, <2>2, <2>3, GotoEffect, ReasonEffect, SocketEffect, Unmoved DEF ReadFirst
  <2>4. CASE ~(ViaTLS(c) \/ "secure" \in Protocols)
    BY <1>2, <1>p, <1>w, <2>2, <2>4, GotoEffect, ReasonEffect, SocketEffect, Unmoved DEF ReadFirst
  <2> QED BY <2>3, <2>4
<1>3. CASE FirstFails(c) \/ SiteEnds(c) \/ UpstreamEnds(c) \/ RelayEnds(c)
  BY <1>3, <1>n, <1>p, <1>w, GotoEffect, ReasonEffect, SocketEffect, Unmoved
  DEF FirstFails, SiteEnds, UpstreamEnds, RelayEnds, Closed, Forget
<1>r. ASSUME NEW n \in 0..3, NEW d \in Nat \cup {Never}, Reading(c, n, d)
      PROVE  sock' \in [Conns -> Sock] /\ sock' = [sock EXCEPT ![c] = sock'[c]]
  <2>1. (IF ViaTLS(c) THEN Append(sock[c].capture, n) ELSE sock[c].capture) \in Seq(Nat)
    BY <1>t
  <2>2. [sock[c] EXCEPT !.pos = n, !.deadline = d,
                        !.capture = IF ViaTLS(c) THEN Append(@, n) ELSE @] \in Sock
    BY <1>t, SockTypes, <2>1
  <2> QED BY <1>r, <2>2, GotoEffect, ReasonEffect, SocketEffect, Unmoved DEF Reading
<1>4. CASE ReadHello(c)
  <2>1. Reading(c, 2, sock[c].deadline)
    BY <1>4 DEF ReadHello
  <2>2. sock' \in [Conns -> Sock] /\ sock' = [sock EXCEPT ![c] = sock'[c]]
    <3>1. 2 \in 0..3 /\ Never \in Nat \cup {Never}
      OBVIOUS
    <3> QED BY <1>t, <1>r, <2>1, <3>1
  <2> QED BY <1>4, <1>p, <1>w, <2>2, GotoEffect, ReasonEffect, Unmoved DEF ReadHello
<1>5. CASE ReadInner(c)
  <2>1. Reading(c, 3, Never) \/ Reading(c, 3, sock[c].deadline)
    BY <1>5 DEF ReadInner, ClearDeadline
  <2>2. sock' \in [Conns -> Sock] /\ sock' = [sock EXCEPT ![c] = sock'[c]]
    <3>1. 3 \in 0..3 /\ Never \in Nat \cup {Never}
      OBVIOUS
    <3> QED BY <1>t, <1>r, <2>1, <3>1
  <2> QED BY <1>5, <1>p, <1>w, <2>2, GotoEffect, ReasonEffect, Unmoved DEF ReadInner
<1>6. CASE ReadHeader(c)
  <2>1. Reading(c, 2, Never) \/ Reading(c, 2, sock[c].deadline)
    BY <1>6 DEF ReadHeader, ClearDeadline
  <2>2. sock' \in [Conns -> Sock] /\ sock' = [sock EXCEPT ![c] = sock'[c]]
    <3>1. 2 \in 0..3 /\ Never \in Nat \cup {Never}
      OBVIOUS
    <3> QED BY <1>t, <1>r, <2>1, <3>1
  <2> QED BY <1>6, <1>p, <1>w, <2>2, GotoEffect, ReasonEffect, Unmoved DEF ReadHeader
<1>7. ASSUME NEW w \in {"timeout", "aborted"}, HandshakeFails(c, w) PROVE OwnStateOf(c)
  BY <1>7, <1>p, <1>w, GotoEffect, ReasonEffect, SocketEffect, Unmoved DEF HandshakeFails
<1>8. ASSUME NEW w \in {"timeout", "aborted"}, HeaderShort(c, w) PROVE OwnStateOf(c)
  <2>1. 2 \in 0..3 /\ Reading(c, 2, sock[c].deadline)
    BY <1>8 DEF HeaderShort
  <2>2. sock' \in [Conns -> Sock] /\ sock' = [sock EXCEPT ![c] = sock'[c]]
    BY <1>t, <1>r, <2>1
  <2> QED BY <1>8, <1>p, <1>w, <2>2, GotoEffect, ReasonEffect DEF HeaderShort
<1>9. CASE RejectTLS(c)
  <2>1. PICK action \in FrontingActions :
         \/ /\ action = "splice"
            /\ Goto(c, "splice") /\ UNCHANGED why
            /\ Socket(c, [sock[c] EXCEPT !.site = sock[c].capture, !.capture = << >>])
         \/ /\ action \in {"splice", "redirect"}
            /\ Closed(c, "none")
         \/ /\ action = "fallback"
            /\ Goto(c, "fallback") /\ UNCHANGED why
            /\ Socket(c, [sock[c] EXCEPT !.capture = << >>])
    BY <1>9 DEF RejectTLS
  <2>2. << >> \in Seq(Nat)
    OBVIOUS
  <2>3. /\ [sock[c] EXCEPT !.site = sock[c].capture, !.capture = << >>] \in Sock
        /\ [sock[c] EXCEPT !.capture = << >>] \in Sock
    BY <1>t, SockTypes, <2>2
  <2>4. UNCHANGED <<now, ip, user, kind>>
    BY <1>9 DEF RejectTLS
  <2> QED BY <1>n, <1>p, <1>w, <2>1, <2>3, <2>4, GotoEffect, ReasonEffect, SocketEffect, Unmoved DEF Closed, Forget
<1>10. CASE Probe(c)
  <2>1. <<1>> \in Seq(Nat)
    OBVIOUS
  <2>2. [sock[c] EXCEPT !.site = <<1>>] \in Sock
    BY <1>t, <2>1, SockTypes
  <2> QED BY <1>10, <1>p, <2>2, GotoEffect, ReasonEffect, SocketEffect, Unmoved DEF Probe
<1>11. ASSUME NEW from, Connected(c, from) PROVE OwnStateOf(c)
  <2>1. [NewSock EXCEPT !.deadline = sock[c].deadline] \in Sock
    BY <1>t, SockTypes
  <2> QED BY <1>11, <1>p, <2>1, GotoEffect, ReasonEffect, SocketEffect, Unmoved DEF Connected
<1>12. ASSUME NEW from, NEW w \in {"dial", "dialTimeout"}, DialFails(c, from, w) PROVE OwnStateOf(c)
  <2>1. (IF ViaTLS(c) THEN "reject" ELSE "probe") \in Steps
    BY <1>p
  <2> QED BY <1>12, <1>w, <2>1, GotoEffect, ReasonEffect, SocketEffect, Unmoved DEF DialFails
<1>13. CASE DialMiddle(c)
  BY <1>13, <1>p, GotoEffect, ReasonEffect, SocketEffect, Unmoved DEF DialMiddle
<1>14. CASE SiteReads(c)
  <2>1. sock[c].pos + 1 \in 0..3 /\ Append(sock[c].site, sock[c].pos + 1) \in Seq(Nat)
    BY <1>14, <1>t DEF SiteReads, Stream
  <2>2. [sock[c] EXCEPT !.pos = @ + 1, !.site = Append(@, sock[c].pos + 1)] \in Sock
    BY <1>t, SockTypes, <2>1
  <2> QED BY <1>14, <2>2, GotoEffect, ReasonEffect, SocketEffect, Unmoved DEF SiteReads
<1>16. CASE RequestRead(c)
  BY <1>16, <1>n, <1>p, <1>w, GotoEffect, ReasonEffect, SocketEffect, Unmoved DEF RequestRead, Forget
<1>15. CASE DeadlineCuts(c)
  BY <1>15, <1>n, <1>p, <1>w, GotoEffect, ReasonEffect, SocketEffect, Unmoved DEF DeadlineCuts, Closed, Forget
<1> QED
  BY <1>1, <1>2, <1>3, <1>4, <1>5, <1>6, <1>7, <1>8, <1>9, <1>10, <1>11, <1>12, <1>13, <1>14, <1>15,
     <1>16
  DEF ConnStep, DeadlineFires, OwnStep, ClientStep, PeerStep

-----------------------------------------------------------------------------
(* Statistics *)

\* The three ways a step can touch them: not at all, a session begins, a
\* session ends.
Plain(c) ==
    /\ pc[c] # "relay" /\ pc'[c] # "relay"
    /\ why'[c] = why[c] \/ why'[c] # "served"
    /\ UNCHANGED <<active, total, cut>>
Opens(c) ==
    /\ pc[c] # "relay" /\ pc'[c] = "relay"
    /\ why'[c] = why[c] /\ OnConnect(user[c]) /\ UNCHANGED cut
Ends(c) ==
    /\ pc[c] = "relay" /\ pc'[c] = "closed"
    /\ why'[c] = "served" /\ OnDisconnect(user[c]) /\ UNCHANGED cut

LEMMA StatsShape ==
    ASSUME TypeOK, SockInv, NEW c \in Conns, ConnStep(c)
    PROVE  pc[c] # "closed" /\ (Plain(c) \/ Opens(c) \/ Ends(c))
<1>g. \A s : Goto(c, s) => pc'[c] = s
  BY TypeParts DEF Goto
<1>w. \A w : Reason(c, w) => why'[c] = w
  BY TypeParts DEF Reason
<1>c. \A w : Closed(c, w) => pc'[c] = "closed" /\ why'[c] = w
  BY <1>g, <1>w DEF Closed, Forget
<1> USE DEF Plain, stats
<1>1. CASE Begin(c)
  BY <1>1, <1>g, <1>c DEF Begin
<1>2. CASE ReadFirst(c)
  BY <1>2, <1>g, <1>w DEF ReadFirst
<1>3. CASE FirstFails(c) \/ SiteEnds(c) \/ UpstreamEnds(c)
  BY <1>3, <1>c DEF FirstFails, SiteEnds, UpstreamEnds
<1>4. CASE ReadHello(c) \/ ReadInner(c) \/ ReadHeader(c)
  BY <1>4, <1>g, <1>w DEF ReadHello, ReadInner, ReadHeader
<1>5. ASSUME NEW w \in {"timeout", "aborted"}, HandshakeFails(c, w) \/ HeaderShort(c, w)
      PROVE  pc[c] # "closed" /\ Plain(c)
  BY <1>5, <1>g, <1>w DEF HandshakeFails, HeaderShort
<1>6. CASE RejectTLS(c)
  BY <1>6, <1>g, <1>c DEF RejectTLS
<1>7. CASE Probe(c)
  BY <1>7, <1>g DEF Probe
<1>8. ASSUME NEW from \in {"dial", "middle"}, Connected(c, from) PROVE pc[c] # "closed" /\ Opens(c)
  BY <1>8, <1>g DEF Connected, Opens
<1>9. ASSUME NEW from \in {"dial", "middle"}, NEW w \in {"dial", "dialTimeout"}, DialFails(c, from, w)
      PROVE  pc[c] # "closed" /\ Plain(c)
  BY <1>9, <1>g, <1>w DEF DialFails
<1>10. CASE DialMiddle(c)
  BY <1>10, <1>g DEF DialMiddle
<1>11. CASE RelayEnds(c)
  BY <1>11, <1>c DEF RelayEnds, Ends
<1>12. CASE SiteReads(c) \/ RequestRead(c)
  BY <1>12, <1>g, <1>w DEF SiteReads, RequestRead, Forget
<1>13. CASE DeadlineCuts(c)
  <2>1. pc[c] # "relay"
    BY <1>13 DEF DeadlineCuts, Overdue, SockInv
  <2> QED BY <1>13, <1>c, <2>1 DEF DeadlineCuts
<1> QED
  BY <1>1, <1>2, <1>3, <1>4, <1>5, <1>6, <1>7, <1>8, <1>9, <1>10, <1>11, <1>12, <1>13
  DEF ConnStep, DeadlineFires, OwnStep, ClientStep, PeerStep

Relayed(u) == {c \in Conns : user[c] = u /\ pc[c] = "relay"}
Served(u) == {c \in Conns : user[c] = u /\ why[c] = "served"}

LEMMA StatsSetsFinite ==
    ASSUME NEW u
    PROVE  /\ IsFiniteSet(Relayed(u)) /\ Cardinality(Relayed(u)) \in Nat
           /\ IsFiniteSet(Served(u)) /\ Cardinality(Served(u)) \in Nat
<1>1. Relayed(u) \subseteq Conns /\ Served(u) \subseteq Conns
  BY DEF Relayed, Served
<1> QED BY <1>1, ConnsFinite, FS_Subset, FS_CardinalityType

\* The counters follow the sessions.
LEMMA StatsStep ==
    ASSUME TypeOK, SockInv, StatsInv, NEW c \in Conns, ConnStep(c)
    PROVE  StatsInv' /\ active' \in [Users -> Nat] /\ total' \in [Users -> Nat]
<1>o. /\ UNCHANGED user
      /\ \A d \in Conns \ {c} : pc'[d] = pc[d] /\ why'[d] = why[d]
  BY OwnState, TypeParts DEF OwnStateOf
<1>t. /\ user[c] \in Users /\ active \in [Users -> Nat] /\ total \in [Users -> Nat]
  BY TypeParts
<1>s. pc[c] # "closed" /\ why[c] # "served" /\ (Plain(c) \/ Opens(c) \/ Ends(c))
  BY StatsShape DEF StatsInv
<1>e. \A u \in Users : /\ active[u] = Cardinality(Relayed(u))
                       /\ total[u] = Cardinality(Relayed(u)) + Cardinality(Served(u))
  BY DEF StatsInv, StatsExact, Relayed, Served
<1>f. SUFFICES /\ active' \in [Users -> Nat] /\ total' \in [Users -> Nat]
               /\ \A u \in Users : /\ active'[u] = Cardinality(Relayed(u)')
                                   /\ total'[u] = Cardinality(Relayed(u)') + Cardinality(Served(u)')
               /\ why'[c] = "served" => pc'[c] = "closed"
  BY <1>o, <1>f DEF StatsInv, StatsExact, Relayed, Served
<1>n. \A u \in Users : /\ IsFiniteSet(Relayed(u)) /\ Cardinality(Relayed(u)) \in Nat
                       /\ IsFiniteSet(Served(u)) /\ Cardinality(Served(u)) \in Nat
  BY StatsSetsFinite
<1>1. CASE Plain(c)
  <2>1. \A u \in Users : Relayed(u)' = Relayed(u) /\ Served(u)' = Served(u)
    BY <1>1, <1>o, <1>s DEF Plain, Relayed, Served
  <2> QED BY <1>1, <1>e, <1>s, <1>t, <2>1 DEF Plain
<1>2. CASE Opens(c)
  <2>1. ASSUME NEW u \in Users
        PROVE  Served(u)' = Served(u) /\ Relayed(u)' = IF u = user[c] THEN Relayed(u) \cup {c} ELSE Relayed(u)
    BY <1>2, <1>o, <1>s DEF Opens, Relayed, Served
  <2>2. c \notin Relayed(user[c])
    BY <1>2 DEF Opens, Relayed
  <2>3. Cardinality(Relayed(user[c]) \cup {c}) = Cardinality(Relayed(user[c])) + 1
    BY <1>n, <1>t, <2>2, FS_AddElement
  <2>4. /\ active' = [active EXCEPT ![user[c]] = @ + 1]
        /\ total' = [total EXCEPT ![user[c]] = @ + 1]
    BY <1>2 DEF Opens, OnConnect
  <2>5. active' \in [Users -> Nat] /\ total' \in [Users -> Nat]
    BY <1>t, <2>4
  <2>6. ASSUME NEW u \in Users
        PROVE  /\ active'[u] = Cardinality(Relayed(u)')
               /\ total'[u] = Cardinality(Relayed(u)') + Cardinality(Served(u)')
    <3>1. CASE u = user[c]
      <4>1. active'[u] = active[u] + 1 /\ total'[u] = total[u] + 1
        BY <1>t, <2>4, <3>1
      <4>2. Relayed(u)' = Relayed(u) \cup {c} /\ Served(u)' = Served(u)
        BY <2>1, <3>1
      <4> QED BY <1>e, <1>n, <2>3, <3>1, <4>1, <4>2
    <3>2. CASE u # user[c]
      <4>1. active'[u] = active[u] /\ total'[u] = total[u]
        BY <1>t, <2>4, <3>2
      <4> QED BY <1>e, <2>1, <3>2, <4>1
    <3> QED BY <3>1, <3>2
  <2> QED BY <1>2, <1>s, <2>5, <2>6 DEF Opens
<1>3. CASE Ends(c)
  <2>1. ASSUME NEW u \in Users
        PROVE  /\ Relayed(u)' = IF u = user[c] THEN Relayed(u) \ {c} ELSE Relayed(u)
               /\ Served(u)' = IF u = user[c] THEN Served(u) \cup {c} ELSE Served(u)
    BY <1>3, <1>o, <1>s DEF Ends, Relayed, Served
  <2>2. c \in Relayed(user[c]) /\ c \notin Served(user[c])
    BY <1>3, <1>s DEF Ends, Relayed, Served
  <2>3. /\ Cardinality(Relayed(user[c]) \ {c}) = Cardinality(Relayed(user[c])) - 1
        /\ Cardinality(Relayed(user[c]) \ {c}) \in Nat
    BY <1>n, <1>t, <2>2, FS_RemoveElement, FS_CardinalityType
  <2>4. Cardinality(Served(user[c]) \cup {c}) = Cardinality(Served(user[c])) + 1
    BY <1>n, <1>t, <2>2, FS_AddElement
  <2>5. active' = [active EXCEPT ![user[c]] = @ - 1] /\ total' = total
    BY <1>3 DEF Ends, OnDisconnect
  <2>6. active[user[c]] - 1 \in Nat
    BY <1>e, <1>t, <2>3
  <2>7. active' \in [Users -> Nat] /\ total' \in [Users -> Nat]
    BY <1>t, <2>5, <2>6
  <2>8. ASSUME NEW u \in Users
        PROVE  /\ active'[u] = Cardinality(Relayed(u)')
               /\ total'[u] = Cardinality(Relayed(u)') + Cardinality(Served(u)')
    <3>1. CASE u = user[c]
      <4>1. active'[u] = active[u] - 1 /\ total'[u] = total[u]
        BY <1>t, <2>5, <3>1
      <4>2. Relayed(u)' = Relayed(u) \ {c} /\ Served(u)' = Served(u) \cup {c}
        BY <2>1, <3>1
      <4> QED BY <1>e, <1>n, <2>3, <2>4, <3>1, <4>1, <4>2
    <3>2. CASE u # user[c]
      <4>1. active'[u] = active[u] /\ total'[u] = total[u]
        BY <1>t, <2>5, <3>2
      <4> QED BY <1>e, <2>1, <3>2, <4>1
    <3> QED BY <3>1, <3>2
  <2> QED BY <1>3, <2>7, <2>8 DEF Ends
<1> QED BY <1>s, <1>1, <1>2, <1>3

-----------------------------------------------------------------------------
(* Sockets: what has been read, captured and passed on *)

\* SockInv and SpliceInOrder, for one connection.
SockOf(c) ==
    /\ pc[c] = "hello" => sock[c].pos = 1
    /\ pc[c] = "inner" => sock[c].pos = 2
    /\ pc[c] \in {"hello", "inner", "reject"} => ViaTLS(c)
    /\ pc[c] \in {"hello", "inner", "reject", "dial", "middle"} /\ ViaTLS(c) =>
         sock[c].capture = SubSeq(Stream, 1, sock[c].pos)
    /\ pc[c] \in {"dial", "middle", "relay"} => sock[c].deadline = Never
    /\ pc[c] = "splice" => sock[c].site = SubSeq(Stream, 1, sock[c].pos)

LEMMA SockOfAll == SockInv /\ SpliceInOrder <=> \A c \in Conns : SockOf(c)
BY DEF SockInv, SpliceInOrder, SockOf

LEMMA SockStep ==
    ASSUME TypeOK, SockInv, SpliceInOrder, NEW c \in Conns, ConnStep(c)
    PROVE  SockInv' /\ SpliceInOrder'
<1>o. /\ UNCHANGED kind
      /\ \A d \in Conns \ {c} : pc'[d] = pc[d] /\ sock'[d] = sock[d]
  BY OwnState, TypeParts DEF OwnStateOf
<1>v. \A d \in Conns : ViaTLS(d)' <=> ViaTLS(d)
  BY <1>o DEF ViaTLS
<1>i. SockOf(c) /\ sock[c] \in Sock /\ sock[c].pos \in 0..3
  BY SockOfAll, TypeParts DEF Sock
<1>s. SUFFICES SockOf(c)'
  <2>1. ASSUME NEW d \in Conns \ {c} PROVE SockOf(d)'
    BY <1>o, <1>v, SockOfAll DEF SockOf
  <2>2. \A d \in Conns : SockOf(d)'
    BY <1>s, <2>1
  <2>3. (\A d \in Conns : SockOf(d))' => SockInv' /\ SpliceInOrder'
    BY DEF SockInv, SpliceInOrder, SockOf
  <2> QED BY <2>2, <2>3
<1>g. \A s : Goto(c, s) => pc'[c] = s
  BY TypeParts DEF Goto
<1>k. \A s : Socket(c, s) => sock'[c] = s
  BY TypeParts DEF Socket
<1>c. \A w : Closed(c, w) => SockOf(c)'
  BY <1>g DEF Closed, Forget, SockOf
<1>r. ASSUME NEW n, NEW d, Reading(c, n, d)
      PROVE  /\ sock'[c].pos = n /\ sock'[c].deadline = d
             /\ sock'[c].capture = IF ViaTLS(c) THEN Append(sock[c].capture, n) ELSE sock[c].capture
  <2> DEFINE new == [sock[c] EXCEPT !.pos = n, !.deadline = d,
                                   !.capture = IF ViaTLS(c) THEN Append(@, n) ELSE @]
  <2>1. sock'[c] = new
    BY <1>k, <1>r DEF Reading
  <2>2. /\ new.pos = n /\ new.deadline = d
        /\ new.capture = IF ViaTLS(c) THEN Append(sock[c].capture, n) ELSE sock[c].capture
    BY <1>i DEF Sock
  <2> QED BY <2>1, <2>2
<1>1. CASE Begin(c)
  BY <1>1, <1>c, <1>g DEF Begin, SockOf
<1>2. CASE ReadFirst(c)
  <2>1. sock'[c].pos = 1 /\ (ViaTLS(c) => sock'[c].capture = <<1>>)
    <3> DEFINE new == [sock[c] EXCEPT !.pos = 1, !.capture = IF ViaTLS(c) THEN Prepend ELSE @]
    <3>1. sock'[c] = new
      BY <1>2, <1>k DEF ReadFirst
    <3>2. new.pos = 1 /\ (ViaTLS(c) => new.capture = <<1>>)
      BY <1>i DEF Sock, Prepend
    <3> QED BY <3>1, <3>2
  <2>2. pc'[c] \in {"header", "probe"} \/ (pc'[c] = "hello" /\ ViaTLS(c))
    BY <1>2, <1>g DEF ReadFirst
  <2> QED BY <1>v, <2>1, <2>2, Beginnings DEF SockOf
<1>3. CASE \/ FirstFails(c) \/ SiteEnds(c) \/ UpstreamEnds(c) \/ RelayEnds(c)
           \/ DeadlineCuts(c)
  BY <1>3, <1>c DEF FirstFails, SiteEnds, UpstreamEnds, RelayEnds, DeadlineCuts
<1>4. CASE ReadHello(c)
  <2>1. pc[c] = "hello" /\ Reading(c, 2, sock[c].deadline) /\ pc'[c] \in {"reject", "inner"}
    BY <1>4, <1>g DEF ReadHello
  <2>2. ViaTLS(c) /\ sock[c].capture = SubSeq(Stream, 1, 1)
    BY <1>i, <2>1 DEF SockOf
  <2>3. sock'[c].pos = 2 /\ sock'[c].capture = SubSeq(Stream, 1, 2)
    BY <1>r, <2>1, <2>2, Beginnings
  <2> QED BY <1>v, <2>1, <2>2, <2>3 DEF SockOf
<1>5. CASE ReadInner(c)
  <2>1. /\ pc[c] = "inner"
        /\ \/ pc'[c] = "dial" /\ Reading(c, 3, Never)
           \/ pc'[c] = "reject" /\ Reading(c, 3, sock[c].deadline)
    BY <1>5, <1>g DEF ReadInner, ClearDeadline
  <2>2. ViaTLS(c) /\ sock[c].capture = SubSeq(Stream, 1, 2)
    BY <1>i, <2>1 DEF SockOf
  <2>3. sock'[c].pos = 3 /\ sock'[c].capture = SubSeq(Stream, 1, 3)
    BY <1>r, <2>1, <2>2, Beginnings
  <2>4. pc'[c] = "dial" => sock'[c].deadline = Never
    BY <1>r, <2>1
  <2> QED BY <1>v, <2>1, <2>2, <2>3, <2>4 DEF SockOf
<1>6. CASE ReadHeader(c)
  <2>1. \/ pc'[c] = "dial" /\ Reading(c, 2, Never) /\ ~ViaTLS(c)
        \/ pc'[c] = "probe"
    BY <1>6, <1>g DEF ReadHeader, ClearDeadline, ViaTLS, TLSKinds
  <2>2. pc'[c] = "dial" => sock'[c].deadline = Never
    BY <1>r, <2>1
  <2> QED BY <1>v, <2>1, <2>2 DEF SockOf
<1>7. ASSUME NEW w, HandshakeFails(c, w) PROVE SockOf(c)'
  BY <1>7, <1>g, <1>i, <1>v DEF HandshakeFails, SockOf
<1>8. ASSUME NEW w, HeaderShort(c, w) PROVE SockOf(c)'
  BY <1>8, <1>g DEF HeaderShort, SockOf
<1>9. CASE RejectTLS(c)
  <2>1. pc[c] = "reject" /\ sock[c].capture = SubSeq(Stream, 1, sock[c].pos)
    BY <1>9, <1>i DEF RejectTLS, SockOf
  <2>2. \/ pc'[c] = "splice" /\ Socket(c, [sock[c] EXCEPT !.site = sock[c].capture, !.capture = << >>])
        \/ Closed(c, "none")
        \/ pc'[c] = "fallback"
    BY <1>9, <1>g DEF RejectTLS
  <2>3. ASSUME Socket(c, [sock[c] EXCEPT !.site = sock[c].capture, !.capture = << >>])
        PROVE  sock'[c].site = sock[c].capture /\ sock'[c].pos = sock[c].pos
    <3> DEFINE new == [sock[c] EXCEPT !.site = sock[c].capture, !.capture = << >>]
    <3>1. sock'[c] = new
      BY <1>k, <2>3
    <3>2. new.site = sock[c].capture /\ new.pos = sock[c].pos
      BY <1>i DEF Sock
    <3> QED BY <3>1, <3>2
  <2> QED BY <1>c, <2>1, <2>2, <2>3 DEF SockOf
<1>10. CASE Probe(c)
  BY <1>10, <1>g DEF Probe, SockOf
<1>11. ASSUME NEW from \in {"dial", "middle"}, Connected(c, from) PROVE SockOf(c)'
  <2>1. pc[c] = from /\ pc'[c] = "relay" /\ sock[c].deadline = Never
    BY <1>11, <1>g, <1>i DEF Connected, SockOf
  <2>2. sock'[c].deadline = Never
    <3>1. sock'[c] = [NewSock EXCEPT !.deadline = sock[c].deadline]
      BY <1>11, <1>k DEF Connected
    <3>2. [NewSock EXCEPT !.deadline = sock[c].deadline].deadline = sock[c].deadline
      BY DEF NewSock
    <3> QED BY <2>1, <3>1, <3>2
  <2> QED BY <2>1, <2>2 DEF SockOf
<1>12. ASSUME NEW from \in {"dial", "middle"}, NEW w, DialFails(c, from, w) PROVE SockOf(c)'
  BY <1>12, <1>g, <1>i, <1>v DEF DialFails, SockOf
<1>13. CASE DialMiddle(c)
  BY <1>13, <1>g, <1>i, <1>v DEF DialMiddle, SockOf
<1>14. CASE SiteReads(c)
  <2>1. /\ pc'[c] = pc[c] /\ pc[c] \in {"splice", "fallback"} /\ sock[c].pos \in 0..2
        /\ sock'[c].pos = sock[c].pos + 1 /\ sock'[c].site = Append(sock[c].site, sock[c].pos + 1)
    <3> DEFINE new == [sock[c] EXCEPT !.pos = @ + 1, !.site = Append(@, sock[c].pos + 1)]
    <3>1. sock'[c] = new /\ pc' = pc /\ pc[c] \in {"splice", "fallback"} /\ sock[c].pos < 3
      BY <1>14, <1>k DEF SiteReads, Stream
    <3>2. new.pos = sock[c].pos + 1 /\ new.site = Append(sock[c].site, sock[c].pos + 1)
      BY <1>i DEF Sock
    <3> HIDE DEF new
    <3> QED BY <1>i, <3>1, <3>2
  <2>2. pc[c] = "splice" => sock'[c].site = SubSeq(Stream, 1, sock'[c].pos)
    BY <1>i, <2>1, Beginnings DEF SockOf
  <2> QED BY <2>1, <2>2 DEF SockOf
<1>15. CASE RequestRead(c)
  BY <1>15, <1>g DEF RequestRead, Forget, SockOf
<1> QED
  BY <1>1, <1>2, <1>3, <1>4, <1>5, <1>6, <1>7, <1>8, <1>9, <1>10, <1>11, <1>12, <1>13, <1>14,
     <1>15
  DEF ConnStep, DeadlineFires, OwnStep, ClientStep, PeerStep

-----------------------------------------------------------------------------
(* The blacklist *)

Settled == {"splice", "fallback", "upstream", "closed"}

\* A step looks an address up, counts a probe, or leaves the blacklist alone;
\* a connection that is past its handshake stays there.
LEMMA BlacklistShape ==
    ASSUME TypeOK, NEW c \in Conns, ConnStep(c)
    PROVE  /\ pc[c] \in Settled => pc'[c] \in Settled
           /\ \/ UNCHANGED <<threshold, counts, blocked, rec>>
              \/ UNCHANGED <<threshold, rec>> /\ IsBlockedEffect(ip[c])
              \/ RecordProbe(c) /\ pc[c] \notin Settled /\ pc'[c] \in Settled
<1>g. \A s : Goto(c, s) => pc'[c] = s
  BY TypeParts DEF Goto
<1>c. \A w : Closed(c, w) => pc'[c] = "closed"
  BY <1>g DEF Closed, Forget
<1> USE DEF Settled, blacklist
<1>1. CASE Begin(c)
  BY <1>1 DEF Begin
<1>2. CASE ReadFirst(c) \/ FirstFails(c) \/ ReadHello(c) \/ ReadInner(c) \/ ReadHeader(c)
  BY <1>2 DEF ReadFirst, FirstFails, ReadHello, ReadInner, ReadHeader
<1>3. ASSUME NEW w, HandshakeFails(c, w) \/ HeaderShort(c, w)
      PROVE  pc[c] \notin Settled /\ UNCHANGED <<threshold, counts, blocked, rec>>
  BY <1>3 DEF HandshakeFails, HeaderShort
<1>4. CASE RejectTLS(c)
  <2>1. pc[c] = "reject" /\ pc'[c] \in Settled
    BY <1>4, <1>g, <1>c DEF RejectTLS
  <2> QED BY <1>4, <2>1 DEF RejectTLS
<1>5. CASE Probe(c)
  BY <1>5, <1>g DEF Probe
<1>6. ASSUME NEW from \in {"dial", "middle"}, Connected(c, from) \/ \E w : DialFails(c, from, w)
      PROVE  pc[c] \notin Settled /\ UNCHANGED <<threshold, counts, blocked, rec>>
  BY <1>6 DEF Connected, DialFails
<1>7. CASE DialMiddle(c) \/ RelayEnds(c)
  BY <1>7 DEF DialMiddle, RelayEnds
<1>8. CASE SiteReads(c) \/ RequestRead(c)
  BY <1>8, <1>g DEF SiteReads, RequestRead, Forget
<1>9. CASE SiteEnds(c) \/ UpstreamEnds(c) \/ DeadlineCuts(c)
  BY <1>9, <1>c DEF SiteEnds, UpstreamEnds, DeadlineCuts
<1> QED
  BY <1>1, <1>2, <1>3, <1>4, <1>5, <1>6, <1>7, <1>8, <1>9
  DEF ConnStep, DeadlineFires, OwnStep, ClientStep, PeerStep

\* Looking up forgets probes and blocks, and adds none.
LEMMA LookupEffect ==
    ASSUME TypeOK, NEW i \in IPs, IsBlockedEffect(i)
    PROVE  /\ counts' \in [IPs -> SUBSET Conns] /\ blocked' \in [IPs -> Nat \cup {Never}]
           /\ \A j \in IPs : counts'[j] \subseteq counts[j] /\ blocked'[j] \in {blocked[j], Never}
<1>1. CASE threshold <= 0
  BY <1>1, TypeParts DEF IsBlockedEffect
<1>2. CASE ~(threshold <= 0)
  <2>1. /\ Purged(counts, {}) \in [IPs -> SUBSET Conns]
        /\ \A j \in IPs : Purged(counts, {})[j] \in {counts[j], {}}
    BY TypeParts DEF Purged
  <2>2. /\ Purged(blocked, Never) \in [IPs -> Nat \cup {Never}]
        /\ \A j \in IPs : Purged(blocked, Never)[j] \in {blocked[j], Never}
    BY TypeParts DEF Purged
  <2>3. /\ counts' = [Purged(counts, {}) EXCEPT ![i] = IF now = blocked[i] THEN {} ELSE @]
        /\ blocked' = [Purged(blocked, Never) EXCEPT ![i] = IF now = blocked[i] THEN Never ELSE @]
    BY <1>2 DEF IsBlockedEffect
  <2>4. counts' \in [IPs -> SUBSET Conns] /\ \A j \in IPs : counts'[j] \subseteq counts[j]
    BY <2>1, <2>3
  <2>5. /\ blocked' \in [IPs -> Nat \cup {Never}]
        /\ \A j \in IPs : blocked'[j] \in {blocked[j], Never}
    BY <2>2, <2>3
  <2> QED BY <2>4, <2>5
<1> QED BY <1>1, <1>2

\* The probes of address i in the window that ends at time t.
Probes(i, t) == {c \in Conns : ip[c] = i /\ rec[c] # Never /\ t - Window < rec[c] /\ rec[c] <= t}

\* Counting a probe: at most this probe is new, and only its own address is
\* blocked, when there are enough probes in the window that ends now.
LEMMA ProbeEffect ==
    ASSUME TypeOK, ProbeInv, UNCHANGED <<now, ip>>, NEW c \in Conns, RecordProbe(c)
    PROVE  /\ UNCHANGED threshold
           /\ counts' \in [IPs -> SUBSET Conns] /\ blocked' \in [IPs -> Nat \cup {Never}]
           /\ rec' \in [Conns -> Nat \cup {Never}] /\ rec' \in {rec, [rec EXCEPT ![c] = now]}
           /\ \A j \in IPs : \/ counts'[j] \subseteq counts[j]
                             \/ /\ j = ip[c] /\ counts'[j] \subseteq counts[j] \cup {c}
                                /\ rec'[c] = now
           /\ \A j \in IPs : \/ blocked'[j] \in {blocked[j], Never}
                             \/ /\ j = ip[c] /\ blocked'[j] = now + Duration
                                /\ Cardinality(Probes(j, now)') >= threshold
<1> DEFINE i == ip[c]
           pruned == InWindow(Purged(counts, {})[i]) \cup {c}
<1>t. i \in IPs /\ now \in Nat /\ threshold \in Int /\ Duration \in Nat /\ Window \in Nat \ {0}
  <2>1. i \in IPs /\ now \in 0..MaxTime /\ threshold \in Thresholds
    BY TypeParts
  <2> QED BY <2>1, MaxTimeNat, BlacklistParams
<1>1. /\ Purged(counts, {}) \in [IPs -> SUBSET Conns]
      /\ \A j \in IPs : Purged(counts, {})[j] \in {counts[j], {}}
  BY TypeParts DEF Purged
<1>2. /\ Purged(blocked, Never) \in [IPs -> Nat \cup {Never}]
      /\ \A j \in IPs : Purged(blocked, Never)[j] \in {blocked[j], Never}
  BY TypeParts DEF Purged
<1>3. pruned \subseteq Conns /\ pruned \subseteq counts[i] \cup {c}
  BY <1>1, <1>t, TypeParts DEF InWindow
<1>u. UNCHANGED threshold
  BY DEF RecordProbe
<1>4. CASE threshold <= 0
  <2>1. UNCHANGED <<counts, blocked, rec>>
    BY <1>4 DEF RecordProbe
  <2> QED BY <1>u, <2>1, TypeParts
<1>5. CASE ~(threshold <= 0) /\ now < blocked[i]
  <2>1. /\ counts' = Purged(counts, {}) /\ blocked' = Purged(blocked, Never) /\ UNCHANGED rec
    BY <1>5 DEF RecordProbe
  <2>2. \A j \in IPs : counts'[j] \subseteq counts[j]
    BY <1>1, <2>1
  <2>3. rec' \in [Conns -> Nat \cup {Never}]
    BY <2>1, TypeParts
  <2>4. counts' \in [IPs -> SUBSET Conns] /\ blocked' \in [IPs -> Nat \cup {Never}]
    BY <1>1, <1>2, <2>1
  <2>5. \A j \in IPs : blocked'[j] \in {blocked[j], Never}
    BY <1>2, <2>1
  <2>6. rec' \in {rec, [rec EXCEPT ![c] = now]}
    BY <2>1
  <2> QED BY <1>u, <2>2, <2>3, <2>4, <2>5, <2>6
<1>6. CASE ~(threshold <= 0) /\ ~(now < blocked[i])
  <2>1. /\ rec' = [rec EXCEPT ![c] = now]
        /\ \/ /\ Cardinality(pruned) >= threshold
              /\ blocked' = [Purged(blocked, Never) EXCEPT ![i] = now + Duration]
              /\ counts' = [Purged(counts, {}) EXCEPT ![i] = {}]
           \/ /\ blocked' = Purged(blocked, Never)
              /\ counts' = [Purged(counts, {}) EXCEPT ![i] = pruned]
    BY <1>6 DEF RecordProbe
  <2>2. /\ rec' \in [Conns -> Nat \cup {Never}] /\ rec'[c] = now
        /\ \A d \in Conns \ {c} : rec'[d] = rec[d]
    BY <1>t, <2>1, TypeParts
  <2> HIDE DEF pruned
  <2>3. counts' \in [IPs -> SUBSET Conns]
    BY <1>1, <1>3, <2>1
  <2>4. ASSUME NEW j \in IPs
        PROVE  counts'[j] \subseteq counts[j] \/ (j = ip[c] /\ counts'[j] \subseteq counts[j] \cup {c})
    BY <1>1, <1>3, <1>t, <2>1
  <2>5. now + Duration \in Nat \cup {Never}
    BY <1>t
  <2>6. blocked' \in [IPs -> Nat \cup {Never}]
    BY <1>2, <2>1, <2>5
  <2>7. pruned \subseteq Probes(i, now)'
    <3>1. ASSUME NEW d \in pruned PROVE d \in Probes(i, now)'
      <4>1. CASE d = c
        <5>1. now # Never /\ now - Window < now /\ now <= now
          BY <1>t DEF Never
        <5>2. rec'[d] = now /\ ip'[d] = i' /\ now' = now
          BY <2>2, <4>1
        <5> QED BY <5>1, <5>2, <4>1 DEF Probes
      <4>2. CASE d # c
        <5>1. d \in counts[i] /\ d \in Conns /\ rec[d] > now - Window
          BY <1>1, <1>3, <1>t, <4>2, TypeParts DEF pruned, InWindow
        <5>2. ip[d] = i /\ rec[d] # Never /\ rec[d] <= now /\ rec'[d] = rec[d]
          BY <1>t, <2>2, <4>2, <5>1 DEF ProbeInv
        <5>3. rec[d] \in Nat \cup {Never}
          BY <5>1, TypeParts
        <5>4. now - Window < rec[d]
          BY <1>t, <5>1, <5>2, <5>3
        <5>5. ip'[d] = i' /\ rec'[d] # Never /\ now' - Window < rec'[d] /\ rec'[d] <= now'
          BY <5>2, <5>4
        <5> QED BY <5>1, <5>5 DEF Probes
      <4> QED BY <4>1, <4>2
    <3> QED BY <3>1
  <2>8. /\ IsFiniteSet(Probes(i, now)')
        /\ Cardinality(pruned) <= Cardinality(Probes(i, now)')
        /\ Cardinality(pruned) \in Nat /\ Cardinality(Probes(i, now)') \in Nat
    <3>1. Probes(i, now)' \subseteq Conns
      BY DEF Probes
    <3>2. IsFiniteSet(Probes(i, now)')
      BY <3>1, ConnsFinite, FS_Subset
    <3> QED BY <2>7, <3>2, FS_Subset, FS_CardinalityType
  <2>9. ASSUME NEW j \in IPs
        PROVE  \/ blocked'[j] \in {blocked[j], Never}
               \/ /\ j = ip[c] /\ blocked'[j] = now + Duration
                  /\ Cardinality(Probes(j, now)') >= threshold
    <3>1. CASE j # i
      BY <1>2, <2>1, <3>1
    <3>2. CASE j = i /\ Cardinality(pruned) >= threshold
      <4>1. Cardinality(Probes(j, now)') >= threshold
        BY <1>t, <2>8, <3>2
      <4> QED BY <1>2, <2>1, <3>2, <4>1
    <3>3. CASE j = i /\ ~(Cardinality(pruned) >= threshold)
      BY <1>2, <2>1, <3>3
    <3> QED BY <3>1, <3>2, <3>3
  <2> QED BY <1>u, <2>1, <2>2, <2>3, <2>4, <2>6, <2>9
<1> QED BY <1>4, <1>5, <1>6

\* A connection makes one probe: no window loses one when another is counted.
LEMMA ProbesKept ==
    ASSUME TypeOK, UNCHANGED ip, NEW c \in Conns, rec[c] = Never,
           rec' \in {rec, [rec EXCEPT ![c] = now]}, NEW i, NEW t
    PROVE  Cardinality(Probes(i, t)) <= Cardinality(Probes(i, t)')
<1>1. \A d \in Conns : rec[d] # Never => rec'[d] = rec[d]
  BY TypeParts
<1>2. Probes(i, t) \subseteq Probes(i, t)'
  BY <1>1 DEF Probes
<1>3. Probes(i, t)' \subseteq Conns
  BY DEF Probes
<1>4. IsFiniteSet(Probes(i, t)')
  BY <1>3, ConnsFinite, FS_Subset
<1> QED BY <1>2, <1>4, FS_Subset

\* BlockedJustified in terms of Probes, before and after a step.
LEMMA Justified ==
    /\ BlockedJustified <=>
         \A i \in IPs : blocked[i] # Never => Cardinality(Probes(i, blocked[i] - Duration)) >= threshold
    /\ BlockedJustified' <=>
         \A i \in IPs : blocked'[i] # Never =>
             \A t : t = blocked'[i] - Duration => Cardinality(Probes(i, t)') >= threshold'
BY DEF BlockedJustified, Probes

BlacklistTypes ==
    /\ threshold \in Thresholds /\ counts \in [IPs -> SUBSET Conns]
    /\ blocked \in [IPs -> Nat \cup {Never}] /\ rec \in [Conns -> Nat \cup {Never}]

LEMMA BlacklistStep ==
    ASSUME TypeOK, ProbeInv, BlockedJustified, NEW c \in Conns, ConnStep(c)
    PROVE  BlacklistTypes' /\ ProbeInv' /\ BlockedJustified'
<1>o. /\ UNCHANGED <<now, ip>>
      /\ \A d \in Conns \ {c} : pc'[d] = pc[d]
  BY OwnState, TypeParts DEF OwnStateOf
<1>t. /\ now \in Nat /\ ip[c] \in IPs /\ Duration \in Nat
      /\ threshold \in Thresholds /\ threshold \in Int /\ now # Never
  <2>1. ip[c] \in IPs /\ now \in 0..MaxTime /\ threshold \in Thresholds
    BY TypeParts
  <2>2. now \in Nat
    BY <2>1, MaxTimeNat
  <2> QED BY <2>1, <2>2, BlacklistParams DEF Never
<1>a. ASSUME UNCHANGED threshold,
             counts' \in [IPs -> SUBSET Conns], blocked' \in [IPs -> Nat \cup {Never}],
             \/ UNCHANGED rec
             \/ rec' = [rec EXCEPT ![c] = now] /\ rec[c] = Never /\ pc'[c] \in Settled,
             \A j \in IPs : \/ counts'[j] \subseteq counts[j]
                            \/ /\ j = ip[c] /\ counts'[j] \subseteq counts[j] \cup {c} /\ rec'[c] = now,
             \A j \in IPs : \/ blocked'[j] \in {blocked[j], Never}
                            \/ /\ j = ip[c] /\ blocked'[j] = now + Duration
                               /\ Cardinality(Probes(j, now)') >= threshold
      PROVE  BlacklistTypes' /\ ProbeInv' /\ BlockedJustified'
  <2>1. BlacklistTypes'
    BY <1>a, <1>t, TypeParts DEF BlacklistTypes
  <2>2. \A d \in Conns : rec[d] # Never => rec'[d] = rec[d]
    BY <1>a, TypeParts
  <2>3. ASSUME NEW d \in Conns, rec'[d] # Never PROVE pc'[d] \in Settled
    <3>1. CASE rec[d] # Never
      <4>1. pc[d] \in Settled
        BY <3>1 DEF ProbeInv, Settled
      <4> QED BY <1>o, <4>1, BlacklistShape
    <3>2. CASE rec[d] = Never
      BY <1>a, <2>3, <3>2, TypeParts
    <3> QED BY <3>1, <3>2
  <2>4. ASSUME NEW j \in IPs, NEW d \in counts'[j]
        PROVE  ip'[d] = j /\ rec'[d] # Never /\ rec'[d] <= now'
    <3>1. CASE d \in counts[j]
      <4>1. d \in Conns /\ ip[d] = j /\ rec[d] # Never /\ rec[d] <= now
        BY <3>1, TypeParts DEF ProbeInv
      <4> QED BY <1>o, <2>2, <4>1
    <3>2. CASE d \notin counts[j]
      <4>1. d = c /\ j = ip[c] /\ rec'[c] = now
        BY <1>a, <2>4, <3>2
      <4> QED BY <1>o, <1>t, <4>1
    <3> QED BY <3>1, <3>2
  <2>5. ProbeInv'
    BY <2>3, <2>4 DEF ProbeInv, Settled
  <2>6. ASSUME NEW j, NEW t PROVE Cardinality(Probes(j, t)) <= Cardinality(Probes(j, t)')
    <3>1. CASE UNCHANGED rec
      <4>1. Probes(j, t)' = Probes(j, t)
        BY <1>o, <3>1 DEF Probes
      <4>2. IsFiniteSet(Probes(j, t))
        BY ConnsFinite, FS_Subset DEF Probes
      <4>3. Cardinality(Probes(j, t)) \in Nat
        BY <4>2, FS_CardinalityType
      <4> QED BY <4>1, <4>3
    <3>2. CASE ~UNCHANGED rec
      BY <1>a, <1>o, <3>2, ProbesKept
    <3> QED BY <3>1, <3>2
  <2>7. ASSUME NEW j \in IPs, blocked'[j] # Never, NEW t, t = blocked'[j] - Duration
        PROVE  Cardinality(Probes(j, t)') >= threshold'
    <3>0. Cardinality(Probes(j, t)) \in Nat /\ Cardinality(Probes(j, t)') \in Nat
      <4>1. IsFiniteSet(Probes(j, t)) /\ IsFiniteSet(Probes(j, t)')
        BY ConnsFinite, FS_Subset DEF Probes
      <4> QED BY <4>1, FS_CardinalityType
    <3>1. CASE blocked'[j] = blocked[j]
      <4>1. Cardinality(Probes(j, t)) >= threshold
        BY <2>7, <3>1, Justified
      <4> QED BY <1>a, <1>t, <2>6, <3>0, <4>1
    <3>2. CASE blocked'[j] # blocked[j]
      <4>1. blocked'[j] = now + Duration /\ Cardinality(Probes(j, now)') >= threshold
        BY <1>a, <2>7, <3>2
      <4>2. t = now
        BY <1>t, <2>7, <4>1
      <4>3. Probes(j, now)' = Probes(j, t)'
        BY <1>o, <4>2 DEF Probes
      <4> QED BY <1>a, <4>1, <4>3
    <3> QED BY <3>1, <3>2
  <2>8. BlockedJustified'
    BY <2>7, Justified
  <2> QED BY <2>1, <2>5, <2>8
<1>1. CASE UNCHANGED <<threshold, counts, blocked, rec>>
  <2>1. counts \in [IPs -> SUBSET Conns] /\ blocked \in [IPs -> Nat \cup {Never}]
    BY TypeParts
  <2>2. \A j \in IPs : counts'[j] \subseteq counts[j] /\ blocked'[j] \in {blocked[j], Never}
    BY <1>1
  <2> QED BY <1>1, <1>a, <2>1, <2>2
<1>2. CASE UNCHANGED <<threshold, rec>> /\ IsBlockedEffect(ip[c])
  <2>1. /\ counts' \in [IPs -> SUBSET Conns] /\ blocked' \in [IPs -> Nat \cup {Never}]
        /\ \A j \in IPs : counts'[j] \subseteq counts[j] /\ blocked'[j] \in {blocked[j], Never}
    BY <1>2, <1>t, LookupEffect
  <2> QED BY <1>2, <1>a, <2>1
<1>3. CASE RecordProbe(c) /\ pc[c] \notin Settled /\ pc'[c] \in Settled
  <2>1. rec[c] = Never
    BY <1>3 DEF ProbeInv, Settled
  <2>2. /\ UNCHANGED threshold
        /\ counts' \in [IPs -> SUBSET Conns] /\ blocked' \in [IPs -> Nat \cup {Never}]
        /\ rec' \in {rec, [rec EXCEPT ![c] = now]}
        /\ \A j \in IPs : \/ counts'[j] \subseteq counts[j]
                          \/ /\ j = ip[c] /\ counts'[j] \subseteq counts[j] \cup {c} /\ rec'[c] = now
        /\ \A j \in IPs : \/ blocked'[j] \in {blocked[j], Never}
                          \/ /\ j = ip[c] /\ blocked'[j] = now + Duration
                             /\ Cardinality(Probes(j, now)') >= threshold
    BY <1>3, <1>o, ProbeEffect
  <2> QED BY <1>3, <1>a, <2>1, <2>2
<1> QED BY <1>1, <1>2, <1>3, BlacklistShape

-----------------------------------------------------------------------------
(* Init, the steps that are no goroutine's, and the theorems *)

LEMMA InitHandler == Init => HandlerInv
<1> SUFFICES ASSUME Init PROVE HandlerInv
  OBVIOUS
<1>1. TypeOK
  <2>1. NewSock \in Sock /\ 0 \in 0..MaxTime
    <3>1. 0 \in 0..MaxTime
      BY MaxTimeNat
    <3> QED BY <3>1, SockTypes
  <2> QED BY <2>1, TypeParts DEF Init, Steps, Whys
<1>2. StatsExact
  <2>1. ASSUME NEW u \in Users
        PROVE  /\ {c \in Conns : user[c] = u /\ pc[c] = "relay"} = {}
               /\ {c \in Conns : user[c] = u /\ why[c] = "served"} = {}
    BY DEF Init
  <2> QED BY <2>1, FS_EmptySet DEF StatsExact, Init
<1>3. StatsInv /\ SockInv /\ ProbeInv /\ BlockedJustified /\ SpliceInOrder /\ RelayOutlivesHandshake
  BY <1>2 DEF StatsInv, SockInv, ProbeInv, BlockedJustified, SpliceInOrder, RelayOutlivesHandshake, Init
<1> QED BY <1>1, <1>3 DEF HandlerInv

LEMMA ConnStepHandler ==
    ASSUME HandlerInv, NEW c \in Conns, ConnStep(c)
    PROVE  HandlerInv'
<1> USE DEF HandlerInv
<1>1. OwnStateOf(c)
  BY OwnState
<1>2. StatsInv' /\ active' \in [Users -> Nat] /\ total' \in [Users -> Nat]
  BY StatsStep
<1>3. SockInv' /\ SpliceInOrder'
  BY SockStep
<1>4. BlacklistTypes' /\ ProbeInv' /\ BlockedJustified'
  BY BlacklistStep
<1>5. UNCHANGED cut
  BY StatsShape DEF Plain, Opens, Ends
<1>6. TypeOK'
  <2>1. /\ now' \in 0..MaxTime /\ ip' \in [Conns -> IPs]
        /\ user' \in [Conns -> Users] /\ kind' \in [Conns -> Kinds] /\ cut' \subseteq Conns
    BY <1>1, <1>5, TypeParts DEF OwnStateOf
  <2> QED BY <1>1, <1>2, <1>4, <2>1, TypePartsNext DEF OwnStateOf, BlacklistTypes
<1> QED BY <1>2, <1>3, <1>4, <1>5, <1>6 DEF RelayOutlivesHandshake

\* A reload clears the blacklist; it touches no connection.
LEMMA ReplaceHandler ==
    ASSUME HandlerInv, ReplaceBlacklist
    PROVE  HandlerInv'
<1>1. /\ UNCHANGED <<now, ip, user, kind, pc, sock, why, cut, rec, active, total>>
      /\ threshold' \in Thresholds
      /\ counts' = [i \in IPs |-> {}] /\ blocked' = [i \in IPs |-> Never]
  BY DEF ReplaceBlacklist, conns, stats
<1>2. TypeOK'
  <2>1. counts' \in [IPs -> SUBSET Conns] /\ blocked' \in [IPs -> Nat \cup {Never}]
    BY <1>1
  <2> QED BY <1>1, <2>1, TypeParts, TypePartsNext DEF HandlerInv
<1>3. StatsInv' /\ SockInv' /\ SpliceInOrder' /\ RelayOutlivesHandshake'
  BY <1>1 DEF HandlerInv, StatsInv, StatsExact, SockInv, ViaTLS, SpliceInOrder, RelayOutlivesHandshake
<1>4. ProbeInv' /\ BlockedJustified'
  BY <1>1 DEF HandlerInv, ProbeInv, BlockedJustified
<1> QED BY <1>2, <1>3, <1>4 DEF HandlerInv

LEMMA TickHandler ==
    ASSUME HandlerInv, Tick
    PROVE  HandlerInv'
<1>1. /\ now < MaxTime /\ now' = now + 1
      /\ UNCHANGED <<ip, user, kind, pc, sock, why, cut, threshold, counts, blocked, rec, active, total>>
  BY DEF Tick, conns, stats, blacklist
<1>2. now \in 0..MaxTime
  BY TypeParts DEF HandlerInv
<1>3. now' \in 0..MaxTime
  BY <1>1, <1>2, MaxTimeNat
<1>4. TypeOK'
  BY <1>1, <1>3, TypeParts, TypePartsNext DEF HandlerInv
<1>5. /\ StatsInv' /\ SockInv' /\ SpliceInOrder' /\ RelayOutlivesHandshake' /\ BlockedJustified'
  BY <1>1 DEF HandlerInv, StatsInv, StatsExact, SockInv, ViaTLS, SpliceInOrder,
              RelayOutlivesHandshake, BlockedJustified
<1>6. ProbeInv'
  <2>1. \A i \in IPs : \A c \in counts[i] : c \in Conns /\ rec[c] \in Nat \cup {Never}
    BY TypeParts DEF HandlerInv
  <2>2. ASSUME NEW i \in IPs, NEW c \in counts[i] PROVE rec[c] <= now + 1
    BY <1>2, <2>1, MaxTimeNat DEF HandlerInv, ProbeInv, Never
  <2> QED BY <1>1, <2>2 DEF HandlerInv, ProbeInv
<1> QED BY <1>4, <1>5, <1>6 DEF HandlerInv

\* HandlerInv holds of every reachable state.
THEOREM HandlerInvariance == Spec => []HandlerInv
<1>1. HandlerInv /\ [Next]_vars => HandlerInv'
  <2> SUFFICES ASSUME HandlerInv, [Next]_vars PROVE HandlerInv'
    OBVIOUS
  <2>1. CASE Tick
    BY <2>1, TickHandler
  <2>2. CASE ReplaceBlacklist
    BY <2>2, ReplaceHandler
  <2>3. ASSUME NEW c \in Conns, ConnStep(c) PROVE HandlerInv'
    BY <2>3, ConnStepHandler
  <2>4. CASE UNCHANGED vars
    <3>1. UNCHANGED <<now, ip, user, kind, pc, sock, why, cut, threshold, counts, blocked, rec, active, total>>
      BY <2>4 DEF vars, conns, stats, blacklist
    <3>2. TypeOK'
      BY <3>1 DEF HandlerInv, TypeOK
    <3>3. StatsInv' /\ SockInv' /\ SpliceInOrder' /\ RelayOutlivesHandshake'
      BY <3>1 DEF HandlerInv, StatsInv, StatsExact, SockInv, ViaTLS, SpliceInOrder, RelayOutlivesHandshake
    <3>4. ProbeInv' /\ BlockedJustified'
      BY <3>1 DEF HandlerInv, ProbeInv, BlockedJustified
    <3> QED BY <3>2, <3>3, <3>4 DEF HandlerInv
  <2> QED BY <2>1, <2>2, <2>3, <2>4 DEF Next, ConnStep
<1> QED BY <1>1, InitHandler, PTL DEF Spec

\* The state of the handler is well formed.
THEOREM TypeCorrect == Spec => []TypeOK
BY HandlerInvariance, PTL DEF HandlerInv

\* Whatever ends a connection, each user's active and total counters agree with
\* its sessions: relayMTProto calls OnConnect and OnDisconnect in pairs.
THEOREM StatsExactInvariance == Spec => []StatsExact
BY HandlerInvariance, PTL DEF HandlerInv, StatsInv

\* The mask host is given the client's stream from its first byte, wherever the
\* handshake was given up: ReadRecorder has lost and repeated nothing.
THEOREM SpliceInOrderInvariance == Spec => []SpliceInOrder
BY HandlerInvariance, PTL DEF HandlerInv

\* relayMTProto clears the handshake deadline early enough that it never ends
\* a relayed session.
THEOREM RelayOutlivesHandshakeInvariance == Spec => []RelayOutlivesHandshake
BY HandlerInvariance, PTL DEF HandlerInv

\* No address is blocked by RecordProbe without threshold probes in the window
\* that ends where the block begins.
THEOREM BlockedJustifiedInvariance == Spec => []BlockedJustified
BY HandlerInvariance, PTL DEF HandlerInv
=============================================================================
