------------------------- MODULE SessionPipeProofs -------------------------
(***************************************************************************)
(* Proofs about SessionPipe, for a chain of any number of proxies and any  *)
(* amount of data in each direction.                                       *)
(***************************************************************************)
EXTENDS SessionPipe, SequenceTheorems, TLAPS

Block == 0..MaxData

\* Updating a function of two arguments at one point.
LEMMA AtOnePoint ==
    ASSUME NEW A, NEW B, NEW C, NEW f \in [A -> [B -> C]], NEW a \in A, NEW b \in B, NEW v \in C,
           NEW g, g = [f EXCEPT ![a][b] = v]
    PROVE  /\ g \in [A -> [B -> C]] /\ g[a][b] = v
           /\ \A x \in A, y \in B : x # a \/ y # b => g[x][y] = f[x][y]
OBVIOUS

\* Every goroutine reads one link and writes another; no two read or write the
\* same, and the first link has no goroutine that writes it, the last none that
\* reads it.
LEMMA Geometry ==
    ASSUME NEW d \in Dirs
    PROVE  /\ FirstLink(d) \in Links /\ LastLink(d) \in Links /\ FirstLink(d) # LastLink(d)
           /\ \A p \in Proxies : /\ Source(p, d) \in Links /\ Target(p, d) \in Links
                                 /\ Source(p, d) # Target(p, d)
                                 /\ Source(p, d) # LastLink(d) /\ Target(p, d) # FirstLink(d)
           /\ \A p, q \in Proxies : Source(p, d) = Source(q, d) => p = q
           /\ \A p, q \in Proxies : Target(p, d) = Target(q, d) => p = q
BY HopsNat DEF Dirs, FirstLink, LastLink, Source, Target, Links, Proxies

\* The reader of a goroutine's source is the goroutine itself; the reader of
\* the last link is the end.
LEMMA Readers ==
    ASSUME NEW d \in Dirs
    PROVE  /\ \A p \in Proxies : ReaderAlive(d, Source(p, d)) <=> ~closed[p]
           /\ ReaderAlive(d, LastLink(d)) <=> ~(d = "down" /\ gone)
BY HopsNat DEF Dirs, LastLink, Source, ReaderAlive, Proxies

\* Whoever is gone stays gone.
LEMMA ReadersGo ==
    ASSUME NEW d, NEW k \in Links, ReaderAlive(d, k)',
           gone => gone', \A p \in Proxies : closed[p] => closed'[p]
    PROVE  ReaderAlive(d, k)
BY HopsNat DEF ReaderAlive, Links, Proxies

-----------------------------------------------------------------------------
(* A link as a queue *)

LEMMA LinkPush ==
    ASSUME NEW link \in Seq(Block), NEW r \in Nat, NEW w \in Nat, r <= w,
           LinkHolds(link, r, w, FALSE), w + 1 \in Block
    PROVE  LinkHolds(Append(link, w + 1), r, w + 1, FALSE)
BY MaxDataNat DEF LinkHolds, Block

LEMMA LinkPushFin ==
    ASSUME NEW link \in Seq(Block), NEW r \in Nat, NEW w \in Nat, r <= w,
           LinkHolds(link, r, w, FALSE)
    PROVE  LinkHolds(Append(link, Fin), r, w, TRUE)
<1>1. Len(link) = w - r /\ \A i \in 1..(w - r) : link[i] = r + i
  BY DEF LinkHolds
<1>2. Fin \in Block
  BY MaxDataNat DEF Fin, Block
<1>3. /\ Len(Append(link, Fin)) = w - r + 1 /\ Append(link, Fin)[w - r + 1] = Fin
      /\ \A i \in 1..(w - r) : Append(link, Fin)[i] = link[i]
  BY <1>1, <1>2
<1> QED BY <1>1, <1>3 DEF LinkHolds

LEMMA LinkPop ==
    ASSUME NEW link \in Seq(Block), NEW r \in Nat, NEW w \in Nat, r <= w, NEW f \in BOOLEAN,
           LinkHolds(link, r, w, f), link # << >>, Head(link) # Fin
    PROVE  Head(link) = r + 1 /\ r + 1 <= w /\ LinkHolds(Tail(link), r + 1, w, f)
<1>1. Len(link) \in Nat /\ Len(link) > 0 /\ Head(link) = link[1]
  OBVIOUS
<1>2. r < w
  BY <1>1 DEF LinkHolds
<1>3. Head(link) = r + 1
  BY <1>1, <1>2 DEF LinkHolds
<1>4. /\ Tail(link) \in Seq(Block) /\ Len(Tail(link)) = Len(link) - 1
      /\ \A i \in 1..(Len(link) - 1) : Tail(link)[i] = link[i + 1]
  BY <1>1
<1>5. \A i \in 1..(w - (r + 1)) : Tail(link)[i] = (r + 1) + i
  BY <1>1, <1>2, <1>4 DEF LinkHolds
<1>6. \/ Len(Tail(link)) = w - (r + 1)
      \/ f /\ Len(Tail(link)) = w - (r + 1) + 1 /\ Tail(link)[w - (r + 1) + 1] = Fin
  BY <1>1, <1>2, <1>4 DEF LinkHolds
<1> QED BY <1>2, <1>3, <1>5, <1>6 DEF LinkHolds

LEMMA LinkPopFin ==
    ASSUME NEW link \in Seq(Block), NEW r \in Nat, NEW w \in Nat, r <= w, NEW f \in BOOLEAN,
           LinkHolds(link, r, w, f), link # << >>, Head(link) = Fin
    PROVE  w = r /\ f /\ LinkHolds(Tail(link), r, w, f)
<1>1. Len(link) \in Nat /\ Len(link) > 0 /\ Head(link) = link[1] /\ Len(Tail(link)) = Len(link) - 1
  OBVIOUS
<1>2. ~(r < w)
  <2>1. ASSUME r < w PROVE FALSE
    <3>1. link[1] = r + 1
      BY <2>1 DEF LinkHolds
    <3> QED BY <1>1, <3>1 DEF Fin
  <2> QED BY <2>1
<1>3. w = r
  BY <1>2
<1>4. f /\ Len(link) = 1
  BY <1>1, <1>3 DEF LinkHolds
<1> QED BY <1>1, <1>3, <1>4 DEF LinkHolds

-----------------------------------------------------------------------------
(* What each step changes, place by place *)

Stages == {"copy", "ended", "done"}

LEMMA TypeParts ==
    TypeOK <=>
    /\ socks \in BOOLEAN /\ wrapped \in BOOLEAN
    /\ ch \in [Dirs -> [Links -> Seq(Block)]] /\ finSent \in [Dirs -> [Links -> BOOLEAN]]
    /\ copier \in [Proxies -> [Dirs -> Stages]] /\ buf \in [Proxies -> [Dirs -> Block]]
    /\ closed \in [Proxies -> BOOLEAN] /\ sent \in [Dirs -> Block]
    /\ got \in [Dirs -> Seq(1..MaxData)]
    /\ eof \in [Dirs -> BOOLEAN] /\ gone \in BOOLEAN
BY DEF TypeOK, Block, Stages

LEMMA TypePartsNext ==
    ASSUME socks' \in BOOLEAN, wrapped' \in BOOLEAN,
           ch' \in [Dirs -> [Links -> Seq(Block)]], finSent' \in [Dirs -> [Links -> BOOLEAN]],
           copier' \in [Proxies -> [Dirs -> Stages]], buf' \in [Proxies -> [Dirs -> Block]],
           closed' \in [Proxies -> BOOLEAN], sent' \in [Dirs -> Block],
           got' \in [Dirs -> Seq(1..MaxData)], eof' \in [Dirs -> BOOLEAN], gone' \in BOOLEAN
    PROVE  TypeOK'
BY DEF TypeOK, Block, Stages

\* The other places of a direction, and the other direction.
SameLinks(d, k) == \A e \in Dirs, l \in Links : e # d \/ l # k => ch'[e][l] = ch[e][l]
SameCopiers(p, d) == \A q \in Proxies, e \in Dirs : q # p \/ e # d => copier'[q][e] = copier[q][e]
SameBufs(p, d) == \A q \in Proxies, e \in Dirs : q # p \/ e # d => buf'[q][e] = buf[q][e]

LEMMA CopyReadEffect ==
    ASSUME TypeOK, NEW p \in Proxies, NEW d \in Dirs, CopyRead(p, d)
    PROVE  LET link == ch[d][Source(p, d)]
           IN /\ copier[p][d] = "copy" /\ buf[p][d] = Fin /\ link # << >> /\ link \in Seq(Block)
              /\ buf' \in [Proxies -> [Dirs -> Block]] /\ buf'[p][d] = Head(link) /\ SameBufs(p, d)
              /\ copier' \in [Proxies -> [Dirs -> Stages]] /\ SameCopiers(p, d)
              /\ copier'[p][d] = IF Head(link) = Fin THEN "ended" ELSE "copy"
              /\ ch' \in [Dirs -> [Links -> Seq(Block)]] /\ SameLinks(d, Source(p, d))
              /\ ch'[d][Source(p, d)] = Tail(link)
              /\ UNCHANGED <<socks, wrapped, finSent, closed, sent, got, eof, gone>>
<1> DEFINE k == Source(p, d)
           link == ch[d][k]
           stage == IF Head(link) = Fin THEN "ended" ELSE "copy"
<1>1. /\ copier[p][d] = "copy" /\ buf[p][d] = Fin /\ link # << >>
      /\ buf' = [buf EXCEPT ![p][d] = Head(link)]
      /\ copier' = [copier EXCEPT ![p][d] = IF Head(link) = Fin THEN "ended" ELSE copier[p][d]]
      /\ ch' = [ch EXCEPT ![d][k] = Tail(link)]
      /\ UNCHANGED <<socks, wrapped, finSent, closed, sent, got, eof, gone>>
  BY DEF CopyRead, ends, fixed
<1>2. k \in Links /\ link \in Seq(Block)
  BY Geometry, TypeParts
<1>3. Head(link) \in Block /\ Tail(link) \in Seq(Block) /\ stage \in Stages
  BY <1>1, <1>2 DEF Stages
<1>4. /\ buf \in [Proxies -> [Dirs -> Block]] /\ copier \in [Proxies -> [Dirs -> Stages]]
      /\ ch \in [Dirs -> [Links -> Seq(Block)]]
  BY TypeParts
<1>5. copier' = [copier EXCEPT ![p][d] = stage]
  BY <1>1
<1> HIDE DEF k, link, stage
<1>6. buf' \in [Proxies -> [Dirs -> Block]] /\ buf'[p][d] = Head(link) /\ SameBufs(p, d)
  BY <1>1, <1>3, <1>4, AtOnePoint DEF SameBufs
<1>7. copier' \in [Proxies -> [Dirs -> Stages]] /\ copier'[p][d] = stage /\ SameCopiers(p, d)
  BY <1>3, <1>4, <1>5, AtOnePoint DEF SameCopiers
<1>8. ch' \in [Dirs -> [Links -> Seq(Block)]] /\ ch'[d][k] = Tail(link) /\ SameLinks(d, k)
  BY <1>1, <1>2, <1>3, <1>4, AtOnePoint DEF SameLinks
<1> QED BY <1>1, <1>2, <1>6, <1>7, <1>8 DEF k, link, stage

LEMMA CopyWriteEffect ==
    ASSUME TypeOK, NEW p \in Proxies, NEW d \in Dirs, CopyWrite(p, d)
    PROVE  LET k == Target(p, d)
           IN /\ copier[p][d] = "copy" /\ buf[p][d] # Fin
              /\ buf' \in [Proxies -> [Dirs -> Block]] /\ buf'[p][d] = Fin /\ SameBufs(p, d)
              /\ copier' \in [Proxies -> [Dirs -> Stages]] /\ SameCopiers(p, d)
              /\ copier'[p][d] = IF ReaderAlive(d, k) THEN "copy" ELSE "ended"
              /\ ch' \in [Dirs -> [Links -> Seq(Block)]] /\ SameLinks(d, k)
              /\ ch'[d][k] = IF ReaderAlive(d, k) THEN Append(ch[d][k], buf[p][d]) ELSE ch[d][k]
              /\ UNCHANGED <<socks, wrapped, finSent, closed, sent, got, eof, gone>>
<1> DEFINE k == Target(p, d)
<1>1. /\ copier[p][d] = "copy" /\ buf[p][d] # Fin
      /\ buf' = [buf EXCEPT ![p][d] = Fin]
      /\ UNCHANGED <<socks, wrapped, finSent, closed, sent, got, eof, gone>>
  BY DEF CopyWrite, ends, fixed
<1>2. \/ /\ ReaderAlive(d, k)
         /\ ch' = [ch EXCEPT ![d][k] = Append(ch[d][k], buf[p][d])] /\ UNCHANGED copier
      \/ /\ ~ReaderAlive(d, k)
         /\ copier' = [copier EXCEPT ![p][d] = "ended"] /\ UNCHANGED ch
  BY DEF CopyWrite
<1>3. /\ buf \in [Proxies -> [Dirs -> Block]] /\ copier \in [Proxies -> [Dirs -> Stages]]
      /\ ch \in [Dirs -> [Links -> Seq(Block)]] /\ k \in Links
  BY Geometry, TypeParts
<1>4. Append(ch[d][k], buf[p][d]) \in Seq(Block) /\ Fin \in Block /\ "ended" \in Stages
  BY <1>3, MaxDataNat DEF Fin, Block, Stages
<1> HIDE DEF k
<1>5. buf' \in [Proxies -> [Dirs -> Block]] /\ buf'[p][d] = Fin /\ SameBufs(p, d)
  BY <1>1, <1>3, <1>4, AtOnePoint DEF SameBufs
<1>6. CASE ReaderAlive(d, k)
  <2>1. /\ ch' \in [Dirs -> [Links -> Seq(Block)]] /\ SameLinks(d, k)
        /\ ch'[d][k] = Append(ch[d][k], buf[p][d])
    <3>1. ch' = [ch EXCEPT ![d][k] = Append(ch[d][k], buf[p][d])]
      BY <1>2, <1>6
    <3> QED BY <1>3, <1>4, <3>1, AtOnePoint DEF SameLinks
  <2> QED BY <1>1, <1>2, <1>3, <1>5, <1>6, <2>1 DEF k, SameCopiers
<1>7. CASE ~ReaderAlive(d, k)
  <2>1. /\ copier' \in [Proxies -> [Dirs -> Stages]] /\ SameCopiers(p, d)
        /\ copier'[p][d] = "ended"
    <3>1. copier' = [copier EXCEPT ![p][d] = "ended"]
      BY <1>2, <1>7
    <3> QED BY <1>3, <1>4, <3>1, AtOnePoint DEF SameCopiers
  <2> QED BY <1>1, <1>2, <1>3, <1>5, <1>7, <2>1 DEF k, SameLinks
<1> QED BY <1>6, <1>7

\* The end of direction d is marked on the links ks, where it was not.
Marks(d, ks) ==
    \A k \in Links :
        /\ ch'[d][k] = IF k \in ks /\ ~finSent[d][k] THEN Append(ch[d][k], Fin) ELSE ch[d][k]
        /\ finSent'[d][k] <=> finSent[d][k] \/ k \in ks
OtherDir(d) == \A e \in Dirs \ {d} : ch'[e] = ch[e] /\ finSent'[e] = finSent[e]

LEMMA EndedType ==
    ASSUME TypeOK, NEW d \in Dirs, NEW ks
    PROVE  /\ Ended(d, ks) \in [Links -> Seq(Block)] /\ Marked(d, ks) \in [Links -> BOOLEAN]
           /\ \A k \in Links :
                /\ Ended(d, ks)[k] = IF k \in ks /\ ~finSent[d][k] THEN Append(ch[d][k], Fin) ELSE ch[d][k]
                /\ Marked(d, ks)[k] <=> finSent[d][k] \/ k \in ks
<1>1. /\ \A k \in Links : ch[d][k] \in Seq(Block) /\ finSent[d][k] \in BOOLEAN
      /\ Fin \in Block
  BY TypeParts, MaxDataNat DEF Fin, Block
<1>2. \A k \in Links : Append(ch[d][k], Fin) \in Seq(Block)
  BY <1>1
<1> QED BY <1>1, <1>2 DEF Ended, Marked

\* ch and finSent when one link of one direction is ended.
LEMMA MarkEffect ==
    ASSUME TypeOK, NEW d \in Dirs, NEW k \in Links,
           ch' = [ch EXCEPT ![d] = Ended(d, {k})], finSent' = [finSent EXCEPT ![d][k] = TRUE]
    PROVE  /\ ch' \in [Dirs -> [Links -> Seq(Block)]] /\ finSent' \in [Dirs -> [Links -> BOOLEAN]]
           /\ Marks(d, {k}) /\ OtherDir(d)
<1>1. ch \in [Dirs -> [Links -> Seq(Block)]] /\ finSent \in [Dirs -> [Links -> BOOLEAN]]
  BY TypeParts
<1>2. Ended(d, {k}) \in [Links -> Seq(Block)]
  BY EndedType
<1>3. /\ ch' \in [Dirs -> [Links -> Seq(Block)]] /\ ch'[d] = Ended(d, {k})
      /\ \A e \in Dirs \ {d} : ch'[e] = ch[e]
  BY <1>1, <1>2
<1>4. finSent' \in [Dirs -> [Links -> BOOLEAN]] /\ \A l \in Links : (finSent'[d][l] <=> finSent[d][l] \/ l \in {k})
  BY <1>1
<1>5. \A e \in Dirs \ {d} : finSent'[e] = finSent[e]
  BY <1>1
<1>6. \A l \in Links :
        Ended(d, {k})[l] = IF l \in {k} /\ ~finSent[d][l] THEN Append(ch[d][l], Fin) ELSE ch[d][l]
  BY EndedType
<1>7. Marks(d, {k})
  BY <1>3, <1>4, <1>6 DEF Marks
<1> QED BY <1>3, <1>4, <1>5, <1>7 DEF OtherDir

LEMMA CopyEndsEffect ==
    ASSUME TypeOK, NEW p \in Proxies, NEW d \in Dirs, CopyEnds(p, d)
    PROVE  /\ copier[p][d] = "ended"
           /\ copier' \in [Proxies -> [Dirs -> Stages]] /\ copier'[p][d] = "done" /\ SameCopiers(p, d)
           /\ ch' \in [Dirs -> [Links -> Seq(Block)]] /\ finSent' \in [Dirs -> [Links -> BOOLEAN]]
           /\ (Marks(d, {Target(p, d)}) /\ OtherDir(d)) \/ UNCHANGED <<ch, finSent>>
           /\ UNCHANGED <<socks, wrapped, buf, closed, sent, got, eof, gone>>
<1>1. /\ copier[p][d] = "ended" /\ copier' = [copier EXCEPT ![p][d] = "done"]
      /\ UNCHANGED <<socks, wrapped, buf, closed, sent, got, eof, gone>>
  BY DEF CopyEnds, ends, fixed
<1>2. copier \in [Proxies -> [Dirs -> Stages]] /\ "done" \in Stages /\ Target(p, d) \in Links
  BY Geometry, TypeParts DEF Stages
<1>3. copier' \in [Proxies -> [Dirs -> Stages]] /\ copier'[p][d] = "done" /\ SameCopiers(p, d)
  BY <1>1, <1>2, AtOnePoint DEF SameCopiers
<1>4. \/ /\ ch' = [ch EXCEPT ![d] = Ended(d, {Target(p, d)})]
         /\ finSent' = [finSent EXCEPT ![d][Target(p, d)] = TRUE]
      \/ UNCHANGED <<ch, finSent>>
  BY DEF CopyEnds, CloseWriteHalf
<1>5. CASE UNCHANGED <<ch, finSent>>
  BY <1>1, <1>3, <1>5, TypeParts
<1>6. CASE ~UNCHANGED <<ch, finSent>>
  BY <1>1, <1>2, <1>3, <1>4, <1>6, MarkEffect
<1> QED BY <1>5, <1>6

LEMMA ClosePipeEffect ==
    ASSUME TypeOK, NEW p \in Proxies, ClosePipe(p)
    PROVE  /\ \A d \in Dirs : copier[p][d] = "done"
           /\ closed' \in [Proxies -> BOOLEAN] /\ closed'[p] = TRUE
           /\ \A q \in Proxies \ {p} : closed'[q] = closed[q]
           /\ ch' \in [Dirs -> [Links -> Seq(Block)]] /\ finSent' \in [Dirs -> [Links -> BOOLEAN]]
           /\ \A d \in Dirs : Marks(d, {Target(p, d)})
           /\ UNCHANGED <<socks, wrapped, copier, buf, sent, got, eof, gone>>
<1>1. /\ \A d \in Dirs : copier[p][d] = "done"
      /\ closed' = [closed EXCEPT ![p] = TRUE]
      /\ ch' = [d \in Dirs |-> Ended(d, {Target(p, d)})]
      /\ finSent' = [d \in Dirs |-> Marked(d, {Target(p, d)})]
      /\ UNCHANGED <<socks, wrapped, copier, buf, sent, got, eof, gone>>
  BY DEF ClosePipe, ends, fixed
<1>2. /\ closed' \in [Proxies -> BOOLEAN] /\ closed'[p] = TRUE
      /\ \A q \in Proxies \ {p} : closed'[q] = closed[q]
  BY <1>1, TypeParts
<1>3. ASSUME NEW d \in Dirs
      PROVE  /\ ch'[d] \in [Links -> Seq(Block)] /\ finSent'[d] \in [Links -> BOOLEAN]
             /\ Marks(d, {Target(p, d)})
  <2>1. ch'[d] = Ended(d, {Target(p, d)}) /\ finSent'[d] = Marked(d, {Target(p, d)})
    BY <1>1
  <2> DEFINE ks == {Target(p, d)}
  <2> HIDE DEF ks
  <2>2. /\ Ended(d, ks) \in [Links -> Seq(Block)] /\ Marked(d, ks) \in [Links -> BOOLEAN]
        /\ \A k \in Links :
             /\ Ended(d, ks)[k] = IF k \in ks /\ ~finSent[d][k] THEN Append(ch[d][k], Fin) ELSE ch[d][k]
             /\ Marked(d, ks)[k] <=> finSent[d][k] \/ k \in ks
    BY EndedType
  <2>3. ch'[d] = Ended(d, ks) /\ finSent'[d] = Marked(d, ks)
    BY <2>1 DEF ks
  <2>4. Marks(d, ks)
    BY <2>2, <2>3 DEF Marks
  <2> QED BY <2>2, <2>3, <2>4 DEF ks
<1>4. ch' \in [Dirs -> [Links -> Seq(Block)]] /\ finSent' \in [Dirs -> [Links -> BOOLEAN]]
  BY <1>1, <1>3
<1> QED BY <1>1, <1>2, <1>3, <1>4

LEMMA EndSendsEffect ==
    ASSUME TypeOK, NEW d \in Dirs, EndSends(d)
    PROVE  LET k == FirstLink(d)
           IN /\ sent[d] + 1 \in Block /\ ~finSent[d][k] /\ ReaderAlive(d, k)
              /\ sent' \in [Dirs -> Block] /\ sent'[d] = sent[d] + 1
              /\ \A e \in Dirs \ {d} : sent'[e] = sent[e]
              /\ ch' \in [Dirs -> [Links -> Seq(Block)]] /\ SameLinks(d, k)
              /\ ch'[d][k] = Append(ch[d][k], sent[d] + 1)
              /\ UNCHANGED <<socks, wrapped, finSent, copier, buf, closed, got, eof, gone>>
<1> DEFINE k == FirstLink(d)
<1>1. /\ sent[d] < MaxData /\ ~finSent[d][k] /\ ReaderAlive(d, k)
      /\ sent' = [sent EXCEPT ![d] = sent[d] + 1]
      /\ ch' = [ch EXCEPT ![d][k] = Append(ch[d][k], sent[d] + 1)]
      /\ UNCHANGED <<socks, wrapped, finSent, copier, buf, closed, got, eof, gone>>
  BY DEF EndSends, fixed, proxy
<1>2. /\ sent \in [Dirs -> Block] /\ ch \in [Dirs -> [Links -> Seq(Block)]] /\ k \in Links
  BY Geometry, TypeParts
<1>3. sent[d] + 1 \in Block
  BY <1>1, <1>2, MaxDataNat DEF Block
<1>4. Append(ch[d][k], sent[d] + 1) \in Seq(Block)
  BY <1>2, <1>3
<1> HIDE DEF k
<1>5. /\ ch' \in [Dirs -> [Links -> Seq(Block)]] /\ SameLinks(d, k)
      /\ ch'[d][k] = Append(ch[d][k], sent[d] + 1)
  BY <1>1, <1>2, <1>4, AtOnePoint DEF SameLinks
<1>6. /\ sent' \in [Dirs -> Block] /\ sent'[d] = sent[d] + 1
      /\ \A e \in Dirs \ {d} : sent'[e] = sent[e]
  BY <1>1, <1>2, <1>3
<1> QED BY <1>1, <1>3, <1>5, <1>6 DEF k

LEMMA EndHalfClosesEffect ==
    ASSUME TypeOK, NEW d \in Dirs, EndHalfCloses(d)
    PROVE  /\ ~finSent[d][FirstLink(d)]
           /\ ch' \in [Dirs -> [Links -> Seq(Block)]] /\ finSent' \in [Dirs -> [Links -> BOOLEAN]]
           /\ Marks(d, {FirstLink(d)}) /\ OtherDir(d)
           /\ UNCHANGED <<socks, wrapped, copier, buf, closed, sent, got, eof, gone>>
<1>1. /\ ~finSent[d][FirstLink(d)]
      /\ ch' = [ch EXCEPT ![d] = Ended(d, {FirstLink(d)})]
      /\ finSent' = [finSent EXCEPT ![d][FirstLink(d)] = TRUE]
      /\ UNCHANGED <<socks, wrapped, copier, buf, closed, sent, got, eof, gone>>
  BY DEF EndHalfCloses, proxy, ends, fixed
<1>2. FirstLink(d) \in Links
  BY Geometry
<1> QED BY <1>1, <1>2, MarkEffect

LEMMA EndReceivesEffect ==
    ASSUME TypeOK, NEW d \in Dirs, EndReceives(d)
    PROVE  LET k == LastLink(d)
               link == ch[d][k]
           IN /\ link # << >> /\ link \in Seq(Block) /\ ~eof[d] /\ ReaderAlive(d, k)
              /\ ch' \in [Dirs -> [Links -> Seq(Block)]] /\ SameLinks(d, k)
              /\ ch'[d][k] = Tail(link)
              /\ got' \in [Dirs -> Seq(1..MaxData)] /\ eof' \in [Dirs -> BOOLEAN]
              /\ \A e \in Dirs \ {d} : got'[e] = got[e] /\ eof'[e] = eof[e]
              /\ \/ Head(link) = Fin /\ got' = got /\ eof'[d] = TRUE
                 \/ Head(link) # Fin /\ got'[d] = Append(got[d], Head(link)) /\ eof' = eof
              /\ UNCHANGED <<socks, wrapped, finSent, copier, buf, closed, sent, gone>>
<1> DEFINE k == LastLink(d)
           link == ch[d][k]
<1>1. /\ link # << >> /\ ~eof[d] /\ (d = "down" => ~gone)
      /\ \/ Head(link) = Fin /\ eof' = [eof EXCEPT ![d] = TRUE] /\ got' = got
         \/ Head(link) # Fin /\ got' = [got EXCEPT ![d] = Append(got[d], Head(link))] /\ eof' = eof
      /\ ch' = [ch EXCEPT ![d][k] = Tail(link)]
      /\ UNCHANGED <<socks, wrapped, finSent, copier, buf, closed, sent, gone>>
  BY DEF EndReceives, fixed, proxy
<1>2. /\ ch \in [Dirs -> [Links -> Seq(Block)]] /\ k \in Links /\ ReaderAlive(d, k)
      /\ got \in [Dirs -> Seq(1..MaxData)] /\ eof \in [Dirs -> BOOLEAN]
  BY <1>1, Geometry, Readers, TypeParts
<1>3. link \in Seq(Block)
  BY <1>2
<1>4. Tail(link) \in Seq(Block) /\ Head(link) \in Block
  BY <1>1, <1>3
<1>5. Head(link) # Fin => Head(link) \in 1..MaxData
  BY <1>4, MaxDataNat DEF Block, Fin
<1> HIDE DEF k, link
<1>6. /\ ch' \in [Dirs -> [Links -> Seq(Block)]] /\ SameLinks(d, k)
      /\ ch'[d][k] = Tail(link)
  BY <1>1, <1>2, <1>4, AtOnePoint DEF SameLinks
<1>7. CASE Head(link) = Fin
  BY <1>1, <1>2, <1>3, <1>6, <1>7 DEF k, link
<1>8. CASE Head(link) # Fin
  <2>1. got' = [got EXCEPT ![d] = Append(got[d], Head(link))] /\ eof' = eof
    BY <1>1, <1>8
  <2>2. Append(got[d], Head(link)) \in Seq(1..MaxData)
    BY <1>2, <1>5, <1>8
  <2>3. /\ got' \in [Dirs -> Seq(1..MaxData)] /\ got'[d] = Append(got[d], Head(link))
        /\ \A e \in Dirs \ {d} : got'[e] = got[e]
    BY <1>2, <2>1, <2>2
  <2> QED BY <1>1, <1>2, <1>3, <1>6, <1>8, <2>1, <2>3 DEF k, link
<1> QED BY <1>7, <1>8

LEMMA ClientClosesEffect ==
    ASSUME TypeOK, ClientCloses
    PROVE  /\ ~gone /\ gone' = TRUE
           /\ ch' \in [Dirs -> [Links -> Seq(Block)]] /\ finSent' \in [Dirs -> [Links -> BOOLEAN]]
           /\ Marks("up", {FirstLink("up")})
           /\ finSent'["down"] = finSent["down"]
           /\ \A k \in Links : k # LastLink("down") => ch'["down"][k] = ch["down"][k]
           /\ UNCHANGED <<socks, wrapped, copier, buf, closed, sent, got, eof>>
<1>1. /\ ~gone /\ gone' = TRUE
      /\ ch' = [ch EXCEPT !["up"] = Ended("up", {0}), !["down"][0] = << >>]
      /\ finSent' = [finSent EXCEPT !["up"][0] = TRUE]
      /\ UNCHANGED <<socks, wrapped, copier, buf, closed, sent, got, eof>>
  BY DEF ClientCloses, fixed, proxy
<1>2. "up" \in Dirs /\ "down" \in Dirs /\ 0 \in Links /\ FirstLink("up") = 0 /\ LastLink("down") = 0
  BY HopsNat DEF Dirs, Links, FirstLink, LastLink
<1>3. ch \in [Dirs -> [Links -> Seq(Block)]] /\ finSent \in [Dirs -> [Links -> BOOLEAN]]
  BY TypeParts
<1>4. /\ Ended("up", {0}) \in [Links -> Seq(Block)]
      /\ \A k \in Links :
           Ended("up", {0})[k] = IF k \in {0} /\ ~finSent["up"][k] THEN Append(ch["up"][k], Fin) ELSE ch["up"][k]
  BY <1>2, EndedType
<1>5. << >> \in Seq(Block)
  OBVIOUS
<1>6. /\ ch' \in [Dirs -> [Links -> Seq(Block)]] /\ ch'["up"] = Ended("up", {0})
      /\ \A k \in Links : k # 0 => ch'["down"][k] = ch["down"][k]
  <2> DEFINE mid == [ch EXCEPT !["up"] = Ended("up", {0})]
  <2>1. mid \in [Dirs -> [Links -> Seq(Block)]] /\ mid["up"] = Ended("up", {0}) /\ mid["down"] = ch["down"]
    BY <1>2, <1>3, <1>4
  <2>2. ch' = [mid EXCEPT !["down"][0] = << >>]
    BY <1>1
  <2> HIDE DEF mid
  <2> QED BY <1>2, <1>5, <2>1, <2>2
<1>7. /\ finSent' \in [Dirs -> [Links -> BOOLEAN]] /\ finSent'["down"] = finSent["down"]
      /\ \A k \in Links : finSent'["up"][k] <=> finSent["up"][k] \/ k \in {0}
  BY <1>1, <1>2, <1>3
<1>8. Marks("up", {0})
  BY <1>4, <1>6, <1>7 DEF Marks
<1> QED BY <1>1, <1>2, <1>6, <1>7, <1>8

-----------------------------------------------------------------------------
(* The flow of one direction *)

\* The state of direction d is explained by r[k] blocks read from each link k
\* and w[k] written to it.
Flow(d, r, w) == LinkInv(d, r, w) /\ CopierInv(d, r, w) /\ EndInv(d, r, w)

LEMMA CountsAre ==
    ASSUME NEW r \in Counts, NEW k \in Links
    PROVE  /\ r[k] \in Nat /\ r[k] \in Block
           /\ \A v \in Block : /\ [r EXCEPT ![k] = v] \in Counts /\ [r EXCEPT ![k] = v][k] = v
                               /\ \A l \in Links : l # k => [r EXCEPT ![k] = v][l] = r[l]
BY MaxDataNat DEF Counts, Block

\* Nothing happens in a direction but that a reader may go.
LEMMA FlowIdle ==
    ASSUME NEW d \in Dirs, NEW r \in Counts, NEW w \in Counts, Flow(d, r, w),
           sent'[d] = sent[d], got'[d] = got[d], finSent'[d] = finSent[d],
           \A k \in Links : ReaderAlive(d, k)' => ReaderAlive(d, k) /\ ch'[d][k] = ch[d][k],
           \A p \in Proxies : /\ copier'[p][d] = copier[p][d] /\ buf'[p][d] = buf[p][d]
                              /\ closed'[p] => copier[p][d] = "done"
    PROVE  Flow(d, r, w)'
<1> USE Geometry
<1>1. LinkInv(d, r, w)'
  BY DEF Flow, LinkInv
<1>2. CopierInv(d, r, w)'
  BY DEF Flow, CopierInv
<1>3. EndInv(d, r, w)'
  BY DEF Flow, EndInv
<1> QED BY <1>1, <1>2, <1>3 DEF Flow

\* A direction's end is marked on link k when the whole stream has passed it.
LEMMA FlowMark ==
    ASSUME TypeOK, NEW d \in Dirs, NEW r \in Counts, NEW w \in Counts, Flow(d, r, w), NEW k \in Links,
           Marks(d, {k}), sent'[d] = sent[d], got'[d] = got[d],
           \A l \in Links : ReaderAlive(d, l)' => ReaderAlive(d, l),
           ReaderAlive(d, k)' => w[k] = sent[d] /\ finSent'[d][FirstLink(d)],
           \A p \in Proxies : /\ \/ copier'[p][d] = copier[p][d]
                                 \/ copier[p][d] = "ended" /\ copier'[p][d] = "done"
                              /\ buf'[p][d] = buf[p][d]
                              /\ closed'[p] => copier'[p][d] = "done"
                              /\ Target(p, d) = k => copier'[p][d] = "done"
    PROVE  Flow(d, r, w)'
<1>1. \A l \in Links : ch[d][l] \in Seq(Block) /\ finSent[d][l] \in BOOLEAN /\ r[l] \in Nat /\ w[l] \in Nat
  BY CountsAre, TypeParts
<1>2. /\ FirstLink(d) \in Links /\ LastLink(d) \in Links
      /\ \A p \in Proxies : Source(p, d) \in Links /\ Target(p, d) \in Links
  BY Geometry
<1>3. finSent[d][FirstLink(d)] => finSent'[d][FirstLink(d)]
  BY <1>2 DEF Marks
<1>4. LinkInv(d, r, w)'
  <2> SUFFICES ASSUME NEW l \in Links
               PROVE  /\ r[l] <= w[l] /\ w[l] <= sent'[d]
                      /\ ReaderAlive(d, l)' =>
                           /\ LinkHolds(ch'[d][l], r[l], w[l], finSent'[d][l])
                           /\ finSent'[d][l] => w[l] = sent'[d] /\ finSent'[d][FirstLink(d)]
    BY DEF LinkInv
  <2>1. /\ r[l] <= w[l] /\ w[l] <= sent[d]
        /\ ReaderAlive(d, l) =>
             /\ LinkHolds(ch[d][l], r[l], w[l], finSent[d][l])
             /\ finSent[d][l] => w[l] = sent[d] /\ finSent[d][FirstLink(d)]
    BY DEF Flow, LinkInv
  <2>2. CASE l # k \/ finSent[d][l]
    <3>1. ch'[d][l] = ch[d][l] /\ (finSent'[d][l] <=> finSent[d][l])
      BY <2>2 DEF Marks
    <3>2. ReaderAlive(d, l)' => LinkHolds(ch'[d][l], r[l], w[l], finSent'[d][l])
      BY <2>1, <3>1 DEF LinkHolds
    <3> QED BY <1>3, <2>1, <3>1, <3>2
  <2>3. CASE l = k /\ ~finSent[d][l]
    <3>1. ch'[d][l] = Append(ch[d][l], Fin) /\ finSent'[d][l]
      BY <2>3 DEF Marks
    <3>2. ASSUME ReaderAlive(d, l)' PROVE LinkHolds(ch'[d][l], r[l], w[l], finSent'[d][l])
      <4>1. LinkHolds(ch[d][l], r[l], w[l], FALSE)
        BY <2>1, <2>3, <3>2 DEF LinkHolds
      <4>2. LinkHolds(ch'[d][l], r[l], w[l], TRUE)
        BY <1>1, <2>1, <3>1, <4>1, LinkPushFin
      <4> QED BY <3>1, <4>2 DEF LinkHolds
    <3> QED BY <2>1, <2>3, <3>2
  <2> QED BY <2>2, <2>3
<1>5. CopierInv(d, r, w)'
  <2>1. \A p \in Proxies : finSent'[d][Target(p, d)] <=> finSent[d][Target(p, d)] \/ Target(p, d) = k
    BY <1>2 DEF Marks
  <2> QED BY <1>2, <1>3, <2>1 DEF Flow, CopierInv
<1>6. EndInv(d, r, w)'
  BY <1>2 DEF Flow, EndInv
<1> QED BY <1>4, <1>5, <1>6 DEF Flow

\* A goroutine takes a block from its source, or finds the end there.
LEMMA FlowRead ==
    ASSUME TypeOK, NEW p \in Proxies, NEW d \in Dirs, CopyRead(p, d),
           NEW r \in Counts, NEW w \in Counts, Flow(d, r, w)
    PROVE  \E r2 \in Counts : Flow(d, r2, w)'
<1> DEFINE k == Source(p, d)
           link == ch[d][k]
<1>1. /\ copier[p][d] = "copy" /\ buf[p][d] = Fin /\ link # << >> /\ link \in Seq(Block)
      /\ buf'[p][d] = Head(link)
      /\ copier'[p][d] = IF Head(link) = Fin THEN "ended" ELSE "copy"
      /\ ch'[d][k] = Tail(link)
      /\ UNCHANGED <<finSent, closed, sent, got, gone>>
  BY CopyReadEffect
<1>2. /\ \A l \in Links : l # k => ch'[d][l] = ch[d][l]
      /\ \A q \in Proxies : q # p => copier'[q][d] = copier[q][d] /\ buf'[q][d] = buf[q][d]
  BY CopyReadEffect DEF SameLinks, SameCopiers, SameBufs
<1>3. /\ k \in Links /\ FirstLink(d) \in Links /\ LastLink(d) \in Links /\ k # LastLink(d)
      /\ \A q \in Proxies : /\ Source(q, d) \in Links /\ Target(q, d) \in Links
                            /\ q # p => Source(q, d) # k
  BY Geometry
<1>4. \A l \in Links : ReaderAlive(d, l)' <=> ReaderAlive(d, l)
  BY <1>1 DEF ReaderAlive
<1>5. ~closed[p] /\ ReaderAlive(d, k)
  BY <1>1, Readers DEF Flow, CopierInv
<1>6. /\ r[k] \in Nat /\ w[k] \in Nat /\ r[k] <= w[k] /\ w[k] <= sent[d] /\ finSent[d][k] \in BOOLEAN
      /\ LinkHolds(link, r[k], w[k], finSent[d][k])
      /\ finSent[d][k] => w[k] = sent[d] /\ finSent[d][FirstLink(d)]
  BY <1>3, <1>5, CountsAre, TypeParts DEF Flow, LinkInv
<1>7. CASE Head(link) # Fin
  <2>1. Head(link) = r[k] + 1 /\ r[k] + 1 <= w[k] /\ LinkHolds(Tail(link), r[k] + 1, w[k], finSent[d][k])
    BY <1>1, <1>6, <1>7, LinkPop
  <2>2. w[k] \in Block /\ r[k] + 1 \in Block
    BY <1>3, <1>6, <2>1, CountsAre, MaxDataNat DEF Block
  <2> DEFINE r2 == [r EXCEPT ![k] = r[k] + 1]
  <2>3. r2 \in Counts /\ r2[k] = r[k] + 1 /\ \A l \in Links : l # k => r2[l] = r[l]
    BY <1>3, <2>2, CountsAre
  <2> HIDE DEF r2, k, link
  <2>4. LinkInv(d, r2, w)'
    <3> SUFFICES ASSUME NEW l \in Links
                 PROVE  /\ r2[l] <= w[l] /\ w[l] <= sent'[d]
                        /\ ReaderAlive(d, l)' =>
                             /\ LinkHolds(ch'[d][l], r2[l], w[l], finSent'[d][l])
                             /\ finSent'[d][l] => w[l] = sent'[d] /\ finSent'[d][FirstLink(d)]
      BY DEF LinkInv
    <3>1. CASE l = k
      BY <1>1, <1>6, <2>1, <2>3, <3>1
    <3>2. CASE l # k
      BY <1>1, <1>2, <1>4, <2>3, <3>2 DEF Flow, LinkInv
    <3> QED BY <3>1, <3>2
  <2>5. CopierInv(d, r2, w)'
    <3> SUFFICES ASSUME NEW q \in Proxies
                 PROVE  LET from == Source(q, d)
                            to == Target(q, d)
                        IN /\ buf'[q][d] # Fin => buf'[q][d] = r2[from] /\ copier'[q][d] = "copy"
                           /\ ReaderAlive(d, to)' => w[to] = r2[from] - (IF buf'[q][d] = Fin THEN 0 ELSE 1)
                           /\ copier'[q][d] # "done" => ~finSent'[d][to]
                           /\ copier'[q][d] # "copy" /\ ReaderAlive(d, to)' => r2[from] = sent'[d] /\ finSent'[d][FirstLink(d)]
                           /\ closed'[q] => copier'[q][d] = "done"
      BY DEF CopierInv
    <3>1. CASE q = p
      <4>1. Source(p, d) = k /\ Target(p, d) \in Links
        BY <1>3 DEF k
      <4>2. /\ ReaderAlive(d, Target(p, d)) => w[Target(p, d)] = r[k]
            /\ ~finSent[d][Target(p, d)]
        BY <1>1, <1>6, <4>1 DEF Flow, CopierInv
      <4>3. r2[k] - 1 = r[k]
        BY <1>6, <2>3
      <4> QED BY <1>1, <1>4, <1>5, <1>7, <2>1, <2>3, <3>1, <4>1, <4>2, <4>3
    <3>2. CASE q # p
      <4>1. r2[Source(q, d)] = r[Source(q, d)] /\ Target(q, d) \in Links
        BY <1>3, <2>3, <3>2
      <4> QED BY <1>1, <1>2, <1>4, <3>2, <4>1 DEF Flow, CopierInv
    <3> QED BY <3>1, <3>2
  <2>6. EndInv(d, r2, w)'
    BY <1>1, <1>3, <1>4, <2>3 DEF Flow, EndInv
  <2> QED BY <2>3, <2>4, <2>5, <2>6 DEF Flow
<1>8. CASE Head(link) = Fin
  <2>1. w[k] = r[k] /\ finSent[d][k] /\ LinkHolds(Tail(link), r[k], w[k], finSent[d][k])
    BY <1>1, <1>6, <1>8, LinkPopFin
  <2> HIDE DEF k, link
  <2>2. LinkInv(d, r, w)'
    <3> SUFFICES ASSUME NEW l \in Links
                 PROVE  /\ r[l] <= w[l] /\ w[l] <= sent'[d]
                        /\ ReaderAlive(d, l)' =>
                             /\ LinkHolds(ch'[d][l], r[l], w[l], finSent'[d][l])
                             /\ finSent'[d][l] => w[l] = sent'[d] /\ finSent'[d][FirstLink(d)]
      BY DEF LinkInv
    <3>1. CASE l = k
      BY <1>1, <1>6, <2>1, <3>1
    <3>2. CASE l # k
      BY <1>1, <1>2, <1>4, <3>2 DEF Flow, LinkInv
    <3> QED BY <3>1, <3>2
  <2>3. CopierInv(d, r, w)'
    <3>1. Source(p, d) = k
      BY DEF k
    <3>2. \A q \in Proxies : buf'[q][d] = buf[q][d]
      BY <1>1, <1>2, <1>8
    <3>3. copier'[p][d] = "ended" /\ r[k] = sent[d] /\ finSent[d][FirstLink(d)]
      BY <1>1, <1>6, <1>8, <2>1
    <3> QED BY <1>1, <1>2, <1>3, <1>4, <1>5, <3>1, <3>2, <3>3 DEF Flow, CopierInv
  <2>4. EndInv(d, r, w)'
    BY <1>1, <1>3, <1>4 DEF Flow, EndInv
  <2> QED BY <2>2, <2>3, <2>4 DEF Flow
<1> QED BY <1>7, <1>8

\* A goroutine hands its block to the next link, or finds its reader gone.
LEMMA FlowWrite ==
    ASSUME TypeOK, NEW p \in Proxies, NEW d \in Dirs, CopyWrite(p, d),
           NEW r \in Counts, NEW w \in Counts, Flow(d, r, w)
    PROVE  \E w2 \in Counts : Flow(d, r, w2)'
<1> DEFINE k == Target(p, d)
<1>1. /\ copier[p][d] = "copy" /\ buf[p][d] # Fin /\ buf'[p][d] = Fin
      /\ copier'[p][d] = IF ReaderAlive(d, k) THEN "copy" ELSE "ended"
      /\ ch'[d][k] = IF ReaderAlive(d, k) THEN Append(ch[d][k], buf[p][d]) ELSE ch[d][k]
      /\ UNCHANGED <<finSent, closed, sent, got, gone>>
  BY CopyWriteEffect
<1>2. /\ \A l \in Links : l # k => ch'[d][l] = ch[d][l]
      /\ \A q \in Proxies : q # p => copier'[q][d] = copier[q][d] /\ buf'[q][d] = buf[q][d]
  BY CopyWriteEffect DEF SameLinks, SameCopiers, SameBufs
<1>3. /\ k \in Links /\ FirstLink(d) \in Links /\ LastLink(d) \in Links /\ k # FirstLink(d)
      /\ \A q \in Proxies : /\ Source(q, d) \in Links /\ Target(q, d) \in Links
                            /\ q # p => Target(q, d) # k
  BY Geometry
<1>4. \A l \in Links : ReaderAlive(d, l)' <=> ReaderAlive(d, l)
  BY <1>1 DEF ReaderAlive
<1>5. ~closed[p] /\ ~finSent[d][k] /\ buf[p][d] = r[Source(p, d)]
  BY <1>1 DEF Flow, CopierInv
<1>6. /\ r[k] \in Nat /\ w[k] \in Nat /\ r[k] <= w[k] /\ finSent[d][k] \in BOOLEAN
      /\ ch[d][k] \in Seq(Block)
  BY <1>3, CountsAre, TypeParts DEF Flow, LinkInv
<1>7. CASE ReaderAlive(d, k)
  <2> DEFINE from == Source(p, d)
  <2>1. r[from] \in Block /\ w[from] \in Block /\ sent[d] \in Block /\ r[from] <= w[from] /\ w[from] <= sent[d]
    BY <1>3, CountsAre, TypeParts DEF Flow, LinkInv
  <2>2. w[k] = r[from] - 1
    BY <1>1, <1>7 DEF Flow, CopierInv
  <2>3. w[k] + 1 = r[from] /\ w[k] + 1 \in Block /\ w[k] + 1 <= sent[d] /\ buf[p][d] = w[k] + 1
    BY <1>5, <1>6, <2>1, <2>2, MaxDataNat DEF Block
  <2>4. LinkHolds(ch[d][k], r[k], w[k], FALSE)
    BY <1>3, <1>5, <1>7 DEF Flow, LinkInv, LinkHolds
  <2>5. LinkHolds(Append(ch[d][k], w[k] + 1), r[k], w[k] + 1, FALSE)
    BY <1>6, <2>3, <2>4, LinkPush
  <2>6. LinkHolds(ch'[d][k], r[k], w[k] + 1, finSent'[d][k])
    BY <1>1, <1>7, <2>3, <2>5 DEF LinkHolds
  <2> DEFINE w2 == [w EXCEPT ![k] = w[k] + 1]
  <2>7. w2 \in Counts /\ w2[k] = w[k] + 1 /\ \A l \in Links : l # k => w2[l] = w[l]
    BY <1>3, <2>3, CountsAre
  <2> HIDE DEF w2, k
  <2>8. LinkInv(d, r, w2)'
    <3> SUFFICES ASSUME NEW l \in Links
                 PROVE  /\ r[l] <= w2[l] /\ w2[l] <= sent'[d]
                        /\ ReaderAlive(d, l)' =>
                             /\ LinkHolds(ch'[d][l], r[l], w2[l], finSent'[d][l])
                             /\ finSent'[d][l] => w2[l] = sent'[d] /\ finSent'[d][FirstLink(d)]
      BY DEF LinkInv
    <3>1. CASE l = k
      BY <1>1, <1>5, <1>6, <2>3, <2>6, <2>7, <3>1
    <3>2. CASE l # k
      BY <1>1, <1>2, <1>4, <2>7, <3>2 DEF Flow, LinkInv
    <3> QED BY <3>1, <3>2
  <2>9. CopierInv(d, r, w2)'
    <3> SUFFICES ASSUME NEW q \in Proxies
                 PROVE  LET src == Source(q, d)
                            to == Target(q, d)
                        IN /\ buf'[q][d] # Fin => buf'[q][d] = r[src] /\ copier'[q][d] = "copy"
                           /\ ReaderAlive(d, to)' => w2[to] = r[src] - (IF buf'[q][d] = Fin THEN 0 ELSE 1)
                           /\ copier'[q][d] # "done" => ~finSent'[d][to]
                           /\ copier'[q][d] # "copy" /\ ReaderAlive(d, to)' => r[src] = sent'[d] /\ finSent'[d][FirstLink(d)]
                           /\ closed'[q] => copier'[q][d] = "done"
      BY DEF CopierInv
    <3>1. CASE q = p
      <4>1. Target(p, d) = k /\ r[from] - 0 = r[from]
        BY <2>1 DEF k, Block
      <4> QED BY <1>1, <1>5, <1>7, <2>3, <2>7, <3>1, <4>1
    <3>2. CASE q # p
      <4>1. w2[Target(q, d)] = w[Target(q, d)] /\ Target(q, d) \in Links
        BY <1>3, <2>7, <3>2
      <4> QED BY <1>1, <1>2, <1>4, <3>2, <4>1 DEF Flow, CopierInv
    <3> QED BY <3>1, <3>2
  <2>10. EndInv(d, r, w2)'
    BY <1>1, <1>3, <1>4, <2>7 DEF Flow, EndInv
  <2> QED BY <2>7, <2>8, <2>9, <2>10 DEF Flow
<1>8. CASE ~ReaderAlive(d, k)
  <2>1. LinkInv(d, r, w)'
    BY <1>1, <1>2, <1>4, <1>8 DEF Flow, LinkInv
  <2>2. CopierInv(d, r, w)'
    <3>1. Target(p, d) = k /\ copier'[p][d] = "ended"
      BY <1>1, <1>8
    <3> HIDE DEF k
    <3> QED BY <1>1, <1>2, <1>3, <1>4, <1>5, <1>8, <3>1 DEF Flow, CopierInv
  <2>3. EndInv(d, r, w)'
    BY <1>1, <1>3, <1>4 DEF Flow, EndInv
  <2> QED BY <2>1, <2>2, <2>3 DEF Flow
<1> QED BY <1>7, <1>8

\* The end that writes a direction puts the next block on the first link.
LEMMA FlowSend ==
    ASSUME TypeOK, NEW d \in Dirs, EndSends(d), NEW r \in Counts, NEW w \in Counts, Flow(d, r, w)
    PROVE  \E w2 \in Counts : Flow(d, r, w2)'
<1> DEFINE k == FirstLink(d)
<1>1. /\ sent[d] + 1 \in Block /\ ~finSent[d][k] /\ ReaderAlive(d, k) /\ sent'[d] = sent[d] + 1
      /\ ch'[d][k] = Append(ch[d][k], sent[d] + 1)
      /\ UNCHANGED <<finSent, copier, buf, closed, got, gone>>
  BY EndSendsEffect
<1>2. \A l \in Links : l # k => ch'[d][l] = ch[d][l]
  BY EndSendsEffect DEF SameLinks
<1>3. /\ k \in Links /\ LastLink(d) \in Links
      /\ \A q \in Proxies : Source(q, d) \in Links /\ Target(q, d) \in Links /\ Target(q, d) # k
  BY Geometry
<1>4. \A l \in Links : ReaderAlive(d, l)' <=> ReaderAlive(d, l)
  BY <1>1 DEF ReaderAlive
<1>5. /\ r[k] \in Nat /\ w[k] \in Nat /\ r[k] <= w[k] /\ w[k] = sent[d] /\ sent[d] \in Nat
      /\ ch[d][k] \in Seq(Block) /\ LinkHolds(ch[d][k], r[k], w[k], FALSE)
  BY <1>1, <1>3, CountsAre, TypeParts DEF Flow, LinkInv, EndInv, LinkHolds
<1>6. LinkHolds(ch'[d][k], r[k], w[k] + 1, finSent'[d][k])
  <2>1. LinkHolds(Append(ch[d][k], w[k] + 1), r[k], w[k] + 1, FALSE)
    BY <1>1, <1>5, LinkPush
  <2> QED BY <1>1, <1>5, <2>1 DEF LinkHolds
<1> DEFINE w2 == [w EXCEPT ![k] = w[k] + 1]
<1>7. w2 \in Counts /\ w2[k] = w[k] + 1 /\ \A l \in Links : l # k => w2[l] = w[l]
  BY <1>1, <1>3, <1>5, CountsAre
<1>8. \A l \in Links : r[l] \in Nat /\ w[l] \in Nat
  BY CountsAre
<1> HIDE DEF w2
<1>9. LinkInv(d, r, w2)'
  <2> SUFFICES ASSUME NEW l \in Links
               PROVE  /\ r[l] <= w2[l] /\ w2[l] <= sent'[d]
                      /\ ReaderAlive(d, l)' =>
                           /\ LinkHolds(ch'[d][l], r[l], w2[l], finSent'[d][l])
                           /\ finSent'[d][l] => w2[l] = sent'[d] /\ finSent'[d][FirstLink(d)]
    BY DEF LinkInv
  <2>1. CASE l = k
    <3>1. r[k] <= w2[k] /\ w2[k] <= sent'[d]
      BY <1>1, <1>5, <1>7
    <3>2. LinkHolds(ch'[d][k], r[k], w2[k], finSent'[d][k]) /\ ~finSent'[d][k]
      BY <1>1, <1>6, <1>7
    <3> QED BY <2>1, <3>1, <3>2
  <2>2. CASE l # k
    <3>1. /\ r[l] <= w[l] /\ w[l] <= sent[d]
          /\ ReaderAlive(d, l) =>
               LinkHolds(ch[d][l], r[l], w[l], finSent[d][l]) /\ ~finSent[d][l]
      BY <1>1 DEF Flow, LinkInv
    <3> QED BY <1>1, <1>2, <1>4, <1>5, <1>7, <1>8, <2>2, <3>1
  <2> QED BY <2>1, <2>2
<1>10. CopierInv(d, r, w2)'
  <2>1. \A q \in Proxies : w2[Target(q, d)] = w[Target(q, d)]
    BY <1>3, <1>7
  <2>2. \A q \in Proxies : ~(copier[q][d] # "copy" /\ ReaderAlive(d, Target(q, d)))
    BY <1>1 DEF Flow, CopierInv
  <2> HIDE DEF k
  <2> QED BY <1>1, <1>3, <1>4, <2>1, <2>2 DEF Flow, CopierInv
<1>11. EndInv(d, r, w2)'
  <2>1. \A i \in 1..Len(got[d]) : got[d][i] = i
    BY DEF Flow, EndInv
  <2>2. Len(got[d]) <= sent'[d]
    <3>1. Len(got[d]) \in Nat /\ Len(got[d]) <= sent[d]
      BY TypeParts DEF Flow, EndInv
    <3> QED BY <1>1, <1>5, <3>1
  <2>3. ReaderAlive(d, LastLink(d))' => Len(got[d]) = r[LastLink(d)]
    BY <1>3, <1>4 DEF Flow, EndInv
  <2> QED BY <1>1, <1>5, <1>7, <2>1, <2>2, <2>3 DEF EndInv
<1> QED BY <1>7, <1>9, <1>10, <1>11 DEF Flow

\* The end that reads a direction takes a block, or finds the end; then it has
\* had everything, and the other end has ended the direction.
LEMMA FlowReceive ==
    ASSUME TypeOK, NEW d \in Dirs, EndReceives(d), NEW r \in Counts, NEW w \in Counts, Flow(d, r, w)
    PROVE  /\ \E r2 \in Counts : Flow(d, r2, w)'
           /\ \/ /\ got'[d] = got[d] /\ eof'[d] = TRUE
                 /\ Len(got[d]) = sent[d] /\ finSent[d][FirstLink(d)]
              \/ /\ got'[d] = Append(got[d], Len(got[d]) + 1) /\ eof' = eof
                 /\ Len(got[d]) + 1 <= sent[d]
<1> DEFINE k == LastLink(d)
           link == ch[d][k]
<1>1. /\ link # << >> /\ link \in Seq(Block) /\ ~eof[d] /\ ReaderAlive(d, k)
      /\ ch'[d][k] = Tail(link)
      /\ \/ Head(link) = Fin /\ got' = got /\ eof'[d] = TRUE
         \/ Head(link) # Fin /\ got'[d] = Append(got[d], Head(link)) /\ eof' = eof
      /\ UNCHANGED <<finSent, copier, buf, closed, sent, gone>>
  BY EndReceivesEffect
<1>2. \A l \in Links : l # k => ch'[d][l] = ch[d][l]
  BY EndReceivesEffect DEF SameLinks
<1>3. /\ k \in Links /\ FirstLink(d) \in Links
      /\ \A q \in Proxies : Source(q, d) \in Links /\ Target(q, d) \in Links /\ Source(q, d) # k
  BY Geometry
<1>4. \A l \in Links : ReaderAlive(d, l)' <=> ReaderAlive(d, l)
  BY <1>1 DEF ReaderAlive
<1>5. /\ r[k] \in Nat /\ w[k] \in Nat /\ r[k] <= w[k] /\ w[k] <= sent[d] /\ finSent[d][k] \in BOOLEAN
      /\ LinkHolds(link, r[k], w[k], finSent[d][k])
      /\ finSent[d][k] => w[k] = sent[d] /\ finSent[d][FirstLink(d)]
  BY <1>1, <1>3, CountsAre, TypeParts DEF Flow, LinkInv
<1>6. Len(got[d]) = r[k] /\ got[d] \in Seq(1..MaxData) /\ \A i \in 1..Len(got[d]) : got[d][i] = i
  BY <1>1, TypeParts DEF Flow, EndInv
<1>7. CASE Head(link) # Fin
  <2>1. Head(link) = r[k] + 1 /\ r[k] + 1 <= w[k] /\ LinkHolds(Tail(link), r[k] + 1, w[k], finSent[d][k])
    BY <1>1, <1>5, <1>7, LinkPop
  <2>2. w[k] \in Block /\ sent[d] \in Block /\ r[k] + 1 \in Block /\ r[k] + 1 <= sent[d]
    BY <1>3, <1>5, <2>1, CountsAre, TypeParts, MaxDataNat DEF Block
  <2> DEFINE r2 == [r EXCEPT ![k] = r[k] + 1]
  <2>3. r2 \in Counts /\ r2[k] = r[k] + 1 /\ \A l \in Links : l # k => r2[l] = r[l]
    BY <1>3, <2>2, CountsAre
  <2> HIDE DEF r2, link
  <2>4. LinkInv(d, r2, w)'
    <3> SUFFICES ASSUME NEW l \in Links
                 PROVE  /\ r2[l] <= w[l] /\ w[l] <= sent'[d]
                        /\ ReaderAlive(d, l)' =>
                             /\ LinkHolds(ch'[d][l], r2[l], w[l], finSent'[d][l])
                             /\ finSent'[d][l] => w[l] = sent'[d] /\ finSent'[d][FirstLink(d)]
      BY DEF LinkInv
    <3>1. CASE l = k
      BY <1>1, <1>5, <2>1, <2>3, <3>1
    <3>2. CASE l # k
      BY <1>1, <1>2, <1>4, <2>3, <3>2 DEF Flow, LinkInv
    <3> QED BY <3>1, <3>2
  <2>5. CopierInv(d, r2, w)'
    <3>1. \A q \in Proxies : r2[Source(q, d)] = r[Source(q, d)]
      BY <1>3, <2>3
    <3> HIDE DEF k
    <3> QED BY <1>1, <1>3, <1>4, <3>1 DEF Flow, CopierInv
  <2>6. got'[d] = Append(got[d], Len(got[d]) + 1) /\ eof' = eof
    BY <1>1, <1>6, <1>7, <2>1
  <2>7. EndInv(d, r2, w)'
    <3>1. w[FirstLink(d)] = sent'[d]
      BY <1>1 DEF Flow, EndInv
    <3>2. Len(got[d]) + 1 \in 1..MaxData
      BY <1>5, <1>6, <2>2, MaxDataNat DEF Block
    <3>3. /\ Len(got'[d]) = Len(got[d]) + 1 /\ Len(got'[d]) = r2[k]
          /\ \A i \in 1..Len(got'[d]) : got'[d][i] = i
      BY <1>6, <2>3, <2>6, <3>2
    <3> QED BY <1>1, <1>5, <1>6, <2>2, <3>1, <3>3 DEF EndInv
  <2>8. Len(got[d]) + 1 <= sent[d]
    BY <1>6, <2>2
  <2> QED BY <2>3, <2>4, <2>5, <2>6, <2>7, <2>8 DEF Flow
<1>8. CASE Head(link) = Fin
  <2>1. w[k] = r[k] /\ finSent[d][k] /\ LinkHolds(Tail(link), r[k], w[k], finSent[d][k])
    BY <1>1, <1>5, <1>8, LinkPopFin
  <2>2. got' = got /\ eof'[d] = TRUE /\ Len(got[d]) = sent[d] /\ finSent[d][FirstLink(d)]
    BY <1>1, <1>5, <1>6, <1>8, <2>1
  <2> HIDE DEF link
  <2>3. LinkInv(d, r, w)'
    <3> SUFFICES ASSUME NEW l \in Links
                 PROVE  /\ r[l] <= w[l] /\ w[l] <= sent'[d]
                        /\ ReaderAlive(d, l)' =>
                             /\ LinkHolds(ch'[d][l], r[l], w[l], finSent'[d][l])
                             /\ finSent'[d][l] => w[l] = sent'[d] /\ finSent'[d][FirstLink(d)]
      BY DEF LinkInv
    <3>1. CASE l = k
      BY <1>1, <1>5, <2>1, <3>1
    <3>2. CASE l # k
      BY <1>1, <1>2, <1>4, <3>2 DEF Flow, LinkInv
    <3> QED BY <3>1, <3>2
  <2>4. CopierInv(d, r, w)'
    BY <1>1, <1>3, <1>4 DEF Flow, CopierInv
  <2>5. EndInv(d, r, w)'
    BY <1>1, <1>3, <1>4, <2>2 DEF Flow, EndInv
  <2> QED BY <2>2, <2>3, <2>4, <2>5 DEF Flow
<1> QED BY <1>7, <1>8

-----------------------------------------------------------------------------
(* One step of the session, seen by each direction *)

\* The two ends of direction d notice nothing; or one of them does something.
Fins(d) == finSent[d][FirstLink(d)]
NoBlocks(d) == sent'[d] = sent[d] /\ got'[d] = got[d]
Quiet(d) == NoBlocks(d) /\ (Fins(d)' <=> Fins(d)) /\ Knows(d)' = Knows(d)
Sends(d) ==
    /\ ~Fins(d) /\ ~Fins(d)' /\ sent'[d] = sent[d] + 1
    /\ got'[d] = got[d] /\ Knows(d)' = Knows(d)
Closes(d) == NoBlocks(d) /\ ~Fins(d) /\ Fins(d)' /\ Knows(d)' = Knows(d)
Receives(d) ==
    /\ sent'[d] = sent[d] /\ (Fins(d)' <=> Fins(d)) /\ Knows(d) = "open" /\ Knows(d)' = "open"
    /\ got'[d] = Append(got[d], Len(got[d]) + 1) /\ Len(got[d]) + 1 <= sent[d]
Finishes(d) ==
    /\ NoBlocks(d) /\ Fins(d) /\ Fins(d)' /\ Len(got[d]) = sent[d]
    /\ Knows(d) = "open" /\ Knows(d)' = "eof"
Breaks(d) == NoBlocks(d) /\ (Fins(d)' <=> Fins(d)) /\ Knows(d) = "open" /\ Knows(d)' = "error"
Move(d) == Quiet(d) \/ Sends(d) \/ Closes(d) \/ Receives(d) \/ Finishes(d) \/ Breaks(d)

\* A direction in which nothing changes.
LEMMA DirIdle ==
    ASSUME NEW d \in Dirs, DirInv(d), UNCHANGED <<closed, gone>>,
           sent'[d] = sent[d], got'[d] = got[d], eof'[d] = eof[d], finSent'[d] = finSent[d],
           \A k \in Links : ch'[d][k] = ch[d][k],
           \A p \in Proxies : copier'[p][d] = copier[p][d] /\ buf'[p][d] = buf[p][d]
    PROVE  DirInv(d)' /\ Quiet(d)
<1>1. PICK r \in Counts, w \in Counts : Flow(d, r, w)
  BY DEF DirInv, Flow
<1>2. \A k \in Links : ReaderAlive(d, k)' => ReaderAlive(d, k)
  BY DEF ReaderAlive
<1>3. \A p \in Proxies : closed'[p] => copier[p][d] = "done"
  BY <1>1 DEF Flow, CopierInv
<1>4. Flow(d, r, w)'
  BY <1>1, <1>2, <1>3, FlowIdle
<1>5. DirInv(d)'
  BY <1>4 DEF DirInv, Flow
<1>6. Quiet(d)
  BY DEF Quiet, NoBlocks, Fins, Knows
<1> QED BY <1>5, <1>6

LEMMA StepRead ==
    ASSUME SessionInv, NEW p \in Proxies, NEW d \in Dirs, CopyRead(p, d)
    PROVE  SessionInv' /\ \A e \in Dirs : Move(e)
<1>1. TypeOK /\ \A e \in Dirs : DirInv(e)
  BY DEF SessionInv
<1>2. TypeOK'
  BY <1>1, CopyReadEffect, TypeParts, TypePartsNext
<1>3. ASSUME NEW e \in Dirs PROVE DirInv(e)' /\ Quiet(e)
  <2>1. UNCHANGED <<finSent, closed, sent, got, eof, gone>>
    BY <1>1, CopyReadEffect
  <2>2. CASE e = d
    <3>1. PICK r \in Counts, w \in Counts : Flow(d, r, w)
      BY <1>1 DEF DirInv, Flow
    <3>2. \E r2 \in Counts : Flow(d, r2, w)'
      BY <1>1, <3>1, FlowRead
    <3>3. DirInv(e)'
      BY <2>2, <3>2 DEF DirInv, Flow
    <3> QED BY <2>1, <3>3 DEF Quiet, NoBlocks, Fins, Knows
  <2>3. CASE e # d
    <3>1. /\ \A k \in Links : ch'[e][k] = ch[e][k]
          /\ \A q \in Proxies : copier'[q][e] = copier[q][e] /\ buf'[q][e] = buf[q][e]
      BY <1>1, <2>3, CopyReadEffect DEF SameLinks, SameCopiers, SameBufs
    <3> QED BY <1>1, <2>1, <3>1, DirIdle
  <2> QED BY <2>2, <2>3
<1> QED BY <1>2, <1>3 DEF SessionInv, Move

LEMMA StepWrite ==
    ASSUME SessionInv, NEW p \in Proxies, NEW d \in Dirs, CopyWrite(p, d)
    PROVE  SessionInv' /\ \A e \in Dirs : Move(e)
<1>1. TypeOK /\ \A e \in Dirs : DirInv(e)
  BY DEF SessionInv
<1>2. TypeOK'
  BY <1>1, CopyWriteEffect, TypeParts, TypePartsNext
<1>3. ASSUME NEW e \in Dirs PROVE DirInv(e)' /\ Quiet(e)
  <2>1. UNCHANGED <<finSent, closed, sent, got, eof, gone>>
    BY <1>1, CopyWriteEffect
  <2>2. CASE e = d
    <3>1. PICK r \in Counts, w \in Counts : Flow(d, r, w)
      BY <1>1 DEF DirInv, Flow
    <3>2. \E w2 \in Counts : Flow(d, r, w2)'
      BY <1>1, <3>1, FlowWrite
    <3>3. DirInv(e)'
      BY <2>2, <3>2 DEF DirInv, Flow
    <3> QED BY <2>1, <3>3 DEF Quiet, NoBlocks, Fins, Knows
  <2>3. CASE e # d
    <3>1. /\ \A k \in Links : ch'[e][k] = ch[e][k]
          /\ \A q \in Proxies : copier'[q][e] = copier[q][e] /\ buf'[q][e] = buf[q][e]
      BY <1>1, <2>3, CopyWriteEffect DEF SameLinks, SameCopiers, SameBufs
    <3> QED BY <1>1, <2>1, <3>1, DirIdle
  <2> QED BY <2>2, <2>3
<1> QED BY <1>2, <1>3 DEF SessionInv, Move

\* A goroutine that has ended has passed the whole stream on, if there is
\* still somebody to read it.
LEMMA EndedPassedAll ==
    ASSUME TypeOK, NEW p \in Proxies, NEW d \in Dirs, copier[p][d] # "copy",
           NEW r \in Counts, NEW w \in Counts, Flow(d, r, w), ReaderAlive(d, Target(p, d))
    PROVE  w[Target(p, d)] = sent[d] /\ finSent[d][FirstLink(d)]
<1>1. buf[p][d] = Fin /\ w[Target(p, d)] = r[Source(p, d)] - 0
  BY DEF Flow, CopierInv
<1>2. r[Source(p, d)] = sent[d] /\ finSent[d][FirstLink(d)] /\ sent[d] \in Nat
  BY TypeParts, MaxDataNat DEF Flow, CopierInv, Block
<1> QED BY <1>1, <1>2

LEMMA StepCopyEnds ==
    ASSUME SessionInv, NEW p \in Proxies, NEW d \in Dirs, CopyEnds(p, d)
    PROVE  SessionInv' /\ \A e \in Dirs : Move(e)
<1>1. TypeOK /\ \A e \in Dirs : DirInv(e)
  BY DEF SessionInv
<1>2. TypeOK'
  <2>1. /\ copier' \in [Proxies -> [Dirs -> Stages]]
        /\ ch' \in [Dirs -> [Links -> Seq(Block)]] /\ finSent' \in [Dirs -> [Links -> BOOLEAN]]
        /\ UNCHANGED <<socks, wrapped, buf, closed, sent, got, eof, gone>>
    BY <1>1, CopyEndsEffect
  <2> QED BY <1>1, <2>1, TypeParts, TypePartsNext
<1>3. /\ copier[p][d] = "ended" /\ copier'[p][d] = "done"
      /\ (Marks(d, {Target(p, d)}) /\ OtherDir(d)) \/ UNCHANGED <<ch, finSent>>
      /\ UNCHANGED <<buf, closed, sent, got, eof, gone>>
      /\ \A q \in Proxies, e \in Dirs : q # p \/ e # d => copier'[q][e] = copier[q][e]
  BY <1>1, CopyEndsEffect DEF SameCopiers
<1>4. ASSUME NEW e \in Dirs PROVE DirInv(e)' /\ Quiet(e)
  <2>1. CASE e # d
    <3>1. ch'[e] = ch[e] /\ finSent'[e] = finSent[e]
      BY <1>3, <2>1 DEF OtherDir
    <3>2. \A q \in Proxies : copier'[q][e] = copier[q][e] /\ buf'[q][e] = buf[q][e]
      BY <1>3, <2>1
    <3> QED BY <1>1, <1>3, <3>1, <3>2, DirIdle
  <2>2. CASE e = d
    <3>1. PICK r \in Counts, w \in Counts : Flow(d, r, w)
      BY <1>1 DEF DirInv, Flow
    <3>2. /\ Target(p, d) \in Links /\ FirstLink(d) \in Links /\ Target(p, d) # FirstLink(d)
          /\ \A q \in Proxies : Source(q, d) \in Links /\ Target(q, d) \in Links
          /\ \A q \in Proxies : Target(q, d) = Target(p, d) => q = p
      BY Geometry
    <3>3. \A l \in Links : ReaderAlive(d, l)' <=> ReaderAlive(d, l)
      BY <1>3 DEF ReaderAlive
    <3>4. CASE Marks(d, {Target(p, d)})
      <4>1. Fins(d)' <=> Fins(d)
        BY <3>2, <3>4 DEF Marks, Fins
      <4>2. ReaderAlive(d, Target(p, d))' => w[Target(p, d)] = sent[d] /\ finSent'[d][FirstLink(d)]
        BY <1>1, <1>3, <3>1, <3>2, <3>3, <4>1, EndedPassedAll DEF Fins
      <4>3. \A q \in Proxies :
              /\ copier'[q][d] = copier[q][d] \/ (copier[q][d] = "ended" /\ copier'[q][d] = "done")
              /\ buf'[q][d] = buf[q][d]
              /\ closed'[q] => copier'[q][d] = "done"
              /\ Target(q, d) = Target(p, d) => copier'[q][d] = "done"
        <5>1. \A q \in Proxies : closed[q] => copier[q][d] = "done"
          BY <3>1 DEF Flow, CopierInv
        <5> QED BY <1>3, <3>2, <5>1
      <4>4. sent'[d] = sent[d] /\ got'[d] = got[d]
        BY <1>3
      <4>5. Flow(d, r, w)'
        BY <1>1, <3>1, <3>2, <3>3, <3>4, <4>2, <4>3, <4>4, FlowMark
      <4>6. DirInv(e)'
        BY <2>2, <4>5 DEF DirInv, Flow
      <4> QED BY <1>3, <2>2, <4>1, <4>6 DEF Quiet, NoBlocks, Knows
    <3>5. CASE UNCHANGED <<ch, finSent>>
      <4>1. LinkInv(d, r, w)'
        BY <1>3, <3>1, <3>3, <3>5 DEF Flow, LinkInv
      <4>2. CopierInv(d, r, w)'
        BY <1>3, <3>1, <3>2, <3>3, <3>5 DEF Flow, CopierInv
      <4>3. EndInv(d, r, w)'
        BY <1>3, <3>1, <3>3, <3>5, Geometry DEF Flow, EndInv
      <4>4. DirInv(e)'
        BY <2>2, <4>1, <4>2, <4>3 DEF DirInv
      <4> QED BY <1>3, <3>5, <4>4 DEF Quiet, NoBlocks, Fins, Knows
    <3> QED BY <1>3, <3>4, <3>5
  <2> QED BY <2>1, <2>2
<1> QED BY <1>2, <1>4 DEF SessionInv, Move

LEMMA StepClosePipe ==
    ASSUME SessionInv, NEW p \in Proxies, ClosePipe(p)
    PROVE  SessionInv' /\ \A e \in Dirs : Move(e)
<1>1. TypeOK /\ \A e \in Dirs : DirInv(e)
  BY DEF SessionInv
<1>2. /\ \A d \in Dirs : copier[p][d] = "done"
      /\ closed' \in [Proxies -> BOOLEAN] /\ \A q \in Proxies : q # p => closed'[q] = closed[q]
      /\ closed'[p]
      /\ ch' \in [Dirs -> [Links -> Seq(Block)]] /\ finSent' \in [Dirs -> [Links -> BOOLEAN]]
      /\ \A d \in Dirs : Marks(d, {Target(p, d)})
      /\ UNCHANGED <<socks, wrapped, copier, buf, sent, got, eof, gone>>
  BY <1>1, ClosePipeEffect
<1>3. TypeOK'
  BY <1>1, <1>2, TypeParts, TypePartsNext
<1>4. ASSUME NEW d \in Dirs PROVE DirInv(d)' /\ Quiet(d)
  <2>1. PICK r \in Counts, w \in Counts : Flow(d, r, w)
    BY <1>1 DEF DirInv, Flow
  <2>2. /\ Target(p, d) \in Links /\ FirstLink(d) \in Links /\ Target(p, d) # FirstLink(d)
        /\ \A q \in Proxies : Target(q, d) = Target(p, d) => q = p
    BY Geometry
  <2>3. \A l \in Links : ReaderAlive(d, l)' => ReaderAlive(d, l)
    <3>1. \A q \in Proxies : closed[q] => closed'[q]
      BY <1>2
    <3> QED BY <1>2, <3>1, ReadersGo
  <2>4. Fins(d)' <=> Fins(d)
    BY <1>2, <2>2 DEF Marks, Fins
  <2>5. ReaderAlive(d, Target(p, d))' => w[Target(p, d)] = sent[d] /\ finSent'[d][FirstLink(d)]
    <3>1. copier[p][d] # "copy"
      BY <1>2
    <3>2. ReaderAlive(d, Target(p, d)) => w[Target(p, d)] = sent[d] /\ finSent[d][FirstLink(d)]
      BY <1>1, <2>1, <3>1, EndedPassedAll
    <3> QED BY <2>2, <2>3, <2>4, <3>2 DEF Fins
  <2>6. \A q \in Proxies :
          /\ copier'[q][d] = copier[q][d] /\ buf'[q][d] = buf[q][d]
          /\ closed'[q] => copier'[q][d] = "done"
          /\ Target(q, d) = Target(p, d) => copier'[q][d] = "done"
    <3>1. \A q \in Proxies : closed[q] => copier[q][d] = "done"
      BY <2>1 DEF Flow, CopierInv
    <3> QED BY <1>2, <2>2, <3>1
  <2>7. Marks(d, {Target(p, d)}) /\ sent'[d] = sent[d] /\ got'[d] = got[d]
    BY <1>2
  <2>8. Flow(d, r, w)'
    BY <1>1, <2>1, <2>2, <2>3, <2>5, <2>6, <2>7, FlowMark
  <2>9. DirInv(d)'
    BY <2>8 DEF DirInv, Flow
  <2> QED BY <1>2, <2>4, <2>9 DEF Quiet, NoBlocks, Knows
<1> QED BY <1>3, <1>4 DEF SessionInv, Move

LEMMA StepSend ==
    ASSUME SessionInv, NEW d \in Dirs, EndSends(d)
    PROVE  SessionInv' /\ \A e \in Dirs : Move(e)
<1>1. TypeOK /\ \A e \in Dirs : DirInv(e)
  BY DEF SessionInv
<1>2. /\ ~finSent[d][FirstLink(d)] /\ sent'[d] = sent[d] + 1 /\ sent' \in [Dirs -> Block]
      /\ \A e \in Dirs \ {d} : sent'[e] = sent[e]
      /\ ch' \in [Dirs -> [Links -> Seq(Block)]]
      /\ \A e \in Dirs \ {d}, k \in Links : ch'[e][k] = ch[e][k]
      /\ UNCHANGED <<socks, wrapped, finSent, copier, buf, closed, got, eof, gone>>
  BY <1>1, EndSendsEffect DEF SameLinks
<1>3. TypeOK'
  BY <1>1, <1>2, TypeParts, TypePartsNext
<1>4. DirInv(d)' /\ Sends(d)
  <2>1. PICK r \in Counts, w \in Counts : Flow(d, r, w)
    BY <1>1 DEF DirInv, Flow
  <2>2. \E w2 \in Counts : Flow(d, r, w2)'
    BY <1>1, <2>1, FlowSend
  <2>3. DirInv(d)'
    BY <2>2 DEF DirInv, Flow
  <2> QED BY <1>2, <2>3 DEF Sends, Fins, Knows
<1>5. ASSUME NEW e \in Dirs, e # d PROVE DirInv(e)' /\ Quiet(e)
  BY <1>1, <1>2, <1>5, DirIdle
<1> QED BY <1>3, <1>4, <1>5 DEF SessionInv, Move

LEMMA StepHalfClose ==
    ASSUME SessionInv, NEW d \in Dirs, EndHalfCloses(d)
    PROVE  SessionInv' /\ \A e \in Dirs : Move(e)
<1>1. TypeOK /\ \A e \in Dirs : DirInv(e)
  BY DEF SessionInv
<1>2. /\ ~finSent[d][FirstLink(d)]
      /\ ch' \in [Dirs -> [Links -> Seq(Block)]] /\ finSent' \in [Dirs -> [Links -> BOOLEAN]]
      /\ Marks(d, {FirstLink(d)}) /\ OtherDir(d)
      /\ UNCHANGED <<socks, wrapped, copier, buf, closed, sent, got, eof, gone>>
  BY <1>1, EndHalfClosesEffect
<1>3. TypeOK'
  BY <1>1, <1>2, TypeParts, TypePartsNext
<1>4. DirInv(d)' /\ Closes(d)
  <2>1. PICK r \in Counts, w \in Counts : Flow(d, r, w)
    BY <1>1 DEF DirInv, Flow
  <2>2. FirstLink(d) \in Links /\ \A q \in Proxies : Target(q, d) # FirstLink(d)
    BY Geometry
  <2>3. \A l \in Links : ReaderAlive(d, l)' => ReaderAlive(d, l)
    BY <1>2 DEF ReaderAlive
  <2>4. Fins(d)'
    BY <1>2, <2>2 DEF Marks, Fins
  <2>5. w[FirstLink(d)] = sent[d] /\ finSent'[d][FirstLink(d)]
    BY <2>1, <2>4 DEF Flow, EndInv, Fins
  <2>6. \A q \in Proxies :
          /\ copier'[q][d] = copier[q][d] /\ buf'[q][d] = buf[q][d]
          /\ closed'[q] => copier'[q][d] = "done"
          /\ Target(q, d) = FirstLink(d) => copier'[q][d] = "done"
    BY <1>2, <2>1, <2>2 DEF Flow, CopierInv
  <2>7. sent'[d] = sent[d] /\ got'[d] = got[d]
    BY <1>2
  <2>8. Flow(d, r, w)'
    BY <1>1, <1>2, <2>1, <2>2, <2>3, <2>5, <2>6, <2>7, FlowMark
  <2>9. DirInv(d)'
    BY <2>8 DEF DirInv, Flow
  <2> QED BY <1>2, <2>4, <2>9 DEF Closes, NoBlocks, Fins, Knows
<1>5. ASSUME NEW e \in Dirs, e # d PROVE DirInv(e)' /\ Quiet(e)
  <2>1. ch'[e] = ch[e] /\ finSent'[e] = finSent[e]
    BY <1>2, <1>5 DEF OtherDir
  <2> QED BY <1>1, <1>2, <2>1, DirIdle
<1> QED BY <1>3, <1>4, <1>5 DEF SessionInv, Move

LEMMA StepReceive ==
    ASSUME SessionInv, NEW d \in Dirs, EndReceives(d)
    PROVE  SessionInv' /\ \A e \in Dirs : Move(e)
<1>1. TypeOK /\ \A e \in Dirs : DirInv(e)
  BY DEF SessionInv
<1>2. /\ ~eof[d] /\ ReaderAlive(d, LastLink(d))
      /\ ch' \in [Dirs -> [Links -> Seq(Block)]]
      /\ got' \in [Dirs -> Seq(1..MaxData)] /\ eof' \in [Dirs -> BOOLEAN]
      /\ \A e \in Dirs \ {d} : got'[e] = got[e] /\ eof'[e] = eof[e]
      /\ \A e \in Dirs \ {d}, k \in Links : ch'[e][k] = ch[e][k]
      /\ UNCHANGED <<socks, wrapped, finSent, copier, buf, closed, sent, gone>>
  BY <1>1, EndReceivesEffect DEF SameLinks
<1>3. TypeOK'
  BY <1>1, <1>2, TypeParts, TypePartsNext
<1>4. DirInv(d)' /\ (Receives(d) \/ Finishes(d))
  <2>1. PICK r \in Counts, w \in Counts : Flow(d, r, w)
    BY <1>1 DEF DirInv, Flow
  <2>2. /\ \E r2 \in Counts : Flow(d, r2, w)'
        /\ \/ /\ got'[d] = got[d] /\ eof'[d] = TRUE
              /\ Len(got[d]) = sent[d] /\ finSent[d][FirstLink(d)]
           \/ /\ got'[d] = Append(got[d], Len(got[d]) + 1) /\ eof' = eof
              /\ Len(got[d]) + 1 <= sent[d]
    BY <1>1, <2>1, FlowReceive
  <2>3. DirInv(d)'
    BY <2>2 DEF DirInv, Flow
  <2>4. Knows(d) = "open"
    BY <1>2, Readers DEF Knows
  <2>5. CASE eof'[d] = TRUE /\ got'[d] = got[d] /\ Len(got[d]) = sent[d] /\ finSent[d][FirstLink(d)]
    <3>1. Knows(d)' = "eof"
      BY <2>5 DEF Knows
    <3> QED BY <1>2, <2>3, <2>4, <2>5, <3>1 DEF Finishes, NoBlocks, Fins
  <2>6. CASE got'[d] = Append(got[d], Len(got[d]) + 1) /\ eof' = eof /\ Len(got[d]) + 1 <= sent[d]
    <3>1. Knows(d)' = "open"
      BY <1>2, <2>4, <2>6 DEF Knows
    <3> QED BY <1>2, <2>3, <2>4, <2>6, <3>1 DEF Receives, Fins
  <2> QED BY <2>2, <2>5, <2>6
<1>5. ASSUME NEW e \in Dirs, e # d PROVE DirInv(e)' /\ Quiet(e)
  BY <1>1, <1>2, <1>5, DirIdle
<1> QED BY <1>3, <1>4, <1>5 DEF SessionInv, Move

LEMMA StepClientCloses ==
    ASSUME SessionInv, ClientCloses
    PROVE  SessionInv' /\ \A e \in Dirs : Move(e)
<1>1. TypeOK /\ \A e \in Dirs : DirInv(e)
  BY DEF SessionInv
<1>2. /\ ~gone /\ gone' = TRUE
      /\ ch' \in [Dirs -> [Links -> Seq(Block)]] /\ finSent' \in [Dirs -> [Links -> BOOLEAN]]
      /\ Marks("up", {FirstLink("up")})
      /\ finSent'["down"] = finSent["down"]
      /\ \A k \in Links : k # LastLink("down") => ch'["down"][k] = ch["down"][k]
      /\ UNCHANGED <<socks, wrapped, copier, buf, closed, sent, got, eof>>
  BY <1>1, ClientClosesEffect
<1>3. TypeOK'
  BY <1>1, <1>2, TypeParts, TypePartsNext
<1>4. "up" \in Dirs /\ "down" \in Dirs
  BY DEF Dirs
<1>5. \A d \in Dirs, l \in Links : ReaderAlive(d, l)' => ReaderAlive(d, l)
  BY <1>2 DEF ReaderAlive
<1>6. DirInv("up")' /\ (Closes("up") \/ Quiet("up"))
  <2> DEFINE d == "up"
  <2>1. PICK r \in Counts, w \in Counts : Flow(d, r, w)
    BY <1>1, <1>4 DEF DirInv, Flow
  <2>2. FirstLink(d) \in Links /\ \A q \in Proxies : Target(q, d) # FirstLink(d)
    BY <1>4, Geometry
  <2>3. Fins(d)'
    BY <1>2, <2>2 DEF Marks, Fins
  <2>4. w[FirstLink(d)] = sent[d] /\ finSent'[d][FirstLink(d)]
    BY <2>1, <2>3 DEF Flow, EndInv, Fins
  <2>5. \A q \in Proxies :
          /\ copier'[q][d] = copier[q][d] /\ buf'[q][d] = buf[q][d]
          /\ closed'[q] => copier'[q][d] = "done"
          /\ Target(q, d) = FirstLink(d) => copier'[q][d] = "done"
    BY <1>2, <2>1, <2>2 DEF Flow, CopierInv
  <2>6. sent'[d] = sent[d] /\ got'[d] = got[d]
    BY <1>2
  <2>7. Flow(d, r, w)'
    BY <1>1, <1>2, <1>4, <1>5, <2>1, <2>2, <2>4, <2>5, <2>6, FlowMark
  <2>8. DirInv(d)'
    BY <2>7 DEF DirInv, Flow
  <2>9. Knows(d)' = Knows(d)
    BY <1>2 DEF Knows
  <2> QED BY <2>3, <2>6, <2>8, <2>9 DEF Closes, Quiet, NoBlocks
<1>7. DirInv("down")' /\ (Breaks("down") \/ Quiet("down"))
  <2> DEFINE d == "down"
  <2>1. PICK r \in Counts, w \in Counts : Flow(d, r, w)
    BY <1>1, <1>4 DEF DirInv, Flow
  <2>2. ~ReaderAlive(d, LastLink(d))'
    BY <1>2, HopsNat DEF ReaderAlive, LastLink
  <2>3. \A k \in Links : ReaderAlive(d, k)' => ReaderAlive(d, k) /\ ch'[d][k] = ch[d][k]
    BY <1>2, <1>4, <1>5, <2>2
  <2>4. \A q \in Proxies : /\ copier'[q][d] = copier[q][d] /\ buf'[q][d] = buf[q][d]
                           /\ closed'[q] => copier[q][d] = "done"
    BY <1>2, <2>1 DEF Flow, CopierInv
  <2>5. sent'[d] = sent[d] /\ got'[d] = got[d] /\ finSent'[d] = finSent[d]
    BY <1>2
  <2>6. Flow(d, r, w)'
    BY <1>4, <2>1, <2>3, <2>4, <2>5, FlowIdle
  <2>7. DirInv(d)'
    BY <2>6 DEF DirInv, Flow
  <2>8. Fins(d)' <=> Fins(d)
    BY <2>5 DEF Fins
  <2>9. (Knows(d) = "open" /\ Knows(d)' = "error") \/ Knows(d)' = Knows(d)
    BY <1>2 DEF Knows
  <2> QED BY <2>5, <2>7, <2>8, <2>9 DEF Breaks, Quiet, NoBlocks
<1>8. \A e \in Dirs : e = "up" \/ e = "down"
  BY DEF Dirs
<1> QED BY <1>3, <1>6, <1>7, <1>8 DEF SessionInv, Move

-----------------------------------------------------------------------------
(* Theorems *)

LEMMA InitSession == Init => SessionInv
<1> SUFFICES ASSUME Init PROVE SessionInv
    OBVIOUS
<1>1. Fin \in Block /\ 0 \in Block /\ "copy" \in Stages /\ FALSE \in BOOLEAN
      /\ << >> \in Seq(Block) /\ << >> \in Seq(1..MaxData)
  BY MaxDataNat DEF Fin, Block, Stages
<1>2. TypeOK
  BY <1>1, TypeParts DEF Init
<1>3. ASSUME NEW d \in Dirs PROVE DirInv(d)
  <2> DEFINE z == [k \in Links |-> 0]
  <2>1. z \in Counts /\ \A k \in Links : z[k] = 0
    BY MaxDataNat DEF Counts
  <2>2. /\ FirstLink(d) \in Links /\ LastLink(d) \in Links
        /\ \A p \in Proxies : Source(p, d) \in Links /\ Target(p, d) \in Links
    BY Geometry
  <2>3. /\ sent[d] = 0 /\ got[d] = << >>
        /\ \A k \in Links : ch[d][k] = << >> /\ ~finSent[d][k]
        /\ \A p \in Proxies : copier[p][d] = "copy" /\ buf[p][d] = Fin /\ ~closed[p]
    BY DEF Init
  <2> HIDE DEF z
  <2>4. LinkInv(d, z, z)
    BY <2>1, <2>3 DEF LinkInv, LinkHolds
  <2>5. CopierInv(d, z, z)
    BY <2>1, <2>2, <2>3 DEF CopierInv
  <2>6. EndInv(d, z, z)
    BY <2>1, <2>2, <2>3 DEF EndInv
  <2> QED BY <2>1, <2>4, <2>5, <2>6 DEF DirInv
<1> QED BY <1>2, <1>3 DEF SessionInv

LEMMA SessionStep == SessionInv /\ [Next]_vars => SessionInv' /\ \A d \in Dirs : Move(d)
<1> SUFFICES ASSUME SessionInv, [Next]_vars PROVE SessionInv' /\ \A d \in Dirs : Move(d)
    OBVIOUS
<1>1. ASSUME NEW p \in Proxies, ProxyStep(p) PROVE SessionInv' /\ \A d \in Dirs : Move(d)
  BY <1>1, StepRead, StepWrite, StepCopyEnds, StepClosePipe DEF ProxyStep
<1>2. ASSUME NEW d \in Dirs, EndSends(d) \/ EndHalfCloses(d) \/ EndReceives(d)
      PROVE  SessionInv' /\ \A e \in Dirs : Move(e)
  BY <1>2, StepSend, StepHalfClose, StepReceive
<1>3. CASE ClientCloses
  BY <1>3, StepClientCloses
<1>4. CASE UNCHANGED vars
  <2>1. UNCHANGED <<socks, wrapped, ch, finSent, copier, buf, closed, sent, got, eof, gone>>
    BY <1>4 DEF vars
  <2>2. TypeOK'
    BY <2>1 DEF SessionInv, TypeOK
  <2>3. \A d \in Dirs : DirInv(d)' /\ Quiet(d)
    BY <2>1, DirIdle DEF SessionInv
  <2> QED BY <2>2, <2>3 DEF SessionInv, Move
<1> QED BY <1>1, <1>2, <1>3, <1>4 DEF Next

\* The invariant of a relayed session: in each direction every link with a
\* reader carries the next blocks in order, every goroutine has passed on all
\* it has read but the block it holds, and the end of the stream is marked only
\* behind the whole of it (pipeTraffic and closeWriteHalf, server.go).
THEOREM SessionInvariance == Spec => []SessionInv
<1>1. SessionInv /\ [Next]_vars => SessionInv'
  BY SessionStep
<1> QED BY <1>1, InitSession, PTL DEF Spec

\* Every variable of the session keeps its type.
THEOREM TypeCorrect == Spec => []TypeOK
<1>1. SessionInv => TypeOK
  BY DEF SessionInv
<1> QED BY <1>1, SessionInvariance, PTL

\* The first m blocks are a prefix of the first n.
Upto(m) == [i \in 1..m |-> i]

LEMMA UptoPrefix ==
    ASSUME NEW m \in Nat, NEW n \in Nat, m <= n
    PROVE  /\ UpStream!IsPrefix(Upto(m), Upto(n)) /\ DownStream!IsPrefix(Upto(m), Upto(n))
           /\ m # n => Upto(m) # Upto(n)
<1>1. Len(Upto(m)) = m /\ Len(Upto(n)) = n /\ Upto(m) \in Seq(Nat) /\ Upto(n) \in Seq(Nat)
  BY DEF Upto
<1>2. SubSeq(Upto(m), 1, m) = SubSeq(Upto(n), 1, m)
  BY <1>1 DEF Upto
<1>3. UpStream!IsPrefix(Upto(m), Upto(n)) /\ DownStream!IsPrefix(Upto(m), Upto(n))
  BY <1>1, <1>2 DEF UpStream!IsPrefix, DownStream!IsPrefix
<1>4. m # n => Upto(m) # Upto(n)
  BY <1>1
<1> QED BY <1>3, <1>4

\* What an end has received is the sequence of the first blocks.
LEMMA GotUpto ==
    ASSUME SessionInv, NEW d \in Dirs
    PROVE  /\ got[d] = Upto(Len(got[d])) /\ Len(got[d]) \in Nat /\ sent[d] \in Nat
           /\ Blocks(d) = Upto(sent[d])
<1>1. got[d] \in Seq(1..MaxData) /\ sent[d] \in Nat
  BY MaxDataNat DEF SessionInv, TypeOK
<1>2. \A i \in 1..Len(got[d]) : got[d][i] = i
  BY DEF SessionInv, DirInv, EndInv
<1> QED BY <1>1, <1>2 DEF Upto, Blocks

\* Every step of the session is a step of the upward stream, or none.
LEMMA UpStreamStep ==
    SessionInv /\ [Next]_vars => [UpStream!Next]_(UpStream!vars)
<1> SUFFICES ASSUME SessionInv, [Next]_vars PROVE [UpStream!Next]_(UpStream!vars)
    OBVIOUS
<1> DEFINE d == "up"
           m == Len(got[d])
           n == sent[d]
<1>1. d \in Dirs /\ finSent[d][0] \in BOOLEAN /\ finSent'[d][0] \in BOOLEAN
  <2>1. d \in Dirs /\ 0 \in Links
    BY HopsNat DEF Dirs, Links
  <2>2. SessionInv'
    BY SessionStep
  <2>3. finSent \in [Dirs -> [Links -> BOOLEAN]] /\ finSent' \in [Dirs -> [Links -> BOOLEAN]]
    BY <2>2 DEF SessionInv, TypeOK
  <2> QED BY <2>1, <2>3
<1>2. Move(d)
  BY <1>1, SessionStep
<1>3. FirstLink(d) = 0 /\ FirstLink(d)' = 0
  BY DEF FirstLink
<1>4. got[d] = Upto(m) /\ m \in Nat /\ n \in Nat /\ Blocks(d) = Upto(n) /\ Blocks(d)' = Upto(sent'[d])
  BY <1>1, GotUpto DEF Blocks, Upto
<1> HIDE DEF m, n
<1>5. CASE Quiet(d)
  <2>1. UNCHANGED <<Blocks(d), got[d], Knows(d)>>
    BY <1>4, <1>5 DEF Quiet, NoBlocks, n
  <2>2. UNCHANGED finSent[d][0]
    BY <1>1, <1>3, <1>5 DEF Quiet, Fins
  <2> QED BY <2>1, <2>2 DEF UpStream!vars
<1>6. CASE Sends(d)
  <2>1. sent'[d] = n + 1 /\ UNCHANGED <<got[d], Knows(d)>>
    BY <1>6 DEF Sends, n
  <2>2. ~finSent[d][0] /\ UNCHANGED finSent[d][0]
    BY <1>1, <1>3, <1>6 DEF Sends, Fins
  <2>3. UpStream!IsStrictPrefix(Blocks(d), Blocks(d)')
    BY <1>4, <2>1, UptoPrefix DEF UpStream!IsStrictPrefix
  <2> QED BY <2>1, <2>2, <2>3 DEF UpStream!Next, UpStream!Write
<1>7. CASE Closes(d)
  <2>1. UNCHANGED <<Blocks(d), got[d], Knows(d)>>
    BY <1>4, <1>7 DEF Closes, NoBlocks, n
  <2>2. ~finSent[d][0] /\ finSent'[d][0] = TRUE
    BY <1>1, <1>3, <1>7 DEF Closes, Fins
  <2> QED BY <2>1, <2>2 DEF UpStream!Next, UpStream!CloseWrite
<1>8. CASE Receives(d)
  <2>1. Knows(d) = "open" /\ UNCHANGED <<Blocks(d), Knows(d)>>
    BY <1>4, <1>8 DEF Receives, n
  <2>2. UNCHANGED finSent[d][0]
    BY <1>1, <1>3, <1>8 DEF Receives, Fins
  <2>3. got'[d] = Append(Upto(m), m + 1) /\ m + 1 <= n
    BY <1>4, <1>8 DEF Receives, m, n
  <2>4. Append(Upto(m), m + 1) = Upto(m + 1)
    BY <1>4 DEF Upto
  <2>5. UpStream!IsStrictPrefix(got[d], got'[d]) /\ UpStream!IsPrefix(got'[d], Blocks(d))
    <3>1. got'[d] = Upto(m + 1) /\ m + 1 \in Nat
      BY <1>4, <2>3, <2>4
    <3>2. UpStream!IsPrefix(Upto(m), Upto(m + 1)) /\ Upto(m) # Upto(m + 1)
      BY <1>4, UptoPrefix
    <3>3. UpStream!IsPrefix(Upto(m + 1), Upto(n))
      BY <1>4, <2>3, <3>1, UptoPrefix
    <3> QED BY <1>4, <3>1, <3>2, <3>3 DEF UpStream!IsStrictPrefix
  <2> QED BY <2>1, <2>2, <2>5 DEF UpStream!Next, UpStream!Deliver
<1>9. CASE Finishes(d)
  <2>1. Knows(d) = "open" /\ Knows(d)' = "eof" /\ UNCHANGED <<Blocks(d), got[d]>> /\ m = n
    BY <1>4, <1>9 DEF Finishes, NoBlocks, m, n
  <2>2. finSent[d][0] /\ UNCHANGED finSent[d][0]
    BY <1>1, <1>3, <1>9 DEF Finishes, Fins
  <2>3. got[d] = Blocks(d)
    BY <1>4, <2>1
  <2> QED BY <2>1, <2>2, <2>3 DEF UpStream!Next, UpStream!EOF
<1>10. CASE Breaks(d)
  <2>1. Knows(d) = "open" /\ Knows(d)' = "error" /\ UNCHANGED <<Blocks(d), got[d]>>
    BY <1>4, <1>10 DEF Breaks, NoBlocks, n
  <2>2. UNCHANGED finSent[d][0]
    BY <1>1, <1>3, <1>10 DEF Breaks, Fins
  <2> QED BY <2>1, <2>2 DEF UpStream!Next, UpStream!Break
<1> QED BY <1>2, <1>5, <1>6, <1>7, <1>8, <1>9, <1>10 DEF Move

\* Every step of the session is a step of the downward stream, or none.
LEMMA DownStreamStep ==
    SessionInv /\ [Next]_vars => [DownStream!Next]_(DownStream!vars)
<1> SUFFICES ASSUME SessionInv, [Next]_vars PROVE [DownStream!Next]_(DownStream!vars)
    OBVIOUS
<1> DEFINE d == "down"
           m == Len(got[d])
           n == sent[d]
<1>1. d \in Dirs /\ finSent[d][Hops] \in BOOLEAN /\ finSent'[d][Hops] \in BOOLEAN
  <2>1. d \in Dirs /\ Hops \in Links
    BY HopsNat DEF Dirs, Links
  <2>2. SessionInv'
    BY SessionStep
  <2>3. finSent \in [Dirs -> [Links -> BOOLEAN]] /\ finSent' \in [Dirs -> [Links -> BOOLEAN]]
    BY <2>2 DEF SessionInv, TypeOK
  <2> QED BY <2>1, <2>3
<1>2. Move(d)
  BY <1>1, SessionStep
<1>3. FirstLink(d) = Hops /\ FirstLink(d)' = Hops
  BY DEF FirstLink
<1>4. got[d] = Upto(m) /\ m \in Nat /\ n \in Nat /\ Blocks(d) = Upto(n) /\ Blocks(d)' = Upto(sent'[d])
  BY <1>1, GotUpto DEF Blocks, Upto
<1> HIDE DEF m, n
<1>5. CASE Quiet(d)
  <2>1. UNCHANGED <<Blocks(d), got[d], Knows(d)>>
    BY <1>4, <1>5 DEF Quiet, NoBlocks, n
  <2>2. UNCHANGED finSent[d][Hops]
    BY <1>1, <1>3, <1>5 DEF Quiet, Fins
  <2> QED BY <2>1, <2>2 DEF DownStream!vars
<1>6. CASE Sends(d)
  <2>1. sent'[d] = n + 1 /\ UNCHANGED <<got[d], Knows(d)>>
    BY <1>6 DEF Sends, n
  <2>2. ~finSent[d][Hops] /\ UNCHANGED finSent[d][Hops]
    BY <1>1, <1>3, <1>6 DEF Sends, Fins
  <2>3. DownStream!IsStrictPrefix(Blocks(d), Blocks(d)')
    BY <1>4, <2>1, UptoPrefix DEF DownStream!IsStrictPrefix
  <2> QED BY <2>1, <2>2, <2>3 DEF DownStream!Next, DownStream!Write
<1>7. CASE Closes(d)
  <2>1. UNCHANGED <<Blocks(d), got[d], Knows(d)>>
    BY <1>4, <1>7 DEF Closes, NoBlocks, n
  <2>2. ~finSent[d][Hops] /\ finSent'[d][Hops] = TRUE
    BY <1>1, <1>3, <1>7 DEF Closes, Fins
  <2> QED BY <2>1, <2>2 DEF DownStream!Next, DownStream!CloseWrite
<1>8. CASE Receives(d)
  <2>1. Knows(d) = "open" /\ UNCHANGED <<Blocks(d), Knows(d)>>
    BY <1>4, <1>8 DEF Receives, n
  <2>2. UNCHANGED finSent[d][Hops]
    BY <1>1, <1>3, <1>8 DEF Receives, Fins
  <2>3. got'[d] = Append(Upto(m), m + 1) /\ m + 1 <= n
    BY <1>4, <1>8 DEF Receives, m, n
  <2>4. Append(Upto(m), m + 1) = Upto(m + 1)
    BY <1>4 DEF Upto
  <2>5. DownStream!IsStrictPrefix(got[d], got'[d]) /\ DownStream!IsPrefix(got'[d], Blocks(d))
    <3>1. got'[d] = Upto(m + 1) /\ m + 1 \in Nat
      BY <1>4, <2>3, <2>4
    <3>2. DownStream!IsPrefix(Upto(m), Upto(m + 1)) /\ Upto(m) # Upto(m + 1)
      BY <1>4, UptoPrefix
    <3>3. DownStream!IsPrefix(Upto(m + 1), Upto(n))
      BY <1>4, <2>3, <3>1, UptoPrefix
    <3> QED BY <1>4, <3>1, <3>2, <3>3 DEF DownStream!IsStrictPrefix
  <2> QED BY <2>1, <2>2, <2>5 DEF DownStream!Next, DownStream!Deliver
<1>9. CASE Finishes(d)
  <2>1. Knows(d) = "open" /\ Knows(d)' = "eof" /\ UNCHANGED <<Blocks(d), got[d]>> /\ m = n
    BY <1>4, <1>9 DEF Finishes, NoBlocks, m, n
  <2>2. finSent[d][Hops] /\ UNCHANGED finSent[d][Hops]
    BY <1>1, <1>3, <1>9 DEF Finishes, Fins
  <2>3. got[d] = Blocks(d)
    BY <1>4, <2>1
  <2> QED BY <2>1, <2>2, <2>3 DEF DownStream!Next, DownStream!EOF
<1>10. CASE Breaks(d)
  <2>1. Knows(d) = "open" /\ Knows(d)' = "error" /\ UNCHANGED <<Blocks(d), got[d]>>
    BY <1>4, <1>10 DEF Breaks, NoBlocks, n
  <2>2. UNCHANGED finSent[d][Hops]
    BY <1>1, <1>3, <1>10 DEF Breaks, Fins
  <2> QED BY <2>1, <2>2 DEF DownStream!Next, DownStream!Break
<1> QED BY <1>2, <1>5, <1>6, <1>7, <1>8, <1>9, <1>10 DEF Move

\* A relayed session is a byte stream in each direction, through any number of
\* proxies, with half-close, a SOCKS5 upstream, proxy_protocol and a client that
\* disappears: no block is lost, repeated or reordered before the end, and the
\* end is told only after everything (pipeTraffic and closeWriteHalf).
THEOREM SessionRefinesStreams == Spec => SessionIsStreams
<1>1. Init => UpStream!Init /\ DownStream!Init
  <2> SUFFICES ASSUME Init PROVE UpStream!Init /\ DownStream!Init
      OBVIOUS
  <2>1. "up" \in Dirs /\ "down" \in Dirs /\ 0 \in Links /\ Hops \in Links
    BY HopsNat DEF Dirs, Links
  <2>2. Blocks("up") = << >> /\ Blocks("down") = << >>
    BY <2>1 DEF Init, Blocks
  <2>3. Knows("up") = "open" /\ Knows("down") = "open"
    BY <2>1 DEF Init, Knows
  <2>4. /\ finSent["up"][0] = FALSE /\ finSent["down"][Hops] = FALSE
        /\ got["up"] = << >> /\ got["down"] = << >>
    BY <2>1 DEF Init
  <2> QED BY <2>2, <2>3, <2>4 DEF UpStream!Init, DownStream!Init
<1> QED BY <1>1, SessionInvariance, UpStreamStep, DownStreamStep, PTL
    DEF Spec, SessionIsStreams, UpStream!Spec, DownStream!Spec
=============================================================================
