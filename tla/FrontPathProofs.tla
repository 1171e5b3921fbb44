-------------------------- MODULE FrontPathProofs --------------------------
(***************************************************************************)
(* Proofs about the path of a client's bytes: the relay tunnel, for any    *)
(* number of frames; the TLS records, for every configuration of           *)
(* tls.record_min_chunk and tls.record_max_chunk, every limit, and every   *)
(* length of the argument of Write; and the two joined by FrontPath.       *)
(*                                                                         *)
(* The tunnel: the back's read position and the number of payloads handed  *)
(* on move together after the handshake; a back that lost bytes of the     *)
(* handshake stands before the first frame with nothing handed on, and its *)
(* next read fails.  The records: every record on the wire has its place   *)
(* in the stream, the reader stands where the first one begins, the writer *)
(* where the last one ends.                                                *)
(***************************************************************************)
EXTENDS FrontPath, SequenceTheorems, TLAPS

-----------------------------------------------------------------------------
(* The tunnel *)

\* The position of the back and the units of the stream are numbers.
LEMMA Arithmetic ==
    ASSUME TypeOK
    PROVE  /\ Preface \in {1, 3} /\ sent \in Nat /\ arrived \in Nat /\ rd \in Nat
           /\ rd <= arrived /\ arrived <= Preface + sent /\ sent <= MaxFrames
           /\ Len(got) \in Nat
BY MaxFramesNat, VersionsAssumption DEF TypeOK, Preface, Written

\* Before anything arrives, nothing has been handed on.
LEMMA TunnelInit == Init => TunnelInv
<1> SUFFICES ASSUME Init PROVE TunnelInv
    OBVIOUS
<1>1. 0 \in 0..MaxFrames /\ 0 \in 0..Preface /\ 0 \in 0..0
  BY MaxFramesNat DEF Preface
<1>2. Written = Preface
  BY DEF Init, Written, Preface
<1>3. arrived \in 0..Written /\ rd \in 0..arrived /\ sent \in 0..MaxFrames
  BY <1>1, <1>2 DEF Init
<1>4. got \in Seq(1..MaxFrames)
  BY DEF Init
<1>5. TypeOK
  BY <1>3, <1>4, Zenon DEF Init, TypeOK
<1> QED BY <1>5 DEF Init, TunnelInv, TypeOK

\* frameConn.Read on the next unit that has arrived: the payloads handed on
\* stay those of the first frames.
LEMMA FrameStep ==
    ASSUME TunnelInv, BackFrame
    PROVE  TunnelInv'
<1>1. TypeOK
  BY DEF TunnelInv
<1>2. /\ Preface \in {1, 3} /\ sent \in Nat /\ arrived \in Nat /\ rd \in Nat
      /\ rd <= arrived /\ arrived <= Preface + sent /\ sent <= MaxFrames
      /\ Len(got) \in Nat /\ got \in Seq(1..MaxFrames) /\ MaxFrames \in Nat
  BY <1>1, Arithmetic, MaxFramesNat DEF TypeOK
<1>3. /\ back = "frames" /\ rd < arrived /\ rd' = rd + 1
      /\ UNCHANGED <<version, samePSK, sent, fin, arrived, torn, meta>>
      /\ Preface' = Preface
  BY DEF BackFrame, front, Preface
<1>4. CASE rd >= Preface /\ ~torn
  <2>1. got' = Append(got, rd + 1 - Preface) /\ back' = "frames"
    BY <1>3, <1>4 DEF BackFrame
  <2>2. Len(got) = rd - Preface /\ rd + 1 - Preface \in 1..MaxFrames
    BY <1>2, <1>3, <1>4 DEF TunnelInv
  <2>3. /\ got' \in Seq(1..MaxFrames) /\ Len(got') = Len(got) + 1
        /\ \A i \in 1..Len(got) : got'[i] = got[i]
        /\ got'[Len(got) + 1] = rd + 1 - Preface
    BY <1>2, <2>1, <2>2
  <2>4. ASSUME NEW i \in 1..Len(got') PROVE got'[i] = i
    <3>1. CASE i = Len(got) + 1
      BY <1>2, <2>2, <2>3, <3>1
    <3>2. CASE i # Len(got) + 1
      <4>1. i \in 1..Len(got)
        BY <1>2, <2>3, <3>2
      <4>2. got[i] = i
        BY <4>1 DEF TunnelInv
      <4> QED BY <2>3, <4>1, <4>2
    <3> QED BY <3>1, <3>2
  <2>5. TypeOK'
    BY <1>1, <1>2, <1>3, <2>1, <2>3 DEF TypeOK, Written
  <2> QED BY <1>2, <1>3, <1>4, <2>1, <2>2, <2>3, <2>4, <2>5 DEF TunnelInv
<1>5. CASE ~(rd >= Preface /\ ~torn)
  <2>1. got' = got /\ back' = "broken"
    BY <1>3, <1>5 DEF BackFrame
  <2>2. TypeOK'
    BY <1>1, <1>2, <1>3, <2>1 DEF TypeOK, Written
  <2> QED BY <1>2, <1>3, <2>1, <2>2 DEF TunnelInv
<1> QED BY <1>4, <1>5

\* Every other step of the front, of TCP and of acceptBack keeps the invariant.
LEMMA TunnelStep == TunnelInv /\ [Next]_vars => TunnelInv'
<1> SUFFICES ASSUME TunnelInv, [Next]_vars PROVE TunnelInv'
    OBVIOUS
<1>0. TypeOK /\ MaxFrames \in Nat
  BY MaxFramesNat DEF TunnelInv
<1>a. /\ Preface \in {1, 3} /\ sent \in Nat /\ arrived \in Nat /\ rd \in Nat
      /\ rd <= arrived /\ arrived <= Preface + sent /\ sent <= MaxFrames
      /\ Len(got) \in Nat
  BY <1>0, Arithmetic
<1>1. CASE FrontWrite
  <2>1. Preface' = Preface /\ sent' = sent + 1 /\ sent' <= MaxFrames /\ back # "eof"
    BY <1>0, <1>a, <1>1 DEF FrontWrite, Preface, TunnelInv
  <2>2. TypeOK'
    BY <1>0, <1>a, <1>1, <2>1 DEF FrontWrite, TypeOK, Written
  <2> QED BY <1>a, <1>1, <2>1, <2>2 DEF FrontWrite, TunnelInv
<1>2. CASE FrontCloseWrite
  <2>1. Preface' = Preface /\ TypeOK'
    BY <1>0, <1>2 DEF FrontCloseWrite, Preface, TypeOK, Written
  <2> QED BY <1>a, <1>2, <2>1 DEF FrontCloseWrite, TunnelInv
<1>3. CASE Arrive
  <2>1. Preface' = Preface /\ TypeOK'
    BY <1>0, <1>a, <1>3 DEF Arrive, front, Preface, TypeOK, Written
  <2> QED BY <1>a, <1>3, <2>1 DEF Arrive, front, TunnelInv
<1>4. CASE BackBase
  <2>1. Preface' = Preface /\ TypeOK'
    BY <1>0, <1>a, <1>4 DEF BackBase, front, Preface, TypeOK, Written
  <2> QED BY <1>a, <1>4, <2>1 DEF BackBase, front, TunnelInv
<1>5. CASE BackExtra
  <2>1. Preface' = Preface /\ UNCHANGED <<version, samePSK, sent, fin, arrived, got>>
    BY <1>5 DEF BackExtra, front, Preface
  <2>2. got = << >> /\ ~torn /\ rd = 1 /\ back' = "frames" /\ back = "extra"
    BY <1>5 DEF BackExtra, TunnelInv
  <2>3. CASE version = "current"
    <3>1. rd' = 3 /\ torn' = torn /\ arrived >= 3 /\ Preface = 3 /\ meta' \in {"client", "garbage"}
      BY <1>5, <2>3 DEF BackExtra, ExtraReady, Preface
    <3>2. TypeOK'
      BY <1>0, <1>a, <2>1, <2>2, <3>1 DEF TypeOK, Written
    <3> QED BY <1>a, <2>1, <2>2, <3>1, <3>2 DEF TunnelInv
  <2>4. CASE version # "current"
    <3>1. rd' = rd /\ torn' = TRUE /\ arrived >= 2 /\ Preface = 1 /\ meta' = "garbage"
      BY <1>5, <2>4 DEF BackExtra, ExtraReady, Preface
    <3>2. TypeOK'
      BY <1>0, <1>a, <2>1, <2>2, <3>1 DEF TypeOK, Written
    <3> QED BY <1>a, <2>1, <2>2, <3>1, <3>2 DEF TunnelInv
  <2> QED BY <2>3, <2>4
<1>6. CASE BackExtraMissing
  <2>1. /\ Preface' = Preface /\ UNCHANGED <<version, samePSK, sent, fin, arrived, torn, meta, got>>
        /\ rd' = arrived /\ back' = "frames" /\ back = "extra"
    BY <1>6 DEF BackExtraMissing, front, Preface
  <2>2. got = << >> /\ ~torn /\ rd = 1
    BY <2>1 DEF TunnelInv
  <2>3. arrived < Preface \/ (arrived = 1 /\ Preface = 1)
    <3>1. CASE version = "current"
      <4>1. Preface = 3 /\ ~(arrived >= 3)
        BY <1>6, <3>1, Zenon DEF BackExtraMissing, ExtraReady, Preface
      <4> QED BY <1>a, <4>1
    <3>2. CASE version # "current"
      BY <1>6, <1>a, <2>2, <3>2 DEF BackExtraMissing, ExtraReady, Preface
    <3> QED BY <3>1, <3>2
  <2>4. TypeOK'
    BY <1>0, <1>a, <2>1 DEF TypeOK, Written
  <2> QED BY <1>a, <2>1, <2>2, <2>3, <2>4 DEF TunnelInv
<1>7. CASE BackFrame
  BY <1>7, FrameStep
<1>8. CASE BackEOF
  <2>1. Preface' = Preface /\ TypeOK' /\ rd >= Preface + sent
    BY <1>0, <1>8 DEF BackEOF, AllRead, front, Preface, TypeOK, Written
  <2> QED BY <1>a, <1>8, <2>1 DEF BackEOF, AllRead, front, TunnelInv
<1>9. CASE UNCHANGED vars
  <2>1. Preface' = Preface /\ TypeOK'
    BY <1>0, <1>9 DEF vars, front, Preface, TypeOK, Written
  <2> QED BY <1>9, <2>1 DEF vars, front, TunnelInv
<1> QED BY <1>1, <1>2, <1>3, <1>4, <1>5, <1>6, <1>7, <1>8, <1>9 DEF Next

\* The read position and the payloads handed on agree in every reachable state.
THEOREM TunnelInvariance == Spec => []TunnelInv
BY TunnelInit, TunnelStep, PTL DEF Spec

\* Every variable of the tunnel keeps its type.
THEOREM TunnelTypeCorrect == Spec => []TypeOK
<1>1. TunnelInv => TypeOK
  BY DEF TunnelInv
<1> QED BY <1>1, TunnelInvariance, PTL

\* frameConn.Read hands on what frameConn.Write wrote, in order and without a
\* gap, however long the tunnel lives.
THEOREM DeliveredPrefixInvariance == Spec => []DeliveredPrefix
<1>1. TunnelInv => DeliveredPrefix
  BY DEF TunnelInv, DeliveredPrefix
<1> QED BY <1>1, TunnelInvariance, PTL

\* A clean end of stream at the back means that nothing was lost.
THEOREM CleanEndInvariance == Spec => []CleanEndIsComplete
<1>1. TunnelInv => CleanEndIsComplete
  BY DEF TunnelInv, CleanEndIsComplete
<1> QED BY <1>1, TunnelInvariance, PTL

-----------------------------------------------------------------------------
(* The tunnel implements ByteStream. *)

LEMMA UptoType ==
    ASSUME NEW n \in Nat
    PROVE  Upto(n) \in Seq(Nat) /\ Len(Upto(n)) = n
BY DEF Upto

LEMMA UptoPrefix ==
    ASSUME NEW m \in Nat, NEW n \in Nat, m <= n
    PROVE  TunnelStream!IsPrefix(Upto(m), Upto(n))
<1>1. Len(Upto(m)) = m /\ Len(Upto(n)) = n /\ Upto(m) \in Seq(Nat) /\ Upto(n) \in Seq(Nat)
  BY UptoType
<1>2. SubSeq(Upto(m), 1, m) = SubSeq(Upto(n), 1, m)
  BY <1>1 DEF Upto
<1> QED BY <1>1, <1>2 DEF TunnelStream!IsPrefix

\* What the back's handler was given is the sequence of the first frames.
LEMMA GotUpto == ASSUME TunnelInv PROVE got = Upto(Len(got)) /\ Len(got) \in Nat
<1>1. got \in Seq(1..MaxFrames) /\ \A i \in 1..Len(got) : got[i] = i
  BY DEF TunnelInv, TypeOK
<1> QED BY <1>1 DEF Upto

\* Every step of the tunnel is one of the stream, or none: writing and closing
\* at the front, delivering, ending and breaking at the back.
LEMMA TunnelStreamStep ==
    TunnelInv /\ TunnelInv' /\ [Next]_vars => [TunnelStream!Next]_(TunnelStream!vars)
<1> SUFFICES ASSUME TunnelInv, TunnelInv', [Next]_vars
             PROVE  [TunnelStream!Next]_(TunnelStream!vars)
    OBVIOUS
<1>0. sent \in Nat /\ sent' \in Nat
  BY MaxFramesNat DEF TunnelInv, TypeOK
<1>1. CASE FrontWrite
  <2>1. ~fin /\ sent' = sent + 1 /\ UNCHANGED <<fin, got, back>>
    BY <1>1 DEF FrontWrite
  <2>2. TunnelStream!IsStrictPrefix(Upto(sent), Upto(sent'))
    <3>1. Upto(sent) # Upto(sent')
      BY <1>0, <2>1, UptoType
    <3> QED BY <1>0, <2>1, <3>1, UptoPrefix DEF TunnelStream!IsStrictPrefix
  <2>3. UNCHANGED BackEnd
    BY <2>1 DEF BackEnd
  <2> QED BY <2>1, <2>2, <2>3 DEF TunnelStream!Next, TunnelStream!Write
<1>2. CASE FrontCloseWrite
  <2>1. ~fin /\ fin' = TRUE /\ UNCHANGED <<sent, got, back>>
    BY <1>2 DEF FrontCloseWrite
  <2>2. UNCHANGED <<Upto(sent), got, BackEnd>>
    BY <2>1 DEF BackEnd, Upto
  <2> QED BY <2>1, <2>2 DEF TunnelStream!Next, TunnelStream!CloseWrite
<1>3. ASSUME UNCHANGED <<sent, fin, got>>, BackEnd' = BackEnd
      PROVE  UNCHANGED TunnelStream!vars
  BY <1>3 DEF TunnelStream!vars, Upto
<1>4. ASSUME UNCHANGED <<sent, fin, got>>, BackEnd = "open", BackEnd' = "error"
      PROVE  TunnelStream!Break
  BY <1>4 DEF TunnelStream!Break, Upto
<1>5. CASE Arrive \/ BackExtra \/ BackExtraMissing
  <2>1. UNCHANGED <<sent, fin, got>> /\ BackEnd' = BackEnd
    BY <1>5 DEF Arrive, BackExtra, BackExtraMissing, front, BackEnd
  <2> QED BY <1>3, <2>1
<1>6. CASE BackBase
  <2>1. UNCHANGED <<sent, fin, got>> /\ BackEnd = "open" /\ BackEnd' \in {"open", "error"}
    BY <1>6 DEF BackBase, front, BackEnd
  <2> QED BY <1>3, <1>4, <2>1 DEF TunnelStream!Next
<1>7. CASE BackFrame
  <2>1. UNCHANGED <<sent, fin>> /\ BackEnd = "open"
    BY <1>7 DEF BackFrame, front, BackEnd
  <2>2. CASE rd >= Preface /\ ~torn
    <3>1. BackEnd' = "open" /\ got' = Append(got, rd + 1 - Preface)
      BY <1>7, <2>2 DEF BackFrame, BackEnd
    <3>2. /\ got = Upto(Len(got)) /\ Len(got) \in Nat
          /\ got' = Upto(Len(got')) /\ Len(got') \in Nat /\ Len(got') <= sent'
      <4>1. Len(got') <= sent'
        BY DEF TunnelInv
      <4>2. (got = Upto(Len(got)) /\ Len(got) \in Nat)'
        BY GotUpto, PTL
      <4> QED BY GotUpto, <4>1, <4>2
    <3>3. Len(got') = Len(got) + 1
      BY <3>1 DEF TunnelInv, TypeOK
    <3>4. TunnelStream!IsStrictPrefix(got, got')
      BY <3>2, <3>3, UptoPrefix DEF TunnelStream!IsStrictPrefix
    <3>5. TunnelStream!IsPrefix(got', Upto(sent))
      BY <1>0, <2>1, <3>2, UptoPrefix
    <3>6. UNCHANGED Upto(sent)
      BY <2>1 DEF Upto
    <3> QED BY <2>1, <3>1, <3>4, <3>5, <3>6 DEF TunnelStream!Next, TunnelStream!Deliver
  <2>3. CASE ~(rd >= Preface /\ ~torn)
    <3>1. BackEnd' = "error" /\ got' = got
      BY <1>7, <2>3 DEF BackFrame, BackEnd
    <3> QED BY <1>4, <2>1, <3>1 DEF TunnelStream!Next
  <2> QED BY <2>2, <2>3
<1>8. CASE BackEOF
  <2>1. UNCHANGED <<sent, fin, got>> /\ fin /\ BackEnd = "open" /\ BackEnd' = "eof" /\ back' = "eof"
    BY <1>8 DEF BackEOF, AllRead, front, BackEnd
  <2>2. Len(got) = sent
    BY <2>1 DEF TunnelInv
  <2>3. got = Upto(sent)
    BY <2>2, GotUpto
  <2>4. UNCHANGED Upto(sent)
    BY <2>1 DEF Upto
  <2> QED BY <2>1, <2>3, <2>4 DEF TunnelStream!Next, TunnelStream!EOF
<1>9. CASE UNCHANGED vars
  <2>1. UNCHANGED <<sent, fin, got>> /\ BackEnd' = BackEnd
    BY <1>9 DEF vars, front, BackEnd
  <2> QED BY <1>3, <2>1
<1> QED BY <1>1, <1>2, <1>5, <1>6, <1>7, <1>8, <1>9 DEF Next

\* The PHRP tunnel, with its two kinds of front and a handshake that arrives
\* late or in pieces, implements the abstract byte stream.
THEOREM TunnelRefinesStream == Spec => TunnelIsStream
<1>1. Init => TunnelStream!Init
  <2> SUFFICES ASSUME Init PROVE TunnelStream!Init
      OBVIOUS
  <2>1. Upto(sent) = << >>
    BY DEF Init, Upto
  <2> QED BY <2>1 DEF Init, TunnelStream!Init, BackEnd
<1> QED BY <1>1, TunnelInvariance, TunnelStreamStep, PTL DEF Spec, TunnelIsStream, TunnelStream!Spec

-----------------------------------------------------------------------------
(* The sizes of records *)

\* A policy Normalize may return.
Normal == [min : 1..MaxRecordPayload, max : 1..MaxRecordPayload, drs : BOOLEAN, split : BOOLEAN]

LEMMA AtMostFacts ==
    ASSUME NEW m \in Int, NEW n \in Int
    PROVE  /\ AtMost(m, n) \in Int /\ AtMost(m, n) <= m /\ AtMost(m, n) <= n
           /\ AtMost(m, n) \in {m, n}
BY DEF AtMost

\* Normalize makes any configuration usable: both limits are at least one byte
\* and at most a record, and the lower one is not above the upper one.
THEOREM NormalizeFits ==
    ASSUME NEW p \in Policy
    PROVE  /\ Normalize(p) \in Normal
           /\ Normalize(p).min <= Normalize(p).max
<1> DEFINE min == IF p.min <= 0 THEN DefaultMinChunk ELSE p.min
           max == AtMost(IF p.max <= 0 THEN DefaultMaxChunk ELSE p.max, MaxRecordPayload)
<1>1. min \in Nat \ {0}
  BY RecordSizesAssumption DEF Policy
<1>2. max \in 1..MaxRecordPayload
  BY RecordSizesAssumption, AtMostFacts DEF Policy, AtMost
<1>3. AtMost(min, max) \in 1..MaxRecordPayload /\ AtMost(min, max) <= max
  BY <1>1, <1>2, RecordSizesAssumption DEF AtMost
<1>4. Normalize(p) = [p EXCEPT !.min = AtMost(min, max), !.max = max]
  BY DEF Normalize
<1> HIDE DEF min, max
<1> QED BY <1>2, <1>3, <1>4 DEF Policy, Normal

\* Write normalizes the policy again on every call; that changes nothing.
THEOREM NormalizeIdempotent ==
    ASSUME NEW p \in Policy PROVE Normalize(Normalize(p)) = Normalize(p)
<1> DEFINE q == Normalize(p)
<1>1. q \in Normal /\ q.min <= q.max
  BY NormalizeFits
<1>2. /\ q.min \in 1..MaxRecordPayload /\ q.max \in 1..MaxRecordPayload
      /\ q = [min |-> q.min, max |-> q.max, drs |-> q.drs, split |-> q.split]
  BY <1>1 DEF Normal
<1> HIDE DEF q
<1>3. Normalize(q) = [q EXCEPT !.min = q.min, !.max = q.max]
  <2>1. (IF q.min <= 0 THEN DefaultMinChunk ELSE q.min) = q.min
    BY <1>2, RecordSizesAssumption
  <2>2. AtMost(IF q.max <= 0 THEN DefaultMaxChunk ELSE q.max, MaxRecordPayload) = q.max
    BY <1>2, RecordSizesAssumption DEF AtMost
  <2>3. AtMost(q.min, q.max) = q.min
    BY <1>1, <1>2, RecordSizesAssumption DEF AtMost
  <2> QED BY <2>1, <2>2, <2>3 DEF Normalize
<1> QED BY <1>2, <1>3 DEF q

\* outboundChunkSize never returns an empty chunk, one longer than what is
\* left, or one longer than a record: the loop of Write makes progress, its
\* slice is in range, and writeRecordLocked's error cannot happen.
THEOREM ChunkFits ==
    ASSUME NEW p \in Normal, p.min <= p.max,
           NEW records_ \in Nat, NEW bytes \in Int, NEW remaining \in Nat \ {0}
    PROVE  /\ outboundChunkSize(p, records_, bytes, remaining) # {}
           /\ outboundChunkSize(p, records_, bytes, remaining)
                \subseteq 1..AtMost(remaining, MaxRecordPayload)
<1>0. /\ p.min \in 1..MaxRecordPayload /\ p.max \in 1..MaxRecordPayload
      /\ MaxRecordPayload \in Nat
  BY RecordSizesAssumption DEF Normal
<1>1. CASE remaining <= p.min
  <2>1. outboundChunkSize(p, records_, bytes, remaining) = {remaining}
    BY <1>1 DEF outboundChunkSize
  <2>2. remaining \in 1..AtMost(remaining, MaxRecordPayload)
    BY <1>0, <1>1 DEF AtMost
  <2> QED BY <2>1, <2>2
<1>2. CASE ~(remaining <= p.min)
  <2> DEFINE limit == IF Ramp(p, records_, bytes) THEN AtMost(p.max, DrsInitialChunk) ELSE p.max
             sizes == { AtMost(AtMost(size, remaining), MaxRecordPayload) : size \in p.min..p.max }
  <2>1. limit \in 1..MaxRecordPayload
    BY <1>0, RecordSizesAssumption DEF AtMost
  <2> HIDE DEF limit
  <2>2. outboundChunkSize(p, records_, bytes, remaining) = { AtMost(size, limit) : size \in sizes }
    BY <1>2 DEF outboundChunkSize, chunkSizeWithMax, chunkSize, limit
  <2>3. sizes \subseteq 1..AtMost(remaining, MaxRecordPayload)
    BY <1>0, <1>2 DEF AtMost
  <2>4. AtMost(AtMost(p.min, remaining), MaxRecordPayload) \in sizes
    BY <1>0
  <2> HIDE DEF sizes
  <2>5. ASSUME NEW size \in sizes PROVE AtMost(size, limit) \in 1..AtMost(remaining, MaxRecordPayload)
    BY <1>0, <2>1, <2>3 DEF AtMost
  <2> QED BY <2>2, <2>4, <2>5
<1> QED BY <1>1, <1>2

\* During the ramp of dynamic record sizing a chunk is at most DrsInitialChunk,
\* unless it ends the argument of Write.
THEOREM RampBounds ==
    ASSUME NEW p \in Normal, p.min <= p.max, NEW records_ \in Nat, NEW bytes \in Int,
           NEW remaining \in Nat \ {0}, Ramp(p, records_, bytes),
           NEW n \in outboundChunkSize(p, records_, bytes, remaining)
    PROVE  n <= DrsInitialChunk \/ n = remaining
<1>1. CASE remaining <= p.min
  BY <1>1 DEF outboundChunkSize
<1>2. CASE ~(remaining <= p.min)
  <2>1. PICK size \in chunkSize(p, remaining) : n = AtMost(size, AtMost(p.max, DrsInitialChunk))
    BY <1>2 DEF outboundChunkSize, chunkSizeWithMax
  <2>2. size \in Int
    BY <1>2, <2>1, RecordSizesAssumption DEF chunkSize, AtMost, Normal
  <2> QED BY <2>1, <2>2, RecordSizesAssumption DEF AtMost, Normal
<1> QED BY <1>1, <1>2

-----------------------------------------------------------------------------
(* The records on the wire *)

Byte == 0..MaxBytes
Record == [app : BOOLEAN, data : Seq(Byte)]

\* Cutting a sequence in two.
LEMMA Cut ==
    ASSUME NEW S, NEW s \in Seq(S), NEW k \in 0..Len(s)
    PROVE  /\ SubSeq(s, 1, k) \in Seq(S) /\ Len(SubSeq(s, 1, k)) = k
           /\ \A i \in 1..k : SubSeq(s, 1, k)[i] = s[i]
           /\ Drop(s, k) \in Seq(S) /\ Len(Drop(s, k)) = Len(s) - k
           /\ \A i \in 1..(Len(s) - k) : Drop(s, k)[i] = s[k + i]
<1>1. SubSeq(s, 1, k) \in Seq(S) /\ Len(SubSeq(s, 1, k)) = k
  OBVIOUS
<1>2. \A i \in 1..k : SubSeq(s, 1, k)[i] = s[i]
  OBVIOUS
<1>3. Drop(s, k) \in Seq(S) /\ Len(Drop(s, k)) = Len(s) - k
  BY DEF Drop
<1>4. \A i \in 1..(Len(s) - k) : Drop(s, k)[i] = s[k + i]
  BY DEF Drop
<1> QED BY <1>1, <1>2, <1>3, <1>4

LEMMA SpanFacts ==
    ASSUME NEW lo \in Nat, NEW n \in Nat
    PROVE  /\ Span(lo, n) \in Seq(Nat) /\ Len(Span(lo, n)) = n
           /\ \A i \in 1..n : Span(lo, n)[i] = lo + i
BY DEF Span

LEMMA SpanFromStart ==
    ASSUME NEW n \in Nat
    PROVE  /\ Span(0, n) \in Seq(Nat) /\ Len(Span(0, n)) = n
           /\ \A i \in 1..n : Span(0, n)[i] = i
<1>1. /\ Span(0, n) \in Seq(Nat) /\ Len(Span(0, n)) = n
      /\ \A i \in 1..n : Span(0, n)[i] = 0 + i
  BY SpanFacts
<1>2. \A i \in 1..n : 0 + i = i
  OBVIOUS
<1> QED BY <1>1, <1>2

\* The parts of RecTypeOK, with the names above.
LEMMA RecTypes ==
    ASSUME RecTypeOK
    PROVE  /\ enc \in Nat /\ enc <= MaxBytes /\ out \in Seq(1..MaxBytes) /\ Len(out) \in Nat
           /\ records \in Nat /\ wire \in Seq(Record) /\ Len(wire) \in Nat
           /\ readBuf \in Seq(Byte) /\ Len(readBuf) \in Nat
           /\ plain \in Seq(Byte) /\ Len(plain) \in Nat /\ MaxBytes \in Nat
BY RecordBounds DEF RecTypeOK, Record, Byte

LEMMA ChunkInRange == RecTypeOK /\ PolicyInv => RecordsFit
<1> SUFFICES ASSUME RecTypeOK, PolicyInv, out # << >>
             PROVE  Chunk \subseteq 1..AtMost(Len(out), MaxRecordPayload)
    BY DEF RecordsFit
<1>1. /\ Len(out) \in Nat \ {0} /\ bytesWritten \in Int /\ records \in Nat
  BY RecTypes DEF bytesWritten
<1>2. policy \in Normal /\ policy.min <= policy.max
  <2>1. policy.min \in 1..MaxRecordPayload /\ policy.max \in 1..MaxRecordPayload /\ policy.min <= policy.max
    BY RecordSizesAssumption DEF PolicyInv
  <2> QED BY <2>1 DEF RecTypeOK, Policy, Normal
<1>3. CASE policy.split /\ ~split
  BY <1>1, <1>3, RecordSizesAssumption DEF Chunk, AtMost
<1>4. CASE ~(policy.split /\ ~split)
  BY <1>1, <1>2, <1>4, ChunkFits DEF Chunk
<1> QED BY <1>3, <1>4

\* A record of m bytes is put behind the others.
LEMMA WireGrows ==
    ASSUME RecInv, NEW r \in Record, wire' = Append(wire, r), NEW m \in Nat,
           shut # "reset", bytesWritten' = bytesWritten + m, bytesWritten' <= MaxBytes,
           UNCHANGED <<plain, readBuf, shut>>, HeldAt(r, bytesWritten, bytesWritten + m)
    PROVE  WireInv' /\ wire' \in Seq(Record)
<1>1. /\ wire \in Seq(Record) /\ Len(wire) \in Nat /\ MaxBytes \in Nat /\ enc \in Nat /\ Len(out) \in Nat
  BY RecTypes DEF RecInv
<1>2. PICK at \in [1..(Len(wire) + 1) -> 0..MaxBytes] : WireAt(at)
  BY DEF RecInv, WireInv
<1>3. PICK n \in Nat : n = Len(wire)
  BY <1>1
<1>4. /\ at[1] = Len(plain) + Len(readBuf) /\ at[n + 1] = bytesWritten /\ bytesWritten \in Int
      /\ \A j \in 1..n : HeldAt(wire[j], at[j], at[j + 1])
  BY <1>1, <1>2, <1>3 DEF WireAt, bytesWritten
<1>5. \A j \in 1..(n + 1) : at[j] \in Nat /\ at[j] <= bytesWritten
  <2>1. \A j \in 1..(n + 1) : at[j] <= bytesWritten
    BY <1>2, <1>3 DEF WireAt
  <2>2. \A j \in 1..(n + 1) : at[j] \in Nat
    BY <1>1, <1>3
  <2> QED BY <2>1, <2>2
<1>6. /\ wire' \in Seq(Record) /\ Len(wire') = n + 1 /\ wire'[n + 1] = r
      /\ \A j \in 1..n : wire'[j] = wire[j]
  BY <1>1, <1>3
<1>7. PICK at2 \in [1..(n + 2) -> 0..MaxBytes] :
        (\A j \in 1..(n + 1) : at2[j] = at[j]) /\ at2[n + 2] = bytesWritten'
  <2> DEFINE a == [j \in 1..(n + 2) |-> IF j <= n + 1 THEN at[j] ELSE bytesWritten']
  <2>1. bytesWritten' \in 0..MaxBytes
    BY <1>1, <1>3, <1>4, <1>5
  <2>2. a \in [1..(n + 2) -> 0..MaxBytes]
    BY <1>3, <2>1
  <2>3. (\A j \in 1..(n + 1) : a[j] = at[j]) /\ a[n + 2] = bytesWritten'
    OBVIOUS
  <2> HIDE DEF a
  <2> QED BY <2>2, <2>3
<1>8. at2[1] = Len(plain') + Len(readBuf')
  BY <1>4, <1>7
<1>9. \A j \in 1..(n + 2) : at2[j] <= bytesWritten'
  <2> TAKE j \in 1..(n + 2)
  <2>1. CASE j \in 1..(n + 1)
    BY <1>4, <1>5, <1>7, <2>1
  <2>2. CASE j = n + 2
    BY <1>4, <1>7, <2>2
  <2> QED BY <2>1, <2>2
<1>10. ASSUME NEW j \in 1..(n + 1) PROVE HeldAt(wire'[j], at2[j], at2[j + 1])
  <2>1. CASE j \in 1..n
    <3>1. at2[j] = at[j] /\ at2[j + 1] = at[j + 1] /\ wire'[j] = wire[j]
      BY <1>6, <1>7, <2>1
    <3> QED BY <1>4, <2>1, <3>1
  <2>2. CASE j = n + 1
    <3>1. at2[j] = bytesWritten /\ at2[j + 1] = bytesWritten + m /\ wire'[j] = r
      BY <1>4, <1>6, <1>7, <2>2
    <3> QED BY <3>1
  <2> QED BY <1>3, <2>1, <2>2
<1>11. WireAt(at2)'
  BY <1>6, <1>7, <1>8, <1>9, <1>10 DEF WireAt, HeldAt, Piece
<1>12. (Len(wire) + 1)' = n + 2
  BY <1>6
<1> QED BY <1>6, <1>11, <1>12 DEF WireInv

\* The first record is taken off the wire, and what it held is kept or handed on.
LEMMA WireShrinks ==
    ASSUME RecInv, wire # << >>, wire' = Tail(wire), UNCHANGED <<enc, out, shut>>,
           Len(plain') + Len(readBuf') =
             Len(plain) + Len(readBuf) + (IF Head(wire).app THEN Len(Head(wire).data) ELSE 0)
    PROVE  WireInv' /\ wire' \in Seq(Record)
<1>1. wire \in Seq(Record) /\ Len(wire) \in Nat \ {0} /\ MaxBytes \in Nat /\ Head(wire) = wire[1]
  BY RecTypes DEF RecInv
<1>2. PICK at \in [1..(Len(wire) + 1) -> 0..MaxBytes] : WireAt(at)
  BY DEF RecInv, WireInv
<1>3. PICK n \in Nat \ {0} : n = Len(wire)
  BY <1>1
<1>4. /\ at[1] = Len(plain) + Len(readBuf) /\ \A j \in 1..(n + 1) : at[j] <= bytesWritten
      /\ shut # "reset" => at[n + 1] = bytesWritten
      /\ \A j \in 1..n : HeldAt(wire[j], at[j], at[j + 1])
  BY <1>2, <1>3 DEF WireAt
<1>5. wire' \in Seq(Record) /\ Len(wire') = n - 1 /\ \A j \in 1..(n - 1) : wire'[j] = wire[j + 1]
  BY <1>1, <1>3
<1>6. bytesWritten' = bytesWritten
  BY DEF bytesWritten
<1>7. PICK at2 \in [1..n -> 0..MaxBytes] : \A j \in 1..n : at2[j] = at[j + 1]
  <2> DEFINE a == [j \in 1..n |-> at[j + 1]]
  <2>1. a \in [1..n -> 0..MaxBytes]
    BY <1>3
  <2>2. \A j \in 1..n : a[j] = at[j + 1]
    OBVIOUS
  <2> HIDE DEF a
  <2> QED BY <2>1, <2>2
<1>8. at2[1] = Len(plain') + Len(readBuf')
  <2>1. HeldAt(wire[1], at[1], at[2]) /\ at2[1] = at[2]
    BY <1>4, <1>7
  <2>2. Len(plain) \in Nat /\ Len(readBuf) \in Nat
    BY RecTypes DEF RecInv
  <2>3. at[1] \in Nat
    BY <1>4, <2>2
  <2>4. at[2] = at[1] + (IF Head(wire).app THEN Len(Head(wire).data) ELSE 0)
    <3>1. CASE wire[1].app
      BY <1>1, <2>1, <3>1 DEF HeldAt, Piece
    <3>2. CASE ~wire[1].app
      BY <1>1, <2>1, <2>3, <3>2 DEF HeldAt, Piece
    <3> QED BY <3>1, <3>2
  <2> QED BY <1>4, <2>1, <2>4
<1>9. (\A j \in 1..n : at2[j] <= bytesWritten') /\ (shut' # "reset" => at2[n] = bytesWritten')
  BY <1>3, <1>4, <1>6, <1>7
<1>10. ASSUME NEW j \in 1..(n - 1) PROVE HeldAt(wire'[j], at2[j], at2[j + 1])
  <2>1. j + 1 \in 1..n /\ wire'[j] = wire[j + 1] /\ at2[j] = at[j + 1] /\ at2[j + 1] = at[(j + 1) + 1]
    BY <1>5, <1>7
  <2> QED BY <1>4, <2>1
<1>11. (Len(wire) + 1)' = n
  BY <1>5
<1>12. WireAt(at2)'
  BY <1>5, <1>8, <1>9, <1>10, <1>11 DEF WireAt, HeldAt, Piece
<1> QED BY <1>5, <1>11, <1>12 DEF WireInv

\* obfuscated2.Conn.Write: the argument takes the next places of the stream.
LEMMA WriteKeeps ==
    ASSUME RecInv, NEW n \in 1..MaxBytes, Write(n)
    PROVE  RecInv'
<1>1. /\ enc \in Nat /\ MaxBytes \in Nat /\ Len(out) = 0 /\ enc + n <= MaxBytes /\ n \in Nat
      /\ out' = Span(enc, n) /\ enc' = enc + n /\ shut = "no"
      /\ UNCHANGED <<policy, records, split, shut, other, wire, readBuf, plain, over>>
  BY RecTypes DEF RecInv, Write
<1>2. /\ Len(out') = n /\ \A i \in 1..n : out'[i] = enc + i
      /\ out' \in Seq(1..MaxBytes)
  <2>1. Len(out') = n /\ \A i \in 1..n : out'[i] = enc + i
    BY <1>1, SpanFacts
  <2>2. \A i \in 1..n : enc + i \in 1..MaxBytes
    BY <1>1
  <2>3. out' = [i \in 1..n |-> enc + i]
    BY <1>1 DEF Span
  <2> QED BY <1>1, <2>1, <2>2, <2>3
<1>3. bytesWritten' = bytesWritten /\ bytesWritten = enc
  BY <1>1, <1>2 DEF bytesWritten
<1>4. RecTypeOK'
  BY <1>1, <1>2 DEF RecInv, RecTypeOK
<1>5. PolicyInv' /\ ReaderInv'
  BY <1>1 DEF RecInv, PolicyInv, ReaderInv
<1>6. WriterInv'
  <2>1. records <= enc
    BY <1>3 DEF RecInv, WriterInv
  <2> QED BY <1>1, <1>2, <1>3, <2>1 DEF WriterInv
<1>7. WireInv'
  BY <1>1, <1>3 DEF RecInv, WireInv, WireAt
<1> QED BY <1>4, <1>5, <1>6, <1>7 DEF RecInv

\* RecordConn.Write: one record, at least one byte of the argument.
LEMMA WriteRecordKeeps ==
    ASSUME RecInv, NEW n \in 1..MaxBytes, WriteRecord(n)
    PROVE  RecInv'
<1>1. /\ enc \in Nat /\ enc <= MaxBytes /\ MaxBytes \in Nat /\ Len(out) \in Nat /\ out \in Seq(1..MaxBytes)
      /\ records \in Nat
  BY RecTypes DEF RecInv
<1>2. /\ out # << >> /\ n \in Chunk /\ out' = Drop(out, n) /\ records' = records + 1
      /\ wire' = Append(wire, [app |-> TRUE, data |-> SubSeq(out, 1, n)])
      /\ split' = (split \/ policy.split)
      /\ UNCHANGED <<policy, enc, shut, other, readBuf, plain, over>>
  BY DEF WriteRecord, RestOf
<1>3. n \in 0..Len(out) /\ n \in 1..Len(out)
  <2>1. Chunk \subseteq 1..AtMost(Len(out), MaxRecordPayload)
    BY <1>2, ChunkInRange DEF RecInv, RecordsFit
  <2> QED BY <1>1, <1>2, <2>1, RecordSizesAssumption DEF AtMost
<1>4. /\ SubSeq(out, 1, n) \in Seq(1..MaxBytes) /\ Len(SubSeq(out, 1, n)) = n
      /\ \A i \in 1..n : SubSeq(out, 1, n)[i] = out[i]
      /\ out' \in Seq(1..MaxBytes) /\ Len(out') = Len(out) - n
      /\ \A i \in 1..(Len(out) - n) : out'[i] = out[n + i]
  BY <1>1, <1>2, <1>3, Cut
<1>5. /\ Len(out) <= enc /\ \A i \in 1..Len(out) : out[i] = bytesWritten + i
      /\ records <= bytesWritten /\ shut = "no" /\ bytesWritten = enc - Len(out)
  BY <1>2 DEF RecInv, RecTypeOK, WriterInv, bytesWritten
<1>6. bytesWritten \in Nat /\ bytesWritten' = bytesWritten + n /\ bytesWritten' <= MaxBytes
  BY <1>1, <1>2, <1>3, <1>4, <1>5 DEF bytesWritten
<1>7. [app |-> TRUE, data |-> SubSeq(out, 1, n)] \in Record
  <2>1. SubSeq(out, 1, n) \in Seq(Byte)
    BY <1>1, <1>4, SeqMonotonic DEF Byte
  <2> QED BY <2>1 DEF Record
<1>8. HeldAt([app |-> TRUE, data |-> SubSeq(out, 1, n)], bytesWritten, bytesWritten + n)
  <2>1. SubSeq(out, 1, n) # << >>
    BY <1>3, <1>4
  <2>2. \A i \in 1..n : SubSeq(out, 1, n)[i] = bytesWritten + i
    BY <1>1, <1>3, <1>4, <1>5
  <2> QED BY <1>4, <2>1, <2>2 DEF HeldAt, Piece
<1>9. WireInv' /\ wire' \in Seq(Record)
  <2>1. n \in Nat /\ shut # "reset" /\ UNCHANGED <<plain, readBuf, shut>>
    BY <1>2, <1>5
  <2> QED BY <1>2, <1>6, <1>7, <1>8, <2>1, WireGrows
<1>10. records + 1 <= bytesWritten'
  BY <1>1, <1>5, <1>6
<1>11. RecTypeOK'
  <2>1. records' \in 0..MaxBytes
    BY <1>1, <1>2, <1>6, <1>10
  <2>2. split' \in BOOLEAN
    BY <1>2 DEF RecInv, RecTypeOK, Policy
  <2> QED BY <1>2, <1>4, <1>9, <2>1, <2>2 DEF RecInv, RecTypeOK, Record, Byte
<1>12. PolicyInv' /\ ReaderInv'
  BY <1>2 DEF RecInv, PolicyInv, ReaderInv
<1>13. WriterInv'
  <2>1. Len(out') <= enc'
    BY <1>1, <1>2, <1>3, <1>4, <1>5
  <2>2. ASSUME NEW i \in 1..Len(out') PROVE out'[i] = bytesWritten' + i
    <3>1. n + i \in 1..Len(out) /\ out'[i] = out[n + i]
      BY <1>1, <1>3, <1>4
    <3> QED BY <1>5, <1>6, <3>1
  <2> QED BY <1>2, <1>5, <1>10, <2>1, <2>2 DEF WriterInv
<1> QED BY <1>9, <1>11, <1>12, <1>13 DEF RecInv

\* A record without application data takes no place in the stream.
LEMMA WriteOtherKeeps ==
    ASSUME RecInv, WriteOther
    PROVE  RecInv'
<1>1. /\ shut = "no" /\ other' = other + 1 /\ other < MaxOther
      /\ wire' = Append(wire, [app |-> FALSE, data |-> <<0>>])
      /\ UNCHANGED <<policy, enc, out, records, split, shut, readBuf, plain, over>>
  BY DEF WriteOther, writer
<1>2. /\ enc \in Nat /\ enc <= MaxBytes /\ MaxBytes \in Nat /\ Len(out) \in Nat
  BY RecTypes DEF RecInv
<1>3. [app |-> FALSE, data |-> <<0>>] \in Record
  <2>1. <<0>> \in Seq(Byte)
    BY <1>2 DEF Byte
  <2> QED BY <2>1 DEF Record
<1>4. /\ bytesWritten \in Int /\ bytesWritten <= MaxBytes
      /\ bytesWritten' = bytesWritten + 0 /\ bytesWritten' = bytesWritten
  BY <1>1, <1>2 DEF bytesWritten
<1>5. HeldAt([app |-> FALSE, data |-> <<0>>], bytesWritten, bytesWritten + 0)
  BY <1>4 DEF HeldAt, Piece
<1>6. WireInv' /\ wire' \in Seq(Record)
  <2>1. 0 \in Nat /\ shut # "reset" /\ UNCHANGED <<plain, readBuf, shut>> /\ bytesWritten' <= MaxBytes
    BY <1>1, <1>4
  <2> QED BY <1>1, <1>3, <1>4, <1>5, <2>1, WireGrows
<1>7. RecTypeOK'
  <2>1. other' \in 0..MaxOther
    BY <1>1, RecordBounds DEF RecInv, RecTypeOK
  <2> QED BY <1>1, <1>6, <2>1 DEF RecInv, RecTypeOK, Record, Byte
<1>8. PolicyInv' /\ ReaderInv' /\ WriterInv'
  BY <1>1, <1>4 DEF RecInv, PolicyInv, ReaderInv, WriterInv
<1> QED BY <1>6, <1>7, <1>8 DEF RecInv

LEMMA WriterEndsKeeps ==
    ASSUME RecInv, WriteFails \/ CloseWrite
    PROVE  RecInv'
<1>1. /\ shut = "no" /\ out' = << >> /\ shut' \in {"fin", "reset"}
      /\ shut' = "fin" => out = << >>
      /\ UNCHANGED <<policy, enc, records, split, other, wire, readBuf, plain, over>>
  BY DEF WriteFails, CloseWrite
<1>2. /\ enc \in Nat /\ enc <= MaxBytes /\ MaxBytes \in Nat /\ Len(out) \in Nat /\ Len(out) <= enc
      /\ records \in Nat /\ Len(wire) \in Nat
  BY RecTypes DEF RecInv, WriterInv
<1>3. /\ Len(out') = 0 /\ bytesWritten' = enc /\ bytesWritten \in Int /\ bytesWritten <= enc
      /\ shut' = "fin" => bytesWritten = enc
  BY <1>1, <1>2 DEF bytesWritten
<1>4. RecTypeOK'
  BY <1>1 DEF RecInv, RecTypeOK
<1>5. PolicyInv' /\ ReaderInv'
  BY <1>1 DEF RecInv, PolicyInv, ReaderInv
<1>6. WriterInv'
  <2>1. records <= bytesWritten
    BY DEF RecInv, WriterInv
  <2> QED BY <1>1, <1>2, <1>3, <2>1 DEF WriterInv
<1>7. WireInv'
  <2>1. PICK at \in [1..(Len(wire) + 1) -> 0..MaxBytes] : WireAt(at)
    BY DEF RecInv, WireInv
  <2>2. \A j \in 1..(Len(wire) + 1) : at[j] <= bytesWritten'
    <3>1. \A j \in 1..(Len(wire) + 1) : at[j] <= bytesWritten /\ at[j] \in Nat
      BY <1>2, <2>1 DEF WireAt
    <3> QED BY <1>2, <1>3, <3>1
  <2>3. shut' # "reset" => at[Len(wire) + 1] = bytesWritten'
    BY <1>1, <1>3, <2>1 DEF WireAt
  <2>4. WireAt(at)'
    BY <1>1, <2>1, <2>2, <2>3 DEF WireAt
  <2> QED BY <1>1, <2>4 DEF WireInv
<1> QED BY <1>4, <1>5, <1>6, <1>7 DEF RecInv

\* What a Read is about to take continues what was given before.
LEMMA NextData ==
    ASSUME RecInv, NEW n \in ReadSizes, Read(n)
    PROVE  /\ Data \in Seq(Byte) /\ Len(Data) \in Nat \ {0}
           /\ \A i \in 1..Len(Data) : Data[i] = Len(plain) + i
           /\ readBuf = << >> => wire # << >> /\ Head(wire).app /\ Data = Head(wire).data
           /\ readBuf # << >> => Data = readBuf
<1>1. /\ readBuf \in Seq(Byte) /\ Len(readBuf) \in Nat /\ wire \in Seq(Record) /\ Len(wire) \in Nat
      /\ Len(plain) \in Nat
  BY RecTypes DEF RecInv
<1>2. CASE readBuf # << >>
  BY <1>1, <1>2 DEF RecInv, ReaderInv, Data
<1>3. CASE readBuf = << >>
  <2>1. wire # << >> /\ Head(wire).app /\ Data = Head(wire).data /\ Len(Data) > 0
    BY <1>3 DEF Read, ReadData, IsAppData, Data
  <2>2. Head(wire) = wire[1] /\ wire[1] \in Record /\ 1 \in 1..Len(wire)
    BY <1>1, <2>1
  <2>3. Data \in Seq(Byte)
    BY <2>1, <2>2 DEF Record
  <2>4. PICK at \in [1..(Len(wire) + 1) -> 0..MaxBytes] : WireAt(at)
    BY DEF RecInv, WireInv
  <2>5. at[1] = Len(plain) /\ HeldAt(wire[1], at[1], at[1 + 1])
    BY <1>1, <1>3, <2>2, <2>4 DEF WireAt
  <2>6. \A i \in 1..Len(Data) : Data[i] = Len(plain) + i
    BY <2>1, <2>2, <2>5 DEF HeldAt, Piece
  <2> QED BY <1>3, <2>1, <2>3, <2>6
<1> QED BY <1>2, <1>3

\* RecordConn.Read and the key stream: some of it is handed on, deciphered, and
\* the rest of the record is kept.
LEMMA ReadEffect ==
    ASSUME RecInv, NEW n \in ReadSizes, Read(n)
    PROVE  \E k \in 1..Len(Data) :
             /\ plain' \in Seq(Byte) /\ Len(plain') = Len(plain) + k
             /\ \A i \in 1..(Len(plain) + k) : plain'[i] = i
             /\ readBuf' \in Seq(Byte) /\ Len(readBuf') = Len(Data) - k
             /\ \A i \in 1..(Len(Data) - k) : readBuf'[i] = Len(plain) + k + i
<1>1. /\ Data \in Seq(Byte) /\ Len(Data) \in Nat \ {0}
      /\ \A i \in 1..Len(Data) : Data[i] = Len(plain) + i
  BY NextData
<1>2. plain \in Seq(Byte) /\ Len(plain) \in Nat /\ \A i \in 1..Len(plain) : plain[i] = i
  BY RecTypes DEF RecInv, ReaderInv
<1> DEFINE k == AtMost(Len(Data), n)
<1>3. k \in 1..Len(Data) /\ k \in 0..Len(Data)
  BY <1>1, RecordBounds DEF AtMost
<1>4. plain' = plain \o Deciphered(SubSeq(Data, 1, k)) /\ readBuf' = Drop(Data, k)
  BY DEF Read, ReadData
<1> HIDE DEF k
<1>5. /\ SubSeq(Data, 1, k) \in Seq(Byte) /\ Len(SubSeq(Data, 1, k)) = k
      /\ \A i \in 1..k : SubSeq(Data, 1, k)[i] = Data[i]
      /\ readBuf' \in Seq(Byte) /\ Len(readBuf') = Len(Data) - k
      /\ \A i \in 1..(Len(Data) - k) : readBuf'[i] = Data[k + i]
  <2>1. PICK d \in Seq(Byte) : d = Data
    BY <1>1
  <2>2. PICK m \in 0..Len(d) : m = k
    BY <1>3, <2>1
  <2>3. /\ SubSeq(d, 1, m) \in Seq(Byte) /\ Len(SubSeq(d, 1, m)) = m
        /\ \A i \in 1..m : SubSeq(d, 1, m)[i] = d[i]
        /\ Drop(d, m) \in Seq(Byte) /\ Len(Drop(d, m)) = Len(d) - m
        /\ \A i \in 1..(Len(d) - m) : Drop(d, m)[i] = d[m + i]
    BY <2>1, <2>2, Cut, ZenonT(60)
  <2> QED BY <1>4, <2>1, <2>2, <2>3, Zenon
<1>6. Deciphered(SubSeq(Data, 1, k)) = SubSeq(Data, 1, k)
  <2>1. \A i \in 1..k : SubSeq(Data, 1, k)[i] = Len(plain) + i
    BY <1>1, <1>3, <1>5
  <2>2. Deciphered(SubSeq(Data, 1, k)) = [i \in 1..k |-> SubSeq(Data, 1, k)[i]]
    BY <1>5, <2>1 DEF Deciphered
  <2> QED BY <1>5, <2>2
<1>7. plain' \in Seq(Byte) /\ Len(plain') = Len(plain) + k
  <2>1. PICK s \in Seq(Byte) : s = SubSeq(Data, 1, k)
    BY <1>5
  <2>2. plain' = plain \o s /\ Len(s) = k
    BY <1>4, <1>5, <1>6, <2>1
  <2> QED BY <1>2, <2>1, <2>2
<1>8. ASSUME NEW i \in 1..(Len(plain) + k) PROVE plain'[i] = i
  <2> DEFINE s == SubSeq(Data, 1, k)
  <2>1. plain' = plain \o s /\ s \in Seq(Byte) /\ Len(s) = k
    BY <1>4, <1>5, <1>6
  <2>2. \A j \in 1..k : s[j] = Len(plain) + j
    BY <1>1, <1>3, <1>5
  <2> HIDE DEF s
  <2>3. CASE i <= Len(plain)
    BY <1>2, <2>1, <2>3
  <2>4. CASE i > Len(plain)
    <3>1. i - Len(plain) \in 1..k /\ plain'[i] = s[i - Len(plain)]
      BY <1>2, <1>3, <2>1, <2>4
    <3> QED BY <1>2, <2>2, <3>1
  <2> QED BY <1>2, <2>3, <2>4
<1>9. \A i \in 1..(Len(Data) - k) : readBuf'[i] = Len(plain) + k + i
  <2> TAKE i \in 1..(Len(Data) - k)
  <2>1. k + i \in 1..Len(Data)
    BY <1>1, <1>3
  <2>2. readBuf'[i] = Len(plain) + (k + i)
    BY <1>1, <1>5, <2>1
  <2> QED BY <1>2, <1>3, <2>2
<1> QED BY <1>3, <1>5, <1>7, <1>8, <1>9

LEMMA ReadKeeps ==
    ASSUME RecInv, NEW n \in ReadSizes, Read(n)
    PROVE  RecInv'
<1>1. PICK k \in 1..Len(Data) :
        /\ plain' \in Seq(Byte) /\ Len(plain') = Len(plain) + k
        /\ \A i \in 1..(Len(plain) + k) : plain'[i] = i
        /\ readBuf' \in Seq(Byte) /\ Len(readBuf') = Len(Data) - k
        /\ \A i \in 1..(Len(Data) - k) : readBuf'[i] = Len(plain) + k + i
  BY ReadEffect
<1>2. /\ Len(Data) \in Nat
      /\ readBuf = << >> => wire # << >> /\ Head(wire).app /\ Data = Head(wire).data
      /\ readBuf # << >> => Data = readBuf
  BY NextData
<1>3. /\ UNCHANGED <<policy, enc, out, records, split, shut, other, over>>
      /\ wire' = IF readBuf # << >> THEN wire ELSE Tail(wire)
  BY DEF Read, ReadData, writer
<1>4. /\ Len(plain) \in Nat /\ Len(readBuf) \in Nat /\ wire \in Seq(Record) /\ readBuf \in Seq(Byte)
  BY RecTypes DEF RecInv
<1>5. Len(plain') + Len(readBuf') = Len(plain) + Len(Data)
  BY <1>1, <1>2, <1>4
<1>6. WireInv' /\ wire' \in Seq(Record)
  <2>1. CASE readBuf # << >>
    <3>1. wire' = wire /\ Len(plain') + Len(readBuf') = Len(plain) + Len(readBuf)
      BY <1>2, <1>3, <1>5, <2>1
    <3>2. bytesWritten' = bytesWritten
      BY <1>3 DEF bytesWritten
    <3>3. PICK at \in [1..(Len(wire) + 1) -> 0..MaxBytes] : WireAt(at)
      BY DEF RecInv, WireInv
    <3>4. WireAt(at)'
      BY <1>3, <3>1, <3>2, <3>3 DEF WireAt
    <3> QED BY <1>4, <3>1, <3>4 DEF WireInv
  <2>2. CASE readBuf = << >>
    <3>1. wire' = Tail(wire) /\ wire # << >> /\ Head(wire).app /\ Len(readBuf) = 0
      BY <1>2, <1>3, <2>2
    <3>2. Len(plain') + Len(readBuf') = Len(plain) + Len(readBuf) + Len(Head(wire).data)
      BY <1>2, <1>4, <1>5, <2>2, <3>1
    <3>3. UNCHANGED <<enc, out, shut>>
      BY <1>3
    <3> QED BY <3>1, <3>2, <3>3, WireShrinks
  <2> QED BY <2>1, <2>2
<1>7. RecTypeOK'
  BY <1>1, <1>3, <1>6 DEF RecInv, RecTypeOK, Record, Byte
<1>8. PolicyInv' /\ WriterInv'
  BY <1>3 DEF RecInv, PolicyInv, WriterInv, bytesWritten
<1>9. ReaderInv'
  BY <1>1, <1>3 DEF RecInv, ReaderInv
<1> QED BY <1>6, <1>7, <1>8, <1>9 DEF RecInv

LEMMA SkipKeeps ==
    ASSUME RecInv, Skip
    PROVE  RecInv'
<1>1. /\ wire # << >> /\ ~Head(wire).app /\ wire' = Tail(wire)
      /\ UNCHANGED <<policy, enc, out, records, split, shut, other, readBuf, plain, over>>
  BY DEF Skip, IsAppData, writer
<1>2. Len(plain) \in Nat /\ Len(readBuf) \in Nat
  BY RecTypes DEF RecInv
<1>3. Len(plain') + Len(readBuf') =
        Len(plain) + Len(readBuf) + (IF Head(wire).app THEN Len(Head(wire).data) ELSE 0)
  BY <1>1, <1>2
<1>4. WireInv' /\ wire' \in Seq(Record)
  BY <1>1, <1>3, WireShrinks
<1>5. RecTypeOK'
  BY <1>1, <1>4 DEF RecInv, RecTypeOK, Record, Byte
<1>6. PolicyInv' /\ WriterInv' /\ ReaderInv'
  BY <1>1 DEF RecInv, PolicyInv, WriterInv, bytesWritten, ReaderInv
<1> QED BY <1>4, <1>5, <1>6 DEF RecInv

\* The places of the records on the wire, for every step of both ends.
LEMMA RecStep == RecInv /\ [RecNext]_recVars => RecInv'
<1> SUFFICES ASSUME RecInv, [RecNext]_recVars PROVE RecInv'
    OBVIOUS
<1>1. ASSUME NEW n \in 1..MaxBytes, Write(n) \/ WriteRecord(n) PROVE RecInv'
  BY <1>1, WriteKeeps, WriteRecordKeeps
<1>2. CASE WriteFails \/ CloseWrite
  BY <1>2, WriterEndsKeeps
<1>3. CASE WriteOther
  BY <1>3, WriteOtherKeeps
<1>4. ASSUME NEW n \in ReadSizes, Read(n) PROVE RecInv'
  BY <1>4, ReadKeeps
<1>5. CASE Skip
  BY <1>5, SkipKeeps
<1>6. CASE ReadEOF \/ ReadError \/ UNCHANGED recVars
  <2>1. /\ UNCHANGED <<policy, enc, out, records, split, shut, other, wire, readBuf, plain>>
        /\ over' \in {over, "eof", "error"} /\ (over' = over \/ shut # "no")
    BY <1>6 DEF ReadEOF, ReadError, recVars, writer
  <2>2. RecTypeOK'
    BY <2>1 DEF RecInv, RecTypeOK
  <2>3. PolicyInv' /\ WriterInv' /\ ReaderInv'
    BY <2>1 DEF RecInv, PolicyInv, WriterInv, bytesWritten, ReaderInv
  <2>4. WireInv'
    BY <2>1 DEF RecInv, WireInv, WireAt, bytesWritten
  <2> QED BY <2>2, <2>3, <2>4 DEF RecInv
<1> QED BY <1>1, <1>2, <1>3, <1>4, <1>5, <1>6 DEF RecNext, Sending

LEMMA RecStart == RecInit => RecInv
<1> SUFFICES ASSUME RecInit PROVE RecInv
    OBVIOUS
<1>1. /\ enc = 0 /\ out = << >> /\ records = 0 /\ split = FALSE /\ shut = "no"
      /\ other = 0 /\ wire = << >> /\ readBuf = << >> /\ plain = << >> /\ over = "open"
  BY DEF RecInit
<1>2. PICK p \in Policies : policy = Normalize(p)
  BY DEF RecInit
<1>3. policy \in Normal /\ policy.min <= policy.max
  BY <1>2, NormalizeFits, RecordBounds
<1>4. RecTypeOK
  <2>1. policy \in Policy
    BY <1>3, RecordSizesAssumption DEF Normal, Policy
  <2>2. 0 \in 0..MaxBytes /\ 0 \in 0..MaxOther
    BY RecordBounds
  <2>3. /\ out \in Seq(1..MaxBytes) /\ wire \in Seq([app : BOOLEAN, data : Seq(0..MaxBytes)])
        /\ readBuf \in Seq(0..MaxBytes) /\ plain \in Seq(0..MaxBytes)
    BY <1>1
  <2> QED BY <1>1, <2>1, <2>2, <2>3 DEF RecTypeOK
<1>5. PolicyInv
  BY <1>3, RecordSizesAssumption DEF PolicyInv, Normal
<1>6. WriterInv /\ ReaderInv
  BY <1>1 DEF WriterInv, ReaderInv, bytesWritten
<1>7. WireInv
  <2> DEFINE at == [j \in 1..1 |-> 0]
  <2>0. Len(wire) = 0 /\ Len(plain) = 0 /\ Len(readBuf) = 0 /\ Len(out) = 0 /\ enc = 0
    BY <1>1
  <2>1. Len(plain) + Len(readBuf) = 0 /\ enc - Len(out) = 0
    BY <2>0
  <2>2. 1..(Len(wire) + 1) = {1} /\ 1..Len(wire) = {} /\ 0 \in 0..MaxBytes /\ 1..1 = {1}
    BY <2>0, RecordBounds
  <2>3. at \in [1..(Len(wire) + 1) -> 0..MaxBytes] /\ at[1] = 0
    BY <2>2
  <2> HIDE DEF at
  <2>4. WireAt(at)
    BY <2>0, <2>1, <2>2, <2>3 DEF WireAt, bytesWritten
  <2> QED BY <2>3, <2>4 DEF WireInv
<1> QED BY <1>4, <1>5, <1>6, <1>7 DEF RecInv

\* The invariant of a fake-TLS connection: the records on the wire are
\* consecutive pieces of the enciphered stream, the reader stands where the
\* first begins and its key stream with it.
THEOREM RecordsInvariance == RecSpec => []RecInv
BY RecStart, RecStep, PTL DEF RecSpec

\* Every variable of the record layer keeps its type.
THEOREM RecTypeCorrect == RecSpec => []RecTypeOK
<1>1. RecInv => RecTypeOK
  BY DEF RecInv
<1> QED BY <1>1, RecordsInvariance, PTL

\* For every set of configurations and every sequence of Writes, each record
\* offered to the connection has a legal length.
THEOREM RecordsFitInvariance == RecSpec => []RecordsFit
<1>1. RecInv => RecordsFit
  BY ChunkInRange DEF RecInv
<1> QED BY <1>1, RecordsInvariance, PTL

-----------------------------------------------------------------------------
(* The records are a byte stream *)

LEMMA SpanPrefix ==
    ASSUME NEW m \in Nat, NEW n \in Nat, m <= n
    PROVE  RecordStream!IsPrefix(Span(0, m), Span(0, n))
<1>1. /\ Len(Span(0, m)) = m /\ Len(Span(0, n)) = n
      /\ Span(0, m) \in Seq(Nat) /\ Span(0, n) \in Seq(Nat)
  BY SpanFacts
<1>2. SubSeq(Span(0, m), 1, m) = SubSeq(Span(0, n), 1, m)
  BY <1>1 DEF Span
<1> QED BY <1>1, <1>2 DEF RecordStream!IsPrefix

\* What the reader was given is the beginning of the stream; at the end of the
\* records on the wire it is what was written.
LEMMA PlainSpan ==
    ASSUME RecInv
    PROVE  /\ plain = Span(0, Len(plain)) /\ Len(plain) \in Nat /\ enc \in Nat
           /\ Len(plain) <= enc
           /\ shut = "fin" /\ wire = << >> /\ readBuf = << >> => Len(plain) = enc
<1>1. /\ plain \in Seq(Byte) /\ Len(plain) \in Nat /\ enc \in Nat /\ Len(readBuf) \in Nat
      /\ Len(out) \in Nat /\ Len(wire) \in Nat /\ MaxBytes \in Nat
  BY RecTypes DEF RecInv
<1>2. plain = Span(0, Len(plain))
  BY <1>1 DEF RecInv, ReaderInv, Span
<1>3. PICK at \in [1..(Len(wire) + 1) -> 0..MaxBytes] : WireAt(at)
  BY DEF RecInv, WireInv
<1>4. at[1] = Len(plain) + Len(readBuf) /\ at[1] <= bytesWritten
  BY <1>1, <1>3 DEF WireAt
<1>5. Len(plain) <= enc
  BY <1>1, <1>4 DEF bytesWritten
<1>6. ASSUME shut = "fin", wire = << >>, readBuf = << >>
      PROVE  Len(plain) = enc
  <2>1. Len(wire) = 0 /\ Len(readBuf) = 0 /\ Len(out) = 0
    BY <1>6 DEF RecInv, WriterInv
  <2>2. at[Len(wire) + 1] = bytesWritten
    BY <1>3, <1>6 DEF WireAt
  <2> QED BY <1>1, <1>4, <2>1, <2>2 DEF bytesWritten
<1> QED BY <1>1, <1>2, <1>5, <1>6

\* Every step of a fake-TLS connection is one of the stream, or none: writing
\* and closing at one end, delivering, ending and breaking at the other.
LEMMA RecStreamStep ==
    RecInv /\ RecInv' /\ [RecNext]_recVars => [RecordStream!Next]_(RecordStream!vars)
<1> SUFFICES ASSUME RecInv, RecInv', [RecNext]_recVars
             PROVE  [RecordStream!Next]_(RecordStream!vars)
    OBVIOUS
<1>0. /\ enc \in Nat /\ plain = Span(0, Len(plain)) /\ Len(plain) \in Nat
      /\ shut = "fin" /\ wire = << >> /\ readBuf = << >> => Len(plain) = enc
  BY PlainSpan
<1>1. ASSUME NEW n \in 1..MaxBytes, Write(n)
      PROVE  RecordStream!Write
  <2>1. shut = "no" /\ enc' = enc + n /\ UNCHANGED <<shut, plain, over>>
    BY <1>1 DEF Write
  <2>2. n \in Nat /\ n > 0 /\ enc + n \in Nat
    BY <1>0, RecordBounds
  <2>3. Span(0, enc) # Span(0, enc + n)
    BY <1>0, <2>2, SpanFacts
  <2>4. RecordStream!IsStrictPrefix(Span(0, enc), Span(0, enc'))
    BY <1>0, <2>1, <2>2, <2>3, SpanPrefix DEF RecordStream!IsStrictPrefix
  <2> QED BY <2>1, <2>4 DEF RecordEnd, RecordStream!Write
<1>2. CASE CloseWrite
  <2>1. shut = "no" /\ shut' = "fin" /\ over = "open" /\ UNCHANGED <<enc, plain, over>>
    BY <1>2 DEF CloseWrite, RecInv, ReaderInv
  <2> QED BY <2>1 DEF RecordEnd, RecordStream!CloseWrite, RecordStream!Next
<1>3. ASSUME NEW n \in ReadSizes, Read(n)
      PROVE  RecordStream!Deliver
  <2>1. over = "open" /\ UNCHANGED <<enc, shut, over>>
    BY <1>3 DEF Read, ReadData, writer
  <2>2. /\ plain' = Span(0, Len(plain')) /\ Len(plain') \in Nat
        /\ Len(plain') <= enc'
    <3>1. (/\ plain = Span(0, Len(plain)) /\ Len(plain) \in Nat /\ Len(plain) <= enc)'
      BY PlainSpan, PTL
    <3> QED BY <3>1
  <2>3. PICK k \in 1..Len(Data) : Len(plain') = Len(plain) + k
    BY <1>3, ReadEffect
  <2>4. k \in Nat /\ k > 0
    BY <1>3, <2>3, NextData
  <2>5. Len(plain) <= Len(plain') /\ Len(plain) # Len(plain')
    BY <1>0, <2>3, <2>4
  <2>6. RecordStream!IsStrictPrefix(plain, plain')
    <3>1. RecordStream!IsPrefix(Span(0, Len(plain)), Span(0, Len(plain')))
      BY <1>0, <2>2, <2>5, SpanPrefix
    <3> QED BY <1>0, <2>2, <2>5, <3>1 DEF RecordStream!IsStrictPrefix
  <2>7. RecordStream!IsPrefix(plain', Span(0, enc))
    <3>1. RecordStream!IsPrefix(Span(0, Len(plain')), Span(0, enc))
      BY <1>0, <2>1, <2>2, SpanPrefix
    <3> QED BY <2>2, <3>1
  <2> QED BY <2>1, <2>6, <2>7 DEF RecordEnd, RecordStream!Deliver
<1>4. CASE ReadEOF
  <2>1. /\ over = "open" /\ shut = "fin" /\ over' = "eof" /\ plain = Span(0, enc)
        /\ UNCHANGED <<enc, shut, plain>>
    BY <1>0, <1>4 DEF ReadEOF, writer
  <2> QED BY <2>1 DEF RecordEnd, RecordStream!EOF, RecordStream!Next
<1>5. CASE ReadError
  BY <1>5 DEF ReadError, writer, RecordEnd, RecordStream!Break, RecordStream!Next
<1>6. ASSUME NEW n \in 1..MaxBytes, WriteRecord(n)
      PROVE  UNCHANGED RecordStream!vars
  BY <1>6 DEF WriteRecord, RecordEnd, RecordStream!vars
<1>7. CASE WriteFails
  <2>1. shut = "no" /\ shut' = "reset" /\ UNCHANGED <<enc, plain, over>>
    BY <1>7 DEF WriteFails
  <2> QED BY <2>1 DEF RecordEnd, RecordStream!vars
<1>8. CASE WriteOther \/ Skip \/ UNCHANGED recVars
  <2>1. UNCHANGED <<enc, shut, plain, over>>
    BY <1>8 DEF WriteOther, Skip, recVars, writer
  <2> QED BY <2>1 DEF RecordEnd, RecordStream!vars
<1> QED BY <1>1, <1>2, <1>3, <1>4, <1>5, <1>6, <1>7, <1>8 DEF RecNext, Sending, RecordStream!Next

\* A fake-TLS connection implements a byte stream, for every configuration of
\* the record sizes, every cutting of the stream into Writes and Reads and
\* every record without application data between them: nothing is lost,
\* repeated or reordered, the key streams stay in step, and a clean end comes
\* only after everything.
THEOREM RecordsRefineStream == RecSpec => RecordsAreStream
<1>1. RecInit => RecordStream!Init
  <2> SUFFICES ASSUME RecInit PROVE RecordStream!Init
      OBVIOUS
  <2>1. Span(0, enc) = << >>
    BY DEF RecInit, Span
  <2> QED BY <2>1 DEF RecInit, RecordEnd, RecordStream!Init
<1> QED BY <1>1, RecordsInvariance, RecStreamStep, PTL
        DEF RecSpec, RecordsAreStream, RecordStream!Spec

-----------------------------------------------------------------------------
(* The whole path: records, copy and tunnel *)

\* Every step of the path is a step of the tunnel and one of the records, or
\* leaves one of them alone.
LEMMA PathSteps == [PathNext]_pathVars => [Next]_vars /\ [RecNext]_recVars
<1> SUFFICES ASSUME [PathNext]_pathVars PROVE [Next]_vars /\ [RecNext]_recVars
    OBVIOUS
<1>1. CASE Client
  BY <1>1 DEF Client, RecNext
<1>2. CASE \E n \in ReadSizes : Upload(n) \/ UploadFails(n)
  <2>1. (\E n \in ReadSizes : Read(n)) /\ (FrontWrite \/ FrontCloseWrite)
    BY <1>2 DEF Upload, UploadFails
  <2> QED BY <2>1 DEF Next, RecNext
<1>3. CASE UploadWaits
  BY <1>3 DEF UploadWaits, RecNext
<1>4. CASE UploadEnds
  BY <1>4 DEF UploadEnds, Next
<1>5. CASE Tunnel
  BY <1>5 DEF Tunnel, BackReads, Next
<1>6. CASE UNCHANGED pathVars
  BY <1>6 DEF pathVars
<1> QED BY <1>1, <1>2, <1>3, <1>4, <1>5, <1>6 DEF PathNext, Copying, CopyFails

\* The numbers of the path.
LEMMA PathTypes ==
    ASSUME PathInv
    PROVE  /\ frames \in Seq(Seq(1..MaxBytes)) /\ Len(frames) \in Nat /\ Len(frames) = sent
           /\ handed \in Seq(1..MaxBytes) /\ Len(handed) \in Nat
           /\ got \in Seq(1..MaxFrames) /\ Len(got) \in Nat /\ Len(got) <= Len(frames)
           /\ Len(plain) \in Nat /\ Len(plain) <= enc /\ enc \in Nat /\ MaxBytes \in Nat
           /\ enc <= MaxBytes
<1>1. /\ frames \in Seq(Seq(1..MaxBytes)) /\ Len(frames) = sent /\ handed \in Seq(1..MaxBytes)
      /\ TypeOK /\ Len(got) <= sent /\ RecInv
  BY DEF PathInv, PathTypeOK, TunnelInv
<1>2. Len(got) \in Nat /\ got \in Seq(1..MaxFrames)
  BY <1>1, Arithmetic DEF TypeOK
<1>3. enc \in Nat /\ enc <= MaxBytes /\ MaxBytes \in Nat /\ Len(plain) \in Nat /\ Len(plain) <= enc
  BY <1>1, PlainSpan, RecTypes DEF RecInv
<1>4. Len(frames) \in Nat /\ Len(handed) \in Nat
  BY <1>1
<1> QED BY <1>1, <1>2, <1>3, <1>4

\* A step that moves neither frames nor payloads keeps the places of the
\* frames, unless the copy ends by itself before its Reads are sent on.
LEMMA FramesStay ==
    ASSUME PathInv, UNCHANGED <<frames, handed, got>>, Len(plain') \in Nat, Len(plain) <= Len(plain'),
           ~fin' \/ over' # "open" => (~fin \/ over # "open") /\ plain' = plain
    PROVE  FramesInv'
<1>1. PICK cut \in [1..(Len(frames) + 1) -> 0..MaxBytes] : FramesAt(cut)
  BY DEF PathInv, FramesInv
<1>2. Len(frames) \in Nat /\ Len(plain) \in Nat /\ MaxBytes \in Nat
  BY PathTypes
<1>3. \A j \in 1..(Len(frames) + 1) : cut[j] \in Nat /\ cut[j] <= Len(plain)
  BY <1>1, <1>2 DEF FramesAt
<1>4. \A j \in 1..(Len(frames) + 1) : cut[j] <= Len(plain')
  BY <1>2, <1>3
<1>5. FramesAt(cut)'
  BY <1>1, <1>4 DEF FramesAt
<1> QED BY <1>5 DEF FramesInv

\* The Write of what a Read gave is the next frame.
LEMMA UploadKeeps ==
    ASSUME PathInv, RecInv', TunnelInv', NEW n \in ReadSizes, Upload(n)
    PROVE  FramesInv' /\ PathTypeOK'
<1>1. /\ Read(n) /\ ~fin /\ sent' = sent + 1 /\ fin' = fin /\ UNCHANGED <<got, handed, over>>
      /\ frames' = Append(frames, SubSeq(plain', Len(plain) + 1, Len(plain')))
  BY DEF Upload, FrontWrite, Read, ReadData
<1>2. /\ frames \in Seq(Seq(1..MaxBytes)) /\ Len(frames) \in Nat /\ Len(frames) = sent
      /\ Len(got) \in Nat /\ Len(got) <= Len(frames) /\ Len(plain) \in Nat
      /\ handed \in Seq(1..MaxBytes) /\ MaxBytes \in Nat
  BY PathTypes
<1>3. PICK k \in 1..Len(Data) :
        /\ plain' \in Seq(Byte) /\ Len(plain') = Len(plain) + k
        /\ \A i \in 1..(Len(plain) + k) : plain'[i] = i
  BY <1>1, ReadEffect DEF PathInv
<1>4. k \in Nat /\ k > 0
  BY <1>1, <1>3, NextData DEF PathInv
<1>5. Len(plain') \in Nat /\ Len(plain') <= MaxBytes
  <2>1. (Len(plain) \in Nat /\ Len(plain) <= enc /\ enc \in Nat)'
    BY PlainSpan, PTL
  <2>2. (enc <= MaxBytes)'
    BY DEF RecInv, RecTypeOK
  <2> QED BY <1>2, <2>1, <2>2
<1>6. PICK p \in Seq(Byte) : p = plain'
  BY <1>3
<1>7. PICK f : f = SubSeq(p, Len(plain) + 1, Len(plain) + k)
  OBVIOUS
<1>8. f \in Seq(1..MaxBytes) /\ Piece(f, Len(plain), Len(plain) + k)
  <2>1. f \in Seq(Byte) /\ Len(f) = k /\ \A i \in 1..k : f[i] = p[Len(plain) + i]
    BY <1>2, <1>3, <1>4, <1>6, <1>7
  <2>2. \A i \in 1..k : f[i] = Len(plain) + i /\ f[i] \in 1..MaxBytes
    <3> TAKE i \in 1..k
    <3>1. Len(plain) + i \in 1..(Len(plain) + k) /\ Len(plain) + i \in 1..MaxBytes
      BY <1>2, <1>3, <1>4, <1>5
    <3> QED BY <1>3, <1>6, <2>1, <3>1
  <2>3. f \in Seq(1..MaxBytes)
    <3>1. f \in [1..k -> Byte]
      BY <2>1, LenProperties
    <3>2. f \in [1..k -> 1..MaxBytes]
      BY <2>2, <3>1
    <3>3. Seq(1..MaxBytes) = UNION {[1..j -> 1..MaxBytes] : j \in Nat}
      BY SeqDef, Zenon
    <3> QED BY <1>4, <3>2, <3>3, Zenon
  <2> QED BY <1>4, <2>1, <2>2, <2>3 DEF Piece
<1>9. frames' = Append(frames, f)
  BY <1>1, <1>3, <1>6, <1>7
<1>10. PICK m \in Nat : m = Len(frames)
  BY <1>2
<1>11. /\ frames' \in Seq(Seq(1..MaxBytes)) /\ Len(frames') = m + 1
       /\ \A j \in 1..m : frames'[j] = frames[j]
       /\ frames'[m + 1] = f
  BY <1>2, <1>8, <1>9, <1>10
<1>12. PICK cut \in [1..(m + 1) -> 0..MaxBytes] : FramesAt(cut)
  BY <1>10 DEF PathInv, FramesInv
<1>13. PICK t \in 0..MaxBytes : t = Len(plain) + k
  BY <1>2, <1>3, <1>4, <1>5
<1>14. PICK cut2 : cut2 = [j \in 1..(m + 2) |-> IF j <= m + 1 THEN cut[j] ELSE t]
  OBVIOUS
<1>15. /\ cut2 \in [1..(m + 2) -> 0..MaxBytes] /\ cut2[m + 2] = t
       /\ \A j \in 1..(m + 1) : cut2[j] = cut[j]
  BY <1>10, <1>12, <1>13, <1>14
<1>16. cut[m + 1] = Len(plain) /\ cut[1] = 0 /\ Len(handed) = cut[Len(got) + 1]
  BY <1>1, <1>10, <1>12 DEF FramesAt
<1>17. \A j \in 1..(m + 1) : Piece(frames'[j], cut2[j], cut2[j + 1])
  <2> TAKE j \in 1..(m + 1)
  <2>1. CASE j = m + 1
    <3>1. j + 1 = m + 2 /\ m + 1 \in 1..(m + 1)
      BY <1>10, <2>1
    <3>2. cut2[j] = Len(plain) /\ cut2[j + 1] = Len(plain) + k /\ frames'[j] = f
      BY <1>11, <1>13, <1>15, <1>16, <2>1, <3>1
    <3> QED BY <1>8, <3>2
  <2>2. CASE j # m + 1
    <3>1. j \in 1..m /\ j + 1 \in 1..(m + 1)
      BY <1>10, <2>2
    <3>2. Piece(frames[j], cut[j], cut[j + 1])
      BY <1>10, <1>12, <3>1 DEF FramesAt
    <3> QED BY <1>11, <1>15, <3>1, <3>2
  <2> QED BY <2>1, <2>2
<1>18. FramesInv'
  <2>1. cut2 \in [1..(Len(frames') + 1) -> 0..MaxBytes] /\ Len(frames') + 1 = m + 2
    BY <1>10, <1>11, <1>15
  <2>2. cut2[1] = 0 /\ cut2[Len(frames') + 1] = Len(plain')
    BY <1>3, <1>10, <1>13, <1>15, <1>16, <2>1
  <2>3. Len(handed') = cut2[Len(got') + 1]
    <3>1. Len(got) + 1 \in 1..(m + 1)
      BY <1>2, <1>10
    <3> QED BY <1>1, <1>15, <1>16, <3>1
  <2>4. \A j \in 1..(Len(frames') + 1) : cut2[j] <= Len(plain')
    <3> TAKE j \in 1..(Len(frames') + 1)
    <3>1. CASE j = m + 2
      BY <1>5, <2>1, <2>2, <3>1
    <3>2. CASE j # m + 2
      <4>1. j \in 1..(m + 1)
        BY <1>10, <2>1, <3>2
      <4>2. cut2[j] \in Nat /\ cut2[j] <= Len(plain)
        <5>1. cut[j] \in 0..MaxBytes /\ cut[j] <= Len(plain)
          BY <1>10, <1>12, <4>1 DEF FramesAt
        <5>2. cut2[j] = cut[j]
          BY <1>15, <4>1
        <5> QED BY <1>2, <5>1, <5>2
      <4> QED BY <1>2, <1>3, <1>4, <4>2
    <3> QED BY <3>1, <3>2
  <2>5. FramesAt(cut2)'
    BY <1>11, <1>17, <2>2, <2>3, <2>4 DEF FramesAt
  <2> QED BY <2>1, <2>5 DEF FramesInv
<1>19. PathTypeOK'
  <2>1. Len(frames') = sent'
    BY <1>1, <1>2, <1>10, <1>11
  <2> QED BY <1>1, <1>2, <1>11, <2>1 DEF PathTypeOK, RecInv, TunnelInv
<1> QED BY <1>18, <1>19

\* What the handler reads of a frame that opens continues what it had read.
LEMMA BackReadsEffect ==
    ASSUME PathInv, TunnelInv', BackReads, UNCHANGED <<recVars, frames>>, got' # got
    PROVE  /\ Len(got') = Len(got) + 1
           /\ handed' \in Seq(1..MaxBytes) /\ Len(handed') \in Nat
           /\ Len(handed) < Len(handed') /\ Len(handed') <= Len(plain)
           /\ \A i \in 1..Len(handed') : handed'[i] = i
           /\ FramesInv'
<1>1. /\ frames \in Seq(Seq(1..MaxBytes)) /\ Len(frames) \in Nat /\ Len(frames) = sent
      /\ Len(got) \in Nat /\ got \in Seq(1..MaxFrames)
      /\ handed \in Seq(1..MaxBytes) /\ Len(handed) \in Nat /\ MaxBytes \in Nat /\ Len(plain) \in Nat
  BY PathTypes
<1>2. /\ got' = Append(got, rd + 1 - Preface) /\ UNCHANGED <<sent, fin, plain, over>>
      /\ handed' = handed \o frames[got'[Len(got')]]
  BY DEF BackReads, BackFrame, front, recVars
<1>3. Len(got') = Len(got) + 1
  BY <1>1, <1>2
<1>4. Len(got') <= Len(frames) /\ got'[Len(got')] = Len(got')
  <2>1. Len(got') <= sent' /\ \A i \in 1..Len(got') : got'[i] = i
    BY DEF TunnelInv
  <2>2. Len(got') \in 1..Len(got')
    BY <1>1, <1>3
  <2> QED BY <1>1, <1>2, <2>1, <2>2
<1>5. PICK g \in 1..Len(frames) : g = Len(got) + 1
  BY <1>1, <1>3, <1>4
<1>6. PICK f \in Seq(1..MaxBytes) : f = frames[g]
  BY <1>1, <1>5
<1>7. handed' = handed \o f /\ Len(got') = g /\ Len(f) \in Nat
  <2>1. Len(got') = g /\ got'[Len(got')] = g
    BY <1>3, <1>4, <1>5
  <2>2. handed' = handed \o f
    BY <1>2, <1>6, <2>1
  <2> QED BY <1>6, <2>1, <2>2
<1>8. handed' \in Seq(1..MaxBytes) /\ Len(handed') = Len(handed) + Len(f)
  BY <1>1, <1>6, <1>7
<1>9. PICK cut \in [1..(Len(frames) + 1) -> 0..MaxBytes] : FramesAt(cut)
  BY DEF PathInv, FramesInv
<1>10. Piece(f, cut[g], cut[g + 1]) /\ Len(handed) = cut[g] /\ cut[g + 1] <= Len(plain)
  <2>1. g + 1 \in 1..(Len(frames) + 1)
    BY <1>1, <1>5
  <2> QED BY <1>5, <1>6, <1>9, <2>1 DEF FramesAt
<1>11. f # << >> /\ cut[g + 1] = Len(handed) + Len(f) /\ \A i \in 1..Len(f) : f[i] = Len(handed) + i
  BY <1>10 DEF Piece
<1>12. Len(f) > 0
  BY <1>6, <1>7, <1>11
<1>13. ASSUME NEW i \in 1..Len(handed') PROVE handed'[i] = i
  <2>1. CASE i <= Len(handed)
    <3>1. i \in 1..Len(handed) /\ handed'[i] = handed[i]
      BY <1>1, <1>6, <1>7, <1>8, <2>1
    <3> QED BY <3>1 DEF PathInv
  <2>2. CASE i > Len(handed)
    <3>1. i - Len(handed) \in 1..Len(f) /\ handed'[i] = f[i - Len(handed)]
      BY <1>1, <1>6, <1>7, <1>8, <2>2
    <3>2. handed'[i] = Len(handed) + (i - Len(handed)) /\ i \in Int
      BY <1>11, <3>1
    <3> QED BY <1>1, <3>2
  <2>3. i \in Int
    OBVIOUS
  <2> QED BY <1>1, <2>1, <2>2, <2>3
<1>14. FramesInv'
  <2>1. Len(handed') = cut[Len(got') + 1]
    BY <1>7, <1>8, <1>11
  <2>2. FramesAt(cut)'
    BY <1>2, <1>9, <2>1 DEF FramesAt
  <2> QED BY <1>9, <2>2 DEF FramesInv
<1>15. Len(handed') \in Nat /\ Len(handed) < Len(handed') /\ Len(handed') <= Len(plain)
  BY <1>1, <1>7, <1>8, <1>10, <1>11, <1>12
<1> QED BY <1>3, <1>8, <1>13, <1>14, <1>15

\* The invariant of the path.
LEMMA PathStep == PathInv /\ [PathNext]_pathVars => PathInv'
<1> SUFFICES ASSUME PathInv, [PathNext]_pathVars PROVE PathInv'
    OBVIOUS
<1>1. TunnelInv' /\ RecInv'
  <2>1. [Next]_vars /\ [RecNext]_recVars
    BY PathSteps
  <2> QED BY <2>1, TunnelStep, RecStep DEF PathInv
<1>2. Len(plain) \in Nat /\ Len(plain') \in Nat
  <2>1. (Len(plain) \in Nat)'
    BY <1>1, PlainSpan, PTL
  <2> QED BY <2>1, PathTypes
<1>3. ASSUME UNCHANGED <<sent, frames, handed>>
      PROVE  PathTypeOK' /\ \A i \in 1..Len(handed') : handed'[i] = i
  BY <1>1, <1>3 DEF PathInv, PathTypeOK, TunnelInv, RecInv
<1>4. CASE Client
  <2>1. UNCHANGED <<sent, fin, back, got, frames, handed, plain, over>> /\ Sending
    BY <1>4 DEF Client, vars, front, Sending, Write, WriteRecord, WriteFails, WriteOther, CloseWrite
  <2>2. shut = "no"
    BY <2>1 DEF Sending, Write, WriteRecord, WriteFails, WriteOther, CloseWrite, PathInv, RecInv, WriterInv
  <2>3. CopyInv'
    <3>1. over = "open"
      BY <2>2 DEF PathInv, RecInv, ReaderInv
    <3> QED BY <2>1, <3>1 DEF PathInv, CopyInv, RecordEnd
  <2>4. FramesInv'
    BY <1>2, <2>1, FramesStay
  <2> QED BY <1>1, <1>3, <2>1, <2>3, <2>4 DEF PathInv
<1>5. ASSUME NEW n \in ReadSizes, Upload(n) PROVE PathInv'
  <2>1. ~fin' /\ over' = "open" /\ handed' = handed
    BY <1>5 DEF Upload, FrontWrite, Read, ReadData
  <2>2. FramesInv' /\ PathTypeOK'
    BY <1>1, <1>5, UploadKeeps
  <2>3. CopyInv'
    BY <2>1 DEF CopyInv, RecordEnd
  <2> QED BY <1>1, <2>1, <2>2, <2>3 DEF PathInv
<1>6. ASSUME NEW n \in ReadSizes, UploadFails(n) PROVE PathInv'
  <2>1. /\ UNCHANGED <<sent, got, back, frames, handed>> /\ fin' /\ over' = "open"
        /\ back \in {"refused", "broken"} /\ Read(n)
    BY <1>6 DEF UploadFails, FrontCloseWrite, Read, ReadData
  <2>2. Len(plain) <= Len(plain')
    <3>1. PICK k \in 1..Len(Data) : Len(plain') = Len(plain) + k
      BY <2>1, ReadEffect DEF PathInv
    <3>2. k \in Nat
      BY <2>1, <3>1, NextData DEF PathInv
    <3> QED BY <1>2, <3>1, <3>2
  <2>3. FramesInv'
    BY <1>2, <2>1, <2>2, FramesStay
  <2>4. CopyInv'
    BY <2>1 DEF CopyInv, RecordEnd
  <2> QED BY <1>1, <1>3, <2>1, <2>3, <2>4 DEF PathInv
<1>7. CASE UploadWaits
  <2>1. UNCHANGED <<sent, fin, back, got, frames, handed, plain>> /\ ~fin
    BY <1>7 DEF UploadWaits, vars, front, Skip, ReadEOF, ReadError
  <2>2. RecordEnd' = "eof" => wire' = << >> /\ readBuf' = << >>
    BY <1>7 DEF UploadWaits, Skip, ReadEOF, ReadError, RecordEnd, writer
  <2>3. CopyInv'
    BY <2>1, <2>2 DEF CopyInv
  <2>4. FramesInv'
    BY <1>2, <2>1, FramesStay
  <2> QED BY <1>1, <1>3, <2>1, <2>3, <2>4 DEF PathInv
<1>8. CASE UploadEnds \/ UNCHANGED pathVars
  <2>1. /\ UNCHANGED <<sent, back, got, frames, handed, plain, over, shut, wire, readBuf>>
        /\ over # "open" \/ fin' = fin
    BY <1>8 DEF UploadEnds, FrontCloseWrite, pathVars, vars, front, recVars, writer
  <2>2. CopyInv'
    BY <2>1 DEF CopyInv, PathInv, RecordEnd
  <2>3. FramesInv'
    BY <1>2, <2>1, FramesStay
  <2> QED BY <1>1, <1>3, <2>1, <2>2, <2>3 DEF PathInv
<1>9. CASE Tunnel
  <2>1. /\ UNCHANGED <<sent, fin, frames, plain, over, shut, wire, readBuf>>
        /\ back \in {"refused", "broken"} => back' = back
    BY <1>9 DEF Tunnel, BackReads, Arrive, BackBase, BackExtra, BackExtraMissing, BackFrame,
                BackEOF, front, recVars, writer
  <2>2. CopyInv'
    BY <2>1 DEF CopyInv, PathInv, RecordEnd
  <2>3. CASE got' = got
    <3>1. handed' = handed
      BY <1>9, <2>3 DEF Tunnel, BackReads
    <3>2. FramesInv'
      BY <1>2, <2>1, <2>3, <3>1, FramesStay
    <3> QED BY <1>1, <1>3, <2>1, <2>2, <3>1, <3>2 DEF PathInv
  <2>4. CASE got' # got
    <3>1. BackReads /\ UNCHANGED <<recVars, frames>>
      BY <1>9, <2>4 DEF Tunnel, Arrive, BackBase, BackExtra, BackExtraMissing, BackEOF
    <3>2. /\ handed' \in Seq(1..MaxBytes) /\ FramesInv'
          /\ \A i \in 1..Len(handed') : handed'[i] = i
      BY <1>1, <2>4, <3>1, BackReadsEffect
    <3>3. PathTypeOK'
      BY <1>1, <2>1, <3>2 DEF PathInv, PathTypeOK, TunnelInv, RecInv
    <3> QED BY <1>1, <2>2, <3>2, <3>3 DEF PathInv
  <2> QED BY <2>3, <2>4
<1> QED BY <1>4, <1>5, <1>6, <1>7, <1>8, <1>9 DEF PathNext, Copying, CopyFails

LEMMA PathStart == PathInit => PathInv
<1> SUFFICES ASSUME PathInit PROVE PathInv
    OBVIOUS
<1>1. TunnelInv /\ RecInv
  BY TunnelInit, RecStart DEF PathInit
<1>2. /\ frames = << >> /\ handed = << >> /\ sent = 0 /\ got = << >> /\ plain = << >>
      /\ fin = FALSE /\ over = "open"
  BY DEF PathInit, Init, RecInit
<1>3. Len(frames) = 0 /\ Len(handed) = 0 /\ Len(got) = 0 /\ Len(plain) = 0
  BY <1>2
<1>4. PathTypeOK
  <2>1. frames \in Seq(Seq(1..MaxBytes)) /\ handed \in Seq(1..MaxBytes) /\ Len(frames) = sent
    BY <1>2
  <2> QED BY <1>1, <2>1 DEF PathTypeOK, TunnelInv, RecInv
<1>5. CopyInv
  BY <1>2 DEF CopyInv, RecordEnd
<1>6. FramesInv
  <2> DEFINE cut == [j \in 1..1 |-> 0]
  <2>1. /\ 1..(Len(frames) + 1) = {1} /\ 1..Len(frames) = {} /\ 0 \in 0..MaxBytes /\ 1..1 = {1}
        /\ Len(frames) + 1 = 1 /\ Len(got) + 1 = 1
    BY <1>3, RecordBounds
  <2>2. cut \in [1..(Len(frames) + 1) -> 0..MaxBytes] /\ cut[1] = 0
    BY <2>1
  <2> HIDE DEF cut
  <2>3. FramesAt(cut)
    BY <1>3, <2>1, <2>2 DEF FramesAt
  <2> QED BY <2>2, <2>3 DEF FramesInv
<1> QED BY <1>1, <1>3, <1>4, <1>5, <1>6 DEF PathInv

\* The invariant of the path: the frames are consecutive pieces of what the
\* client wrote, and the handler stands where one begins.
THEOREM PathInvariance == PathSpec => []PathInv
BY PathStart, PathStep, PTL DEF PathSpec

\* Every variable of the path keeps its type, and the tunnel has carried as
\* many frames as the front has written.
THEOREM PathTypeCorrect == PathSpec => []PathTypeOK
<1>1. PathInv => PathTypeOK
  BY DEF PathInv
<1> QED BY <1>1, PathInvariance, PTL

\* Joined by the front's copy, each hop is what it is alone: the connection to
\* the client and the tunnel are byte streams, and every record has a legal
\* length.
THEOREM PathHops == PathSpec => RecordsAreStream /\ TunnelIsStream /\ []RecordsFit
<1>1. PathSpec => Spec /\ RecSpec
  BY PathSteps, PTL DEF PathSpec, PathInit, Spec, RecSpec
<1> QED BY <1>1, RecordsRefineStream, TunnelRefinesStream, RecordsFitInvariance

LEMMA HandedPrefix ==
    ASSUME NEW S, NEW s \in Seq(S), NEW n \in Nat, Len(s) <= n, \A i \in 1..Len(s) : s[i] = i
    PROVE  PathStream!IsPrefix(s, Span(0, n))
<1>1. Len(Span(0, n)) = n /\ Span(0, n) \in Seq(Nat) /\ \A i \in 1..n : Span(0, n)[i] = i
  BY SpanFromStart
<1>2. Len(s) \in Nat
  OBVIOUS
<1>3. SubSeq(s, 1, Len(s)) = SubSeq(Span(0, n), 1, Len(s))
  BY <1>1, <1>2
<1> QED BY <1>1, <1>2, <1>3 DEF PathStream!IsPrefix

\* Every step of the path is one of the stream between the client and the
\* handler, or none.
LEMMA PathStreamStep ==
    PathInv /\ PathInv' /\ [PathNext]_pathVars => [PathStream!Next]_(PathStream!vars)
<1> SUFFICES ASSUME PathInv, PathInv', [PathNext]_pathVars
             PROVE  [PathStream!Next]_(PathStream!vars)
    OBVIOUS
<1>0. enc \in Nat /\ Len(plain) <= enc /\ Len(plain) \in Nat /\ Len(handed) \in Nat
  BY PathTypes
<1>1. ASSUME UNCHANGED <<enc, handed>>, (shut' = "fin") = (shut = "fin"), PathEnd' = PathEnd
      PROVE  UNCHANGED PathStream!vars
  BY <1>1 DEF PathStream!vars
<1>2. CASE Client
  <2>1. UNCHANGED <<back, handed, over>> /\ Sending
    BY <1>2 DEF Client, vars, Sending, Write, WriteRecord, WriteFails, WriteOther, CloseWrite
  <2>2. UNCHANGED PathEnd
    <3>1. shut = "no"
      BY <2>1 DEF Sending, Write, WriteRecord, WriteFails, WriteOther, CloseWrite, PathInv, RecInv, WriterInv
    <3>2. over = "open"
      BY <3>1 DEF PathInv, RecInv, ReaderInv
    <3> QED BY <2>1, <3>2 DEF PathEnd, BackEnd, RecordEnd
  <2>3. ASSUME NEW n \in 1..MaxBytes, Write(n) PROVE PathStream!Write
    <3>1. shut = "no" /\ enc' = enc + n /\ shut' = shut
      BY <2>3 DEF Write
    <3>2. n \in Nat /\ n > 0 /\ enc + n \in Nat
      BY <1>0, RecordBounds
    <3>3. /\ Len(Span(0, enc)) = enc /\ Len(Span(0, enc + n)) = enc + n
          /\ Span(0, enc) \in Seq(Nat) /\ \A i \in 1..enc : Span(0, enc)[i] = i
      BY <1>0, <3>2, SpanFromStart
    <3>4. PathStream!IsPrefix(Span(0, enc), Span(0, enc'))
      BY <1>0, <3>1, <3>2, <3>3, HandedPrefix
    <3>5. Span(0, enc) # Span(0, enc')
      BY <1>0, <3>1, <3>2, <3>3
    <3> QED BY <2>1, <2>2, <3>1, <3>4, <3>5 DEF PathStream!Write, PathStream!IsStrictPrefix
  <2>4. CASE CloseWrite
    <3>1. shut = "no" /\ shut' = "fin" /\ enc' = enc
      BY <2>4 DEF CloseWrite
    <3> QED BY <2>1, <2>2, <3>1 DEF PathStream!CloseWrite, PathStream!Next
  <2>5. ASSUME (\E n \in 1..MaxBytes : WriteRecord(n)) \/ WriteFails \/ WriteOther
        PROVE  UNCHANGED PathStream!vars
    <3>1. enc' = enc /\ (shut' = "fin") = (shut = "fin")
      BY <2>5 DEF WriteRecord, WriteFails, WriteOther, writer
    <3> QED BY <1>1, <2>1, <2>2, <3>1
  <2> QED BY <2>1, <2>3, <2>4, <2>5 DEF Sending, PathStream!Next
<1>3. ASSUME (\E n \in ReadSizes : Upload(n) \/ UploadFails(n)) \/ UploadWaits \/ UploadEnds
             \/ UNCHANGED pathVars
      PROVE  UNCHANGED PathStream!vars
  <2>1. UNCHANGED <<enc, shut, handed, back>>
    BY <1>3 DEF Upload, UploadFails, UploadWaits, UploadEnds, Read, ReadData, Skip, ReadEOF, ReadError,
                FrontWrite, FrontCloseWrite, vars, recVars, writer, pathVars
  <2>2. over' = over \/ ~fin
    BY <1>3 DEF Upload, UploadFails, UploadWaits, UploadEnds, Read, ReadData, recVars, pathVars
  <2>3. back = "eof" => fin
    BY DEF PathInv, TunnelInv
  <2>4. UNCHANGED PathEnd
    BY <2>1, <2>2, <2>3 DEF PathEnd, BackEnd, RecordEnd
  <2> QED BY <1>1, <2>1, <2>4
<1>4. CASE Tunnel
  <2>1. UNCHANGED <<enc, shut, over, plain, recVars, frames>>
    BY <1>4 DEF Tunnel, recVars, writer
  <2>2. CASE got' # got
    <3>1. BackReads /\ back = "frames" /\ back' = "frames"
      BY <1>4, <2>2 DEF Tunnel, Arrive, BackBase, BackExtra, BackExtraMissing, BackEOF, BackReads, BackFrame
    <3>2. PathEnd = "open" /\ PathEnd' = "open"
      BY <3>1 DEF PathEnd, BackEnd
    <3>3. /\ handed' \in Seq(1..MaxBytes) /\ Len(handed') \in Nat
          /\ Len(handed) < Len(handed') /\ Len(handed') <= Len(plain)
          /\ \A i \in 1..Len(handed') : handed'[i] = i
      <4>1. TunnelInv'
        BY DEF PathInv
      <4> QED BY <2>1, <2>2, <3>1, <4>1, BackReadsEffect
    <3>4. PathStream!IsPrefix(handed', Span(0, enc))
      <4>1. PICK h \in Seq(1..MaxBytes) : h = handed'
        BY <3>3
      <4>2. Len(h) <= enc /\ \A i \in 1..Len(h) : h[i] = i
        BY <1>0, <3>3, <4>1
      <4>3. PathStream!IsPrefix(h, Span(0, enc))
        BY <1>0, <4>1, <4>2, HandedPrefix
      <4> QED BY <4>1, <4>3
    <3>5. PathStream!IsStrictPrefix(handed, handed')
      <4>1. handed \in Seq(1..MaxBytes) /\ \A i \in 1..Len(handed) : handed[i] = i
        BY PathTypes DEF PathInv
      <4>2. PICK h \in Seq(1..MaxBytes) : h = handed'
        BY <3>3
      <4>3. /\ Len(handed) < Len(h) /\ Len(h) \in Nat /\ \A i \in 1..Len(h) : h[i] = i
        BY <3>3, <4>2
      <4>4. SubSeq(h, 1, Len(handed)) = SubSeq(handed, 1, Len(handed))
        BY <1>0, <4>1, <4>2, <4>3
      <4>5. PathStream!IsStrictPrefix(handed, h)
        BY <1>0, <4>3, <4>4 DEF PathStream!IsStrictPrefix, PathStream!IsPrefix
      <4> QED BY <4>2, <4>5
    <3> QED BY <2>1, <3>2, <3>4, <3>5 DEF PathStream!Deliver, PathStream!Next
  <2>3. CASE got' = got
    <3>1. handed' = handed
      BY <1>4, <2>3 DEF Tunnel, BackReads
    <3>2. CASE BackEOF
      <4>1. back = "frames" /\ back' = "eof" /\ PathEnd = "open"
        BY <3>2 DEF BackEOF, PathEnd, BackEnd
      <4>2. CASE RecordEnd = "eof"
        <5>1. PathEnd' = "eof"
          BY <2>1, <4>1, <4>2 DEF PathEnd, BackEnd, RecordEnd
        <5>2. over = "eof" /\ shut = "fin" /\ Len(plain) = enc
          BY <4>2, PlainSpan DEF PathInv, CopyInv, RecordEnd
        <5>3. Len(got) = Len(frames)
          <6>1. Len(got') = sent'
            BY <4>1 DEF PathInv, TunnelInv
          <6> QED BY <2>3, <3>2, <6>1, PathTypes DEF BackEOF, front
        <5>4. PICK cut \in [1..(Len(frames) + 1) -> 0..MaxBytes] : FramesAt(cut)
          BY DEF PathInv, FramesInv
        <5>5. Len(handed) = enc
          BY <4>2, <5>2, <5>3, <5>4 DEF FramesAt
        <5>6. handed = Span(0, enc)
          <6>1. handed \in Seq(1..MaxBytes) /\ \A i \in 1..Len(handed) : handed[i] = i
            BY PathTypes DEF PathInv
          <6> QED BY <1>0, <5>5, <6>1 DEF Span
        <5> QED BY <2>1, <3>1, <4>1, <5>1, <5>2, <5>6 DEF PathStream!EOF, PathStream!Next
      <4>3. CASE RecordEnd # "eof"
        <5>1. PathEnd' = "error"
          BY <2>1, <4>1, <4>3 DEF PathEnd, BackEnd, RecordEnd
        <5> QED BY <2>1, <3>1, <4>1, <5>1 DEF PathStream!Break, PathStream!Next
      <4> QED BY <4>2, <4>3
    <3>3. CASE ~BackEOF
      <4>1. PathEnd' = PathEnd \/ (PathEnd = "open" /\ PathEnd' = "error")
        BY <1>4, <2>1, <3>3
           DEF Tunnel, Arrive, BackBase, BackExtra, BackExtraMissing, BackReads, BackFrame,
               PathEnd, BackEnd, RecordEnd
      <4>2. CASE PathEnd' = PathEnd
        BY <1>1, <2>1, <3>1, <4>2
      <4>3. CASE PathEnd = "open" /\ PathEnd' = "error"
        BY <2>1, <3>1, <4>3 DEF PathStream!Break, PathStream!Next
      <4> QED BY <4>1, <4>2, <4>3
    <3> QED BY <3>2, <3>3
  <2> QED BY <2>2, <2>3
<1> QED BY <1>2, <1>3, <1>4 DEF PathNext, Copying, CopyFails

\* From the client's Write to the handler on the back, a front in front mode is
\* one byte stream: whatever the record sizes, the buffers, the kind of front,
\* the timing of the handshake and the place of a failure.
THEOREM PathRefinesStream == PathSpec => PathIsStream
<1>1. PathInit => PathStream!Init
  <2> SUFFICES ASSUME PathInit PROVE PathStream!Init
      OBVIOUS
  <2>1. Span(0, enc) = << >>
    BY DEF PathInit, RecInit, Span
  <2>2. PathEnd = "open"
    BY DEF PathInit, Init, PathEnd, BackEnd
  <2> QED BY <2>1, <2>2 DEF PathInit, RecInit, PathStream!Init
<1> QED BY <1>1, PathInvariance, PathStreamStep, PTL
        DEF PathSpec, PathIsStream, PathStream!Spec
=============================================================================
