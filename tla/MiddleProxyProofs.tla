------------------------- MODULE MiddleProxyProofs -------------------------
(***************************************************************************)
(* Proofs about a session through the middle proxy, for any number of      *)
(* endpoints and of frames in both directions.                             *)
(*                                                                         *)
(* Download: every word the ME wrote has its place in the stream, frames   *)
(* begin on whole blocks, and readFrame is at the word its step asks for,  *)
(* whatever has been decrypted ahead of it.  Upload: every unit of the     *)
(* client's stream has its place, and wbuf begins where the next frame     *)
(* does, however io.Copy cut the stream.                                   *)
(***************************************************************************)
EXTENDS MiddleProxy, SequenceTheorems, TLAPS

-----------------------------------------------------------------------------
(* Blocks and sequences *)

LEMMA Padding ==
    ASSUME NEW n \in Nat
    PROVE  framePadding(n) \in 0..3 /\ (n + framePadding(n)) % 4 = 0
BY DEF framePadding, cbcBlock

LEMMA Aligned ==
    ASSUME NEW n \in Nat
    PROVE  /\ alignedCipherReadSize(n) \in Nat /\ alignedCipherReadSize(n) >= n
           /\ alignedCipherReadSize(n) < n + 4 /\ alignedCipherReadSize(n) % 4 = 0
BY DEF alignedCipherReadSize, cbcBlock

LEMMA Blocks ==
    ASSUME NEW m \in Int, NEW n \in Int, m % 4 = 0, n % 4 = 0
    PROVE  (m + n) % 4 = 0 /\ (m - n) % 4 = 0 /\ (m < n => m + 4 <= n)
OBVIOUS

LEMMA FrameFacts ==
    ASSUME NEW kind \in DownKinds
    PROVE  /\ DataWords[kind] \in Nat /\ FrameLen(kind) \in Nat /\ FrameLen(kind) % 4 = 0
           /\ FrameLen(kind) >= DataWords[kind] + 3 /\ FrameLen(kind) < DataWords[kind] + 7
<1>1. DataWords[kind] \in Nat
  <2>1. \A k \in DOMAIN DataWords : DataWords[k] \in Nat
    BY DEF DataWords
  <2> QED BY <2>1, Bounds
<1>2. PICK d \in Nat : d = DataWords[kind]
  BY <1>1
<1>3. framePadding(d + 3) \in 0..3 /\ ((d + 3) + framePadding(d + 3)) % 4 = 0
  BY Padding
<1>4. FrameLen(kind) = (d + 3) + framePadding(d + 3)
  BY <1>2, <1>3 DEF FrameLen
<1>5. PICK q \in 0..3 : q = framePadding(d + 3)
  BY <1>3
<1>6. /\ (d + 3) + q \in Nat /\ ((d + 3) + q) % 4 = 0
      /\ (d + 3) + q >= d + 3 /\ (d + 3) + q < d + 7
  <2>1. ((d + 3) + q) % 4 = 0
    BY <1>3, <1>5, Zenon
  <2>2. q \in Nat /\ q <= 3
    BY <1>5
  <2> QED BY <2>1, <2>2
<1>7. FrameLen(kind) = (d + 3) + q
  BY <1>4, <1>5
<1> QED BY <1>2, <1>6, <1>7

\* The words of a frame.
LEMMA EncodeFacts ==
    ASSUME NEW kind \in DownKinds, NEW seq \in Int
    PROVE  /\ Encode(kind, seq) \in Seq(Word) /\ Len(Encode(kind, seq)) = FrameLen(kind)
           /\ Encode(kind, seq)[1] = <<"len", 4 * DataWords[kind] + 12>>
           /\ Encode(kind, seq)[2] = <<"seq", seq>>
           /\ Encode(kind, seq)[DataWords[kind] + 3] = <<"crc", kind>>
           /\ \A j \in 1..FrameLen(kind) : j > DataWords[kind] + 3 => Encode(kind, seq)[j] = Filler
<1>1. /\ DataWords[kind] \in Nat /\ FrameLen(kind) \in Nat /\ FrameLen(kind) >= DataWords[kind] + 3
  BY FrameFacts
<1>2. PICK d \in Nat : d = DataWords[kind]
  BY <1>1
<1>3. PICK n \in Nat : n = FrameLen(kind) /\ n >= d + 3
  BY <1>1, <1>2
<1>4. PICK e : e = [j \in 1..n |->
                IF j = 1 THEN <<"len", 4 * d + 12>>
                ELSE IF j = 2 THEN <<"seq", seq>>
                ELSE IF j <= d + 2 THEN <<"data", kind>>
                ELSE IF j = d + 3 THEN <<"crc", kind>>
                ELSE Filler]
  OBVIOUS
<1>5. e = Encode(kind, seq)
  BY <1>2, <1>3, <1>4 DEF Encode
<1>6. e \in Seq(Word) /\ Len(e) = n
  <2>1. /\ <<"len", 4 * d + 12>> \in Word /\ <<"seq", seq>> \in Word /\ <<"data", kind>> \in Word
        /\ <<"crc", kind>> \in Word /\ Filler \in Word
    BY DEF Word, Filler
  <2>2. e \in [1..n -> Word]
    BY <1>4, <2>1
  <2> QED BY <2>2
<1>7. /\ e[1] = <<"len", 4 * d + 12>> /\ e[2] = <<"seq", seq>> /\ e[d + 3] = <<"crc", kind>>
      /\ \A j \in 1..n : j > d + 3 => e[j] = Filler
  <2>1. 1 \in 1..n /\ 2 \in 1..n /\ d + 3 \in 1..n
    BY <1>3
  <2>2. e[1] = <<"len", 4 * d + 12>>
    BY <1>4, <2>1
  <2>3. e[2] = <<"seq", seq>>
    BY <1>4, <2>1
  <2>4. e[d + 3] = <<"crc", kind>>
    BY <1>4, <2>1
  <2>5. \A j \in 1..n : j > d + 3 => e[j] = Filler
    BY <1>4
  <2> QED BY <2>2, <2>3, <2>4, <2>5
<1> QED BY <1>2, <1>3, <1>5, <1>6, <1>7

\* Moving the beginning of one sequence to the end of another.
LEMMA Regroup ==
    ASSUME NEW S, NEW s \in Seq(S), NEW t \in Seq(S), NEW n \in 0..Len(t)
    PROVE  /\ SubSeq(t, 1, n) \in Seq(S) /\ Len(SubSeq(t, 1, n)) = n
           /\ SubSeq(t, n + 1, Len(t)) \in Seq(S) /\ Len(SubSeq(t, n + 1, Len(t))) = Len(t) - n
           /\ (s \o SubSeq(t, 1, n)) \o SubSeq(t, n + 1, Len(t)) = s \o t
           /\ \A i \in 1..(Len(t) - n) : SubSeq(t, n + 1, Len(t))[i] = t[n + i]
<1>1. PICK a : a = SubSeq(t, 1, n)
  OBVIOUS
<1>2. PICK b : b = SubSeq(t, n + 1, Len(t))
  OBVIOUS
<1>3. a \in Seq(S) /\ Len(a) = n /\ \A i \in 1..n : a[i] = t[i]
  BY <1>1
<1>4. b \in Seq(S) /\ Len(b) = Len(t) - n /\ \A i \in 1..(Len(t) - n) : b[i] = t[n + i]
  BY <1>2
<1>5. t = a \o b
  <2>1. a \o b = SubSeq(t, 1, Len(t))
    <3>1. 1 \in 1..(Len(t) + 1) /\ n \in (1 - 1)..Len(t) /\ Len(t) \in n..Len(t)
      OBVIOUS
    <3>2. SubSeq(t, 1, n) \o SubSeq(t, n + 1, Len(t)) = SubSeq(t, 1, Len(t))
      BY <3>1, ConcatAdjacentSubSeq
    <3> QED BY <1>1, <1>2, <3>2
  <2> QED BY <2>1, SubSeqFull
<1>6. (s \o a) \o b = s \o (a \o b)
  BY <1>3, <1>4, ConcatAssociative
<1> QED BY <1>1, <1>2, <1>3, <1>4, <1>5, <1>6

\* Dropping the beginning of the first of two sequences, and of three.
LEMMA DropConcat ==
    ASSUME NEW s \in Seq(Word), NEW t \in Seq(Word), NEW n \in 0..Len(s)
    PROVE  SubSeq(s, n + 1, Len(s)) \o t = SubSeq(s \o t, n + 1, Len(s \o t))
<1>1. PICK b : b = SubSeq(s, n + 1, Len(s))
  OBVIOUS
<1>2. b \in Seq(Word) /\ Len(b) = Len(s) - n /\ \A i \in 1..(Len(s) - n) : b[i] = s[n + i]
  BY <1>1, Regroup
<1>3. Len(s) \in Nat /\ Len(t) \in Nat /\ n \in Nat
  OBVIOUS
<1>4. b \o t \in Seq(Word) /\ Len(b \o t) = Len(s) + Len(t) - n
  <2>1. b \o t \in Seq(Word) /\ Len(b \o t) = Len(b) + Len(t)
    BY <1>2, ConcatProperties
  <2>2. Len(b) + Len(t) = Len(s) + Len(t) - n
    BY <1>2, <1>3
  <2> QED BY <2>1, <2>2
<1>5. ASSUME NEW x \in 1..(Len(s) + Len(t) - n)
      PROVE  (b \o t)[x] = (s \o t)[n + x]
  <2>1. CASE x <= Len(s) - n
    <3>1. x \in 1..Len(b) /\ n + x \in 1..Len(s)
      BY <1>2, <1>3, <2>1
    <3>2. (b \o t)[x] = b[x] /\ (s \o t)[n + x] = s[n + x]
      BY <1>2, <3>1
    <3> QED BY <1>2, <3>1, <3>2
  <2>2. CASE x > Len(s) - n
    <3>1. (b \o t)[x] = t[x - Len(b)]
      BY <1>2, <1>3, <2>2
    <3>2. (s \o t)[n + x] = t[(n + x) - Len(s)]
      BY <1>3, <2>2
    <3>3. x - Len(b) = (n + x) - Len(s)
      BY <1>2, <1>3
    <3> QED BY <3>1, <3>2, <3>3
  <2>3. x <= Len(s) - n \/ x > Len(s) - n
    BY <1>3
  <2> QED BY <2>1, <2>2, <2>3, Zenon
<1>6. PICK c : c = s \o t /\ c \in Seq(Word) /\ Len(c) = Len(s) + Len(t)
  <2>1. s \o t \in Seq(Word) /\ Len(s \o t) = Len(s) + Len(t)
    OBVIOUS
  <2> QED BY <2>1
<1>7. PICK d : d = SubSeq(c, n + 1, Len(c))
  OBVIOUS
<1>8. d \in Seq(Word) /\ Len(d) = Len(s) + Len(t) - n /\ \A x \in 1..(Len(s) + Len(t) - n) : d[x] = c[n + x]
  BY <1>3, <1>6, <1>7, Regroup
<1>9. PICK a : a = b \o t
  OBVIOUS
<1>10. a = d
  <2>1. a \in Seq(Word) /\ Len(a) = Len(d) /\ d \in Seq(Word)
    BY <1>4, <1>8, <1>9
  <2>2. \A x \in 1..Len(a) : a[x] = d[x]
    BY <1>4, <1>5, <1>6, <1>8, <1>9
  <2> QED BY <2>1, <2>2, SeqEqual
<1> QED BY <1>1, <1>6, <1>7, <1>9, <1>10

LEMMA DropWords ==
    ASSUME NEW s \in Seq(Word), NEW t \in Seq(Word), NEW u \in Seq(Word), NEW n \in 0..Len(s)
    PROVE  (SubSeq(s, n + 1, Len(s)) \o t) \o u = SubSeq((s \o t) \o u, n + 1, Len((s \o t) \o u))
<1>1. s \o t \in Seq(Word) /\ n \in 0..Len(s \o t)
  OBVIOUS
<1>2. SubSeq(s, n + 1, Len(s)) \o t = SubSeq(s \o t, n + 1, Len(s \o t))
  BY DropConcat
<1>3. SubSeq(s \o t, n + 1, Len(s \o t)) \o u = SubSeq((s \o t) \o u, n + 1, Len((s \o t) \o u))
  BY <1>1, DropConcat
<1> QED BY <1>2, <1>3

LEMMA ConcatBegins ==
    ASSUME NEW S, NEW s \in Seq(S), NEW t \in Seq(S)
    PROVE  /\ s \o t \in Seq(S) /\ Len(s \o t) = Len(s) + Len(t)
           /\ \A x \in 1..Len(s) : (s \o t)[x] = s[x]
OBVIOUS

LEMMA LeftFacts ==
    ASSUME TypeOK
    PROVE  /\ Left \in Seq(Word) /\ Len(Left) = Len(buf) + Len(sock) + Len(line)
           /\ Len(buf) \in Nat /\ Len(sock) \in Nat /\ Len(line) \in Nat
           /\ \A x \in 1..Len(buf) : Left[x] = buf[x]
<1>1. buf \in Seq(Word) /\ sock \in Seq(Word) /\ line \in Seq(Word)
  BY DEF TypeOK
<1>2. PICK c : c = buf \o sock
  OBVIOUS
<1>3. c \in Seq(Word) /\ Len(c) = Len(buf) + Len(sock) /\ \A x \in 1..Len(buf) : c[x] = buf[x]
  BY <1>1, <1>2
<1>4. Left = c \o line
  BY <1>2 DEF Left
<1>5. /\ c \o line \in Seq(Word) /\ Len(c \o line) = Len(c) + Len(line)
      /\ \A x \in 1..Len(c) : (c \o line)[x] = c[x]
  BY <1>1, <1>3, ConcatBegins, Zenon
<1>6. Len(buf) \in Nat /\ Len(sock) \in Nat /\ Len(line) \in Nat
  BY <1>1
<1>7. \A x \in 1..Len(buf) : x \in 1..Len(c)
  BY <1>3, <1>6
<1>8. \A x \in 1..Len(buf) : Left[x] = buf[x]
  BY <1>3, <1>4, <1>5, <1>7
<1> QED BY <1>3, <1>4, <1>5, <1>6, <1>8

LEMMA PosFacts ==
    ASSUME TypeOK, WordInv
    PROVE  /\ Len(frames) \in Nat /\ At(Len(frames) + 1) \in Nat /\ Len(Left) \in Nat
           /\ Pos \in Nat /\ Pos + Len(Left) = At(Len(frames) + 1)
<1>1. Len(frames) \in Nat
  BY DEF TypeOK
<1>2. At(Len(frames) + 1) \in Nat /\ Pos >= 0
  BY <1>1 DEF WordInv
<1>3. Len(Left) \in Nat
  BY LeftFacts
<1> QED BY <1>1, <1>2, <1>3 DEF Pos

\* Words that move from one buffer to the next keep their places.
LEMMA WordsStay ==
    ASSUME TypeOK, WordInv, UNCHANGED <<frames, ends>>, Left' = Left,
           Len(line') % cbcBlock = 0, Len(sock') % cbcBlock = 0
    PROVE  WordInv' /\ Pos' = Pos /\ \A i : At(i)' = At(i)
<1>1. \A i : At(i)' = At(i)
  BY DEF At
<1>2. Pos' = Pos
  BY <1>1 DEF Pos
<1>3. WordInv'
  BY <1>1, <1>2 DEF WordInv
<1> QED BY <1>1, <1>2, <1>3

\* The reader takes m words.
LEMMA WordsTaken ==
    ASSUME TypeOK, WordInv, NEW m \in 0..Len(buf), buf' = SubSeq(buf, m + 1, Len(buf)),
           UNCHANGED <<sock, line, frames, ends>>
    PROVE  /\ WordInv' /\ Pos' = Pos + m /\ (\A i : At(i)' = At(i))
           /\ buf' \in Seq(Word) /\ Len(buf') = Len(buf) - m
<1>1. /\ Left \in Seq(Word) /\ Len(Left) = Len(buf) + Len(sock) + Len(line)
      /\ Len(buf) \in Nat /\ Len(sock) \in Nat /\ Len(line) \in Nat
      /\ buf \in Seq(Word) /\ sock \in Seq(Word) /\ line \in Seq(Word)
  BY LeftFacts DEF TypeOK
<1>2. buf' \in Seq(Word) /\ Len(buf') = Len(buf) - m
  BY <1>1, Regroup
<1>3. Left' = SubSeq(Left, m + 1, Len(Left))
  <2>1. buf \in Seq(Word) /\ sock \in Seq(Word) /\ line \in Seq(Word)
    BY <1>1
  <2>2. Left' = (SubSeq(buf, m + 1, Len(buf)) \o sock) \o line
    BY DEF Left
  <2>3. (SubSeq(buf, m + 1, Len(buf)) \o sock) \o line
          = SubSeq((buf \o sock) \o line, m + 1, Len((buf \o sock) \o line))
    BY <2>1, DropWords, ZenonT(60)
  <2> QED BY <2>2, <2>3 DEF Left
<1>4. PICK l : /\ l = Left' /\ Len(l) = Len(Left) - m
               /\ \A x \in 1..(Len(Left) - m) : l[x] = Left[m + x]
  <2>1. Left \in Seq(Word) /\ m \in 0..Len(Left)
    BY <1>1
  <2> QED BY <1>3, <2>1, Regroup
<1>5. \A i : At(i)' = At(i)
  BY DEF At
<1>6. Pos \in Nat /\ Len(Left) \in Nat /\ At(Len(frames) + 1) \in Nat /\ Pos + Len(Left) = At(Len(frames) + 1)
  BY PosFacts
<1>7. Pos' = Pos + m
  <2>1. Pos' = At(Len(frames) + 1) - Len(Left')
    BY <1>5 DEF Pos
  <2>2. Len(Left') = Len(Left) - m
    BY <1>4
  <2> QED BY <1>6, <2>1, <2>2
<1>8. ASSUME NEW i \in 1..Len(frames), NEW j \in 1..FrameLen(frames[i]), At(i) + j > Pos + m
      PROVE  l[(At(i) + j) - (Pos + m)] = Encode(frames[i], startSeqNo + i)[j]
  <2>1. /\ At(i) \in Nat /\ At(i + 1) = At(i) + FrameLen(frames[i]) /\ At(i + 1) <= At(Len(frames) + 1)
        /\ Len(frames) \in Nat
    <3>1. Len(frames) \in Nat
      BY PosFacts
    <3>2. i \in 1..(Len(frames) + 1) /\ i + 1 \in 1..(Len(frames) + 1)
      BY <3>1
    <3> QED BY <3>1, <3>2 DEF WordInv
  <2>2. frames[i] \in DownKinds
    BY DEF TypeOK
  <2>3. FrameLen(frames[i]) \in Nat
    BY <2>2, FrameFacts
  <2>4. PICK x : x = (At(i) + j) - (Pos + m)
    OBVIOUS
  <2>5. x \in 1..(Len(Left) - m) /\ m + x = (At(i) + j) - Pos /\ At(i) + j > Pos
    <3>1. PICK a \in Nat : a = At(i)
      BY <2>1
    <3>2. PICK e \in Nat : e = FrameLen(frames[i])
      BY <2>3
    <3>3. PICK p \in Nat : p = Pos
      BY <1>6
    <3>4. PICK g \in Nat : g = Len(Left)
      BY <1>6
    <3>5. a + j > p + m /\ a + e <= p + g /\ j \in 1..e /\ m \in Nat
      BY <1>1, <1>6, <1>8, <2>1, <3>1, <3>2, <3>3, <3>4
    <3>6. (a + j) - (p + m) \in 1..(g - m) /\ m + ((a + j) - (p + m)) = (a + j) - p /\ a + j > p
      BY <3>5
    <3> QED BY <2>4, <3>1, <3>3, <3>4, <3>6, Zenon
  <2>6. Left[(At(i) + j) - Pos] = Encode(frames[i], startSeqNo + i)[j]
    BY <2>5 DEF WordInv
  <2> QED BY <1>4, <2>4, <2>5, <2>6
<1>9. WordInv'
  <2>1. Pos' >= 0
    BY <1>6, <1>7
  <2>2. \A i \in 1..Len(frames) : \A j \in 1..FrameLen(frames[i]) :
           At(i) + j > Pos' => Left'[(At(i) + j) - Pos'] = Encode(frames[i], startSeqNo + i)[j]
    <3> TAKE i \in 1..Len(frames)
    <3> TAKE j \in 1..FrameLen(frames[i])
    <3>1. At(i) + j > Pos + m =>
            l[(At(i) + j) - (Pos + m)] = Encode(frames[i], startSeqNo + i)[j]
      BY <1>8
    <3>2. At(i) + j > Pos' =>
            l[(At(i) + j) - Pos'] = Encode(frames[i], startSeqNo + i)[j]
      BY <1>7, <3>1, Zenon
    <3>3. l = Left'
      BY <1>4
    <3> QED BY <3>2, <3>3
  <2> QED BY <1>5, <2>1, <2>2 DEF WordInv
<1> QED BY <1>2, <1>5, <1>7, <1>9

\* The word readFrame takes next.
LEMMA WordRead ==
    ASSUME TypeOK, WordInv, buf # << >>, NEW i \in 1..Len(frames),
           NEW j \in 1..FrameLen(frames[i]), At(i) + j = Pos + 1
    PROVE  Head(buf) = Encode(frames[i], startSeqNo + i)[j]
<1>1. Pos \in Nat
  BY PosFacts
<1>2. At(i) + j > Pos /\ (At(i) + j) - Pos = 1
  <2>1. At(i) \in Nat
    <3>1. Len(frames) \in Nat
      BY PosFacts
    <3>2. i \in 1..(Len(frames) + 1)
      BY <3>1
    <3> QED BY <3>2 DEF WordInv
  <2>2. j \in Int
    OBVIOUS
  <2> QED BY <1>1, <2>1, <2>2
<1>3. Left[1] = Encode(frames[i], startSeqNo + i)[j]
  BY <1>2 DEF WordInv
<1>4. Left[1] = buf[1] /\ Head(buf) = buf[1]
  <2>1. buf \in Seq(Word) /\ 1 \in 1..Len(buf)
    BY DEF TypeOK
  <2> QED BY <2>1, LeftFacts
<1> QED BY <1>3, <1>4

LEMMA WordsAssociative ==
    ASSUME NEW s \in Seq(Word), NEW t \in Seq(Word), NEW u \in Seq(Word)
    PROVE  s \o (t \o u) = (s \o t) \o u
BY ConcatAssociative

LEMMA TwoWords ==
    ASSUME NEW s \in Seq(Word), NEW t \in Seq(Word)
    PROVE  /\ Len(s \o t) = Len(s) + Len(t)
           /\ \A x \in 1..Len(s) : (s \o t)[x] = s[x]
           /\ \A y \in 1..Len(t) : (s \o t)[Len(s) + y] = t[y]
<1>1. Len(s \o t) = Len(s) + Len(t) /\ \A x \in 1..Len(s) : (s \o t)[x] = s[x]
  BY ConcatBegins
<1>2. ASSUME NEW y \in 1..Len(t) PROVE (s \o t)[Len(s) + y] = t[y]
  OBVIOUS
<1> QED BY <1>1, <1>2

\* A frame of the ME is put behind the words that are on their way.
LEMMA WordsSent ==
    ASSUME TypeOK, WordInv, NEW kind \in DownKinds,
           frames' = Append(frames, kind),
           ends' = Append(ends, At(Len(frames) + 1) + FrameLen(kind)),
           line' = line \o Encode(kind, startSeqNo + 1 + Len(frames)),
           UNCHANGED <<buf, sock>>
    PROVE  /\ WordInv' /\ Pos' = Pos /\ \A i \in 1..(Len(frames) + 1) : At(i)' = At(i)
           /\ line' \in Seq(Word) /\ ends' \in Seq(Nat) /\ frames' \in Seq(DownKinds)
           /\ Len(frames') = Len(frames) + 1
           /\ \A i \in 1..Len(frames) : frames'[i] = frames[i]
<1>1. PICK n \in Nat : n = Len(frames)
  BY PosFacts
<1>2. /\ frames \in Seq(DownKinds) /\ ends \in Seq(Nat) /\ Len(ends) = n
      /\ line \in Seq(Word) /\ sock \in Seq(Word) /\ buf \in Seq(Word)
  BY <1>1 DEF TypeOK, WordInv
<1>3. PICK len \in Nat : len = FrameLen(kind) /\ len % 4 = 0
  BY FrameFacts
<1>4. PICK e \in Seq(Word) : e = Encode(kind, startSeqNo + (n + 1)) /\ Len(e) = len
  <2>1. startSeqNo + (n + 1) \in Int
    BY <1>1 DEF startSeqNo
  <2> QED BY <1>3, <2>1, EncodeFacts
<1>5. PICK t \in Nat : t = At(n + 1) /\ t % 4 = 0
  <2>1. n + 1 \in 1..(n + 1)
    BY <1>1
  <2> QED BY <1>1, <2>1 DEF WordInv, cbcBlock
<1>6. line' = line \o e
  <2>1. startSeqNo + 1 + Len(frames) = startSeqNo + (n + 1)
    BY <1>1 DEF startSeqNo
  <2> QED BY <1>4, <2>1
<1>7. /\ frames' \in Seq(DownKinds) /\ Len(frames') = n + 1 /\ frames'[n + 1] = kind
      /\ \A i \in 1..n : frames'[i] = frames[i]
  BY <1>1, <1>2
<1>8. /\ ends' \in Seq(Nat) /\ Len(ends') = n + 1 /\ ends'[n + 1] = t + len
      /\ \A i \in 1..n : ends'[i] = ends[i]
  <2>1. t + len \in Nat /\ ends' = Append(ends, t + len)
    BY <1>1, <1>3, <1>5
  <2> QED BY <1>2, <2>1
<1>9. line' \in Seq(Word) /\ Len(line') = Len(line) + len
  BY <1>2, <1>4, <1>6, ConcatBegins
<1>10. \A i \in 1..(n + 1) : At(i)' = At(i)
  <2> TAKE i \in 1..(n + 1)
  <2>1. CASE i = 1
    BY <2>1 DEF At
  <2>2. CASE i # 1
    <3>1. i - 1 \in 1..n
      BY <1>1, <2>2
    <3> QED BY <1>8, <2>2, <3>1 DEF At
  <2> QED BY <2>1, <2>2
<1>11. At(n + 2)' = t + len /\ (At(Len(frames) + 1))' = t + len
  <2>1. n + 2 # 1 /\ (n + 2) - 1 = n + 1
    BY <1>1
  <2>2. Len(frames') + 1 = n + 2
    BY <1>1, <1>7
  <2>3. At(n + 2)' = t + len
    BY <1>8, <2>1 DEF At
  <2>4. (At(Len(frames) + 1))' = IF n + 2 = 1 THEN 0 ELSE ends'[(n + 2) - 1]
    BY <2>2 DEF At
  <2> QED BY <1>8, <2>1, <2>3, <2>4
<1>12. PICK g \in Nat : /\ g = Len(Left) /\ Left' = Left \o e /\ Len(Left') = g + len
                        /\ \A x \in 1..g : Left'[x] = Left[x]
                        /\ \A y \in 1..len : Left'[g + y] = e[y]
  <2>1. buf \o sock \in Seq(Word) /\ Left \in Seq(Word) /\ Len(Left) \in Nat
    BY <1>2, LeftFacts
  <2>2. Left' = (buf \o sock) \o (line \o e)
    BY <1>6 DEF Left
  <2>3. (buf \o sock) \o (line \o e) = Left \o e
    <3>1. PICK c \in Seq(Word) : c = buf \o sock
      BY <2>1
    <3>2. c \o (line \o e) = (c \o line) \o e
      BY <1>2, <1>4, <3>1, WordsAssociative, ZenonT(60)
    <3> QED BY <3>1, <3>2 DEF Left
  <2>4. /\ Len(Left \o e) = Len(Left) + len
        /\ \A x \in 1..Len(Left) : (Left \o e)[x] = Left[x]
        /\ \A y \in 1..len : (Left \o e)[Len(Left) + y] = e[y]
    BY <1>4, <2>1, TwoWords
  <2> QED BY <2>1, <2>2, <2>3, <2>4
<1>13. PICK p \in Nat : p = Pos /\ p + g = t
  BY <1>1, <1>5, <1>12, PosFacts
<1>14. Pos' = p
  <2>1. Pos' = (At(Len(frames) + 1))' - Len(Left')
    BY DEF Pos
  <2>2. (t + len) - (g + len) = p
    <3>1. t \in Int /\ len \in Int /\ g \in Int /\ p \in Int /\ p + g = t
      BY <1>3, <1>5, <1>12, <1>13
    <3> QED BY <3>1
  <2> QED BY <1>11, <1>12, <2>1, <2>2
<1>15. /\ \A i \in 1..(n + 1) : At(i) \in Nat /\ At(i) % 4 = 0 /\ At(i) <= t
       /\ \A i \in 1..n : At(i + 1) = At(i) + FrameLen(frames[i])
  BY <1>1, <1>5 DEF WordInv, cbcBlock
<1>16. ASSUME NEW i \in 1..(n + 1), NEW j \in 1..FrameLen(frames'[i]), At(i) + j > p
       PROVE  Left'[(At(i) + j) - p] = Encode(frames'[i], startSeqNo + i)[j]
  <2>1. CASE i = n + 1
    <3>1. At(i) = t /\ frames'[i] = kind /\ j \in 1..len
      BY <1>3, <1>5, <1>7, <2>1
    <3>2. (At(i) + j) - p = g + j
      BY <1>13, <3>1
    <3>3. Encode(frames'[i], startSeqNo + i)[j] = e[j]
      BY <1>4, <2>1, <3>1
    <3> QED BY <1>12, <3>1, <3>2, <3>3
  <2>2. CASE i # n + 1
    <3>1. i \in 1..n /\ i + 1 \in 1..(n + 1)
      BY <1>1, <2>2
    <3>2. frames'[i] = frames[i] /\ frames[i] \in DownKinds
      BY <1>1, <1>2, <1>7, <3>1
    <3>3. FrameLen(frames[i]) \in Nat
      BY <3>2, FrameFacts
    <3>4. PICK a \in Nat : a = At(i) /\ a + FrameLen(frames[i]) <= t
      BY <1>15, <3>1
    <3>5. PICK q \in Nat : q = FrameLen(frames[i])
      BY <3>3
    <3>6. (a + j) - p \in 1..g
      <4>1. j \in 1..q /\ a + q <= t /\ a + j > p
        BY <1>16, <3>2, <3>4, <3>5
      <4> QED BY <1>13, <4>1
    <3>7. Left[(At(i) + j) - p] = Encode(frames[i], startSeqNo + i)[j]
      <4>1. j \in 1..FrameLen(frames[i])
        BY <3>2
      <4> QED BY <1>1, <1>13, <1>16, <3>1, <4>1 DEF WordInv
    <3> QED BY <1>12, <3>2, <3>4, <3>6, <3>7
  <2> QED BY <2>1, <2>2
<1>17. WordInv'
  <2>1. Len(ends') = Len(frames') /\ Pos' >= 0 /\ Len(frames') + 1 = n + 2
    BY <1>1, <1>7, <1>8, <1>13, <1>14
  <2>2. \A i \in 1..(n + 2) : At(i)' \in Nat /\ At(i)' % 4 = 0 /\ At(i)' <= At(n + 2)'
    <3> TAKE i \in 1..(n + 2)
    <3>1. t + len \in Nat /\ (t + len) % 4 = 0 /\ t <= t + len
      <4>1. t \in Int /\ len \in Int /\ t % 4 = 0 /\ len % 4 = 0
        BY <1>3, <1>5
      <4>2. (t + len) % 4 = 0
        BY <4>1, Blocks
      <4>3. t + len \in Nat /\ t <= t + len
        <5>1. t \in Nat /\ len \in Nat
          BY <1>3, <1>5
        <5> QED BY <5>1
      <4> QED BY <4>2, <4>3
    <3>2. CASE i = n + 2
      <4>1. At(i)' = t + len /\ At(n + 2)' = t + len
        BY <1>11, <3>2
      <4>2. t + len <= t + len
        BY <3>1
      <4> QED BY <3>1, <4>1, <4>2, Zenon
    <3>3. CASE i # n + 2
      <4>1. i \in 1..(n + 1)
        BY <1>1, <3>3
      <4>2. At(i)' \in Nat /\ At(i)' % 4 = 0 /\ At(i)' <= t
        BY <1>10, <1>15, <4>1
      <4>3. \A x \in Nat : x <= t => x <= t + len
        BY <1>3, <1>5
      <4>4. At(i)' <= t + len /\ At(n + 2)' = t + len
        BY <1>11, <4>2, <4>3
      <4> QED BY <4>2, <4>4, Zenon
    <3> QED BY <3>2, <3>3
  <2>3. \A i \in 1..(n + 1) : At(i + 1)' = At(i)' + FrameLen(frames'[i])
    <3> TAKE i \in 1..(n + 1)
    <3>1. CASE i = n + 1
      <4>1. i + 1 = n + 2 /\ i \in 1..(n + 1)
        BY <1>1, <3>1
      <4> QED BY <1>3, <1>5, <1>7, <1>10, <1>11, <3>1, <4>1
    <3>2. CASE i # n + 1
      <4>1. i \in 1..n /\ i + 1 \in 1..(n + 1) /\ i \in 1..(n + 1)
        BY <1>1, <3>2
      <4> QED BY <1>7, <1>10, <1>15, <4>1
    <3> QED BY <3>1, <3>2
  <2>4. \A i \in 1..(n + 1) : \A j \in 1..FrameLen(frames'[i]) :
          At(i)' + j > Pos' => Left'[(At(i)' + j) - Pos'] = Encode(frames'[i], startSeqNo + i)[j]
    BY <1>10, <1>14, <1>16
  <2>5. Len(line') % 4 = 0 /\ Len(sock') % 4 = 0
    <3>1. Len(line) \in Int /\ len \in Int /\ Len(line) % 4 = 0 /\ len % 4 = 0
      BY <1>2, <1>3 DEF WordInv, cbcBlock
    <3>2. (Len(line) + len) % 4 = 0
      BY <3>1, Blocks
    <3> QED BY <1>9, <3>2 DEF WordInv, cbcBlock
  <2>6. \A i \in 1..(n + 2) : At(i)' \in Nat /\ At(i)' % 4 = 0 /\ At(i)' <= (At(Len(frames) + 1))'
    BY <1>11, <2>2
  <2> QED BY <1>7, <2>1, <2>3, <2>4, <2>5, <2>6 DEF WordInv, cbcBlock
<1> QED BY <1>1, <1>7, <1>8, <1>9, <1>10, <1>13, <1>14, <1>17

-----------------------------------------------------------------------------
(* What readFrame finds at each of its steps *)

\* The places of a frame and of the one after it.
LEMMA FramePlace ==
    ASSUME TypeOK, WordInv, NEW i \in 1..Len(frames)
    PROVE  /\ frames[i] \in DownKinds /\ At(i) \in Nat /\ At(i + 1) \in Nat
           /\ At(i) % 4 = 0 /\ At(i + 1) % 4 = 0
           /\ At(i + 1) = At(i) + FrameLen(frames[i]) /\ At(i + 1) <= At(Len(frames) + 1)
<1>1. frames \in Seq(DownKinds) /\ Len(frames) \in Nat
  BY DEF TypeOK
<1>2. frames[i] \in DownKinds /\ i \in 1..(Len(frames) + 1) /\ i + 1 \in 1..(Len(frames) + 1)
  BY <1>1
<1> QED BY <1>2 DEF WordInv, cbcBlock

\* At its beginning a frame has its length, before that the filler of the last.
LEMMA LenWord ==
    ASSUME TypeOK, WordInv, ReaderInv, phase = "len", Len(buf) >= 1
    PROVE  \/ /\ Pos = At(handled + 1) /\ handled < Len(frames)
              /\ Head(buf) = <<"len", 4 * DataWords[Current] + 12>>
           \/ /\ Pos < At(handled + 1) /\ handled > 0 /\ Head(buf) = Filler
<1>1. /\ buf \in Seq(Word) /\ buf # << >> /\ Len(buf) \in Nat
      /\ handled \in Nat /\ handled <= Len(frames) /\ Len(frames) \in Nat
  BY DEF TypeOK
<1>2. PICK p \in Nat : p = Pos /\ p < At(Len(frames) + 1)
  <2>1. Pos \in Nat /\ Pos + Len(Left) = At(Len(frames) + 1) /\ Len(Left) >= 1 /\ Len(Left) \in Nat
    <3>1. Len(Left) = Len(buf) + Len(sock) + Len(line) /\ Len(sock) \in Nat /\ Len(line) \in Nat
      BY LeftFacts
    <3>2. Len(Left) \in Nat /\ Len(Left) >= 1
      BY <1>1, <3>1
    <3> QED BY <3>2, PosFacts
  <2> QED BY <2>1
<1>3. CASE Pos = At(handled + 1)
  <2>1. handled < Len(frames)
    BY <1>1, <1>2, <1>3
  <2>2. PICK i \in 1..Len(frames) : i = handled + 1
    BY <1>1, <2>1
  <2>3. frames[i] \in DownKinds /\ At(i) \in Nat
    BY FramePlace
  <2>4. 1 \in 1..FrameLen(frames[i])
    <3>1. /\ FrameLen(frames[i]) \in Nat /\ DataWords[frames[i]] \in Nat
          /\ FrameLen(frames[i]) >= DataWords[frames[i]] + 3
      BY <2>3, FrameFacts
    <3> QED BY <3>1
  <2>5. At(i) + 1 = Pos + 1
    BY <1>3, <2>2
  <2>6. Head(buf) = Encode(frames[i], startSeqNo + i)[1]
    BY <1>1, <2>4, <2>5, WordRead
  <2>7. startSeqNo + i \in Int
    BY DEF startSeqNo
  <2>8. Head(buf) = <<"len", 4 * DataWords[frames[i]] + 12>>
    BY <2>3, <2>6, <2>7, EncodeFacts
  <2> QED BY <1>3, <2>1, <2>2, <2>8 DEF Current
<1>4. CASE Pos < At(handled + 1)
  <2>1. handled > 0 /\ Pos >= At(handled) + DataWords[frames[handled]] + 3
    BY <1>4 DEF ReaderInv
  <2>2. PICK i \in 1..Len(frames) : i = handled
    BY <1>1, <2>1
  <2>3. /\ frames[i] \in DownKinds /\ At(i) \in Nat
        /\ At(i + 1) = At(i) + FrameLen(frames[i])
    BY FramePlace
  <2>4. PICK a \in Nat : a = At(i)
    BY <2>3
  <2>5. PICK d \in Nat : d = DataWords[frames[i]]
    BY <2>3, FrameFacts
  <2>6. PICK f \in Nat : f = FrameLen(frames[i])
    BY <2>3, FrameFacts
  <2>7. p >= a + d + 3 /\ p < a + f
    BY <1>2, <1>4, <2>1, <2>2, <2>3, <2>4, <2>5, <2>6
  <2>8. PICK j \in 1..f : a + j = p + 1 /\ j > d + 3
    <3>1. (p + 1) - a \in 1..f /\ a + ((p + 1) - a) = p + 1 /\ (p + 1) - a > d + 3
      BY <2>7
    <3> QED BY <3>1
  <2>9. j \in 1..FrameLen(frames[i]) /\ At(i) + j = Pos + 1
    BY <1>2, <2>4, <2>6, <2>8
  <2>10. Head(buf) = Encode(frames[i], startSeqNo + i)[j]
    BY <1>1, <2>9, WordRead
  <2>11. startSeqNo + i \in Int
    BY DEF startSeqNo
  <2>12. Head(buf) = Filler
    BY <2>3, <2>5, <2>8, <2>9, <2>10, <2>11, EncodeFacts
  <2> QED BY <1>4, <2>1, <2>12
<1>5. Pos = At(handled + 1) \/ Pos < At(handled + 1)
  <2>1. handled + 1 \in 1..(Len(frames) + 1)
    BY <1>1
  <2>2. At(handled + 1) \in Nat
    BY <2>1 DEF WordInv
  <2>3. Pos <= At(handled + 1)
    BY DEF ReaderInv
  <2> QED BY <1>2, <2>2, <2>3
<1> QED BY <1>3, <1>4, <1>5, Zenon

\* After the length comes the number that is expected.
LEMMA SeqWord ==
    ASSUME TypeOK, WordInv, ReaderInv, phase = "seq", Len(buf) >= 1
    PROVE  Head(buf) = <<"seq", rseq>> /\ msgLen >= 12
<1>1. /\ buf \in Seq(Word) /\ buf # << >> /\ handled \in Nat /\ Len(frames) \in Nat
      /\ handled < Len(frames) /\ Pos = At(handled + 1) + 1 /\ rseq = startSeqNo + 1 + handled
  BY DEF TypeOK, ReaderInv
<1>2. PICK i \in 1..Len(frames) : i = handled + 1
  BY <1>1
<1>3. frames[i] \in DownKinds /\ At(i) \in Nat
  BY FramePlace
<1>4. /\ FrameLen(frames[i]) \in Nat /\ DataWords[frames[i]] \in Nat
      /\ FrameLen(frames[i]) >= DataWords[frames[i]] + 3
  BY <1>3, FrameFacts
<1>5. 2 \in 1..FrameLen(frames[i]) /\ At(i) + 2 = Pos + 1
  BY <1>1, <1>2, <1>3, <1>4
<1>6. Head(buf) = Encode(frames[i], startSeqNo + i)[2]
  BY <1>1, <1>5, WordRead
<1>7. startSeqNo + i \in Int /\ startSeqNo + i = rseq
  BY <1>1, <1>2 DEF startSeqNo
<1>8. Head(buf) = <<"seq", rseq>>
  BY <1>3, <1>6, <1>7, EncodeFacts
<1>9. msgLen >= 12
  <2>1. msgLen = 4 * DataWords[frames[i]] + 12
    BY <1>2 DEF ReaderInv, Current
  <2> QED BY <1>4, <2>1
<1> QED BY <1>8, <1>9

\* After the data comes the checksum of the frame that is being read.
LEMMA CrcWord ==
    ASSUME TypeOK, WordInv, ReaderInv, phase = "crc", Len(buf) >= 1
    PROVE  Head(buf) = <<"crc", Current>>
<1>1. /\ buf \in Seq(Word) /\ buf # << >> /\ handled \in Nat /\ Len(frames) \in Nat
      /\ handled < Len(frames) /\ Pos = At(handled + 1) + 2 + DataWords[Current]
  BY DEF TypeOK, ReaderInv
<1>2. PICK i \in 1..Len(frames) : i = handled + 1
  BY <1>1
<1>3. frames[i] \in DownKinds /\ At(i) \in Nat
  BY FramePlace
<1>4. PICK d \in Nat : d = DataWords[frames[i]]
  BY <1>3, FrameFacts
<1>5. FrameLen(frames[i]) \in Nat /\ FrameLen(frames[i]) >= d + 3
  BY <1>3, <1>4, FrameFacts
<1>6. d + 3 \in 1..FrameLen(frames[i])
  BY <1>5
<1>7. At(i) + (d + 3) = Pos + 1
  <2>1. Pos = At(i) + 2 + d
    BY <1>1, <1>2, <1>4 DEF Current
  <2> QED BY <1>3, <2>1
<1>8. Head(buf) = Encode(frames[i], startSeqNo + i)[d + 3]
  BY <1>1, <1>6, <1>7, WordRead
<1>9. startSeqNo + i \in Int
  BY DEF startSeqNo
<1>10. Head(buf) = <<"crc", frames[i]>>
  BY <1>3, <1>4, <1>8, <1>9, EncodeFacts
<1> QED BY <1>2, <1>10 DEF Current

-----------------------------------------------------------------------------
(* The download, step by step *)

\* What is kept of the download when its words and its reader are left alone.
LEMMA DownStays ==
    ASSUME DownInv, UNCHANGED <<hs, rseq, me, sock, reader>>
    PROVE  DownInv'
<1>1. UNCHANGED <<hs, rseq, frames, ends, meFin, line, sock, buf, phase, msgLen, handled, got>>
  BY DEF me, reader
<1>2. Left' = Left /\ Reading' = Reading /\ Current' = Current
  BY <1>1 DEF Left, Reading, Current
<1>3. \A i : At(i)' = At(i)
  BY <1>1 DEF At
<1>4. Pos' = Pos
  BY <1>1, <1>2, <1>3 DEF Pos
<1>5. WordInv'
  BY <1>1, <1>2, <1>3, <1>4 DEF DownInv, WordInv
<1>6. (Reading => ReaderInv)'
  BY <1>1, <1>2, <1>3, <1>4 DEF DownInv, ReaderInv
<1>7. AnswersInOrder' /\ NoFalseEnd' /\ SentInv'
  BY <1>1 DEF DownInv, AnswersInOrder, NoFalseEnd, SentInv
<1> QED BY <1>5, <1>6, <1>7 DEF DownInv

\* An endpoint that has sent nothing.
LEMMA NoWords ==
    ASSUME TypeOK, WordInv, frames = << >>
    PROVE  /\ Len(buf) = 0 /\ Len(Left) = 0 /\ Pos = 0 /\ At(1) = 0
<1>1. Len(frames) = 0 /\ At(1) = 0
  BY DEF At
<1>2. Pos \in Nat /\ Len(Left) \in Nat /\ Pos + Len(Left) = 0
  <2>1. At(Len(frames) + 1) = 0
    BY <1>1
  <2> QED BY <2>1, PosFacts
<1>3. Len(Left) = 0 /\ Pos = 0
  BY <1>2
<1>4. Len(buf) = 0
  BY <1>3, LeftFacts
<1> QED BY <1>1, <1>3, <1>4

LEMMA NewWords ==
    ASSUME frames' = << >>, ends' = << >>, line' = << >>, sock' = << >>, buf' = << >>
    PROVE  WordInv'
<1>1. Len(frames') = 0 /\ Len(ends') = 0 /\ Len(line') = 0 /\ Len(sock') = 0
  OBVIOUS
<1>2. At(1)' = 0
  BY DEF At
<1>3. Len(Left') = 0
  <2>1. Left' = (<< >> \o << >>) \o << >>
    BY DEF Left
  <2> QED BY <2>1
<1>4. (At(Len(frames) + 1))' = 0
  <2>1. Len(frames') + 1 = 1
    BY <1>1
  <2> QED BY <2>1 DEF At
<1>5. Pos' = 0
  BY <1>3, <1>4 DEF Pos
<1>6. \A i \in 1..(Len(frames') + 1) : At(i)' = 0
  <2> TAKE i \in 1..(Len(frames') + 1)
  <2>1. i = 1
    BY <1>1
  <2> QED BY <1>2, <2>1
<1>7. 1..Len(frames') = {}
  BY <1>1
<1>8. 0 % 4 = 0 /\ 0 \in Nat /\ 0 <= 0 /\ 0 >= 0
  OBVIOUS
<1> QED BY <1>1, <1>4, <1>5, <1>6, <1>7, <1>8 DEF WordInv, cbcBlock

\* The handshake up to RPC_HANDSHAKE, and the next endpoint.
LEMMA DialDown ==
    ASSUME TypeOK, DialInv, DownInv, SendNonce \/ NonceAnswered \/ NextEndpoint
    PROVE  DownInv'
<1>1. CASE SendNonce
  <2>1. /\ hs' = "nonce" /\ UNCHANGED <<rseq, frames, ends, meFin, line, sock, buf, phase>>
        /\ UNCHANGED <<msgLen, handled, got>>
    BY <1>1 DEF SendNonce, me, reader
  <2>2. Left' = Left
    BY <2>1 DEF Left
  <2>3. WordInv'
    BY <2>1, <2>2, WordsStay DEF DownInv, WordInv
  <2>4. SentInv'
    BY <2>1 DEF DownInv, SentInv
  <2> QED BY <2>1, <2>3, <2>4 DEF DownInv, Reading, AnswersInOrder, NoFalseEnd
<1>2. CASE NonceAnswered
  <2>1. /\ hs' = "hello" /\ rseq' = rseq + 1 /\ UNCHANGED <<frames, ends, meFin, line, sock, buf>>
        /\ UNCHANGED <<phase, msgLen, handled, got>>
    BY <1>2 DEF NonceAnswered, me, reader
  <2>2. frames = << >> /\ handled = 0 /\ phase = "len" /\ rseq = startSeqNo
    BY <1>2 DEF NonceAnswered, DialInv
  <2>3. Left' = Left
    BY <2>1 DEF Left
  <2>4. WordInv' /\ Pos' = Pos /\ (\A i : At(i)' = At(i))
    BY <2>1, <2>3, WordsStay DEF DownInv, WordInv
  <2>5. Len(buf) = 0 /\ Pos = 0 /\ At(1) = 0
    BY <2>2, NoWords DEF DownInv
  <2>6. rseq' = startSeqNo + 1 /\ Len(frames') = 0
    BY <2>1, <2>2 DEF startSeqNo
  <2>7. ReaderInv'
    <3>1. Pos' = 0 /\ Len(buf') = 0 /\ At(1)' = 0 /\ handled' = 0 /\ phase' = "len"
      BY <2>1, <2>2, <2>4, <2>5
    <3>2. (Pos' + Len(buf')) % cbcBlock = 0
      BY <3>1 DEF cbcBlock
    <3>3. (At(handled + 1))' = 0
      BY <3>1 DEF At
    <3>4. rseq' = startSeqNo + 1 + handled'
      BY <2>6, <3>1 DEF startSeqNo
    <3> QED BY <3>1, <3>2, <3>3, <3>4 DEF ReaderInv, cbcBlock
  <2>8. SentInv'
    BY <2>1, <2>2, <2>6, Bounds DEF SentInv, startSeqNo
  <2> QED BY <2>1, <2>4, <2>7, <2>8 DEF DownInv, AnswersInOrder, NoFalseEnd
<1>3. CASE NextEndpoint
  <2>1. CASE ep < Endpoints
    <3>1. /\ hs' = "dial" /\ rseq' = startSeqNo /\ frames' = << >> /\ ends' = << >>
          /\ line' = << >> /\ sock' = << >> /\ buf' = << >>
      BY <1>3, <2>1 DEF NextEndpoint, Fresh
    <3>2. WordInv'
      BY <3>1, NewWords
    <3>3. SentInv'
      BY <3>1, Bounds DEF SentInv, startSeqNo
    <3> QED BY <3>1, <3>2, <3>3 DEF DownInv, Reading, AnswersInOrder, NoFalseEnd
  <2>2. CASE ~(ep < Endpoints)
    <3>1. /\ hs' = "failed" /\ UNCHANGED <<rseq, frames, ends, meFin, line, sock, buf, phase>>
          /\ UNCHANGED <<msgLen, handled, got>>
      BY <1>3, <2>2 DEF NextEndpoint, me, reader
    <3>2. Left' = Left
      BY <3>1 DEF Left
    <3>3. WordInv'
      BY <3>1, <3>2, WordsStay DEF DownInv, WordInv
    <3>4. SentInv'
      BY <3>1 DEF DownInv, SentInv
    <3> QED BY <3>1, <3>3, <3>4 DEF DownInv, Reading, AnswersInOrder, NoFalseEnd
  <2> QED BY <2>1, <2>2
<1> QED BY <1>1, <1>2, <1>3

\* The ME sends a frame.
LEMMA SendDown ==
    ASSUME TypeOK, DialInv, DownInv, NEW kind \in DownKinds, MESends(kind)
    PROVE  /\ DownInv' /\ line' \in Seq(Word) /\ ends' \in Seq(Nat) /\ frames' \in Seq(DownKinds)
           /\ Len(frames') = Len(frames) + 1
<1>1. /\ frames' = Append(frames, kind)
      /\ ends' = Append(ends, At(Len(frames) + 1) + FrameLen(kind))
      /\ line' = line \o Encode(kind, startSeqNo + 1 + Len(frames))
      /\ UNCHANGED <<hs, rseq, meFin, sock, buf, phase, msgLen, handled, got>>
      /\ hs \in {"hello", "open"} /\ Len(frames) + Len(stream) <= MaxFrames
      /\ frames = << >> <=> kind \in {"handshake", "other"}
  BY DEF MESends, dial, reader
<1>2. /\ WordInv' /\ Pos' = Pos /\ \A i \in 1..(Len(frames) + 1) : At(i)' = At(i)
      /\ line' \in Seq(Word) /\ ends' \in Seq(Nat) /\ frames' \in Seq(DownKinds)
      /\ Len(frames') = Len(frames) + 1
      /\ \A i \in 1..Len(frames) : frames'[i] = frames[i]
  BY <1>1, WordsSent DEF DownInv
<1>3. /\ Len(frames) \in Nat /\ handled \in Nat /\ handled <= Len(frames)
      /\ Len(stream) \in Nat /\ frames \in Seq(DownKinds) /\ rseq \in Int
  BY DEF TypeOK, startSeqNo
<1>4. ReaderInv
  BY <1>1 DEF DownInv, Reading
<1>5. ReaderInv'
  <2>1. handled + 1 \in 1..(Len(frames) + 1) /\ handled' = handled
    BY <1>1, <1>3
  <2>2. (At(handled + 1))' = At(handled + 1)
    <3>1. (At(handled + 1))' = At(handled + 1)'
      BY <1>1 DEF At
    <3> QED BY <1>2, <2>1, <3>1
  <2>3. handled > 0 => At(handled)' = At(handled) /\ frames'[handled] = frames[handled]
    <3>1. handled > 0 => handled \in 1..Len(frames) /\ handled \in 1..(Len(frames) + 1)
      BY <1>3
    <3> QED BY <1>1, <1>2, <3>1 DEF At
  <2>4. handled < Len(frames) => Current' = Current /\ handled < Len(frames')
    <3>1. handled < Len(frames) => handled + 1 \in 1..Len(frames) /\ handled < Len(frames) + 1
      BY <1>3
    <3> QED BY <1>1, <1>2, <3>1 DEF Current
  <2>5. /\ (Pos' + Len(buf')) % cbcBlock = 0
        /\ phase' = "len" =>
             /\ Pos' <= (At(handled + 1))' /\ (At(handled + 1))' - Pos' < cbcBlock
             /\ Pos' < (At(handled + 1))' =>
                  handled' > 0 /\ Pos' >= At(handled)' + DataWords[frames'[handled']] + 3
             /\ rseq' = startSeqNo + 1 + handled'
    BY <1>1, <1>2, <1>4, <2>2, <2>3 DEF ReaderInv
  <2>6. /\ phase' # "len" => handled' < Len(frames') /\ msgLen' = 4 * DataWords[Current'] + 12
        /\ phase' = "seq" => Pos' = (At(handled + 1))' + 1 /\ rseq' = startSeqNo + 1 + handled'
        /\ phase' = "data" => Pos' = (At(handled + 1))' + 2 /\ rseq' = startSeqNo + 2 + handled'
        /\ phase' = "crc" =>
             Pos' = (At(handled + 1))' + 2 + DataWords[Current'] /\ rseq' = startSeqNo + 2 + handled'
    BY <1>1, <1>2, <1>4, <2>2, <2>4 DEF ReaderInv
  <2>7. (At(handled))' = At(handled)'
    BY <1>1 DEF At
  <2> QED BY <2>5, <2>6, <2>7 DEF ReaderInv
<1>6. AnswersInOrder'
  <2>1. \A i \in 1..handled : frames'[i] = frames[i]
    BY <1>2, <1>3
  <2> QED BY <1>1, <2>1 DEF DownInv, AnswersInOrder
<1>7. NoFalseEnd'
  BY <1>1 DEF NoFalseEnd
<1>8. SentInv'
  <2>1. rseq' <= startSeqNo + 1 + Len(frames') /\ Len(frames') <= MaxFrames + 1
    <3>1. rseq <= startSeqNo + 1 + Len(frames)
      BY DEF DownInv, SentInv
    <3> QED BY <1>1, <1>2, <1>3, <3>1, Bounds DEF startSeqNo
  <2>2. frames'[1] \in {"handshake", "other"}
    <3>1. CASE frames = << >>
      BY <1>1, <3>1
    <3>2. CASE frames # << >>
      <4>1. 1 \in 1..Len(frames) /\ frames[1] \in {"handshake", "other"}
        BY <1>3, <3>2 DEF DownInv, SentInv
      <4> QED BY <1>2, <4>1
    <3> QED BY <3>1, <3>2
  <2> QED BY <2>1, <2>2 DEF SentInv
<1> QED BY <1>2, <1>5, <1>6, <1>7, <1>8 DEF DownInv

\* What is kept when the words move from one buffer to the next and the
\* reader has not taken any.
LEMMA MoveDown ==
    ASSUME TypeOK, DownInv, Left' = Left,
           UNCHANGED <<hs, rseq, frames, ends, meFin, phase, msgLen, handled, got>>,
           Len(line') % cbcBlock = 0, Len(sock') % cbcBlock = 0,
           Reading => (Pos + Len(buf')) % cbcBlock = 0
    PROVE  DownInv'
<1>1. WordInv' /\ Pos' = Pos /\ (\A i : At(i)' = At(i))
  BY WordsStay DEF DownInv
<1>2. (Reading => ReaderInv)'
  <2>1. Reading' = Reading /\ Current' = Current
    BY DEF Reading, Current
  <2>2. (At(handled + 1))' = At(handled + 1) /\ (At(handled))' = At(handled)
    BY DEF At
  <2> QED BY <1>1, <2>1, <2>2 DEF DownInv, ReaderInv
<1>3. AnswersInOrder' /\ NoFalseEnd' /\ SentInv'
  BY DEF DownInv, AnswersInOrder, NoFalseEnd, SentInv
<1> QED BY <1>1, <1>2, <1>3 DEF DownInv

LEMMA CloseDown ==
    ASSUME TypeOK, DownInv, MECloses
    PROVE  DownInv'
<1>1. /\ UNCHANGED <<hs, rseq, frames, ends, line, sock, buf, phase, msgLen, handled, got>>
      /\ meFin' = TRUE
  BY DEF MECloses, dial, reader
<1>2. Left' = Left
  BY <1>1 DEF Left
<1>3. WordInv' /\ Pos' = Pos /\ (\A i : At(i)' = At(i))
  BY <1>1, <1>2, WordsStay DEF DownInv, WordInv
<1>4. (Reading => ReaderInv)'
  <2>1. Reading' = Reading /\ Current' = Current
    BY <1>1 DEF Reading, Current
  <2>2. (At(handled + 1))' = At(handled + 1) /\ (At(handled))' = At(handled)
    BY <1>1 DEF At
  <2> QED BY <1>1, <1>3, <2>1, <2>2 DEF DownInv, ReaderInv
<1>5. AnswersInOrder' /\ NoFalseEnd' /\ SentInv'
  BY <1>1 DEF DownInv, AnswersInOrder, NoFalseEnd, SentInv
<1> QED BY <1>3, <1>4, <1>5 DEF DownInv

\* Words that move are the same words.
LEMMA WordsMove ==
    ASSUME NEW s \in Seq(Word), NEW t \in Seq(Word), NEW n \in 0..Len(t)
    PROVE  /\ s \o SubSeq(t, 1, n) \in Seq(Word) /\ Len(s \o SubSeq(t, 1, n)) = Len(s) + n
           /\ SubSeq(t, n + 1, Len(t)) \in Seq(Word) /\ Len(SubSeq(t, n + 1, Len(t))) = Len(t) - n
           /\ (s \o SubSeq(t, 1, n)) \o SubSeq(t, n + 1, Len(t)) = s \o t
<1>1. PICK a : a = SubSeq(t, 1, n)
  OBVIOUS
<1>2. a \in Seq(Word) /\ Len(a) = n
  BY <1>1, Regroup
<1>3. s \o a \in Seq(Word) /\ Len(s \o a) = Len(s) + n
  BY <1>2
<1>4. PICK b : b = SubSeq(t, n + 1, Len(t))
  OBVIOUS
<1>5. b \in Seq(Word) /\ Len(b) = Len(t) - n
  BY <1>4, Regroup
<1>6. (s \o a) \o b = s \o t
  BY <1>1, <1>4, Regroup, ZenonT(60)
<1> QED BY <1>1, <1>3, <1>4, <1>5, <1>6

LEMMA ArriveDown ==
    ASSUME TypeOK, DownInv, Arrive
    PROVE  DownInv' /\ line' \in Seq(Word) /\ sock' \in Seq(Word)
<1>1. /\ UNCHANGED <<hs, rseq, frames, ends, meFin, buf, phase, msgLen, handled, got>>
      /\ sock' = sock \o SubSeq(line, 1, cbcBlock)
      /\ line' = SubSeq(line, cbcBlock + 1, Len(line)) /\ line # << >>
  BY DEF Arrive, dial, reader
<1>2. /\ line \in Seq(Word) /\ sock \in Seq(Word) /\ buf \in Seq(Word)
      /\ Len(line) % 4 = 0 /\ Len(sock) % 4 = 0
  BY DEF TypeOK, DownInv, WordInv, cbcBlock
<1>3. cbcBlock \in 0..Len(line)
  <2>1. Len(line) \in Nat /\ Len(line) > 0
    BY <1>1, <1>2
  <2> QED BY <1>2, <2>1 DEF cbcBlock
<1>4. /\ sock' \in Seq(Word) /\ Len(sock') = Len(sock) + cbcBlock
      /\ line' \in Seq(Word) /\ Len(line') = Len(line) - cbcBlock /\ sock' \o line' = sock \o line
  BY <1>1, <1>2, <1>3, WordsMove
<1>5. Left' = Left
  <2>1. Left' = (buf \o sock') \o line'
    BY <1>1 DEF Left
  <2>2. buf \o (sock' \o line') = (buf \o sock') \o line'
    BY <1>2, <1>4, WordsAssociative
  <2>3. buf \o (sock \o line) = (buf \o sock) \o line
    BY <1>2, WordsAssociative
  <2> QED BY <1>4, <2>1, <2>2, <2>3 DEF Left
<1>6. Len(line') % 4 = 0 /\ Len(sock') % 4 = 0
  <2>1. Len(line) \in Int /\ Len(sock) \in Int /\ 4 \in Int /\ 4 % 4 = 0
    BY <1>2
  <2>2. (Len(sock) + 4) % 4 = 0 /\ (Len(line) - 4) % 4 = 0
    BY <1>2, <2>1, Blocks
  <2> QED BY <1>4, <2>2 DEF cbcBlock
<1>7. Reading => (Pos + Len(buf')) % cbcBlock = 0
  BY <1>1 DEF DownInv, ReaderInv
<1> QED BY <1>1, <1>4, <1>5, <1>6, <1>7, MoveDown DEF cbcBlock

LEMMA EnsureDown ==
    ASSUME TypeOK, DownInv, EnsurePlain
    PROVE  DownInv' /\ sock' \in Seq(Word) /\ buf' \in Seq(Word)
<1>1. /\ UNCHANGED <<hs, rseq, frames, ends, meFin, line, phase, msgLen, handled, got>>
      /\ Reading /\ Short > 0
  BY DEF EnsurePlain, dial, me
<1>2. PICK n : /\ n = alignedCipherReadSize(Short) /\ Len(sock) >= n
               /\ buf' = buf \o SubSeq(sock, 1, n) /\ sock' = SubSeq(sock, n + 1, Len(sock))
  BY DEF EnsurePlain
<1>3. /\ line \in Seq(Word) /\ sock \in Seq(Word) /\ buf \in Seq(Word)
      /\ Len(line) % 4 = 0 /\ Len(sock) % 4 = 0
  BY DEF TypeOK, DownInv, WordInv, cbcBlock
<1>4. n \in Nat /\ n % 4 = 0
  <2>1. Short \in Nat
    <3>1. Want \in Int
      BY DEF Want, TypeOK
    <3>2. Len(buf) \in Nat
      BY <1>3
    <3> QED BY <1>1, <3>1, <3>2 DEF Short
  <2> QED BY <1>2, <2>1, Aligned
<1>5. n \in 0..Len(sock)
  <2>1. Len(sock) \in Nat
    BY <1>3
  <2> QED BY <1>2, <1>4, <2>1
<1>6. /\ buf' \in Seq(Word) /\ Len(buf') = Len(buf) + n
      /\ sock' \in Seq(Word) /\ Len(sock') = Len(sock) - n /\ buf' \o sock' = buf \o sock
  BY <1>2, <1>3, <1>5, WordsMove, ZenonT(60)
<1>7. Left' = Left
  BY <1>1, <1>6 DEF Left
<1>8. Len(line') % 4 = 0 /\ Len(sock') % 4 = 0
  <2>1. Len(sock) \in Int /\ n \in Int
    BY <1>3, <1>4
  <2>2. (Len(sock) - n) % 4 = 0
    BY <1>3, <1>4, <2>1, Blocks
  <2> QED BY <1>1, <1>3, <1>6, <2>2
<1>9. (Pos + Len(buf')) % 4 = 0
  <2>1. (Pos + Len(buf)) % 4 = 0
    BY <1>1 DEF DownInv, ReaderInv, cbcBlock
  <2>2. PICK p \in Nat : p = Pos
    BY PosFacts DEF DownInv
  <2>3. PICK b \in Nat : b = Len(buf)
    BY <1>3
  <2>4. (p + b) % 4 = 0 /\ p + b \in Int /\ n \in Int
    BY <1>4, <2>1, <2>2, <2>3
  <2>5. ((p + b) + n) % 4 = 0
    BY <1>4, <2>4, Blocks
  <2>6. (p + b) + n = p + (b + n)
    BY <1>4, <2>2, <2>3
  <2> QED BY <1>6, <2>2, <2>3, <2>5, <2>6
<1> QED BY <1>1, <1>6, <1>7, <1>8, <1>9, MoveDown DEF cbcBlock

\* readFrame takes m words of buf: what has been decrypted still ends a block.
LEMMA ReadWords ==
    ASSUME TypeOK, DownInv, Reading, NEW m \in 0..Len(buf), buf' = SubSeq(buf, m + 1, Len(buf)),
           UNCHANGED <<sock, line, frames, ends>>
    PROVE  /\ WordInv' /\ Pos' = Pos + m /\ (\A i : At(i)' = At(i)) /\ Pos \in Nat
           /\ (Pos' + Len(buf')) % cbcBlock = 0 /\ buf' \in Seq(Word)
<1>1. /\ WordInv' /\ Pos' = Pos + m /\ (\A i : At(i)' = At(i))
      /\ buf' \in Seq(Word) /\ Len(buf') = Len(buf) - m
  BY WordsTaken DEF DownInv
<1>2. Pos \in Nat
  BY PosFacts DEF DownInv
<1>3. Len(buf) \in Nat
  BY DEF TypeOK
<1>4. Pos' + Len(buf') = Pos + Len(buf)
  <2>1. Pos' = Pos + m /\ Len(buf') = Len(buf) - m /\ m \in Int
    BY <1>1, <1>3
  <2>2. (Pos + m) + (Len(buf) - m) = Pos + Len(buf)
    BY <1>2, <1>3
  <2> QED BY <2>1, <2>2
<1> QED BY <1>1, <1>2, <1>4 DEF DownInv, ReaderInv

LEMMA TailWords ==
    ASSUME TypeOK, Reading, phase # "data", Short <= 0
    PROVE  Len(buf) >= 1 /\ Tail(buf) = SubSeq(buf, 1 + 1, Len(buf)) /\ 1 \in 0..Len(buf)
<1>1. buf \in Seq(Word) /\ Len(buf) \in Nat
  BY DEF TypeOK
<1>2. Len(buf) >= 1
  BY <1>1 DEF Short, Want
<1>3. Tail(buf) = SubSeq(buf, 2, Len(buf))
  BY <1>1, <1>2
<1>4. 1 + 1 = 2 /\ 1 \in 0..Len(buf)
  BY <1>1, <1>2
<1> QED BY <1>2, <1>3, <1>4

LEMMA ReadLenDown ==
    ASSUME TypeOK, DownInv, ReadLen
    PROVE  DownInv' /\ buf' \in Seq(Word) /\ msgLen' \in Nat
<1>1. /\ Reading /\ phase = "len" /\ Short <= 0 /\ buf' = Tail(buf)
      /\ UNCHANGED <<hs, rseq, frames, ends, meFin, line, sock, handled, got>>
  BY DEF ReadLen, dial, me
<1>2. ReaderInv /\ WordInv
  BY <1>1 DEF DownInv
<1>3. Len(buf) >= 1 /\ buf' = SubSeq(buf, 1 + 1, Len(buf)) /\ 1 \in 0..Len(buf)
  BY <1>1, TailWords
<1>4. /\ WordInv' /\ Pos' = Pos + 1 /\ (\A i : At(i)' = At(i)) /\ Pos \in Nat
      /\ (Pos' + Len(buf')) % cbcBlock = 0 /\ buf' \in Seq(Word)
  BY <1>1, <1>3, ReadWords
<1>5. AnswersInOrder' /\ NoFalseEnd' /\ SentInv' /\ Reading' = Reading /\ Current' = Current
  BY <1>1 DEF DownInv, AnswersInOrder, NoFalseEnd, SentInv, Reading, Current
<1>6. (At(handled + 1))' = At(handled + 1) /\ (At(handled))' = At(handled)
  BY <1>1 DEF At
<1>7. \/ /\ Pos = At(handled + 1) /\ handled < Len(frames)
         /\ Head(buf) = <<"len", 4 * DataWords[Current] + 12>>
      \/ /\ Pos < At(handled + 1) /\ handled > 0 /\ Head(buf) = Filler
  BY <1>1, <1>2, <1>3, LenWord
<1>8. CASE /\ Pos = At(handled + 1) /\ handled < Len(frames)
           /\ Head(buf) = <<"len", 4 * DataWords[Current] + 12>>
  <2>1. DataWords[Current] \in Nat
    <3>1. frames \in Seq(DownKinds) /\ handled \in Nat /\ Len(frames) \in Nat
      BY DEF TypeOK
    <3>2. Current \in DownKinds
      BY <1>8, <3>1 DEF Current
    <3> QED BY <3>2, FrameFacts
  <2>2. Head(buf)[2] = 4 * DataWords[Current] + 12
    BY <1>8
  <2>3. ~IsPadding(Head(buf)[2])
    BY <2>1, <2>2 DEF IsPadding
  <2>4. msgLen' = 4 * DataWords[Current] + 12 /\ phase' = "seq"
    BY <2>2, <2>3 DEF ReadLen
  <2>5. msgLen' \in Nat
    BY <2>1, <2>4
  <2>6. ReaderInv'
    BY <1>1, <1>2, <1>4, <1>5, <1>6, <1>8, <2>4 DEF ReaderInv
  <2> QED BY <1>4, <1>5, <2>5, <2>6 DEF DownInv
<1>9. CASE Pos < At(handled + 1) /\ handled > 0 /\ Head(buf) = Filler
  <2>1. IsPadding(Head(buf)[2])
    BY <1>9 DEF IsPadding, Filler
  <2>2. UNCHANGED <<phase, msgLen>>
    BY <2>1 DEF ReadLen
  <2>3. msgLen' \in Nat
    BY <2>2 DEF TypeOK
  <2>4. ReaderInv'
    <3>1. handled \in Nat /\ handled <= Len(frames) /\ Len(frames) \in Nat
      BY DEF TypeOK
    <3>2. handled \in 1..Len(frames)
      BY <1>9, <3>1
    <3>3. frames[handled] \in DownKinds /\ At(handled) \in Nat /\ At(handled + 1) \in Nat
      BY <1>2, <3>2, FramePlace
    <3>4. DataWords[frames[handled]] \in Nat
      BY <3>3, FrameFacts
    <3>5. /\ At(handled + 1) - Pos < cbcBlock /\ Pos >= At(handled) + DataWords[frames[handled]] + 3
          /\ rseq = startSeqNo + 1 + handled
      BY <1>1, <1>2, <1>9 DEF ReaderInv
    <3>6. /\ Pos + 1 <= At(handled + 1) /\ At(handled + 1) - (Pos + 1) < cbcBlock
          /\ Pos + 1 >= At(handled) + DataWords[frames[handled]] + 3
      BY <1>4, <1>9, <3>3, <3>4, <3>5 DEF cbcBlock
    <3>7. frames'[handled'] = frames[handled] /\ handled' > 0 /\ phase' = "len"
      BY <1>1, <1>9, <2>2
    <3> QED BY <1>1, <1>4, <1>6, <3>5, <3>6, <3>7 DEF ReaderInv
  <2> QED BY <1>4, <1>5, <2>3, <2>4 DEF DownInv
<1> QED BY <1>7, <1>8, <1>9

LEMMA ReadSeqDown ==
    ASSUME TypeOK, DownInv, ReadSeq
    PROVE  /\ DownInv' /\ buf' \in Seq(Word) /\ rseq' = rseq + 1 /\ phase' = "data" /\ UNCHANGED hs
           /\ rseq' <= startSeqNo + 1 + Len(frames)
<1>1. /\ Reading /\ phase = "seq" /\ Short <= 0 /\ buf' = Tail(buf)
      /\ UNCHANGED <<frames, ends, meFin, line, sock, msgLen, handled, got>>
  BY DEF ReadSeq, me
<1>2. ReaderInv /\ WordInv
  BY <1>1 DEF DownInv
<1>3. Len(buf) >= 1 /\ buf' = SubSeq(buf, 1 + 1, Len(buf)) /\ 1 \in 0..Len(buf)
  BY <1>1, TailWords
<1>4. /\ WordInv' /\ Pos' = Pos + 1 /\ (\A i : At(i)' = At(i)) /\ Pos \in Nat
      /\ (Pos' + Len(buf')) % cbcBlock = 0 /\ buf' \in Seq(Word)
  BY <1>1, <1>3, ReadWords
<1>5. Head(buf) = <<"seq", rseq>> /\ msgLen >= 12
  BY <1>1, <1>2, <1>3, SeqWord
<1>6. rseq' = rseq + 1 /\ phase' = "data" /\ UNCHANGED hs
  BY <1>5 DEF ReadSeq
<1>7. /\ handled \in Nat /\ Len(frames) \in Nat /\ handled < Len(frames)
      /\ rseq = startSeqNo + 1 + handled /\ msgLen = 4 * DataWords[Current] + 12
      /\ Pos = At(handled + 1) + 1 /\ At(handled + 1) \in Nat
  <2>1. handled \in Nat /\ Len(frames) \in Nat /\ handled < Len(frames)
    BY <1>1, <1>2 DEF TypeOK, ReaderInv
  <2>2. handled + 1 \in 1..(Len(frames) + 1)
    BY <2>1
  <2>3. At(handled + 1) \in Nat
    BY <1>2, <2>2 DEF WordInv
  <2> QED BY <1>1, <1>2, <2>1, <2>3 DEF ReaderInv
<1>8. rseq' = startSeqNo + 2 + handled /\ rseq' <= startSeqNo + 1 + Len(frames)
  BY <1>6, <1>7 DEF startSeqNo
<1>9. ReaderInv'
  <2>1. (At(handled + 1))' = At(handled + 1) /\ Current' = Current
    BY <1>1 DEF At, Current
  <2>2. Pos' = At(handled + 1) + 2
    BY <1>4, <1>7
  <2> QED BY <1>1, <1>4, <1>6, <1>7, <1>8, <2>1, <2>2 DEF ReaderInv
<1>10. AnswersInOrder' /\ NoFalseEnd' /\ SentInv'
  BY <1>1, <1>6, <1>8 DEF DownInv, AnswersInOrder, NoFalseEnd, SentInv
<1> QED BY <1>4, <1>6, <1>8, <1>9, <1>10 DEF DownInv

LEMMA ReadDataDown ==
    ASSUME TypeOK, DownInv, ReadData
    PROVE  DownInv' /\ buf' \in Seq(Word)
<1>1. /\ Reading /\ phase = "data" /\ Short <= 0 /\ buf' = SubSeq(buf, Want + 1, Len(buf))
      /\ phase' = "crc"
      /\ UNCHANGED <<hs, rseq, frames, ends, meFin, line, sock, msgLen, handled, got>>
  BY DEF ReadData, dial, me
<1>2. ReaderInv /\ WordInv
  BY <1>1 DEF DownInv
<1>3. /\ handled \in Nat /\ Len(frames) \in Nat /\ handled < Len(frames)
      /\ rseq = startSeqNo + 2 + handled /\ msgLen = 4 * DataWords[Current] + 12
      /\ Pos = At(handled + 1) + 2
  BY <1>1, <1>2 DEF TypeOK, ReaderInv
<1>4. handled + 1 \in 1..Len(frames)
  BY <1>3
<1>5. Current \in DownKinds /\ At(handled + 1) \in Nat
  BY <1>2, <1>4, FramePlace DEF Current
<1>6. PICK d \in Nat : d = DataWords[Current]
  BY <1>5, FrameFacts
<1>7. Want = d
  <2>1. ((4 * d + 12) - 12) \div 4 = d
    BY <1>6
  <2> QED BY <1>1, <1>3, <1>6, <2>1 DEF Want
<1>8. d \in 0..Len(buf)
  <2>1. Len(buf) \in Nat /\ d - Len(buf) <= 0
    BY <1>1, <1>7 DEF TypeOK, Short
  <2> QED BY <1>6, <2>1
<1>9. /\ WordInv' /\ Pos' = Pos + d /\ (\A i : At(i)' = At(i)) /\ Pos \in Nat
      /\ (Pos' + Len(buf')) % cbcBlock = 0 /\ buf' \in Seq(Word)
  BY <1>1, <1>7, <1>8, ReadWords
<1>10. ReaderInv'
  <2>1. (At(handled + 1))' = At(handled + 1) /\ Current' = Current
    BY <1>1 DEF At, Current
  <2>2. Pos' = At(handled + 1) + 2 + d
    BY <1>3, <1>9
  <2> QED BY <1>1, <1>3, <1>6, <1>9, <2>1, <2>2 DEF ReaderInv
<1>11. AnswersInOrder' /\ NoFalseEnd' /\ SentInv'
  BY <1>1 DEF DownInv, AnswersInOrder, NoFalseEnd, SentInv
<1> QED BY <1>9, <1>10, <1>11 DEF DownInv

\* A frame that has been read: an answer is handed to the client after all the
\* answers before it.
LEMMA AnswerRead ==
    ASSUME TypeOK, DialInv, AnswersInOrder, NEW kind, handled < Len(frames), kind = frames[handled + 1],
           hs = "open", handled' = handled + 1, frames' = frames,
           got' = IF CarriesData(kind) THEN Append(got, handled + 1) ELSE got
    PROVE  AnswersInOrder'
<1>1. PICK n \in Nat : n = handled
  BY DEF TypeOK
<1>2. /\ got \in Seq(1..(MaxFrames + 1)) /\ Len(got) \in Nat
      /\ \A j, k \in 1..Len(got) : j < k => got[j] < got[k]
      /\ { got[k] : k \in 1..Len(got) } = { i \in 1..n : frames[i] \in Answers }
  <2>1. got \in Seq(1..(MaxFrames + 1)) /\ Len(got) \in Nat
    BY DEF TypeOK
  <2>2. DOMAIN got = 1..Len(got)
    BY <2>1
  <2> QED BY <1>1, <2>1, <2>2 DEF AnswersInOrder
<1>3. \A k \in 1..Len(got) : got[k] \in 1..n /\ frames[got[k]] \in Answers
  BY <1>2
<1>4. \A i \in 1..n : frames[i] \in Answers => \E k \in 1..Len(got) : got[k] = i
  BY <1>2
<1>5. CASE kind \in Answers
  <2>1. got' = Append(got, n + 1)
    BY <1>1, <1>5 DEF CarriesData
  <2>2. /\ Len(got') = Len(got) + 1 /\ got'[Len(got) + 1] = n + 1
        /\ \A k \in 1..Len(got) : got'[k] = got[k]
    BY <1>2, <2>1
  <2>3. DOMAIN got' = 1..(Len(got) + 1)
    BY <1>2, <2>1
  <2>4. \A j, k \in 1..(Len(got) + 1) : j < k => got'[j] < got'[k]
    <3> SUFFICES ASSUME NEW j \in 1..(Len(got) + 1), NEW k \in 1..(Len(got) + 1), j < k
                 PROVE  got'[j] < got'[k]
      OBVIOUS
    <3>1. j \in 1..Len(got)
      BY <1>2
    <3>2. CASE k = Len(got) + 1
      <4>1. got'[j] \in 1..n /\ got'[k] = n + 1
        BY <1>3, <2>2, <3>1, <3>2
      <4> QED BY <1>1, <4>1
    <3>3. CASE k # Len(got) + 1
      <4>1. k \in 1..Len(got)
        BY <1>2, <3>3
      <4> QED BY <1>2, <2>2, <3>1, <4>1
    <3> QED BY <3>2, <3>3
  <2>5. ASSUME NEW k \in 1..(Len(got) + 1)
        PROVE  got'[k] \in 1..(n + 1) /\ frames[got'[k]] \in Answers
    <3>1. CASE k = Len(got) + 1
      BY <1>1, <1>5, <2>2, <3>1
    <3>2. CASE k # Len(got) + 1
      <4>1. k \in 1..Len(got)
        BY <1>2, <3>2
      <4>2. got[k] \in 1..n /\ frames[got[k]] \in Answers /\ got'[k] = got[k]
        BY <1>3, <2>2, <4>1
      <4> QED BY <1>1, <4>2
    <3> QED BY <3>1, <3>2
  <2>6. ASSUME NEW i \in 1..(n + 1), frames[i] \in Answers
        PROVE  \E k \in 1..(Len(got) + 1) : got'[k] = i
    <3>1. CASE i = n + 1
      <4>1. Len(got) + 1 \in 1..(Len(got) + 1)
        BY <1>2
      <4> QED BY <2>2, <3>1, <4>1
    <3>2. CASE i # n + 1
      <4>1. i \in 1..n
        BY <1>1, <3>2
      <4>2. PICK k \in 1..Len(got) : got[k] = i
        BY <1>4, <2>6, <4>1
      <4>3. k \in 1..(Len(got) + 1) /\ got'[k] = i
        BY <1>2, <2>2, <4>2
      <4> QED BY <4>3
    <3> QED BY <3>1, <3>2
  <2>7. { got'[k] : k \in 1..(Len(got) + 1) } = { i \in 1..(n + 1) : frames[i] \in Answers }
    BY <2>5, <2>6
  <2> QED BY <1>1, <2>3, <2>4, <2>7 DEF AnswersInOrder
<1>6. CASE kind \notin Answers
  <2>1. got' = got
    BY <1>6 DEF CarriesData
  <2>2. { i \in 1..(n + 1) : frames[i] \in Answers } = { i \in 1..n : frames[i] \in Answers }
    <3>1. \A i : i \in 1..(n + 1) <=> i \in 1..n \/ i = n + 1
      BY <1>1
    <3>2. frames[n + 1] \notin Answers
      BY <1>1, <1>6
    <3> QED BY <3>1, <3>2
  <2>3. DOMAIN got' = 1..Len(got) /\ handled' = n + 1
    BY <1>1, <1>2, <2>1
  <2> QED BY <1>2, <2>1, <2>2, <2>3 DEF AnswersInOrder
<1> QED BY <1>5, <1>6

LEMMA ReadChecksumDown ==
    ASSUME TypeOK, DialInv, DownInv, ReadChecksum
    PROVE  /\ DownInv' /\ buf' \in Seq(Word) /\ handled < Len(frames)
           /\ hs = "open" => hs' \in {"open", "ended"}
           /\ hs = "hello" => hs' \in {"open", "refused"}
<1>1. /\ Reading /\ phase = "crc" /\ Short <= 0 /\ buf' = Tail(buf) /\ phase' = "len"
      /\ handled' = handled + 1 /\ UNCHANGED <<rseq, frames, ends, meFin, line, sock, msgLen>>
  BY DEF ReadChecksum, me
<1>2. ReaderInv /\ WordInv /\ hs \in {"hello", "open"}
  BY <1>1 DEF DownInv, Reading
<1>3. Len(buf) >= 1 /\ buf' = SubSeq(buf, 1 + 1, Len(buf)) /\ 1 \in 0..Len(buf)
  BY <1>1, TailWords
<1>4. /\ WordInv' /\ Pos' = Pos + 1 /\ (\A i : At(i)' = At(i)) /\ Pos \in Nat
      /\ (Pos' + Len(buf')) % cbcBlock = 0 /\ buf' \in Seq(Word)
  BY <1>1, <1>3, ReadWords
<1>5. Head(buf)[2] = frames[handled + 1]
  BY <1>1, <1>2, <1>3, CrcWord DEF Current
<1>6. /\ handled \in Nat /\ Len(frames) \in Nat /\ handled < Len(frames)
      /\ rseq = startSeqNo + 2 + handled
      /\ Pos = At(handled + 1) + 2 + DataWords[frames[handled + 1]]
  BY <1>1, <1>2 DEF TypeOK, ReaderInv, Current
<1>7. PICK i \in 1..Len(frames) : i = handled + 1
  BY <1>6
<1>8. /\ hs = "hello" => hs' = (IF frames[i] = "handshake" THEN "open" ELSE "refused") /\ got' = got
      /\ hs = "open" => /\ hs' = IF EndsSession(frames[i]) THEN "ended" ELSE "open"
                        /\ got' = IF CarriesData(frames[i]) THEN Append(got, handled + 1) ELSE got
  BY <1>5, <1>7 DEF ReadChecksum, StopReading
<1>9. ReaderInv'
  <2>1. frames[i] \in DownKinds /\ At(i) \in Nat /\ At(i + 1) = At(i) + FrameLen(frames[i])
    BY <1>2, FramePlace
  <2>2. PICK a \in Nat : a = At(i)
    BY <2>1
  <2>3. PICK d \in Nat : d = DataWords[frames[i]]
    BY <2>1, FrameFacts
  <2>4. PICK f \in Nat : f = FrameLen(frames[i]) /\ f >= d + 3 /\ f < d + 7
    BY <2>1, <2>3, FrameFacts
  <2>5. (At(handled + 1))' = a + f /\ (At(handled))' = a
    <3>1. (At(handled + 1))' = At(i + 1) /\ (At(handled))' = At(i)
      BY <1>1, <1>7 DEF At
    <3> QED BY <2>1, <2>2, <2>4, <3>1
  <2>6. Pos' = a + d + 3
    <3>1. Pos' = (a + 2 + d) + 1
      BY <1>4, <1>6, <1>7, <2>2, <2>3
    <3> QED BY <3>1
  <2>7. a + d + 3 <= a + f /\ (a + f) - (a + d + 3) < 4 /\ a + d + 3 >= a + d + 3
    BY <2>4
  <2>8. handled' = i /\ i > 0 /\ rseq' = startSeqNo + 1 + handled' /\ frames'[handled'] = frames[i]
    BY <1>1, <1>6, <1>7 DEF startSeqNo
  <2> QED BY <1>1, <1>4, <2>3, <2>5, <2>6, <2>7, <2>8 DEF ReaderInv, cbcBlock
<1>10. AnswersInOrder'
  <2>1. CASE hs = "open"
    BY <1>1, <1>6, <1>7, <1>8, <2>1, AnswerRead DEF DownInv
  <2>2. CASE hs = "hello" /\ frames[i] = "handshake"
    <3>1. got' = << >> /\ handled' = 1 /\ i = 1
      BY <1>1, <1>7, <1>8, <2>2 DEF DialInv
    <3>2. frames'[1] \notin Answers
      BY <1>1, <2>2, <3>1 DEF Answers
    <3>3. { k \in 1..handled' : frames'[k] \in Answers } = {}
      <4>1. \A k \in 1..handled' : k = 1
        BY <3>1
      <4> QED BY <3>2, <4>1
    <3>4. DOMAIN got' = {}
      BY <3>1
    <3> QED BY <3>3, <3>4 DEF AnswersInOrder
  <2>3. CASE hs = "hello" /\ frames[i] # "handshake"
    BY <1>8, <2>3 DEF AnswersInOrder
  <2> QED BY <1>2, <2>1, <2>2, <2>3
<1>11. NoFalseEnd'
  <2>1. handled' > 0 /\ frames'[handled'] = frames[i]
    BY <1>1, <1>6, <1>7
  <2>2. CASE hs = "open"
    BY <1>8, <2>1, <2>2 DEF NoFalseEnd, EndsSession
  <2>3. CASE hs = "hello"
    <3>1. i = 1 /\ frames # << >>
      BY <1>7, <2>3 DEF DialInv
    <3>2. frames[i] \in {"handshake", "other"}
      BY <3>1 DEF DownInv, SentInv
    <3> QED BY <1>8, <2>1, <2>3, <3>2 DEF NoFalseEnd
  <2> QED BY <1>2, <2>2, <2>3
<1>12. SentInv'
  BY <1>1 DEF DownInv, SentInv
<1>13. /\ hs = "open" => hs' \in {"open", "ended"}
       /\ hs = "hello" => hs' \in {"open", "refused"}
  BY <1>8
<1> QED BY <1>4, <1>6, <1>9, <1>10, <1>11, <1>12, <1>13 DEF DownInv

LEMMA ReadEOFDown ==
    ASSUME TypeOK, DialInv, DownInv, ReadEOF
    PROVE  /\ DownInv'
           /\ hs = "open" => hs' = "ended"
           /\ hs = "hello" => hs' = "refused"
<1>1. /\ hs \in {"hello", "open"} /\ hs' = (IF hs = "open" THEN "ended" ELSE "refused") /\ meFin' = TRUE
      /\ UNCHANGED <<rseq, frames, ends, meFin, line, sock, buf, phase, msgLen, handled, got>>
  BY DEF ReadEOF, StopReading, Reading, me, reader, TypeOK
<1>2. Left' = Left
  BY <1>1 DEF Left
<1>3. WordInv'
  BY <1>1, <1>2, WordsStay DEF DownInv, WordInv
<1>4. AnswersInOrder' /\ NoFalseEnd' /\ SentInv' /\ ~Reading'
  BY <1>1 DEF DownInv, AnswersInOrder, NoFalseEnd, SentInv, Reading
<1> QED BY <1>1, <1>3, <1>4 DEF DownInv

-----------------------------------------------------------------------------
(* The upload, step by step *)

\* The size of a frame of the client, its length field included.
LEMMA SizeFacts ==
    ASSUME TypeOK, NEW i \in 1..Len(stream)
    PROVE  Size(i) \in Nat /\ Size(i) >= 2
<1>1. \A k \in DOMAIN Units : Units[k] \in Nat
  BY DEF Units
<1>2. stream[i] \in DOMAIN Units
  <2>1. stream \in Seq(UpKinds)
    BY DEF TypeOK
  <2>2. stream[i] \in UpKinds
    BY <2>1
  <2> QED BY <2>2, Bounds
<1>3. Units[stream[i]] \in Nat
  BY <1>1, <1>2
<1> QED BY <1>3 DEF Size

\* The numbers and sizes that the proofs about the units are about.
LEMMA NextFrameFacts ==
    ASSUME TypeOK
    PROVE  /\ Len(stream) \in Nat /\ Len(wbuf) \in Nat /\ Len(pending) \in Nat /\ Len(toME) \in Nat
           /\ NextFrame \in Nat /\ NextFrame >= 1
           /\ Len(toME) >= 2 => Len(toME) = NextFrame + 1
<1>1. /\ Len(stream) \in Nat /\ Len(wbuf) \in Nat /\ Len(pending) \in Nat /\ Len(toME) \in Nat
  BY DEF TypeOK
<1> QED BY <1>1 DEF NextFrame

\* What is kept when no unit moves.
LEMMA UnitsStay ==
    ASSUME UnitsInv, UNCHANGED <<stream, pending, wbuf>>, NextFrame' = NextFrame
    PROVE  UnitsInv'
<1>1. PICK at \in [1..(Len(stream) + 1) -> Nat] : UnitsAt(at)
  BY DEF UnitsInv
<1>2. \A i : Size(i)' = Size(i)
  BY DEF Size
<1>3. \A u, x : PlacedAt(u, x, at)' = PlacedAt(u, x, at)
  BY <1>2 DEF PlacedAt
<1>4. UnitsAt(at)'
  BY <1>1, <1>2, <1>3 DEF UnitsAt
<1> QED BY <1>1, <1>4 DEF UnitsInv

LEMMA UnitsJoin ==
    ASSUME NEW S, NEW s \in Seq(S), NEW t \in Seq(S)
    PROVE  /\ s \o t \in Seq(S) /\ Len(s \o t) = Len(s) + Len(t)
           /\ \A k \in 1..Len(s) : (s \o t)[k] = s[k]
           /\ \A j \in 1..Len(t) : (s \o t)[Len(s) + j] = t[j]
OBVIOUS

LEMMA UnitsMove ==
    ASSUME NEW S, NEW s \in Seq(S), NEW t \in Seq(S), NEW n \in 0..Len(t)
    PROVE  /\ s \o SubSeq(t, 1, n) \in Seq(S) /\ Len(s \o SubSeq(t, 1, n)) = Len(s) + n
           /\ \A k \in 1..Len(s) : (s \o SubSeq(t, 1, n))[k] = s[k]
           /\ \A k \in 1..n : (s \o SubSeq(t, 1, n))[Len(s) + k] = t[k]
           /\ SubSeq(t, n + 1, Len(t)) \in Seq(S) /\ Len(SubSeq(t, n + 1, Len(t))) = Len(t) - n
           /\ \A k \in 1..(Len(t) - n) : SubSeq(t, n + 1, Len(t))[k] = t[n + k]
<1>1. PICK a : a = SubSeq(t, 1, n)
  OBVIOUS
<1>2. a \in Seq(S) /\ Len(a) = n /\ \A k \in 1..n : a[k] = t[k]
  BY <1>1
<1>3. s \o a \in Seq(S) /\ Len(s \o a) = Len(s) + n /\ \A k \in 1..Len(s) : (s \o a)[k] = s[k]
  BY <1>2, UnitsJoin
<1>4. \A k \in 1..n : (s \o a)[Len(s) + k] = a[k]
  <2>1. \A k \in 1..Len(a) : (s \o a)[Len(s) + k] = a[k]
    BY <1>2, UnitsJoin
  <2> QED BY <1>2, <2>1
<1>5. PICK b : b = SubSeq(t, n + 1, Len(t))
  OBVIOUS
<1>6. b \in Seq(S) /\ Len(b) = Len(t) - n /\ \A k \in 1..(Len(t) - n) : b[k] = t[n + k]
  BY <1>5
<1> QED BY <1>1, <1>2, <1>3, <1>4, <1>5, <1>6

\* io.Copy hands over a piece of the stream.
LEMMA UnitsWritten ==
    ASSUME TypeOK, UnitsInv, NEW n \in 1..Len(pending), Write(n)
    PROVE  UnitsInv' /\ wbuf' \in Seq(Nat \X Nat) /\ pending' \in Seq(Nat \X Nat)
<1>1. /\ wbuf' = wbuf \o SubSeq(pending, 1, n) /\ pending' = SubSeq(pending, n + 1, Len(pending))
      /\ UNCHANGED <<stream, toME>>
  BY DEF Write
<1>2. PICK at \in [1..(Len(stream) + 1) -> Nat] : UnitsAt(at)
  BY DEF UnitsInv
<1>3. PICK w \in Nat : w = Len(wbuf)
  BY NextFrameFacts
<1>4. PICK l \in Nat : l = Len(pending)
  BY NextFrameFacts
<1>5. PICK b \in Nat : b = at[NextFrame]
  <2>1. NextFrame \in 1..(Len(stream) + 1)
    BY <1>2, NextFrameFacts DEF UnitsAt
  <2> QED BY <1>2, <2>1
<1>6. n \in 0..l /\ n \in Nat
  BY <1>4
<1>7. PICK S : S = Nat \X Nat
  OBVIOUS
<1>8. wbuf \in Seq(S) /\ pending \in Seq(S) /\ n \in 0..Len(pending)
  BY <1>4, <1>6, <1>7 DEF TypeOK
<1>9. /\ wbuf' \in Seq(S) /\ Len(wbuf') = w + n
      /\ \A k \in 1..w : wbuf'[k] = wbuf[k]
      /\ \A k \in 1..n : wbuf'[w + k] = pending[k]
  BY <1>1, <1>3, <1>8, UnitsMove
<1>10. /\ pending' \in Seq(S) /\ Len(pending') = l - n
       /\ \A k \in 1..(l - n) : pending'[k] = pending[n + k]
  BY <1>1, <1>4, <1>8, UnitsMove
<1>nat. b \in Nat /\ w \in Nat /\ l \in Nat /\ n \in Nat
  BY <1>3, <1>4, <1>5, <1>6
<1>11. NextFrame' = NextFrame /\ (\A i : Size(i)' = Size(i)) /\ Len(stream') = Len(stream)
  BY <1>1 DEF NextFrame, Size
<1>12. /\ b + w + l = at[Len(stream) + 1]
       /\ \A k \in 1..w : PlacedAt(wbuf[k], b + k, at)
       /\ \A k \in 1..l : PlacedAt(pending[k], b + w + k, at)
  BY <1>2, <1>3, <1>4, <1>5 DEF UnitsAt
<1>13. \A k \in 1..(w + n) : PlacedAt(wbuf'[k], b + k, at)
  <2> TAKE k \in 1..(w + n)
  <2>1. CASE k <= w
    <3>1. k \in 1..w
      BY <1>3, <2>1
    <3> QED BY <1>9, <1>12, <3>1
  <2>2. CASE ~(k <= w)
    <3>1. PICK j \in 1..n : k = w + j
      <4>1. k - w \in 1..n /\ k = w + (k - w)
        BY <1>3, <1>6, <2>2
      <4> QED BY <4>1
    <3>2. wbuf'[k] = pending[j] /\ j \in 1..l
      BY <1>4, <1>6, <1>9, <3>1
    <3>3. b + k = b + w + j
      BY <1>nat, <3>1
    <3> QED BY <1>12, <3>2, <3>3
  <2> QED BY <2>1, <2>2
<1>14. \A k \in 1..(l - n) : PlacedAt(pending'[k], b + (w + n) + k, at)
  <2> TAKE k \in 1..(l - n)
  <2>1. n + k \in 1..l /\ b + w + (n + k) = b + (w + n) + k
    BY <1>nat
  <2> QED BY <1>10, <1>12, <2>1
<1>15. b + (w + n) + (l - n) = at[Len(stream) + 1]
  <2>1. b + (w + n) + (l - n) = b + w + l
    BY <1>nat
  <2> QED BY <1>12, <2>1
<1>16. UnitsAt(at)'
  <2>1. at[NextFrame'] = b /\ NextFrame' <= Len(stream') + 1 /\ Len(wbuf') = w + n /\ Len(pending') = l - n
    BY <1>2, <1>5, <1>9, <1>10, <1>11 DEF UnitsAt
  <2>2. /\ \A i \in 1..Len(stream') : at[i + 1] = at[i] + Size(i)'
        /\ \A i, j \in 1..(Len(stream') + 1) : i < j => at[i] < at[j]
    BY <1>2, <1>11 DEF UnitsAt
  <2>3. at[NextFrame'] + Len(wbuf') + Len(pending') = at[Len(stream') + 1]
    BY <1>11, <1>15, <2>1
  <2>4. \A k \in 1..Len(wbuf') : PlacedAt(wbuf[k], at[NextFrame] + k, at)'
    <3> TAKE k \in 1..Len(wbuf')
    <3>1. PlacedAt(wbuf'[k], b + k, at)
      BY <1>13, <2>1
    <3>2. /\ wbuf'[k][1] \in 1..Len(stream) /\ wbuf'[k][2] \in 1..Size(wbuf'[k][1])
          /\ wbuf'[k] = <<wbuf'[k][1], wbuf'[k][2]>> /\ b + k = at[wbuf'[k][1]] + wbuf'[k][2]
      BY <3>1 DEF PlacedAt
    <3> QED BY <1>1, <2>1, <3>2 DEF PlacedAt, Size
  <2>5. \A k \in 1..Len(pending') : PlacedAt(pending[k], at[NextFrame] + Len(wbuf) + k, at)'
    <3> TAKE k \in 1..Len(pending')
    <3>1. PlacedAt(pending'[k], b + (w + n) + k, at)
      BY <1>14, <2>1
    <3>2. /\ pending'[k][1] \in 1..Len(stream) /\ pending'[k][2] \in 1..Size(pending'[k][1])
          /\ pending'[k] = <<pending'[k][1], pending'[k][2]>>
          /\ b + (w + n) + k = at[pending'[k][1]] + pending'[k][2]
      BY <3>1 DEF PlacedAt
    <3> QED BY <1>1, <2>1, <3>2 DEF PlacedAt, Size
  <2> QED BY <2>1, <2>2, <2>3, <2>4, <2>5 DEF UnitsAt
<1> QED BY <1>1, <1>2, <1>7, <1>9, <1>10, <1>16 DEF UnitsInv

\* The client sends a frame: its place is behind all the others.
LEMMA UnitsArrive ==
    ASSUME TypeOK, UnitsInv, NEW kind \in UpKinds, ClientSends(kind)
    PROVE  /\ UnitsInv' /\ stream' \in Seq(UpKinds) /\ pending' \in Seq(Nat \X Nat)
           /\ Len(stream') = Len(stream) + 1 /\ NextFrame' = NextFrame /\ NextFrame <= Len(stream) + 1
           /\ \A i \in 1..Len(stream) : stream'[i] = stream[i] /\ Size(i)' = Size(i)
           /\ \A k \in DOMAIN wbuf : wbuf[k][1] \in 1..Len(stream)
<1>1. /\ stream' = Append(stream, kind) /\ pending' = pending \o FrameUnits(Len(stream) + 1, kind)
      /\ UNCHANGED <<toME, wbuf>>
  BY DEF ClientSends
<1>2. PICK at \in [1..(Len(stream) + 1) -> Nat] : UnitsAt(at)
  BY DEF UnitsInv
<1>3. PICK n \in Nat : n = Len(stream)
  BY NextFrameFacts
<1>4. PICK w \in Nat : w = Len(wbuf)
  BY NextFrameFacts
<1>5. PICK l \in Nat : l = Len(pending)
  BY NextFrameFacts
<1>6. PICK p \in 1..(n + 1) : p = NextFrame
  BY <1>2, <1>3, NextFrameFacts DEF UnitsAt
<1>7. at \in [1..(n + 1) -> Nat]
  BY <1>2, <1>3
<1>8. PICK s \in Nat : s = Units[kind] + 2 /\ s >= 2
  <2>1. \A k \in DOMAIN Units : Units[k] \in Nat
    BY DEF Units
  <2>2. Units[kind] \in Nat
    BY <2>1, Bounds
  <2> QED BY <2>2
<1>9. PICK b \in Nat : b = at[p]
  BY <1>6, <1>7
<1>10. PICK c \in Nat : c = at[n + 1]
  <2>1. n + 1 \in 1..(n + 1)
    BY <1>3
  <2> QED BY <1>7, <2>1
<1>nat. n \in Nat /\ w \in Nat /\ l \in Nat /\ s \in Nat /\ b \in Nat /\ c \in Nat /\ p \in 1..(n + 1) /\ s >= 2
  BY <1>3, <1>4, <1>5, <1>6, <1>8, <1>9, <1>10
<1>11. /\ stream' \in Seq(UpKinds) /\ Len(stream') = n + 1 /\ stream'[n + 1] = kind
       /\ \A i \in 1..n : stream'[i] = stream[i]
  <2>1. stream \in Seq(UpKinds)
    BY DEF TypeOK
  <2> QED BY <1>1, <1>3, <2>1
<1>12. (\A i \in 1..n : Size(i)' = Size(i)) /\ Size(n + 1)' = s
  BY <1>8, <1>11 DEF Size
<1>13. PICK u : u = [j \in 1..s |-> <<n + 1, j>>]
  OBVIOUS
<1>14. u = FrameUnits(Len(stream) + 1, kind)
  BY <1>3, <1>8, <1>13 DEF FrameUnits
<1>15. u \in Seq(Nat \X Nat) /\ Len(u) = s /\ \A j \in 1..s : u[j] = <<n + 1, j>>
  <2>1. \A j \in 1..s : <<n + 1, j>> \in Nat \X Nat
    BY <1>nat
  <2>2. u \in [1..s -> Nat \X Nat]
    BY <1>13, <2>1
  <2>3. \A j \in 1..s : u[j] = <<n + 1, j>>
    BY <1>13
  <2>4. u \in Seq(Nat \X Nat) /\ Len(u) = s
    <3>1. PICK S : S = Nat \X Nat
      OBVIOUS
    <3>2. u \in Seq(S) /\ Len(u) = s
      BY <1>nat, <2>2, <3>1
    <3> QED BY <3>1, <3>2
  <2> QED BY <2>3, <2>4
<1>16. /\ pending' \in Seq(Nat \X Nat) /\ Len(pending') = l + s
       /\ \A k \in 1..l : pending'[k] = pending[k]
       /\ \A j \in 1..s : pending'[l + j] = <<n + 1, j>>
  <2>1. PICK S : S = Nat \X Nat
    OBVIOUS
  <2>2. u \in Seq(S) /\ pending \in Seq(S) /\ pending' = pending \o u
    BY <1>1, <1>14, <1>15, <2>1 DEF TypeOK
  <2>3. /\ pending \o u \in Seq(S) /\ Len(pending \o u) = Len(pending) + Len(u)
        /\ \A k \in 1..Len(pending) : (pending \o u)[k] = pending[k]
        /\ \A j \in 1..Len(u) : (pending \o u)[Len(pending) + j] = u[j]
    BY <2>2, UnitsJoin
  <2> QED BY <1>5, <1>15, <2>1, <2>2, <2>3
<1>17. /\ \A i \in 1..n : at[i + 1] = at[i] + Size(i)
       /\ \A i, j \in 1..(n + 1) : i < j => at[i] < at[j]
       /\ b + w + l = c
       /\ \A k \in 1..w : PlacedAt(wbuf[k], b + k, at)
       /\ \A k \in 1..l : PlacedAt(pending[k], b + w + k, at)
  BY <1>2, <1>3, <1>4, <1>5, <1>6, <1>9, <1>10 DEF UnitsAt
<1>18. PICK to : to = [i \in 1..(n + 2) |-> IF i = n + 2 THEN c + s ELSE at[i]]
  OBVIOUS
<1>19. (\A i \in 1..(n + 1) : to[i] = at[i]) /\ to[n + 2] = c + s /\ to \in [1..(n + 2) -> Nat]
  <2>1. n + 2 \in 1..(n + 2) /\ c + s \in Nat
    BY <1>nat
  <2>2. \A i \in 1..(n + 1) : i \in 1..(n + 2) /\ i # n + 2
    BY <1>nat
  <2>3. \A i \in 1..(n + 2) : i # n + 2 => i \in 1..(n + 1)
    BY <1>nat
  <2> QED BY <1>7, <1>18, <2>1, <2>2, <2>3
<1>20. NextFrame' = p /\ to[p] = b /\ to[n + 1] = c
  <2>1. n + 1 \in 1..(n + 1)
    BY <1>nat
  <2> QED BY <1>1, <1>6, <1>9, <1>10, <1>19, <2>1 DEF NextFrame
<1>21. ASSUME NEW v, NEW x, PlacedAt(v, x, at)
       PROVE  PlacedAt(v, x, to)'
  <2>1. /\ v[1] \in 1..n /\ v[2] \in 1..Size(v[1]) /\ v = <<v[1], v[2]>> /\ x = at[v[1]] + v[2]
    BY <1>3, <1>21 DEF PlacedAt
  <2>2. v[1] \in 1..(n + 1)
    BY <1>nat, <2>1
  <2>3. to[v[1]] = at[v[1]] /\ Size(v[1])' = Size(v[1])
    BY <1>12, <1>19, <2>1, <2>2
  <2> QED BY <1>11, <2>1, <2>2, <2>3 DEF PlacedAt, Size
<1>22. UnitsAt(to)'
  <2>1. \A i \in 1..(n + 1) : to[i + 1] = to[i] + Size(i)'
    <3> TAKE i \in 1..(n + 1)
    <3>1. CASE i = n + 1
      <4>1. i + 1 = n + 2
        BY <1>nat, <3>1
      <4> QED BY <1>12, <1>19, <1>20, <3>1, <4>1
    <3>2. CASE i # n + 1
      <4>1. i \in 1..n /\ i \in 1..(n + 1) /\ i + 1 \in 1..(n + 1)
        BY <1>nat, <3>2
      <4> QED BY <1>12, <1>17, <1>19, <4>1
    <3> QED BY <3>1, <3>2
  <2>2. \A i, j \in 1..(n + 2) : i < j => to[i] < to[j]
    <3> SUFFICES ASSUME NEW i \in 1..(n + 2), NEW j \in 1..(n + 2), i < j
                 PROVE  to[i] < to[j]
      OBVIOUS
    <3>1. i \in 1..(n + 1) /\ to[i] = at[i]
      BY <1>nat, <1>19
    <3>2. CASE j = n + 2
      <4>1. at[i] <= c /\ at[i] \in Nat
        <5>1. i = n + 1 \/ i < n + 1
          BY <1>nat, <3>1
        <5>2. i < n + 1 => at[i] < at[n + 1]
          <6>1. n + 1 \in 1..(n + 1)
            BY <1>nat
          <6> QED BY <1>17, <3>1, <6>1
        <5>3. at[i] \in Nat
          BY <1>7, <3>1
        <5> QED BY <1>10, <5>1, <5>2, <5>3
      <4>2. c < c + s
        BY <1>nat
      <4> QED BY <1>nat, <1>19, <3>1, <3>2, <4>1, <4>2
    <3>3. CASE j # n + 2
      <4>1. j \in 1..(n + 1)
        BY <1>nat, <3>3
      <4> QED BY <1>17, <1>19, <3>1, <4>1
    <3> QED BY <3>2, <3>3
  <2>3. b + w + (l + s) = c + s
    BY <1>nat, <1>17
  <2>4. ASSUME NEW k \in 1..w
        PROVE  PlacedAt(wbuf[k], b + k, to)'
    <3>1. PlacedAt(wbuf[k], b + k, at) /\ wbuf'[k] = wbuf[k]
      BY <1>1, <1>17
    <3> QED BY <1>21, <3>1
  <2>5. ASSUME NEW k \in 1..(l + s)
        PROVE  PlacedAt(pending[k], b + w + k, to)'
    <3>1. CASE k <= l
      <4>1. k \in 1..l
        BY <1>nat, <3>1
      <4>2. PlacedAt(pending[k], b + w + k, at) /\ pending'[k] = pending[k]
        BY <1>16, <1>17, <4>1
      <4> QED BY <1>21, <4>2
    <3>2. CASE ~(k <= l)
      <4>1. PICK j \in 1..s : k = l + j
        <5>1. k - l \in 1..s /\ k = l + (k - l)
          BY <1>nat, <3>2
        <5> QED BY <5>1
      <4>2. pending'[k] = <<n + 1, j>>
        BY <1>16, <4>1
      <4>3. n + 1 \in 1..(n + 1) /\ j \in 1..Size(n + 1)'
        BY <1>nat, <1>12, <4>1
      <4>4. b + w + k = c + j
        <5>1. b + w + l = c
          BY <1>17
        <5> QED BY <1>nat, <4>1, <5>1
      <4>5. ASSUME NEW v, v = <<n + 1, j>> PROVE PlacedAt(v, c + j, to)'
        <5>1. v[1] = n + 1 /\ v[2] = j
          BY <4>5
        <5> QED BY <1>11, <1>20, <4>3, <4>5, <5>1 DEF PlacedAt, Size
      <4> QED BY <4>2, <4>4, <4>5
    <3> QED BY <3>1, <3>2
  <2>6. p <= (n + 1) + 1 /\ n + 2 = (n + 1) + 1
    BY <1>nat
  <2>7. Len(wbuf') = w
    BY <1>1, <1>4
  <2> QED BY <1>11, <1>16, <1>19, <1>20, <2>1, <2>2, <2>3, <2>4, <2>5, <2>6, <2>7 DEF UnitsAt
<1>23. UnitsInv'
  <2>1. Len(stream') + 1 = n + 2
    BY <1>nat, <1>11
  <2> QED BY <1>19, <1>22, <2>1 DEF UnitsInv
<1>24. \A k \in DOMAIN wbuf : wbuf[k][1] \in 1..Len(stream)
  <2>1. DOMAIN wbuf = 1..w
    BY <1>4 DEF TypeOK
  <2> QED BY <1>17, <2>1 DEF PlacedAt
<1>25. p <= n + 1
  BY <1>nat
<1> QED BY <1>3, <1>6, <1>11, <1>12, <1>16, <1>20, <1>23, <1>24, <1>25

\* wbuf begins with the first unit of the next frame.
LEMMA FirstUnit ==
    ASSUME TypeOK, UnitsInv, Len(wbuf) >= 1
    PROVE  wbuf[1][1] = NextFrame /\ NextFrame \in 1..Len(stream)
<1>1. PICK at \in [1..(Len(stream) + 1) -> Nat] : UnitsAt(at)
  BY DEF UnitsInv
<1>2. PICK n \in Nat : n = Len(stream)
  BY NextFrameFacts
<1>3. PICK p \in 1..(n + 1) : p = NextFrame
  BY <1>1, <1>2, NextFrameFacts DEF UnitsAt
<1>4. at \in [1..(n + 1) -> Nat]
  BY <1>1, <1>2
<1>5. PICK b \in Nat : b = at[p]
  BY <1>3, <1>4
<1>6. PlacedAt(wbuf[1], b + 1, at)
  <2>1. 1 \in 1..Len(wbuf)
    BY NextFrameFacts
  <2> QED BY <1>1, <1>3, <1>5, <2>1 DEF UnitsAt
<1>7. PICK i \in 1..n : i = wbuf[1][1]
  BY <1>2, <1>6 DEF PlacedAt
<1>8. PICK s \in Nat : s = Size(i)
  BY <1>2, SizeFacts
<1>9. PICK j \in 1..s : b + 1 = at[i] + j
  BY <1>6, <1>7, <1>8 DEF PlacedAt
<1>10. i \in 1..(n + 1) /\ i + 1 \in 1..(n + 1)
  BY <1>2, <1>7
<1>11. PICK a \in Nat : a = at[i] /\ at[i + 1] = a + s
  <2>1. at[i] \in Nat
    BY <1>4, <1>10
  <2> QED BY <1>1, <1>2, <1>8, <2>1 DEF UnitsAt
<1>nat. /\ n \in Nat /\ p \in 1..(n + 1) /\ i \in 1..n /\ s \in Nat /\ j \in 1..s /\ a \in Nat
        /\ b \in Nat /\ b + 1 = a + j
  BY <1>2, <1>3, <1>5, <1>7, <1>8, <1>9, <1>11
<1>12. \A x, y \in 1..(n + 1) : x < y => at[x] < at[y]
  BY <1>1, <1>2 DEF UnitsAt
<1>13. ~(i > p)
  <2>1. i > p => b < a
    BY <1>3, <1>5, <1>10, <1>11, <1>12
  <2> QED BY <1>nat, <2>1
<1>14. ~(i < p)
  <2> SUFFICES ASSUME i < p PROVE FALSE
    OBVIOUS
  <2>1. i + 1 = p \/ i + 1 < p
    BY <1>nat
  <2>2. i + 1 < p => a + s < b
    BY <1>3, <1>5, <1>10, <1>11, <1>12
  <2>3. i + 1 = p => a + s = b
    BY <1>5, <1>11
  <2> QED BY <1>nat, <2>1, <2>2, <2>3
<1>15. i = p
  BY <1>nat, <1>13, <1>14
<1> QED BY <1>2, <1>3, <1>7, <1>15

\* The whole frame at the beginning of wbuf goes to the ME.
LEMMA UnitsSent ==
    ASSUME TypeOK, UnitsInv, Len(toME) >= 2, Len(wbuf) >= 1, Len(wbuf) >= Size(NextFrame),
           wbuf' = SubSeq(wbuf, Size(NextFrame) + 1, Len(wbuf)), NEW r, toME' = Append(toME, r),
           UNCHANGED <<stream, pending>>
    PROVE  UnitsInv' /\ wbuf' \in Seq(Nat \X Nat)
<1>1. PICK at \in [1..(Len(stream) + 1) -> Nat] : UnitsAt(at)
  BY DEF UnitsInv
<1>2. PICK n \in Nat : n = Len(stream)
  BY NextFrameFacts
<1>3. PICK w \in Nat : w = Len(wbuf)
  BY NextFrameFacts
<1>4. PICK l \in Nat : l = Len(pending)
  BY NextFrameFacts
<1>5. PICK p \in 1..n : p = NextFrame
  BY <1>2, FirstUnit
<1>6. PICK s \in 0..w : s = Size(p)
  <2>1. Size(p) \in Nat
    BY <1>2, <1>5, SizeFacts
  <2> QED BY <1>3, <1>5, <2>1
<1>7. p \in 1..(n + 1) /\ p + 1 \in 1..(n + 1) /\ at \in [1..(n + 1) -> Nat]
  BY <1>1, <1>2, <1>5
<1>8. PICK b \in Nat : b = at[p] /\ at[p + 1] = b + s
  <2>1. at[p] \in Nat
    BY <1>7
  <2> QED BY <1>1, <1>2, <1>5, <1>6, <2>1 DEF UnitsAt
<1>nat. n \in Nat /\ w \in Nat /\ l \in Nat /\ b \in Nat /\ s \in 0..w /\ p \in 1..n
  BY <1>2, <1>3, <1>4, <1>5, <1>6, <1>8
<1>9. NextFrame' = p + 1
  <2>1. toME \in Seq([seq : Int, what : Nat]) /\ Len(toME) \in Nat
    BY DEF TypeOK
  <2>2. Len(toME') = Len(toME) + 1
    BY <2>1
  <2>3. Len(toME) = p + 1
    BY <1>5, NextFrameFacts
  <2>4. Len(toME') = p + 2
    BY <1>nat, <2>2, <2>3
  <2> QED BY <1>nat, <2>4 DEF NextFrame
<1>10. /\ wbuf' \in Seq(Nat \X Nat) /\ Len(wbuf') = w - s
       /\ \A k \in 1..(w - s) : wbuf'[k] = wbuf[s + k]
  <2>1. PICK S : S = Nat \X Nat
    OBVIOUS
  <2>2. wbuf \in Seq(S) /\ s \in 0..Len(wbuf) /\ wbuf' = SubSeq(wbuf, s + 1, Len(wbuf))
    BY <1>3, <1>5, <1>6, <2>1 DEF TypeOK
  <2>3. /\ SubSeq(wbuf, s + 1, Len(wbuf)) \in Seq(S) /\ Len(SubSeq(wbuf, s + 1, Len(wbuf))) = Len(wbuf) - s
        /\ \A k \in 1..(Len(wbuf) - s) : SubSeq(wbuf, s + 1, Len(wbuf))[k] = wbuf[s + k]
    BY <2>2, UnitsMove
  <2> QED BY <1>3, <2>1, <2>2, <2>3
<1>11. /\ \A i \in 1..n : at[i + 1] = at[i] + Size(i)
       /\ \A i, j \in 1..(n + 1) : i < j => at[i] < at[j]
       /\ b + w + l = at[n + 1]
       /\ \A k \in 1..w : PlacedAt(wbuf[k], b + k, at)
       /\ \A k \in 1..l : PlacedAt(pending[k], b + w + k, at)
  BY <1>1, <1>2, <1>3, <1>4, <1>5, <1>8 DEF UnitsAt
<1>12. ASSUME NEW v, NEW x, PlacedAt(v, x, at)
       PROVE  PlacedAt(v, x, at)'
  BY <1>12 DEF PlacedAt, Size
<1>13. UnitsAt(at)'
  <2>1. Len(stream') = n /\ Len(pending') = l /\ p + 1 <= n + 1
    BY <1>nat, <1>2, <1>4
  <2>2. /\ \A i \in 1..n : at[i + 1] = at[i] + Size(i)'
        /\ \A i, j \in 1..(n + 1) : i < j => at[i] < at[j]
    BY <1>11 DEF Size
  <2>3. (b + s) + (w - s) + l = at[n + 1]
    <3>1. (b + s) + (w - s) + l = b + w + l
      BY <1>nat
    <3> QED BY <1>11, <3>1
  <2>4. ASSUME NEW k \in 1..(w - s)
        PROVE  PlacedAt(wbuf[k], (b + s) + k, at)'
    <3>1. s + k \in 1..w /\ b + (s + k) = (b + s) + k
      BY <1>nat
    <3>2. PlacedAt(wbuf[s + k], (b + s) + k, at)
      BY <1>11, <3>1
    <3>3. wbuf'[k] = wbuf[s + k]
      BY <1>10
    <3> QED BY <1>12, <3>2, <3>3
  <2>5. ASSUME NEW k \in 1..l
        PROVE  PlacedAt(pending[k], (b + s) + (w - s) + k, at)'
    <3>1. (b + s) + (w - s) + k = b + w + k
      BY <1>nat
    <3>2. PlacedAt(pending[k], (b + s) + (w - s) + k, at) /\ pending'[k] = pending[k]
      BY <1>11, <3>1
    <3> QED BY <1>12, <3>2
  <2> QED BY <1>8, <1>9, <1>10, <2>1, <2>2, <2>3, <2>4, <2>5 DEF UnitsAt
<1> QED BY <1>1, <1>10, <1>13 DEF UnitsInv

\* When no whole frame is left, wbuf holds the last unit of none.
LEMMA NoLastUnit ==
    ASSUME TypeOK, UnitsInv, ~Holds(wbuf), NEW i \in 1..Len(stream), NEW k \in 1..Len(wbuf)
    PROVE  wbuf[k] # <<i, Size(i)>>
<1> SUFFICES ASSUME wbuf[k] = <<i, Size(i)>> PROVE FALSE
  OBVIOUS
<1>1. PICK at \in [1..(Len(stream) + 1) -> Nat] : UnitsAt(at)
  BY DEF UnitsInv
<1>2. PICK n \in Nat : n = Len(stream)
  BY NextFrameFacts
<1>3. PICK w \in Nat : w = Len(wbuf) /\ w >= 1 /\ k \in 1..w
  BY NextFrameFacts
<1>4. PICK p \in 1..n : p = NextFrame /\ wbuf[1][1] = p
  BY <1>2, <1>3, FirstUnit
<1>5. PICK s \in Nat : s = Size(p) /\ s >= 2
  BY <1>2, <1>4, SizeFacts
<1>6. w < s
  BY <1>3, <1>4, <1>5 DEF Holds
<1>7. /\ p \in 1..(n + 1) /\ p + 1 \in 1..(n + 1) /\ i \in 1..(n + 1) /\ i + 1 \in 1..(n + 1)
      /\ at \in [1..(n + 1) -> Nat]
  BY <1>1, <1>2, <1>4
<1>8. PICK b \in Nat : b = at[p] /\ at[p + 1] = b + s
  <2>1. at[p] \in Nat
    BY <1>7
  <2> QED BY <1>1, <1>2, <1>4, <1>5, <2>1 DEF UnitsAt
<1>9. at[i + 1] = b + k
  <2>1. PlacedAt(wbuf[k], b + k, at)
    BY <1>1, <1>4, <1>8 DEF UnitsAt
  <2>2. b + k = at[i] + Size(i)
    BY <2>1 DEF PlacedAt
  <2> QED BY <1>1, <2>2 DEF UnitsAt
<1>nat. /\ n \in Nat /\ w \in Nat /\ s \in Nat /\ b \in Nat /\ p \in 1..n /\ k \in 1..w /\ w < s
        /\ i \in 1..n
  BY <1>2, <1>3, <1>4, <1>5, <1>6, <1>8
<1>10. \A x, y \in 1..(n + 1) : x < y => at[x] < at[y]
  BY <1>1, <1>2 DEF UnitsAt
<1>11. i + 1 < p + 1 \/ i + 1 = p + 1 \/ p + 1 < i + 1
  BY <1>nat
<1>12. CASE i + 1 < p + 1
  <2>1. i + 1 = p \/ i + 1 < p
    BY <1>nat, <1>12
  <2>2. i + 1 < p => b + k < b
    BY <1>7, <1>8, <1>9, <1>10
  <2>3. i + 1 = p => b + k = b
    BY <1>8, <1>9
  <2> QED BY <1>nat, <2>1, <2>2, <2>3
<1>13. CASE i + 1 = p + 1
  <2>1. b + k = b + s
    BY <1>8, <1>9, <1>13
  <2> QED BY <1>nat, <2>1
<1>14. CASE p + 1 < i + 1
  <2>1. b + s < b + k
    BY <1>7, <1>8, <1>9, <1>10, <1>14
  <2> QED BY <1>nat, <2>1
<1> QED BY <1>11, <1>12, <1>13, <1>14

\* A step of the download leaves the upload alone.
LEMMA UpStays ==
    ASSUME UnitsInv, UploadExact, UNCHANGED <<toME, client>>
    PROVE  UnitsInv' /\ UploadExact'
<1>1. UNCHANGED <<toME, stream, pending, wbuf, up>>
  BY DEF client
<1>2. NextFrame' = NextFrame
  BY <1>1 DEF NextFrame
<1>3. UnitsInv'
  BY <1>1, <1>2, UnitsStay
<1>4. \A i : Size(i)' = Size(i) /\ Malformed(i)' = Malformed(i)
  BY <1>1 DEF Size, Malformed
<1>5. UploadExact'
  BY <1>1, <1>4 DEF UploadExact
<1> QED BY <1>3, <1>5

\* The two frames of the handshake, and the next endpoint.
LEMMA DialUp ==
    ASSUME TypeOK, DialInv, UnitsInv, UploadExact, SendNonce \/ NonceAnswered \/ NextEndpoint
    PROVE  /\ UnitsInv' /\ UploadExact' /\ toME' \in Seq([seq : Int, what : Nat])
<1>1. toME \in Seq([seq : Int, what : Nat]) /\ Len(toME) \in Nat /\ wseq \in Int
  BY DEF TypeOK
<1>2. stream = << >> /\ UNCHANGED <<stream, pending, wbuf, up>>
  <2>1. hs \in {"dial", "nonce", "refused"} /\ UNCHANGED client
    BY DEF SendNonce, NonceAnswered, NextEndpoint
  <2> QED BY <2>1 DEF DialInv, client
<1>3. \/ toME' = << >>
      \/ toME' = Append(toME, [seq |-> wseq, what |-> 0]) /\ Len(toME) <= 1
      \/ toME' = toME /\ Len(toME) <= 2
  <2>1. CASE SendNonce
    BY <2>1 DEF SendNonce, DialInv
  <2>2. CASE NonceAnswered
    <3>1. Len(toME) = 1 /\ toME' = Append(toME, [seq |-> wseq, what |-> 0])
      BY <2>2 DEF NonceAnswered, DialInv
    <3>2. Len(toME) <= 1
      BY <3>1
    <3> QED BY <3>1, <3>2
  <2>3. CASE NextEndpoint
    <3>1. hs \notin {"open", "ended"}
      BY <2>3 DEF NextEndpoint
    <3> QED BY <2>3, <3>1 DEF NextEndpoint, DialInv
  <2> QED BY <2>1, <2>2, <2>3
<1>4. Len(toME) <= 2
  <2>1. hs \notin {"open", "ended"}
    BY DEF SendNonce, NonceAnswered, NextEndpoint
  <2> QED BY <2>1 DEF DialInv
<1>5. [seq |-> wseq, what |-> 0] \in [seq : Int, what : Nat]
  BY <1>1
<1>6. toME' \in Seq([seq : Int, what : Nat]) /\ Len(toME') \in Nat /\ Len(toME') <= 2
  <2>1. PICK R : R = [seq : Int, what : Nat]
    OBVIOUS
  <2>2. PICK r \in R : r = [seq |-> wseq, what |-> 0]
    BY <1>5, <2>1
  <2>3. toME \in Seq(R) /\ Len(toME) \in Nat
    BY <1>1, <2>1
  <2>4. toME' = << >> \/ (toME' = Append(toME, r) /\ Len(toME) <= 1) \/ (toME' = toME /\ Len(toME) <= 2)
    BY <1>3, <2>2
  <2>5. toME' \in Seq(R) /\ Len(toME') \in Nat /\ Len(toME') <= 2
    <3>1. CASE toME' = << >>
      BY <3>1
    <3>2. CASE toME' = Append(toME, r) /\ Len(toME) <= 1
      BY <2>2, <2>3, <3>2
    <3>3. CASE toME' = toME /\ Len(toME) <= 2
      BY <2>3, <3>3
    <3> QED BY <2>4, <3>1, <3>2, <3>3
  <2> QED BY <2>1, <2>5
<1>7. NextFrame = 1 /\ NextFrame' = 1
  <2>1. Len(toME) \in Nat /\ Len(toME') \in Nat /\ Len(toME') <= 2
    BY <1>1, <1>6
  <2>2. \A m \in Nat : m <= 2 /\ ~(m < 2) => m - 1 = 1
    OBVIOUS
  <2> QED BY <1>4, <2>1, <2>2 DEF NextFrame
<1>8. UnitsInv'
  BY <1>2, <1>7, UnitsStay
<1>9. DOMAIN toME' = 1..Len(toME') /\ DOMAIN toME = 1..Len(toME)
  BY <1>1, <1>6
<1>10. ASSUME NEW i \in DOMAIN toME'
       PROVE  toME'[i].what = 0 /\ i <= 2
  <2>1. i <= 2 /\ i \in 1..Len(toME')
    BY <1>6, <1>9
  <2>2. CASE toME' = << >>
    BY <2>2
  <2>3. CASE toME' = Append(toME, [seq |-> wseq, what |-> 0])
    <3>1. Len(toME') = Len(toME) + 1
      BY <1>1, <2>3
    <3>2. CASE i = Len(toME) + 1
      <4>1. toME'[i] = [seq |-> wseq, what |-> 0]
        BY <1>1, <2>3, <3>2
      <4> QED BY <2>1, <4>1
    <3>3. CASE i # Len(toME) + 1
      <4>1. i \in 1..Len(toME)
        BY <1>1, <2>1, <3>1, <3>3
      <4>2. toME'[i] = toME[i]
        BY <1>1, <2>3, <4>1
      <4> QED BY <1>9, <2>1, <4>1, <4>2 DEF UploadExact
    <3> QED BY <3>2, <3>3
  <2>4. CASE toME' = toME
    BY <2>1, <2>4 DEF UploadExact
  <2> QED BY <1>3, <2>2, <2>3, <2>4
<1>11. ASSUME NEW i \in DOMAIN toME' PROVE ~(i > 2)
  BY <1>6, <1>9, <1>10
<1>12. 1..Len(stream') = {}
  BY <1>2
<1> QED BY <1>6, <1>8, <1>10, <1>11, <1>12 DEF UploadExact

\* The client's side of the upload.
LEMMA ClientUp ==
    ASSUME TypeOK, DialInv, UnitsInv, UploadExact, NEW kind \in UpKinds, ClientSends(kind)
    PROVE  UnitsInv' /\ UploadExact' /\ stream' \in Seq(UpKinds) /\ pending' \in Seq(Nat \X Nat)
<1>1. /\ UnitsInv' /\ stream' \in Seq(UpKinds) /\ pending' \in Seq(Nat \X Nat)
      /\ Len(stream') = Len(stream) + 1 /\ NextFrame' = NextFrame /\ NextFrame <= Len(stream) + 1
      /\ \A i \in 1..Len(stream) : stream'[i] = stream[i] /\ Size(i)' = Size(i)
      /\ \A k \in DOMAIN wbuf : wbuf[k][1] \in 1..Len(stream)
  BY UnitsArrive
<1>2. UNCHANGED <<toME, wbuf, up>> /\ hs \in {"open", "ended"}
  BY DEF ClientSends, Uploading
<1>3. /\ Len(toME) \in Nat /\ Len(toME) >= 2 /\ DOMAIN toME = 1..Len(toME)
      /\ Len(stream) \in Nat /\ Len(toME) = NextFrame + 1 /\ NextFrame \in Nat
  <2>1. toME \in Seq([seq : Int, what : Nat])
    BY DEF TypeOK
  <2>2. Len(toME) >= 2
    BY <1>2 DEF DialInv
  <2> QED BY <2>1, <2>2, NextFrameFacts
<1>4. ASSUME NEW i \in DOMAIN toME, i > 2
      PROVE  ~Malformed(i - 2)'
  <2>1. i - 2 \in 1..Len(stream)
    BY <1>1, <1>3, <1>4
  <2>2. ~Malformed(i - 2)
    BY <1>4 DEF UploadExact
  <2> QED BY <1>1, <2>1, <2>2 DEF Malformed
<1>5. ASSUME up \in {"copy", "done"}, NEW i \in 1..Len(stream'), NEW k \in DOMAIN wbuf
      PROVE  wbuf[k] # <<i, Size(i)'>>
  <2>1. CASE i \in 1..Len(stream)
    <3>1. Size(i)' = Size(i)
      BY <1>1, <2>1
    <3> QED BY <1>5, <2>1, <3>1 DEF UploadExact
  <2>2. CASE i \notin 1..Len(stream)
    <3>1. wbuf[k][1] # i
      BY <1>1, <2>2
    <3> QED BY <3>1
  <2> QED BY <2>1, <2>2
<1>6. UploadExact'
  BY <1>2, <1>4, <1>5 DEF UploadExact
<1> QED BY <1>1, <1>6

\* A Write begins, fails, returns, or is the last.
LEMMA WriteUp ==
    ASSUME TypeOK, UnitsInv, UploadExact,
           (\E n \in 1..Len(pending) : Write(n)) \/ SendFails \/ WriteReturns \/ UploadEnds
    PROVE  /\ UnitsInv' /\ UploadExact' /\ wbuf' \in Seq(Nat \X Nat) /\ pending' \in Seq(Nat \X Nat)
<1>1. UNCHANGED <<toME, stream>>
  BY DEF Write, SendFails, WriteReturns, UploadEnds
<1>2. (\A i : Size(i)' = Size(i) /\ Malformed(i)' = Malformed(i)) /\ NextFrame' = NextFrame
  BY <1>1 DEF Size, Malformed, NextFrame
<1>3. wbuf \in Seq(Nat \X Nat) /\ pending \in Seq(Nat \X Nat) /\ DOMAIN wbuf = 1..Len(wbuf)
  BY DEF TypeOK
<1>4. CASE \E n \in 1..Len(pending) : Write(n)
  <2>1. PICK n \in 1..Len(pending) : Write(n)
    BY <1>4
  <2>2. UnitsInv' /\ wbuf' \in Seq(Nat \X Nat) /\ pending' \in Seq(Nat \X Nat)
    BY <2>1, UnitsWritten
  <2>3. up' = "write"
    BY <2>1 DEF Write
  <2>4. UploadExact'
    BY <1>1, <1>2, <2>3 DEF UploadExact
  <2> QED BY <2>2, <2>4
<1>5. CASE SendFails
  <2>1. up' = "failed" /\ UNCHANGED <<pending, wbuf>>
    BY <1>5 DEF SendFails
  <2>2. UnitsInv'
    BY <1>1, <1>2, <2>1, UnitsStay
  <2>3. UploadExact'
    BY <1>1, <1>2, <2>1 DEF UploadExact
  <2> QED BY <1>3, <2>1, <2>2, <2>3
<1>6. CASE WriteReturns
  <2>1. ~Holds(wbuf) /\ UNCHANGED <<pending, wbuf>>
    BY <1>6 DEF WriteReturns
  <2>2. UnitsInv'
    BY <1>1, <1>2, <2>1, UnitsStay
  <2>3. \A i \in 1..Len(stream), k \in DOMAIN wbuf : wbuf[k] # <<i, Size(i)>>
    BY <1>3, <2>1, NoLastUnit
  <2>4. UploadExact'
    BY <1>1, <1>2, <2>1, <2>3 DEF UploadExact
  <2> QED BY <1>3, <2>1, <2>2, <2>4
<1>7. CASE UploadEnds
  <2>1. up = "copy" /\ up' = "done" /\ UNCHANGED <<pending, wbuf>>
    BY <1>7 DEF UploadEnds
  <2>2. UnitsInv'
    BY <1>1, <1>2, <2>1, UnitsStay
  <2>3. UploadExact'
    BY <1>1, <1>2, <2>1 DEF UploadExact
  <2> QED BY <1>3, <2>1, <2>2, <2>3
<1> QED BY <1>4, <1>5, <1>6, <1>7

\* One round of the loop of Write.
LEMMA SendUp ==
    ASSUME TypeOK, DialInv, UnitsInv, UploadExact, SendPayload
    PROVE  /\ UnitsInv' /\ UploadExact' /\ wbuf' \in Seq(Nat \X Nat)
           /\ toME' \in Seq([seq : Int, what : Nat])
<1>1. /\ hs \in {"open", "ended"} /\ up = "write" /\ Holds(wbuf) /\ UNCHANGED <<stream, pending>>
  BY DEF SendPayload, Uploading
<1>2. Len(wbuf) >= 1 /\ Len(wbuf) \in Nat /\ wbuf \in Seq(Nat \X Nat)
  <2>1. Len(wbuf) \in Nat /\ wbuf \in Seq(Nat \X Nat)
    BY DEF TypeOK
  <2>2. Len(wbuf) >= 2
    BY <1>1 DEF Holds
  <2> QED BY <2>1, <2>2
<1>3. wbuf[1][1] = NextFrame /\ NextFrame \in 1..Len(stream)
  BY <1>2, FirstUnit
<1>4. Len(wbuf) >= Size(NextFrame)
  BY <1>1, <1>3 DEF Holds
<1>5. toME \in Seq([seq : Int, what : Nat]) /\ wseq \in Int /\ DOMAIN toME = 1..Len(toME)
  BY DEF TypeOK
<1>6. Len(toME) \in Nat /\ Len(toME) >= 2 /\ Len(toME) = NextFrame + 1 /\ NextFrame \in Nat /\ NextFrame >= 1
  BY <1>1, NextFrameFacts DEF DialInv
<1>7. \A i : Size(i)' = Size(i) /\ Malformed(i)' = Malformed(i)
  BY <1>1 DEF Size, Malformed
<1>8. CASE Malformed(NextFrame)
  <2>1. up' = "failed" /\ UNCHANGED <<toME, wbuf>>
    BY <1>3, <1>8 DEF SendPayload
  <2>2. NextFrame' = NextFrame
    BY <2>1 DEF NextFrame
  <2>3. UnitsInv'
    BY <1>1, <2>1, <2>2, UnitsStay
  <2>4. UploadExact'
    BY <1>1, <1>7, <2>1 DEF UploadExact
  <2> QED BY <1>2, <1>5, <2>1, <2>3, <2>4
<1>9. CASE ~Malformed(NextFrame)
  <2>1. PICK r : r = [seq |-> wseq, what |-> NextFrame]
    OBVIOUS
  <2>2. /\ toME' = Append(toME, r) /\ wbuf' = SubSeq(wbuf, Size(NextFrame) + 1, Len(wbuf))
        /\ up' = up
    BY <1>3, <1>9, <2>1 DEF SendPayload
  <2>3. UnitsInv' /\ wbuf' \in Seq(Nat \X Nat)
    BY <1>1, <1>2, <1>4, <1>6, <2>2, UnitsSent
  <2>4. r \in [seq : Int, what : Nat] /\ r.what = NextFrame
    BY <1>5, <1>6, <2>1
  <2>5. /\ toME' \in Seq([seq : Int, what : Nat]) /\ Len(toME') = NextFrame + 2
        /\ toME'[NextFrame + 2] = r /\ \A i \in 1..(NextFrame + 1) : toME'[i] = toME[i]
    <3>1. PICK R : R = [seq : Int, what : Nat]
      OBVIOUS
    <3>2. toME \in Seq(R) /\ r \in R
      BY <1>5, <2>4, <3>1
    <3>3. /\ toME' \in Seq(R) /\ Len(toME') = Len(toME) + 1 /\ toME'[Len(toME) + 1] = r
          /\ \A i \in 1..Len(toME) : toME'[i] = toME[i]
      BY <2>2, <3>2
    <3>4. Len(toME) + 1 = NextFrame + 2
      BY <1>6
    <3> QED BY <1>6, <3>1, <3>3, <3>4
  <2>6. DOMAIN toME' = 1..(NextFrame + 2)
    BY <2>5
  <2>7. ASSUME NEW i \in 1..(NextFrame + 2)
        PROVE  /\ toME'[i].what = (IF i <= 2 THEN 0 ELSE i - 2)
               /\ i > 2 => ~Malformed(i - 2)'
    <3>1. CASE i = NextFrame + 2
      <4>1. ~(i <= 2) /\ i - 2 = NextFrame /\ i > 2
        BY <1>6, <3>1
      <4> QED BY <1>7, <1>9, <2>4, <2>5, <3>1, <4>1
    <3>2. CASE i # NextFrame + 2
      <4>1. i \in 1..(NextFrame + 1)
        BY <1>6, <3>2
      <4>2. i \in DOMAIN toME /\ toME'[i] = toME[i]
        BY <1>5, <1>6, <2>5, <4>1
      <4> QED BY <1>7, <4>2 DEF UploadExact
    <3> QED BY <3>1, <3>2
  <2>8. UploadExact'
    BY <1>1, <2>2, <2>6, <2>7 DEF UploadExact
  <2> QED BY <2>3, <2>5, <2>8
<1> QED BY <1>8, <1>9

-----------------------------------------------------------------------------
(* Types, the steps of Dial and the sequence numbers *)

\* A frame is written with the next number, or the numbers begin again.
LEMMA SeqStep ==
    ASSUME TypeOK, DialInv, SeqConsecutive, NEW w \in Nat,
           \/ toME' = << >> /\ wseq' = startSeqNo
           \/ toME' = Append(toME, [seq |-> wseq, what |-> w]) /\ wseq' = wseq + 1
           \/ UNCHANGED <<toME, wseq>>
    PROVE  SeqConsecutive' /\ wseq' = startSeqNo + Len(toME') /\ wseq' \in Int
<1>1. PICK n \in Nat : n = Len(toME)
  BY DEF TypeOK
<1>2. wseq = startSeqNo + n /\ startSeqNo \in Int
  BY <1>1 DEF DialInv, startSeqNo
<1>3. \A i \in 1..n : toME[i].seq = startSeqNo + i - 1
  <2>1. DOMAIN toME = 1..n
    BY <1>1 DEF TypeOK
  <2> QED BY <2>1 DEF SeqConsecutive
<1>4. CASE toME' = << >> /\ wseq' = startSeqNo
  <2>1. DOMAIN toME' = {} /\ Len(toME') = 0
    BY <1>4
  <2> QED BY <1>2, <1>4, <2>1 DEF SeqConsecutive
<1>5. CASE toME' = Append(toME, [seq |-> wseq, what |-> w]) /\ wseq' = wseq + 1
  <2>1. PICK r : r = [seq |-> wseq, what |-> w]
    OBVIOUS
  <2>2. PICK R : R = [seq : Int, what : Nat]
    OBVIOUS
  <2>3. toME \in Seq(R) /\ r \in R /\ r.seq = wseq
    BY <1>2, <2>1, <2>2 DEF TypeOK
  <2>4. /\ toME' \in Seq(R) /\ Len(toME') = n + 1 /\ toME'[n + 1] = r
        /\ \A i \in 1..n : toME'[i] = toME[i]
    BY <1>1, <1>5, <2>1, <2>3
  <2>5. DOMAIN toME' = 1..(n + 1)
    BY <2>4
  <2>6. \A i \in 1..(n + 1) : toME'[i].seq = startSeqNo + i - 1
    <3> TAKE i \in 1..(n + 1)
    <3>1. CASE i = n + 1
      <4>1. startSeqNo + i - 1 = startSeqNo + n
        BY <1>1, <1>2, <3>1
      <4> QED BY <1>2, <2>3, <2>4, <3>1, <4>1
    <3>2. CASE i # n + 1
      <4>1. i \in 1..n
        BY <1>1, <3>2
      <4> QED BY <1>3, <2>4, <4>1
    <3> QED BY <3>1, <3>2
  <2>7. wseq + 1 = startSeqNo + (n + 1) /\ wseq + 1 \in Int
    BY <1>1, <1>2
  <2> QED BY <1>5, <2>4, <2>5, <2>6, <2>7 DEF SeqConsecutive
<1>6. CASE UNCHANGED <<toME, wseq>>
  <2>1. startSeqNo + n \in Int
    BY <1>1, <1>2
  <2> QED BY <1>1, <1>2, <1>6, <2>1 DEF SeqConsecutive
<1> QED BY <1>4, <1>5, <1>6

LEMMA DialSteps ==
    ASSUME MiddleInv, SendNonce \/ NonceAnswered \/ NextEndpoint
    PROVE  TypeOK' /\ DialInv' /\ SeqConsecutive'
<1>1. TypeOK /\ DialInv /\ SeqConsecutive /\ UnitsInv /\ UploadExact
  BY DEF MiddleInv
<1>2. toME' \in Seq([seq : Int, what : Nat])
  BY <1>1, DialUp
<1>3. CASE SendNonce
  <2>1. /\ hs = "dial" /\ hs' = "nonce" /\ toME' = Append(toME, [seq |-> wseq, what |-> 0])
        /\ wseq' = wseq + 1 /\ UNCHANGED <<ep, rseq, frames, ends, meFin, line, sock, buf>>
        /\ UNCHANGED <<phase, msgLen, handled, got, stream, pending, wbuf, up>>
    BY <1>3 DEF SendNonce, me, reader, client
  <2>2. SeqConsecutive' /\ wseq' = startSeqNo + Len(toME') /\ wseq' \in Int
    BY <1>1, <2>1, SeqStep
  <2>3. Len(toME') = 1
    <3>1. toME = << >>
      BY <1>1, <2>1 DEF DialInv
    <3> QED BY <2>1, <3>1
  <2>4. TypeOK'
    BY <1>1, <1>2, <2>1, <2>2 DEF TypeOK
  <2>5. DialInv'
    <3>1. Len(toME') <= 2
      BY <2>3
    <3> QED BY <1>1, <2>1, <2>2, <2>3, <3>1 DEF DialInv
  <2> QED BY <2>2, <2>4, <2>5
<1>4. CASE NonceAnswered
  <2>1. /\ hs = "nonce" /\ hs' = "hello" /\ toME' = Append(toME, [seq |-> wseq, what |-> 0])
        /\ wseq' = wseq + 1 /\ rseq' = rseq + 1
        /\ UNCHANGED <<ep, frames, ends, meFin, line, sock, buf>>
        /\ UNCHANGED <<phase, msgLen, handled, got, stream, pending, wbuf, up>>
    BY <1>4 DEF NonceAnswered, me, reader, client
  <2>2. SeqConsecutive' /\ wseq' = startSeqNo + Len(toME') /\ wseq' \in Int
    BY <1>1, <2>1, SeqStep
  <2>3. Len(toME') = 2
    <3>1. Len(toME) = 1 /\ toME \in Seq([seq : Int, what : Nat])
      BY <1>1, <2>1 DEF DialInv, TypeOK
    <3>2. ASSUME NEW R, NEW s \in Seq(R), NEW r PROVE Len(Append(s, r)) = Len(s) + 1
      OBVIOUS
    <3>3. Len(toME') = Len(toME) + 1
      BY <2>1, <3>1, <3>2
    <3> QED BY <3>1, <3>3
  <2>4. rseq' \in startSeqNo..MaxFrames
    <3>1. rseq = startSeqNo
      BY <1>1, <2>1 DEF DialInv
    <3> QED BY <2>1, <3>1, Bounds DEF startSeqNo
  <2>5. TypeOK'
    BY <1>1, <1>2, <2>1, <2>2, <2>4 DEF TypeOK
  <2>6. DialInv'
    <3>1. Len(toME') <= 2 /\ Len(toME') >= 2
      BY <2>3
    <3> QED BY <1>1, <2>1, <2>2, <3>1 DEF DialInv
  <2> QED BY <2>2, <2>5, <2>6
<1>5. CASE NextEndpoint /\ ep < Endpoints
  <2>1. /\ hs \in {"dial", "nonce", "refused"} /\ hs' = "dial" /\ ep' = ep + 1
        /\ wseq' = startSeqNo /\ rseq' = startSeqNo /\ phase' = "len"
        /\ toME' = << >> /\ frames' = << >> /\ ends' = << >> /\ meFin' = FALSE
        /\ line' = << >> /\ sock' = << >> /\ buf' = << >> /\ handled' = 0
        /\ UNCHANGED <<msgLen, got, stream, pending, wbuf, up>>
    BY <1>5 DEF NextEndpoint, Fresh, client
  <2>2. SeqConsecutive' /\ wseq' = startSeqNo + Len(toME') /\ wseq' \in Int
    BY <1>1, <2>1, SeqStep
  <2>3. ep' \in 1..Endpoints /\ rseq' \in startSeqNo..MaxFrames /\ handled' \in 0..Len(frames')
    BY <1>1, <1>5, <2>1, Bounds DEF TypeOK, startSeqNo
  <2>4. frames' \in Seq(DownKinds) /\ ends' \in Seq(Nat) /\ line' \in Seq(Word) /\ sock' \in Seq(Word) /\ buf' \in Seq(Word)
    BY <2>1
  <2>5. TypeOK'
    BY <1>1, <1>2, <2>1, <2>2, <2>3, <2>4 DEF TypeOK
  <2>6. DialInv'
    <3>1. Len(toME') <= 2
      BY <2>1
    <3> QED BY <1>1, <2>1, <2>2, <3>1 DEF DialInv
  <2> QED BY <2>2, <2>5, <2>6
<1>6. CASE NextEndpoint /\ ~(ep < Endpoints)
  <2>1. /\ hs \in {"dial", "nonce", "refused"} /\ hs' = "failed"
        /\ UNCHANGED <<ep, wseq, rseq, toME, frames, ends, meFin, line, sock, buf>>
        /\ UNCHANGED <<phase, msgLen, handled, got, stream, pending, wbuf, up>>
    BY <1>6 DEF NextEndpoint, me, reader, client
  <2>2. SeqConsecutive'
    BY <1>1, <2>1 DEF SeqConsecutive
  <2>3. TypeOK'
    BY <1>1, <2>1 DEF TypeOK
  <2>4. DialInv'
    BY <1>1, <2>1 DEF DialInv
  <2> QED BY <2>2, <2>3, <2>4
<1> QED BY <1>3, <1>4, <1>5, <1>6

LEMMA MESteps ==
    ASSUME MiddleInv, (\E k \in DownKinds : MESends(k)) \/ MECloses \/ Arrive
    PROVE  TypeOK' /\ DialInv' /\ SeqConsecutive'
<1>1. TypeOK /\ DialInv /\ SeqConsecutive /\ DownInv
  BY DEF MiddleInv
<1>2. /\ UNCHANGED <<hs, ep, wseq, rseq, toME, buf, phase, msgLen, handled, got>>
      /\ UNCHANGED <<stream, pending, wbuf, up>>
  BY DEF MESends, MECloses, Arrive, dial, reader, client
<1>3. SeqConsecutive'
  BY <1>1, <1>2 DEF SeqConsecutive
<1>4. CASE \E k \in DownKinds : MESends(k)
  <2>1. PICK k \in DownKinds : MESends(k)
    BY <1>4
  <2>2. line' \in Seq(Word) /\ ends' \in Seq(Nat) /\ frames' \in Seq(DownKinds) /\ Len(frames') = Len(frames) + 1
    BY <1>1, <2>1, SendDown
  <2>3. hs \in {"hello", "open"} /\ UNCHANGED <<meFin, sock>>
    BY <2>1 DEF MESends
  <2>4. handled' \in 0..Len(frames')
    <3>1. handled \in 0..Len(frames) /\ Len(frames) \in Nat
      BY <1>1 DEF TypeOK
    <3> QED BY <1>2, <2>2, <3>1
  <2>5. TypeOK'
    BY <1>1, <1>2, <2>2, <2>3, <2>4 DEF TypeOK
  <2>6. DialInv'
    BY <1>1, <1>2, <2>3 DEF DialInv
  <2> QED BY <1>3, <2>5, <2>6
<1>5. CASE MECloses
  <2>1. meFin' = TRUE /\ UNCHANGED <<frames, ends, line, sock>>
    BY <1>5 DEF MECloses
  <2> QED BY <1>1, <1>2, <1>3, <2>1 DEF TypeOK, DialInv
<1>6. CASE Arrive
  <2>1. UNCHANGED <<frames, ends, meFin>> /\ line' \in Seq(Word) /\ sock' \in Seq(Word)
    BY <1>1, <1>6, ArriveDown DEF Arrive
  <2> QED BY <1>1, <1>2, <1>3, <2>1 DEF TypeOK, DialInv
<1> QED BY <1>4, <1>5, <1>6

LEMMA ReadSteps ==
    ASSUME MiddleInv, ReadStep
    PROVE  TypeOK' /\ DialInv' /\ SeqConsecutive'
<1>1. TypeOK /\ DialInv /\ SeqConsecutive /\ DownInv
  BY DEF MiddleInv
<1>2. /\ UNCHANGED <<ep, wseq, toME, frames, ends, meFin, line, stream, pending, wbuf, up>>
      /\ hs \in {"hello", "open"}
  BY DEF ReadStep, EnsurePlain, ReadLen, ReadSeq, ReadData, ReadChecksum, ReadEOF, dial, me, client, Reading
<1>3. SeqConsecutive'
  BY <1>2, <1>1 DEF SeqConsecutive
<1>4. CASE EnsurePlain
  <2>1. UNCHANGED <<hs, rseq, phase, msgLen, handled, got>> /\ sock' \in Seq(Word) /\ buf' \in Seq(Word)
    BY <1>1, <1>4, EnsureDown DEF EnsurePlain, dial
  <2> QED BY <1>1, <1>2, <1>3, <2>1 DEF TypeOK, DialInv
<1>5. CASE ReadLen
  <2>1. UNCHANGED <<hs, rseq, sock, handled, got>> /\ buf' \in Seq(Word) /\ msgLen' \in Nat
    BY <1>1, <1>5, ReadLenDown DEF ReadLen, dial
  <2>2. phase' \in {"len", "seq"}
    BY <1>5 DEF ReadLen
  <2> QED BY <1>1, <1>2, <1>3, <2>1, <2>2 DEF TypeOK, DialInv
<1>6. CASE ReadSeq
  <2>1. /\ UNCHANGED <<hs, sock, msgLen, handled, got>> /\ buf' \in Seq(Word) /\ phase' = "data"
        /\ rseq' = rseq + 1 /\ rseq' <= startSeqNo + 1 + Len(frames)
    BY <1>1, <1>6, ReadSeqDown DEF ReadSeq
  <2>2. rseq' \in startSeqNo..MaxFrames
    <3>1. rseq \in startSeqNo..MaxFrames /\ Len(frames) \in Nat /\ Len(frames) <= MaxFrames + 1
      BY <1>1 DEF TypeOK, DownInv, SentInv
    <3> QED BY <2>1, <3>1, Bounds DEF startSeqNo
  <2> QED BY <1>1, <1>2, <1>3, <2>1, <2>2 DEF TypeOK, DialInv
<1>7. CASE ReadData
  <2>1. UNCHANGED <<hs, rseq, sock, msgLen, handled, got>> /\ buf' \in Seq(Word) /\ phase' = "crc"
    BY <1>1, <1>7, ReadDataDown DEF ReadData, dial
  <2> QED BY <1>1, <1>2, <1>3, <2>1 DEF TypeOK, DialInv
<1>8. CASE ReadChecksum
  <2>1. /\ UNCHANGED <<rseq, sock, msgLen>> /\ buf' \in Seq(Word) /\ phase' = "len"
        /\ handled' = handled + 1 /\ handled < Len(frames)
        /\ hs = "open" => hs' \in {"open", "ended"}
        /\ hs = "hello" => hs' \in {"open", "refused"}
    BY <1>1, <1>8, ReadChecksumDown DEF ReadChecksum
  <2>2. handled \in Nat /\ Len(frames) \in Nat /\ Len(frames) <= MaxFrames + 1
    BY <1>1 DEF TypeOK, DownInv, SentInv
  <2>3. handled' \in 0..Len(frames') /\ handled + 1 \in 1..(MaxFrames + 1)
    BY <1>2, <2>1, <2>2, Bounds
  <2>4. got' \in Seq(1..(MaxFrames + 1)) /\ (hs = "hello" => got' = got)
    <3>1. got' = got \/ got' = Append(got, handled + 1)
      BY <1>8 DEF ReadChecksum
    <3>2. hs = "hello" => got' = got
      BY <1>8 DEF ReadChecksum
    <3>3. got \in Seq(1..(MaxFrames + 1))
      BY <1>1 DEF TypeOK
    <3>4. PICK S : S = 1..(MaxFrames + 1)
      OBVIOUS
    <3>5. got \in Seq(S) /\ handled + 1 \in S
      BY <2>3, <3>3, <3>4
    <3>6. got' \in Seq(S)
      BY <3>1, <3>5
    <3> QED BY <3>2, <3>4, <3>6
  <2>5. TypeOK'
    BY <1>1, <1>2, <2>1, <2>3, <2>4 DEF TypeOK
  <2>6. DialInv'
    BY <1>1, <1>2, <2>1, <2>4 DEF DialInv
  <2> QED BY <1>3, <2>5, <2>6
<1>9. CASE ReadEOF
  <2>1. /\ UNCHANGED <<rseq, sock, buf, phase, msgLen, handled, got>>
        /\ hs = "open" => hs' = "ended"
        /\ hs = "hello" => hs' = "refused"
    BY <1>1, <1>9, ReadEOFDown DEF ReadEOF, reader
  <2> QED BY <1>1, <1>2, <1>3, <2>1 DEF TypeOK, DialInv
<1> QED BY <1>4, <1>5, <1>6, <1>7, <1>8, <1>9 DEF ReadStep

LEMMA UploadSteps ==
    ASSUME MiddleInv,
           \/ \E k \in UpKinds : ClientSends(k)
           \/ \E n \in 1..Len(pending) : Write(n)
           \/ SendPayload \/ SendFails \/ WriteReturns \/ UploadEnds
    PROVE  MiddleInv'
<1>1. TypeOK /\ DialInv /\ SeqConsecutive /\ DownInv /\ UnitsInv /\ UploadExact
  BY DEF MiddleInv
<1>2. /\ UNCHANGED <<hs, ep, rseq, frames, ends, meFin, line, sock>>
      /\ UNCHANGED <<buf, phase, msgLen, handled, got>> /\ hs \in {"open", "ended"}
  BY DEF ClientSends, Write, SendPayload, SendFails, WriteReturns, UploadEnds, dial, me, reader, Uploading
<1>3. DownInv'
  <2>1. UNCHANGED <<hs, rseq, me, sock, reader>>
    BY <1>2 DEF me, reader
  <2> QED BY <1>1, <2>1, DownStays
<1>4. CASE \E k \in UpKinds : ClientSends(k)
  <2>1. PICK k \in UpKinds : ClientSends(k)
    BY <1>4
  <2>2. UnitsInv' /\ UploadExact' /\ stream' \in Seq(UpKinds) /\ pending' \in Seq(Nat \X Nat)
    BY <1>1, <2>1, ClientUp
  <2>3. UNCHANGED <<wseq, toME, wbuf, up>>
    BY <2>1 DEF ClientSends
  <2>4. TypeOK' /\ DialInv' /\ SeqConsecutive'
    BY <1>1, <1>2, <2>2, <2>3 DEF TypeOK, DialInv, SeqConsecutive
  <2> QED BY <1>3, <2>2, <2>4 DEF MiddleInv
<1>5. CASE SendPayload
  <2>1. UnitsInv' /\ UploadExact' /\ wbuf' \in Seq(Nat \X Nat) /\ toME' \in Seq([seq : Int, what : Nat])
    BY <1>1, <1>5, SendUp
  <2>2. wbuf[1][1] \in Nat
    <3>1. Len(wbuf) >= 2 /\ wbuf \in Seq(Nat \X Nat)
      BY <1>1, <1>5 DEF SendPayload, Holds, TypeOK
    <3>2. wbuf[1] \in Nat \X Nat
      BY <3>1
    <3> QED BY <3>2
  <2>3. /\ UNCHANGED <<stream, pending>> /\ up' \in {"write", "failed"}
        /\ \/ toME' = Append(toME, [seq |-> wseq, what |-> wbuf[1][1]]) /\ wseq' = wseq + 1
           \/ UNCHANGED <<toME, wseq>>
    BY <1>5 DEF SendPayload
  <2>4. SeqConsecutive' /\ wseq' = startSeqNo + Len(toME') /\ wseq' \in Int
    BY <1>1, <2>2, <2>3, SeqStep
  <2>5. Len(toME') >= 2
    <3>1. Len(toME) >= 2 /\ wseq = startSeqNo + Len(toME) /\ Len(toME) \in Nat /\ Len(toME') \in Nat
      <4>1. Len(toME) >= 2 /\ wseq = startSeqNo + Len(toME)
        BY <1>1, <1>2 DEF DialInv
      <4>2. Len(toME) \in Nat /\ Len(toME') \in Nat
        <5>1. PICK R : R = [seq : Int, what : Nat]
          OBVIOUS
        <5>2. toME \in Seq(R) /\ toME' \in Seq(R)
          BY <1>1, <2>1, <5>1 DEF TypeOK
        <5> QED BY <5>2
      <4> QED BY <4>1, <4>2
    <3>2. wseq' = wseq + 1 \/ wseq' = wseq
      BY <2>3
    <3> QED BY <2>4, <3>1, <3>2 DEF startSeqNo
  <2>6. TypeOK'
    BY <1>1, <1>2, <2>1, <2>3, <2>4 DEF TypeOK
  <2>7. DialInv'
    BY <1>1, <1>2, <2>4, <2>5 DEF DialInv
  <2> QED BY <1>3, <2>1, <2>4, <2>6, <2>7 DEF MiddleInv
<1>6. CASE (\E n \in 1..Len(pending) : Write(n)) \/ SendFails \/ WriteReturns \/ UploadEnds
  <2>1. UnitsInv' /\ UploadExact' /\ wbuf' \in Seq(Nat \X Nat) /\ pending' \in Seq(Nat \X Nat)
    BY <1>1, <1>6, WriteUp
  <2>2. UNCHANGED <<wseq, toME, stream>> /\ up' \in {"copy", "write", "failed", "done"}
    BY <1>6 DEF Write, SendFails, WriteReturns, UploadEnds
  <2>3. TypeOK' /\ DialInv' /\ SeqConsecutive'
    BY <1>1, <1>2, <2>1, <2>2 DEF TypeOK, DialInv, SeqConsecutive
  <2> QED BY <1>3, <2>1, <2>3 DEF MiddleInv
<1> QED BY <1>4, <1>5, <1>6

-----------------------------------------------------------------------------
(* The invariant *)

LEMMA MiddleInit ==
    Init => MiddleInv
<1> SUFFICES ASSUME Init PROVE MiddleInv
  OBVIOUS
<1>1. /\ hs = "dial" /\ ep = 1 /\ wseq = startSeqNo /\ rseq = startSeqNo /\ phase = "len"
      /\ toME = << >> /\ frames = << >> /\ ends = << >> /\ meFin = FALSE
      /\ line = << >> /\ sock = << >> /\ buf = << >> /\ msgLen = 0 /\ handled = 0 /\ got = << >>
      /\ stream = << >> /\ pending = << >> /\ wbuf = << >> /\ up = "copy"
  BY DEF Init, Fresh
<1>2. /\ Len(toME) = 0 /\ Len(frames) = 0 /\ Len(ends) = 0 /\ Len(line) = 0 /\ Len(sock) = 0
      /\ Len(stream) = 0 /\ Len(pending) = 0 /\ Len(wbuf) = 0
  BY <1>1
<1>3. TypeOK
  <2>1. ep \in 1..Endpoints /\ wseq \in Int /\ rseq \in startSeqNo..MaxFrames /\ handled \in 0..Len(frames)
    BY <1>1, <1>2, Bounds DEF startSeqNo
  <2>2. \A S : << >> \in Seq(S)
    OBVIOUS
  <2>3. /\ toME \in Seq([seq : Int, what : Nat]) /\ frames \in Seq(DownKinds) /\ ends \in Seq(Nat)
        /\ line \in Seq(Word) /\ sock \in Seq(Word) /\ buf \in Seq(Word)
        /\ got \in Seq(1..(MaxFrames + 1)) /\ stream \in Seq(UpKinds)
        /\ pending \in Seq(Nat \X Nat) /\ wbuf \in Seq(Nat \X Nat)
    BY <1>1, <2>2, Zenon
  <2>4. /\ hs \in {"dial", "nonce", "hello", "refused", "open", "ended", "failed"}
        /\ meFin \in BOOLEAN /\ phase \in {"len", "seq", "data", "crc"} /\ msgLen \in Nat
        /\ up \in {"copy", "write", "failed", "done"}
    BY <1>1
  <2> QED BY <2>1, <2>3, <2>4 DEF TypeOK
<1>4. DialInv
  BY <1>1, <1>2 DEF DialInv, startSeqNo
<1>5. WordInv
  <2>1. At(1) = 0 /\ At(Len(frames) + 1) = 0
    BY <1>2 DEF At
  <2>2. Len(Left) = 0
    <3>1. Left = (<< >> \o << >>) \o << >>
      BY <1>1 DEF Left
    <3> QED BY <3>1
  <2>3. Pos = 0
    BY <2>1, <2>2 DEF Pos
  <2>4. \A i \in 1..(Len(frames) + 1) : At(i) = 0
    <3> TAKE i \in 1..(Len(frames) + 1)
    <3>1. i = 1
      BY <1>2
    <3> QED BY <2>1, <3>1
  <2>5. 1..Len(frames) = {} /\ 0 % 4 = 0 /\ 0 \in Nat /\ 0 <= 0 /\ 0 >= 0
    BY <1>2
  <2> QED BY <1>2, <2>1, <2>3, <2>4, <2>5 DEF WordInv, cbcBlock
<1>6. DownInv
  <2>1. SentInv
    BY <1>1, <1>2, Bounds DEF SentInv, startSeqNo
  <2> QED BY <1>1, <1>5, <2>1 DEF DownInv, Reading, AnswersInOrder, NoFalseEnd
<1>7. UnitsInv
  <2>1. PICK at : at = [i \in 1..1 |-> 0]
    OBVIOUS
  <2>2. at \in [1..(Len(stream) + 1) -> Nat] /\ at[1] = 0
    BY <1>2, <2>1
  <2>3. NextFrame = 1
    BY <1>2 DEF NextFrame
  <2>4. 1..Len(stream) = {} /\ 1..Len(wbuf) = {} /\ 1..Len(pending) = {} /\ Len(stream) + 1 = 1
    BY <1>2
  <2>5. \A i, j \in 1..1 : ~(i < j)
    OBVIOUS
  <2>6. at[NextFrame] + Len(wbuf) + Len(pending) = at[Len(stream) + 1] /\ NextFrame <= Len(stream) + 1
    BY <1>2, <2>2, <2>3, <2>4
  <2>7. UnitsAt(at)
    BY <2>4, <2>5, <2>6 DEF UnitsAt
  <2> QED BY <2>2, <2>7 DEF UnitsInv
<1>8. UploadExact /\ SeqConsecutive
  <2>1. DOMAIN toME = {} /\ DOMAIN wbuf = {}
    BY <1>1
  <2> QED BY <2>1 DEF UploadExact, SeqConsecutive
<1> QED BY <1>3, <1>4, <1>6, <1>7, <1>8 DEF MiddleInv

LEMMA MiddleStep ==
    MiddleInv /\ [Next]_vars => MiddleInv'
<1> SUFFICES ASSUME MiddleInv, [Next]_vars PROVE MiddleInv'
  OBVIOUS
<1>1. TypeOK /\ DialInv /\ SeqConsecutive /\ DownInv /\ UnitsInv /\ UploadExact
  BY DEF MiddleInv
<1>2. CASE SendNonce \/ NonceAnswered \/ NextEndpoint
  <2>1. TypeOK' /\ DialInv' /\ SeqConsecutive'
    BY <1>2, DialSteps
  <2>2. DownInv'
    BY <1>1, <1>2, DialDown
  <2>3. UnitsInv' /\ UploadExact'
    BY <1>1, <1>2, DialUp
  <2> QED BY <2>1, <2>2, <2>3 DEF MiddleInv
<1>3. CASE (\E k \in DownKinds : MESends(k)) \/ MECloses \/ Arrive
  <2>1. TypeOK' /\ DialInv' /\ SeqConsecutive'
    BY <1>3, MESteps
  <2>2. DownInv'
    BY <1>1, <1>3, SendDown, CloseDown, ArriveDown
  <2>3. UNCHANGED <<toME, client>>
    BY <1>3 DEF MESends, MECloses, Arrive
  <2>4. UnitsInv' /\ UploadExact'
    BY <1>1, <2>3, UpStays
  <2> QED BY <2>1, <2>2, <2>4 DEF MiddleInv
<1>4. CASE ReadStep
  <2>1. TypeOK' /\ DialInv' /\ SeqConsecutive'
    BY <1>4, ReadSteps
  <2>2. DownInv'
    BY <1>1, <1>4, EnsureDown, ReadLenDown, ReadSeqDown, ReadDataDown, ReadChecksumDown, ReadEOFDown
       DEF ReadStep
  <2>3. UNCHANGED <<toME, client>>
    BY <1>4 DEF ReadStep, EnsurePlain, ReadLen, ReadSeq, ReadData, ReadChecksum, ReadEOF
  <2>4. UnitsInv' /\ UploadExact'
    BY <1>1, <2>3, UpStays
  <2> QED BY <2>1, <2>2, <2>4 DEF MiddleInv
<1>5. CASE \/ \E k \in UpKinds : ClientSends(k)
           \/ \E n \in 1..Len(pending) : Write(n)
           \/ SendPayload \/ SendFails \/ WriteReturns \/ UploadEnds
  BY <1>5, UploadSteps
<1>6. CASE UNCHANGED vars
  <2>1. /\ UNCHANGED <<hs, ep, wseq, rseq, toME, frames, ends, meFin, line, sock>>
        /\ UNCHANGED <<buf, phase, msgLen, handled, got, stream, pending, wbuf, up>>
    BY <1>6 DEF vars, dial, me, reader, client
  <2>2. TypeOK' /\ DialInv' /\ SeqConsecutive'
    BY <1>1, <2>1 DEF TypeOK, DialInv, SeqConsecutive
  <2>3. DownInv'
    <3>1. UNCHANGED <<hs, rseq, me, sock, reader>>
      BY <2>1 DEF me, reader
    <3> QED BY <1>1, <3>1, DownStays
  <2>4. UnitsInv' /\ UploadExact'
    <3>1. UNCHANGED <<toME, client>>
      BY <2>1 DEF client
    <3> QED BY <1>1, <3>1, UpStays
  <2> QED BY <2>2, <2>3, <2>4 DEF MiddleInv
<1> QED BY <1>2, <1>3, <1>4, <1>5, <1>6 DEF Next

\* Every word of the ME and every unit of the client has its place, readFrame
\* is where its step says and wbuf begins with the next frame, at all times.
THEOREM MiddleInvariance == Spec => []MiddleInv
<1>1. Init => MiddleInv
  BY MiddleInit
<1>2. MiddleInv /\ [Next]_vars => MiddleInv'
  BY MiddleStep
<1> QED BY <1>1, <1>2, PTL DEF Spec

\* The types; among them that Dial never goes past the last endpoint.
THEOREM TypeCorrect == Spec => []TypeOK
<1>1. MiddleInv => TypeOK
  BY DEF MiddleInv
<1> QED BY <1>1, MiddleInvariance, PTL

\* intermediateConn.Read hands the client exactly the answers that have been
\* read, once each and in order, whatever the blocks and the padding.
THEOREM AnswersInOrderInvariance == Spec => []AnswersInOrder
<1>1. MiddleInv => AnswersInOrder
  BY DEF MiddleInv, DownInv
<1> QED BY <1>1, MiddleInvariance, PTL

\* readFrame gives up only when the ME has closed or ended the session: it
\* never meets a wrong sequence number or takes padding for a frame.
THEOREM NoFalseEndInvariance == Spec => []NoFalseEnd
<1>1. MiddleInv => NoFalseEnd
  BY DEF MiddleInv, DownInv
<1> QED BY <1>1, MiddleInvariance, PTL

\* What a reader that waits lacks belongs to the frame it is in.
LEMMA WaitsForItsFrame ==
    ASSUME MiddleInv
    PROVE  PromptDelivery
<1> SUFFICES ASSUME Reading, Blocked, handled < Len(frames)
             PROVE  At(Len(frames) + 1) - Len(line) < ends[handled + 1]
  BY DEF PromptDelivery
<1>1. TypeOK /\ WordInv /\ ReaderInv
  BY DEF MiddleInv, DownInv
<1>2. PICK i \in 1..Len(frames) : i = handled + 1
  BY <1>1 DEF TypeOK
<1>3. /\ frames[i] \in DownKinds /\ At(i) \in Nat /\ At(i + 1) = At(i) + FrameLen(frames[i])
      /\ ends[i] = At(i + 1)
  <2>1. i + 1 # 1 /\ (i + 1) - 1 = i
    BY <1>1, <1>2 DEF TypeOK
  <2>2. ends[i] = At(i + 1)
    BY <2>1 DEF At
  <2> QED BY <1>1, <2>2, FramePlace
<1>4. PICK a \in Nat : a = At(i)
  BY <1>3
<1>5. PICK d \in Nat : d = DataWords[frames[i]]
  BY <1>3, FrameFacts
<1>6. PICK f \in Nat : f = FrameLen(frames[i]) /\ f >= d + 3
  BY <1>3, <1>5, FrameFacts
<1>7. PICK p \in Nat : p = Pos
  BY <1>1, PosFacts
<1>8. PICK b \in Nat : b = Len(buf)
  BY <1>1 DEF TypeOK
<1>9. PICK s \in Nat : s = Len(sock) /\ s % 4 = 0
  BY <1>1 DEF TypeOK, WordInv, cbcBlock
<1>10. PICK l \in Nat : l = Len(line)
  BY <1>1 DEF TypeOK
<1>11. At(Len(frames) + 1) - l = p + b + s
  <2>1. /\ Len(Left) = b + s + l /\ Pos + Len(Left) = At(Len(frames) + 1)
        /\ At(Len(frames) + 1) \in Nat
    BY <1>1, <1>8, <1>9, <1>10, LeftFacts, PosFacts
  <2>2. PICK t \in Nat : t = At(Len(frames) + 1)
    BY <2>1
  <2>3. p + (b + s + l) = t
    BY <1>7, <2>1, <2>2
  <2>4. b \in Nat /\ s \in Nat /\ l \in Nat /\ p \in Nat
    BY <1>7, <1>8, <1>9, <1>10
  <2>5. t - l = p + b + s
    BY <2>3, <2>4
  <2> QED BY <2>2, <2>5
<1>12. PICK w \in Nat : w = Want /\ p + w <= a + f
  <2>1. i \in Nat /\ a \in Nat /\ d \in Nat /\ f \in Nat /\ p \in Nat /\ f >= d + 3
    BY <1>2, <1>4, <1>5, <1>6, <1>7
  <2>2. CASE phase = "len"
    <3>1. p <= a /\ Want = 1
      BY <1>1, <1>2, <1>4, <1>7, <2>2 DEF ReaderInv, Want
    <3>2. p + 1 <= a + f
      BY <2>1, <3>1
    <3> QED BY <3>1, <3>2
  <2>3. CASE phase = "seq"
    <3>1. p = a + 1 /\ Want = 1
      BY <1>1, <1>2, <1>4, <1>7, <2>3 DEF ReaderInv, Want
    <3>2. p + 1 <= a + f
      BY <2>1, <3>1
    <3> QED BY <3>1, <3>2
  <2>4. CASE phase = "data"
    <3>1. p = a + 2 /\ msgLen = 4 * d + 12
      BY <1>1, <1>2, <1>4, <1>5, <1>7, <2>4 DEF ReaderInv, Current
    <3>2. ((4 * d + 12) - 12) \div 4 = d
      BY <2>1
    <3>3. Want = d
      BY <2>4, <3>1, <3>2 DEF Want
    <3>4. p + d <= a + f
      BY <2>1, <3>1
    <3> QED BY <2>1, <3>3, <3>4
  <2>5. CASE phase = "crc"
    <3>1. p = a + 2 + d /\ Want = 1
      BY <1>1, <1>2, <1>4, <1>5, <1>7, <2>5 DEF ReaderInv, Current, Want
    <3>2. p + 1 <= a + f
      BY <2>1, <3>1
    <3> QED BY <3>1, <3>2
  <2> QED BY <1>1, <2>2, <2>3, <2>4, <2>5 DEF TypeOK
<1>13. b + s < w
  <2>1. Short = w - b /\ Short > 0 /\ s < alignedCipherReadSize(Short)
    BY <1>8, <1>9, <1>12 DEF Short, Blocked
  <2>2. w \in Nat /\ b \in Nat /\ s \in Nat
    BY <1>8, <1>9, <1>12
  <2>3. PICK m \in Nat : m = Short /\ m = w - b
    BY <2>1, <2>2
  <2>4. PICK z \in Nat : z = alignedCipherReadSize(m) /\ z < m + 4 /\ z % 4 = 0
    BY <2>3, Aligned
  <2>5. s < z
    BY <2>1, <2>3, <2>4
  <2>6. s + 4 <= z
    <3>1. s \in Int /\ z \in Int /\ s % 4 = 0 /\ z % 4 = 0
      BY <1>9, <2>4
    <3> QED BY <2>5, <3>1, Blocks
  <2>7. z \in Nat /\ m \in Nat /\ z < m + 4 /\ m = w - b
    BY <2>3, <2>4
  <2> QED BY <2>2, <2>6, <2>7
<1>14. p + b + s < a + f
  <2>1. a \in Nat /\ f \in Nat /\ p \in Nat /\ b \in Nat /\ s \in Nat /\ w \in Nat /\ p + w <= a + f
    BY <1>4, <1>6, <1>7, <1>8, <1>9, <1>12
  <2> QED BY <1>13, <2>1
<1> QED BY <1>2, <1>3, <1>4, <1>6, <1>10, <1>11, <1>14

\* ensurePlain asks the socket for no block beyond the frame readFrame is in:
\* a reader that waits has handed on all that has arrived.
THEOREM PromptDeliveryInvariance == Spec => []PromptDelivery
<1>1. MiddleInv => PromptDelivery
  BY WaitsForItsFrame
<1> QED BY <1>1, MiddleInvariance, PTL

\* However io.Copy cuts the client's stream, intermediateConn.Write sends each
\* whole frame once and in order, and none that is malformed.
THEOREM UploadExactInvariance == Spec => []UploadExact
<1>1. MiddleInv => UploadExact
  BY DEF MiddleInv
<1> QED BY <1>1, MiddleInvariance, PTL

\* writeSeq gives every connection the numbers -2, -1, 0, ... without a gap.
THEOREM SeqConsecutiveInvariance == Spec => []SeqConsecutive
<1>1. MiddleInv => SeqConsecutive
  BY DEF MiddleInv
<1> QED BY <1>1, MiddleInvariance, PTL
=============================================================================
