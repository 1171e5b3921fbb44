---------------------------- MODULE MiddleProxy ----------------------------
(***************************************************************************)
(* A session through Telegram's middle proxy (ME): internal/middleproxy.   *)
(* Dial tries the endpoints of the DC in turn; handshake exchanges a plain *)
(* nonce and an encrypted RPC_HANDSHAKE; then intermediateConn turns the   *)
(* client's length-prefixed frames into RPC_PROXY_REQ and the ME's         *)
(* RPC_PROXY_ANS back into frames.                                         *)
(*                                                                         *)
(* The ME's side of the encrypted stream is modelled in words of 4 bytes,  *)
(* four to a CBC block; the filler that pads a frame to a block is a word  *)
(* that reads as the length 4.  The client's stream is modelled in units:  *)
(* two halves of the length field, then the payload.  Keys and checksums   *)
(* are left out, nobody but the ME writes on its connection.               *)
(***************************************************************************)
EXTENDS Integers, Sequences

CONSTANTS
    Endpoints,          \* endpoints of the DC
    UpKinds, DownKinds, \* kinds of the client's and of the ME's frames
    MaxFrames           \* bound: frames of a session in both directions

startSeqNo == -2
cbcBlock == 4
Filler == <<"len", 4>>

\* Data words of a frame of the ME: the tag, what comes with it, the payload.
DataWords ==
    [handshake |-> 8, other |-> 8, answer1 |-> 5, answer2 |-> 6, emptyAnswer |-> 4,
     shortAnswer |-> 1, ack |-> 4, closeConn |-> 3, unknown |-> 2, short |-> 0]
Answers == {"answer1", "answer2"}

\* Payload units of a frame of the client; "odd" has a payload whose length is
\* no multiple of 4, "zero" a length field that is 0.
Units == [one |-> 1, two |-> 2, odd |-> 1, zero |-> 0]

ASSUME Bounds ==
    /\ Endpoints \in Nat \ {0} /\ MaxFrames \in Nat
    /\ UpKinds \subseteq DOMAIN Units /\ DownKinds \subseteq DOMAIN DataWords

VARIABLES
    hs, ep,             \* step of Dial; endpoint in use
    wseq, rseq,         \* relayConn.writeSeq, readSeq
    toME,               \* frames written to this endpoint: [seq, what], what
                        \* being the number of the client's frame, 0 in the handshake
    frames, ends,       \* what this endpoint has sent (history): kinds, and the
                        \* number of words up to the end of each
    meFin,              \* it has closed
    line, sock,         \* its words on their way; the ones that have arrived
    buf,                \* cbcConn.buf
    phase, msgLen,      \* where readFrame is, and the length it has read
    handled, got,       \* frames read; answers handed to the client (indices)
    stream, pending,    \* the client's frames (kinds), their units not copied yet
    wbuf, up            \* intermediateConn.wbuf; the upload: "copy" (between two
                        \* Writes), "write" (in one), "failed" or "done"

dial == <<hs, ep>>
me == <<frames, ends, meFin, line>>
reader == <<buf, phase, msgLen, handled, got>>
client == <<stream, pending, wbuf, up>>
vars == <<dial, wseq, rseq, toME, me, sock, reader, client>>

Fresh ==
    [hs |-> "dial", wseq |-> startSeqNo, rseq |-> startSeqNo, phase |-> "len"]

Init ==
    /\ hs = Fresh.hs /\ ep = 1
    /\ wseq = Fresh.wseq /\ rseq = Fresh.rseq
    /\ toME = << >> /\ frames = << >> /\ ends = << >> /\ meFin = FALSE
    /\ line = << >> /\ sock = << >> /\ buf = << >>
    /\ phase = Fresh.phase /\ msgLen = 0 /\ handled = 0 /\ got = << >>
    /\ stream = << >> /\ pending = << >> /\ wbuf = << >> /\ up = "copy"

-----------------------------------------------------------------------------
(* Dial and handshake *)

\* The endpoint is reached: RPC_NONCE is written, in the clear.
SendNonce ==
    /\ hs = "dial"
    /\ hs' = "nonce"
    /\ toME' = Append(toME, [seq |-> wseq, what |-> 0])
    /\ wseq' = wseq + 1
    /\ UNCHANGED <<ep, rseq, me, sock, reader, client>>

\* A good answer, read in the clear, is followed by RPC_HANDSHAKE.
NonceAnswered ==
    /\ hs = "nonce" /\ ~meFin
    /\ hs' = "hello"
    /\ rseq' = rseq + 1
    /\ toME' = Append(toME, [seq |-> wseq, what |-> 0])
    /\ wseq' = wseq + 1
    /\ UNCHANGED <<ep, me, sock, reader, client>>

\* Mutants: the next connection goes on with the numbers of the last one; the
\* list of endpoints is overrun.
NextEndpointKeepsSeq ==
    /\ hs \in {"dial", "nonce", "refused"} /\ ep < Endpoints
    /\ ep' = ep + 1 /\ hs' = Fresh.hs /\ phase' = Fresh.phase
    /\ toME' = << >> /\ frames' = << >> /\ ends' = << >> /\ meFin' = FALSE
    /\ line' = << >> /\ sock' = << >> /\ buf' = << >> /\ handled' = 0
    /\ UNCHANGED <<wseq, rseq, msgLen, got, client>>
NextEndpointOverruns ==
    /\ hs \in {"dial", "nonce", "refused"} /\ ep <= Endpoints
    /\ ep' = ep + 1 /\ hs' = Fresh.hs
    /\ UNCHANGED <<wseq, rseq, toME, me, sock, reader, client>>

\* Not reached, the wrong answer or none: the socket is closed and the next
\* endpoint gets a connection of its own; after the last one Dial fails.
NextEndpoint ==
    /\ hs \in {"dial", "nonce", "refused"}
    /\ IF ep < Endpoints
       THEN /\ ep' = ep + 1 /\ hs' = Fresh.hs
            /\ wseq' = Fresh.wseq /\ rseq' = Fresh.rseq /\ phase' = Fresh.phase
            /\ toME' = << >> /\ frames' = << >> /\ ends' = << >> /\ meFin' = FALSE
            /\ line' = << >> /\ sock' = << >> /\ buf' = << >> /\ handled' = 0
            /\ UNCHANGED <<msgLen, got, client>>
       ELSE /\ hs' = "failed"
            /\ UNCHANGED <<ep, wseq, rseq, toME, me, sock, reader, client>>

-----------------------------------------------------------------------------
(* The ME's words: writeFrame of the other side, and the network *)

framePadding(n) == (-n) % cbcBlock

FrameLen(kind) == DataWords[kind] + 3 + framePadding(DataWords[kind] + 3)

Encode(kind, seq) ==
    [j \in 1..FrameLen(kind) |->
        IF j = 1 THEN <<"len", 4 * DataWords[kind] + 12>>
        ELSE IF j = 2 THEN <<"seq", seq>>
        ELSE IF j <= DataWords[kind] + 2 THEN <<"data", kind>>
        ELSE IF j = DataWords[kind] + 3 THEN <<"crc", kind>>
        ELSE Filler]

\* Where frame i begins; where the next one will.
At(i) == IF i = 1 THEN 0 ELSE ends[i - 1]

\* Its first frame answers RPC_HANDSHAKE.
MESends(kind) ==
    /\ hs \in {"hello", "open"} /\ ~meFin /\ Len(frames) + Len(stream) <= MaxFrames
    /\ frames = << >> <=> kind \in {"handshake", "other"}
    /\ frames' = Append(frames, kind)
    /\ ends' = Append(ends, At(Len(frames) + 1) + FrameLen(kind))
    /\ line' = line \o Encode(kind, startSeqNo + 1 + Len(frames))
    /\ UNCHANGED <<dial, wseq, rseq, toME, meFin, sock, reader, client>>

MECloses ==
    /\ hs # "dial" /\ ~meFin
    /\ meFin' = TRUE
    /\ UNCHANGED <<dial, wseq, rseq, toME, frames, ends, line, sock, reader, client>>

\* TCP delivers a block.
Arrive ==
    /\ line # << >>
    /\ sock' = sock \o SubSeq(line, 1, cbcBlock)
    /\ line' = SubSeq(line, cbcBlock + 1, Len(line))
    /\ UNCHANGED <<dial, wseq, rseq, toME, frames, ends, meFin, reader, client>>

-----------------------------------------------------------------------------
(* cbcConn.Read and readFrame *)

\* What readFrame asks for at each step.
Want == IF phase = "data" THEN (msgLen - 12) \div 4 ELSE 1

\* Mutant: one block more than is needed.
alignedTooFar(need) == need + ((-need) % cbcBlock) + cbcBlock

\* The next multiple of the block size; ensurePlain never asks for nothing.
alignedCipherReadSize(need) == need + ((-need) % cbcBlock)

Reading == hs \in {"hello", "open"}
Short == Want - Len(buf)

\* ensurePlain: decrypt as many whole blocks as the request needs.
EnsurePlain ==
    /\ Reading /\ Short > 0
    /\ LET n == alignedCipherReadSize(Short)
       IN /\ Len(sock) >= n
          /\ buf' = buf \o SubSeq(sock, 1, n)
          /\ sock' = SubSeq(sock, n + 1, Len(sock))
    /\ UNCHANGED <<dial, wseq, rseq, toME, me, phase, msgLen, handled, got, client>>

\* Mutant: padding is not recognised.
NotPadding(n) == FALSE
IsPadding(n) == n = 4

\* The session or, before it is open, the attempt to open it, ends here.
StopReading == hs' = IF hs = "open" THEN "ended" ELSE "refused"

\* The length; a filler is skipped.
ReadLen ==
    /\ Reading /\ phase = "len" /\ Short <= 0
    /\ buf' = Tail(buf)
    /\ IF IsPadding(Head(buf)[2]) THEN UNCHANGED <<phase, msgLen>>
       ELSE msgLen' = Head(buf)[2] /\ phase' = "seq"
    /\ UNCHANGED <<dial, wseq, rseq, toME, me, sock, handled, got, client>>

\* The sequence number must be the next one, the length that of a frame.
ReadSeq ==
    /\ Reading /\ phase = "seq" /\ Short <= 0
    /\ buf' = Tail(buf)
    /\ rseq' = IF Head(buf) = <<"seq", rseq>> THEN rseq + 1 ELSE rseq
    /\ IF Head(buf) = <<"seq", rseq>> /\ msgLen >= 12
       THEN phase' = "data" /\ UNCHANGED hs
       ELSE StopReading /\ UNCHANGED phase
    /\ UNCHANGED <<ep, wseq, toME, me, sock, msgLen, handled, got, client>>

\* Mutant: an acknowledgement is handed on as data.
AckIsData(kind) == kind \in Answers \cup {"ack"}

\* parseProxyAns: which frames carry data for the client, which end the
\* session; the rest, an answer without data included, are skipped.
CarriesData(kind) == kind \in Answers
EndsSession(kind) == kind \in {"short", "shortAnswer", "closeConn"}

ReadData ==
    /\ Reading /\ phase = "data" /\ Short <= 0
    /\ buf' = SubSeq(buf, Want + 1, Len(buf)) /\ phase' = "crc"
    /\ UNCHANGED <<dial, wseq, rseq, toME, me, sock, msgLen, handled, got, client>>

\* The checksum is read and not looked at; then the frame is acted on.
ReadChecksum ==
    /\ Reading /\ phase = "crc" /\ Short <= 0
    /\ LET kind == Head(buf)[2]
       IN IF hs = "hello"
          THEN /\ hs' = IF kind = "handshake" THEN "open" ELSE "refused"
               /\ UNCHANGED got
          ELSE /\ IF EndsSession(kind) THEN StopReading ELSE UNCHANGED hs
               /\ got' = IF CarriesData(kind) THEN Append(got, handled + 1) ELSE got
    /\ buf' = Tail(buf) /\ phase' = "len"
    /\ handled' = handled + 1
    /\ UNCHANGED <<ep, wseq, rseq, toME, me, sock, msgLen, client>>

\* readFull waits for the rest of a block, or more.
Blocked == Short > 0 /\ Len(sock) < alignedCipherReadSize(Short)

\* Nothing more will come.
ReadEOF ==
    /\ Reading /\ meFin /\ line = << >> /\ Blocked
    /\ StopReading
    /\ UNCHANGED <<ep, wseq, rseq, toME, me, sock, reader, client>>

-----------------------------------------------------------------------------
(* The client and intermediateConn.Write *)

\* A frame of the client as units <<its number, position>>.
Size(i) == Units[stream[i]] + 2
FrameUnits(i, kind) == [j \in 1..(Units[kind] + 2) |-> <<i, j>>]

\* A download that has ended leaves the upload alone.
Uploading == hs \in {"open", "ended"}

ClientSends(kind) ==
    /\ Uploading /\ up \in {"copy", "write"} /\ Len(frames) + Len(stream) <= MaxFrames
    /\ stream' = Append(stream, kind)
    /\ pending' = pending \o FrameUnits(Len(stream) + 1, kind)
    /\ UNCHANGED <<dial, wseq, rseq, toME, me, sock, reader, wbuf, up>>

\* io.Copy hands over any piece of the stream.
Write(n) ==
    /\ Uploading /\ up = "copy"
    /\ wbuf' = wbuf \o SubSeq(pending, 1, n)
    /\ pending' = SubSeq(pending, n + 1, Len(pending))
    /\ up' = "write"
    /\ UNCHANGED <<dial, wseq, rseq, toME, me, sock, reader, stream>>

\* Mutant: the frame that fills the buffer is left for the next Write.
HoldsMore(b) == Len(b) >= 2 /\ Len(b) > Size(b[1][1])

\* nextPaddedIntermediate: the length field is there, and all it announces.
Holds(b) == Len(b) >= 2 /\ Len(b) >= Size(b[1][1])
Malformed(i) == stream[i] \in {"odd", "zero"}

\* The loop of Write: the next whole frame becomes an RPC_PROXY_REQ with the
\* next sequence number (sendPayload); a malformed one ends the upload.
SendPayload ==
    /\ Uploading /\ up = "write" /\ Holds(wbuf)
    /\ LET i == wbuf[1][1]
       IN IF Malformed(i)
          THEN up' = "failed" /\ UNCHANGED <<toME, wseq, wbuf>>
          ELSE /\ toME' = Append(toME, [seq |-> wseq, what |-> i])
               /\ wseq' = wseq + 1
               /\ wbuf' = SubSeq(wbuf, Size(i) + 1, Len(wbuf))
               /\ UNCHANGED up
    /\ UNCHANGED <<dial, rseq, me, sock, reader, stream, pending>>

\* The ME is gone: the Write of the payload fails.
SendFails ==
    /\ Uploading /\ up = "write" /\ Holds(wbuf) /\ meFin
    /\ up' = "failed"
    /\ UNCHANGED <<dial, wseq, rseq, toME, me, sock, reader, stream, pending, wbuf>>

\* No whole frame is left.
WriteReturns ==
    /\ Uploading /\ up = "write" /\ ~Holds(wbuf)
    /\ up' = "copy"
    /\ UNCHANGED <<dial, wseq, rseq, toME, me, sock, reader, stream, pending, wbuf>>

\* The client is done: CloseWrite drops what is left of a frame.
UploadEnds ==
    /\ Uploading /\ up = "copy" /\ pending = << >>
    /\ up' = "done"
    /\ UNCHANGED <<dial, wseq, rseq, toME, me, sock, reader, stream, pending, wbuf>>

-----------------------------------------------------------------------------
ReadStep == EnsurePlain \/ ReadLen \/ ReadSeq \/ ReadData \/ ReadChecksum \/ ReadEOF

Next ==
    \/ SendNonce \/ NonceAnswered \/ NextEndpoint
    \/ \E k \in DownKinds : MESends(k)
    \/ MECloses \/ Arrive \/ ReadStep
    \/ \E k \in UpKinds : ClientSends(k)
    \/ \E n \in 1..Len(pending) : Write(n)
    \/ SendPayload \/ SendFails \/ WriteReturns \/ UploadEnds

Spec == Init /\ [][Next]_vars

-----------------------------------------------------------------------------
(* Properties *)

Word == ({"len"} \X Nat) \cup ({"seq"} \X Int) \cup ({"data", "crc"} \X DownKinds)

TypeOK ==
    /\ hs \in {"dial", "nonce", "hello", "refused", "open", "ended", "failed"}
    /\ ep \in 1..Endpoints
    /\ wseq \in Int /\ rseq \in startSeqNo..MaxFrames
    /\ toME \in Seq([seq : Int, what : Nat])
    /\ frames \in Seq(DownKinds) /\ ends \in Seq(Nat) /\ meFin \in BOOLEAN
    /\ line \in Seq(Word) /\ sock \in Seq(Word) /\ buf \in Seq(Word)
    /\ phase \in {"len", "seq", "data", "crc"} /\ msgLen \in Nat
    /\ handled \in 0..Len(frames) /\ got \in Seq(1..(MaxFrames + 1))
    /\ stream \in Seq(UpKinds) /\ up \in {"copy", "write", "failed", "done"}
    /\ pending \in Seq(Nat \X Nat) /\ wbuf \in Seq(Nat \X Nat)

\* The client is handed exactly the answers of the frames read so far, each
\* once and in order: acknowledgements, unknown frames and padding never reach
\* it, whatever the boundaries of frames and blocks.
AnswersInOrder ==
    hs \in {"open", "ended"} =>
        /\ \A j, k \in DOMAIN got : j < k => got[j] < got[k]
        /\ { got[k] : k \in DOMAIN got } = { i \in 1..handled : frames[i] \in Answers }

\* Reading stops only for a reason: the ME closed, ended the session or sent a
\* frame that says nothing.  Padding, sequence numbers and the handshake's last
\* block never break a session the ME keeps up.
NoFalseEnd ==
    hs \in {"ended", "refused"} =>
        \/ meFin
        \/ handled > 0 /\ frames[handled] \in {"short", "shortAnswer", "closeConn", "other"}

\* A reader that waits has read every frame that has arrived: it never asks
\* the socket for more than the frame it is in.
PromptDelivery ==
    Reading /\ Blocked /\ handled < Len(frames) =>
        At(Len(frames) + 1) - Len(line) < ends[handled + 1]

\* Everything the client has handed over as a whole frame, up to a malformed
\* one, is on its way to the ME, each frame once and in order, however io.Copy
\* cut the stream; a connection that failed sends nothing more.
UploadExact ==
    /\ \A i \in DOMAIN toME : toME[i].what = IF i <= 2 THEN 0 ELSE i - 2
    /\ \A i \in DOMAIN toME : i > 2 => ~Malformed(i - 2)
    /\ up \in {"copy", "done"} =>
         \A i \in 1..Len(stream), k \in DOMAIN wbuf : wbuf[k] # <<i, Size(i)>>

\* The ME sees the sequence numbers -2, -1, 0, 1, ... on each connection, over
\* the handshake, its retries on other endpoints and any number of payloads.
SeqConsecutive == \A i \in DOMAIN toME : toME[i].seq = startSeqNo + i - 1

-----------------------------------------------------------------------------
(* The inductive invariants behind these properties. *)

\* Steps of a connection: what has been written on it, and where its reader is.
DialInv ==
    /\ hs = "dial" => toME = << >>
    /\ hs = "nonce" => Len(toME) = 1
    /\ hs \in {"hello", "refused", "open", "ended"} => Len(toME) >= 2
    /\ hs \notin {"open", "ended"} =>
         /\ Len(toME) <= 2 /\ stream = << >> /\ up = "copy" /\ got = << >>
    /\ hs \in {"dial", "nonce"} =>
         /\ frames = << >> /\ handled = 0 /\ phase = "len" /\ rseq = startSeqNo
    /\ hs = "hello" => handled = 0
    /\ wseq = startSeqNo + Len(toME)

\* The words that have not been read, and the place of the first in the stream.
Left == (buf \o sock) \o line
Pos == At(Len(frames) + 1) - Len(Left)

\* The ME's frames lie one after the other on whole blocks, and what is left
\* of them is what the ME wrote.
WordInv ==
    /\ Len(ends) = Len(frames) /\ Pos >= 0
    /\ \A i \in 1..(Len(frames) + 1) :
         At(i) \in Nat /\ At(i) % cbcBlock = 0 /\ At(i) <= At(Len(frames) + 1)
    /\ \A i \in 1..Len(frames) :
         /\ At(i + 1) = At(i) + FrameLen(frames[i])
         /\ \A j \in 1..FrameLen(frames[i]) :
              At(i) + j > Pos =>
                 Left[(At(i) + j) - Pos] = Encode(frames[i], startSeqNo + i)[j]
    /\ Len(line) % cbcBlock = 0 /\ Len(sock) % cbcBlock = 0

\* The frame that is being read.
Current == frames[handled + 1]

\* readFrame is at the word its step asks for, the padding of the last frame
\* included; the next sequence number is that of the frame it is in.
ReaderInv ==
    /\ (Pos + Len(buf)) % cbcBlock = 0
    /\ phase = "len" =>
         /\ Pos <= At(handled + 1) /\ At(handled + 1) - Pos < cbcBlock
         /\ Pos < At(handled + 1) =>
              handled > 0 /\ Pos >= At(handled) + DataWords[frames[handled]] + 3
         /\ rseq = startSeqNo + 1 + handled
    /\ phase # "len" => handled < Len(frames) /\ msgLen = 4 * DataWords[Current] + 12
    /\ phase = "seq" => Pos = At(handled + 1) + 1 /\ rseq = startSeqNo + 1 + handled
    /\ phase = "data" => Pos = At(handled + 1) + 2 /\ rseq = startSeqNo + 2 + handled
    /\ phase = "crc" =>
         Pos = At(handled + 1) + 2 + DataWords[Current] /\ rseq = startSeqNo + 2 + handled

\* The numbers of the frames stay within the bound; the first one answers
\* RPC_HANDSHAKE.
SentInv ==
    /\ rseq <= startSeqNo + 1 + Len(frames)
    /\ Len(frames) <= MaxFrames + 1
    /\ frames # << >> => frames[1] \in {"handshake", "other"}

DownInv ==
    /\ WordInv /\ (Reading => ReaderInv) /\ AnswersInOrder /\ NoFalseEnd /\ SentInv

\* The frame of the client that wbuf begins with.
NextFrame == IF Len(toME) < 2 THEN 1 ELSE Len(toME) - 1

\* Given the place at which each frame of the client begins, every unit is
\* where it belongs, and wbuf begins with a frame.
PlacedAt(u, x, at) ==
    /\ u[1] \in 1..Len(stream) /\ u[2] \in 1..Size(u[1]) /\ u = <<u[1], u[2]>>
    /\ x = at[u[1]] + u[2]
UnitsAt(at) ==
    /\ \A i \in 1..Len(stream) : at[i + 1] = at[i] + Size(i)
    /\ \A i, j \in 1..(Len(stream) + 1) : i < j => at[i] < at[j]
    /\ NextFrame <= Len(stream) + 1
    /\ at[NextFrame] + Len(wbuf) + Len(pending) = at[Len(stream) + 1]
    /\ \A k \in 1..Len(wbuf) : PlacedAt(wbuf[k], at[NextFrame] + k, at)
    /\ \A k \in 1..Len(pending) : PlacedAt(pending[k], at[NextFrame] + Len(wbuf) + k, at)
UnitsInv == \E at \in [1..(Len(stream) + 1) -> Nat] : UnitsAt(at)

MiddleInv == TypeOK /\ DialInv /\ DownInv /\ UnitsInv /\ UploadExact /\ SeqConsecutive
=============================================================================
