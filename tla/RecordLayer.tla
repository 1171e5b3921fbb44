---------------------------- MODULE RecordLayer ----------------------------
(***************************************************************************)
(* One direction of a fake-TLS connection: obfuscated2.Conn.Write and      *)
(* RecordConn.Write at one end, RecordConn.Read and obfuscated2.Conn.Read  *)
(* at the other, TCP in between.  The proxy is the writer towards the      *)
(* client and the reader towards Telegram.                                 *)
(*                                                                         *)
(* A byte is its position in the stream.  Enciphered, it is its position   *)
(* in the key stream of the writer; the reader deciphers with the position *)
(* of its own key stream, so a byte comes out right only if the two agree. *)
(***************************************************************************)
EXTENDS RecordPolicy, Sequences

CONSTANTS
    Policies,       \* raw policies: the configuration's record_min_chunk, ...
    ReadSizes,      \* lengths of the buffers Read is called with
    MaxBytes,       \* bound: bytes written
    MaxOther        \* bound: records that carry no application data

ASSUME RecordBounds ==
    /\ Policies \subseteq Policy /\ ReadSizes \subseteq Nat \ {0}
    /\ MaxBytes \in Nat /\ MaxOther \in Nat

VARIABLES
    policy,         \* RecordConn.Policy, normalized
    enc,            \* bytes enciphered: position of EncStream
    out,            \* rest of the argument of a Write in progress
    records, split, \* recordsWritten and splitDone
    other,          \* records without application data on the wire so far
    wire,           \* records that have not been read
    shut,           \* how the writer ended: "no", "fin" (CloseWrite) or "reset"
    readBuf,        \* rest of the record that was read last
    plain,          \* what the reader was given
    over            \* what the reader knows: "open", "eof" or "error"

writer == <<policy, enc, out, records, split, shut>>
recVars == <<writer, other, wire, readBuf, plain, over>>

Span(lo, n) == [i \in 1..n |-> lo + i]
Drop(s, n) == SubSeq(s, n + 1, Len(s))

RecInit ==
    /\ policy \in { Normalize(p) : p \in Policies }
    /\ enc = 0 /\ out = << >> /\ records = 0 /\ split = FALSE /\ shut = "no"
    /\ other = 0 /\ wire = << >>
    /\ readBuf = << >> /\ plain = << >> /\ over = "open"

-----------------------------------------------------------------------------
(* The writer *)

\* obfuscated2.Conn.Write enciphers its whole argument, then writes it.
Write(n) ==
    /\ shut = "no" /\ out = << >>
    /\ n > 0 /\ enc + n <= MaxBytes
    /\ out' = Span(enc, n)
    /\ enc' = enc + n
    /\ UNCHANGED <<policy, records, split, shut, other, wire, readBuf, plain, over>>

\* b = b[chunkSize:]
RestOf(n) == Drop(out, n)

\* bytesWritten: what has been enciphered and is not waiting.
bytesWritten == enc - Len(out)

\* The next record: the one byte of Split-TLS, or a chunk of the policy's size.
Chunk ==
    IF policy.split /\ ~split THEN {1}
    ELSE outboundChunkSize(policy, records, bytesWritten, Len(out))

WriteRecord(n) ==
    /\ out # << >> /\ n \in Chunk /\ n <= MaxRecordPayload
    /\ wire' = Append(wire, [app |-> TRUE, data |-> SubSeq(out, 1, n)])
    /\ out' = RestOf(n)
    /\ records' = records + 1
    /\ split' = (split \/ policy.split)
    /\ UNCHANGED <<policy, enc, shut, other, readBuf, plain, over>>

\* A payload over the limit, or a connection that is gone: Write returns an
\* error, and the caller closes.
WriteFails ==
    /\ out # << >> /\ shut = "no"
    /\ out' = << >> /\ shut' = "reset"
    /\ UNCHANGED <<policy, enc, records, split, other, wire, readBuf, plain, over>>

\* A client's ChangeCipherSpec or alert, between two records.
WriteOther ==
    /\ shut = "no" /\ other < MaxOther
    /\ other' = other + 1
    /\ wire' = Append(wire, [app |-> FALSE, data |-> <<0>>])
    /\ UNCHANGED <<writer, readBuf, plain, over>>

CloseWrite ==
    /\ shut = "no" /\ out = << >>
    /\ shut' = "fin"
    /\ UNCHANGED <<policy, enc, out, records, split, other, wire, readBuf, plain, over>>

-----------------------------------------------------------------------------
(* The reader *)

\* obfuscated2.Conn.Read: the key stream moves with the bytes that were read.
Deciphered(data) ==
    [i \in 1..Len(data) |-> IF data[i] = Len(plain) + i THEN data[i] ELSE 0]

\* recType != recordApplicationData
IsAppData(r) == r.app

\* What is left of the last record; else the next record with application data.
Data == IF readBuf # << >> THEN readBuf ELSE Head(wire).data

\* Mutant: what did not fit into the caller's buffer is dropped.
ReadDropsRest(n) ==
    /\ over = "open" /\ Len(Data) > 0
    /\ plain' = plain \o Deciphered(SubSeq(Data, 1, AtMost(Len(Data), n)))
    /\ readBuf' = << >>
    /\ wire' = IF readBuf # << >> THEN wire ELSE Tail(wire)
    /\ UNCHANGED <<writer, other, over>>

\* Read with a buffer of n bytes.
ReadData(n) ==
    /\ over = "open" /\ Len(Data) > 0
    /\ plain' = plain \o Deciphered(SubSeq(Data, 1, AtMost(Len(Data), n)))
    /\ readBuf' = Drop(Data, AtMost(Len(Data), n))
    /\ wire' = IF readBuf # << >> THEN wire ELSE Tail(wire)
    /\ UNCHANGED <<writer, other, over>>

Read(n) ==
    /\ readBuf # << >> \/ (wire # << >> /\ IsAppData(Head(wire)))
    /\ ReadData(n)

\* Any other record is skipped.
Skip ==
    /\ over = "open" /\ readBuf = << >> /\ wire # << >> /\ ~IsAppData(Head(wire))
    /\ wire' = Tail(wire)
    /\ UNCHANGED <<writer, other, readBuf, plain, over>>

\* The stream has ended at a record's boundary.
ReadEOF ==
    /\ over = "open" /\ readBuf = << >> /\ wire = << >> /\ shut = "fin"
    /\ over' = "eof"
    /\ UNCHANGED <<writer, other, wire, readBuf, plain>>

\* The connection was reset, or cut within a record.  A cut right behind the
\* header looks like an end: io.ReadFull of the payload returns io.EOF.
ReadError ==
    /\ over = "open" /\ readBuf = << >> /\ shut = "reset"
    /\ over' \in {"error", "eof"}
    /\ UNCHANGED <<writer, other, wire, readBuf, plain>>

Sending ==
    \/ \E n \in 1..MaxBytes : Write(n) \/ WriteRecord(n)
    \/ WriteFails \/ WriteOther \/ CloseWrite

RecNext == Sending \/ (\E n \in ReadSizes : Read(n)) \/ Skip \/ ReadEOF \/ ReadError

RecSpec == RecInit /\ [][RecNext]_recVars

-----------------------------------------------------------------------------
RecTypeOK ==
    /\ policy \in Policy
    /\ enc \in 0..MaxBytes /\ out \in Seq(1..MaxBytes)
    /\ records \in 0..MaxBytes /\ split \in BOOLEAN
    /\ shut \in {"no", "fin", "reset"} /\ other \in 0..MaxOther
    /\ wire \in Seq([app : BOOLEAN, data : Seq(0..MaxBytes)])
    /\ readBuf \in Seq(0..MaxBytes) /\ plain \in Seq(0..MaxBytes)
    /\ over \in {"open", "eof", "error"}

\* The writer never offers writeRecordLocked a record that is empty or too
\* long, whatever the configured limits, the ramp of the dynamic record sizes
\* and the rest of the argument are.
RecordsFit == out # << >> => Chunk \subseteq 1..AtMost(Len(out), MaxRecordPayload)

\* How the stream ended.  The reader cannot tell a cut behind a header from the
\* end of the stream, so an end it sees counts as one only if the writer closed.
RecordEnd == IF over = "eof" /\ shut # "fin" THEN "error" ELSE over

\* The two ends together are a byte stream, for every policy: records are
\* opened in order, their rest is kept for the next Read, and the key streams
\* stay in step.
RecordStream == INSTANCE ByteStream WITH
    sent <- Span(0, enc), fin <- (shut = "fin"), got <- plain, end <- RecordEnd
RecordsAreStream == RecordStream!Spec

-----------------------------------------------------------------------------
(* The inductive invariant behind RecordsFit and RecordsAreStream. *)

\* The policy has been normalized: its limits are in order and within a record.
PolicyInv ==
    /\ policy.min \in 1..policy.max /\ policy.max \in 1..MaxRecordPayload

\* What a Write has not sent yet is the end of what it enciphered; every record
\* took a byte at least.
WriterInv ==
    /\ Len(out) <= enc /\ \A i \in 1..Len(out) : out[i] = bytesWritten + i
    /\ records <= bytesWritten
    /\ shut # "no" => out = << >>

\* What is between two positions of the stream, and a record that holds it.
Piece(s, lo, hi) ==
    /\ s # << >> /\ hi = lo + Len(s)
    /\ \A i \in 1..Len(s) : s[i] = lo + i
HeldAt(r, lo, hi) == IF r.app THEN Piece(r.data, lo, hi) ELSE hi = lo

\* The stream position at which each record on the wire begins; the last one is
\* where the next record will.
WireAt(at) ==
    /\ at[1] = Len(plain) + Len(readBuf)
    /\ \A j \in 1..(Len(wire) + 1) : at[j] <= bytesWritten
    /\ shut # "reset" => at[Len(wire) + 1] = bytesWritten
    /\ \A j \in 1..Len(wire) : HeldAt(wire[j], at[j], at[j + 1])
WireInv == \E at \in [1..(Len(wire) + 1) -> 0..MaxBytes] : WireAt(at)

\* What the reader was given, and what it has kept of a record; its stream ends
\* after the writer's.
ReaderInv ==
    /\ over # "open" => shut # "no"
    /\ \A i \in 1..Len(plain) : plain[i] = i
    /\ \A i \in 1..Len(readBuf) : readBuf[i] = Len(plain) + i

RecInv == RecTypeOK /\ PolicyInv /\ WriterInv /\ WireInv /\ ReaderInv
=============================================================================
