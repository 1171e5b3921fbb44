---------------------------- MODULE RelayTunnel ----------------------------
(***************************************************************************)
(* The Front->Back direction of a PHRP tunnel (internal/relay/tunnel.go):  *)
(* DialFront and frameConn.Write on one side, acceptBack and               *)
(* frameConn.Read on the other, TCP in between.                            *)
(*                                                                         *)
(* The stream is a sequence of units: the base handshake (54 bytes), the   *)
(* client address in two parts (a current front sends it in the same       *)
(* Write, a legacy front not at all), then one unit per frame.  TCP keeps  *)
(* their order and may deliver them with any delay.  The back waits 200 ms *)
(* for the client address.                                                 *)
(***************************************************************************)
EXTENDS Integers, Sequences

CONSTANTS
    Versions,       \* subset of {"current", "legacy"}
    MaxFrames       \* bound: frames written by the front

ASSUME VersionsAssumption == Versions \subseteq {"current", "legacy"}
ASSUME MaxFramesNat == MaxFrames \in Nat

VARIABLES
    version,    \* the kind of front
    samePSK,    \* both sides have the same psk
    sent,       \* frames the front has written
    fin,        \* the front has closed its side for writing
    arrived,    \* units that have reached the back
    rd,         \* units the back has consumed
    torn,       \* the next unit has lost its first bytes
    back,       \* step of the back: "base", "extra", "frames", or how it ended
    meta,       \* Meta.ClientIP and ClientPort
    got         \* payloads the back's handler has read

front == <<version, samePSK, sent, fin>>
vars == <<front, arrived, rd, torn, back, meta, got>>

\* Units of the handshake, and in all.
Preface == IF version = "current" THEN 3 ELSE 1
Written == Preface + sent

Init ==
    /\ version \in Versions /\ samePSK \in BOOLEAN
    /\ sent = 0 /\ fin = FALSE
    /\ arrived = 0 /\ rd = 0 /\ torn = FALSE
    /\ back = "base" /\ meta = "none" /\ got = << >>

-----------------------------------------------------------------------------
(* Front: DialFront has written the handshake. *)

\* Write cuts its argument into frames; one is written here.
FrontWrite ==
    /\ ~fin /\ sent < MaxFrames
    /\ sent' = sent + 1
    /\ UNCHANGED <<version, samePSK, fin, arrived, rd, torn, back, meta, got>>

\* CloseWrite or Close
FrontCloseWrite ==
    /\ ~fin
    /\ fin' = TRUE
    /\ UNCHANGED <<version, samePSK, sent, arrived, rd, torn, back, meta, got>>

\* TCP delivers the next unit.
Arrive ==
    /\ arrived < Written
    /\ arrived' = arrived + 1
    /\ UNCHANGED <<front, rd, torn, back, meta, got>>

-----------------------------------------------------------------------------
(* Back: acceptBack *)

\* The base handshake: a wrong tag ends the connection.
BackBase ==
    /\ back = "base" /\ arrived >= 1
    /\ rd' = 1
    /\ back' = IF samePSK THEN "extra" ELSE "refused"
    /\ UNCHANGED <<front, arrived, torn, meta, got>>

\* Mutant: one part of the address is taken for all of it.
ExtraReadyEarly == arrived >= 2

\* The six bytes after the base handshake are there.  A frame has more than
\* six bytes: what a legacy front sends there is its first frame.
ExtraReady == arrived >= (IF version = "current" THEN 3 ELSE 2)

\* Read in time: the address, or the first six bytes of a frame.
BackExtra ==
    /\ back = "extra" /\ ExtraReady
    /\ back' = "frames"
    /\ IF version = "current"
       THEN /\ meta' = IF arrived >= 3 THEN "client" ELSE "garbage"
            /\ rd' = 3
            /\ UNCHANGED torn
       ELSE meta' = "garbage" /\ torn' = TRUE /\ UNCHANGED rd
    /\ UNCHANGED <<front, arrived, got>>

\* Not read in time, or the stream ended: a part that had come is dropped, the
\* deadline is cleared and the session goes on without an address.
BackExtraMissing ==
    /\ back = "extra" /\ ~ExtraReady
    /\ back' = "frames"
    /\ rd' = arrived
    /\ UNCHANGED <<front, arrived, torn, meta, got>>

(* Back: frameConn.Read *)

\* Mutant: a frame that does not open is skipped.
BackFrameSkips ==
    /\ back = "frames" /\ rd < arrived
    /\ rd' = rd + 1 /\ torn' = FALSE
    /\ got' = IF rd >= Preface /\ ~torn THEN Append(got, rd + 1 - Preface) ELSE got
    /\ UNCHANGED <<front, arrived, back, meta>>

\* An intact frame is opened and handed on.  Bytes of the address, or of a
\* frame without its beginning, give a length or a ciphertext that is refused.
BackFrame ==
    /\ back = "frames" /\ rd < arrived
    /\ rd' = rd + 1
    /\ IF rd >= Preface /\ ~torn
       THEN got' = Append(got, rd + 1 - Preface) /\ UNCHANGED back
       ELSE back' = "broken" /\ UNCHANGED got
    /\ UNCHANGED <<front, arrived, torn, meta>>

AllRead == fin /\ rd >= Written

\* End of stream, at a frame boundary: the front writes a frame whole before it
\* closes.  (Of a front that dies right behind a frame's length, frameConn.Read
\* would say io.EOF as well.)
BackEOF ==
    /\ back = "frames" /\ AllRead
    /\ back' = "eof"
    /\ UNCHANGED <<front, arrived, rd, torn, meta, got>>

Next ==
    \/ FrontWrite \/ FrontCloseWrite \/ Arrive
    \/ BackBase \/ BackExtra \/ BackExtraMissing \/ BackFrame \/ BackEOF

Spec == Init /\ [][Next]_vars

-----------------------------------------------------------------------------
(* Properties *)

TypeOK ==
    /\ version \in Versions /\ samePSK \in BOOLEAN
    /\ sent \in 0..MaxFrames /\ fin \in BOOLEAN
    /\ arrived \in 0..Written /\ rd \in 0..arrived
    /\ torn \in BOOLEAN
    /\ back \in {"base", "extra", "frames", "refused", "broken", "eof"}
    /\ meta \in {"none", "client", "garbage"}
    /\ got \in Seq(1..MaxFrames)

\* The handler reads what the front wrote, from its first frame on, without a
\* gap, whenever the handshake came in pieces, late, or from a legacy front.
DeliveredPrefix ==
    Len(got) <= sent /\ \A i \in 1..Len(got) : got[i] = i

\* No silent loss: the handler sees a clean end of the stream only after every
\* frame the front wrote; a session that lost bytes ends with an error.
CleanEndIsComplete == back = "eof" => Len(got) = sent

\* The client address of a current front is the one it sent, or absent.
MetaTrue == version = "current" => meta # "garbage"

\* What the back's handler knows of the stream.
BackEnd ==
    CASE back = "eof" -> "eof" [] back \in {"broken", "refused"} -> "error" [] OTHER -> "open"

\* The first n frames, by number.
Upto(n) == [i \in 1..n |-> i]

\* The tunnel is a byte stream whose units are the frames, for either kind of
\* front, whenever its handshake arrives.
TunnelStream == INSTANCE ByteStream WITH
    sent <- Upto(sent), end <- BackEnd
TunnelIsStream == TunnelStream!Spec

-----------------------------------------------------------------------------
(* The inductive invariant behind DeliveredPrefix and CleanEndIsComplete. *)

\* The frames handed on are the ones read after the handshake; a back that
\* lost bytes of the stream has handed on none.
TunnelInv ==
    /\ TypeOK
    /\ \A i \in 1..Len(got) : got[i] = i
    /\ back \in {"base", "extra", "refused"} => got = << >> /\ ~torn
    /\ back = "base" => rd = 0
    /\ back = "extra" => rd = 1
    /\ torn /\ back # "broken" => rd = Preface /\ got = << >> /\ rd < arrived
    /\ back \in {"frames", "eof"} =>
         \/ rd >= Preface /\ Len(got) = rd - Preface
         \/ back = "frames" /\ rd < Preface /\ got = << >>
    /\ Len(got) <= sent
    /\ back = "eof" => Len(got) = sent
    /\ back = "eof" => fin
=============================================================================
