----------------------------- MODULE FrontPath -----------------------------
(***************************************************************************)
(* A client of a front in front mode, from the client's Write to the back: *)
(* the fake-TLS connection (RecordLayer), the io.Copy of pipeTraffic that  *)
(* moves what it reads into the tunnel, and the tunnel (RelayTunnel).      *)
(***************************************************************************)
EXTENDS RelayTunnel, RecordLayer

VARIABLES
    frames,     \* payloads of the frames the front has written
    handed      \* bytes the back's handler has read

ASSUME FramesEnough == MaxFrames >= MaxBytes

pathVars == <<vars, recVars, frames, handed>>

PathInit == Init /\ RecInit /\ frames = << >> /\ handed = << >>

-----------------------------------------------------------------------------
(* The client; its connection to the front. *)

Client ==
    /\ Sending
    /\ UNCHANGED <<vars, frames, handed>>

(* pipeTraffic on the front, upload. *)

\* Mutant: the frame is not cut to what the Read gave.
UploadStale(n) ==
    /\ Read(n) /\ FrontWrite
    /\ frames' = Append(frames, plain')
    /\ UNCHANGED handed

\* io.Copy: one Read of the client's connection, and the Write of what it gave.
Upload(n) ==
    /\ Read(n) /\ FrontWrite
    /\ frames' = Append(frames, SubSeq(plain', Len(plain) + 1, Len(plain')))
    /\ UNCHANGED handed

\* The back has hung up, and the Write says so; the copy ends.
UploadFails(n) ==
    /\ back \in {"refused", "broken"}
    /\ Read(n) /\ FrontCloseWrite
    /\ UNCHANGED <<frames, handed>>

\* A Read inside RecordConn.Read that hands nothing on.
UploadWaits ==
    /\ ~fin
    /\ Skip \/ ReadEOF \/ ReadError
    /\ UNCHANGED <<vars, frames, handed>>

\* Mutant: an error of the copy skips the half-close.
UploadEndsIfClean ==
    /\ over = "eof"
    /\ FrontCloseWrite
    /\ UNCHANGED <<recVars, frames, handed>>

\* The copy has ended, with an error or without: closeWriteHalf(server).
UploadEnds ==
    /\ over # "open"
    /\ FrontCloseWrite
    /\ UNCHANGED <<recVars, frames, handed>>

Copying == (\E n \in ReadSizes : Upload(n)) \/ UploadWaits \/ UploadEnds
CopyFails == \E n \in ReadSizes : UploadFails(n)

(* The tunnel and the back. *)

\* frameConn.Read: the payload of a frame that opens goes to the handler.
BackReads ==
    /\ BackFrame
    /\ handed' = IF got' = got THEN handed ELSE handed \o frames[got'[Len(got')]]

Tunnel ==
    /\ \/ BackReads
       \/ /\ Arrive \/ BackBase \/ BackExtra \/ BackExtraMissing \/ BackEOF
          /\ UNCHANGED handed
    /\ UNCHANGED <<recVars, frames>>

PathNext == Client \/ Copying \/ CopyFails \/ Tunnel

PathSpec == PathInit /\ [][PathNext]_pathVars

\* The front's copy and the back run, TCP delivers, and the back's 200 ms pass;
\* no client has to send or to close.
PathFairSpec == PathSpec /\ WF_pathVars(Copying) /\ WF_pathVars(Tunnel)

-----------------------------------------------------------------------------
(* Properties *)

PathTypeOK ==
    /\ TypeOK /\ RecTypeOK
    /\ frames \in Seq(Seq(1..MaxBytes)) /\ Len(frames) = sent
    /\ handed \in Seq(1..MaxBytes)

\* A clean end at the back speaks for the client only if the client's own
\* connection ended cleanly: pipeTraffic passes an error on as a half-close.
PathEnd == IF back = "eof" /\ RecordEnd # "eof" THEN "error" ELSE BackEnd

\* From the client's Write to the handler on the back, the path is one byte
\* stream: enciphered, cut into records, read into whatever buffer, sealed in
\* frames, opened, nothing is lost, repeated or reordered, and a client whose
\* stream ended cleanly at both hops has had all of it delivered.
PathStream == INSTANCE ByteStream WITH
    sent <- Span(0, enc), fin <- (shut = "fin"), got <- handed, end <- PathEnd
PathIsStream == PathStream!Spec

\* The end of the client's stream, clean or not, reaches the back: its session
\* ends, however much of the handshake and of the frames was still on the way.
ClientEndReachesBack == shut # "no" ~> back \in {"eof", "broken", "refused"}

-----------------------------------------------------------------------------
(* The inductive invariant behind PathIsStream. *)

\* The stream position at which each frame begins; the last one is where the
\* next frame will, as long as the copy runs or has ended by itself.
FramesAt(cut) ==
    /\ cut[1] = 0
    /\ \A j \in 1..Len(frames) : Piece(frames[j], cut[j], cut[j + 1])
    /\ \A j \in 1..(Len(frames) + 1) : cut[j] <= Len(plain)
    /\ ~fin \/ over # "open" => cut[Len(frames) + 1] = Len(plain)
    /\ Len(handed) = cut[Len(got) + 1]
FramesInv == \E cut \in [1..(Len(frames) + 1) -> 0..MaxBytes] : FramesAt(cut)

\* A copy that ended at a record's boundary has read everything.
CopyInv ==
    /\ RecordEnd = "eof" => wire = << >> /\ readBuf = << >>
    /\ fin /\ over = "open" => back \in {"refused", "broken"}

PathInv ==
    /\ TunnelInv /\ RecInv /\ PathTypeOK /\ FramesInv /\ CopyInv
    /\ \A i \in 1..Len(handed) : handed[i] = i
=============================================================================
