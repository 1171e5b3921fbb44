---------------------------- MODULE ByteStream -----------------------------
(***************************************************************************)
(* What every hop of PhantomProxy promises of one direction of a session,  *)
(* whatever it wraps the bytes in (TLS records, PHRP frames, RPC packets): *)
(* the reader is given a growing prefix of what was written, and is told   *)
(* that the stream has ended only after all of it.  The hop may break at   *)
(* any time; then the reader gets no more, and is told so.                 *)
(***************************************************************************)
EXTENDS Naturals, SequencesExt

VARIABLES
    sent,   \* what was written, a sequence
    fin,    \* the writer has closed its side
    got,    \* what was handed to the reader
    end     \* "open", "eof" or "error": what the reader knows

vars == <<sent, fin, got, end>>

Init == sent = << >> /\ fin = FALSE /\ got = << >> /\ end = "open"

Write ==
    /\ ~fin
    /\ IsStrictPrefix(sent, sent')
    /\ UNCHANGED <<fin, got, end>>

CloseWrite ==
    /\ ~fin /\ fin' = TRUE
    /\ UNCHANGED <<sent, got, end>>

Deliver ==
    /\ end = "open"
    /\ IsStrictPrefix(got, got') /\ IsPrefix(got', sent)
    /\ UNCHANGED <<sent, fin, end>>

EOF ==
    /\ end = "open" /\ fin /\ got = sent
    /\ end' = "eof"
    /\ UNCHANGED <<sent, fin, got>>

Break ==
    /\ end = "open" /\ end' = "error"
    /\ UNCHANGED <<sent, fin, got>>

Next == Write \/ CloseWrite \/ Deliver \/ EOF \/ Break

Spec == Init /\ [][Next]_vars
=============================================================================
