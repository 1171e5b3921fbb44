---------------------------- MODULE SessionPipe ----------------------------
(***************************************************************************)
(* A relayed session: pipeTraffic (internal/proxy/server.go) on every      *)
(* proxy between a client and a Telegram DC, one proxy in direct mode, two *)
(* (front and back) through a relay tunnel.  Each runs two copying         *)
(* goroutines; when one ends, closeWriteHalf passes the end of the stream  *)
(* on, and when both have ended both connections are closed.               *)
(*                                                                         *)
(* Proxy p reads the client side from link p - 1 and the DC side from link *)
(* p.  A link has one FIFO per direction; Fin marks the end of a direction.*)
(***************************************************************************)
EXTENDS Integers, Sequences

CONSTANTS
    Hops,           \* number of proxies in the chain
    MaxData         \* bound: blocks each end sends

ASSUME HopsNat == Hops \in Nat \ {0}
ASSUME MaxDataNat == MaxData \in Nat

Proxies == 1..Hops
Links == 0..Hops
Dirs == {"up", "down"}
Fin == 0                        \* data blocks are numbered from 1

\* The link a goroutine of proxy p reads from, and the one it writes to.
Source(p, d) == IF d = "up" THEN p - 1 ELSE p
Target(p, d) == IF d = "up" THEN p ELSE p - 1

VARIABLES
    socks,      \* the last connection goes through a SOCKS5 dialer; fixed
    wrapped,    \* the first one was accepted with listen.proxy_protocol; fixed
    ch,         \* direction -> link -> blocks on their way
    finSent,    \* direction -> link -> its writer has ended the direction
    copier,     \* proxy -> direction -> "copy", "ended" or "done"
    buf,        \* proxy -> direction -> block between read and write, or Fin
    closed,     \* proxy -> pipeTraffic has closed both connections
    sent,       \* direction -> blocks sent by the end that writes it
    got,        \* direction -> blocks received by the end that reads it
    eof,        \* direction -> the end that reads it has seen the end
    gone        \* the client has closed its socket altogether

vars == <<socks, wrapped, ch, finSent, copier, buf, closed, sent, got, eof, gone>>
proxy == <<copier, buf, closed>>
fixed == <<socks, wrapped>>
ends == <<fixed, sent, got, eof, gone>>

Init ==
    /\ socks \in BOOLEAN /\ wrapped \in BOOLEAN
    /\ ch = [d \in Dirs |-> [k \in Links |-> << >>]]
    /\ finSent = [d \in Dirs |-> [k \in Links |-> FALSE]]
    /\ copier = [p \in Proxies |-> [d \in Dirs |-> "copy"]]
    /\ buf = [p \in Proxies |-> [d \in Dirs |-> Fin]]
    /\ closed = [p \in Proxies |-> FALSE]
    /\ sent = [d \in Dirs |-> 0] /\ got = [d \in Dirs |-> << >>]
    /\ eof = [d \in Dirs |-> FALSE] /\ gone = FALSE

\* The links of direction d after its end has been marked on the links ks.
Ended(d, ks) ==
    [k \in Links |-> IF k \in ks /\ ~finSent[d][k] THEN Append(ch[d][k], Fin) ELSE ch[d][k]]
Marked(d, ks) == [k \in Links |-> finSent[d][k] \/ k \in ks]

\* Whoever reads direction d of link k is still there.
ReaderAlive(d, k) ==
    /\ d = "down" /\ k = 0 => ~gone
    /\ d = "up" /\ k < Hops => ~closed[k + 1]
    /\ d = "down" /\ k > 0 => ~closed[k]

-----------------------------------------------------------------------------
(* pipeTraffic: the goroutine of proxy p for direction d, io.Copy. *)

\* Mutant: the end of the stream is copied as if it were a block.
CopyReadNoEOF(p, d) ==
    /\ copier[p][d] = "copy" /\ buf[p][d] = Fin
    /\ ch[d][Source(p, d)] # << >>
    /\ LET b == Head(ch[d][Source(p, d)])
       IN buf' = [buf EXCEPT ![p][d] = IF b = Fin THEN -1 ELSE b]
    /\ ch' = [ch EXCEPT ![d][Source(p, d)] = Tail(@)]
    /\ UNCHANGED <<copier, finSent, closed, ends>>

\* Read of the source: a block, or the end of the stream.
CopyRead(p, d) ==
    /\ copier[p][d] = "copy" /\ buf[p][d] = Fin
    /\ ch[d][Source(p, d)] # << >>
    /\ LET b == Head(ch[d][Source(p, d)])
       IN /\ buf' = [buf EXCEPT ![p][d] = b]
          /\ copier' = [copier EXCEPT ![p][d] = IF b = Fin THEN "ended" ELSE @]
    /\ ch' = [ch EXCEPT ![d][Source(p, d)] = Tail(@)]
    /\ UNCHANGED <<finSent, closed, ends>>

\* The write fails, and ends the copy, once the reader is gone.
CopyWrite(p, d) ==
    /\ copier[p][d] = "copy" /\ buf[p][d] # Fin
    /\ LET k == Target(p, d)
       IN IF ReaderAlive(d, k)
          THEN ch' = [ch EXCEPT ![d][k] = Append(@, buf[p][d])] /\ UNCHANGED copier
          ELSE copier' = [copier EXCEPT ![p][d] = "ended"] /\ UNCHANGED ch
    /\ buf' = [buf EXCEPT ![p][d] = Fin]
    /\ UNCHANGED <<finSent, closed, ends>>

\* CloseWrite reaches a TCP connection through the wrappers of the project.  A
\* connection made by the SOCKS5 dialer has none, nor have the two that
\* acceptWithProxyProtocol returns (proxyConn, peekedConn): nothing happens.
CanHalfClose(d, k) ==
    /\ ~(socks /\ d = "up" /\ k = Hops)
    /\ ~(wrapped /\ d = "down" /\ k = 0)

\* Mutant: the whole connection is closed instead of one direction: what the
\* other goroutine had still to read from it is lost.
CloseWholeConn(p, d) ==
    LET k == Target(p, d)
        o == IF d = "up" THEN "down" ELSE "up"
    IN /\ ch' = [ch EXCEPT ![d] = Ended(d, {k}), ![o][k] = <<Fin>>]
       /\ finSent' = [finSent EXCEPT ![d][k] = TRUE, ![o][k] = TRUE]

\* Mutant: the end of one direction is not passed on.
CloseNothing(p, d) == UNCHANGED <<ch, finSent>>

\* Mutant: the end is passed on only once both directions have ended.
CloseLate(p, d) ==
    LET k == Target(p, d)
    IN IF \A o \in Dirs \ {d} : copier[p][o] = "done"
       THEN /\ ch' = [ch EXCEPT ![d] = Ended(d, {k})]
            /\ finSent' = [finSent EXCEPT ![d][k] = TRUE]
       ELSE UNCHANGED <<ch, finSent>>

\* closeWriteHalf
CloseWriteHalf(p, d) ==
    LET k == Target(p, d)
    IN IF CanHalfClose(d, k)
       THEN /\ ch' = [ch EXCEPT ![d] = Ended(d, {k})]
            /\ finSent' = [finSent EXCEPT ![d][k] = TRUE]
       ELSE UNCHANGED <<ch, finSent>>

CopyEnds(p, d) ==
    /\ copier[p][d] = "ended"
    /\ CloseWriteHalf(p, d)
    /\ copier' = [copier EXCEPT ![p][d] = "done"]
    /\ UNCHANGED <<buf, closed, ends>>

\* wg.Wait has returned: client.Close, server.Close, and the caller's defers.
ClosePipe(p) ==
    /\ ~closed[p] /\ \A d \in Dirs : copier[p][d] = "done"
    /\ closed' = [closed EXCEPT ![p] = TRUE]
    /\ ch' = [d \in Dirs |-> Ended(d, {Target(p, d)})]
    /\ finSent' = [d \in Dirs |-> Marked(d, {Target(p, d)})]
    /\ UNCHANGED <<copier, buf, ends>>

-----------------------------------------------------------------------------
(* The two ends.  The DC is well behaved: it reads to the end and answers. *)

FirstLink(d) == IF d = "up" THEN 0 ELSE Hops
LastLink(d) == IF d = "up" THEN Hops ELSE 0

EndSends(d) ==
    /\ sent[d] < MaxData /\ ~finSent[d][FirstLink(d)]
    /\ ReaderAlive(d, FirstLink(d))
    /\ sent' = [sent EXCEPT ![d] = @ + 1]
    /\ ch' = [ch EXCEPT ![d][FirstLink(d)] = Append(@, sent[d] + 1)]
    /\ UNCHANGED <<fixed, finSent, proxy, got, eof, gone>>

EndHalfCloses(d) ==
    /\ ~finSent[d][FirstLink(d)]
    /\ ch' = [ch EXCEPT ![d] = Ended(d, {FirstLink(d)})]
    /\ finSent' = [finSent EXCEPT ![d][FirstLink(d)] = TRUE]
    /\ UNCHANGED <<proxy, ends>>

EndReceives(d) ==
    /\ ch[d][LastLink(d)] # << >> /\ ~eof[d] /\ (d = "down" => ~gone)
    /\ LET b == Head(ch[d][LastLink(d)])
       IN IF b = Fin THEN eof' = [eof EXCEPT ![d] = TRUE] /\ UNCHANGED got
          ELSE got' = [got EXCEPT ![d] = Append(@, b)] /\ UNCHANGED eof
    /\ ch' = [ch EXCEPT ![d][LastLink(d)] = Tail(@)]
    /\ UNCHANGED <<fixed, finSent, proxy, sent, gone>>

\* The client disappears: its side ends, what is sent to it is lost.
ClientCloses ==
    /\ ~gone
    /\ gone' = TRUE
    /\ ch' = [ch EXCEPT !["up"] = Ended("up", {0}), !["down"][0] = << >>]
    /\ finSent' = [finSent EXCEPT !["up"][0] = TRUE]
    /\ UNCHANGED <<fixed, proxy, sent, got, eof>>

ProxyStep(p) ==
    \/ \E d \in Dirs : CopyRead(p, d) \/ CopyWrite(p, d) \/ CopyEnds(p, d)
    \/ ClosePipe(p)

\* The DC answers an end of stream with its own; the client reads.
DCStep == EndReceives("up") \/ (eof["up"] /\ EndHalfCloses("down"))
ClientStep == EndReceives("down")

Next ==
    \/ \E p \in Proxies : ProxyStep(p)
    \/ \E d \in Dirs : EndSends(d) \/ EndHalfCloses(d) \/ EndReceives(d)
    \/ ClientCloses

Spec == Init /\ [][Next]_vars
FairSpec ==
    Spec /\ WF_vars(DCStep) /\ WF_vars(ClientStep) /\ \A p \in Proxies : WF_vars(ProxyStep(p))

-----------------------------------------------------------------------------
(* Properties *)

TypeOK ==
    /\ socks \in BOOLEAN /\ wrapped \in BOOLEAN
    /\ ch \in [Dirs -> [Links -> Seq(0..MaxData)]]
    /\ finSent \in [Dirs -> [Links -> BOOLEAN]]
    /\ copier \in [Proxies -> [Dirs -> {"copy", "ended", "done"}]]
    /\ buf \in [Proxies -> [Dirs -> 0..MaxData]]
    /\ closed \in [Proxies -> BOOLEAN]
    /\ sent \in [Dirs -> 0..MaxData]
    /\ got \in [Dirs -> Seq(1..MaxData)]
    /\ eof \in [Dirs -> BOOLEAN] /\ gone \in BOOLEAN

\* What the reader of direction d knows of its end.
Knows(d) == IF eof[d] THEN "eof" ELSE IF d = "down" /\ gone THEN "error" ELSE "open"
Blocks(d) == [i \in 1..sent[d] |-> i]

UpStream == INSTANCE ByteStream WITH
    sent <- Blocks("up"), fin <- finSent["up"][0], got <- got["up"], end <- Knows("up")
DownStream == INSTANCE ByteStream WITH
    sent <- Blocks("down"), fin <- finSent["down"][Hops], got <- got["down"], end <- Knows("down")

\* Each direction of a session is a byte stream from end to end, through every
\* proxy on the way; half-close is transparent: a side that sees the end of its
\* stream has seen everything the other side wrote, also when it had closed its
\* own direction long before (closeWriteHalf, "чтобы второй поток мог дочитать
\* ответ").
SessionIsStreams == UpStream!Spec /\ DownStream!Spec

\* The end of the DC's stream reaches a client that stays, with the client's
\* own direction open or not.  Behind proxy_protocol nothing is said: the end
\* is not passed on before the client has closed.
AnswerEnds == ~wrapped /\ finSent["down"][Hops] ~> eof["down"] \/ gone

\* A session ends: once the client has closed its side, every proxy on the way
\* closes both connections (and so runs OnDisconnect and gives back the slot).
\* Behind a SOCKS5 upstream the DC does not learn of it, and nothing is said.
SessionEnds == ~socks /\ finSent["up"][0] ~> \A p \in Proxies : closed[p]

-----------------------------------------------------------------------------
(* The inductive invariant behind SessionIsStreams. *)

\* On the link are the blocks after the first r up to w, in order, and behind
\* them, once the direction has ended, possibly its mark.
LinkHolds(link, r, w, ended) ==
    /\ \/ Len(link) = w - r
       \/ ended /\ Len(link) = w - r + 1 /\ link[w - r + 1] = Fin
    /\ \A i \in 1..(w - r) : link[i] = r + i

\* Seen by a link with a reader: w[k] blocks have been written to it and r[k]
\* read from it; it has ended only when the whole stream has passed.
LinkInv(d, r, w) ==
    \A k \in Links :
        /\ r[k] <= w[k] /\ w[k] <= sent[d]
        /\ ReaderAlive(d, k) => /\ LinkHolds(ch[d][k], r[k], w[k], finSent[d][k])
                                /\ finSent[d][k] => w[k] = sent[d] /\ finSent[d][FirstLink(d)]

\* Seen by a goroutine: what it has read is written on but for the block in its
\* buffer; it ends at the end of the stream, unless its reader has gone.
CopierInv(d, r, w) ==
    \A p \in Proxies :
        LET from == Source(p, d)
            to == Target(p, d)
        IN /\ buf[p][d] # Fin => buf[p][d] = r[from] /\ copier[p][d] = "copy"
           /\ ReaderAlive(d, to) => w[to] = r[from] - (IF buf[p][d] = Fin THEN 0 ELSE 1)
           /\ copier[p][d] # "done" => ~finSent[d][to]
           /\ copier[p][d] # "copy" /\ ReaderAlive(d, to) => r[from] = sent[d] /\ finSent[d][FirstLink(d)]
           /\ closed[p] => copier[p][d] = "done"

\* Seen by the two ends.
EndInv(d, r, w) ==
    /\ w[FirstLink(d)] = sent[d]
    /\ \A i \in 1..Len(got[d]) : got[d][i] = i
    /\ Len(got[d]) <= sent[d]
    /\ ReaderAlive(d, LastLink(d)) => Len(got[d]) = r[LastLink(d)]

Counts == [Links -> 0..MaxData]
DirInv(d) == \E r, w \in Counts : LinkInv(d, r, w) /\ CopierInv(d, r, w) /\ EndInv(d, r, w)
SessionInv == TypeOK /\ \A d \in Dirs : DirInv(d)
=============================================================================
