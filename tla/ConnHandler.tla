---------------------------- MODULE ConnHandler ----------------------------
(***************************************************************************)
(* One goroutine per admitted connection: handleConnection and what it     *)
(* calls (internal/proxy/server.go), with the state the goroutines share,  *)
(* the probe blacklist (internal/probe) and the per-user statistics        *)
(* (internal/stats).                                                       *)
(*                                                                         *)
(* A client's byte stream is three segments: the first byte, the rest of   *)
(* the first message (ClientHello or 64-byte obfuscated2 header), and what *)
(* follows.  What a client is decides what the parsers make of it:         *)
(*   ee        a fake-TLS client with a valid secret                       *)
(*   dd        a secure-mode client with a valid secret                    *)
(*   badHello  TLS that no user, policy or replay check lets through       *)
(*   badInner  a valid ClientHello followed by a wrong obfuscated2 header  *)
(*   http      anything else                                               *)
(***************************************************************************)
EXTENDS Integers, Sequences, FiniteSets

CONSTANTS
    Conns, IPs, Users,
    Kinds,              \* the kinds of clients in this instance
    MiddleProxy,        \* use_middle_proxy
    Protocols,          \* subset of {"faketls", "secure"}: protocols.*
    FrontingActions,    \* values of fronting.action, which every reload may change
    Thresholds,         \* values of probe_blacklist_threshold, which every reload may change
    Window, Duration,   \* probe_blacklist_*
    HandshakeTimeout,
    MaxTime             \* bound on the clock

ASSUME ConnsFinite == IsFiniteSet(Conns)
ASSUME MiddleProxyBool == MiddleProxy \in BOOLEAN
ASSUME BlacklistParams == Thresholds \subseteq Int /\ Window \in Nat \ {0} /\ Duration \in Nat \ {0}
ASSUME TimeoutNat == HandshakeTimeout \in Nat \ {0}
ASSUME MaxTimeNat == MaxTime \in Nat

Stream == <<1, 2, 3>>
Never == -1                 \* no deadline, no record, not blocked
TLSKinds == {"ee", "badHello", "badInner"}

VARIABLES
    now,
    ip, user, kind,     \* connection -> what it is; fixed
    pc,                 \* connection -> step of its goroutine
    sock,               \* connection -> its socket, see NewSock
    why,                \* connection -> why it was rejected, or "served"
    cut,                \* relayed sessions that a read deadline ended (history)
    threshold, counts, blocked,     \* Blacklist; IP -> probes counted, IP -> blocked until
    rec,                \* connection -> time its probe was counted; a probe in
                        \* counts is named by its connection, which makes only one
    active, total       \* Tracker: user -> active and total connections

conns == <<ip, user, kind>>
blacklist == <<threshold, counts, blocked, rec>>
stats == <<active, total>>
vars == <<now, conns, pc, sock, why, cut, blacklist, stats>>

\* deadline: the read deadline; pos: segments read; capture: what ReadRecorder
\* keeps; site: what the mask host or the HTTP site was given.
NewSock == [deadline |-> Never, pos |-> 0, capture |-> << >>, site |-> << >>]

Init ==
    /\ now = 0
    /\ ip \in [Conns -> IPs] /\ user \in [Conns -> Users] /\ kind \in [Conns -> Kinds]
    /\ pc = [c \in Conns |-> "new"]
    /\ sock = [c \in Conns |-> NewSock]
    /\ why = [c \in Conns |-> "none"] /\ cut = {}
    /\ threshold \in Thresholds
    /\ counts = [i \in IPs |-> {}] /\ blocked = [i \in IPs |-> Never]
    /\ rec = [c \in Conns |-> Never]
    /\ active = [u \in Users |-> 0] /\ total = [u \in Users |-> 0]

ViaTLS(c) == "faketls" \in Protocols /\ kind[c] \in TLSKinds
Goto(c, step) == pc' = [pc EXCEPT ![c] = step]
Reason(c, w) == why' = [why EXCEPT ![c] = w]
Socket(c, s) == sock' = [sock EXCEPT ![c] = s]
Overdue(c) == sock[c].deadline # Never /\ now >= sock[c].deadline

\* From here on nothing the goroutine has read, recorded or set matters.
Forget(c, step, w) == Goto(c, step) /\ Reason(c, w) /\ Socket(c, NewSock)

\* "defer conn.Close()".
Closed(c, w) == Forget(c, "closed", w)

-----------------------------------------------------------------------------
(* Blacklist *)

\* purgeExpiredLocked
Expired == {i \in IPs : blocked[i] # Never /\ now > blocked[i]}
Purged(f, none) == [i \in IPs |-> IF i \in Expired THEN none ELSE f[i]]

\* IsBlocked: purges first, and forgets a block that ends at this instant.
IsBlocked(i) == threshold > 0 /\ now < blocked[i]
IsBlockedEffect(i) ==
    IF threshold <= 0 THEN UNCHANGED <<counts, blocked>>
    ELSE /\ counts' = [Purged(counts, {}) EXCEPT ![i] = IF now = blocked[i] THEN {} ELSE @]
         /\ blocked' = [Purged(blocked, Never) EXCEPT ![i] = IF now = blocked[i] THEN Never ELSE @]

\* Mutant: probes never leave the window.
KeptForever(probes) == probes

\* The probes still inside the sliding window.
InWindow(probes) == {c \in probes : rec[c] > now - Window}

\* RecordProbe: a block in force counts nothing; the threshold-th probe in the
\* window starts one.
RecordProbe(c) ==
    LET i == ip[c]
        pruned == InWindow(Purged(counts, {})[i]) \cup {c}
    IN /\ UNCHANGED threshold
       /\ IF threshold <= 0 THEN UNCHANGED <<counts, blocked, rec>>
          ELSE IF now < blocked[i]
          THEN /\ counts' = Purged(counts, {}) /\ blocked' = Purged(blocked, Never)
               /\ UNCHANGED rec
          ELSE /\ rec' = [rec EXCEPT ![c] = now]
               /\ IF Cardinality(pruned) >= threshold
                  THEN /\ blocked' = [Purged(blocked, Never) EXCEPT ![i] = now + Duration]
                       /\ counts' = [Purged(counts, {}) EXCEPT ![i] = {}]
                  ELSE /\ blocked' = Purged(blocked, Never)
                       /\ counts' = [Purged(counts, {}) EXCEPT ![i] = pruned]

\* Runtime.Reload installs a fresh blacklist.
ReplaceBlacklist ==
    /\ \E i \in IPs : counts[i] # {} \/ blocked[i] # Never
    /\ threshold' \in Thresholds
    /\ counts' = [i \in IPs |-> {}]
    /\ blocked' = [i \in IPs |-> Never]
    /\ UNCHANGED <<now, conns, pc, sock, why, cut, rec, stats>>

-----------------------------------------------------------------------------
(* handleConnection *)

\* Mutant: no deadline is set.
Unarmed(c) == UNCHANGED sock

\* SetReadDeadline(time.Now().Add(cfg.HandshakeTimeout()))
Arm(c) == Socket(c, [sock[c] EXCEPT !.deadline = now + HandshakeTimeout])

\* A blocked address is dropped at once, anyone else has HandshakeTimeout.
Begin(c) ==
    /\ pc[c] = "new" /\ now + HandshakeTimeout <= MaxTime
    /\ IsBlockedEffect(ip[c])
    /\ IF IsBlocked(ip[c])
       THEN Closed(c, "none")
       ELSE Goto(c, "first") /\ Arm(c) /\ UNCHANGED why
    /\ UNCHANGED <<now, conns, cut, threshold, rec, stats>>

\* Mutant: the first byte is not recorded for the splice.
PrependPendingOnly == << >>

\* ReadRecorder.Prepend: the byte read before the recorder existed.
Prepend == <<1>>

\* The first byte tells fake TLS, secure mode and the rest apart.
ReadFirst(c) ==
    /\ pc[c] = "first"
    /\ Socket(c, [sock[c] EXCEPT !.pos = 1, !.capture = IF ViaTLS(c) THEN Prepend ELSE @])
    /\ IF ViaTLS(c) \/ "secure" \in Protocols
       THEN Goto(c, IF ViaTLS(c) THEN "hello" ELSE "header") /\ UNCHANGED why
       ELSE Goto(c, "probe") /\ Reason(c, "invalid")
    /\ UNCHANGED <<now, conns, cut, blacklist, stats>>

\* The client closed, or the deadline passed, before the first byte.
FirstFails(c) ==
    /\ pc[c] = "first"
    /\ Closed(c, "none")
    /\ UNCHANGED <<now, conns, cut, blacklist, stats>>

(* handleFakeTLSPath *)

\* Segments up to n have been read, with a new deadline.
Reading(c, n, deadline) ==
    Socket(c, [sock[c] EXCEPT !.pos = n, !.deadline = deadline,
                              !.capture = IF ViaTLS(c) THEN Append(@, n) ELSE @])

\* ParseClientHello, the replay, policy and secret checks, ServerHello.
ReadHello(c) ==
    /\ pc[c] = "hello"
    /\ Reading(c, 2, sock[c].deadline)
    /\ IF kind[c] = "badHello" THEN Goto(c, "reject") /\ Reason(c, "invalid")
       ELSE Goto(c, "inner") /\ UNCHANGED why
    /\ UNCHANGED <<now, conns, cut, blacklist, stats>>

\* Mutant: relayMTProto leaves the handshake deadline on the socket.
KeepDeadline(c) == sock[c].deadline

\* relayMTProto: SetReadDeadline(time.Time{}), before anything is dialled.
ClearDeadline(c) == Never

\* obfuscated2.Handshake inside the TLS records.
ReadInner(c) ==
    /\ pc[c] = "inner"
    /\ IF kind[c] = "ee"
       THEN Goto(c, "dial") /\ Reading(c, 3, ClearDeadline(c)) /\ UNCHANGED why
       ELSE Goto(c, "reject") /\ Reading(c, 3, sock[c].deadline) /\ Reason(c, "invalid")
    /\ UNCHANGED <<now, conns, cut, blacklist, stats>>

\* A read inside the handshake failed: the client went away, or timed out.
HandshakeFails(c, w) ==
    /\ pc[c] \in {"hello", "inner"}
    /\ w = "timeout" => Overdue(c)
    /\ Goto(c, "reject") /\ Reason(c, w)
    /\ UNCHANGED <<now, conns, sock, cut, blacklist, stats>>

\* The error path: every error but a timeout is a probe; handleRejectedTLS
\* then splices with the captured prefix, serves HTTP on what is left of the
\* stream, or redirects.  A mask host that cannot be dialled ends it.
RejectTLS(c) ==
    /\ pc[c] = "reject"
    /\ IF why[c] \in {"timeout", "dialTimeout"} THEN UNCHANGED blacklist ELSE RecordProbe(c)
    /\ \E action \in FrontingActions :
         \/ /\ action = "splice"
            /\ Goto(c, "splice") /\ UNCHANGED why
            /\ Socket(c, [sock[c] EXCEPT !.site = sock[c].capture, !.capture = << >>])
         \/ /\ action \in {"splice", "redirect"}
            /\ Closed(c, "none")
         \/ /\ action = "fallback"
            /\ Goto(c, "fallback") /\ UNCHANGED why
            /\ Socket(c, [sock[c] EXCEPT !.capture = << >>])
    /\ UNCHANGED <<now, conns, cut, stats>>

(* Secure mode and foreign connections *)

\* io.ReadFull of the rest of the header, and MatchSecureHeader.
ReadHeader(c) ==
    /\ pc[c] = "header"
    /\ IF kind[c] = "dd"
       THEN Goto(c, "dial") /\ Reading(c, 2, ClearDeadline(c)) /\ UNCHANGED why
       ELSE Goto(c, "probe") /\ Reading(c, 2, sock[c].deadline) /\ Reason(c, "invalid")
    /\ UNCHANGED <<now, conns, cut, blacklist, stats>>

\* Fewer than 64 bytes came: what was read is gone, a timeout counts as well.
HeaderShort(c, w) ==
    /\ pc[c] = "header"
    /\ w = "timeout" => Overdue(c)
    /\ Reading(c, 2, sock[c].deadline)
    /\ Goto(c, "probe") /\ Reason(c, w)
    /\ UNCHANGED <<now, conns, cut, blacklist, stats>>

\* Not a client of the proxy: recordProbe, then HTTP with the first byte put
\* back in front of what is left on the socket.
Probe(c) ==
    /\ pc[c] = "probe"
    /\ RecordProbe(c)
    /\ Goto(c, "fallback") /\ Socket(c, [sock[c] EXCEPT !.site = <<1>>])
    /\ UNCHANGED <<now, conns, why, cut, stats>>

-----------------------------------------------------------------------------
(* relayMTProto *)

OnConnect(u) ==
    /\ active' = [active EXCEPT ![u] = @ + 1]
    /\ total' = [total EXCEPT ![u] = @ + 1]

\* Mutants: the deferred OnDisconnect is forgotten; it counts the session off
\* twice.
OnDisconnectForgotten(u) == UNCHANGED stats
OnDisconnectTwice(u) == active' = [active EXCEPT ![u] = @ - 2] /\ UNCHANGED total

OnDisconnect(u) == active' = [active EXCEPT ![u] = @ - 1] /\ UNCHANGED total

\* The middle proxy took the TCP connection within DialTimeout: its handshake
\* follows, and that is read without a deadline.
DialMiddle(c) ==
    /\ MiddleProxy /\ pc[c] = "dial"
    /\ Goto(c, "middle")
    /\ UNCHANGED <<now, conns, sock, why, cut, blacklist, stats>>

\* The DC, the relay peer or the middle proxy answered.  What the recorder has
\* captured is not looked at any more.
Connected(c, from) ==
    /\ pc[c] = from
    /\ OnConnect(user[c])
    /\ Goto(c, "relay")
    /\ Socket(c, [NewSock EXCEPT !.deadline = sock[c].deadline])
    /\ UNCHANGED <<now, conns, why, cut, blacklist>>

\* It did not: back to the caller's error path.
DialFails(c, from, w) ==
    /\ pc[c] = from
    /\ Goto(c, IF ViaTLS(c) THEN "reject" ELSE "probe") /\ Reason(c, w)
    /\ UNCHANGED <<now, conns, sock, cut, blacklist, stats>>

\* pipeTraffic returned; AddTraffic, the deferred OnDisconnect.
RelayEnds(c) ==
    /\ pc[c] = "relay"
    /\ OnDisconnect(user[c])
    /\ Closed(c, "served")
    /\ UNCHANGED <<now, conns, cut, blacklist>>

(* Sessions with the mask host or the HTTP site *)

\* The site is given the rest of the stream.
SiteReads(c) ==
    /\ pc[c] \in {"splice", "fallback"} /\ sock[c].pos < Len(Stream)
    /\ Socket(c, [sock[c] EXCEPT !.pos = @ + 1, !.site = Append(@, sock[c].pos + 1)])
    /\ UNCHANGED <<now, conns, pc, why, cut, blacklist, stats>>

\* serveUpstream has read the request and waits in RoundTrip, without a timeout
\* for the answer and whatever the client's deadline is.  The honeypot, which a
\* reload may switch on, never waits.
RequestRead(c) ==
    /\ pc[c] = "fallback"
    /\ Forget(c, "upstream", "none")
    /\ UNCHANGED <<now, conns, cut, blacklist, stats>>

\* Either side ended the splice; the honeypot has its request, or the request
\* cannot be read: a page is sent and the connection is closed.
SiteEnds(c) ==
    /\ pc[c] \in {"splice", "fallback"}
    /\ Closed(c, "none")
    /\ UNCHANGED <<now, conns, cut, blacklist, stats>>

\* The fallback's upstream answered or failed, and the answer is written.
UpstreamEnds(c) ==
    /\ pc[c] = "upstream"
    /\ Closed(c, "none")
    /\ UNCHANGED <<now, conns, cut, blacklist, stats>>

\* A read deadline that is still set ends any session that reads the client.
DeadlineCuts(c) ==
    /\ pc[c] \in {"relay", "splice", "fallback"}
    /\ Overdue(c)
    /\ IF pc[c] = "relay"
       THEN OnDisconnect(user[c]) /\ Closed(c, "served") /\ cut' = cut \cup {c}
       ELSE Closed(c, "none") /\ UNCHANGED <<stats, cut>>
    /\ UNCHANGED <<now, conns, blacklist>>

Tick ==
    /\ now < MaxTime
    /\ now' = now + 1
    /\ UNCHANGED <<conns, pc, sock, why, cut, blacklist, stats>>

\* Steps the proxy takes by itself: the deadline fires, a dial ends (they have
\* timeouts of their own), an error path runs.
DeadlineFires(c) ==
    \/ FirstFails(c) /\ Overdue(c)
    \/ HandshakeFails(c, "timeout") \/ HeaderShort(c, "timeout")
    \/ DeadlineCuts(c)
OwnStep(c) ==
    \/ RejectTLS(c) \/ Probe(c) \/ Connected(c, "dial") \/ DialMiddle(c)
    \/ \E w \in {"dial", "dialTimeout"} : DialFails(c, "dial", w)

ClientStep(c) ==
    \/ Begin(c) \/ ReadFirst(c) \/ FirstFails(c)
    \/ ReadHello(c) \/ ReadInner(c) \/ HandshakeFails(c, "aborted")
    \/ ReadHeader(c) \/ HeaderShort(c, "aborted")
    \/ RelayEnds(c) \/ SiteReads(c) \/ SiteEnds(c) \/ RequestRead(c)

\* The middle proxy answers the handshake, or breaks it off; the fallback's
\* upstream answers, or fails.
PeerStep(c) ==
    Connected(c, "middle") \/ DialFails(c, "middle", "dial") \/ UpstreamEnds(c)

Next ==
    \/ Tick \/ ReplaceBlacklist
    \/ \E c \in Conns : DeadlineFires(c) \/ OwnStep(c) \/ ClientStep(c) \/ PeerStep(c)

Spec == Init /\ [][Next]_vars

\* Time passes and the goroutines run; no client, no middle proxy and no upstream
\* of the fallback needs to send anything.
FairSpec ==
    Spec /\ WF_vars(Tick) /\ \A c \in Conns : WF_vars(DeadlineFires(c) \/ OwnStep(c))

-----------------------------------------------------------------------------
(* Properties *)

TypeOK ==
    /\ now \in 0..MaxTime
    /\ ip \in [Conns -> IPs] /\ user \in [Conns -> Users] /\ kind \in [Conns -> Kinds]
    /\ pc \in [Conns -> {"new", "first", "hello", "inner", "header", "reject", "probe",
                         "dial", "middle", "relay", "splice", "fallback", "upstream",
                         "closed"}]
    /\ sock \in [Conns -> [deadline : Nat \cup {Never}, pos : 0..Len(Stream),
                            capture : Seq(Nat), site : Seq(Nat)]]
    /\ why \in [Conns -> {"none", "invalid", "aborted", "timeout", "dial", "dialTimeout", "served"}]
    /\ cut \subseteq Conns
    /\ threshold \in Thresholds /\ counts \in [IPs -> SUBSET Conns]
    /\ blocked \in [IPs -> Nat \cup {Never}] /\ rec \in [Conns -> Nat \cup {Never}]
    /\ active \in [Users -> Nat] /\ total \in [Users -> Nat]

\* The statistics the admin API shows are exact at every moment, whichever way
\* a connection failed or ended: a user's active connections are the ones in
\* the relay, the total is these and the ones that were.
StatsExact ==
    \A u \in Users :
        LET relayed == {c \in Conns : user[c] = u /\ pc[c] = "relay"}
            served == {c \in Conns : user[c] = u /\ why[c] = "served"}
        IN /\ active[u] = Cardinality(relayed)
           /\ total[u] = Cardinality(relayed) + Cardinality(served)

\* An address is blocked only for threshold probes inside one window that ends
\* when the block begins, over expiries, earlier blocks and reloads.
BlockedJustified ==
    \A i \in IPs : blocked[i] # Never =>
        LET start == blocked[i] - Duration
        IN Cardinality({c \in Conns : /\ ip[c] = i /\ rec[c] # Never
                                      /\ start - Window < rec[c] /\ rec[c] <= start}) >= threshold

\* What a spliced mask host is given is the client's stream from its first
\* byte, with nothing missing, repeated or out of order, at whatever point the
\* handshake was given up.
SpliceInOrder ==
    \A c \in Conns : pc[c] = "splice" => sock[c].site = SubSeq(Stream, 1, sock[c].pos)

\* README.md:16, "посторонние соединения проксируются на сайт-заглушку": the
\* HTTP site is given the request as the foreign client sent it.
FallbackSeesRequest ==
    \A c \in Conns : pc[c] = "fallback" /\ why[c] = "invalid" =>
        sock[c].site = SubSeq(Stream, 1, sock[c].pos)

\* The handshake deadline never ends a relayed session.
RelayOutlivesHandshake == cut = {}

\* However silent, a client cannot hold its goroutine and its slot by itself: it
\* ends up relayed, closed, or waiting for somebody else.  The waits without a
\* deadline are named: a middle proxy that took the connection and never answers
\* the handshake, a fallback upstream that took the request and never answers,
\* and, after a failed dial, a site session with the deadline already cleared.
HandshakeBounded ==
    \A c \in Conns :
        []<>(\/ pc[c] \in {"new", "relay", "closed", "middle", "upstream"}
             \/ why[c] \in {"dial", "dialTimeout"})

-----------------------------------------------------------------------------
(* The inductive invariant behind the safety properties. *)

\* A connection is served only once, at its end.
StatsInv == StatsExact /\ \A c \in Conns : why[c] = "served" => pc[c] = "closed"

\* What a goroutine knows of its socket at each step: the recorder of the
\* fake-TLS path has everything that was read, and relayMTProto has cleared the
\* deadline before it dials.
SockInv ==
    \A c \in Conns :
        /\ pc[c] = "hello" => sock[c].pos = 1
        /\ pc[c] = "inner" => sock[c].pos = 2
        /\ pc[c] \in {"hello", "inner", "reject"} => ViaTLS(c)
        /\ pc[c] \in {"hello", "inner", "reject", "dial", "middle"} /\ ViaTLS(c) =>
             sock[c].capture = SubSeq(Stream, 1, sock[c].pos)
        /\ pc[c] \in {"dial", "middle", "relay"} => sock[c].deadline = Never

\* A connection is counted as a probe at most once, when its handshake is over,
\* under its own address, and never ahead of the clock.
ProbeInv ==
    /\ \A c \in Conns : rec[c] # Never => pc[c] \in {"splice", "fallback", "upstream", "closed"}
    /\ \A i \in IPs : \A c \in counts[i] : ip[c] = i /\ rec[c] # Never /\ rec[c] <= now

HandlerInv ==
    /\ TypeOK /\ StatsInv /\ SockInv /\ ProbeInv
    /\ BlockedJustified /\ SpliceInOrder /\ RelayOutlivesHandshake
=============================================================================
