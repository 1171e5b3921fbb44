------------------------- MODULE ListenerLifecycle -------------------------
(***************************************************************************)
(* The listening socket of the proxy: Server.Serve (accept loop and the    *)
(* goroutine that closes the listener on ctx.Done), RebindListenIfNeeded   *)
(* called by concurrent admin requests, Server.Shutdown, and the select of *)
(* cmd/proxy/main.go that decides how the process ends.  With              *)
(* listen.proxy_protocol the accept loop itself reads the PROXY preamble   *)
(* of each connection (acceptWithProxyProtocol).                           *)
(*                                                                         *)
(* With relay.mode "back" Serve listens on relay.listen_* instead, and     *)
(* ServeBack accepts on that listener, which is never s.ln: a rebind then  *)
(* opens a listener of its own, on which nobody accepts.                   *)
(*                                                                         *)
(* s.ln is guarded by lnMu only for the length of one read or one store,   *)
(* so every read-then-act sequence below is several steps.                 *)
(***************************************************************************)
EXTENDS Integers, FiniteSets

CONSTANTS
    Addrs,          \* listen.host and listen.port in use: [host, port]
    RelayAddrs,     \* relay.listen_host and relay.listen_port in use
    Modes,          \* subset of {"proxy", "back"}: relay.mode "back" or not
    Preambles,      \* values of listen.proxy_protocol, which every reload may change
    Reqs,           \* admin requests that change or reload the listen address
    Conns           \* TCP connections; each one arrives once

ASSUME ConnsFinite == IsFiniteSet(Conns)
ASSUME ModesAssumption == Modes \subseteq {"proxy", "back"}
ASSUME PreamblesAssumption == Preambles \subseteq BOOLEAN

First == "first"                        \* the listener Serve itself opens
Listeners == {First} \cup Reqs          \* a request opens at most one
Nil == "nil"
NoAddr == [host |-> Nil, port |-> 0]
Unset == "unset"                        \* this request replaced no listener

ASSUME NamesFresh == {Nil, Unset, First} \cap Reqs = {}

VARIABLES
    mode,       \* relay.mode of the start-up configuration
    cfgAddr,    \* Runtime.Config.Addr()
    addr,       \* listener -> address it was opened on
    open,       \* listeners whose socket is open
    ln,         \* Server.ln
    loop,       \* program counter of Serve; "skipped": it returned at once
    loopLn,     \* listener the accept loop works with; Nil outside Accept
    loopConn,   \* connection between Accept and "go func"
    conn,       \* connection -> state
    wg,         \* Server.wg
    ctxDone,    \* the signal context is cancelled
    closer,     \* program counter of the ctx.Done goroutine
    closerLn,
    main,       \* program counter of runServer after the goroutines started
    shutLn,
    rpc,        \* request -> program counter
    want,       \* request -> address RebindListenIfNeeded read; NoAddr before and after
    old,        \* request -> listener it replaced; afterwards only whether it was nil
    last,       \* outcome of the rebind that finished last
    overlap     \* history: some request did not wait for start-up and replies

serveVars == <<loop, loopLn, loopConn, conn, wg>>
stopVars == <<ctxDone, closer, closerLn, main, shutLn>>
reqVars == <<cfgAddr, rpc, want, old, last, overlap>>
sockVars == <<addr, open, ln>>
vars == <<mode, serveVars, stopVars, reqVars, sockVars>>

Exited == {"exit0", "exit1", "exitEarly", "panic"}
Started == loop \notin {"listen", "store", "failed", "skipped"}
InFlight(r) == rpc[r] \notin {"idle", "done"}
Quiet == \A r \in Reqs : ~InFlight(r)

Init ==
    /\ mode \in Modes
    /\ cfgAddr \in Addrs
    /\ addr = [l \in Listeners |-> NoAddr]
    /\ open = {} /\ ln = Nil
    /\ loop = "listen" /\ loopLn = Nil /\ loopConn = Nil
    /\ conn = [c \in Conns |-> "new"] /\ wg = 0
    /\ ctxDone = FALSE
    /\ closer = "wait" /\ closerLn = Nil
    /\ main = "starting" /\ shutLn = Nil
    /\ rpc = [r \in Reqs |-> "idle"]
    /\ want = [r \in Reqs |-> NoAddr]
    /\ old = [r \in Reqs |-> Unset]
    /\ last = "none" /\ overlap = FALSE

-----------------------------------------------------------------------------
(* Sockets.  The kernel refuses a second listener on the same port when    *)
(* the hosts are equal or one of them is the wildcard.                     *)

\* normalizeListenAddr: every spelling of the wildcard host becomes "*".
normalizeListenAddr(a) ==
    [a EXCEPT !.host = IF @ \in {"", "0.0.0.0", "::", "::0"} THEN "*" ELSE @]
listenAddrsEqual(a, b) == normalizeListenAddr(a) = normalizeListenAddr(b)

CanBind(a) ==
    \A l \in open :
        LET x == normalizeListenAddr(a)
            y == normalizeListenAddr(addr[l])
        IN ~(x.port = y.port /\ (x.host = y.host \/ "*" \in {x.host, y.host}))

Close(l) == open' = open \ {l}

-----------------------------------------------------------------------------
(* Server.Serve *)

\* net.Listen; a failure is returned, and reaches main through errCh.
ServeListen ==
    /\ loop = "listen" /\ mode = "proxy"
    /\ IF CanBind(cfgAddr)
       THEN /\ open' = open \cup {First}
            /\ addr' = [addr EXCEPT ![First] = cfgAddr]
            /\ loop' = "store"
       ELSE loop' = "failed" /\ UNCHANGED <<open, addr>>
    /\ UNCHANGED <<mode, ln, loopLn, loopConn, conn, wg, stopVars, reqVars>>

\* The key is bad or net.Listen fails; a reload has left back mode since Serve
\* looked, and Serve returns nil; or ServeBack gets a listener on relay.listen_*.
serveRelayBack ==
    /\ loop = "listen" /\ mode = "back"
    /\ \/ loop' = "failed" /\ UNCHANGED <<open, addr>>
       \/ /\ \E r \in Reqs : rpc[r] # "idle"
          /\ loop' = "skipped" /\ UNCHANGED <<open, addr>>
       \/ \E a \in RelayAddrs :
            /\ CanBind(a)
            /\ open' = open \cup {First}
            /\ addr' = [addr EXCEPT ![First] = a]
            /\ loop' = "read"
    /\ UNCHANGED <<mode, ln, loopLn, loopConn, conn, wg, stopVars, reqVars>>

\* s.ln = ln.
ServeStore ==
    /\ loop = "store"
    /\ ln' = First
    /\ loop' = "read"
    /\ UNCHANGED <<mode, addr, open, loopLn, loopConn, conn, wg, stopVars, reqVars>>

\* acceptListener
LoopRead ==
    /\ loop = "read"
    /\ loopLn' = IF mode = "back" THEN First ELSE ln
    /\ loop' = "accept"
    /\ UNCHANGED <<mode, loopConn, conn, wg, stopVars, reqVars, sockVars>>

\* The loop reads listen.proxy_protocol anew for each connection; ServeBack does
\* not look at it.
LoopAccept(c) ==
    /\ loop = "accept" /\ loopLn \in open
    /\ conn[c] = "new"
    /\ conn' = [conn EXCEPT ![c] = "window"]
    /\ loopConn' = c
    /\ \E p \in Preambles :
         loop' = IF p /\ mode = "proxy" THEN "preamble" ELSE "got"
    /\ loopLn' = Nil
    /\ UNCHANGED <<mode, wg, stopVars, reqVars, sockVars>>

\* Accept failed, because the listener is closed or for a passing reason: go
\* round again, unless the context is done.
LoopAcceptFails ==
    /\ loop = "accept"
    /\ loop' = IF ~ctxDone THEN "read"
               ELSE IF mode = "back" THEN "returned" ELSE "waiting"
    /\ loopLn' = Nil
    /\ UNCHANGED <<mode, loopConn, conn, wg, stopVars, reqVars, sockVars>>

\* acceptWithProxyProtocol has peeked at something else than "PROXY ", at the
\* end of the stream, or has read the line: the connection is served.  Until
\* the client sends or closes, the loop stays here.
PreambleRead ==
    /\ loop = "preamble"
    /\ loop' = "got"
    /\ UNCHANGED <<mode, loopLn, loopConn, conn, wg, stopVars, reqVars, sockVars>>

\* A read error or a malformed line: acceptWithProxyProtocol returns nil in
\* place of the connection, and the loop calls Close on it.
PreambleFails ==
    /\ loop = "preamble"
    /\ main' = "panic"
    /\ UNCHANGED <<mode, ctxDone, closer, closerLn, shutLn, serveVars, reqVars, sockVars>>

\* Per-IP limit: the connection is closed, not counted.
LoopRefuses ==
    /\ loop = "got" /\ mode = "proxy"
    /\ conn' = [conn EXCEPT ![loopConn] = "done"]
    /\ loop' = "read" /\ loopConn' = Nil
    /\ UNCHANGED <<mode, loopLn, wg, stopVars, reqVars, sockVars>>

\* Mutant: the goroutine is started without wg.Add(1).
LoopSpawnsUncounted ==
    /\ loop = "got"
    /\ conn' = [conn EXCEPT ![loopConn] = "active"]
    /\ UNCHANGED wg
    /\ loop' = "read" /\ loopConn' = Nil
    /\ UNCHANGED <<mode, loopLn, stopVars, reqVars, sockVars>>

\* wg.Add(1); go func.  ServeBack starts its goroutines without the group.
LoopSpawns ==
    /\ loop = "got"
    /\ conn' = [conn EXCEPT ![loopConn] = "active"]
    /\ wg' = IF mode = "back" THEN wg ELSE wg + 1
    /\ loop' = "read" /\ loopConn' = Nil
    /\ UNCHANGED <<mode, loopLn, stopVars, reqVars, sockVars>>

\* Mutant: wg.Done runs twice.
ConnEndsTwice(c) ==
    /\ conn[c] = "active"
    /\ conn' = [conn EXCEPT ![c] = "done"]
    /\ wg' = IF mode = "back" THEN wg ELSE wg - 2
    /\ UNCHANGED <<mode, loop, loopLn, loopConn, stopVars, reqVars, sockVars>>

\* handleConnection returned; "defer s.wg.Done()".
ConnEnds(c) ==
    /\ conn[c] = "active"
    /\ conn' = [conn EXCEPT ![c] = "done"]
    /\ wg' = IF mode = "back" THEN wg ELSE wg - 1
    /\ UNCHANGED <<mode, loop, loopLn, loopConn, stopVars, reqVars, sockVars>>

LoopWaited ==
    /\ loop = "waiting" /\ wg = 0
    /\ loop' = "returned"
    /\ UNCHANGED <<mode, loopLn, loopConn, conn, wg, stopVars, reqVars, sockVars>>

\* The goroutine waiting for ctx.Done reads s.ln (in back mode: its own
\* listener), then closes what it read.
CloserRead ==
    /\ ctxDone /\ closer = "wait" /\ Started
    /\ closerLn' = IF mode = "back" THEN First ELSE ln
    /\ closer' = "close"
    /\ UNCHANGED <<mode, ctxDone, main, shutLn, serveVars, reqVars, sockVars>>

CloserClose ==
    /\ closer = "close"
    /\ Close(closerLn)
    /\ closer' = "done" /\ closerLn' = Nil
    /\ UNCHANGED <<mode, addr, ln, ctxDone, main, shutLn, serveVars, reqVars>>

-----------------------------------------------------------------------------
(* An admin request: UpdateSettings or Reload, then RebindListenIfNeeded.  *)

\* The new address becomes part of Runtime.Config.  http.Server.Shutdown stops
\* taking requests once the context is done.
ApplyConfig(r, a) ==
    /\ rpc[r] = "idle" /\ ~ctxDone
    /\ cfgAddr' = a
    /\ overlap' = (overlap \/ ~Started \/ \E q \in Reqs : InFlight(q))
    /\ rpc' = [rpc EXCEPT ![r] = "want"]
    /\ UNCHANGED <<mode, want, old, last, serveVars, stopVars, sockVars>>

\* want := s.rt.Snapshot().Addr()
RebindWant(r) ==
    /\ rpc[r] = "want"
    /\ want' = [want EXCEPT ![r] = cfgAddr]
    /\ rpc' = [rpc EXCEPT ![r] = "compare"]
    /\ UNCHANGED <<mode, cfgAddr, old, last, overlap, serveVars, stopVars, sockVars>>

\* RebindListenIfNeeded returns, and the request is answered.
Replied(r, outcome) ==
    /\ rpc' = [rpc EXCEPT ![r] = "done"]
    /\ want' = [want EXCEPT ![r] = NoAddr]
    /\ last' = outcome

\* Mutant: a listener on the same port counts as the wanted one.
RebindComparePort(r) ==
    /\ rpc[r] = "compare"
    /\ IF ln # Nil /\ addr[ln].port = want[r].port
       THEN Replied(r, "noop")
       ELSE rpc' = [rpc EXCEPT ![r] = "listen"] /\ UNCHANGED <<want, last>>
    /\ UNCHANGED <<mode, cfgAddr, old, overlap, serveVars, stopVars, sockVars>>

\* cur := s.ln; nothing to do when it is already at the wanted address.
RebindCompare(r) ==
    /\ rpc[r] = "compare"
    /\ IF ln # Nil /\ listenAddrsEqual(addr[ln], want[r])
       THEN Replied(r, "noop")
       ELSE rpc' = [rpc EXCEPT ![r] = "listen"] /\ UNCHANGED <<want, last>>
    /\ UNCHANGED <<mode, cfgAddr, old, overlap, serveVars, stopVars, sockVars>>

\* net.Listen(want); a failure is returned, and only reported in the reply.
RebindListen(r) ==
    /\ rpc[r] = "listen"
    /\ IF CanBind(want[r])
       THEN /\ open' = open \cup {r}
            /\ addr' = [addr EXCEPT ![r] = want[r]]
            /\ rpc' = [rpc EXCEPT ![r] = "swap"]
            /\ UNCHANGED <<want, last>>
       ELSE Replied(r, "error") /\ UNCHANGED <<open, addr>>
    /\ UNCHANGED <<mode, ln, cfgAddr, old, overlap, serveVars, stopVars>>

\* old := s.ln; s.ln = newLn, under lnMu.
RebindSwap(r) ==
    /\ rpc[r] = "swap"
    /\ old' = [old EXCEPT ![r] = ln]
    /\ ln' = r
    /\ rpc' = [rpc EXCEPT ![r] = "close"]
    /\ UNCHANGED <<mode, addr, open, cfgAddr, want, last, overlap, serveVars, stopVars>>

\* Mutant: the replaced listener is not closed.
RebindKeepsOld(r) ==
    /\ rpc[r] = "close"
    /\ Replied(r, "ok")
    /\ UNCHANGED <<mode, open, addr, ln, cfgAddr, old, overlap, serveVars, stopVars>>

RebindClose(r) ==
    /\ rpc[r] = "close"
    /\ Close(old[r])
    /\ Replied(r, "ok")
    /\ old' = [old EXCEPT ![r] = IF @ = Nil THEN Nil ELSE Unset]
    /\ UNCHANGED <<mode, addr, ln, cfgAddr, overlap, serveVars, stopVars>>

-----------------------------------------------------------------------------
(* runServer and Server.Shutdown *)

\* main reaches its select.  If the context is already done, the select may
\* just as well take a nil from errCh (the admin or metrics server stopped):
\* runServer then returns without calling Shutdown.
MainSelects ==
    /\ main = "starting"
    /\ main' \in IF ctxDone THEN {"shutdown", "exitEarly"} ELSE {"select"}
    /\ UNCHANGED <<mode, ctxDone, closer, closerLn, shutLn, serveVars, reqVars, sockVars>>

\* Serve ended without a signal: an error is os.Exit(1), a nil ends runServer.
MainServeEnds ==
    /\ loop \in {"failed", "skipped"} /\ main \in {"starting", "select"}
    /\ main' = IF loop = "failed" THEN "exit1" ELSE "exitEarly"
    /\ UNCHANGED <<mode, ctxDone, closer, closerLn, shutLn, serveVars, reqVars, sockVars>>

\* SIGINT or SIGTERM.  A main that is blocked in the select wakes up in the
\* ctx.Done branch.
Signal ==
    /\ ~ctxDone
    /\ ctxDone' = TRUE
    /\ main' = IF main = "select" THEN "shutdown" ELSE main
    /\ UNCHANGED <<mode, closer, closerLn, shutLn, serveVars, reqVars, sockVars>>

ShutdownRead ==
    /\ main = "shutdown"
    /\ shutLn' = ln
    /\ main' = "closing"
    /\ UNCHANGED <<mode, ctxDone, closer, closerLn, serveVars, reqVars, sockVars>>

ShutdownClose ==
    /\ main = "closing"
    /\ Close(shutLn)
    /\ main' = "draining" /\ shutLn' = Nil
    /\ UNCHANGED <<mode, addr, ln, ctxDone, closer, closerLn, serveVars, reqVars>>

\* wg.Wait returned before the 10 s timeout.
ShutdownDone ==
    /\ main = "draining" /\ wg = 0
    /\ main' = "exit0"
    /\ UNCHANGED <<mode, ctxDone, closer, closerLn, shutLn, serveVars, reqVars, sockVars>>

ShutdownTimeout ==
    /\ main = "draining" /\ wg > 0
    /\ main' = "exit1"
    /\ UNCHANGED <<mode, ctxDone, closer, closerLn, shutLn, serveVars, reqVars, sockVars>>

-----------------------------------------------------------------------------
Serve ==
    \/ ServeListen \/ serveRelayBack \/ ServeStore \/ LoopRead \/ LoopAcceptFails
    \/ PreambleRead \/ PreambleFails \/ LoopRefuses \/ LoopSpawns \/ LoopWaited
    \/ \E c \in Conns : LoopAccept(c) \/ ConnEnds(c)

Request(r) ==
    \/ \E a \in Addrs : ApplyConfig(r, a)
    \/ RebindWant(r) \/ RebindCompare(r) \/ RebindListen(r)
    \/ RebindSwap(r) \/ RebindClose(r)

Stop ==
    \/ MainSelects \/ MainServeEnds \/ Signal \/ CloserRead \/ CloserClose
    \/ ShutdownRead \/ ShutdownClose \/ ShutdownDone \/ ShutdownTimeout

\* Once main returned, the process and everything in it is gone.
Next ==
    /\ main \notin Exited
    /\ Serve \/ Stop \/ \E r \in Reqs : Request(r)

Spec == Init /\ [][Next]_vars

\* Goroutines that can run do run; Accept on a closed listener fails; a
\* connection past its preamble gets through to "go func".  No signal, request,
\* client or preamble has to come, no session has to end, and Accept on an open
\* listener need not return.
Fairness ==
    /\ WF_vars(main \notin Exited /\ (ServeListen \/ serveRelayBack \/ ServeStore \/ LoopRead))
    /\ WF_vars(main \notin Exited /\ loopLn \notin open /\ LoopAcceptFails)
    /\ WF_vars(main \notin Exited /\ (LoopRefuses \/ LoopSpawns))
    /\ \A r \in Reqs :
         WF_vars(/\ main \notin Exited
                 /\ \/ RebindWant(r) \/ RebindCompare(r) \/ RebindListen(r)
                    \/ RebindSwap(r) \/ RebindClose(r))

FairSpec == Spec /\ Fairness

-----------------------------------------------------------------------------
(* Properties *)

Phases == {"listen", "failed", "skipped", "store", "read", "accept", "preamble", "got",
           "waiting", "returned"}

TypeOK ==
    /\ mode \in Modes
    /\ cfgAddr \in Addrs
    /\ addr \in [Listeners -> Addrs \cup RelayAddrs \cup {NoAddr}]
    /\ open \subseteq Listeners
    /\ ln \in Listeners \cup {Nil}
    /\ loop \in Phases
    /\ loopLn \in Listeners \cup {Nil}
    /\ loopConn \in Conns \cup {Nil}
    /\ conn \in [Conns -> {"new", "window", "active", "done"}]
    /\ wg \in Nat
    /\ ctxDone \in BOOLEAN
    /\ closer \in {"wait", "close", "done"}
    /\ closerLn \in Listeners \cup {Nil}
    /\ main \in {"starting", "select", "shutdown", "closing", "draining"} \cup Exited
    /\ shutLn \in Listeners \cup {Nil}
    /\ rpc \in [Reqs -> {"idle", "want", "compare", "listen", "swap", "close", "done"}]
    /\ want \in [Reqs -> Addrs \cup {NoAddr}]
    /\ old \in [Reqs -> Listeners \cup {Nil, Unset}]
    /\ last \in {"none", "noop", "ok", "error"}
    /\ overlap \in BOOLEAN

\* A listener somebody is about to store or to close.
Owned(l) ==
    \/ (l = First /\ (loop = "store" \/ mode = "back"))
    \/ \E r \in Reqs : \/ (rpc[r] = "swap" /\ l = r)
                       \/ (rpc[r] = "close" /\ l = old[r])

\* A rebind stored its listener before Serve stored the first one.
StartOvertaken == mode = "proxy" /\ \E r \in Reqs : old[r] = Nil

\* Concurrent rebinds, the shutdown and the accept loop leak no socket: an
\* open listener is s.ln, or some goroutine is about to store or close it.
\* (A rebind that overtakes the start-up of Serve is the exception.)
NoListenerLeak == ~StartOvertaken => \A l \in open : (l = ln \/ Owned(l))

\* Connections accepted and not finished.
Unfinished == {c \in Conns : conn[c] \in {"window", "active"}}

\* What graceful shutdown does deliver: Serve returns with no connection
\* unfinished, and a process that exits with status 0 through Shutdown leaves
\* behind at most the one connection the accept loop had not counted yet.
DrainedOnExit ==
    mode = "proxy" =>
        /\ loop = "returned" => Unfinished = {}
        /\ main = "exit0" => Unfinished \subseteq {loopConn}

\* docs/CONFIG.md:232: a changed listen address is applied without a restart.
\* To an administrator who waits for start-up and for each reply: once no
\* request is in flight, if the rebind that finished last reported no error and
\* nobody stops the proxy, s.ln is open on the address that is configured, the
\* accept loop runs, and if it waits in Accept of an open listener, it is that
\* one.  (In back mode the loop is ServeBack's, which no rebind reaches.)
AckedIsServed ==
    mode = "proxy" /\ ~ctxDone /\ Quiet /\ last \in {"ok", "noop"} /\ ~overlap =>
        /\ ln \in open /\ listenAddrsEqual(addr[ln], cfgAddr)
        /\ loop \in {"read", "accept", "preamble", "got"}
        /\ loop = "accept" /\ loopLn \in open => loopLn = ln

\* The accept loop follows s.ln: once started and as long as the proxy is not
\* stopping, it comes back to s.ln again and again and does not stay on a
\* listener that a rebind has replaced, unless a client keeps it waiting for a
\* PROXY preamble.
LoopFollowsListener ==
    []<>(Started /\ mode = "proxy" =>
            loopLn = ln \/ loop = "preamble" \/ ctxDone \/ main \in Exited)

\* docs/ARCHITECTURE.md:152: the process ends by a signal, the listener is
\* closed and active connections are waited for.  A preamble that cannot be
\* read costs its own connection ("conn.Close(); continue"), not the process.
PreambleCostsOneConnection == main # "panic"

-----------------------------------------------------------------------------
(* Inductive invariants behind NoListenerLeak, DrainedOnExit and           *)
(* AckedIsServed.                                                          *)

\* Unless a rebind overtook it, Serve stores into an empty s.ln.
LeakInv ==
    /\ loop = "store" => mode = "proxy"
    /\ \A r \in Reqs : rpc[r] \notin {"close", "done"} => old[r] = Unset
    /\ mode = "proxy" /\ loop \in {"listen", "store"} /\ ~StartOvertaken => ln = Nil
    /\ NoListenerLeak

Active == {c \in Conns : conn[c] = "active"}

\* The wait group counts the active connections, and the only connection it
\* does not count yet is the one in the hands of the accept loop.
DrainInv ==
    /\ \A c \in Conns : conn[c] = "window" => loop \in {"preamble", "got"} /\ c = loopConn
    /\ loop \in {"preamble", "got"} => loopConn \in Conns /\ conn[loopConn] = "window"
    /\ mode = "proxy" =>
         /\ wg = Cardinality(Active)
         /\ loop = "returned" \/ main = "exit0" => Active = {}

\* As long as the administrator waits: one request at a time, none before
\* start-up, and the one in flight works on the address that is configured.
WaitingInv ==
    ~overlap =>
        /\ \A q, r \in Reqs : InFlight(q) /\ InFlight(r) => q = r
        /\ ~Started => last = "none" /\ Quiet
        /\ \A r \in Reqs :
             /\ rpc[r] \in {"compare", "listen", "swap"} => want[r] = cfgAddr
             /\ rpc[r] \in {"swap", "close"} => addr[r] = cfgAddr
             /\ rpc[r] = "close" => ln = r
        /\ Quiet /\ last \in {"ok", "noop"} =>
             ln # Nil /\ listenAddrsEqual(addr[ln], cfgAddr)

\* In proxy mode s.ln is never empty again, only a stopping proxy leaves the
\* loop, and as long as the administrator waits nobody closes the listener that
\* is, or is about to be, s.ln: a rebind closes the one before its own.
ServedInv ==
    /\ \/ loop \in {"waiting", "returned"} \/ closer # "wait"
       \/ main \in {"shutdown", "closing", "draining"}
       => ctxDone
    /\ mode = "proxy" =>
         /\ loop # "skipped" /\ (Started => ln # Nil)
         /\ ~overlap =>
              /\ \A r \in Reqs : /\ old[r] # Nil
                                 /\ ln = r => rpc[r] \in {"close", "done"}
                                 /\ rpc[r] = "close" => old[r] # r
              /\ ~ctxDone =>
                   /\ loop = "store" => First \in open
                   /\ Started => ln \in open
                   /\ \A r \in Reqs : rpc[r] = "swap" => r \in open
=============================================================================
