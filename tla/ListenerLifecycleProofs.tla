---------------------- MODULE ListenerLifecycleProofs ----------------------
(***************************************************************************)
(* Proofs about ListenerLifecycle, for any number of concurrent admin      *)
(* requests, connections and addresses.                                    *)
(***************************************************************************)
EXTENDS ListenerLifecycle, FiniteSetTheorems, TLAPS

LEMMA ActiveFinite == IsFiniteSet(Active) /\ Cardinality(Active) \in Nat
  <1>1. Active \subseteq Conns
    BY DEF Active
  <1> QED
    BY <1>1, ConnsFinite, FS_Subset, FS_CardinalityType

LEMMA InitInv == Init => TypeOK /\ LeakInv /\ DrainInv
  <1> SUFFICES ASSUME Init PROVE TypeOK /\ LeakInv /\ DrainInv
    OBVIOUS
  <1>1. TypeOK
    BY DEF Init, TypeOK, Listeners, Phases, Exited, NoAddr
  <1>2. LeakInv
    BY DEF Init, LeakInv, NoListenerLeak
  <1>3. DrainInv
    <2>1. Active = {}
      BY DEF Init, Active
    <2> QED BY <2>1, FS_EmptySet DEF Init, DrainInv
  <1> QED BY <1>1, <1>2, <1>3

-----------------------------------------------------------------------------
(* No socket leaks. *)

LEMMA NextLeakInv ==
    TypeOK /\ LeakInv /\ [Next]_vars => LeakInv'
  <1> SUFFICES ASSUME TypeOK, LeakInv, [Next]_vars PROVE LeakInv'
    OBVIOUS
  <1> USE ModesAssumption, PreamblesAssumption, NamesFresh DEF TypeOK, LeakInv, NoListenerLeak,
        StartOvertaken, Owned, Listeners, Phases, Exited,
        serveVars, stopVars, reqVars, sockVars, Close, Replied
  <1>1. CASE ServeListen \/ serveRelayBack
    BY <1>1 DEF ServeListen, serveRelayBack
  <1>2. CASE ServeStore
    BY <1>2 DEF ServeStore
  <1>3. CASE \/ LoopRead \/ LoopAcceptFails \/ PreambleRead \/ PreambleFails
             \/ LoopRefuses \/ LoopSpawns \/ LoopWaited
    BY <1>3 DEF LoopRead, LoopAcceptFails, PreambleRead, PreambleFails, LoopRefuses,
                LoopSpawns, LoopWaited
  <1>4. ASSUME NEW c \in Conns, LoopAccept(c) \/ ConnEnds(c) PROVE LeakInv'
    BY <1>4 DEF LoopAccept, ConnEnds
  <1>5. CASE CloserRead \/ CloserClose
    BY <1>5 DEF CloserRead, CloserClose
  <1>6. ASSUME NEW r \in Reqs, NEW a \in Addrs, ApplyConfig(r, a) PROVE LeakInv'
    BY <1>6 DEF ApplyConfig
  <1>7. ASSUME NEW r \in Reqs, RebindWant(r) \/ RebindCompare(r) PROVE LeakInv'
    BY <1>7 DEF RebindWant, RebindCompare
  <1>8. ASSUME NEW r \in Reqs, RebindListen(r) PROVE LeakInv'
    BY <1>8 DEF RebindListen
  <1>9. ASSUME NEW r \in Reqs, RebindSwap(r) PROVE LeakInv'
    <2>1. \A q \in Reqs : old[q] = Nil => old'[q] = Nil
      BY <1>9 DEF RebindSwap, Nil, Unset
    <2>2. old'[r] = ln /\ ln' = r /\ rpc'[r] = "close" /\ open' = open
      BY <1>9 DEF RebindSwap
    <2>3. \A q \in Reqs \ {r} : old'[q] = old[q] /\ rpc'[q] = rpc[q]
      BY <1>9 DEF RebindSwap
    <2>4. UNCHANGED <<loop, mode>>
      BY <1>9 DEF RebindSwap
    <2>5. StartOvertaken => StartOvertaken'
      BY <2>1, <2>4
    <2>6. mode = "proxy" /\ ln = Nil => StartOvertaken'
      BY <2>2, <2>4
    <2>7. ASSUME ~StartOvertaken, NEW l \in open PROVE l = ln' \/ Owned(l)'
      <3>1. CASE l = ln
        BY <3>1, <2>2
      <3>2. CASE Owned(l)
        BY <3>2, <2>2, <2>3, <2>4, <1>9 DEF RebindSwap
      <3> QED BY <2>7, <3>1, <3>2
    <2> HIDE DEF StartOvertaken, Owned
    <2>8. NoListenerLeak'
      BY <2>2, <2>5, <2>7
    <2>9. \A q \in Reqs : rpc'[q] \notin {"close", "done"} => old'[q] = Unset
      BY <2>2, <2>3
    <2> QED BY <2>2, <2>4, <2>5, <2>6, <2>8, <2>9
  <1>10. ASSUME NEW r \in Reqs, RebindClose(r) PROVE LeakInv'
    BY <1>10 DEF RebindClose
  <1>11. CASE MainSelects \/ MainServeEnds \/ Signal \/ ShutdownRead
    BY <1>11 DEF MainSelects, MainServeEnds, Signal, ShutdownRead
  <1>12. CASE ShutdownClose \/ ShutdownDone \/ ShutdownTimeout
    BY <1>12 DEF ShutdownClose, ShutdownDone, ShutdownTimeout
  <1>13. CASE UNCHANGED vars
    BY <1>13 DEF vars
  <1> QED
    BY <1>1, <1>2, <1>3, <1>4, <1>5, <1>6, <1>7, <1>8, <1>9, <1>10, <1>11,
       <1>12, <1>13 DEF Next, Serve, Stop, Request

-----------------------------------------------------------------------------
(* The wait group. *)

\* Steps that touch neither a connection nor the wait group.
Still == UNCHANGED <<mode, conn, wg>>

LEMMA NextDrainInv == TypeOK /\ DrainInv /\ [Next]_vars => DrainInv'
  <1> SUFFICES ASSUME TypeOK, DrainInv, [Next]_vars PROVE DrainInv'
    OBVIOUS
  <1>t. /\ conn \in [Conns -> {"new", "window", "active", "done"}]
        /\ wg \in Nat /\ IsFiniteSet(Active) /\ Cardinality(Active) \in Nat
    BY ActiveFinite DEF TypeOK
  <1> USE ModesAssumption, PreamblesAssumption
      DEF DrainInv, serveVars, stopVars, reqVars, sockVars, Exited, Replied
  <1>1. ASSUME Still, Active' = Active, UNCHANGED <<loop, loopConn, main>>
        PROVE  DrainInv'
    BY <1>1 DEF Still
  <1>2. ASSUME NEW c \in Conns, LoopAccept(c), main \notin Exited PROVE DrainInv'
    <2>1. Active' = Active
      BY <1>2, <1>t DEF LoopAccept, Active
    <2> QED BY <1>2, <1>t, <2>1 DEF LoopAccept
  <1>3. ASSUME LoopRefuses, main \notin Exited PROVE DrainInv'
    <2>1. Active' = Active
      BY <1>3, <1>t DEF LoopRefuses, Active
    <2> QED BY <1>3, <1>t, <2>1 DEF LoopRefuses
  <1>4. ASSUME LoopSpawns, main \notin Exited PROVE DrainInv'
    <2>1. loopConn \in Conns /\ loopConn \notin Active
      BY <1>4 DEF LoopSpawns, Active
    <2>2. Active' = Active \cup {loopConn}
      BY <1>4, <1>t, <2>1 DEF LoopSpawns, Active
    <2>3. Cardinality(Active') = Cardinality(Active) + 1
      BY <1>t, <2>1, <2>2, FS_AddElement
    <2> QED BY <1>4, <1>t, <2>3 DEF LoopSpawns
  <1>5. ASSUME NEW c \in Conns, ConnEnds(c), main \notin Exited PROVE DrainInv'
    <2>1. c \in Active
      BY <1>5 DEF ConnEnds, Active
    <2>2. Active' = Active \ {c}
      BY <1>5, <1>t DEF ConnEnds, Active
    <2>3. Cardinality(Active') = Cardinality(Active) - 1
      BY <1>t, <2>1, <2>2, FS_RemoveElement
    <2> QED BY <1>5, <1>t, <2>1, <2>2, <2>3 DEF ConnEnds
  <1>6. ASSUME LoopWaited, main \notin Exited PROVE DrainInv'
    <2>1. Active' = Active
      BY <1>6 DEF LoopWaited, Active
    <2>2. wg = 0 /\ mode = "proxy" => Active = {}
      BY <1>t, FS_EmptySet
    <2> QED BY <1>6, <2>1, <2>2 DEF LoopWaited
  <1>7. ASSUME ShutdownDone, main \notin Exited PROVE DrainInv'
    <2>1. Active' = Active
      BY <1>7 DEF ShutdownDone, Active
    <2>2. wg = 0 /\ mode = "proxy" => Active = {}
      BY <1>t, FS_EmptySet
    <2> QED BY <1>7, <2>1, <2>2 DEF ShutdownDone
  <1>8. ASSUME \/ ServeListen \/ serveRelayBack \/ ServeStore
               \/ LoopRead \/ LoopAcceptFails,
               main \notin Exited
        PROVE  DrainInv'
    <2>1. Active' = Active
      BY <1>8 DEF Active, ServeListen, serveRelayBack, ServeStore, LoopRead, LoopAcceptFails
    <2>2. loop \notin {"preamble", "got"} /\ loop' \notin {"preamble", "got"}
      BY <1>8 DEF ServeListen, serveRelayBack, ServeStore, LoopRead, LoopAcceptFails
    <2>3. mode = "proxy" => loop' # "returned"
      BY <1>8 DEF ServeListen, serveRelayBack, ServeStore, LoopRead, LoopAcceptFails
    <2> QED
      BY <1>8, <2>1, <2>2, <2>3 DEF ServeListen, serveRelayBack, ServeStore, LoopRead, LoopAcceptFails
  <1>9. ASSUME \/ MainSelects \/ MainServeEnds \/ Signal
               \/ ShutdownRead \/ ShutdownClose \/ ShutdownTimeout,
               main \notin Exited
        PROVE  DrainInv'
    <2>1. Active' = Active
      BY <1>9 DEF Active, MainSelects, MainServeEnds, Signal, ShutdownRead,
                  ShutdownClose, ShutdownTimeout
    <2>2. main' # "exit0"
      BY <1>9 DEF MainSelects, MainServeEnds, Signal, ShutdownRead,
                  ShutdownClose, ShutdownTimeout
    <2> QED
      BY <1>9, <2>1, <2>2 DEF MainSelects, MainServeEnds, Signal, ShutdownRead,
                  ShutdownClose, ShutdownTimeout
  <1>10. ASSUME \/ CloserRead \/ CloserClose
                \/ \E r \in Reqs : Request(r)
         PROVE  DrainInv'
    <2>1. Still /\ UNCHANGED <<loop, loopConn, main>>
      BY <1>10 DEF Still, CloserRead, CloserClose, Request, ApplyConfig, RebindWant,
                   RebindCompare, RebindListen, RebindSwap, RebindClose
    <2>2. Active' = Active
      BY <2>1 DEF Still, Active
    <2> QED BY <1>1, <2>1, <2>2
  <1>11. ASSUME PreambleRead \/ PreambleFails, main \notin Exited PROVE DrainInv'
    <2>1. Active' = Active
      BY <1>11 DEF PreambleRead, PreambleFails, Active
    <2> QED BY <1>11, <2>1 DEF PreambleRead, PreambleFails
  <1>12. CASE UNCHANGED vars
    <2>1. Active' = Active
      BY <1>12 DEF vars, Active
    <2> QED BY <1>1, <1>12, <2>1 DEF vars, Still
  <1> QED
    BY <1>2, <1>3, <1>4, <1>5, <1>6, <1>7, <1>8, <1>9, <1>10, <1>11, <1>12
    DEF Next, Serve, Stop

-----------------------------------------------------------------------------
(* Types.  wg stays a natural number because Done only runs for an active  *)
(* connection, which the group counts.                                     *)

LEMMA NextTypeOK == TypeOK /\ DrainInv /\ [Next]_vars => TypeOK'
  <1> SUFFICES ASSUME TypeOK, DrainInv, [Next]_vars PROVE TypeOK'
    OBVIOUS
  <1> USE ModesAssumption, PreamblesAssumption DEF TypeOK, Listeners, Phases, Exited,
        serveVars, stopVars, reqVars, sockVars, Close, Replied
  <1>1. CASE ServeListen \/ serveRelayBack \/ ServeStore
    BY <1>1 DEF ServeListen, serveRelayBack, ServeStore
  <1>2. CASE \/ LoopRead \/ LoopAcceptFails \/ LoopWaited
             \/ PreambleRead \/ PreambleFails
    BY <1>2 DEF LoopRead, LoopAcceptFails, LoopWaited, PreambleRead, PreambleFails
  <1>3. CASE LoopRefuses \/ LoopSpawns
    BY <1>3 DEF LoopRefuses, LoopSpawns
  <1>4. ASSUME NEW c \in Conns, LoopAccept(c) PROVE TypeOK'
    BY <1>4 DEF LoopAccept
  <1>5. ASSUME NEW c \in Conns, ConnEnds(c) PROVE TypeOK'
    <2>1. mode = "proxy" => wg # 0
      <3>1. c \in Active
        BY <1>5 DEF ConnEnds, Active
      <3> QED BY <3>1, ActiveFinite, FS_EmptySet DEF DrainInv
    <2>2. wg' \in Nat
      BY <1>5, <2>1 DEF ConnEnds
    <2> QED BY <1>5, <2>2 DEF ConnEnds
  <1>6. CASE CloserRead \/ CloserClose
    BY <1>6 DEF CloserRead, CloserClose
  <1>7. ASSUME NEW r \in Reqs, NEW a \in Addrs, ApplyConfig(r, a) PROVE TypeOK'
    BY <1>7 DEF ApplyConfig
  <1>8. ASSUME NEW r \in Reqs, RebindWant(r) \/ RebindCompare(r) PROVE TypeOK'
    BY <1>8 DEF RebindWant, RebindCompare
  <1>9. ASSUME NEW r \in Reqs, RebindListen(r) PROVE TypeOK'
    BY <1>9 DEF RebindListen
  <1>10. ASSUME NEW r \in Reqs, RebindSwap(r) \/ RebindClose(r) PROVE TypeOK'
    BY <1>10 DEF RebindSwap, RebindClose
  <1>11. CASE MainSelects
    <2>1. main' \in {"shutdown", "exitEarly", "select"}
      BY <1>11 DEF MainSelects
    <2> QED BY <1>11, <2>1 DEF MainSelects
  <1>12. CASE Signal
    <2>1. main' \in {"shutdown", main} /\ ctxDone' = TRUE
      BY <1>12 DEF Signal
    <2> QED BY <1>12, <2>1 DEF Signal
  <1>13. CASE MainServeEnds \/ ShutdownRead
    BY <1>13 DEF MainServeEnds, ShutdownRead
  <1>14. CASE ShutdownClose \/ ShutdownDone \/ ShutdownTimeout
    BY <1>14 DEF ShutdownClose, ShutdownDone, ShutdownTimeout
  <1>15. CASE UNCHANGED vars
    BY <1>15 DEF vars
  <1> QED
    BY <1>1, <1>2, <1>3, <1>4, <1>5, <1>6, <1>7, <1>8, <1>9, <1>10, <1>11,
       <1>12, <1>13, <1>14, <1>15 DEF Next, Serve, Stop, Request

-----------------------------------------------------------------------------
(* A rebind that was acknowledged has taken effect. *)

LEMMA InitWaiting == Init => WaitingInv
  BY DEF Init, WaitingInv, InFlight, Quiet, Started

\* Serve's own steps: it stores the first listener before any request.
LEMMA ServeKeepsWaiting ==
    ASSUME TypeOK, WaitingInv, UNCHANGED <<reqVars>>,
           \/ UNCHANGED <<addr, ln>> /\ (Started => Started')
           \/ ~Started
    PROVE  WaitingInv'
  <1>1. UNCHANGED <<cfgAddr, rpc, want, last, overlap>>
    BY DEF reqVars
  <1>2. CASE UNCHANGED <<addr, ln>> /\ (Started => Started')
    BY <1>1, <1>2 DEF WaitingInv, InFlight, Quiet, listenAddrsEqual, normalizeListenAddr
  <1>3. CASE ~Started
    <2>1. ~overlap => last = "none" /\ \A r \in Reqs : ~InFlight(r)
      BY <1>3 DEF WaitingInv, Quiet
    <2>2. ~overlap' => last' = "none" /\ \A r \in Reqs : ~InFlight(r)'
      BY <1>1, <2>1 DEF InFlight
    <2> QED BY <2>2 DEF WaitingInv, InFlight, Quiet
  <1> QED BY <1>2, <1>3

\* A step of the one request in flight.
LEMMA RequestKeepsWaiting ==
    ASSUME TypeOK, WaitingInv, NEW r \in Reqs, Request(r)
    PROVE  WaitingInv'
  <1>t. /\ rpc \in [Reqs -> {"idle", "want", "compare", "listen", "swap", "close", "done"}]
        /\ want \in [Reqs -> Addrs \cup {NoAddr}] /\ addr \in [Listeners -> Addrs \cup RelayAddrs \cup {NoAddr}]
        /\ r \in Listeners /\ overlap \in BOOLEAN /\ r # Nil
    BY NamesFresh DEF TypeOK, Listeners
  <1>0. loop' = loop
    BY DEF Request, ApplyConfig, RebindWant, RebindCompare, RebindListen, RebindSwap,
           RebindClose, serveVars
  <1>s. Started' <=> Started
    BY <1>0 DEF Started
  <1>1. ASSUME NEW a \in Addrs, ApplyConfig(r, a) PROVE WaitingInv'
    <2>1. rpc' = [rpc EXCEPT ![r] = "want"] /\ UNCHANGED <<last, ln, addr>>
      BY <1>1 DEF ApplyConfig, sockVars
    <2>2. ~overlap' => ~overlap /\ Started /\ \A q \in Reqs : rpc[q] \in {"idle", "done"}
      BY <1>1, <1>t DEF ApplyConfig, InFlight
    <2>3. rpc'[r] = "want" /\ \A q \in Reqs \ {r} : rpc'[q] = rpc[q]
      BY <1>t, <2>1
    <2>4. InFlight(r)'
      BY <2>3 DEF InFlight
    <2> QED BY <1>s, <2>2, <2>3, <2>4 DEF WaitingInv, InFlight, Quiet
  <1>a. ASSUME rpc[r] \notin {"idle", "done"}, ~overlap
        PROVE  /\ Started /\ \A q \in Reqs \ {r} : rpc[q] \in {"idle", "done"}
               /\ rpc[r] \in {"compare", "listen", "swap"} => want[r] = cfgAddr
               /\ rpc[r] \in {"swap", "close"} => addr[r] = cfgAddr
               /\ rpc[r] = "close" => ln = r
    BY <1>a DEF WaitingInv, InFlight, Quiet
  <1>2. ASSUME UNCHANGED <<cfgAddr, overlap>>, rpc[r] \notin {"idle", "done"},
               rpc' \in [Reqs -> {"idle", "want", "compare", "listen", "swap", "close", "done"}],
               \A q \in Reqs \ {r} : rpc'[q] = rpc[q],
               ~overlap =>
                 /\ rpc'[r] \in {"compare", "listen", "swap"} => want'[r] = cfgAddr
                 /\ rpc'[r] \in {"swap", "close"} => addr'[r] = cfgAddr
                 /\ rpc'[r] = "close" => ln' = r
                 /\ rpc'[r] \in {"idle", "done"} /\ last' \in {"ok", "noop"} =>
                      ln' # Nil /\ listenAddrsEqual(addr'[ln'], cfgAddr)
        PROVE  WaitingInv'
    <2>1. ASSUME ~overlap PROVE Started' /\ \A q \in Reqs \ {r} : rpc'[q] \in {"idle", "done"}
      BY <1>a, <1>s, <1>2, <2>1
    <2>2. ~overlap /\ Quiet' => rpc'[r] \in {"idle", "done"}
      BY DEF Quiet, InFlight
    <2> QED BY <1>2, <2>1, <2>2 DEF WaitingInv, InFlight, Quiet, listenAddrsEqual, normalizeListenAddr
  <1>3. CASE RebindWant(r)
    <2>1. /\ rpc[r] = "want" /\ want'[r] = cfgAddr /\ rpc' = [rpc EXCEPT ![r] = "compare"]
          /\ UNCHANGED <<cfgAddr, overlap>>
      BY <1>3, <1>t DEF RebindWant
    <2> QED BY <1>t, <1>2, <2>1
  <1>4. CASE RebindCompare(r)
    <2>1. rpc[r] = "compare" /\ UNCHANGED <<cfgAddr, overlap, addr, ln>>
      BY <1>4 DEF RebindCompare, sockVars
    <2>2. CASE ln # Nil /\ listenAddrsEqual(addr[ln], want[r])
      <3>1. rpc' = [rpc EXCEPT ![r] = "done"]
        BY <1>4, <2>2 DEF RebindCompare, Replied
      <3> QED BY <1>t, <1>2, <1>a, <2>1, <2>2, <3>1
    <2>3. CASE ~(ln # Nil /\ listenAddrsEqual(addr[ln], want[r]))
      <3>1. rpc' = [rpc EXCEPT ![r] = "listen"] /\ UNCHANGED want
        BY <1>4, <2>3 DEF RebindCompare
      <3> QED BY <1>t, <1>2, <1>a, <2>1, <3>1
    <2> QED BY <2>2, <2>3
  <1>5. CASE RebindListen(r)
    <2>1. rpc[r] = "listen" /\ UNCHANGED <<cfgAddr, overlap>>
      BY <1>5 DEF RebindListen
    <2>2. CASE CanBind(want[r])
      <3>1. /\ rpc' = [rpc EXCEPT ![r] = "swap"] /\ UNCHANGED want
            /\ addr' = [addr EXCEPT ![r] = want[r]]
        BY <1>5, <2>2 DEF RebindListen
      <3> QED BY <1>t, <1>2, <1>a, <2>1, <3>1
    <2>3. CASE ~CanBind(want[r])
      <3>1. rpc' = [rpc EXCEPT ![r] = "done"] /\ last' = "error"
        BY <1>5, <2>3 DEF RebindListen, Replied
      <3> QED BY <1>t, <1>2, <2>1, <3>1
    <2> QED BY <2>2, <2>3
  <1>6. CASE RebindSwap(r)
    <2>1. /\ rpc[r] = "swap" /\ rpc' = [rpc EXCEPT ![r] = "close"] /\ ln' = r
          /\ UNCHANGED <<cfgAddr, overlap, addr>>
      BY <1>6 DEF RebindSwap
    <2> QED BY <1>t, <1>2, <1>a, <2>1
  <1>7. CASE RebindClose(r)
    <2>1. /\ rpc[r] = "close" /\ rpc' = [rpc EXCEPT ![r] = "done"]
          /\ UNCHANGED <<cfgAddr, overlap, addr, ln>>
      BY <1>7 DEF RebindClose, Replied
    <2>2. ~overlap => ln' # Nil /\ listenAddrsEqual(addr'[ln'], cfgAddr)
      BY <1>t, <1>a, <2>1 DEF listenAddrsEqual
    <2> QED BY <1>t, <1>2, <2>1, <2>2
  <1> QED BY <1>1, <1>3, <1>4, <1>5, <1>6, <1>7 DEF Request

LEMMA NextWaitingInv == TypeOK /\ WaitingInv /\ [Next]_vars => WaitingInv'
  <1> SUFFICES ASSUME TypeOK, WaitingInv, [Next]_vars PROVE WaitingInv'
    OBVIOUS
  <1>1. ASSUME NEW r \in Reqs, Request(r) PROVE WaitingInv'
    BY <1>1, RequestKeepsWaiting
  <1>2. CASE ServeListen \/ serveRelayBack \/ ServeStore
    <2>1. ~Started /\ UNCHANGED reqVars
      BY <1>2 DEF ServeListen, serveRelayBack, ServeStore, Started
    <2> QED BY <2>1, ServeKeepsWaiting
  <1>4. ASSUME UNCHANGED <<reqVars, addr, ln>>, loop' = loop \/ Started' PROVE WaitingInv'
    <2>1. Started => Started'
      BY <1>4 DEF Started
    <2> QED BY <1>4, <2>1, ServeKeepsWaiting
  <1>5. CASE \/ LoopRead \/ LoopAcceptFails \/ PreambleRead \/ PreambleFails
             \/ LoopRefuses \/ LoopSpawns \/ LoopWaited
    BY <1>4, <1>5 DEF LoopRead, LoopAcceptFails, PreambleRead, PreambleFails, LoopRefuses,
                      LoopSpawns, LoopWaited, Started, sockVars, serveVars
  <1>6. ASSUME NEW c \in Conns, LoopAccept(c) \/ ConnEnds(c) PROVE WaitingInv'
    BY <1>4, <1>6 DEF LoopAccept, ConnEnds, Started, sockVars
  <1>7. CASE Stop
    BY <1>4, <1>7 DEF Stop, MainSelects, MainServeEnds, Signal, CloserRead, CloserClose,
                      ShutdownRead, ShutdownClose, ShutdownDone, ShutdownTimeout,
                      sockVars, serveVars
  <1>8. CASE UNCHANGED vars
    BY <1>4, <1>8 DEF vars, sockVars, serveVars
  <1> QED BY <1>1, <1>2, <1>5, <1>6, <1>7, <1>8 DEF Next, Serve

-----------------------------------------------------------------------------
(* The listener the administrator was told of is the one that is served. *)

LEMMA InitServed == Init => ServedInv
  BY NamesFresh DEF Init, ServedInv, Started, First, Nil, Unset

LEMMA NextServedInv == TypeOK /\ WaitingInv /\ ServedInv /\ [Next]_vars => ServedInv'
  <1> SUFFICES ASSUME TypeOK, WaitingInv, ServedInv, [Next]_vars PROVE ServedInv'
    OBVIOUS
  <1>t. /\ rpc \in [Reqs -> {"idle", "want", "compare", "listen", "swap", "close", "done"}]
        /\ old \in [Reqs -> Listeners \cup {Nil, Unset}]
        /\ ln \in Listeners \cup {Nil} /\ overlap \in BOOLEAN /\ ctxDone \in BOOLEAN
        /\ Nil \notin Reqs /\ Unset \notin Reqs /\ First \notin Reqs
    BY NamesFresh DEF TypeOK
  <1> USE DEF ServedInv, Started, Listeners, First, Nil, Unset,
              serveVars, stopVars, reqVars, sockVars, Close, Replied
  <1>1. CASE \/ ServeListen \/ serveRelayBack \/ LoopRead \/ LoopAcceptFails
             \/ PreambleRead \/ PreambleFails \/ LoopRefuses \/ LoopSpawns \/ LoopWaited
    BY <1>1, <1>t DEF ServeListen, serveRelayBack, LoopRead, LoopAcceptFails, PreambleRead,
                      PreambleFails, LoopRefuses, LoopSpawns, LoopWaited
  <1>2. CASE ServeStore
    <2>1. ~overlap => \A r \in Reqs : rpc[r] # "swap"
      BY <1>2 DEF ServeStore, WaitingInv, Quiet, InFlight
    <2> QED BY <1>2, <1>t, <2>1 DEF ServeStore
  <1>3. ASSUME NEW c \in Conns, LoopAccept(c) \/ ConnEnds(c) PROVE ServedInv'
    BY <1>3, <1>t DEF LoopAccept, ConnEnds
  <1>4. CASE Stop
    BY <1>4, <1>t DEF Stop, MainSelects, MainServeEnds, Signal, CloserRead, CloserClose,
                      ShutdownRead, ShutdownClose, ShutdownDone, ShutdownTimeout
  <1>5. ASSUME NEW r \in Reqs, NEW a \in Addrs, ApplyConfig(r, a) PROVE ServedInv'
    BY <1>5, <1>t DEF ApplyConfig
  <1>6. ASSUME NEW r \in Reqs, RebindWant(r) \/ RebindCompare(r) \/ RebindListen(r)
        PROVE  ServedInv'
    BY <1>6, <1>t DEF RebindWant, RebindCompare, RebindListen
  <1>7. ASSUME NEW r \in Reqs, RebindSwap(r) PROVE ServedInv'
    <2>1. /\ ln' = r /\ old' = [old EXCEPT ![r] = ln] /\ rpc' = [rpc EXCEPT ![r] = "close"]
          /\ rpc[r] = "swap" /\ UNCHANGED <<mode, open, overlap, loop, ctxDone, closer, main>>
      BY <1>7 DEF RebindSwap
    <2>2. ~overlap => Started
      BY <2>1 DEF WaitingInv, Quiet, InFlight
    <2> QED BY <1>t, <2>1, <2>2
  <1>8. ASSUME NEW r \in Reqs, RebindClose(r) PROVE ServedInv'
    <2>1. /\ rpc[r] = "close" /\ rpc' = [rpc EXCEPT ![r] = "done"] /\ open' = open \ {old[r]}
          /\ old' = [old EXCEPT ![r] = IF @ = Nil THEN Nil ELSE Unset]
          /\ UNCHANGED <<mode, ln, overlap, loop, ctxDone, closer, main>>
      BY <1>8 DEF RebindClose
    <2>2. ~overlap => ln = r /\ Started /\ \A q \in Reqs \ {r} : ~InFlight(q)
      BY <2>1 DEF WaitingInv, Quiet, InFlight
    <2>3. ~overlap => \A q \in Reqs \ {r} : rpc[q] # "swap"
      BY <2>2 DEF InFlight
    <2> QED BY <1>t, <2>1, <2>2, <2>3
  <1>9. CASE UNCHANGED vars
    BY <1>9, <1>t DEF vars
  <1> QED BY <1>1, <1>2, <1>3, <1>4, <1>5, <1>6, <1>7, <1>8, <1>9 DEF Next, Serve, Request

\* What is left open is s.ln (NoListenerLeak), so that is where Accept waits.
LEMMA ServedLemma == TypeOK /\ LeakInv /\ WaitingInv /\ ServedInv => AckedIsServed
  <1> SUFFICES ASSUME TypeOK, LeakInv, WaitingInv, ServedInv, mode = "proxy", ~ctxDone,
                      Quiet, last \in {"ok", "noop"}, ~overlap
               PROVE  /\ ln \in open /\ listenAddrsEqual(addr[ln], cfgAddr)
                      /\ loop \in {"read", "accept", "preamble", "got"}
                      /\ loop = "accept" /\ loopLn \in open => loopLn = ln
    BY DEF AckedIsServed
  <1>1. Started /\ listenAddrsEqual(addr[ln], cfgAddr)
    BY DEF WaitingInv
  <1>2. ln \in open /\ loop \in {"read", "accept", "preamble", "got"}
    BY <1>1 DEF ServedInv, Started, TypeOK, Phases
  <1>3. ~StartOvertaken
    BY DEF ServedInv, StartOvertaken
  <1>4. \A l \in open : ~Owned(l)
    BY <1>2 DEF Owned, Quiet, InFlight
  <1>5. \A l \in open : l = ln
    BY <1>3, <1>4 DEF LeakInv, NoListenerLeak
  <1> QED BY <1>1, <1>2, <1>5

-----------------------------------------------------------------------------
\* The invariants hold together in every execution.
THEOREM LifecycleInvariance ==
    Spec => [](TypeOK /\ LeakInv /\ DrainInv /\ WaitingInv /\ ServedInv)
  BY InitInv, InitWaiting, InitServed, NextTypeOK, NextLeakInv, NextDrainInv,
     NextWaitingInv, NextServedInv, PTL DEF Spec

\* Type correctness of the listener, the accept loop, the requests and main.
THEOREM TypeCorrect == Spec => []TypeOK
  BY LifecycleInvariance, PTL

\* However many rebinds run concurrently with each other, with the accept loop
\* and with the shutdown, no listening socket is left open and forgotten.
THEOREM NoListenerLeakInvariance == Spec => []NoListenerLeak
  <1>1. LeakInv => NoListenerLeak
    BY DEF LeakInv
  <1> QED
    BY <1>1, LifecycleInvariance, PTL

\* Serve returns with every connection finished, and a clean exit through
\* Shutdown abandons at most the connection that was not counted yet.
THEOREM DrainedOnExitInvariance == Spec => []DrainedOnExit
  <1>1. TypeOK /\ DrainInv => DrainedOnExit
    BY DEF TypeOK, DrainInv, DrainedOnExit, Unfinished, Active
  <1> QED
    BY <1>1, LifecycleInvariance, PTL

\* To an administrator who waits for start-up and for each reply, a rebind that
\* reported no error (RebindListenIfNeeded) means that, until somebody stops the
\* proxy, s.ln is open at the configured address and the accept loop waits on no
\* other open listener, whatever connections and clients do meanwhile.
THEOREM AckedIsServedInvariance == Spec => []AckedIsServed
  BY ServedLemma, LifecycleInvariance, PTL
=============================================================================
