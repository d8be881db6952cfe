--------------------------- MODULE TcpServerProofs ---------------------------
(* Proofs about TcpServer for any connections, keys and callers of Shutdown and *)
(* Close: the Service contract, abortAll, and draining.                          *)
EXTENDS TcpServer, FiniteSetTheorems, TLAPS

Labels == {"unserved", "accept", "perIP", "admit", "track", "count", "spawn", "backoff",
           "failing", "wait", "return", "returned"}
Stages == {"new", "accepted", "handler", "release", "releasePerIP", "untrack", "uncount",
           "countClosed", "gone"}
StopLabels == {"idle", "shutdown", "stopAccept", "serving?", "select", "nil", "abortAll",
               "closing", "finished"}

Types ==
  /\ srv \in [serving : BOOLEAN, stopped : BOOLEAN, once : Stopper \cup {None, "done"},
              lnClosed : BOOLEAN, draining : BOOLEAN, done : BOOLEAN, ctxDone : BOOLEAN]
  /\ loop \in [at : Labels, cur : Conn \cup {None}, failed : BOOLEAN]
  /\ st \in [Conn -> Stages] /\ wg \in Nat /\ conns \in SUBSET Conn
  /\ stop \in [Stopper -> [at : StopLabels, victims : SUBSET Conn]]

\* Whoever is past stopAccept, and everybody who saw draining, is so after the stop.
Stopped ==
  /\ srv.once # None \/ srv.draining => srv.stopped
  /\ \A a \in Stopper :
       stop[a].at \in {"serving?", "select", "nil", "abortAll", "closing", "finished"} => srv.stopped

\* Where Serve is says what it has done: the connection in its hand is served by nobody
\* yet, it leaves its loop only after the stop, and returns when no serveConn runs.
Loop ==
  /\ ~srv.serving => loop.at \in {"unserved", "returned"} /\ Served = {}
  /\ loop.at = "unserved" => ~srv.serving
  /\ srv.done => loop.at = "returned"
  /\ loop.at \in {"perIP", "admit", "track", "count", "spawn"} =>
       loop.cur \in Conn /\ st[loop.cur] = "accepted"
  /\ loop.at \in {"wait", "return", "returned"} => srv.stopped
  /\ loop.at \in {"return", "returned"} => Served = {}

\* The WaitGroup counts the serveConn goroutines.
Counted == wg = Cardinality(Served)

Inv == Types /\ Stopped /\ Loop /\ Counted

\* The connections that serveConn serves are finitely many.
LEMMA ServedFinite == IsFiniteSet(Served) /\ Cardinality(Served) \in Nat
  BY TcpAssumption, FS_Subset, FS_CardinalityType DEF Served

\* A new server satisfies the invariant.
LEMMA InitInv == Init => Inv
<1> SUFFICES ASSUME Init PROVE Inv
    OBVIOUS
<1>1. Types
      BY DEF Init, Types, Labels, Stages, StopLabels, None
<1>2. Stopped
      BY DEF Init, Stopped
<1>3. Served = {}
      BY DEF Init, Served
<1>4. Loop
      BY <1>3 DEF Init, Loop
<1>5. Counted
      BY <1>3, FS_EmptySet DEF Init, Counted
<1>6. QED
      BY <1>1, <1>2, <1>4, <1>5 DEF Inv

\* Types, one action at a time.
LEMMA NextTypes == Inv /\ [Next]_vars => Types'
<1> SUFFICES ASSUME Inv, [Next]_vars PROVE Types'
    OBVIOUS
<1> USE DEF Inv, Types, Labels, Stages, StopLabels, LoopTo, Discard, Stage, StopTo, None
<1>0. CASE AcceptFails
  <2>1. stop' \in [Stopper -> [at : StopLabels, victims : SUBSET Conn]]
        BY <1>0 DEF AcceptFails, Stopper
  <2>2. loop' \in [at : Labels, cur : Conn \cup {None}, failed : BOOLEAN]
        BY <1>0, ZenonT(30) DEF AcceptFails
  <2>3. QED
        BY <1>0, <2>1, <2>2 DEF AcceptFails, connVars
<1>1. CASE LoopStep
  <2>1. CASE AcceptFails
        BY <1>0, <2>1
  <2>2. CASE BackoffOver
        BY <2>2 DEF BackoffOver, connVars
  <2>3. CASE FailedAbort
        BY <2>3 DEF FailedAbort, connVars
  <2>4. ASSUME NEW k \in IP \cup {NoKey}, CheckPerIP(k) PROVE Types'
        BY <2>4, ZenonT(30) DEF CheckPerIP, connVars
  <2>5. CASE CheckAdmit
        BY <2>5, ZenonT(30) DEF CheckAdmit, connVars
  <2>6. CASE track
    <3>1. conns' \in SUBSET Conn
          BY <2>6 DEF track, Loop
    <3>2. loop' \in [at : Labels, cur : Conn \cup {None}, failed : BOOLEAN]
          BY <2>6, ZenonT(30) DEF track
    <3>3. st' \in [Conn -> Stages]
          BY <2>6 DEF track, connVars
    <3>4. QED
          BY <2>6, <3>1, <3>2, <3>3 DEF track
  <2>7. CASE CountAccepted
        BY <2>7 DEF CountAccepted, connVars
  <2>8. CASE Spawn
    <3>1. loop' \in [at : Labels, cur : Conn \cup {None}, failed : BOOLEAN]
          BY <2>8, Zenon DEF Spawn
    <3>2. st' \in [Conn -> Stages]
          BY <2>8, Zenon DEF Spawn
    <3>3. wg' \in Nat
          BY <2>8 DEF Spawn
    <3>4. QED
          BY <2>8, <3>1, <3>2, <3>3 DEF Spawn
  <2>9. CASE ServeWait
        BY <2>9, Zenon DEF ServeWait, connVars
  <2>10. CASE ServeReturn
        BY <2>10, Zenon DEF ServeReturn, connVars
  <2>11. QED
        BY <1>1, <2>1, <2>2, <2>3, <2>4, <2>5, <2>6, <2>7, <2>8, <2>9, <2>10 DEF LoopStep
<1>2. CASE Environment
  <2>1. CASE Serve
        BY <2>1, ZenonT(30) DEF Serve, connVars
  <2>2. CASE AcceptFails
        BY <1>0, <2>2
  <2>3. CASE AfterFuncRuns
        BY <2>3 DEF AfterFuncRuns, CallClose, Stopper, connVars
  <2>4. ASSUME NEW c \in Conn, AcceptConn(c) PROVE Types'
        BY <2>4, Zenon DEF AcceptConn, connVars
  <2>5. ASSUME NEW c \in Conn, HandlerReturns(c) PROVE Types'
        BY <2>5 DEF HandlerReturns, AfterHandler, connVars
  <2>6. ASSUME NEW a \in Caller, CallShutdown(a) \/ CallClose(a) \/ ShutdownExpires(a) PROVE Types'
        BY <2>6 DEF CallShutdown, CallClose, ShutdownExpires, Stopper, connVars
  <2>7. QED
        BY <1>2, <2>1, <2>2, <2>3, <2>4, <2>5, <2>6 DEF Environment
<1>3. ASSUME NEW c \in Conn, DeferStep(c) PROVE Types'
  <2>1. CASE ReleaseAdmit(c) \/ ReleasePerIP(c) \/ untrack(c) \/ UncountActive(c)
        BY <2>1 DEF ReleaseAdmit, ReleasePerIP, untrack, UncountActive, connVars
  <2>2. CASE CountClosed(c)
    <3>1. c \in Served
          BY <2>2 DEF CountClosed, Served
    <3>2. wg # 0
          BY <3>1, ServedFinite, FS_EmptySet DEF Counted
    <3>3. QED
          BY <2>2, <3>2 DEF CountClosed, wgDone, connVars
  <2>3. QED
        BY <1>3, <2>1, <2>2 DEF DeferStep
<1>4. ASSUME NEW a \in Stopper, StopStep(a) PROVE Types'
  <2>1. CASE StopFirst(a)
        BY <2>1, Zenon DEF StopFirst, connVars
  <2>2. CASE StopRest(a)
        BY <2>2, Zenon DEF StopRest, ClosedDraining, connVars
  <2>3. CASE StopPassed(a) \/ ShutdownServing(a) \/ ShutdownDone(a)
        BY <2>3 DEF StopPassed, ShutdownServing, ShutdownDone, connVars
  <2>4. CASE abortAll(a)
        BY <2>4, Zenon DEF abortAll, connVars
  <2>5. CASE AbortClose(a)
        BY <2>5 DEF AbortClose, connVars
  <2>6. CASE AbortDone(a)
        BY <2>6 DEF AbortDone, connVars
  <2>7. QED
        BY <1>4, <2>1, <2>2, <2>3, <2>4, <2>5, <2>6 DEF StopStep
<1>5. CASE UNCHANGED vars
      BY <1>5 DEF vars, connVars
<1>6. QED
      BY <1>1, <1>2, <1>3, <1>4, <1>5 DEF Next

\* Stopped, one action at a time: only StopFirst, StopRest and those who pass
\* stopAccept touch it.
LEMMA NextStopped == Inv /\ [Next]_vars => Stopped'
<1> SUFFICES ASSUME Inv, [Next]_vars PROVE Stopped'
    OBVIOUS
<1> USE DEF Inv, Types, Stopped, StopTo
<1>1. CASE UNCHANGED <<srv, stop>>
      BY <1>1
<1>2. CASE AcceptFails
      BY <1>2 DEF AcceptFails, Stopper
<1>3. CASE Serve \/ ServeWait \/ ServeReturn
      BY <1>3, ZenonT(30) DEF Serve, ServeWait, ServeReturn, None
<1>4. ASSUME NEW a \in Stopper, CallShutdown(a) \/ CallClose(a) \/ ShutdownExpires(a) PROVE Stopped'
      BY <1>4 DEF CallShutdown, CallClose, ShutdownExpires
<1>5. ASSUME NEW a \in Stopper, StopStep(a) PROVE Stopped'
  <2>1. CASE StopFirst(a)
        BY <2>1 DEF StopFirst
  <2>2. CASE StopRest(a)
        BY <2>2, TcpAssumption DEF StopRest, ClosedDraining, Stopper, None
  <2>3. CASE StopPassed(a)
        BY <2>3 DEF StopPassed, None
  <2>4. CASE ShutdownServing(a) \/ ShutdownDone(a)
        BY <2>4 DEF ShutdownServing, ShutdownDone
  <2>5. CASE abortAll(a)
        BY <2>5 DEF abortAll
  <2>6. CASE AbortClose(a)
        BY <2>6 DEF AbortClose
  <2>7. CASE AbortDone(a)
        BY <2>7 DEF AbortDone
  <2>8. QED
        BY <1>5, <2>1, <2>2, <2>3, <2>4, <2>5, <2>6, <2>7 DEF StopStep
<1>6. CASE LoopStep
      BY <1>1, <1>2, <1>3, <1>6, SMTT(30) DEF LoopStep, BackoffOver, FailedAbort, CheckPerIP, CheckAdmit, track,
         CountAccepted, Spawn
<1>7. CASE Environment
      BY <1>1, <1>2, <1>3, <1>4, <1>7, Zenon DEF Environment, AfterFuncRuns, AcceptConn, HandlerReturns, Stopper
<1>8. ASSUME NEW c \in Conn, DeferStep(c) PROVE Stopped'
      BY <1>1, <1>8 DEF DeferStep, ReleaseAdmit, ReleasePerIP, untrack, UncountActive, CountClosed
<1>9. CASE UNCHANGED vars
      BY <1>1, <1>9 DEF vars
<1>10. QED
      BY <1>5, <1>6, <1>7, <1>8, <1>9 DEF Next

\* Only go serveConn and the end of serveConn change who is served, and the
\* WaitGroup moves with them.
LEMMA ServedStep ==
  ASSUME Inv, [Next]_vars
  PROVE  \/ Served' = Served /\ wg' = wg
         \/ Spawn /\ Served' = Served \cup {loop.cur} /\ loop.cur \in Conn \ Served
         \/ \E c \in Served : CountClosed(c) /\ Served' = Served \ {c}
<1> USE DEF Inv, Types, Served
<1>1. CASE UNCHANGED <<st, wg>>
      BY <1>1
<1>2. CASE Spawn
      BY <1>2 DEF Spawn, Loop
<1>3. CASE Discard("accept") /\ UNCHANGED wg /\ loop.at \in {"perIP", "admit"}
      BY <1>3 DEF Discard, Loop
<1>4. CASE Discard("wait") /\ UNCHANGED wg /\ loop.at = "track"
      BY <1>4 DEF Discard, Loop
<1>5. ASSUME NEW c \in Conn, AcceptConn(c) PROVE Served' = Served /\ wg' = wg
      BY <1>5 DEF AcceptConn
<1>6. ASSUME NEW c \in Conn, HandlerReturns(c) PROVE Served' = Served /\ wg' = wg
      BY <1>6 DEF HandlerReturns, Stage, AfterHandler
<1>7. ASSUME NEW c \in Conn, CountClosed(c) PROVE c \in Served /\ Served' = Served \ {c}
      BY <1>7 DEF CountClosed, Stage
<1>8. ASSUME NEW c \in Conn, ReleaseAdmit(c) \/ ReleasePerIP(c) \/ untrack(c) \/ UncountActive(c)
      PROVE  Served' = Served /\ wg' = wg
      BY <1>8 DEF ReleaseAdmit, ReleasePerIP, untrack, UncountActive, Stage
<1> HIDE DEF Inv, Types, Served
<1>9. CASE LoopStep
  <2>1. ASSUME NEW k \in IP \cup {NoKey}, CheckPerIP(k)
        PROVE  UNCHANGED <<st, wg>> \/ (Discard("accept") /\ UNCHANGED wg /\ loop.at \in {"perIP", "admit"})
        BY <2>1 DEF CheckPerIP
  <2>2. CASE CheckAdmit
        BY <1>1, <1>3, <2>2 DEF CheckAdmit, connVars
  <2>3. CASE track
        BY <1>1, <1>4, <2>3 DEF track, connVars
  <2>4. CASE AcceptFails \/ BackoffOver \/ FailedAbort \/ CountAccepted \/ ServeWait \/ ServeReturn
        BY <1>1, <2>4 DEF AcceptFails, BackoffOver, FailedAbort, CountAccepted, ServeWait, ServeReturn,
           connVars
  <2>5. QED
        BY <1>1, <1>2, <1>3, <1>9, <2>1, <2>2, <2>3, <2>4 DEF LoopStep
<1>10. CASE Environment
      BY <1>1, <1>5, <1>6, <1>10 DEF Environment, Serve, AcceptFails, AfterFuncRuns, CallClose,
         CallShutdown, ShutdownExpires, connVars
<1>11. ASSUME NEW a \in Stopper, StopStep(a) PROVE UNCHANGED <<st, wg>>
      BY <1>11 DEF StopStep, StopFirst, StopRest, StopPassed, ShutdownServing, ShutdownDone, abortAll,
         AbortClose, AbortDone, connVars
<1>12. CASE UNCHANGED vars
      BY <1>1, <1>12 DEF vars, connVars
<1>13. QED
      BY <1>1, <1>7, <1>8, <1>9, <1>10, <1>11, <1>12 DEF Next, DeferStep

\* wg.Add and wg.Done keep pace with the serveConn goroutines.
LEMMA NextCounted == Inv /\ [Next]_vars => Counted'
<1> SUFFICES ASSUME Inv, [Next]_vars PROVE Counted'
    OBVIOUS
<1>1. wg = Cardinality(Served) /\ wg \in Nat
      BY ServedFinite DEF Inv, Counted
<1>2. CASE Served' = Served /\ wg' = wg
      BY <1>1, <1>2 DEF Counted
<1>3. CASE Spawn /\ Served' = Served \cup {loop.cur} /\ loop.cur \in Conn \ Served
  <2>1. Cardinality(Served') = Cardinality(Served) + 1
        BY <1>3, ServedFinite, FS_AddElement
  <2>2. QED
        BY <1>1, <1>3, <2>1 DEF Counted, Spawn
<1>4. ASSUME NEW c \in Served, CountClosed(c), Served' = Served \ {c} PROVE Counted'
  <2>1. Cardinality(Served') = Cardinality(Served) - 1
        BY <1>4, ServedFinite, FS_RemoveElement
  <2>2. QED
        BY <1>1, <1>4, <2>1 DEF Counted, CountClosed, wgDone
<1>5. QED
      BY <1>2, <1>3, <1>4, ServedStep

\* Loop, one action at a time.
LEMMA NextLoop == Inv /\ [Next]_vars => Loop'
<1> SUFFICES ASSUME Inv, [Next]_vars PROVE Loop'
    OBVIOUS
<1>s. Served' \subseteq Served \/ Spawn
      BY ServedStep
<1> USE DEF Inv, Types, Loop, LoopTo
<1>1. CASE UNCHANGED <<srv, loop, st>>
      BY <1>s, <1>1 DEF Spawn, Served
<1>2. CASE AcceptFails
      BY <1>s, <1>2, ZenonT(30) DEF AcceptFails, isStopped, connVars, Spawn
<1>3. CASE LoopStep
  <2>1. CASE BackoffOver
        BY <1>s, <2>1 DEF BackoffOver, Stopped, connVars, Spawn
  <2>2. CASE FailedAbort
        BY <1>s, <2>2 DEF FailedAbort, Stopped, Stopper, connVars, Spawn
  <2>3. ASSUME NEW k \in IP \cup {NoKey}, CheckPerIP(k) PROVE Loop'
        BY <1>s, <2>3, ZenonT(30) DEF CheckPerIP, Discard, Spawn
  <2>4. CASE CheckAdmit
        BY <1>s, <2>4, Zenon DEF CheckAdmit, Discard, connVars, Spawn
  <2>5. CASE track
        BY <1>s, <2>5, ZenonT(30) DEF track, Discard, isStopped, connVars, Spawn
  <2>6. CASE CountAccepted
        BY <1>s, <2>6 DEF CountAccepted, connVars, Spawn
  <2>7. CASE Spawn
        BY <2>7 DEF Spawn
  <2>8. CASE ServeWait
    <3>1. Served = {}
          BY <2>8, ServedFinite, FS_EmptySet, Zenon DEF ServeWait, AllReturned, Counted
    <3>2. QED
          BY <1>s, <2>8, <3>1 DEF ServeWait, connVars, Spawn
  <2>9. CASE ServeReturn
        BY <1>s, <2>9 DEF ServeReturn, connVars, Spawn
  <2>10. QED
        BY <1>2, <1>3, <2>1, <2>2, <2>3, <2>4, <2>5, <2>6, <2>7, <2>8, <2>9 DEF LoopStep
<1>4. CASE Environment
  <2>1. CASE Serve
        BY <1>s, <2>1, ZenonT(30) DEF Serve, isStopped, connVars, Spawn
  <2>2. ASSUME NEW c \in Conn, AcceptConn(c) PROVE Loop'
        BY <1>s, <2>2 DEF AcceptConn, Spawn
  <2>3. ASSUME NEW c \in Conn, HandlerReturns(c) PROVE Loop'
        BY <1>s, <2>3 DEF HandlerReturns, Stage, Served, Spawn
  <2>4. CASE AfterFuncRuns
        BY <1>1, <2>4 DEF AfterFuncRuns, CallClose, connVars
  <2>5. ASSUME NEW a \in Caller, CallShutdown(a) \/ CallClose(a) \/ ShutdownExpires(a) PROVE Loop'
        BY <1>1, <2>5 DEF CallShutdown, CallClose, ShutdownExpires, connVars
  <2>6. QED
        BY <1>2, <1>4, <2>1, <2>2, <2>3, <2>4, <2>5 DEF Environment
<1>5. ASSUME NEW c \in Conn, DeferStep(c) PROVE Loop'
  <2>1. UNCHANGED <<srv, loop>> /\ st' = [st EXCEPT ![c] = st'[c]] /\ st[c] # "accepted"
        BY <1>5 DEF DeferStep, ReleaseAdmit, ReleasePerIP, untrack, UncountActive, CountClosed, Stage
  <2>2. ~Spawn
        BY <2>1 DEF Spawn
  <2>3. QED
        BY <1>s, <2>1, <2>2
<1>6. ASSUME NEW a \in Stopper, StopStep(a) PROVE Loop'
  <2>1. UNCHANGED <<loop, st>>
        BY <1>6 DEF StopStep, StopFirst, StopRest, StopPassed, ShutdownServing, ShutdownDone, abortAll,
           AbortClose, AbortDone, connVars
  <2>2. srv'.serving = srv.serving /\ srv'.done = srv.done /\ (srv.stopped => srv'.stopped)
        BY <1>6, ZenonT(30) DEF StopStep, StopFirst, StopRest, ClosedDraining, StopPassed, ShutdownServing,
           ShutdownDone, abortAll, AbortClose, AbortDone
  <2>3. Served' = Served
        BY <2>1 DEF Served
  <2>4. QED
        BY <2>1, <2>2, <2>3
<1>7. CASE UNCHANGED vars
      BY <1>1, <1>7 DEF vars, connVars
<1>8. QED
      BY <1>3, <1>4, <1>5, <1>6, <1>7 DEF Next

\* Every step of the server keeps the invariant.
LEMMA NextInv == Inv /\ [Next]_vars => Inv'
  BY NextTypes, NextStopped, NextLoop, NextCounted DEF Inv

\* The callers whose Shutdown returned nil.
Nils == {a \in Caller : stop[a].at = "nil"}

\* Who has got nil from Shutdown is told by the stoppers alone.
LEMMA NilsSame ==
  ASSUME \A a \in Caller : stop'[a].at = "nil" <=> stop[a].at = "nil"
  PROVE  Nils' = Nils
  BY DEF Nils

\* Every step of the server is a step of the Service or leaves it as it is.
LEMMA NextImplements == Inv /\ Inv' /\ [Next]_vars => [Contract!Next]_(Contract!vars)
<1> SUFFICES ASSUME Inv, Inv', [Next]_vars PROVE [Contract!Next]_(Contract!vars)
    OBVIOUS
<1> USE DEF Inv, Types
<1>1. CASE UNCHANGED <<srv, InFlight, Nils>>
      BY <1>1 DEF Contract!vars, Nils
<1>2. UNCHANGED <<loop, st>> => InFlight' = InFlight
      BY DEF InFlight, Served
<1>3. UNCHANGED stop => Nils' = Nils
      BY DEF Nils
<1>d. ASSUME NEW label \in {"accept", "wait"}, Discard(label), loop.at \in {"perIP", "admit", "track"}
      PROVE  InFlight' = InFlight
  <2>1. Served' = Served
        BY <1>d DEF Discard, Served, Loop
  <2>2. loop'.at = label
        BY <1>d DEF Discard
  <2>3. QED
        BY <1>d, <2>1, <2>2 DEF InFlight
<1>4. CASE AcceptFails
  <2>1. InFlight' = InFlight
        BY <1>4, ZenonT(30) DEF AcceptFails, InFlight, Served, LoopTo, connVars
  <2>2. Nils' = Nils
        BY <1>4, NilsSame, TcpAssumption DEF AcceptFails, Stopper
  <2>3. QED
        BY <1>1, <1>4, <2>1, <2>2 DEF AcceptFails
<1>5. CASE LoopStep
  <2>1. CASE BackoffOver \/ FailedAbort \/ CountAccepted
    <3>1. InFlight' = InFlight
          BY <2>1 DEF BackoffOver, FailedAbort, CountAccepted, InFlight, Served, LoopTo, connVars
    <3>2. QED
          BY <1>1, <1>3, <2>1, <3>1 DEF BackoffOver, FailedAbort, CountAccepted
  <2>2. ASSUME NEW k \in IP \cup {NoKey}, CheckPerIP(k) PROVE UNCHANGED <<srv, InFlight, Nils>>
    <3>1. InFlight' = InFlight
      <4>1. CASE PerIPFull(k)
            BY <1>d, <2>2, <4>1 DEF CheckPerIP
      <4>2. CASE ~PerIPFull(k)
            BY <2>2, <4>2 DEF CheckPerIP, InFlight, Served, LoopTo
      <4>3. QED
            BY <4>1, <4>2
    <3>2. QED
          BY <1>3, <2>2, <3>1 DEF CheckPerIP
  <2>3. CASE CheckAdmit
    <3>1. InFlight' = InFlight
      <4>1. CASE Discard("accept")
            BY <1>d, <2>3, <4>1 DEF CheckAdmit
      <4>2. CASE LoopTo("track") /\ UNCHANGED st
            BY <2>3, <4>2 DEF CheckAdmit, InFlight, Served, LoopTo
      <4>3. QED
            BY <2>3, <4>1, <4>2 DEF CheckAdmit, connVars
    <3>2. QED
          BY <1>1, <1>3, <2>3, <3>1 DEF CheckAdmit
  <2>4. CASE track /\ isStopped
    <3>1. InFlight' = InFlight
          BY <1>d, <2>4 DEF track
    <3>2. QED
          BY <1>1, <1>3, <2>4, <3>1 DEF track
  <2>5. CASE track /\ ~isStopped
    <3>1. InFlight' = InFlight \cup {loop.cur} /\ loop.cur \in Conn
          BY <2>5 DEF track, InFlight, Served, LoopTo, Loop, connVars
    <3>2. srv.serving /\ ~srv.done /\ ~srv.stopped
          BY <2>5 DEF track, Loop, isStopped
    <3>3. Contract!Accept(loop.cur)
          BY <1>3, <2>5, <3>1, <3>2 DEF track, Contract!Accept, Nils
    <3>4. QED
          BY <3>1, <3>3 DEF Contract!Next
  <2>6. CASE Spawn
    <3>1. InFlight' = InFlight
          BY <2>6 DEF Spawn, InFlight, Served, Loop
    <3>2. QED
          BY <1>1, <1>3, <2>6, <3>1 DEF Spawn
  <2>7. CASE ServeWait
    <3>1. InFlight' = InFlight
          BY <2>7 DEF ServeWait, InFlight, Served, LoopTo, connVars
    <3>2. srv'.serving = srv.serving /\ srv'.done = srv.done /\ srv'.stopped = srv.stopped
          BY <2>7 DEF ServeWait
    <3>3. QED
          BY <1>3, <2>7, <3>1, <3>2 DEF ServeWait, Contract!vars, Nils
  <2>8. CASE ServeReturn
    <3>1. InFlight' = {} /\ InFlight = {}
          BY <2>8 DEF ServeReturn, InFlight, Served, LoopTo, Loop, connVars
    <3>2. srv.serving /\ srv'.serving = srv.serving /\ srv'.done /\ srv.stopped /\ srv'.stopped = srv.stopped
          BY <2>8 DEF ServeReturn, Loop
    <3>3. Contract!ServeReturns
          BY <1>3, <2>8, <3>1, <3>2, Zenon DEF ServeReturn, Contract!ServeReturns, Nils
    <3>4. QED
          BY <3>3 DEF Contract!Next
  <2>9. QED
        BY <1>1, <1>4, <1>5, <2>1, <2>2, <2>3, <2>4, <2>5, <2>6, <2>7, <2>8 DEF LoopStep
<1>6. CASE Environment
  <2>1. CASE Serve /\ isStopped
    <3>1. InFlight' = InFlight
          BY <2>1 DEF Serve, InFlight, Served, LoopTo, connVars
    <3>2. QED
          BY <1>1, <1>3, <2>1, <3>1 DEF Serve
  <2>2. CASE Serve /\ ~isStopped
    <3>1. InFlight' = InFlight
          BY <2>2 DEF Serve, InFlight, Served, LoopTo, connVars
    <3>2. ~srv.serving /\ srv'.serving /\ srv'.done = srv.done /\ ~srv.stopped /\ srv'.stopped = srv.stopped
          BY <2>2, ZenonT(30) DEF Serve, Loop, isStopped
    <3>3. Contract!Serve
          BY <1>3, <2>2, <3>1, <3>2 DEF Serve, Contract!Serve, Nils
    <3>4. QED
          BY <3>3 DEF Contract!Next
  <2>3. ASSUME NEW c \in Conn, AcceptConn(c) PROVE UNCHANGED <<srv, InFlight, Nils>>
    <3>1. InFlight' = InFlight
          BY <2>3 DEF AcceptConn, InFlight, Served
    <3>2. QED
          BY <1>3, <2>3, <3>1 DEF AcceptConn
  <2>4. ASSUME NEW c \in Conn, HandlerReturns(c) PROVE UNCHANGED <<srv, InFlight, Nils>>
    <3>1. InFlight' = InFlight
          BY <2>4 DEF HandlerReturns, AfterHandler, Stage, InFlight, Served
    <3>2. QED
          BY <1>3, <2>4, <3>1 DEF HandlerReturns
  <2>5. ASSUME NEW a \in Stopper, CallShutdown(a) \/ CallClose(a) \/ ShutdownExpires(a)
        PROVE  UNCHANGED <<srv, InFlight, Nils>>
    <3>1. Nils' = Nils
          BY <2>5, NilsSame DEF CallShutdown, CallClose, ShutdownExpires, StopTo, Stopper
    <3>2. QED
          BY <1>2, <2>5, <3>1 DEF CallShutdown, CallClose, ShutdownExpires, connVars
  <2>6. QED
        BY <1>1, <1>4, <1>6, <2>1, <2>2, <2>3, <2>4, <2>5 DEF Environment, AfterFuncRuns, Stopper
<1>7. ASSUME NEW c \in Conn, DeferStep(c) PROVE [Contract!Next]_(Contract!vars)
  <2>1. CASE CountClosed(c)
    <3>1. InFlight' = InFlight \ {c}
          BY <2>1 DEF CountClosed, Stage, InFlight, Served, Loop
    <3>2. Contract!Finish(c)
          BY <1>3, <2>1, <3>1 DEF CountClosed, Contract!Finish, Nils
    <3>3. QED
          BY <3>2 DEF Contract!Next
  <2>2. CASE ReleaseAdmit(c) \/ ReleasePerIP(c) \/ untrack(c) \/ UncountActive(c)
    <3>1. InFlight' = InFlight
          BY <2>2 DEF ReleaseAdmit, ReleasePerIP, untrack, UncountActive, Stage, InFlight, Served
    <3>2. QED
          BY <1>1, <1>3, <2>2, <3>1 DEF ReleaseAdmit, ReleasePerIP, untrack, UncountActive
  <2>3. QED
        BY <1>7, <2>1, <2>2 DEF DeferStep
<1>8. ASSUME NEW a \in Stopper, StopStep(a) PROVE [Contract!Next]_(Contract!vars)
  <2>i. InFlight' = InFlight
        BY <1>2, <1>8 DEF StopStep, StopFirst, StopRest, StopPassed, ShutdownServing, ShutdownDone,
           abortAll, AbortClose, AbortDone, connVars
  <2>1. CASE StopFirst(a) /\ ~srv.stopped
    <3>1. srv'.serving = srv.serving /\ srv'.done = srv.done /\ srv'.stopped
          BY <2>1 DEF StopFirst
    <3>2. Contract!Stop
          BY <1>3, <2>1, <2>i, <3>1 DEF StopFirst, Contract!Stop, Nils
    <3>3. QED
          BY <3>2 DEF Contract!Next
  <2>2. CASE (StopFirst(a) /\ srv.stopped) \/ StopRest(a)
    <3>1. srv'.serving = srv.serving /\ srv'.done = srv.done /\ srv'.stopped = srv.stopped
          BY <2>2, ZenonT(30) DEF StopFirst, StopRest, ClosedDraining
    <3>2. QED
          BY <1>3, <2>2, <2>i, <3>1 DEF StopFirst, StopRest, Contract!vars, Nils
  <2>3. CASE StopPassed(a) \/ AbortDone(a)
    <3>1. Nils' = Nils
          BY <2>3, NilsSame DEF StopPassed, AbortDone, StopTo, Stopper
    <3>2. QED
          BY <1>1, <2>3, <2>i, <3>1 DEF StopPassed, AbortDone
  <2>4. CASE ShutdownServing(a) \/ ShutdownDone(a)
    <3>1. CASE Nils' = Nils
          BY <1>1, <2>4, <2>i, <3>1 DEF ShutdownServing, ShutdownDone
    <3>2. CASE Nils' # Nils
      <4>1. a \in Caller /\ Nils' = Nils \cup {a} /\ (srv.done \/ ~srv.serving)
            BY <2>4, <3>2 DEF ShutdownServing, ShutdownDone, ServeDone, StopTo, Nils, Stopper
      <4>2. srv.stopped
            BY <2>4 DEF ShutdownServing, ShutdownDone, Stopped
      <4>3. Contract!ShutdownNil(a)
            BY <2>4, <2>i, <4>1, <4>2 DEF ShutdownServing, ShutdownDone, Contract!ShutdownNil, Nils
      <4>4. QED
            BY <4>1, <4>3 DEF Contract!Next
    <3>3. QED
          BY <3>1, <3>2
  <2>5. CASE abortAll(a)
    <3>1. Nils' = Nils
          BY <2>5, NilsSame DEF abortAll, Stopper
    <3>2. srv'.serving = srv.serving /\ srv'.done = srv.done /\ srv'.stopped = srv.stopped
          BY <2>5 DEF abortAll
    <3>3. QED
          BY <2>i, <3>1, <3>2 DEF Contract!vars, Nils
  <2>6. CASE AbortClose(a)
    <3>1. Nils' = Nils
          BY <2>6, NilsSame DEF AbortClose, Stopper
    <3>2. QED
          BY <1>1, <2>6, <2>i, <3>1 DEF AbortClose
  <2>7. QED
        BY <1>8, <2>1, <2>2, <2>3, <2>4, <2>5, <2>6, SMTT(30) DEF StopStep
<1>9. CASE UNCHANGED vars
      BY <1>1, <1>2, <1>3, <1>9 DEF vars, connVars
<1>10. QED
      BY <1>5, <1>6, <1>7, <1>8, <1>9 DEF Next

\* tcp.Server implements the Service contract for any connections, keys and callers:
\* it admits nothing after the stop, Serve returns when no handler runs or will, and
\* Shutdown returns nil only then.
THEOREM ServerImplementsService == Spec => ImplementsService
<1>1. Init => Contract!Init
  <2>1. Init => InFlight = {} /\ Nils = {}
        BY DEF Init, InFlight, Served, Nils, Stopper
  <2>2. Init => srv.serving = FALSE /\ srv.stopped = FALSE /\ srv.done = FALSE
        BY SMTT(30) DEF Init
  <2>3. QED
        BY <2>1, <2>2, SMTT(30) DEF Contract!Init, Nils
<1>2. QED
      BY <1>1, InitInv, NextInv, NextImplements, PTL DEF Spec, ImplementsService, Contract!Spec

\* What makes ShutdownNilIsQuiet inductive in the contract: work is in flight only
\* while Serve runs.
Quieted ==
  /\ srv.done \/ ~srv.serving => InFlight = {}
  /\ srv.done => srv.serving
  /\ Contract!ShutdownNilIsQuiet

\* Every step of the contract preserves it.
LEMMA QuietedNext == Quieted /\ [Contract!Next]_(Contract!vars) => Quieted'
<1> SUFFICES ASSUME Quieted, [Contract!Next]_(Contract!vars) PROVE Quieted'
    OBVIOUS
<1> USE DEF Quieted, Contract!ShutdownNilIsQuiet
<1>1. CASE Contract!Serve
      BY <1>1 DEF Contract!Serve
<1>2. CASE Contract!Stop
      BY <1>2 DEF Contract!Stop
<1>3. CASE Contract!ServeReturns
      BY <1>3 DEF Contract!ServeReturns
<1>4. ASSUME NEW c \in Conn, Contract!Accept(c) PROVE Quieted'
      BY <1>4 DEF Contract!Accept
<1>5. ASSUME NEW c \in Conn, Contract!Finish(c) PROVE Quieted'
      BY <1>5 DEF Contract!Finish
<1>6. ASSUME NEW a \in Caller, Contract!ShutdownNil(a) PROVE Quieted'
      BY <1>6 DEF Contract!ShutdownNil
<1>7. CASE UNCHANGED Contract!vars
      BY <1>7 DEF Contract!vars
<1>8. QED
      BY <1>1, <1>2, <1>3, <1>4, <1>5, <1>6, <1>7 DEF Contract!Next

\* Once a Shutdown of tcp.Server has returned nil no connection is served, and none
\* will be, whatever Serve, the handlers and other callers do.
THEOREM NilShutdownIsQuiet == Spec => []Contract!ShutdownNilIsQuiet
<1>1. Contract!Init => Quieted
      BY DEF Contract!Init, Quieted, Contract!ShutdownNilIsQuiet
<1>2. Quieted => Contract!ShutdownNilIsQuiet
      BY DEF Quieted
<1>3. QED
      BY <1>1, <1>2, QuietedNext, ServerImplementsService, PTL DEF ImplementsService, Contract!Spec
-----------------------------------------------------------------------------
(* abortAll *)

\* The connections that a handler has or is about to get.
Live == {c \in Conn : st[c] = "handler" \/ (loop.cur = c /\ loop.at \in {"count", "spawn"})}

\* What makes AbortMissesNone inductive: live connections are tracked, so that a snapshot
\* has them all, and none becomes live after the stop; an abortAll under way still
\* has every open one before it.
Aborting ==
  /\ hist \in [aborted : BOOLEAN, cause : BOOLEAN]
  /\ Live \subseteq conns
  /\ \A a \in Stopper :
       stop[a].at = "closing" => srv.ctxDone /\ Live \cap open \subseteq stop[a].victims
  /\ hist.aborted => srv.stopped /\ (Live # {} => srv.ctxDone) /\ Live \cap open = {}

\* A connection becomes live only in track, before the stop.
LEMMA LiveStep ==
  ASSUME Inv, [Next]_vars
  PROVE  \/ Live' \subseteq Live
         \/ track /\ ~srv.stopped /\ Live' \subseteq Live \cup {loop.cur}
<1> USE DEF Inv, Types, Live, LoopTo
<1>1. CASE UNCHANGED <<loop, st>>
      BY <1>1
<1>2. CASE AcceptFails
      BY <1>2, ZenonT(30) DEF AcceptFails, connVars
<1>3. CASE LoopStep
  <2>1. CASE BackoffOver \/ FailedAbort \/ CountAccepted \/ ServeWait \/ ServeReturn
        BY <2>1 DEF BackoffOver, FailedAbort, CountAccepted, ServeWait, ServeReturn, connVars
  <2>2. ASSUME NEW k \in IP \cup {NoKey}, CheckPerIP(k) PROVE Live' \subseteq Live
        BY <2>2, Zenon DEF CheckPerIP, Discard
  <2>3. CASE CheckAdmit
        BY <2>3, Zenon DEF CheckAdmit, Discard, connVars
  <2>4. CASE track
        BY <2>4, Zenon DEF track, isStopped, Discard, connVars
  <2>5. CASE Spawn
        BY <2>5 DEF Spawn
  <2>6. QED
        BY <1>2, <1>3, <2>1, <2>2, <2>3, <2>4, <2>5 DEF LoopStep
<1>4. CASE Environment
  <2>1. CASE Serve
        BY <2>1 DEF Serve, connVars
  <2>2. ASSUME NEW c \in Conn, AcceptConn(c) \/ HandlerReturns(c) PROVE Live' \subseteq Live
        BY <2>2, ZenonT(30) DEF AcceptConn, HandlerReturns, AfterHandler, Stage
  <2>3. ASSUME NEW a \in Stopper, CallShutdown(a) \/ CallClose(a) \/ ShutdownExpires(a)
        PROVE  UNCHANGED <<loop, st>>
        BY <2>3 DEF CallShutdown, CallClose, ShutdownExpires, connVars
  <2>4. QED
        BY <1>1, <1>2, <1>4, <2>1, <2>2, <2>3 DEF Environment, AfterFuncRuns, Stopper
<1>5. ASSUME NEW c \in Conn, DeferStep(c) PROVE Live' \subseteq Live
      BY <1>5 DEF DeferStep, ReleaseAdmit, ReleasePerIP, untrack, UncountActive, CountClosed, Stage
<1>6. ASSUME NEW a \in Stopper, StopStep(a) PROVE UNCHANGED <<loop, st>>
      BY <1>6 DEF StopStep, StopFirst, StopRest, StopPassed, ShutdownServing, ShutdownDone, abortAll,
         AbortClose, AbortDone, connVars
<1>7. CASE UNCHANGED vars
      BY <1>1, <1>7, SMTT(30) DEF vars, connVars
<1>8. QED
      BY <1>1, <1>3, <1>4, <1>5, <1>6, <1>7 DEF Next

\* A step that opens no live connection, untracks none, and moves no abortAll on.
Calm ==
  /\ Live' \subseteq Live /\ Live' \cap conns \subseteq conns' /\ Live' \cap open' \subseteq open
  /\ (srv.stopped => srv'.stopped) /\ (srv.ctxDone => srv'.ctxDone)
  /\ \A a \in Stopper :
       stop'[a].at = "closing" => stop[a].at = "closing" /\ stop'[a].victims = stop[a].victims
  /\ hist' \in [aborted : BOOLEAN, cause : BOOLEAN] /\ hist'.aborted = hist.aborted

\* Calm steps, which open no gap between Live, conns and the victims, keep Aborting.
LEMMA CalmKeepsAborting ==
  ASSUME Aborting, Calm
  PROVE  Aborting'
<1>1. (Live \subseteq conns)'
      BY DEF Aborting, Calm
<1>2. ASSUME NEW a \in Stopper, stop'[a].at = "closing"
      PROVE  srv'.ctxDone /\ Live' \cap open' \subseteq stop'[a].victims
  <2>1. Live \cap open \subseteq stop'[a].victims
        BY <1>2 DEF Aborting, Calm
  <2>2. QED
        BY <1>2, <2>1 DEF Aborting, Calm
<1>3. ASSUME hist'.aborted
      PROVE  srv'.stopped /\ (Live' # {} => srv'.ctxDone) /\ Live' \cap open' = {}
      BY <1>3 DEF Aborting, Calm
<1>4. QED
      BY <1>1, <1>2, <1>3 DEF Aborting, Calm

\* Every step keeps the snapshot of abortAll complete.
LEMMA NextAborting == Inv /\ Aborting /\ [Next]_vars => Aborting'
<1> SUFFICES ASSUME Inv, Aborting, [Next]_vars PROVE Aborting'
    OBVIOUS
<1>l. Live' \subseteq Live \/ track
      BY LiveStep
<1>h. hist \in [aborted : BOOLEAN, cause : BOOLEAN]
      BY DEF Aborting
<1>t. Types
      BY DEF Inv
<1>1. CASE Calm
      BY <1>1, CalmKeepsAborting
<1>2. CASE UNCHANGED <<srv, conns, open, stop, hist>> /\ ~track
      BY <1>l, <1>h, <1>2, CalmKeepsAborting DEF Calm
<1>3. CASE AcceptFails
  <2>1. UNCHANGED <<srv, conns, open>> /\ ~track
        BY <1>3 DEF AcceptFails, track, connVars
  <2>2. hist' \in [aborted : BOOLEAN, cause : BOOLEAN] /\ hist'.aborted = hist.aborted
        BY <1>h, <1>3, Zenon DEF AcceptFails, Cause
  <2>3. \A a \in Stopper :
          stop'[a].at = "closing" => stop[a].at = "closing" /\ stop'[a].victims = stop[a].victims
        BY <1>t, <1>3 DEF AcceptFails, Types
  <2>4. Calm
        BY <1>l, <2>1, <2>2, <2>3 DEF Calm
  <2>5. QED
        BY <1>1, <2>4
<1>4. CASE LoopStep
  <2>1. CASE BackoffOver \/ FailedAbort \/ CountAccepted \/ Spawn
        BY <1>2, <2>1 DEF BackoffOver, FailedAbort, CountAccepted, Spawn, track, connVars
  <2>2. CASE CheckAdmit \/ \E k \in IP \cup {NoKey} : CheckPerIP(k)
    <3>1. UNCHANGED <<srv, conns, stop, hist>> /\ open' \subseteq open /\ ~track
          BY <2>2 DEF CheckAdmit, CheckPerIP, Discard, track, connVars
    <3>2. QED
          BY <1>1, <1>l, <1>h, <3>1 DEF Calm
  <2>3. CASE track /\ isStopped
    <3>1. UNCHANGED <<srv, conns, stop, hist>> /\ open' \subseteq open
          BY <2>3 DEF track, Discard
    <3>2. Live' \subseteq Live
          BY <2>3, LiveStep DEF isStopped
    <3>3. QED
          BY <1>1, <1>h, <3>1, <3>2 DEF Calm
  <2>4. CASE track /\ ~isStopped
    <3>1. UNCHANGED <<srv, open, stop, hist>> /\ conns' = conns \cup {loop.cur}
          BY <2>4 DEF track, connVars
    <3>2. Live' \subseteq Live \cup {loop.cur}
          BY LiveStep
    <3>3. ~hist.aborted /\ \A a \in Stopper : stop[a].at # "closing"
          BY <2>4 DEF isStopped, Aborting, Inv, Stopped
    <3>4. (Live \subseteq conns)'
          BY <3>1, <3>2 DEF Aborting
    <3>5. QED
          BY <3>1, <3>3, <3>4 DEF Aborting
  <2>5. CASE ServeWait \/ ServeReturn
    <3>1. UNCHANGED <<conns, open, stop, hist>> /\ ~track
          BY <2>5 DEF ServeWait, ServeReturn, track, connVars
    <3>2. (srv.stopped => srv'.stopped) /\ (srv.ctxDone => srv'.ctxDone)
          BY <1>t, <2>5 DEF ServeWait, ServeReturn, Types
    <3>3. QED
          BY <1>1, <1>l, <1>h, <3>1, <3>2 DEF Calm
  <2>6. QED
        BY <1>3, <1>4, <2>1, <2>2, <2>3, <2>4, <2>5 DEF LoopStep
<1>5. CASE Environment
  <2>1. CASE Serve /\ isStopped
        BY <1>2, <2>1 DEF Serve, track, connVars
  <2>2. CASE Serve /\ ~isStopped
    <3>1. ~hist.aborted /\ \A a \in Stopper : stop[a].at # "closing"
          BY <2>2 DEF isStopped, Aborting, Inv, Stopped
    <3>2. UNCHANGED <<conns, stop, hist>> /\ ~track
          BY <2>2 DEF Serve, track
    <3>3. QED
          BY <1>l, <3>1, <3>2 DEF Aborting
  <2>3. ASSUME NEW c \in Conn, AcceptConn(c) PROVE Aborting'
    <3>1. UNCHANGED <<srv, conns, stop, hist>> /\ open' = open \cup {c} /\ ~track
          BY <2>3 DEF AcceptConn, track
    <3>2. c \notin Live'
          BY <1>t, <2>3 DEF AcceptConn, Live, Types
    <3>3. QED
          BY <1>1, <1>l, <1>h, <3>1, <3>2 DEF Calm
  <2>4. ASSUME NEW c \in Conn, HandlerReturns(c) PROVE Aborting'
    <3>1. UNCHANGED <<srv, conns, stop, hist, loop>> /\ open' \subseteq open
          BY <2>4 DEF HandlerReturns
    <3>2. ~track
          BY <1>t, <3>1, Zenon DEF track, Discard, LoopTo, Types
    <3>3. QED
          BY <1>1, <1>l, <1>h, <3>1, <3>2 DEF Calm
  <2>5. ASSUME NEW a \in Stopper, CallShutdown(a) \/ CallClose(a) \/ ShutdownExpires(a) PROVE Aborting'
    <3>1. UNCHANGED <<srv, conns, open, loop, st>>
          BY <2>5 DEF CallShutdown, CallClose, ShutdownExpires, connVars
    <3>2. hist' \in [aborted : BOOLEAN, cause : BOOLEAN] /\ hist'.aborted = hist.aborted
          BY <1>h, <2>5, Zenon DEF CallShutdown, CallClose, ShutdownExpires, Cause
    <3>3. \A b \in Stopper :
            stop'[b].at = "closing" => stop[b].at = "closing" /\ stop'[b].victims = stop[b].victims
          BY <1>t, <2>5 DEF CallShutdown, CallClose, ShutdownExpires, StopTo, Types
    <3>4. Live' = Live
          BY <3>1 DEF Live
    <3>5. QED
          BY <1>1, <3>1, <3>2, <3>3, <3>4 DEF Calm
  <2>6. QED
        BY <1>3, <1>5, <2>1, <2>2, <2>3, <2>4, <2>5 DEF Environment, AfterFuncRuns, Stopper
<1>6. ASSUME NEW c \in Conn, DeferStep(c) PROVE Aborting'
  <2>1. UNCHANGED <<srv, open, stop, hist, loop>> /\ st' = [st EXCEPT ![c] = st'[c]]
        BY <1>6 DEF DeferStep, ReleaseAdmit, ReleasePerIP, untrack, UncountActive, CountClosed, Stage
  <2>2. c \notin Live /\ conns \ {c} \subseteq conns'
        BY <1>6 DEF DeferStep, ReleaseAdmit, ReleasePerIP, untrack, UncountActive, CountClosed, Stage,
           Live, Inv, Loop
  <2>3. ~track
        BY <1>t, <2>1, Zenon DEF track, Discard, LoopTo, Types
  <2>4. QED
        BY <1>1, <1>l, <1>h, <2>1, <2>2, <2>3 DEF Calm
<1>7. ASSUME NEW a \in Stopper, StopStep(a) PROVE Aborting'
  <2>1. UNCHANGED <<conns, loop, st>>
        BY <1>7 DEF StopStep, StopFirst, StopRest, StopPassed, ShutdownServing, ShutdownDone, abortAll,
           AbortClose, AbortDone, connVars
  <2>2. Live' = Live
        BY <2>1 DEF Live
  <2>3. CASE StopFirst(a) \/ StopRest(a)
    <3>1. UNCHANGED <<open, stop, hist>>
          BY <2>3 DEF StopFirst, StopRest, connVars
    <3>2. (srv.stopped => srv'.stopped) /\ (srv.ctxDone => srv'.ctxDone)
          BY <1>t, <2>3, ZenonT(30) DEF StopFirst, StopRest, ClosedDraining, Types
    <3>3. QED
          BY <1>1, <1>h, <2>1, <2>2, <3>1, <3>2 DEF Calm
  <2>4. CASE StopPassed(a) \/ ShutdownServing(a) \/ ShutdownDone(a)
    <3>1. UNCHANGED <<srv, open, hist>>
          BY <2>4 DEF StopPassed, ShutdownServing, ShutdownDone, connVars
    <3>2. \A b \in Stopper :
            stop'[b].at = "closing" => stop[b].at = "closing" /\ stop'[b].victims = stop[b].victims
          BY <1>t, <2>4 DEF StopPassed, ShutdownServing, ShutdownDone, StopTo, Types
    <3>3. QED
          BY <1>1, <1>h, <2>1, <2>2, <3>1, <3>2 DEF Calm
  <2>5. CASE abortAll(a)
    <3>1. UNCHANGED <<open, hist>> /\ srv'.ctxDone /\ srv'.stopped = srv.stopped
          BY <1>t, <2>5 DEF abortAll, connVars, Types
    <3>2. \A b \in Stopper : stop'[b].victims = IF b = a THEN conns ELSE stop[b].victims
          BY <1>t, <2>5 DEF abortAll, Types
    <3>3. \A b \in Stopper \ {a} : stop'[b].at = stop[b].at
          BY <1>t, <2>5 DEF abortAll, Types
    <3>4. QED
          BY <2>1, <2>2, <3>1, <3>2, <3>3 DEF Aborting
  <2>6. CASE AbortClose(a)
    <3>1. PICK c \in stop[a].victims :
                 open' = open \ {c} /\ stop' = [stop EXCEPT ![a].victims = @ \ {c}]
          BY <2>6, Zenon DEF AbortClose
    <3>2. UNCHANGED <<srv, hist>>
          BY <2>6 DEF AbortClose
    <3>3. \A b \in Stopper : /\ stop'[b].at = stop[b].at
                            /\ stop'[b].victims = IF b = a THEN stop[b].victims \ {c} ELSE stop[b].victims
          BY <1>t, <3>1, ZenonT(30) DEF Types
    <3>4. ASSUME NEW b \in Stopper, stop'[b].at = "closing"
          PROVE  srv'.ctxDone /\ Live' \cap open' \subseteq stop'[b].victims
          BY <2>2, <3>1, <3>2, <3>3, <3>4 DEF Aborting
    <3>5. QED
          BY <2>1, <2>2, <3>1, <3>2, <3>4 DEF Aborting
  <2>7. CASE AbortDone(a)
    <3>1. UNCHANGED <<srv, open>> /\ stop[a].at = "closing" /\ stop[a].victims = {}
          BY <2>7, SMTT(30) DEF AbortDone, connVars
    <3>2. srv.ctxDone /\ srv.stopped /\ Live \cap open = {}
          BY <3>1 DEF Aborting, Inv, Stopped
    <3>3. \A b \in Stopper :
            stop'[b].at = "closing" => stop[b].at = "closing" /\ stop'[b].victims = stop[b].victims
          BY <1>t, <2>7 DEF AbortDone, StopTo, Types
    <3>4. hist' \in [aborted : BOOLEAN, cause : BOOLEAN]
          BY <1>h, <2>7, ZenonT(30) DEF AbortDone
    <3>5. QED
          BY <2>1, <2>2, <3>1, <3>2, <3>3, <3>4 DEF Aborting
  <2>8. QED
        BY <1>7, <2>3, <2>4, <2>5, <2>6, <2>7 DEF StopStep
<1>8. CASE UNCHANGED vars
  <2>1. Live' = Live
        BY <1>8 DEF vars, connVars, Live
  <2>2. QED
        BY <1>1, <1>h, <1>8, <2>1, SMTT(30) DEF Calm, vars, connVars
<1>9. QED
      BY <1>4, <1>5, <1>6, <1>7, <1>8 DEF Next

\* An abortAll that has finished has closed every connection that a handler has or may
\* still get and cancelled its context, for any number of connections and stoppers.
THEOREM AbortNeverMisses == Spec => []AbortMissesNone
<1>1. Init => Aborting
  <2>1. Init => Live = {}
        BY SMTT(30) DEF Init, Live
  <2>2. QED
        BY <2>1, SMTT(30) DEF Init, Aborting
<1>2. Aborting => AbortMissesNone
      BY DEF Aborting, AbortMissesNone, Live
<1>3. QED
      BY <1>1, <1>2, InitInv, NextInv, NextAborting, PTL DEF Spec
-----------------------------------------------------------------------------
(* What Shutdown and Close may cut short *)

\* A reason to abort precedes every abort, and a context that ended without one is that of a
\* Serve on its way out.
Causes ==
  /\ hist \in [aborted : BOOLEAN, cause : BOOLEAN]
  /\ \A a \in Stopper : stop[a].at \in {"stopAccept", "abortAll", "closing", "finished"} => hist.cause
  /\ srv.ctxDone => hist.cause \/ loop.at \in {"return", "returned"}

\* Where a stopper is that has a reason to abort.
Blamed == {"stopAccept", "abortAll", "closing", "finished"}

\* A step that ends no context and gives no stopper work, or does so for a reason, and does
\* not take Serve back into its loop, keeps Causes.
LEMMA CauseKept ==
  ASSUME Causes, hist' \in [aborted : BOOLEAN, cause : BOOLEAN], hist.cause => hist'.cause,
         \A a \in Stopper : stop'[a].at \in Blamed => stop[a].at \in Blamed \/ hist'.cause,
         srv'.ctxDone => srv.ctxDone \/ hist'.cause \/ loop'.at = "return",
         loop.at \in {"return", "returned"} => loop'.at \in {"return", "returned"}
  PROVE  Causes'
  BY DEF Causes, Blamed

\* Every step keeps a reason behind every abort.
LEMMA NextCauses == Inv /\ Causes /\ [Next]_vars => Causes'
<1> SUFFICES ASSUME Inv, Causes, [Next]_vars PROVE Causes'
    OBVIOUS
<1>t. Types
      BY DEF Inv
<1>h. hist \in [aborted : BOOLEAN, cause : BOOLEAN]
      BY DEF Causes
<1>1. ASSUME UNCHANGED <<srv, stop, hist>>,
             loop.at \in {"return", "returned"} => loop'.at \in {"return", "returned"}
      PROVE  Causes'
      BY <1>1, <1>h, CauseKept
<1>2. CASE AcceptFails
  <2>1. loop.at = "accept" /\ UNCHANGED srv
        BY <1>2 DEF AcceptFails
  <2>2. CASE UNCHANGED <<stop, hist>>
        BY <1>1, <2>1, <2>2, SMTT(30)
  <2>3. CASE Cause /\ stop' = [stop EXCEPT ![AcceptLoop].at = "stopAccept"]
    <3>1. hist' \in [aborted : BOOLEAN, cause : BOOLEAN] /\ hist'.cause
          BY <1>h, <2>3, Zenon DEF Cause
    <3>2. QED
          BY <2>1, <3>1, CauseKept
  <2>4. QED
        BY <1>2, <2>2, <2>3 DEF AcceptFails
<1>3. CASE Serve
  <2>1. loop.at = "unserved" /\ UNCHANGED <<stop, hist>> /\ (UNCHANGED srv \/ ~srv'.ctxDone)
        BY <1>t, <1>3, ZenonT(30) DEF Serve, Types
  <2>2. QED
        BY <1>h, <2>1, CauseKept
<1>4. CASE ServeWait
  <2>1. loop.at = "wait" /\ loop'.at = "return" /\ UNCHANGED <<stop, hist>>
        BY <1>t, <1>4 DEF ServeWait, LoopTo, Types
  <2>2. QED
        BY <1>h, <2>1, CauseKept
<1>5. CASE ServeReturn
  <2>1. loop'.at = "returned" /\ UNCHANGED <<stop, hist>> /\ srv'.ctxDone = srv.ctxDone
        BY <1>t, <1>5 DEF ServeReturn, LoopTo, Types
  <2>2. QED
        BY <1>h, <2>1, CauseKept
<1>6. CASE BackoffOver \/ FailedAbort \/ (\E k \in IP \cup {NoKey} : CheckPerIP(k)) \/ CheckAdmit
           \/ track \/ CountAccepted \/ Spawn
  <2>1. UNCHANGED <<srv, stop, hist>> /\ loop.at \notin {"return", "returned"}
        BY <1>6 DEF BackoffOver, FailedAbort, CheckPerIP, CheckAdmit, track, CountAccepted, Spawn
  <2>2. QED
        BY <1>1, <2>1
<1>7. ASSUME NEW c \in Conn, AcceptConn(c) \/ HandlerReturns(c) \/ DeferStep(c) PROVE Causes'
  <2>1. UNCHANGED <<srv, stop, hist>> /\ (loop.at = "accept" \/ UNCHANGED loop)
        BY <1>7 DEF AcceptConn, HandlerReturns, DeferStep, ReleaseAdmit, ReleasePerIP, untrack,
           UncountActive, CountClosed
  <2>2. QED
        BY <1>1, <2>1
<1>8. ASSUME NEW a \in Stopper, CallClose(a) \/ ShutdownExpires(a) PROVE Causes'
  <2>1. UNCHANGED <<srv, loop>> /\ Cause
        BY <1>8 DEF CallClose, ShutdownExpires
  <2>2. hist' \in [aborted : BOOLEAN, cause : BOOLEAN] /\ hist'.cause
        BY <1>h, <2>1, Zenon DEF Cause
  <2>3. QED
        BY <2>1, <2>2, CauseKept
<1>9. ASSUME NEW a \in Stopper, CallShutdown(a) \/ StopFirst(a) \/ StopRest(a) \/ StopPassed(a)
                                \/ ShutdownServing(a) \/ ShutdownDone(a)
      PROVE  Causes'
  <2>1. UNCHANGED <<loop, hist>> /\ srv'.ctxDone = srv.ctxDone
        BY <1>t, <1>9, Zenon DEF CallShutdown, StopFirst, StopRest, ClosedDraining, StopPassed,
           ShutdownServing, ShutdownDone, Types
  <2>2. stop'[a].at \in Blamed => stop[a].at \in Blamed
        BY <1>t, <1>9 DEF CallShutdown, StopFirst, StopRest, StopPassed, ShutdownServing, ShutdownDone,
           StopTo, Types, Blamed
  <2>3. \A b \in Stopper \ {a} : stop'[b] = stop[b]
        BY <1>t, <1>9 DEF CallShutdown, StopFirst, StopRest, StopPassed, ShutdownServing, ShutdownDone,
           StopTo, Types
  <2>4. QED
        BY <1>h, <2>1, <2>2, <2>3, CauseKept
<1>10. ASSUME NEW a \in Stopper, abortAll(a) PROVE Causes'
  <2>1. hist.cause /\ UNCHANGED <<loop, hist>>
        BY <1>10 DEF abortAll, Causes
  <2>2. QED
        BY <1>h, <2>1, CauseKept
<1>11. ASSUME NEW a \in Stopper, AbortClose(a) \/ AbortDone(a) PROVE Causes'
  <2>1. stop[a].at = "closing" /\ UNCHANGED <<loop, srv>>
        BY <1>11 DEF AbortClose, AbortDone
  <2>2. hist.cause
        BY <2>1 DEF Causes
  <2>3. hist' \in [aborted : BOOLEAN, cause : BOOLEAN] /\ hist'.cause
        BY <1>h, <1>11, <2>2, ZenonT(30) DEF AbortClose, AbortDone
  <2>4. QED
        BY <2>1, <2>3, CauseKept
<1>12. CASE UNCHANGED vars
       BY <1>1, <1>12 DEF vars
<1>13. CASE Environment
       BY <1>2, <1>3, <1>7, <1>8, <1>9, <1>13 DEF Environment, AfterFuncRuns, Stopper
<1>14. CASE LoopStep
       BY <1>2, <1>4, <1>5, <1>6, <1>14 DEF LoopStep
<1>15. ASSUME NEW a \in Stopper, StopStep(a) PROVE Causes'
       BY <1>9, <1>10, <1>11, <1>15 DEF StopStep
<1>16. QED
       BY <1>7, <1>12, <1>13, <1>14, <1>15, SMTT(30) DEF Next

\* Draining alone never cancels a handler: abortAll runs only for a stopper with a reason,
\* and the abort() at the end of Serve finds no handler running.
THEOREM DrainingKeepsHandlers == Spec => []DrainKeepsHandlers
<1>1. ASSUME Init PROVE Causes
  <2>1. hist = [aborted |-> FALSE, cause |-> FALSE]
        BY <1>1 DEF Init
  <2>2. hist \in [aborted : BOOLEAN, cause : BOOLEAN]
        BY <2>1, Zenon
  <2>3. \A a \in Stopper : stop[a].at = "idle"
        BY <1>1 DEF Init
  <2>4. srv.ctxDone = FALSE
        BY <1>1 DEF Init
  <2>5. QED
        BY <2>2, <2>3, <2>4 DEF Causes
<1>2. Inv /\ Causes => DrainKeepsHandlers
      BY DEF Inv, Loop, Causes, Served, DrainKeepsHandlers
<1>3. QED
      BY <1>1, <1>2, InitInv, NextInv, NextCauses, PTL DEF Spec
=============================================================================
