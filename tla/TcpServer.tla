------------------------------ MODULE TcpServer ------------------------------
(* tcp.Server (tcp/server.go): the accept loop run by Serve, one serveConn     *)
(* goroutine per admitted connection, and concurrent Shutdown and Close calls, *)
(* one of them possibly made by the context.AfterFunc that Serve registers.    *)
(* Each mutex section, counter update, channel operation and limiter call is   *)
(* one action.                                                                 *)
EXTENDS Integers, FiniteSets

CONSTANTS
  Conn,        \* connections the listener may hand out
  IP,          \* MaxConnsPerIP keys
  NoKey,       \* the key of an address that has none (ipKey reports false)
  Caller,      \* goroutines that call Shutdown or Close
  AcceptLoop,  \* the goroutine in Serve
  AfterFunc,   \* the goroutine that context.AfterFunc starts
  MaxPerIP,    \* Options.MaxConnsPerIP
  MaxErrors    \* bound on temporary accept errors, for model checking

ASSUME TcpAssumption ==
  /\ IsFiniteSet(Conn) /\ NoKey \notin IP
  /\ MaxPerIP \in Nat \ {0} /\ MaxErrors \in Nat
  /\ AcceptLoop \notin Caller /\ AfterFunc \notin Caller /\ AcceptLoop # AfterFunc
  /\ "none" \notin Conn \cup Caller \cup {AcceptLoop, AfterFunc}
  /\ "done" \notin Caller \cup {AcceptLoop, AfterFunc}

\* Everybody who may run stopAccept and abortAll.
Stopper == Caller \cup {AcceptLoop, AfterFunc}

None == "none"

VARIABLES
  srv,      \* Server: serving, stopped, draining, done; stopOnce (None, who
            \* runs it, or "done"); the listener closed; handler ctx cancelled
  conns,    \* Server.conns
  wg,       \* Server.wg
  admit,    \* Admit permits in use
  perIP,    \* PerKey permits in use for each key
  cnt,      \* the counters of Stats
  loop,     \* Serve: where it is, its connection, its error
  st,       \* stage of each connection
  key,      \* the ipKey slot each connection holds
  open,     \* sockets not closed yet
  stop,     \* each stopper: where it is, abortAll's snapshot
  hist      \* history: an abortAll finished; someone had a reason to abort

connVars == <<st, key, open>>
vars == <<srv, conns, wg, admit, perIP, cnt, loop, connVars, stop, hist>>

Init ==
  /\ srv = [serving |-> FALSE, stopped |-> FALSE, once |-> None, lnClosed |-> FALSE,
            draining |-> FALSE, done |-> FALSE, ctxDone |-> FALSE]
  /\ conns = {} /\ wg = 0 /\ admit = 0 /\ perIP = [i \in IP |-> 0]
  /\ cnt = [accepted |-> 0, rejected |-> 0, rejectedPerIP |-> 0,
            active |-> 0, closed |-> 0, acceptErrors |-> 0]
  /\ loop = [at |-> "unserved", cur |-> None, failed |-> FALSE]
  /\ st = [c \in Conn |-> "new"] /\ key = [c \in Conn |-> NoKey] /\ open = {}
  /\ stop = [a \in Stopper |-> [at |-> "idle", victims |-> {}]]
  /\ hist = [aborted |-> FALSE, cause |-> FALSE]
-----------------------------------------------------------------------------
Inc(field) == cnt' = [cnt EXCEPT ![field] = @ + 1]
LoopTo(label) == loop' = [loop EXCEPT !.at = label]
Cause == hist' = [hist EXCEPT !.cause = TRUE]

\* PerKey.TryAcquire refuses at the limit.
PerIPFull(k) == k # NoKey /\ perIP[k] >= MaxPerIP

\* releasePerIP: return the slot of c's key, if it holds one.
releasePerIPNot(c) == UNCHANGED <<perIP, key>>                     \* mutated form
releasePerIP(c) ==
  /\ perIP' = IF key[c] \in IP THEN [perIP EXCEPT ![key[c]] = @ - 1] ELSE perIP
  /\ key' = [key EXCEPT ![c] = NoKey]

isStoppedNot == FALSE                                              \* mutated form
isStopped == srv.stopped
-----------------------------------------------------------------------------
(* Serve and acceptLoop *)

\* A second Serve returns an error and changes nothing.
Serve ==
  /\ loop.at = "unserved"
  /\ IF isStopped
       THEN LoopTo("returned") /\ UNCHANGED srv
       ELSE LoopTo("accept") /\ srv' = [srv EXCEPT !.serving = TRUE, !.ctxDone = FALSE]
  /\ UNCHANGED <<conns, wg, admit, perIP, cnt, connVars, stop, hist>>

\* Accept hands over a connection (a listener may do so even after its Close).
AcceptConn(c) ==
  /\ loop.at = "accept" /\ st[c] = "new"
  /\ loop' = [loop EXCEPT !.at = "perIP", !.cur = c]
  /\ st' = [st EXCEPT ![c] = "accepted"] /\ open' = open \cup {c}
  /\ UNCHANGED <<srv, conns, wg, admit, perIP, cnt, key, stop, hist>>

\* Accept fails (a closed listener must, any listener may): the server was
\* stopped on purpose, or the error is temporary, or it is permanent, and then
\* the loop calls stopAccept and Serve calls abortAll.
AcceptFails ==
  /\ loop.at = "accept"
  /\ \/ isStopped /\ LoopTo("wait") /\ UNCHANGED <<cnt, stop, hist>>
     \/ /\ ~isStopped /\ cnt.acceptErrors < MaxErrors
        /\ Inc("acceptErrors") /\ LoopTo("backoff") /\ UNCHANGED <<stop, hist>>
     \/ /\ ~isStopped
        /\ loop' = [loop EXCEPT !.at = "failing", !.failed = TRUE]
        /\ stop' = [stop EXCEPT ![AcceptLoop].at = "stopAccept"]
        /\ Cause /\ UNCHANGED cnt
  /\ UNCHANGED <<srv, conns, wg, admit, perIP, connVars>>

\* backoff.Wait: the timer fires, or draining is closed and the loop returns.
BackoffOver ==
  /\ loop.at = "backoff"
  /\ LoopTo("accept") \/ (srv.draining /\ LoopTo("wait"))
  /\ UNCHANGED <<srv, conns, wg, admit, perIP, cnt, connVars, stop, hist>>

FailedAbort ==
  /\ loop.at = "failing" /\ stop[AcceptLoop].at = "finished" /\ LoopTo("wait")
  /\ UNCHANGED <<srv, conns, wg, admit, perIP, cnt, connVars, stop, hist>>

\* The loop gives up its connection: close the socket and go on at label.
Discard(label) ==
  /\ st' = [st EXCEPT ![loop.cur] = "gone"] /\ open' = open \ {loop.cur}
  /\ loop' = [loop EXCEPT !.at = label, !.cur = None]

\* ipKey finds the connection's key k (or none) and PerKey.TryAcquire counts it.
CheckPerIP(k) ==
  /\ loop.at = "perIP"
  /\ IF PerIPFull(k)
       THEN Inc("rejectedPerIP") /\ Discard("accept") /\ UNCHANGED <<perIP, key>>
       ELSE /\ key' = [key EXCEPT ![loop.cur] = k]
            /\ perIP' = IF k # NoKey THEN [perIP EXCEPT ![k] = @ + 1] ELSE perIP
            /\ LoopTo("admit") /\ UNCHANGED <<cnt, st, open>>
  /\ UNCHANGED <<srv, conns, wg, admit, stop, hist>>

\* Options.Admit is any limit.Limiter: its TryAcquire may refuse at any time.
CheckAdmit ==
  /\ loop.at = "admit"
  /\ \/ releasePerIP(loop.cur) /\ Inc("rejected") /\ Discard("accept") /\ UNCHANGED admit
     \/ admit' = admit + 1 /\ LoopTo("track") /\ UNCHANGED <<perIP, cnt, connVars>>
  /\ UNCHANGED <<srv, conns, wg, stop, hist>>

\* track: refused once stopped; then release, close and return.
track ==
  /\ loop.at = "track"
  /\ IF isStopped
       THEN admit' = admit - 1 /\ releasePerIP(loop.cur) /\ Discard("wait") /\ UNCHANGED conns
       ELSE conns' = conns \cup {loop.cur} /\ LoopTo("count") /\ UNCHANGED <<admit, perIP, connVars>>
  /\ UNCHANGED <<srv, wg, cnt, stop, hist>>

CountAccepted ==
  /\ loop.at = "count" /\ Inc("accepted") /\ LoopTo("spawn")
  /\ UNCHANGED <<srv, conns, wg, admit, perIP, connVars, stop, hist>>

\* active.Inc, wg.Add(1) and go serveConn.
Spawn ==
  /\ loop.at = "spawn" /\ Inc("active") /\ wg' = wg + 1
  /\ st' = [st EXCEPT ![loop.cur] = "handler"]
  /\ loop' = [loop EXCEPT !.at = "accept", !.cur = None]
  /\ UNCHANGED <<srv, conns, admit, perIP, key, open, stop, hist>>

\* wg.Wait, then abort() frees the handler context.
AllReturnedNot == TRUE                                             \* mutated form
AllReturned == wg = 0
ServeWait ==
  /\ loop.at = "wait" /\ AllReturned
  /\ srv' = [srv EXCEPT !.ctxDone = TRUE] /\ LoopTo("return")
  /\ UNCHANGED <<conns, wg, admit, perIP, cnt, connVars, stop, hist>>

\* The deferred calls: stop() disarms the AfterFunc, then done is closed.
ServeReturn ==
  /\ loop.at = "return"
  /\ srv' = [srv EXCEPT !.done = TRUE] /\ LoopTo("returned")
  /\ UNCHANGED <<conns, wg, admit, perIP, cnt, connVars, stop, hist>>
-----------------------------------------------------------------------------
(* serveConn: the handler, then the deferred calls in reverse order *)

Stage(c, from, to) == st[c] = from /\ st' = [st EXCEPT ![c] = to]

\* The handler returns, whenever it likes, and c.Close runs.
AfterHandlerSwapped == "untrack"                                   \* mutated form
AfterHandler == "release"
HandlerReturns(c) ==
  /\ Stage(c, "handler", AfterHandler) /\ open' = open \ {c}
  /\ UNCHANGED <<srv, conns, wg, admit, perIP, cnt, loop, key, stop, hist>>

\* release: the Admit permit, then the per-IP slot.
ReleaseAdmit(c) ==
  /\ Stage(c, "release", "releasePerIP") /\ admit' = admit - 1
  /\ UNCHANGED <<srv, conns, wg, perIP, cnt, loop, key, open, stop, hist>>

ReleasePerIP(c) ==
  /\ Stage(c, "releasePerIP", "untrack") /\ releasePerIP(c)
  /\ UNCHANGED <<srv, conns, wg, admit, cnt, loop, open, stop, hist>>

untrack(c) ==
  /\ Stage(c, "untrack", "uncount") /\ conns' = conns \ {c}
  /\ UNCHANGED <<srv, wg, admit, perIP, cnt, loop, key, open, stop, hist>>

UncountActive(c) ==
  /\ Stage(c, "uncount", "countClosed") /\ cnt' = [cnt EXCEPT !.active = @ - 1]
  /\ UNCHANGED <<srv, conns, wg, admit, perIP, loop, key, open, stop, hist>>

\* closed.Inc and wg.Done.
wgDoneNot == UNCHANGED wg                                          \* mutated form
wgDone == wg' = wg - 1
CountClosed(c) ==
  /\ Stage(c, "countClosed", "gone") /\ Inc("closed") /\ wgDone
  /\ UNCHANGED <<srv, conns, admit, perIP, loop, key, open, stop, hist>>
-----------------------------------------------------------------------------
(* stopAccept and abortAll, run by any stopper a; Shutdown and Close *)

StopTo(a, label) == stop' = [stop EXCEPT ![a].at = label]

\* A caller calls Shutdown or Close.
CallShutdown(a) ==
  /\ stop[a].at = "idle" /\ StopTo(a, "shutdown")
  /\ UNCHANGED <<srv, conns, wg, admit, perIP, cnt, loop, connVars, hist>>

CallClose(a) ==
  /\ stop[a].at = "idle" /\ StopTo(a, "stopAccept") /\ Cause
  /\ UNCHANGED <<srv, conns, wg, admit, perIP, cnt, loop, connVars>>

\* Serve's ctx has ended, and the AfterFunc registered on it calls Close in a
\* goroutine of its own, unless Serve returned first and disarmed it.
AfterFuncRuns == srv.serving /\ ~srv.done /\ CallClose(AfterFunc)

\* stopOnce.Do: the first caller sets stopped under mu, closes the listener and
\* closes draining; every other caller waits until all that has happened.
StopFirst(a) ==
  /\ stop[a].at \in {"stopAccept", "shutdown"} /\ srv.once = None
  /\ srv' = [srv EXCEPT !.once = a, !.stopped = TRUE]
  /\ UNCHANGED <<conns, wg, admit, perIP, cnt, loop, connVars, stop, hist>>

ClosedDrainingAborts == [srv EXCEPT !.draining = TRUE, !.once = "done", !.ctxDone = TRUE] \* mutated form
ClosedDraining == [srv EXCEPT !.draining = TRUE, !.once = "done"]
StopRest(a) ==
  /\ srv.once = a
  /\ srv' = IF srv.lnClosed THEN ClosedDraining ELSE [srv EXCEPT !.lnClosed = TRUE]
  /\ UNCHANGED <<conns, wg, admit, perIP, cnt, loop, connVars, stop, hist>>

StopPassed(a) ==
  /\ stop[a].at \in {"stopAccept", "shutdown"} /\ srv.once = "done"
  /\ StopTo(a, IF stop[a].at = "shutdown" THEN "serving?" ELSE "abortAll")
  /\ UNCHANGED <<srv, conns, wg, admit, perIP, cnt, loop, connVars, hist>>

\* Shutdown: not serving is nil, done is nil, the end of its ctx aborts.
ShutdownServing(a) ==
  /\ stop[a].at = "serving?"
  /\ StopTo(a, IF srv.serving THEN "select" ELSE "nil")
  /\ UNCHANGED <<srv, conns, wg, admit, perIP, cnt, loop, connVars, hist>>

ServeDoneEarly == srv.draining                                     \* mutated form
ServeDone == srv.done
ShutdownDone(a) ==
  /\ stop[a].at = "select" /\ ServeDone /\ StopTo(a, "nil")
  /\ UNCHANGED <<srv, conns, wg, admit, perIP, cnt, loop, connVars, hist>>

ShutdownExpires(a) ==
  /\ stop[a].at = "select" /\ StopTo(a, "abortAll") /\ Cause
  /\ UNCHANGED <<srv, conns, wg, admit, perIP, cnt, loop, connVars>>

\* abortAll: cancel and take the snapshot under mu, then close one by one.
abortAll(a) ==
  /\ stop[a].at = "abortAll"
  /\ srv' = [srv EXCEPT !.ctxDone = TRUE]
  /\ stop' = [stop EXCEPT ![a] = [at |-> "closing", victims |-> conns]]
  /\ UNCHANGED <<conns, wg, admit, perIP, cnt, loop, connVars, hist>>

AbortClose(a) ==
  /\ stop[a].at = "closing"
  /\ \E c \in stop[a].victims :
       open' = open \ {c} /\ stop' = [stop EXCEPT ![a].victims = @ \ {c}]
  /\ UNCHANGED <<srv, conns, wg, admit, perIP, cnt, loop, st, key, hist>>

AbortDone(a) ==
  /\ stop[a] = [at |-> "closing", victims |-> {}] /\ StopTo(a, "finished")
  /\ hist' = [hist EXCEPT !.aborted = TRUE]
  /\ UNCHANGED <<srv, conns, wg, admit, perIP, cnt, loop, connVars>>

-----------------------------------------------------------------------------
LoopStep ==
  \/ (srv.lnClosed /\ AcceptFails) \/ BackoffOver \/ FailedAbort
  \/ (\E k \in IP \cup {NoKey} : CheckPerIP(k)) \/ CheckAdmit \/ track
  \/ CountAccepted \/ Spawn \/ ServeWait \/ ServeReturn

DeferStep(c) ==
  ReleaseAdmit(c) \/ ReleasePerIP(c) \/ untrack(c) \/ UncountActive(c) \/ CountClosed(c)

StopStep(a) ==
  \/ StopFirst(a) \/ StopRest(a) \/ StopPassed(a) \/ ShutdownServing(a) \/ ShutdownDone(a)
  \/ abortAll(a) \/ AbortClose(a) \/ AbortDone(a)

\* What the network, the handlers and the callers do when they choose to.
Environment ==
  \/ Serve \/ AcceptFails \/ AfterFuncRuns
  \/ \E c \in Conn : AcceptConn(c) \/ HandlerReturns(c)
  \/ \E a \in Caller : CallShutdown(a) \/ CallClose(a) \/ ShutdownExpires(a)

Next ==
  \/ LoopStep \/ Environment
  \/ \E c \in Conn : DeferStep(c)
  \/ \E a \in Stopper : StopStep(a)

Spec == Init /\ [][Next]_vars

\* Goroutines that can run do, a closed listener fails Accept, and a handler
\* returns once its context is cancelled or its connection closed (the Handler
\* contract on Abort).
FairSpec ==
  /\ Spec /\ WF_vars(LoopStep \/ StopStep(AcceptLoop))
  /\ \A c \in Conn :
       WF_vars(DeferStep(c) \/ ((srv.ctxDone \/ c \notin open) /\ HandlerReturns(c)))
  /\ \A a \in Stopper \ {AcceptLoop} : WF_vars(StopStep(a))
-----------------------------------------------------------------------------
(* Correctness *)

\* The connections for which serveConn is running.
Served == {c \in Conn : st[c] \notin {"new", "accepted", "gone"}}

\* Connections that hold an Admit permit.
AdmitHolders ==
  {c \in Conn : st[c] \in {"handler", "release"}
                  \/ (c = loop.cur /\ loop.at \in {"track", "count", "spawn"})}

\* Admission accounting: every permit in use belongs to exactly one live
\* connection, on every path of the loop (refused per IP, refused by Admit,
\* refused by track) and whatever stop or abort runs meanwhile; and no key holds
\* more than MaxConnsPerIP.
SlotsBalance ==
  /\ admit = Cardinality(AdmitHolders)
  /\ \A k \in IP : /\ perIP[k] = Cardinality({c \in Conn : key[c] = k /\ st[c] # "gone"})
                   /\ perIP[k] <= MaxPerIP

\* "A Closed count never runs ahead of the slots it frees": the permits in use
\* are covered by connections not yet counted as closed and the loop's own.
ClosedNeverAhead ==
  admit <= cnt.accepted - cnt.closed + (IF loop.at \in {"track", "count"} THEN 1 ELSE 0)

\* When Serve has returned after serving, no handler runs or ever will, every
\* accepted socket is closed, every slot is back and the counters agree.
ServeLeavesNothing ==
  srv.done => /\ Served = {} /\ conns = {} /\ open = {}
              /\ admit = 0 /\ \A k \in IP : perIP[k] = 0
              /\ cnt.active = 0 /\ cnt.accepted = cnt.closed

\* A connection is the server's work from track until serveConn ends.
InFlight == Served \cup (IF loop.at \in {"count", "spawn"} THEN {loop.cur} ELSE {})

Contract == INSTANCE Service WITH
  Work <- Conn, work <- InFlight, serving <- srv.serving, done <- srv.done,
  stop <- IF srv.stopped THEN "stopped" ELSE "no", nils <- {a \in Caller : stop[a].at = "nil"}

\* tcp.Server implements the Service contract: nothing is admitted after the stop,
\* Serve returns when no handler runs, and Shutdown returns nil only then, although
\* "not serving" is read after stopAccept and Serve may be starting.
ImplementsService == Contract!Spec

\* Once some abortAll has finished, every connection that a handler has or may
\* still get is closed, although the snapshot was taken while the loop could
\* be between track and go.
AbortMissesNone ==
  hist.aborted => \A c \in Conn :
    (st[c] = "handler" \/ (loop.cur = c /\ loop.at \in {"count", "spawn"}))
      => c \notin open /\ srv.ctxDone

\* Draining alone never cancels a handler: while one runs its context is
\* cancelled only if there was a Close, an expired Shutdown, a cancelled Serve
\* or a permanent accept error.
DrainKeepsHandlers == (srv.ctxDone /\ \E c \in Conn : st[c] = "handler") => hist.cause

\* Liveness: a stop makes Serve return wherever the loop is (in Accept, in its
\* backoff, between track and go); only a handler can hold it up, and not once
\* there is a reason to abort.
StopEndsServe ==
  (srv.stopped /\ srv.serving) ~> (srv.done \/ (~hist.cause /\ \E c \in Conn : st[c] = "handler"))
=============================================================================
