------------------------------ MODULE Lifecycle ------------------------------
(* netx.Server and netx.Group (lifecycle.go): the one-shot run from OnStart to  *)
(* OnStop with its drain and abort phases, the OS signal goroutine of Loop, and *)
(* concurrent Stop and Shutdown callers, over a Group of services.  A service   *)
(* is any implementation of the Service contract.  An error is the set of its   *)
(* causes: nil is {} and errors.Join is union.                                  *)
EXTENDS Integers, FiniteSets, Sequences

CONSTANTS
  Member,      \* the services of the Group
  Caller,      \* goroutines that call Shutdown
  Signals      \* how many OS signals may arrive

ASSUME LifecycleAssumption ==
  IsFiniteSet(Member) /\ Member # {} /\ Signals \in Nat

VARIABLES
  opt,       \* fixed: is ShutdownTimeout positive; does a member's Serve fail if
             \* its Shutdown came first, as those of tcp and udp do
  state,     \* Server.state
  stopCtx,   \* is the context that begin returned done?
  force,     \* Server.force: "nil", "open" or "closed"
  done,      \* Server.done closed
  result,    \* Server.result
  at,        \* where LoopContext is
  errs,      \* LoopContext's errors: start, serve, shutdown, stop
  returned,  \* LoopContext's local: Serve returned before the drain
  runCtx,    \* service context cancelled (abort)
  drainCtx,  \* Shutdown's context: "none", "live", "canceled" or "deadline"
  wired,     \* is the goroutine that waits for force running?
  group,     \* Group.Serve: "none", "running" or "returned"; its ctx; its error
  mem,       \* each member: its Serve and Shutdown calls and their errors
  sig,       \* signals arrived and signals the goroutine in Loop has handled
  call,      \* each Shutdown caller: where it is, what it returned
  onError    \* history: the errors OnError was called with

vars == <<opt, state, stopCtx, force, done, result, at, errs, returned, runCtx, drainCtx, wired,
          group, mem, sig, call, onError>>
loopVars == <<result, at, errs, returned, onError>>
srvVars == <<opt, state, stopCtx, force, done>>
ctxVars == <<runCtx, drainCtx, wired>>

\* An error with one cause: what failed, and whose it is.
Err(kind) == {<<kind, "server">>}
ErrOf(m, kind) == {<<kind, m>>}

Init ==
  /\ opt \in [timed : BOOLEAN, refuses : BOOLEAN]
  /\ state = "new" /\ stopCtx = FALSE /\ force = "nil" /\ done = FALSE /\ result = {}
  /\ at = "begin" /\ returned = FALSE /\ onError = <<>>
  /\ errs = [start |-> {}, serve |-> {}, shutdown |-> {}, stop |-> {}]
  /\ runCtx = FALSE /\ drainCtx = "none" /\ wired = FALSE
  /\ group = [at |-> "none", ctx |-> FALSE, err |-> {}]
  /\ mem = [m \in Member |-> [serve |-> "none", serveErr |-> {}, down |-> "none", downErr |-> {}]]
  /\ sig = [arrived |-> 0, handled |-> 0]
  /\ call = [c \in Caller |-> [at |-> "idle", err |-> {}]]
-----------------------------------------------------------------------------
(* LoopContext *)

Goto(label) == at' = label

\* begin: one-shot; a second LoopContext returns ErrAlreadyRunning, no change.
begin ==
  /\ at = "begin" /\ state = "new"
  /\ state' = "starting" /\ force' = "open" /\ Goto("start")
  /\ UNCHANGED <<opt, stopCtx, done, result, errs, returned, onError, ctxVars, group, mem, sig, call>>

\* OnStart succeeds: running, and go Serve.
Started ==
  /\ at = "start" /\ Goto("wait") /\ state' = "running"
  /\ group' = [group EXCEPT !.at = "running"]
  /\ mem' = [m \in Member |-> [mem[m] EXCEPT !.serve = "spawned"]]
  /\ UNCHANGED <<opt, stopCtx, force, done, result, errs, returned, onError, ctxVars, sig, call>>

CallShutdown == mem' = [m \in Member |-> [mem[m] EXCEPT !.down = "called"]]

\* OnStart fails: the service is shut down, with nothing waiting for force.
StartFailed ==
  /\ at = "start"
  /\ errs' = [errs EXCEPT !.start = Err("start")]
  /\ drainCtx' = "live" /\ CallShutdown /\ Goto("startShutdown")
  /\ UNCHANGED <<srvVars, result, returned, onError, runCtx, wired, group, sig, call>>

\* select: Serve returned, or a stop was requested.
WaitOver ==
  /\ at = "wait" /\ Goto("stopping")
  /\ \/ /\ group.at = "returned" /\ returned' = TRUE
        /\ errs' = [errs EXCEPT !.serve = group.err]
     \/ stopCtx /\ UNCHANGED <<returned, errs>>
  /\ UNCHANGED <<srvVars, result, onError, ctxVars, group, mem, sig, call>>

\* The drain leaves the service context alone and watches force.
DrainAborts == drainCtx' = "live" /\ wired' = TRUE /\ runCtx' = TRUE  \* mutated form
DrainNoForce == drainCtx' = "live" /\ UNCHANGED <<wired, runCtx>>     \* mutated form
DrainContexts == drainCtx' = "live" /\ wired' = TRUE /\ UNCHANGED runCtx

\* state stopping, the drain context, its force watcher, and Service.Shutdown.
StartDrain ==
  /\ at = "stopping" /\ state' = "stopping" /\ Goto("shutdown")
  /\ DrainContexts /\ CallShutdown
  /\ UNCHANGED <<opt, stopCtx, force, done, result, errs, returned, onError, group, sig, call>>

\* Group.Shutdown returns when every member's Shutdown has: errors.Join.
DownErrs == UNION {mem[m].downErr : m \in Member}

ShutdownReturns ==
  /\ at \in {"shutdown", "startShutdown"} /\ \A m \in Member : mem[m].down = "returned"
  /\ errs' = [errs EXCEPT !.shutdown = DownErrs]
  /\ Goto(IF at = "startShutdown" \/ returned THEN "onStop" ELSE "abort")
  /\ UNCHANGED <<srvVars, result, returned, onError, ctxVars, group, mem, sig, call>>

Abort ==
  /\ at = "abort" /\ runCtx' = TRUE /\ Goto("grace")
  /\ UNCHANGED <<srvVars, result, errs, returned, onError, drainCtx, wired, group, mem, sig, call>>

\* time.After(AbortGrace) may fire whenever Serve has not returned yet.
AbortGrace == group.at # "returned"

\* Serve returns after the abort, or AbortGrace passes.
GraceOver ==
  /\ at = "grace" /\ Goto("onStop")
  /\ \/ group.at = "returned" /\ errs' = [errs EXCEPT !.serve = group.err]
     \/ AbortGrace /\ errs' = [errs EXCEPT !.serve = Err("abortTimeout")]
  /\ UNCHANGED <<srvVars, result, returned, onError, ctxVars, group, mem, sig, call>>

onStop ==
  /\ at = "onStop" /\ Goto("report")
  /\ \E e \in {{}, Err("stop")} : errs' = [errs EXCEPT !.stop = e]
  /\ UNCHANGED <<srvVars, result, returned, onError, ctxVars, group, mem, sig, call>>

\* ignoreCanceled: the whole error goes when context.Canceled is among its
\* causes; the failed-start path does not filter.
ignoreCanceled(e) == IF Err("canceled") \subseteq e THEN {} ELSE e

FinalFilters == ignoreCanceled(errs.serve \cup errs.shutdown) \cup errs.stop \* mutated form
Final ==
  IF errs.start # {} THEN errs.start \cup errs.shutdown \cup errs.stop
  ELSE errs.serve \cup ignoreCanceled(errs.shutdown) \cup errs.stop

\* report: OnError gets the error, if there is one; its panic is appended.
reportAlways == TRUE                                               \* mutated form
reportNeeded == Final # {}

Reported == Append(onError, Final)

report ==
  /\ at = "report" /\ Goto("finish")
  /\ IF reportNeeded
       THEN /\ onError' = Reported
            /\ \E e \in {{}, Err("onErrorPanic")} : result' = Final \cup e
       ELSE result' = {} /\ UNCHANGED onError
  /\ UNCHANGED <<srvVars, errs, returned, ctxVars, group, mem, sig, call>>

\* The deferred calls: cancel, abort, then finish under mu.
finish ==
  /\ at = "finish" /\ Goto("returned")
  /\ drainCtx' = IF drainCtx = "live" THEN "canceled" ELSE drainCtx
  /\ runCtx' = TRUE /\ stopCtx' = TRUE /\ state' = "stopped" /\ done' = TRUE
  /\ UNCHANGED <<opt, force, result, errs, returned, onError, wired, group, mem, sig, call>>

\* The drain context's own deadline, and the goroutine that waits for force.
DrainDeadline ==
  /\ opt.timed /\ drainCtx = "live" /\ drainCtx' = "deadline"
  /\ UNCHANGED <<srvVars, loopVars, runCtx, wired, group, mem, sig, call>>

ForceWatcher ==
  /\ wired /\ force = "closed" /\ drainCtx = "live" /\ drainCtx' = "canceled"
  /\ UNCHANGED <<srvVars, loopVars, runCtx, wired, group, mem, sig, call>>
-----------------------------------------------------------------------------
(* Loop's signal goroutine; Stop and Shutdown *)

\* A signal is delivered to the channel of Loop, which keeps two.
Signal ==
  /\ sig.arrived < Signals /\ ~done
  /\ sig' = [sig EXCEPT !.arrived = @ + 1]
  /\ UNCHANGED <<srvVars, loopVars, ctxVars, group, mem, call>>

\* First signal: cancel.  Second signal: forceAbort, a no-op while force is nil.
HandleSignal ==
  /\ sig.handled < sig.arrived /\ sig.handled < 2 /\ ~done
  /\ sig' = [sig EXCEPT !.handled = @ + 1]
  /\ IF sig.handled = 0
       THEN stopCtx' = TRUE /\ UNCHANGED force
       ELSE force' = (IF force = "nil" THEN "nil" ELSE "closed") /\ UNCHANGED stopCtx
  /\ UNCHANGED <<opt, state, done, loopVars, ctxVars, group, mem, call>>

\* The context given to LoopContext ends.
ParentDone ==
  /\ ~stopCtx /\ at # "begin" /\ stopCtx' = TRUE
  /\ UNCHANGED <<opt, state, force, done, loopVars, ctxVars, group, mem, sig, call>>

\* Shutdown: Stop under mu, then wait for done or for the caller's ctx.
Stop(c) ==
  /\ call[c].at = "idle"
  /\ IF state \in {"new", "stopped"}
       THEN call' = [call EXCEPT ![c] = [at |-> "returned", err |-> {"notRunning"}]] /\ UNCHANGED stopCtx
       ELSE call' = [call EXCEPT ![c].at = "waiting"] /\ stopCtx' = TRUE
  /\ UNCHANGED <<opt, state, force, done, loopVars, ctxVars, group, mem, sig>>

ShutdownDone(c) ==
  /\ call[c].at = "waiting" /\ done
  /\ call' = [call EXCEPT ![c] = [at |-> "final", err |-> result]]
  /\ UNCHANGED <<srvVars, loopVars, ctxVars, group, mem, sig>>

ShutdownGivesUp(c) ==
  /\ call[c].at = "waiting"
  /\ call' = [call EXCEPT ![c] = [at |-> "returned", err |-> {"ctx"}]]
  /\ UNCHANGED <<srvVars, loopVars, ctxVars, group, mem, sig>>
-----------------------------------------------------------------------------
(* Group.Serve and the members, which follow the Service contract *)

\* The context of the members: the group's own, derived from runCtx.
GroupCtx == group.ctx \/ runCtx

\* A member's Serve starts; it may find that Shutdown came first.
ServeStarts(m) ==
  /\ mem[m].serve = "spawned"
  /\ mem' = [mem EXCEPT ![m].serve =
               IF opt.refuses /\ mem[m].down # "none" THEN "refused" ELSE "serving"]
  /\ UNCHANGED <<srvVars, loopVars, ctxVars, group, sig, call>>

\* errs[i] = s.Serve(ctx); any error aborts the others.
ServeReturns(m, err) ==
  /\ mem' = [mem EXCEPT ![m].serve = "returned", ![m].serveErr = err]
  /\ group' = [group EXCEPT !.ctx = @ \/ err # {}]
  /\ UNCHANGED <<srvVars, loopVars, ctxVars, sig, call>>

ServeRefuses(m) == mem[m].serve = "refused" /\ ServeReturns(m, ErrOf(m, "closed"))
ServeFails(m) == mem[m].serve = "serving" /\ ServeReturns(m, ErrOf(m, "serve"))
\* Serve returns because its context ended, or because its Shutdown gave up.
ServeAborted(m) ==
  /\ mem[m].serve = "serving"
  /\ GroupCtx \/ mem[m].downErr \in {Err("canceled"), Err("deadline")}
  /\ ServeReturns(m, {})
\* Serve returns nil: drained, or early.
ServeEnds(m) == mem[m].serve = "serving" /\ ServeReturns(m, {})

\* wg.Wait and errors.Join.
GroupReturns ==
  /\ group.at = "running" /\ \A m \in Member : mem[m].serve = "returned"
  /\ group' = [group EXCEPT !.at = "returned", !.err = UNION {mem[m].serveErr : m \in Member}]
  /\ UNCHANGED <<srvVars, loopVars, ctxVars, mem, sig, call>>

\* A member's Shutdown returns nil once Serve has returned or never ran, the
\* context's error once that ended, or an error of its own.
DownReturns(m, err) ==
  /\ mem[m].down = "called"
  /\ mem' = [mem EXCEPT ![m].down = "returned", ![m].downErr = err]
  /\ UNCHANGED <<srvVars, loopVars, ctxVars, group, sig, call>>

DownDrained(m) == mem[m].serve \in {"none", "spawned", "returned"} /\ DownReturns(m, {})
DownExpires(m) == drainCtx \in {"canceled", "deadline"} /\ DownReturns(m, Err(drainCtx))
DownFails(m) == DownReturns(m, ErrOf(m, "shutdown"))
-----------------------------------------------------------------------------
\* LoopContext and the goroutines it starts.
LoopStep ==
  \/ begin \/ Started \/ StartFailed \/ WaitOver \/ StartDrain \/ ShutdownReturns
  \/ Abort \/ GraceOver \/ onStop \/ report \/ finish

Prompt(m) == ServeStarts(m) \/ ServeRefuses(m) \/ DownExpires(m) \/ DownDrained(m)

Environment ==
  \/ Signal \/ ParentDone
  \/ \E c \in Caller : Stop(c) \/ ShutdownGivesUp(c)
  \/ \E m \in Member : ServeFails(m) \/ ServeEnds(m) \/ DownFails(m)

Next ==
  \/ LoopStep \/ DrainDeadline \/ ForceWatcher \/ HandleSignal \/ GroupReturns
  \/ \E c \in Caller : ShutdownDone(c)
  \/ \E m \in Member : Prompt(m) \/ ServeAborted(m)
  \/ Environment

Spec == Init /\ [][Next]_vars

\* Goroutines that can run do, hooks return, timers fire, Shutdown honours its
\* context (runtime.md: it is trusted to).  A Serve may ignore the end of its
\* context, and nobody has to drain.
FairSpec ==
  /\ Spec /\ WF_vars(LoopStep) /\ WF_vars(DrainDeadline) /\ WF_vars(ForceWatcher)
  /\ WF_vars(HandleSignal) /\ WF_vars(GroupReturns)
  /\ \A c \in Caller : WF_vars(ShutdownDone(c))
  /\ \A m \in Member : WF_vars(Prompt(m))
-----------------------------------------------------------------------------
\* OnError is called exactly once when the run fails and never when it succeeds,
\* with the error LoopContext returns (report, on both exit paths).
OnErrorOnce ==
  done => /\ result = {} <=> onError = <<>>
          /\ onError # <<>> => Len(onError) = 1 /\ onError[1] = result \ Err("onErrorPanic")

\* Unless LoopContext says that it gave up waiting (ErrAbortTimeout), when it
\* returns every Serve it started has returned and the error of each is in the
\* result, whichever of Serve and the stop came first.
ServeErrorsSurvive ==
  done /\ ~(Err("abortTimeout") \subseteq result) =>
    \A m \in Member : /\ mem[m].serve \in {"none", "returned"}
                      /\ mem[m].serveErr \subseteq result

\* A stop never ends a member's context: that happens only after every Shutdown
\* has returned, or because the Serve of a member failed (LoopContext, Group.Serve).
StopDoesNotAbort ==
  GroupCtx => \/ \A m \in Member : mem[m].down = "returned"
              \/ \E m \in Member : mem[m].serveErr # {}

\* ARCHITECTURE.md of a stop signal: "starts the drain. It does **not** cancel
\* the service context", unless a service fails by itself.
StopLeavesContext ==
  GroupCtx => \/ \A m \in Member : mem[m].down = "returned"
              \/ \E m \in Member : mem[m].serveErr = ErrOf(m, "serve")

\* runtime.md: the result joins the Shutdown errors except context.Canceled.
ShutdownErrorsSurvive == done => errs.shutdown \ Err("canceled") \subseteq result

\* LoopContext returns although members never drain and a Serve ignores its
\* context: after a stop if ShutdownTimeout bounds the drain (AbortGrace bounds
\* the abort), and after a second signal that forceAbort passes on, always.
StopEndsLoop == ((opt.timed /\ stopCtx /\ at # "begin") \/ force = "closed") ~> done
=============================================================================
