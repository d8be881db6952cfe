------------------------ MODULE LifecycleLimitProofs -------------------------
(* Proofs about netx.Server over a Group, for any members, callers and signals;  *)
(* about limit.Rate, for any cost, refill and burst; and about limit.All, for    *)
(* any finite set of goroutines and any non-empty list of limiters.              *)
EXTENDS Lifecycle, Rate, Limit, FiniteSetTheorems, TLAPS

(* netx.Server *)

Labels == {"begin", "start", "wait", "stopping", "shutdown", "startShutdown", "abort", "grace",
           "onStop", "report", "finish", "returned"}

\* What an error can be made of; only report adds the panic of OnError.
Cause ==
  {"start", "stop", "serve", "closed", "shutdown", "canceled", "deadline", "abortTimeout"}
    \X (Member \cup {"server"})

MemberType ==
  [serve : {"none", "spawned", "serving", "refused", "returned"}, serveErr : SUBSET Cause,
   down : {"none", "called", "returned"}, downErr : SUBSET Cause]
ErrsType ==
  [start : SUBSET Cause, serve : SUBSET Cause, shutdown : SUBSET Cause, stop : SUBSET Cause]
GroupType == [at : {"none", "running", "returned"}, ctx : BOOLEAN, err : SUBSET Cause]

Types ==
  /\ at \in Labels /\ errs \in ErrsType /\ group \in GroupType /\ mem \in [Member -> MemberType]
  /\ returned \in BOOLEAN /\ runCtx \in BOOLEAN /\ done \in BOOLEAN
  /\ drainCtx \in {"none", "live", "canceled", "deadline"}

\* Group.Serve and its members: an error is there once its Serve has returned, the Group
\* returns after all of them and with their errors, and its own context ends for an error only.
Grouped ==
  /\ group.at = "none" => \A m \in Member : mem[m].serve = "none"
  /\ group.at = "returned" =>
       /\ \A m \in Member : mem[m].serve = "returned"
       /\ group.err = UNION {mem[m].serveErr : m \in Member}
  /\ \A m \in Member : mem[m].serve # "returned" => mem[m].serveErr = {}
  /\ group.ctx => \E m \in Member : mem[m].serveErr # {}

\* The last part of LoopContext, which both exit paths share.
Exit == {"onStop", "report", "finish", "returned"}

\* What LoopContext knows of Serve: nothing started before OnStart succeeded or if it failed, and
\* on the way out it has the error of the Group, unless it gave up waiting.
Waited ==
  /\ at \in {"begin", "start", "startShutdown"} => group.at = "none" /\ ~returned
  /\ errs.start # {} => at \in {"startShutdown"} \cup Exit /\ group.at = "none"
  /\ at = "startShutdown" => errs.start # {}
  /\ returned => group.at = "returned" /\ errs.serve = group.err
  /\ at \in Exit /\ errs.start = {} =>
       errs.serve = Err("abortTimeout") \/ (group.at = "returned" /\ errs.serve = group.err)

\* The service context outlives every Shutdown.
Drained ==
  /\ runCtx => at \in {"grace"} \cup Exit
  /\ at \in {"abort", "grace"} \cup Exit => \A m \in Member : mem[m].down = "returned"

\* OnError and the result, before and after report.
Outcome ==
  /\ done => at = "returned"
  /\ at \notin {"finish", "returned"} => result = {} /\ onError = <<>>
  /\ at \in {"finish", "returned"} =>
       \/ Final = {} /\ result = {} /\ onError = <<>>
       \/ /\ Final # {} /\ onError = <<Final>>
          /\ result = Final \/ result = Final \cup Err("onErrorPanic")

Inv == Types /\ Grouped /\ Waited /\ Drained /\ Outcome
-----------------------------------------------------------------------------
\* Nothing has started, failed or been reported.
LEMMA InitInv == Init => Inv
<1> SUFFICES ASSUME Init PROVE Inv
    OBVIOUS
<1>1. Types
      BY Zenon DEF Init, Types, Labels, ErrsType, GroupType, MemberType
<1>2. Grouped /\ Waited /\ Drained /\ Outcome
      BY DEF Init, Grouped, Waited, Drained, Outcome, Exit
<1>3. QED
      BY <1>1, <1>2 DEF Inv

\* The errors the model names are sets of causes.
LEMMA ErrType ==
  /\ \A kind \in {"start", "stop", "canceled", "deadline", "abortTimeout"} : Err(kind) \in SUBSET Cause
  /\ \A m \in Member, kind \in {"serve", "closed", "shutdown"} : ErrOf(m, kind) \in SUBSET Cause
  BY DEF Err, ErrOf, Cause

\* The contexts, signals and Stop or Shutdown callers.
Aside ==
  /\ UNCHANGED <<at, errs, group, mem, returned, runCtx, done, result, onError>>
  /\ drainCtx' \in {"none", "live", "canceled", "deadline"}

Others(m) == \A q \in Member : q # m => mem'[q] = mem[q]

\* A member's Serve starts, or it returns with err, which aborts the others.
Serves(m) ==
  /\ UNCHANGED <<at, errs, group, returned, runCtx, drainCtx, done, result, onError>>
  /\ mem' \in [Member -> MemberType] /\ Others(m)
  /\ mem[m].serve = "spawned" /\ mem'[m].serve # "returned"
  /\ mem'[m].serveErr = mem[m].serveErr /\ mem'[m].down = mem[m].down
Served(m) ==
  /\ UNCHANGED <<at, errs, returned, runCtx, drainCtx, done, result, onError>>
  /\ mem' \in [Member -> MemberType] /\ Others(m)
  /\ mem[m].serve \in {"refused", "serving"} /\ mem'[m].serve = "returned"
  /\ mem'[m].down = mem[m].down
  /\ group' \in GroupType /\ group'.at = group.at /\ group'.err = group.err
  /\ group'.ctx => group.ctx \/ mem'[m].serveErr # {}

\* A member's Shutdown returns.
Downs(m) ==
  /\ UNCHANGED <<at, errs, group, returned, runCtx, drainCtx, done, result, onError>>
  /\ mem' \in [Member -> MemberType] /\ Others(m)
  /\ mem'[m].down = "returned" /\ mem'[m].serve = mem[m].serve /\ mem'[m].serveErr = mem[m].serveErr

\* A member's Serve that starts has no error yet, and the other members stay as they are.
LEMMA ServeStartsEffect ==
  ASSUME Types, NEW m \in Member, ServeStarts(m)
  PROVE  Serves(m)
<1>1. PICK to \in {"refused", "serving"} : mem' = [mem EXCEPT ![m].serve = to]
      BY Zenon DEF ServeStarts
<1>2. mem[m] \in MemberType
      BY DEF Types
<1>3. [mem[m] EXCEPT !.serve = to] \in MemberType
      BY <1>2 DEF MemberType
<1>4. mem' = [mem EXCEPT ![m] = [mem[m] EXCEPT !.serve = to]]
      BY <1>1
<1>5. mem' \in [Member -> MemberType] /\ Others(m) /\ mem'[m] = [mem[m] EXCEPT !.serve = to]
      BY <1>3, <1>4 DEF Types, Others
<1>6. mem'[m].serve # "returned" /\ mem'[m].serveErr = mem[m].serveErr /\ mem'[m].down = mem[m].down
      BY <1>2, <1>5 DEF MemberType
<1>7. QED
      BY <1>5, <1>6 DEF ServeStarts, Serves, srvVars, loopVars, ctxVars

\* A Serve that returns leaves its error with its member and its Group.
LEMMA ServeReturnsEffect ==
  ASSUME Types, NEW m \in Member, NEW err \in SUBSET Cause, ServeReturns(m, err),
         mem[m].serve \in {"refused", "serving"}
  PROVE  Served(m)
<1> DEFINE r == [mem[m] EXCEPT !.serve = "returned", !.serveErr = err]
<1>1. mem' = [mem EXCEPT ![m] = r]
      BY Zenon DEF ServeReturns
<1>2. mem[m] \in MemberType
      BY DEF Types
<1>3. r \in MemberType /\ r.serve = "returned" /\ r.serveErr = err /\ r.down = mem[m].down
      BY <1>2, Zenon DEF MemberType
<1> HIDE DEF r
<1>4. mem' \in [Member -> MemberType] /\ Others(m) /\ mem'[m] = r
      BY <1>1, <1>3 DEF Types, Others
<1>5. group' = [group EXCEPT !.ctx = group.ctx \/ err # {}]
      BY DEF ServeReturns
<1>6. group' \in GroupType /\ group'.at = group.at /\ group'.err = group.err
      BY <1>5, Zenon DEF Types, GroupType
<1>7. group'.ctx => group.ctx \/ err # {}
      BY <1>5 DEF Types, GroupType
<1>8. QED
      BY <1>3, <1>4, <1>6, <1>7 DEF ServeReturns, Served, srvVars, loopVars, ctxVars

\* A Shutdown that returns changes its own member only.
LEMMA DownReturnsEffect ==
  ASSUME Types, NEW m \in Member, NEW err \in SUBSET Cause, DownReturns(m, err)
  PROVE  Downs(m)
<1> DEFINE r == [mem[m] EXCEPT !.down = "returned", !.downErr = err]
<1>1. mem' = [mem EXCEPT ![m] = r]
      BY Zenon DEF DownReturns
<1>2. mem[m] \in MemberType
      BY DEF Types
<1>3. r \in MemberType /\ r.down = "returned" /\ r.serve = mem[m].serve /\ r.serveErr = mem[m].serveErr
      BY <1>2, Zenon DEF MemberType
<1> HIDE DEF r
<1>4. mem' \in [Member -> MemberType] /\ Others(m) /\ mem'[m] = r
      BY <1>1, <1>3 DEF Types, Others
<1>5. QED
      BY <1>3, <1>4 DEF DownReturns, Downs, srvVars, loopVars, ctxVars

\* Every step is one of LoopContext or of Group.Serve, one aside, or one of a member.
LEMMA AllSteps ==
  ASSUME Types, [Next]_vars
  PROVE  LoopStep \/ GroupReturns \/ Aside \/ \E m \in Member : Serves(m) \/ Served(m) \/ Downs(m)
<1>1. CASE DrainDeadline \/ ForceWatcher \/ HandleSignal \/ Signal \/ ParentDone
      BY <1>1 DEF DrainDeadline, ForceWatcher, HandleSignal, Signal, ParentDone, Aside, Types,
                  srvVars, loopVars, ctxVars
<1>2. ASSUME NEW c \in Caller, Stop(c) \/ ShutdownDone(c) \/ ShutdownGivesUp(c) PROVE Aside
      BY <1>2 DEF Stop, ShutdownDone, ShutdownGivesUp, Aside, Types, srvVars, loopVars, ctxVars
<1>3. ASSUME NEW m \in Member, Prompt(m) \/ ServeAborted(m) \/ ServeFails(m) \/ ServeEnds(m) \/ DownFails(m)
      PROVE  Serves(m) \/ Served(m) \/ Downs(m)
  <2>0. {} \in SUBSET Cause
        OBVIOUS
  <2>1. CASE ServeStarts(m)
        BY <2>1, ServeStartsEffect
  <2>2. CASE ServeRefuses(m) \/ ServeFails(m)
        BY <2>2, ServeReturnsEffect, ErrType DEF ServeRefuses, ServeFails
  <2>3. CASE ServeAborted(m) \/ ServeEnds(m)
        BY <2>0, <2>3, ServeReturnsEffect DEF ServeAborted, ServeEnds
  <2>4. CASE DownDrained(m)
        BY <2>0, <2>4, DownReturnsEffect DEF DownDrained
  <2>5. CASE DownExpires(m) \/ DownFails(m)
        BY <2>5, DownReturnsEffect, ErrType DEF DownExpires, DownFails
  <2>6. QED
        BY <1>3, <2>1, <2>2, <2>3, <2>4, <2>5 DEF Prompt
<1>4. CASE UNCHANGED vars
      BY <1>4 DEF vars, Aside, Types
<1>5. QED
      BY <1>1, <1>2, <1>3, <1>4 DEF Next, Environment
-----------------------------------------------------------------------------
\* The error LoopContext ends with depends on errs only.
LEMMA SameFinal == UNCHANGED errs => Final' = Final
  BY DEF Final, ignoreCanceled

\* Neither a member's error nor one of LoopContext is the panic of OnError.
LEMMA NoPanicInFinal == Types => Final \ Err("onErrorPanic") = Final
<1> SUFFICES ASSUME Types PROVE Final \ Err("onErrorPanic") = Final
    OBVIOUS
<1>1. errs.start \subseteq Cause /\ errs.serve \subseteq Cause /\ errs.shutdown \subseteq Cause
        /\ errs.stop \subseteq Cause
      BY DEF Types, ErrsType
<1>2. Final \subseteq Cause
      BY <1>1 DEF Final, ignoreCanceled
<1>3. <<"onErrorPanic", "server">> \notin Cause
      BY DEF Cause
<1>4. QED
      BY <1>2, <1>3 DEF Err

\* Steps of callers and signals change nothing that the invariant is about.
LEMMA AsideInv == ASSUME Inv, Aside PROVE Inv'
<1>1. Types'
      BY DEF Inv, Types, Aside
<1>2. Grouped' /\ Waited' /\ Drained'
      BY DEF Inv, Grouped, Waited, Drained, Aside
<1>3. Outcome'
      BY SameFinal DEF Inv, Outcome, Aside
<1>4. QED
      BY <1>1, <1>2, <1>3 DEF Inv

\* What a member does is seen by its Group and not yet by LoopContext.
LEMMA MemberInv ==
  ASSUME Inv, NEW m \in Member, Serves(m) \/ Served(m) \/ Downs(m)
  PROVE  Inv'
<1>1. Types'
      BY DEF Inv, Types, Serves, Served, Downs
<1>2. Outcome'
      BY SameFinal DEF Inv, Outcome, Serves, Served, Downs
<1>3. CASE Serves(m)
  <2>1. group.at = "running"
        BY <1>3 DEF Inv, Types, GroupType, Grouped, Serves
  <2>2. Grouped'
        BY <1>3, <2>1, SMTT(30) DEF Inv, Grouped, Serves, Others
  <2>3. Waited' /\ Drained'
        BY <1>3 DEF Inv, Waited, Drained, Serves, Others
  <2>4. QED
        BY <1>1, <1>2, <2>2, <2>3 DEF Inv
<1>4. CASE Served(m)
  <2>1. group.at = "running"
        BY <1>4, SMTT(30) DEF Inv, Types, GroupType, Grouped, Served
  <2>2. Grouped'
        BY <1>4, <2>1, SMTT(30) DEF Inv, Grouped, Served, Others
  <2>3. Waited' /\ Drained'
        BY <1>4, SMTT(30) DEF Inv, Waited, Drained, Served, Others
  <2>4. QED
        BY <1>1, <1>2, <2>2, <2>3 DEF Inv
<1>5. CASE Downs(m)
  <2>1. \A q \in Member : mem'[q].serve = mem[q].serve /\ mem'[q].serveErr = mem[q].serveErr
        BY <1>5 DEF Downs, Others
  <2>2. {mem'[q].serveErr : q \in Member} = {mem[q].serveErr : q \in Member}
        BY <2>1, SMTT(30)
  <2>3. Grouped'
        BY <1>5, <2>1, <2>2 DEF Inv, Grouped, Downs
  <2>4. Waited' /\ Drained'
        BY <1>5 DEF Inv, Waited, Drained, Downs, Others
  <2>5. QED
        BY <1>1, <1>2, <2>3, <2>4 DEF Inv
<1>6. QED
      BY <1>3, <1>4, <1>5

\* The Group returns once all members have, with all their errors.
LEMMA GroupReturnsInv == ASSUME Inv, GroupReturns PROVE Inv'
<1> DEFINE all == UNION {mem[m].serveErr : m \in Member}
<1>1. all \in SUBSET Cause
      BY DEF Inv, Types, MemberType
<1>2. group' = [group EXCEPT !.at = "returned", !.err = all]
      BY DEF GroupReturns
<1> HIDE DEF all
<1>3. group' \in GroupType /\ group'.at = "returned" /\ group'.err = all /\ group'.ctx = group.ctx
      BY <1>1, <1>2, Zenon DEF Inv, Types, GroupType
<1>4. group.at = "running" /\ UNCHANGED <<at, errs, mem, returned, runCtx, drainCtx, done, result, onError>>
      BY DEF GroupReturns, srvVars, loopVars, ctxVars
<1>5. Types'
      BY <1>3, <1>4 DEF Inv, Types
<1>6. Grouped'
      BY <1>3, <1>4 DEF Inv, Grouped, GroupReturns, all
<1>7. Waited' /\ Drained'
      BY <1>3, <1>4 DEF Inv, Waited, Drained
<1>8. Outcome'
      BY <1>4, SameFinal DEF Inv, Outcome
<1>9. QED
      BY <1>5, <1>6, <1>7, <1>8 DEF Inv

\* An error of LoopContext is kept in one field of errs.
LEMMA ErrsField ==
  ASSUME Types, NEW f \in {"start", "serve", "shutdown", "stop"}, NEW e \in SUBSET Cause,
         errs' = [errs EXCEPT ![f] = e]
  PROVE  /\ errs' \in ErrsType /\ errs'[f] = e
         /\ \A g \in {"start", "serve", "shutdown", "stop"} : g # f => errs'[g] = errs[g]
  BY DEF Types, ErrsType

\* CallShutdown changes nothing of a member but its down.
LEMMA CallShutdownEffect ==
  ASSUME Types, CallShutdown
  PROVE  /\ mem' \in [Member -> MemberType]
         /\ \A m \in Member : mem'[m].serve = mem[m].serve /\ mem'[m].serveErr = mem[m].serveErr
         /\ {mem'[m].serveErr : m \in Member} = {mem[m].serveErr : m \in Member}
<1>1. \A m \in Member : mem[m] \in MemberType
      BY DEF Types
<1>2. \A m \in Member : [mem[m] EXCEPT !.down = "called"] \in MemberType
      BY <1>1 DEF MemberType
<1>3. \A m \in Member : mem'[m] = [mem[m] EXCEPT !.down = "called"]
      BY DEF CallShutdown
<1>4. mem' \in [Member -> MemberType]
      BY <1>2 DEF CallShutdown
<1>5. \A m \in Member : mem'[m].serve = mem[m].serve /\ mem'[m].serveErr = mem[m].serveErr
      BY <1>1, <1>3, Zenon DEF MemberType
<1>6. QED
      BY <1>4, <1>5

\* Started changes nothing of a member but its serve.
LEMMA StartedEffect ==
  ASSUME Types, Started
  PROVE  /\ mem' \in [Member -> MemberType]
         /\ \A m \in Member : mem'[m].serve = "spawned" /\ mem'[m].serveErr = mem[m].serveErr
                                /\ mem'[m].down = mem[m].down
         /\ group' \in GroupType /\ group'.at = "running" /\ group'.ctx = group.ctx
<1>1. \A m \in Member : mem[m] \in MemberType
      BY DEF Types
<1>2. \A m \in Member : [mem[m] EXCEPT !.serve = "spawned"] \in MemberType
      BY <1>1 DEF MemberType
<1>3. \A m \in Member : mem'[m] = [mem[m] EXCEPT !.serve = "spawned"]
      BY DEF Started
<1>4. mem' \in [Member -> MemberType]
      BY <1>2 DEF Started
<1>5. \A m \in Member : mem'[m].serve = "spawned" /\ mem'[m].serveErr = mem[m].serveErr
                          /\ mem'[m].down = mem[m].down
      BY <1>1, <1>3, ZenonT(30) DEF MemberType
<1>6. group' \in GroupType /\ group'.at = "running" /\ group'.ctx = group.ctx
      BY DEF Started, Types, GroupType
<1>7. QED
      BY <1>4, <1>5, <1>6

\* LoopContext up to the drain.
LEMMA StartInv == ASSUME Inv, begin \/ Started \/ StartFailed \/ WaitOver \/ StartDrain PROVE Inv'
<1>1. CASE begin
  <2>1. at = "begin" /\ at' = "start" /\ UNCHANGED <<errs, group, mem, returned, runCtx, drainCtx, done, result, onError>>
        BY <1>1 DEF begin, Goto, ctxVars
  <2>2. Types'
        BY <2>1 DEF Inv, Types, Labels
  <2>g. Grouped'
        BY <2>1 DEF Inv, Grouped
  <2>3. Waited' /\ Drained' /\ Outcome'
        BY <2>1 DEF Inv, Waited, Drained, Outcome, Exit
  <2>4. QED
        BY <2>g, <2>2, <2>3 DEF Inv
<1>2. CASE Started
  <2>1. at = "start" /\ at' = "wait" /\ UNCHANGED <<errs, returned, runCtx, drainCtx, done, result, onError>>
        BY <1>2 DEF Started, Goto, ctxVars
  <2>2. /\ mem' \in [Member -> MemberType] /\ group' \in GroupType
        /\ group'.at = "running" /\ group'.ctx = group.ctx
        /\ \A m \in Member : mem'[m].serve = "spawned" /\ mem'[m].serveErr = mem[m].serveErr
                               /\ mem'[m].down = mem[m].down
        BY <1>2, StartedEffect, SMTT(30) DEF Inv
  <2>3. \A m \in Member : mem[m].serveErr = {}
        BY <2>1 DEF Inv, Grouped, Waited
  <2>4. Types'
        BY <2>1, <2>2 DEF Inv, Types, Labels
  <2>5. Grouped'
        BY <2>2, <2>3 DEF Inv, Grouped
  <2>6. Waited' /\ Drained' /\ Outcome'
        BY <2>1 DEF Inv, Waited, Drained, Outcome, Exit
  <2>7. QED
        BY <2>4, <2>5, <2>6 DEF Inv
<1>3. CASE StartFailed
  <2>1. /\ at = "start" /\ at' = "startShutdown" /\ drainCtx' = "live"
        /\ UNCHANGED <<group, returned, runCtx, done, result, onError>>
        BY <1>3 DEF StartFailed, Goto, srvVars
  <2>2. errs' \in ErrsType /\ errs'.start = Err("start")
        BY <1>3, ErrsField, ErrType DEF Inv, StartFailed
  <2>3. /\ mem' \in [Member -> MemberType]
        /\ \A m \in Member : mem'[m].serve = mem[m].serve /\ mem'[m].serveErr = mem[m].serveErr
        BY <1>3, CallShutdownEffect DEF Inv, StartFailed
  <2>4. Types'
        BY <2>1, <2>2, <2>3, SMTT(30) DEF Inv, Types, Labels
  <2>5. Grouped'
        BY <2>1, <2>3 DEF Inv, Grouped, Waited
  <2>6. Waited'
        BY <2>1, <2>2 DEF Inv, Waited, Exit, Err
  <2>7. Drained' /\ Outcome'
        BY <2>1 DEF Inv, Drained, Outcome, Exit
  <2>8. QED
        BY <2>4, <2>5, <2>6, <2>7 DEF Inv
<1>4. CASE WaitOver
  <2>1. /\ at = "wait" /\ at' = "stopping"
        /\ UNCHANGED <<group, mem, runCtx, drainCtx, done, result, onError>>
        BY <1>4 DEF WaitOver, Goto, srvVars, ctxVars
  <2>2. \/ UNCHANGED <<errs, returned>>
        \/ /\ group.at = "returned" /\ returned' = TRUE /\ errs' \in ErrsType
           /\ errs'.serve = group.err /\ errs'.start = errs.start
        BY <1>4, ErrsField, Zenon DEF Inv, Types, GroupType, WaitOver
  <2>3. Types'
        BY <2>1, <2>2, ZenonT(30) DEF Inv, Types, Labels
  <2>g. Grouped'
        BY <2>1, <2>2 DEF Inv, Grouped
  <2>4. Waited' /\ Drained' /\ Outcome'
        BY <2>1, <2>2 DEF Inv, Waited, Drained, Outcome, Exit
  <2>5. QED
        BY <2>g, <2>3, <2>4 DEF Inv
<1>5. CASE StartDrain
  <2>1. /\ at = "stopping" /\ at' = "shutdown" /\ drainCtx' = "live"
        /\ UNCHANGED <<errs, group, returned, runCtx, done, result, onError>>
        BY <1>5, SMTT(30) DEF StartDrain, DrainContexts, Goto
  <2>2. /\ mem' \in [Member -> MemberType]
        /\ \A m \in Member : mem'[m].serve = mem[m].serve /\ mem'[m].serveErr = mem[m].serveErr
        /\ {mem'[m].serveErr : m \in Member} = {mem[m].serveErr : m \in Member}
        BY <1>5, CallShutdownEffect, SMTT(30) DEF Inv, StartDrain
  <2>3. Types'
        BY <2>1, <2>2 DEF Inv, Types, Labels
  <2>4. Grouped'
        BY <2>1, <2>2 DEF Inv, Grouped
  <2>5. Waited' /\ Drained' /\ Outcome'
        BY <2>1 DEF Inv, Waited, Drained, Outcome, Exit
  <2>6. QED
        BY <2>3, <2>4, <2>5 DEF Inv
<1>6. QED
      BY <1>1, <1>2, <1>3, <1>4, <1>5

\* LoopContext from the drain to the end of the abort.
LEMMA DrainInv == ASSUME Inv, ShutdownReturns \/ Abort \/ GraceOver PROVE Inv'
<1>1. CASE ShutdownReturns
  <2>1. /\ at \in {"shutdown", "startShutdown"}
        /\ at' = IF at = "startShutdown" \/ returned THEN "onStop" ELSE "abort"
        /\ \A m \in Member : mem[m].down = "returned"
        /\ UNCHANGED <<group, mem, returned, runCtx, drainCtx, done, result, onError>>
        BY <1>1 DEF ShutdownReturns, Goto, srvVars, ctxVars
  <2>2. DownErrs \in SUBSET Cause
        BY DEF Inv, Types, MemberType, DownErrs
  <2>3. errs' \in ErrsType /\ errs'.start = errs.start /\ errs'.serve = errs.serve
        BY <1>1, <2>2, ErrsField, Zenon DEF Inv, ShutdownReturns
  <2>4. Types'
        BY <2>1, <2>3 DEF Inv, Types, Labels
  <2>g. Grouped'
        BY <2>1, <2>3 DEF Inv, Grouped
  <2>5. Waited'
        BY <2>1, <2>3 DEF Inv, Waited, Exit
  <2>6. Drained' /\ Outcome'
        BY <2>1 DEF Inv, Drained, Outcome, Exit
  <2>7. QED
        BY <2>g, <2>4, <2>5, <2>6 DEF Inv
<1>2. CASE Abort
  <2>1. /\ at = "abort" /\ at' = "grace" /\ runCtx' = TRUE
        /\ UNCHANGED <<errs, group, mem, returned, drainCtx, done, result, onError>>
        BY <1>2 DEF Abort, Goto, srvVars
  <2>2. Types'
        BY <2>1 DEF Inv, Types, Labels
  <2>g. Grouped'
        BY <2>1 DEF Inv, Grouped
  <2>3. Waited' /\ Drained' /\ Outcome'
        BY <2>1 DEF Inv, Waited, Drained, Outcome, Exit
  <2>4. QED
        BY <2>g, <2>2, <2>3 DEF Inv
<1>3. CASE GraceOver
  <2>1. /\ at = "grace" /\ at' = "onStop"
        /\ UNCHANGED <<group, mem, returned, runCtx, drainCtx, done, result, onError>>
        BY <1>3 DEF GraceOver, Goto, srvVars, ctxVars
  <2>2. /\ errs' \in ErrsType /\ errs'.start = errs.start
        /\ \/ group.at = "returned" /\ errs'.serve = group.err
           \/ group.at # "returned" /\ errs'.serve = Err("abortTimeout")
        BY <1>3, ErrsField, ErrType, SMTT(30) DEF Inv, Types, GroupType, GraceOver, AbortGrace
  <2>3. Types'
        BY <2>1, <2>2 DEF Inv, Types, Labels
  <2>g. Grouped'
        BY <2>1, <2>2 DEF Inv, Grouped
  <2>4. Waited' /\ Drained' /\ Outcome'
        BY <2>1, <2>2 DEF Inv, Waited, Drained, Outcome, Exit
  <2>5. QED
        BY <2>g, <2>3, <2>4 DEF Inv
<1>4. QED
      BY <1>1, <1>2, <1>3

\* LoopContext on its way out: OnStop, report and finish.
LEMMA ExitInv == ASSUME Inv, onStop \/ report \/ finish PROVE Inv'
<1>1. CASE onStop
  <2>1. /\ at = "onStop" /\ at' = "report"
        /\ UNCHANGED <<group, mem, returned, runCtx, drainCtx, done, result, onError>>
        BY <1>1 DEF onStop, Goto, srvVars, ctxVars
  <2>2. errs' \in ErrsType /\ errs'.start = errs.start /\ errs'.serve = errs.serve
        BY <1>1, ErrsField, ErrType, SMTT(30) DEF Inv, onStop
  <2>3. Types'
        BY <2>1, <2>2 DEF Inv, Types, Labels
  <2>g. Grouped'
        BY <2>1, <2>2 DEF Inv, Grouped
  <2>4. Waited' /\ Drained' /\ Outcome'
        BY <2>1, <2>2 DEF Inv, Waited, Drained, Outcome, Exit
  <2>5. QED
        BY <2>g, <2>3, <2>4 DEF Inv
<1>2. CASE report
  <2>1. /\ at = "report" /\ at' = "finish"
        /\ UNCHANGED <<errs, group, mem, returned, runCtx, drainCtx, done>>
        BY <1>2 DEF report, Goto, srvVars, ctxVars
  <2>2. Types'
        BY <2>1 DEF Inv, Types, Labels
  <2>g. Grouped'
        BY <2>1 DEF Inv, Grouped
  <2>3. Waited' /\ Drained'
        BY <2>1 DEF Inv, Waited, Drained, Exit
  <2>4. onError = <<>>
        BY <2>1 DEF Inv, Outcome
  <2>5. Reported = <<Final>>
        BY <2>4 DEF Reported
  <2>6. IF Final # {} THEN onError' = <<Final>> /\ (result' = Final \/ result' = Final \cup Err("onErrorPanic"))
        ELSE result' = {} /\ onError' = <<>>
        BY <1>2, <2>4, <2>5 DEF report, reportNeeded
  <2>7. Outcome'
        BY <2>1, <2>6, SameFinal DEF Inv, Outcome
  <2>8. QED
        BY <2>g, <2>2, <2>3, <2>7 DEF Inv
<1>3. CASE finish
  <2>1. /\ at = "finish" /\ at' = "returned" /\ runCtx' = TRUE /\ done' = TRUE
        /\ drainCtx' \in {drainCtx, "canceled"}
        /\ UNCHANGED <<errs, group, mem, returned, result, onError>>
        BY <1>3 DEF finish, Goto
  <2>2. Types'
        BY <2>1 DEF Inv, Types, Labels
  <2>g. Grouped'
        BY <2>1 DEF Inv, Grouped
  <2>3. Waited' /\ Drained'
        BY <2>1 DEF Inv, Waited, Drained, Exit
  <2>4. Outcome'
        BY <2>1, SameFinal DEF Inv, Outcome
  <2>5. QED
        BY <2>g, <2>2, <2>3, <2>4 DEF Inv
<1>4. QED
      BY <1>1, <1>2, <1>3

\* Every step of LoopContext, of its goroutines and of the members keeps the invariant.
LEMMA NextInv == Inv /\ [Next]_vars => Inv'
<1> SUFFICES ASSUME Inv, [Next]_vars PROVE Inv'
    OBVIOUS
<1>1. LoopStep \/ GroupReturns \/ Aside \/ \E m \in Member : Serves(m) \/ Served(m) \/ Downs(m)
      BY AllSteps DEF Inv
<1>2. QED
      BY <1>1, StartInv, DrainInv, ExitInv, GroupReturnsInv, AsideInv, MemberInv DEF LoopStep
-----------------------------------------------------------------------------
\* OnError is called exactly once when the run fails and never when it succeeds, and with the
\* error LoopContext returns, on every path through LoopContext.
THEOREM OnErrorExactlyOnce == Spec => []OnErrorOnce
<1>1. Inv => OnErrorOnce
  <2> SUFFICES ASSUME Inv, done PROVE OnErrorOnce
      BY DEF OnErrorOnce
  <2>1. Final \ Err("onErrorPanic") = Final
        BY NoPanicInFinal DEF Inv
  <2>2. CASE Final = {} /\ result = {} /\ onError = <<>>
        BY <2>2 DEF OnErrorOnce
  <2>3. CASE Final # {} /\ onError = <<Final>> /\ result \in {Final, Final \cup Err("onErrorPanic")}
    <3>1. result \ Err("onErrorPanic") = Final /\ result # {}
          BY <2>1, <2>3
    <3>2. onError # <<>> /\ Len(onError) = 1 /\ onError[1] = Final
          BY <2>3
    <3>3. QED
          BY <3>1, <3>2 DEF OnErrorOnce
  <2>4. QED
        BY <2>2, <2>3 DEF Inv, Outcome
<1>2. QED
      BY <1>1, InitInv, NextInv, PTL DEF Spec

\* Unless LoopContext says that it gave up waiting, it returns after every Serve it started and
\* with the error of each, whichever of Serve, the stop and the abort came first.
THEOREM NoServeErrorLost == Spec => []ServeErrorsSurvive
<1>1. Inv => ServeErrorsSurvive
  <2> SUFFICES ASSUME Inv, done, ~(Err("abortTimeout") \subseteq result), NEW m \in Member
               PROVE  mem[m].serve \in {"none", "returned"} /\ mem[m].serveErr \subseteq result
      BY DEF ServeErrorsSurvive
  <2>1. at = "returned" /\ Final \subseteq result
        BY DEF Inv, Outcome
  <2>2. CASE errs.start # {}
    <3>1. mem[m].serve = "none" /\ mem[m].serveErr = {}
          BY <2>2 DEF Inv, Waited, Grouped
    <3>2. QED
          BY <3>1
  <2>3. CASE errs.start = {}
    <3>1. errs.serve \subseteq Final
          BY <2>3 DEF Final
    <3>2. group.at = "returned" /\ errs.serve = group.err
          BY <2>1, <2>3, <3>1 DEF Inv, Waited, Exit
    <3>3. mem[m].serve = "returned" /\ mem[m].serveErr \subseteq group.err
          BY <3>2 DEF Inv, Grouped
    <3>4. QED
          BY <2>1, <3>1, <3>2, <3>3
  <2>4. QED
        BY <2>2, <2>3
<1>2. QED
      BY <1>1, InitInv, NextInv, PTL DEF Spec

\* A stop never ends the context of a member: that waits for every Shutdown, or for a Serve
\* that failed.
THEOREM StopNeverAborts == Spec => []StopDoesNotAbort
<1>1. Inv => StopDoesNotAbort
      BY DEF Inv, Grouped, Drained, StopDoesNotAbort, GroupCtx, Exit
<1>2. QED
      BY <1>1, InitInv, NextInv, PTL DEF Spec
-----------------------------------------------------------------------------
USE RateAssumption

(* Rate *)
\* Multiplication by a natural number, as far as the bound needs it.
LEMMA Times ==
  ASSUME NEW a \in Nat, NEW b \in Nat
  PROVE  /\ a * b \in Nat /\ a * 0 = 0
         /\ a * (b + 1) = a * b + a /\ b * a = a * b
  OBVIOUS

\* What the bucket holds when it is looked at is a natural number up to its size.
LEMMA RefilledType == TypeOK => Refilled \in 0 .. Burst * Cost
<1>. SUFFICES ASSUME TypeOK PROVE Refilled \in 0 .. Burst * Cost
  OBVIOUS
<1>1. Burst * Cost \in Nat
  BY Times
<1>2. CASE last = Never
  BY <1>1, <1>2 DEF Refilled, TypeOK
<1>3. CASE last # Never
  <2>1. time - last \in Nat
    BY <1>3 DEF TypeOK, Never
  <2>2. (time - last) * Refill \in Nat
    BY <2>1, Times
  <2>. QED BY <1>1, <1>3, <2>2 DEF Refilled, TypeOK
<1>. QED BY <1>2, <1>3

\* One tick adds at most Refill.
LEMMA RefillOfTick == TypeOK /\ Tick => Refilled' <= Refilled + Refill
<1>. SUFFICES ASSUME TypeOK, Tick PROVE Refilled' <= Refilled + Refill
  OBVIOUS
<1>0. Burst * Cost \in Nat /\ tokens \in 0 .. Burst * Cost /\ tokens' = tokens /\ last' = last
      /\ time' = time + 1
  BY Times DEF TypeOK, Tick
<1>1. CASE last = Never
  BY <1>0, <1>1 DEF Refilled
<1>2. CASE last # Never
  <2>1. time - last \in Nat
    BY <1>2 DEF TypeOK, Never
  <2>2. (time - last) * Refill \in Nat /\ (time' - last) * Refill = (time - last) * Refill + Refill
    <3>1. time' - last = (time - last) + 1
      BY <1>0, <2>1, <1>2 DEF TypeOK
    <3>. QED BY <2>1, <3>1, Times
  <2>. QED BY <1>0, <1>2, <2>2 DEF Refilled
<1>. QED BY <1>1, <1>2

\* Admissions in the window plus what is left in the bucket never exceed what the
\* bucket could hold when it opened plus what was refilled since.
Ledger ==
  /\ TypeOK
  /\ start = Never => count = 0
  /\ start # Never => Cost * count + Refilled <= Burst * Cost + Refill * (time - start)

\* Neither a tick nor a TryAcquire overfills the bucket or overdraws it.
LEMMA TypeNext == TypeOK /\ [RateNext]_rateVars => TypeOK'
<1>. SUFFICES ASSUME TypeOK, [RateNext]_rateVars PROVE TypeOK'
  OBVIOUS
<1>0. Burst * Cost \in Nat /\ Refilled \in 0 .. Burst * Cost
  BY Times, RefilledType
<1>1. CASE Tick
  BY <1>1 DEF Tick, TypeOK, Never
<1>2. CASE TryAcquire
  BY <1>0, <1>2 DEF TryAcquire, LastNow, TypeOK
<1>3. CASE Observe
  BY <1>3 DEF Observe, TypeOK
<1>4. CASE UNCHANGED rateVars
  BY <1>4 DEF rateVars, TypeOK
<1>. QED BY <1>1, <1>2, <1>3, <1>4 DEF RateNext

\* A tick adds Refill to both sides of the ledger at most; an admission moves one
\* Cost from the bucket to the count.
LEMMA LedgerNext == Ledger /\ [RateNext]_rateVars => Ledger'
<1>. SUFFICES ASSUME Ledger, [RateNext]_rateVars PROVE Ledger'
  OBVIOUS
<1>t. TypeOK /\ TypeOK'
  BY TypeNext DEF Ledger
<1>0. /\ Burst * Cost \in Nat /\ Refilled \in 0 .. Burst * Cost
      /\ Cost * count \in Nat /\ Cost * (count + 1) = Cost * count + Cost
  BY <1>t, Times, RefilledType DEF TypeOK
<1>r. ASSUME start # Never PROVE time - start \in Nat /\ Refill * (time - start) \in Nat
  <2>1. time - start \in Nat
    BY <1>t, <1>r, SMTT(30) DEF TypeOK, Never
  <2>. QED BY <2>1, Times
<1>1. CASE Tick
  <2>1. Refilled' <= Refilled + Refill /\ Refilled' \in Nat
    <3>1. (TypeOK => Refilled \in 0 .. Burst * Cost)'
      BY RefilledType, PTL
    <3>. QED BY <1>1, <1>t, <1>0, <3>1, RefillOfTick
  <2>2. ASSUME start # Never PROVE Refill * (time' - start) = Refill * (time - start) + Refill
    <3>1. time' - start = (time - start) + 1
      BY <1>1, <2>2, <1>r, <1>t DEF Tick, TypeOK
    <3>. QED BY <3>1, <2>2, <1>r, Times
  <2>. QED BY <1>0, <1>1, <1>t, <1>r, <2>1, <2>2, SMTT(30) DEF Ledger, Tick
<1>2. CASE TryAcquire
  <2>1. tokens' \in 0 .. Burst * Cost /\ last' = time /\ time' = time /\ start' = start
    BY <1>2, <1>t DEF TryAcquire, LastNow, TypeOK
  <2>2. Refilled' = tokens'
    <3>1. (time' - last') * Refill = 0
      BY <2>1, <1>t, Times, SMTT(30) DEF TypeOK
    <3>. QED BY <1>0, <2>1, <3>1 DEF Refilled
  <2>3. CASE Refilled < Cost
    BY <1>2, <1>0, <1>t, <1>r, <2>1, <2>2, <2>3, SMTT(30) DEF TryAcquire, Ledger
  <2>4. CASE ~(Refilled < Cost)
    BY <1>2, <1>0, <1>t, <1>r, <2>1, <2>2, <2>4, SMTT(30) DEF TryAcquire, Ledger
  <2>. QED BY <2>3, <2>4
<1>3. CASE Observe
  <2>1. count' = 0 /\ start' = time /\ time' = time /\ Refilled' = Refilled
    BY <1>3 DEF Observe, Ledger, Refilled
  <2>2. Refill * (time' - start') = 0 /\ Cost * count' = 0
    BY <2>1, <1>t, Times DEF TypeOK
  <2>3. start' # Never
    BY <2>1, <1>t DEF TypeOK, Never
  <2>. QED BY <1>0, <1>t, <2>1, <2>2, <2>3, SMTT(30) DEF Ledger
<1>4. CASE UNCHANGED rateVars
  BY <1>4, <1>t DEF rateVars, Ledger, Refilled
<1>. QED BY <1>1, <1>2, <1>3, <1>4 DEF RateNext

\* No window has started, so nothing was admitted in it.
LEMMA LedgerInit == RateInit => Ledger
  BY Times DEF RateInit, Ledger, TypeOK, Never

\* The bucket stays between empty and its burst whatever the calls and the clock do.
THEOREM TypeCorrect == RateSpec => []TypeOK
<1>1. Ledger => TypeOK
  BY DEF Ledger
<1>. QED BY <1>1, LedgerInit, LedgerNext, PTL DEF RateSpec

\* Every window of every length admits at most the burst plus the rate times its
\* length, for all rates and bursts.
THEOREM WindowIsBounded == RateSpec => []WindowBound
<1>1. Ledger => WindowBound
  <2>. SUFFICES ASSUME Ledger, start # Never
                PROVE  Cost * count <= Burst * Cost + Refill * (time - start)
    BY DEF WindowBound
  <2>1. Refilled \in Nat /\ Cost * count \in Nat /\ Burst * Cost \in Nat
    BY Times, RefilledType DEF Ledger, TypeOK
  <2>2. time - start \in Nat
    BY DEF Ledger, TypeOK, Never
  <2>3. Refill * (time - start) \in Nat
    BY <2>2, Times
  <2>. QED BY <2>1, <2>3 DEF Ledger
<1>. QED BY <1>1, LedgerInit, LedgerNext, PTL DEF RateSpec
-----------------------------------------------------------------------------
(* Concurrency and All *)
Holders(l) == {p \in Proc : Holds(p, l)}

PermitLabels == {"idle", "acquire", "rollback", "held", "release"}

\* Every goroutine is at a limiter of the list.
PermitTypes ==
  /\ inUse \in [Limiter -> Int]
  /\ pc \in [Proc -> PermitLabels]
  /\ i \in [Proc -> Limiter]

\* PermitsBalance with the types it needs.
PermitInv == PermitTypes /\ PermitsBalance

\* The limiters are numbered from 1 to N.
LEMMA Limiters ==
  Limiter = 1 .. N /\ N \in Nat \ {0} /\ \A l \in Limiter : Max[l] \in Nat \ {0}
  BY LimitAssumption DEF Limiter, N

\* A goroutine that moves to a label and a limiter leaves the types as they are.
LEMMA Moved ==
  ASSUME PermitTypes, NEW p \in Proc, NEW label \in PermitLabels, NEW index \in Limiter, MoveTo(p, label, index),
         inUse' \in [Limiter -> Int]
  PROVE  PermitTypes'
<1>1. pc' \in [Proc -> PermitLabels]
      BY DEF PermitTypes, MoveTo
<1>2. i' \in [Proc -> Limiter]
      BY DEF PermitTypes, MoveTo
<1>3. QED
      BY <1>1, <1>2 DEF PermitTypes

\* Taking a permit adds one holder of one limiter.
LEMMA OneMore ==
  ASSUME NEW p \in Proc, NEW l \in Limiter, PermitsBalance, PermitTypes,
         inUse' = [inUse EXCEPT ![l] = @ + 1], inUse[l] < Max[l], Max[l] \in Nat, ~Holds(p, l),
         \A q \in Proc, k \in Limiter : Holds(q, k)' <=> Holds(q, k) \/ (q = p /\ k = l),
         \A k \in Limiter : Max[k] \in Nat
  PROVE  PermitsBalance'
<1>1. \A k \in Limiter : IsFiniteSet(Holders(k)) /\ Cardinality(Holders(k)) \in Nat
      BY LimitAssumption, FS_Subset, FS_CardinalityType DEF Holders
<1>2. SUFFICES ASSUME NEW k \in Limiter
               PROVE  inUse'[k] = Cardinality(Holders(k)') /\ inUse'[k] <= Max[k]
      BY Zenon DEF PermitsBalance, Holders
<1>3. CASE k = l
  <2>1. Holders(k)' = Holders(k) \cup {p} /\ p \notin Holders(k)
        BY <1>3 DEF Holders
  <2>2. Cardinality(Holders(k)') = Cardinality(Holders(k)) + 1
        BY <1>1, <2>1, FS_AddElement, Zenon
  <2>3. QED
        BY <1>1, <1>3, <2>2, SMTT(30) DEF PermitsBalance, Holders, PermitTypes
<1>4. CASE k # l
  <2>1. Holders(k)' = Holders(k)
        BY <1>4 DEF Holders
  <2>2. QED
        BY <1>4, <2>1, SMTT(30) DEF PermitsBalance, Holders, PermitTypes
<1>5. QED
      BY <1>3, <1>4

\* Returning a permit takes one holder of one limiter away.
LEMMA OneLess ==
  ASSUME NEW p \in Proc, NEW l \in Limiter, PermitsBalance, PermitTypes,
         inUse' = [inUse EXCEPT ![l] = @ - 1], Holds(p, l),
         \A q \in Proc, k \in Limiter : Holds(q, k)' <=> Holds(q, k) /\ ~(q = p /\ k = l),
         \A k \in Limiter : Max[k] \in Nat
  PROVE  PermitsBalance'
<1>1. \A k \in Limiter : IsFiniteSet(Holders(k)) /\ Cardinality(Holders(k)) \in Nat
      BY LimitAssumption, FS_Subset, FS_CardinalityType DEF Holders
<1>2. SUFFICES ASSUME NEW k \in Limiter
               PROVE  inUse'[k] = Cardinality(Holders(k)') /\ inUse'[k] <= Max[k]
      BY DEF PermitsBalance, Holders
<1>3. CASE k = l
  <2>1. Holders(k)' = Holders(k) \ {p} /\ p \in Holders(k)
        BY <1>3 DEF Holders
  <2>2. Cardinality(Holders(k)') = Cardinality(Holders(k)) - 1
        BY <1>1, <2>1, FS_RemoveElement, Zenon
  <2>3. QED
        BY <1>1, <1>3, <2>2 DEF PermitsBalance, Holders, PermitTypes
<1>4. CASE k # l
  <2>1. Holders(k)' = Holders(k)
        BY <1>4 DEF Holders
  <2>2. QED
        BY <1>4, <2>1, SMTT(30) DEF PermitsBalance, Holders, PermitTypes
<1>5. QED
      BY <1>3, <1>4

\* A step that changes neither the counts nor the holders.
LEMMA Same ==
  ASSUME PermitsBalance, inUse' = inUse, \A q \in Proc, k \in Limiter : Holds(q, k)' <=> Holds(q, k)
  PROVE  PermitsBalance'
<1>1. \A k \in Limiter : Holders(k)' = Holders(k)
      BY DEF Holders
<1>2. QED
      BY <1>1 DEF PermitsBalance, Holders

\* Nobody holds a permit.
LEMMA PermitInit ==
  ASSUME AllInit
  PROVE  PermitInv
<1>1. \A l \in Limiter : Holders(l) = {}
      BY DEF AllInit, Holders, Holds
<1>l. 1 \in Limiter /\ \A l \in Limiter : Max[l] \in Nat
      BY Limiters
<1>2. PermitsBalance
  <2>1. \A l \in Limiter : inUse[l] = 0 /\ Cardinality(Holders(l)) = 0
        BY <1>1, FS_EmptySet, Zenon DEF AllInit
  <2>2. SUFFICES ASSUME NEW l \in Limiter
                 PROVE  inUse[l] = Cardinality(Holders(l)) /\ inUse[l] <= Max[l]
        BY DEF PermitsBalance, Holders
  <2>3. QED
        BY <1>l, <2>1
<1>3. PermitTypes
      BY <1>l DEF AllInit, PermitTypes, PermitLabels
<1>4. QED
      BY <1>2, <1>3 DEF PermitInv

\* Each action adds or removes one holder of one limiter, or none.
LEMMA PermitNext ==
  ASSUME PermitInv, [AllNext]_allVars
  PROVE  PermitInv'
<1>l. Limiter = 1 .. N /\ N \in Nat \ {0} /\ \A l \in Limiter : Max[l] \in Nat \ {0}
      BY Limiters
<1>i. PermitTypes /\ PermitsBalance
      BY DEF PermitInv
<1>1. ASSUME NEW p \in Proc, AllTryAcquire(p) PROVE PermitInv'
  <2>1. PermitTypes'
    <3>1. inUse' \in [Limiter -> Int]
          BY <1>1, <1>i DEF AllTryAcquire, PermitTypes
    <3>2. MoveTo(p, "acquire", 1) /\ 1 \in Limiter
          BY <1>1, <1>l DEF AllTryAcquire
    <3>3. QED
          BY <1>i, <3>1, <3>2, Moved DEF PermitLabels
  <2>2. \A q \in Proc, k \in Limiter : Holds(q, k)' <=> Holds(q, k)
        BY <1>1, <1>i, <1>l DEF AllTryAcquire, MoveTo, PermitTypes, Holds
  <2>3. QED
        BY <1>1, <1>i, <2>1, <2>2, Same DEF PermitInv, AllTryAcquire
<1>2. ASSUME NEW p \in Proc, Acquire(p) PROVE PermitInv'
  <2>1. PermitTypes'
    <3>1. inUse' \in [Limiter -> Int]
          BY <1>2, <1>i DEF Acquire, PermitTypes
    <3>2. 1 \in Limiter /\ (Last(i[p]) \/ i[p] + 1 \in Limiter)
          BY <1>i, <1>l, SMTT(30) DEF PermitTypes, Last
    <3>3. MoveTo(p, "held", 1) \/ (~Last(i[p]) /\ MoveTo(p, "acquire", i[p] + 1))
          BY <1>2 DEF Acquire
    <3>4. QED
          BY <1>i, <3>1, <3>2, <3>3, Moved, SMTT(30) DEF PermitLabels
  <2>2. \A q \in Proc, k \in Limiter : Holds(q, k)' <=> Holds(q, k) \/ (q = p /\ k = i[p])
        BY <1>2, <1>i, <1>l, SMTT(30) DEF Acquire, MoveTo, PermitTypes, Last, Holds
  <2>3. ~Holds(p, i[p]) /\ i[p] \in Limiter /\ inUse[i[p]] < Max[i[p]]
        BY <1>2, <1>i, <1>l DEF Acquire, Full, PermitTypes, Holds
  <2>4. PermitsBalance'
        BY <1>2, <1>i, <1>l, <2>2, <2>3, OneMore, Zenon DEF Acquire
  <2>5. QED
        BY <2>1, <2>4 DEF PermitInv
<1>3. ASSUME NEW p \in Proc, Refused(p) PROVE PermitInv'
  <2>1. PermitTypes'
    <3>1. inUse' \in [Limiter -> Int]
          BY <1>3, <1>i DEF Refused, PermitTypes
    <3>2. 1 \in Limiter /\ (RollbackFrom(i[p]) < 1 \/ RollbackFrom(i[p]) \in Limiter)
          BY <1>i, <1>l, SMTT(30) DEF PermitTypes, RollbackFrom
    <3>3. MoveTo(p, "idle", 1) \/ (~(RollbackFrom(i[p]) < 1) /\ MoveTo(p, "rollback", RollbackFrom(i[p])))
          BY <1>3 DEF Refused
    <3>4. QED
          BY <1>i, <3>1, <3>2, <3>3, Moved DEF PermitLabels
  <2>2. \A q \in Proc, k \in Limiter : Holds(q, k)' <=> Holds(q, k)
        BY <1>3, <1>i, <1>l, SMTT(30) DEF Refused, MoveTo, PermitTypes, RollbackFrom, Holds
  <2>3. QED
        BY <1>3, <1>i, <2>1, <2>2, Same, SMTT(30) DEF PermitInv, Refused
<1>4. ASSUME NEW p \in Proc, Rollback(p) PROVE PermitInv'
  <2>1. PermitTypes'
    <3>1. inUse' \in [Limiter -> Int]
          BY <1>4, <1>i DEF Rollback, Release, PermitTypes
    <3>2. 1 \in Limiter /\ (i[p] = 1 \/ i[p] - 1 \in Limiter)
          BY <1>i, <1>l, SMTT(30) DEF PermitTypes
    <3>3. MoveTo(p, "idle", 1) \/ (i[p] # 1 /\ MoveTo(p, "rollback", i[p] - 1))
          BY <1>4, SMTT(30) DEF Rollback, Release
    <3>4. QED
          BY <1>i, <3>1, <3>2, <3>3, Moved DEF PermitLabels
  <2>2. \A q \in Proc, k \in Limiter : Holds(q, k)' <=> Holds(q, k) /\ ~(q = p /\ k = i[p])
        BY <1>4, <1>i, <1>l, SMTT(30) DEF Rollback, Release, MoveTo, PermitTypes, Holds
  <2>3. Holds(p, i[p]) /\ i[p] \in Limiter /\ inUse' = [inUse EXCEPT ![i[p]] = @ - 1]
        BY <1>4, <1>i, <1>l DEF Rollback, Release, PermitTypes, Holds
  <2>4. PermitsBalance'
        BY <1>i, <1>l, <2>2, <2>3, OneLess, Zenon
  <2>5. QED
        BY <2>1, <2>4 DEF PermitInv
<1>5. ASSUME NEW p \in Proc, ReleaseAll(p) PROVE PermitInv'
  <2>1. PermitTypes'
    <3>1. inUse' \in [Limiter -> Int]
          BY <1>5, <1>i DEF ReleaseAll, Release, PermitTypes
    <3>2. 1 \in Limiter /\ (i[p] = N \/ i[p] + 1 \in Limiter)
          BY <1>i, <1>l, SMTT(30) DEF PermitTypes
    <3>3. MoveTo(p, "idle", 1) \/ (i[p] # N /\ MoveTo(p, "release", i[p] + 1))
          BY <1>5, SMTT(30) DEF ReleaseAll, Release
    <3>4. QED
          BY <1>i, <3>1, <3>2, <3>3, Moved DEF PermitLabels
  <2>2. \A q \in Proc, k \in Limiter : Holds(q, k)' <=> Holds(q, k) /\ ~(q = p /\ k = i[p])
        BY <1>5, <1>i, <1>l, SMTT(30) DEF ReleaseAll, Release, MoveTo, PermitTypes, Holds
  <2>3. Holds(p, i[p]) /\ i[p] \in Limiter /\ inUse' = [inUse EXCEPT ![i[p]] = @ - 1]
        BY <1>5, <1>i, <1>l, SMTT(30) DEF ReleaseAll, Release, PermitTypes, Holds
  <2>4. PermitsBalance'
        BY <1>i, <1>l, <2>2, <2>3, OneLess, Zenon
  <2>5. QED
        BY <2>1, <2>4 DEF PermitInv
<1>6. CASE UNCHANGED allVars
  <2>1. PermitTypes'
        BY <1>6, <1>i DEF allVars, PermitTypes
  <2>2. \A q \in Proc, k \in Limiter : Holds(q, k)' <=> Holds(q, k)
        BY <1>6 DEF allVars, Holds
  <2>3. QED
        BY <1>6, <1>i, <2>1, <2>2, Same DEF PermitInv, allVars
<1>7. QED
      BY <1>1, <1>2, <1>3, <1>4, <1>5, <1>6 DEF AllNext

\* All never leaks a permit and never exceeds a limit, for any number of goroutines
\* and limiters: however acquisitions, refusals half-way and releases interleave,
\* each limiter counts exactly the goroutines that hold one of its permits.
THEOREM PermitsAlwaysBalance == AllSpec => []PermitsBalance
<1>1. AllInit => PermitInv
      BY PermitInit
<1>2. PermitInv /\ [AllNext]_allVars => PermitInv'
      BY PermitNext
<1>3. PermitInv => PermitsBalance
      BY DEF PermitInv
<1>4. QED
      BY <1>1, <1>2, <1>3, PTL DEF AllSpec
=============================================================================
