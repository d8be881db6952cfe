-------------------------------- MODULE Limit --------------------------------
(* limit.All over limit.Concurrency limiters: goroutines acquire every permit   *)
(* in order, give back what they have when one is refused, and release all in   *)
(* the end.  Each CAS loop and each atomic Add is one step.                     *)
EXTENDS Integers, Sequences, FiniteSets

CONSTANTS
  Proc,    \* goroutines
  Max      \* a sequence: the permits of each limiter

ASSUME LimitAssumption == IsFiniteSet(Proc) /\ Max \in Seq(Nat \ {0}) /\ Max # <<>>

Limiter == DOMAIN Max
N == Len(Max)

VARIABLES
  inUse,  \* Concurrency.inUse of each limiter
  pc,     \* where each goroutine is
  i       \* its loop index: the limiter it acquires or releases next

allVars == <<inUse, pc, i>>

AllInit ==
  /\ inUse = [l \in Limiter |-> 0]
  /\ pc = [p \in Proc |-> "idle"] /\ i = [p \in Proc |-> 1]

MoveTo(p, label, index) == pc' = [pc EXCEPT ![p] = label] /\ i' = [i EXCEPT ![p] = index]

\* all.TryAcquire
AllTryAcquire(p) == pc[p] = "idle" /\ MoveTo(p, "acquire", 1) /\ UNCHANGED inUse

\* Concurrency.TryAcquire of limiter i[p].
Full(l) == inUse[l] >= Max[l]

Last(l) == l = N

Acquire(p) ==
  /\ pc[p] = "acquire" /\ ~Full(i[p])
  /\ inUse' = [inUse EXCEPT ![i[p]] = @ + 1]
  /\ IF Last(i[p]) THEN MoveTo(p, "held", 1) ELSE MoveTo(p, "acquire", i[p] + 1)

\* Refused: the limiters acquired before this one are released, last first.
RollbackFromOff(l) == l - 2                                        \* mutated form
RollbackFrom(l) == l - 1

Refused(p) ==
  /\ pc[p] = "acquire" /\ Full(i[p]) /\ UNCHANGED inUse
  /\ IF RollbackFrom(i[p]) < 1 THEN MoveTo(p, "idle", 1)
     ELSE MoveTo(p, "rollback", RollbackFrom(i[p]))

\* Concurrency.Release of a permit that is held.
Release(p, next, index) ==
  inUse' = [inUse EXCEPT ![i[p]] = @ - 1] /\ MoveTo(p, next, index)

Rollback(p) ==
  /\ pc[p] = "rollback"
  /\ IF i[p] = 1 THEN Release(p, "idle", 1) ELSE Release(p, "rollback", i[p] - 1)

\* all.Release
ReleaseAll(p) ==
  /\ pc[p] \in {"held", "release"}
  /\ IF i[p] = N THEN Release(p, "idle", 1) ELSE Release(p, "release", i[p] + 1)

AllNext ==
  \E p \in Proc :
    AllTryAcquire(p) \/ Acquire(p) \/ Refused(p) \/ Rollback(p) \/ ReleaseAll(p)

AllSpec == AllInit /\ [][AllNext]_allVars
-----------------------------------------------------------------------------
Holds(p, l) ==
  \/ pc[p] = "acquire" /\ l < i[p]
  \/ pc[p] = "rollback" /\ l <= i[p]
  \/ pc[p] \in {"held", "release"} /\ l >= i[p]

\* All never leaks a permit: each limiter counts exactly the goroutines that
\* hold one of its permits, also while an acquisition is rolled back, and never
\* more than its Max.
PermitsBalance ==
  \A l \in Limiter : /\ inUse[l] = Cardinality({p \in Proc : Holds(p, l)})
                     /\ inUse[l] <= Max[l]
=============================================================================
