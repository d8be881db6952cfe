------------------------------ MODULE FlowTable ------------------------------
(* flow.Flow and flow.Table: lookups, Touch, BeginClose and Close of a flow,    *)
(* Remove, Sweep and Close of the table, called by concurrent goroutines.  A    *)
(* step is one critical section or one atomic access; a Load and CAS loop that  *)
(* retries until the CAS succeeds is the one step of its last iteration, and    *)
(* Sweep's expire, whose CAS is not retried, is two.                            *)
EXTENDS Integers, FiniteSets, Sequences, FiniteSetsExt

CONSTANTS
  Proc,      \* goroutines
  Key,       \* table keys
  ShardOf,   \* Table.shard: the shard of each key
  MaxFlows,  \* bound on the flows opened
  Times,     \* the times given to Sweep
  Idle       \* TableOptions.IdleTimeout

ASSUME FlowAssumption ==
  /\ IsFiniteSet(Proc) /\ IsFiniteSet(Key) /\ Key # {} /\ ShardOf \in [Key -> Nat]
  /\ MaxFlows \in Nat /\ Times \subseteq Nat /\ Idle \in Nat

NoFlow == 0
Flow == 1 .. MaxFlows
Shard == {ShardOf[k] : k \in Key}

VARIABLES
  m,       \* the maps of all shards: key -> flow ID
  locked,  \* shards whose mutex Sweep holds
  now,     \* Table.now, the coarse clock
  lastID,  \* the last ID NextID gave out
  flow,    \* every flow opened; left: how it left the table; onClose: OnClose calls
  loc      \* goroutines: where each is and its local variables

vars == <<m, locked, now, lastID, flow, loc>>

Absent == [key |-> CHOOSE k \in Key : TRUE, state |-> "none", seen |-> 0, frozen |-> FALSE,
           left |-> "no", onClose |-> 0]
Resting == [at |-> "idle", f |-> NoFlow, v |-> NoFlow, t |-> 0, seen |-> 0, frozen |-> FALSE,
            shards |-> {}, keys |-> {}, todo |-> {}]

Init ==
  /\ m = [k \in Key |-> NoFlow] /\ locked = {} /\ now = 0 /\ lastID = 0
  /\ flow = [f \in Flow |-> Absent]
  /\ loc = [p \in Proc |-> Resting]

\* p is at a label; p's variables become r; p goes on to a label.
At(p, label) == loc[p].at = label
Local(p, r) == loc' = [loc EXCEPT ![p] = r]
Goto(p, label) == Local(p, [loc[p] EXCEPT !.at = label])
\* p's call returns; p keeps its flow pointer.
Return(p) == Local(p, [Resting EXCEPT !.f = loc[p].f])
Free(k) == ShardOf[k] \notin locked
-----------------------------------------------------------------------------
(* Flow *)

\* CAS state Open -> Closing, then freeze.
BeginClose(p) ==
  /\ At(p, "idle") /\ loc[p].f # NoFlow /\ flow[loc[p].f].state = "open"
  /\ flow' = [flow EXCEPT ![loc[p].f].state = "closing"]
  /\ Goto(p, "freeze") /\ UNCHANGED <<m, locked, now, lastID>>

\* The user's own Flow.Close: CAS state -> Closed, then freeze.
CloseFlow(p) ==
  /\ At(p, "idle") /\ loc[p].f # NoFlow /\ flow[loc[p].f].state # "closed"
  /\ flow' = [flow EXCEPT ![loc[p].f].state = "closed"]
  /\ Goto(p, "freeze") /\ UNCHANGED <<m, locked, now, lastID>>

freeze(p) ==
  /\ At(p, "freeze") /\ flow' = [flow EXCEPT ![loc[p].f].frozen = TRUE]
  /\ Return(p) /\ UNCHANGED <<m, locked, now, lastID>>

\* Touch reads the table's clock, then runs its CAS loop on seen.
Touch(p) ==
  /\ At(p, "idle") /\ loc[p].f # NoFlow
  /\ Local(p, [loc[p] EXCEPT !.at = "touch", !.t = now])
  /\ UNCHANGED <<m, locked, now, lastID, flow>>

TouchableUnchecked(f, t) == t > flow[f].seen                       \* mutated form
Touchable(f, t) == ~flow[f].frozen /\ t > flow[f].seen

TouchCAS(p) ==
  /\ At(p, "touch")
  /\ flow' = IF Touchable(loc[p].f, loc[p].t)
               THEN [flow EXCEPT ![loc[p].f].seen = loc[p].t] ELSE flow
  /\ Return(p) /\ UNCHANGED <<m, locked, now, lastID>>
-----------------------------------------------------------------------------
(* Table *)

\* p keeps the flow it found, for a Touch (GetAndTouch) or a later call.
Get(p, k) ==
  /\ At(p, "idle") /\ Free(k) /\ m[k] # NoFlow
  /\ Local(p, [loc[p] EXCEPT !.f = m[k]])
  /\ UNCHANGED <<m, locked, now, lastID, flow>>

\* GetOrOpen of an absent key; of a present one it is Get.
GetOrOpen(p, k) ==
  /\ At(p, "idle") /\ Free(k) /\ m[k] = NoFlow /\ lastID < MaxFlows
  /\ lastID' = lastID + 1 /\ m' = [m EXCEPT ![k] = lastID + 1]
  /\ flow' = [flow EXCEPT ![lastID + 1] =
                [Absent EXCEPT !.key = k, !.state = "open", !.seen = now]]
  /\ Local(p, [loc[p] EXCEPT !.f = lastID + 1])
  /\ UNCHANGED <<locked, now>>

\* Remove(k, id) deletes only the flow with that ID.
Removable(f) == m[flow[f].key] = f

Remove(p) ==
  /\ At(p, "idle") /\ loc[p].f # NoFlow /\ Free(flow[loc[p].f].key) /\ Removable(loc[p].f)
  /\ LET k == flow[loc[p].f].key IN
       /\ m' = [m EXCEPT ![k] = NoFlow]
       /\ flow' = [flow EXCEPT ![m[k]] = [@ EXCEPT !.frozen = TRUE, !.left = "remove"]]
       /\ Local(p, [loc[p] EXCEPT !.at = "closed", !.todo = {m[k]}])
  /\ UNCHANGED <<locked, now, lastID>>

\* closed(k, f): Flow.Close (CAS, then freeze if the CAS won), then OnClose.
ClosedCAS(p, f) ==
  /\ At(p, "closed") /\ f \in loc[p].todo
  /\ flow' = [flow EXCEPT ![f].state = "closed"]
  /\ Local(p, [loc[p] EXCEPT !.v = f,
                 !.at = IF flow[f].state = "closed" THEN "onClose" ELSE "closedFreeze"])
  /\ UNCHANGED <<m, locked, now, lastID>>

ClosedFreeze(p) ==
  /\ At(p, "closedFreeze") /\ flow' = [flow EXCEPT ![loc[p].v].frozen = TRUE]
  /\ Goto(p, "onClose") /\ UNCHANGED <<m, locked, now, lastID>>

\* OnClose runs outside the locks; then the next victim.
onClose(p) ==
  /\ At(p, "onClose") /\ flow' = [flow EXCEPT ![loc[p].v].onClose = @ + 1]
  /\ Local(p, [loc[p] EXCEPT !.at = "closed", !.todo = @ \ {loc[p].v}])
  /\ UNCHANGED <<m, locked, now, lastID>>

\* All victims are reported: Table.Close goes on to its next shard.
ClosedAll(p) ==
  /\ At(p, "closed") /\ loc[p].todo = {}
  /\ IF loc[p].shards = {} THEN Return(p) ELSE Goto(p, "close")
  /\ UNCHANGED <<m, locked, now, lastID, flow>>

advance(t) == Max({now, t})

\* Sweep(t): advance the clock, never back, then visit the shards in order;
\* without an IdleTimeout it only advances the clock.
Sweep(p, t) ==
  /\ At(p, "idle") /\ now' = advance(t)
  /\ IF Idle = 0 THEN UNCHANGED loc
     ELSE Local(p, [loc[p] EXCEPT !.at = "sweep", !.t = t, !.shards = Shard])
  /\ UNCHANGED <<m, locked, lastID, flow>>

NextShard(p) == Min(loc[p].shards)
Mapped(s) == {k \in Key : ShardOf[k] = s /\ m[k] # NoFlow}

SweepLock(p) ==
  /\ At(p, "sweep") /\ loc[p].shards # {} /\ NextShard(p) \notin locked
  /\ locked' = locked \cup {NextShard(p)}
  /\ Local(p, [loc[p] EXCEPT !.at = "scan", !.keys = Mapped(NextShard(p))])
  /\ UNCHANGED <<m, now, lastID, flow>>

\* expire loads seen and the frozen bit of some flow not visited yet.
Cutoff(p) == loc[p].t - Idle

ExpireLoad(p, k) ==
  /\ At(p, "scan") /\ k \in loc[p].keys
  /\ LET f == flow[m[k]] IN
       IF f.seen >= Cutoff(p)
         THEN Local(p, [loc[p] EXCEPT !.keys = @ \ {k}])
         ELSE Local(p, [loc[p] EXCEPT !.at = "expire", !.keys = @ \ {k}, !.v = m[k],
                                      !.seen = f.seen, !.frozen = f.frozen])
  /\ UNCHANGED <<m, locked, now, lastID, flow>>

\* Frozen already, or the CAS finds the word as it was loaded.
ExpiresBlind(p) == TRUE                                            \* mutated form
Expires(p) ==
  \/ loc[p].frozen
  \/ flow[loc[p].v].seen = loc[p].seen /\ ~flow[loc[p].v].frozen

Victims(p) == loc[p].todo \cup {loc[p].v}

ExpireCAS(p) ==
  /\ At(p, "expire")
  /\ IF Expires(p)
       THEN /\ m' = [m EXCEPT ![flow[loc[p].v].key] = NoFlow]
            /\ flow' = [flow EXCEPT ![loc[p].v] = [@ EXCEPT !.frozen = TRUE, !.left = "sweep"]]
            /\ Local(p, [loc[p] EXCEPT !.at = "scan", !.todo = Victims(p)])
       ELSE Goto(p, "scan") /\ UNCHANGED <<m, flow>>
  /\ UNCHANGED <<locked, now, lastID>>

SweepUnlock(p) ==
  /\ At(p, "scan") /\ loc[p].keys = {}
  /\ locked' = locked \ {NextShard(p)}
  /\ Local(p, [loc[p] EXCEPT !.at = IF Cardinality(loc[p].shards) = 1 THEN "closed" ELSE "sweep",
                             !.shards = @ \ {NextShard(p)}])
  /\ UNCHANGED <<m, now, lastID, flow>>

\* Close: for each shard, swap in an empty map under the lock, then close the
\* flows of the old one.
Close(p) ==
  /\ At(p, "idle") /\ Local(p, [loc[p] EXCEPT !.at = "close", !.shards = Shard])
  /\ UNCHANGED <<m, locked, now, lastID, flow>>

CloseKeeps(k, s) == m[k]                                           \* mutated form
CloseSwaps(k, s) == IF ShardOf[k] = s THEN NoFlow ELSE m[k]

CloseShard(p) ==
  /\ At(p, "close") /\ NextShard(p) \notin locked
  /\ LET s == NextShard(p)
         old == {m[k] : k \in Mapped(s)}
     IN /\ m' = [k \in Key |-> CloseSwaps(k, s)]
        /\ flow' = [f \in Flow |-> IF f \in old THEN [flow[f] EXCEPT !.left = "close"] ELSE flow[f]]
        /\ Local(p, [loc[p] EXCEPT !.at = "closed", !.shards = @ \ {s}, !.todo = old])
  /\ UNCHANGED <<locked, now, lastID>>
-----------------------------------------------------------------------------
Call(p) ==
  \/ BeginClose(p) \/ CloseFlow(p) \/ Touch(p) \/ Remove(p) \/ Close(p)
  \/ \E k \in Key : Get(p, k) \/ GetOrOpen(p, k)
  \/ \E t \in Times : Sweep(p, t)

Continue(p) ==
  \/ freeze(p) \/ TouchCAS(p) \/ ClosedFreeze(p) \/ onClose(p) \/ ClosedAll(p)
  \/ SweepLock(p) \/ ExpireCAS(p) \/ SweepUnlock(p) \/ CloseShard(p)
  \/ \E f \in Flow : ClosedCAS(p, f)
  \/ \E k \in Key : ExpireLoad(p, k)

Next == \E p \in Proc : Call(p) \/ Continue(p)

Spec == Init /\ [][Next]_vars
-----------------------------------------------------------------------------
Opened == {f \in Flow : flow[f].state # "none"}

\* Every flow that left the table, by Remove, Sweep or Close and whether or not
\* someone else closed it first, has had OnClose called exactly once or is owed
\* one by exactly one goroutine; a flow in the table has had none.
OnCloseOnce ==
  \A f \in Opened :
    flow[f].onClose + Cardinality({p \in Proc : f \in loc[p].todo})
      = (IF m[flow[f].key] = f THEN 0 ELSE 1)

\* Remove or Sweep took the flow, or the call that closed it has returned.
Gone(f) ==
  \/ flow[f].left \in {"remove", "sweep"}
  \/ /\ flow[f].state \in {"closing", "closed"}
     /\ \A p \in Proc : /\ At(p, "freeze") => loc[p].f # f
                        /\ At(p, "closedFreeze") => loc[p].v # f

\* LastSeen never moves back, and a Touch cannot revive a flow that BeginClose,
\* Close, Remove or Sweep has let go of.
NoRevival ==
  [][\A f \in Opened : flow'[f].seen >= flow[f].seen /\ (Gone(f) => flow'[f].seen = flow[f].seen)]_vars

\* A flow leaves the table only by its own ID, by Close, or because a Sweep
\* found it idle: a Touch that lands before the Sweep decides keeps it, and a
\* stale Remove cannot take the flow that reused its key.
LeavesForCause ==
  [][\A k \in Key : m[k] # NoFlow /\ m'[k] # m[k] =>
       \E p \in Proc : \/ At(p, "close")
                       \/ At(p, "idle") /\ loc[p].f = m[k]
                       \/ At(p, "expire") /\ flow[m[k]].seen < Cutoff(p)]_vars

\* table.go: when Sweep evicts the flow under a GetAndTouch, "the Touch has no
\* effect and the returned flow is no longer Open".
EvictedIsNotOpen ==
  [][\A p \in Proc : At(p, "touch") /\ loc'[p].at = "idle" /\ flow[loc[p].f].left = "sweep" =>
       flow[loc[p].f].state # "open"]_vars
=============================================================================
