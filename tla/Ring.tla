-------------------------------- MODULE Ring --------------------------------
(* queue.Ring (queue/queue.go): a bounded FIFO under one mutex, with two       *)
(* capacity-1 signal channels and a done channel.  Every mutex section is one  *)
(* action; the channel operations and the OnDrop calls that follow the unlock  *)
(* are actions of their own, so any other goroutine can run in between.  Calls *)
(* that change nothing (Pop on an empty ring, a second Close, Drain of an      *)
(* empty ring, Len, Cap, Stats) are stuttering steps.                          *)
EXTENDS Integers, Sequences, FiniteSets

CONSTANTS
  Proc,        \* goroutines that use the ring
  Item,        \* the items; each is handed to Push or PushWait once
  None,        \* the zero value of T
  Cap,         \* Options.Cap
  DropOldest,  \* Options.Policy: TRUE is DropOldest, FALSE is Reject
  OpenDrain    \* do callers also Drain a ring nobody closed?

\* New: the slot count is Cap rounded up to a power of two.
Size == CHOOSE s \in {2^k : k \in 0..Cap} : s >= Cap /\ s < 2 * Cap

ASSUME RingAssumption ==
  /\ Cap \in Nat \ {0} /\ Size \in Nat \ {0}
  /\ None \notin Item
  /\ DropOldest \in BOOLEAN /\ OpenDrain \in BOOLEAN

VARIABLES
  items, head, n, closed,    \* Ring fields guarded by mu
  chan,                      \* notEmpty, notFull: token present; done: closed
  stats,
  pc, hand, owes, doomed,    \* per goroutine: where it is, the item it holds,
                             \* and, after its mutex section, the channel
                             \* operations and the OnDrop calls still to come
  fresh, fate, sawClosed     \* history: items no call has received yet, what
                             \* became of each item, a PopWait got ErrClosed

ringVars == <<items, head, n, closed>>
histVars == <<fresh, fate, sawClosed>>
vars == <<ringVars, chan, stats, pc, hand, owes, doomed, histVars>>

Init ==
  /\ items = [i \in 0..(Size - 1) |-> None] /\ head = 0 /\ n = 0 /\ closed = FALSE
  /\ chan = [c \in {"notEmpty", "notFull", "done"} |-> FALSE]
  /\ stats = [Pushed |-> 0, Popped |-> 0, Dropped |-> 0, Rejected |-> 0]
  /\ pc = [p \in Proc |-> "idle"] /\ hand = [p \in Proc |-> None]
  /\ owes = [p \in Proc |-> <<>>] /\ doomed = [p \in Proc |-> <<>>]
  /\ fresh = Item /\ fate = [v \in Item |-> <<>>] /\ sawClosed = FALSE
-----------------------------------------------------------------------------
\* The k-th slot from the front; Size is a power of two, so "& mask" is "%".
SlotWrongMask(k) == (head + k) % (Size - 1)                        \* mutated form
Slot(k) == (head + k) % Size

\* The queued items, oldest first.
Contents == [k \in 1..n |-> items[Slot(k - 1)]]

Full == n = Size

AlwaysOpen == TRUE                                                 \* mutated form
Open == ~closed

Goto(p, label) == pc' = [pc EXCEPT ![p] = label]

\* The mutex section ends with channel operations ops still to do, in order.
Unlock(p, ops) == Goto(p, "after") /\ owes' = [owes EXCEPT ![p] = ops]

Count(field, k) == stats' = [stats EXCEPT ![field] = @ + k]

\* v's owner is settled: "kept" by the caller, "popped", or "dropped".
Settle(v, how) == fate' = [fate EXCEPT ![v] = Append(@, how)]

Hold(p, v) == hand' = [hand EXCEPT ![p] = v]

\* A caller passes an item no call received before.  Items are never compared,
\* so nothing is lost by handing them out in a fixed order.
NewItem(v) ==
  /\ v \in fresh /\ v = CHOOSE w \in fresh : TRUE
  /\ fresh' = fresh \ {v}

\* Store v behind the n queued items.
Enqueue(v) ==
  /\ items' = [items EXCEPT ![Slot(n)] = v]
  /\ n' = n + 1 /\ UNCHANGED <<head, closed>>
  /\ Count("Pushed", 1)

\* popLocked: take the front item and zero its slot.
popLockedKeepsHead == items' = [items EXCEPT ![head] = None] /\ n' = n - 1 /\ UNCHANGED head \* mutated form
popLocked == items' = [items EXCEPT ![head] = None] /\ n' = n - 1 /\ head' = Slot(1)
-----------------------------------------------------------------------------
(* Push and PushWait *)

PushRefused(p, v) ==
  /\ pc[p] = "idle" /\ NewItem(v)
  /\ ~Open \/ (Full /\ ~DropOldest)
  /\ Count("Rejected", 1) /\ Settle(v, "kept")
  /\ UNCHANGED <<ringVars, chan, pc, hand, owes, doomed, sawClosed>>

PushAccepted(p, v) ==
  /\ pc[p] = "idle" /\ NewItem(v)
  /\ Open /\ ~Full
  /\ Enqueue(v) /\ Unlock(p, <<"notEmpty">>)
  /\ UNCHANGED <<chan, hand, doomed, fate, sawClosed>>

\* popLocked and the store: with Size items queued, the slot behind the last
\* one is the slot the front just left.
PushEvicts(p, v) ==
  /\ pc[p] = "idle" /\ NewItem(v)
  /\ Open /\ Full /\ DropOldest
  /\ doomed' = [doomed EXCEPT ![p] = <<items[head]>>]
  /\ items' = [items EXCEPT ![head] = v] /\ head' = Slot(1)
  /\ stats' = [stats EXCEPT !.Dropped = @ + 1, !.Pushed = @ + 1]
  /\ Unlock(p, <<"notEmpty">>)
  /\ UNCHANGED <<n, closed, chan, hand, fate, sawClosed>>

PushWait(p, v) ==
  /\ pc[p] = "idle" /\ NewItem(v)
  /\ Hold(p, v) /\ Goto(p, "pushWait")
  /\ UNCHANGED <<ringVars, chan, stats, owes, doomed, fate, sawClosed>>

\* PushWait's mutex section: closed, room, or full.
PushWaitClosed(p) ==
  /\ pc[p] = "pushWait" /\ ~Open
  /\ Count("Rejected", 1) /\ Settle(hand[p], "kept") /\ Hold(p, None)
  /\ Goto(p, "idle")
  /\ UNCHANGED <<ringVars, chan, owes, doomed, fresh, sawClosed>>

PushWaitOwesOne == <<"notEmpty">>                                  \* mutated form
PushWaitOwes == IF n + 1 < Size THEN <<"notEmpty", "notFull">> ELSE <<"notEmpty">>

PushWaitRoom(p) ==
  /\ pc[p] = "pushWait" /\ Open /\ ~Full
  /\ Enqueue(hand[p]) /\ Hold(p, None)
  /\ Unlock(p, PushWaitOwes)
  /\ UNCHANGED <<chan, doomed, histVars>>

PushWaitFull(p) ==
  /\ pc[p] = "pushWait" /\ Open /\ Full
  /\ Goto(p, "pushWaitSelect")
  /\ UNCHANGED <<ringVars, chan, stats, hand, owes, doomed, histVars>>

\* select: a token is taken, or done is closed and the token left alone.
Wakes(p, c, select, again) ==
  /\ pc[p] = select
  /\ \/ chan[c] /\ chan' = [chan EXCEPT ![c] = FALSE]
     \/ chan["done"] /\ UNCHANGED chan
  /\ Goto(p, again)
  /\ UNCHANGED <<ringVars, stats, hand, owes, doomed, histVars>>

PushWaitWakes(p) == Wakes(p, "notFull", "pushWaitSelect", "pushWait")

\* select: the context ended; the caller keeps the item.
PushWaitCancelled(p) ==
  /\ pc[p] = "pushWaitSelect"
  /\ Settle(hand[p], "kept") /\ Hold(p, None) /\ Goto(p, "idle")
  /\ UNCHANGED <<ringVars, chan, stats, owes, doomed, fresh, sawClosed>>
-----------------------------------------------------------------------------
(* Pop and PopWait *)

PopWait(p) ==
  /\ pc[p] = "idle" /\ Goto(p, "popWait")
  /\ UNCHANGED <<ringVars, chan, stats, hand, owes, doomed, histVars>>

PopOwesOne == <<"notFull">>                                        \* mutated form
PopOwesNoRoom == IF n - 1 > 0 THEN <<"notEmpty">> ELSE <<>>        \* mutated form
PopOwes == IF n - 1 > 0 THEN <<"notFull", "notEmpty">> ELSE <<"notFull">>

\* Pop's mutex section, in a direct call or in PopWait's loop.
Pop(p) ==
  /\ pc[p] \in {"idle", "popWait"} /\ n > 0
  /\ popLocked /\ Hold(p, items[head]) /\ Count("Popped", 1)
  /\ Unlock(p, PopOwes)
  /\ UNCHANGED <<closed, chan, doomed, histVars>>

PopWaitEmpty(p) ==
  /\ pc[p] = "popWait" /\ n = 0
  /\ Goto(p, "popWaitCheck")
  /\ UNCHANGED <<ringVars, chan, stats, hand, owes, doomed, histVars>>

\* PopWait's second mutex section decides whether the ring is finished.
PopWaitCheck(p) ==
  /\ pc[p] = "popWaitCheck"
  /\ LET finished == closed /\ n = 0 IN
       /\ Goto(p, IF finished THEN "idle" ELSE "popWaitSelect")
       /\ sawClosed' = (sawClosed \/ finished)
  /\ UNCHANGED <<ringVars, chan, stats, hand, owes, doomed, fresh, fate>>

PopWaitWakes(p) == Wakes(p, "notEmpty", "popWaitSelect", "popWait")

PopWaitCancelled(p) ==
  /\ pc[p] = "popWaitSelect" /\ Goto(p, "idle")
  /\ UNCHANGED <<ringVars, chan, stats, hand, owes, doomed, histVars>>
-----------------------------------------------------------------------------
(* Close and Drain, and what every call does after its unlock *)

CloseOwesNothing == <<>>                                           \* mutated form
CloseOwes == <<"done">>

Close(p) ==
  /\ pc[p] = "idle" /\ ~closed /\ closed' = TRUE
  /\ Unlock(p, CloseOwes)
  /\ UNCHANGED <<items, head, n, chan, stats, hand, doomed, histVars>>

\* Drain pops until the ring is empty, in one mutex section.
Drain(p) ==
  /\ pc[p] = "idle" /\ n > 0 /\ (closed \/ OpenDrain)
  /\ doomed' = [doomed EXCEPT ![p] = Contents] /\ Count("Dropped", n)
  /\ items' = [i \in 0..(Size - 1) |-> None] /\ head' = Slot(n) /\ n' = 0
  /\ Unlock(p, <<>>)
  /\ UNCHANGED <<closed, chan, hand, histVars>>

\* signal (a non-blocking send on a channel of capacity 1), or close(done).
Signal(p) ==
  /\ pc[p] = "after" /\ owes[p] # <<>>
  /\ chan' = [chan EXCEPT ![Head(owes[p])] = TRUE]
  /\ owes' = [owes EXCEPT ![p] = Tail(@)]
  /\ UNCHANGED <<ringVars, stats, pc, hand, doomed, histVars>>

\* One OnDrop call, by Push for the evicted item or by Drain for each item.
OnDrop(p) ==
  /\ pc[p] = "after" /\ owes[p] = <<>> /\ doomed[p] # <<>>
  /\ Settle(Head(doomed[p]), "dropped")
  /\ doomed' = [doomed EXCEPT ![p] = Tail(@)]
  /\ UNCHANGED <<ringVars, chan, stats, pc, hand, owes, fresh, sawClosed>>

\* The call returns; Pop and PopWait hand over the item they hold.
Return(p) ==
  /\ pc[p] = "after" /\ owes[p] = <<>> /\ doomed[p] = <<>>
  /\ IF hand[p] = None THEN UNCHANGED fate ELSE Settle(hand[p], "popped")
  /\ Hold(p, None) /\ Goto(p, "idle")
  /\ UNCHANGED <<ringVars, chan, stats, owes, doomed, fresh, sawClosed>>
-----------------------------------------------------------------------------
\* What a goroutine inside a call does without waiting for another one.
Continue(p) ==
  \/ PushWaitClosed(p) \/ PushWaitRoom(p) \/ PushWaitFull(p) \/ PushWaitWakes(p)
  \/ pc[p] = "popWait" /\ Pop(p)
  \/ PopWaitEmpty(p) \/ PopWaitCheck(p) \/ PopWaitWakes(p)
  \/ Signal(p) \/ OnDrop(p) \/ Return(p)

\* What callers choose to do: start a call or end a context.
Call(p) ==
  \/ \E v \in Item : PushRefused(p, v) \/ PushAccepted(p, v) \/ PushEvicts(p, v) \/ PushWait(p, v)
  \/ pc[p] = "idle" /\ Pop(p)
  \/ PopWait(p) \/ Close(p) \/ Drain(p)
  \/ PushWaitCancelled(p) \/ PopWaitCancelled(p)

Next == \E p \in Proc : Continue(p) \/ Call(p)

Spec == Init /\ [][Next]_vars

\* The Go scheduler runs every runnable goroutine eventually.  Nobody is
\* obliged to call anything or to cancel.
FairSpec == Spec /\ \A p \in Proc : WF_vars(Continue(p))
-----------------------------------------------------------------------------
(* Correctness *)

\* Type invariant: the ring never holds more than Size items (Push and PushWait
\* compare n with len(items) under mu) and every slot, local and channel has a
\* value of its type.
TypeOK ==
  /\ items \in [0..(Size - 1) -> Item \cup {None}]
  /\ head \in 0..(Size - 1) /\ n \in 0..Size /\ closed \in BOOLEAN
  /\ chan \in [{"notEmpty", "notFull", "done"} -> BOOLEAN]
  /\ stats \in [Pushed : Nat, Popped : Nat, Dropped : Nat, Rejected : Nat]
  /\ pc \in [Proc -> {"idle", "pushWait", "pushWaitSelect", "popWait", "popWaitCheck",
                      "popWaitSelect", "after"}]
  /\ hand \in [Proc -> Item \cup {None}]
  /\ owes \in [Proc -> Seq({"notEmpty", "notFull", "done"})]
  /\ doomed \in [Proc -> Seq(Item \cup {None})]
  /\ fresh \in SUBSET Item /\ fate \in [Item -> Seq({"kept", "popped", "dropped"})]
  /\ sawClosed \in BOOLEAN

\* Stats agree with each other whatever calls raced: everything counted as
\* Pushed was Popped, Dropped (evicted or drained), or is still queued.
StatsBalance == stats.Pushed = stats.Popped + stats.Dropped + n

\* Goroutine p has left its mutex section and will still signal channel c.
Owes(p, c) == \E k \in 1..Len(owes[p]) : owes[p][k] = c

\* No wake-up of a consumer is lost although notEmpty holds one token for any
\* number of items: while items are queued the token is present, somebody is
\* about to send it, or a PopWait is about to look at the ring.
ConsumerWakeup ==
  n > 0 => chan["notEmpty"] \/ \E p \in Proc : Owes(p, "notEmpty") \/ pc[p] = "popWait"

\* No wake-up of a producer is lost: while a PushWait sleeps in its select on
\* an open ring with room, notFull holds its token, somebody is about to send
\* it, or another PushWait is about to look at the ring.
ProducerWakeup ==
  (n < Size /\ ~closed /\ \E p \in Proc : pc[p] = "pushWaitSelect")
    => chan["notFull"] \/ \E p \in Proc : Owes(p, "notFull") \/ pc[p] = "pushWait"

\* How many places hold item v: ring slots, goroutines about to push it or to
\* return it, goroutines about to pass it to OnDrop, and its recorded fates.
Owners(v) ==
  Cardinality({i \in 0..(Size - 1) : items[i] = v})
  + Cardinality({p \in Proc : hand[p] = v})
  + Cardinality({d \in Proc \X (1..Size) : d[2] <= Len(doomed[d[1]]) /\ doomed[d[1]][d[2]] = v})
  + Len(fate[v])

\* Ownership: an item given to Push or PushWait is at every moment in exactly
\* one place, so it is never lost, delivered twice, both delivered and passed
\* to OnDrop, or kept by the caller and queued as well.
OneOwner == \A v \in Item : Owners(v) = IF v \in fresh THEN 0 ELSE 1

\* ErrClosed from PopWait is final: the ring is empty from then on, although
\* PopWait tests closed in a second mutex section after Pop found nothing and
\* pushes race with Close.
ErrClosedIsFinal == sawClosed => closed /\ n = 0

Fifo == INSTANCE BoundedFifo WITH q <- Contents, Bound <- Size

\* The ring implements the bounded FIFO: head, n and the mask name the queued
\* items in arrival order across every wrap, eviction and drain.
ImplementsFifo == Fifo!Spec

\* Liveness: a PopWait asleep while items are queued wakes up, or the others take
\* everything; a PushWait asleep while there is room wakes up, or the room goes.
SleepersServed ==
  \A p \in Proc :
    /\ (pc[p] = "popWaitSelect" /\ n > 0) ~> (pc[p] # "popWaitSelect" \/ n = 0)
    /\ (pc[p] = "pushWaitSelect" /\ n < Size) ~> (pc[p] # "pushWaitSelect" \/ n = Size)

\* Liveness: Close wakes every waiter, and every call then in progress returns.
CloseEndsCalls == \A p \in Proc : closed ~> (pc[p] = "idle")
=============================================================================
