----------------------------- MODULE RingProofs ------------------------------
(* Proofs about Ring for any goroutines, items, capacity and policy: types,     *)
(* statistics, wake-ups, the refinement of BoundedFifo, and ownership.          *)
EXTENDS Ring, TLAPS

USE RingAssumption

Channel == {"notEmpty", "notFull", "done"}
Label == {"idle", "pushWait", "pushWaitSelect", "popWait", "popWaitCheck", "popWaitSelect", "after"}

\* Masking an index gives a slot (the "& mask" of popLocked and the pushes).
LEMMA SlotInRange ==
  ASSUME NEW h \in Nat, NEW k \in Nat
  PROVE  (h + k) % Size \in 0..(Size - 1)
  OBVIOUS

\* Doing the first channel operation owed leaves channel operations owed, and
\* none of the others is lost.
LEMMA DebtShrinks ==
  ASSUME NEW s \in Seq(Channel), s # <<>>
  PROVE  /\ Tail(s) \in Seq(Channel) /\ Head(s) \in Channel
         /\ \A c : (\E k \in 1..Len(s) : s[k] = c)
                     => c = Head(s) \/ \E k \in 1..Len(Tail(s)) : Tail(s)[k] = c
<1>1. Tail(s) \in Seq(Channel) /\ Head(s) \in Channel
  OBVIOUS
<1>2. ASSUME NEW c, NEW k \in 1..Len(s), s[k] = c, c # Head(s)
      PROVE  \E j \in 1..Len(Tail(s)) : Tail(s)[j] = c
  <2>1. k # 1 /\ k - 1 \in 1..Len(Tail(s)) /\ Tail(s)[k - 1] = s[k]
    BY <1>2
  <2>. QED BY <2>1, <1>2, SMTT(30)
<1>. QED BY <1>1, <1>2

\* The contents of the ring are a sequence of its slots' values.
LEMMA ContentsType == TypeOK => Contents \in Seq(Item \cup {None})
<1>. SUFFICES ASSUME TypeOK PROVE Contents \in Seq(Item \cup {None})
  OBVIOUS
<1>1. \A k \in 1..n : items[Slot(k - 1)] \in Item \cup {None}
  <2>. TAKE k \in 1..n
  <2>1. (head + (k - 1)) % Size \in 0..(Size - 1)
    BY SlotInRange DEF TypeOK
  <2>. QED BY <2>1 DEF TypeOK, Slot
<1>. QED BY <1>1 DEF Contents, TypeOK

\* What each call owes after its mutex section is a sequence of channel operations.
LEMMA OwesType ==
  /\ <<>> \in Seq(Channel) /\ <<"notEmpty">> \in Seq(Channel) /\ <<"done">> \in Seq(Channel)
  /\ PushWaitOwes \in Seq(Channel) /\ PopOwes \in Seq(Channel)
<1>1. <<"notEmpty">> \in Seq(Channel) /\ <<"notFull">> \in Seq(Channel)
  BY DEF Channel
<1>2. <<"notEmpty", "notFull">> \in Seq(Channel) /\ <<"notFull", "notEmpty">> \in Seq(Channel)
  BY DEF Channel
<1>3. <<>> \in Seq(Channel) /\ <<"done">> \in Seq(Channel)
  BY DEF Channel
<1>4. PushWaitOwes \in Seq(Channel)
  BY ONLY <1>1, <1>2 DEF PushWaitOwes
<1>5. PopOwes \in Seq(Channel)
  BY ONLY <1>1, <1>2 DEF PopOwes
<1>. QED BY ONLY <1>1, <1>3, <1>4, <1>5

Counters == [Pushed : Nat, Popped : Nat, Dropped : Nat, Rejected : Nat]
Fates == [Item -> Seq({"kept", "popped", "dropped"})]

\* Counting keeps the statistics natural numbers.
LEMMA CountType ==
  ASSUME TypeOK, NEW field \in {"Pushed", "Popped", "Dropped", "Rejected"}, NEW k \in Nat,
         Count(field, k)
  PROVE  stats' \in Counters
<1>1. stats \in Counters
  BY DEF TypeOK, Counters
<1>2. stats' = [stats EXCEPT ![field] = @ + k]
  BY DEF Count
<1>3. CASE field = "Pushed" BY <1>1, <1>2, <1>3 DEF Counters
<1>4. CASE field = "Popped" BY <1>1, <1>2, <1>4 DEF Counters
<1>5. CASE field = "Dropped" BY <1>1, <1>2, <1>5 DEF Counters
<1>6. CASE field = "Rejected" BY <1>1, <1>2, <1>6 DEF Counters
<1>. QED BY <1>3, <1>4, <1>5, <1>6

\* So does Push when it evicts, which counts one item in and one out.
LEMMA EvictCountType ==
  ASSUME NEW s \in Counters, NEW t, t = [s EXCEPT !.Dropped = @ + 1, !.Pushed = @ + 1]
  PROVE  t \in Counters
<1>1. t = [Pushed |-> s.Pushed + 1, Popped |-> s.Popped, Dropped |-> s.Dropped + 1,
           Rejected |-> s.Rejected]
  BY Zenon DEF Counters
<1>2. s.Pushed \in Nat /\ s.Popped \in Nat /\ s.Dropped \in Nat /\ s.Rejected \in Nat
  BY DEF Counters
<1>3. [Pushed |-> s.Pushed + 1, Popped |-> s.Popped, Dropped |-> s.Dropped + 1,
       Rejected |-> s.Rejected] \in Counters
  BY <1>2 DEF Counters
<1>. QED BY ONLY <1>1, <1>3

\* Recording what became of an item keeps the history well typed.
LEMMA SettleType ==
  ASSUME TypeOK, NEW v, NEW how \in {"kept", "popped", "dropped"}, Settle(v, how)
  PROVE  fate' \in Fates
<1>1. fate \in Fates
  BY DEF TypeOK, Fates
<1>2. \A w \in Item : Append(fate[w], how) \in Seq({"kept", "popped", "dropped"})
  BY <1>1 DEF Fates
<1>. QED BY <1>1, <1>2, Zenon DEF Settle, Fates

\* The debts of a goroutine that is not between its unlock and its return.
QuietOwes == \A p \in Proc : pc[p] # "after" => owes[p] = <<>>

\* What every other proof uses: the types, and no debts outside "after".
Basic == TypeOK /\ QuietOwes

\* A new ring has its types, and nobody owes a channel operation.
LEMMA BasicInit == Init => Basic
<1>. SUFFICES ASSUME Init PROVE Basic
  OBVIOUS
<1>1. stats \in Counters /\ fate \in Fates
  BY DEF Init, Counters, Fates
<1>2. items \in [0..(Size - 1) -> Item \cup {None}] /\ head \in 0..(Size - 1) /\ n \in 0..Size
  BY DEF Init
<1>3. owes \in [Proc -> Seq({"notEmpty", "notFull", "done"})]
  BY OwesType DEF Init, Channel
<1>4. doomed \in [Proc -> Seq(Item \cup {None})]
  BY DEF Init
<1>5. chan \in [{"notEmpty", "notFull", "done"} -> BOOLEAN] /\ closed \in BOOLEAN
  BY Zenon DEF Init
<1>. QED BY <1>1, <1>2, <1>3, <1>4, <1>5, Zenon DEF Init, Basic, TypeOK, QuietOwes, Counters, Fates

\* Every step of the ring's goroutines preserves the types.
LEMMA BasicNext == Basic /\ [Next]_vars => Basic'
<1>. SUFFICES ASSUME Basic, [Next]_vars PROVE Basic'
  OBVIOUS
<1>t. TypeOK
  BY DEF Basic
<1>. USE DEF Basic, TypeOK, QuietOwes, Counters, Fates
<1>s. /\ Slot(1) \in 0..(Size - 1) /\ Slot(n) \in 0..(Size - 1)
      /\ head \in 0..(Size - 1) /\ items[head] \in Item \cup {None}
  BY SlotInRange DEF Slot
<1>1. ASSUME NEW p \in Proc, NEW v \in Item, PushRefused(p, v) PROVE Basic'
  <2>1. stats' \in Counters
    BY <1>1, <1>t, CountType DEF PushRefused
  <2>2. fate' \in Fates
    BY <1>1, <1>t, SettleType DEF PushRefused
  <2>. QED BY <1>1, <2>1, <2>2, Zenon DEF PushRefused, NewItem, ringVars
<1>2. ASSUME NEW p \in Proc, NEW v \in Item, PushAccepted(p, v) PROVE Basic'
  <2>1. stats' \in Counters
    BY <1>2, <1>t, CountType DEF PushAccepted, Enqueue
  <2>2. items' \in [0..(Size - 1) -> Item \cup {None}]
    BY <1>2, <1>s DEF PushAccepted, Enqueue
  <2>3. n' \in 0..Size /\ head' = head /\ closed' = closed
    BY <1>2 DEF PushAccepted, Enqueue, Full
  <2>4. owes' \in [Proc -> Seq({"notEmpty", "notFull", "done"})]
    BY <1>2, OwesType DEF PushAccepted, Unlock, Channel
  <2>. QED BY <1>2, <2>1, <2>2, <2>3, <2>4, SMTT(30) DEF PushAccepted, NewItem, Unlock, Goto
<1>3. ASSUME NEW p \in Proc, NEW v \in Item, PushEvicts(p, v) PROVE Basic'
  <2>1. stats' \in Counters
    BY <1>3, <1>t, EvictCountType, Zenon DEF PushEvicts
  <2>2. doomed' \in [Proc -> Seq(Item \cup {None})]
    BY <1>3, <1>s, SMTT(30) DEF PushEvicts
  <2>3. items' \in [0..(Size - 1) -> Item \cup {None}] /\ head' \in 0..(Size - 1)
    BY <1>3, <1>s DEF PushEvicts
  <2>4. owes' \in [Proc -> Seq({"notEmpty", "notFull", "done"})]
    BY <1>3, OwesType DEF PushEvicts, Unlock, Channel
  <2>. QED BY <1>3, <2>1, <2>2, <2>3, <2>4, Zenon DEF PushEvicts, NewItem, Unlock, Goto
<1>4. ASSUME NEW p \in Proc, NEW v \in Item, PushWait(p, v) PROVE Basic'
  BY <1>4 DEF PushWait, NewItem, Hold, Goto, ringVars
<1>5. ASSUME NEW p \in Proc, PushWaitClosed(p) PROVE Basic'
  <2>1. stats' \in Counters
    BY <1>5, <1>t, CountType DEF PushWaitClosed
  <2>2. fate' \in Fates
    BY <1>5, <1>t, SettleType DEF PushWaitClosed
  <2>. QED BY <1>5, <2>1, <2>2, SMTT(30) DEF PushWaitClosed, Hold, Goto, ringVars
<1>6. ASSUME NEW p \in Proc, PushWaitRoom(p) PROVE Basic'
  <2>1. stats' \in Counters
    BY <1>6, <1>t, CountType DEF PushWaitRoom, Enqueue
  <2>2. items' \in [0..(Size - 1) -> Item \cup {None}]
    BY <1>6, <1>s DEF PushWaitRoom, Enqueue
  <2>3. n' \in 0..Size /\ head' = head /\ closed' = closed
    BY <1>6 DEF PushWaitRoom, Enqueue, Full
  <2>4. owes' \in [Proc -> Seq({"notEmpty", "notFull", "done"})]
    BY <1>6, OwesType DEF PushWaitRoom, Unlock, Channel
  <2>. QED BY <1>6, <2>1, <2>2, <2>3, <2>4, SMTT(30) DEF PushWaitRoom, Hold, Unlock, Goto, histVars
<1>7. ASSUME NEW p \in Proc, PushWaitFull(p) PROVE Basic'
  BY <1>7 DEF PushWaitFull, Goto, ringVars, histVars
<1>8. ASSUME NEW p \in Proc, PushWaitWakes(p) PROVE Basic'
  BY <1>8, Zenon DEF PushWaitWakes, Wakes, Goto, ringVars, histVars
<1>9. ASSUME NEW p \in Proc, PushWaitCancelled(p) PROVE Basic'
  <2>2. fate' \in Fates
    BY <1>9, <1>t, SettleType DEF PushWaitCancelled
  <2>. QED BY <1>9, <2>2 DEF PushWaitCancelled, Hold, Goto, ringVars
<1>10. ASSUME NEW p \in Proc, PopWait(p) PROVE Basic'
  BY <1>10, SMTT(30) DEF PopWait, Goto, ringVars, histVars
<1>11. ASSUME NEW p \in Proc, Pop(p) PROVE Basic'
  <2>1. stats' \in Counters
    BY <1>11, <1>t, CountType DEF Pop
  <2>2. items' \in [0..(Size - 1) -> Item \cup {None}] /\ head' \in 0..(Size - 1) /\ n' \in 0..Size
    BY <1>11, <1>s DEF Pop, popLocked
  <2>3. hand' \in [Proc -> Item \cup {None}]
    BY <1>11, <1>s DEF Pop, Hold
  <2>4. owes' \in [Proc -> Seq({"notEmpty", "notFull", "done"})]
    BY <1>11, OwesType DEF Pop, Unlock, Channel
  <2>. QED BY <1>11, <2>1, <2>2, <2>3, <2>4, Zenon DEF Pop, Unlock, Goto, histVars
<1>12. ASSUME NEW p \in Proc, PopWaitEmpty(p) PROVE Basic'
  BY <1>12 DEF PopWaitEmpty, Goto, ringVars, histVars
<1>13. ASSUME NEW p \in Proc, PopWaitCheck(p) PROVE Basic'
  BY <1>13 DEF PopWaitCheck, Goto, ringVars
<1>14. ASSUME NEW p \in Proc, PopWaitWakes(p) PROVE Basic'
  BY <1>14, Zenon DEF PopWaitWakes, Wakes, Goto, ringVars, histVars
<1>15. ASSUME NEW p \in Proc, PopWaitCancelled(p) PROVE Basic'
  BY <1>15 DEF PopWaitCancelled, Goto, ringVars, histVars
<1>16. ASSUME NEW p \in Proc, Close(p) PROVE Basic'
  BY <1>16 DEF Close, CloseOwes, Unlock, Goto, histVars
<1>17. ASSUME NEW p \in Proc, Drain(p) PROVE Basic'
  <2>1. stats' \in Counters
    BY <1>17, <1>t, CountType DEF Drain
  <2>2. Contents \in Seq(Item \cup {None})
    BY <1>t, ContentsType
  <2>3. items' \in [0..(Size - 1) -> Item \cup {None}] /\ head' \in 0..(Size - 1) /\ n' \in 0..Size
    BY <1>17, <1>s DEF Drain
  <2>4. owes' \in [Proc -> Seq({"notEmpty", "notFull", "done"})]
    BY <1>17, OwesType DEF Drain, Unlock, Channel
  <2>5. doomed' \in [Proc -> Seq(Item \cup {None})]
    BY <1>17, <2>2 DEF Drain
  <2>. QED BY <1>17, <2>1, <2>3, <2>4, <2>5, SMTT(30) DEF Drain, Unlock, Goto, histVars
<1>18. ASSUME NEW p \in Proc, Signal(p) PROVE Basic'
  BY <1>18, DebtShrinks DEF Signal, Channel, ringVars, histVars
<1>19. ASSUME NEW p \in Proc, OnDrop(p) PROVE Basic'
  <2>2. fate' \in Fates
    BY <1>19, <1>t, SettleType, SMTT(30) DEF OnDrop
  <2>. QED BY <1>19, <2>2 DEF OnDrop, ringVars
<1>20. ASSUME NEW p \in Proc, Return(p) PROVE Basic'
  <2>2. fate' \in Fates
    BY <1>20, <1>t, SettleType DEF Return
  <2>. QED BY <1>20, <2>2 DEF Return, Hold, Goto, ringVars
<1>21. CASE UNCHANGED vars
  BY <1>21 DEF vars, ringVars, histVars
<1>. QED
  BY <1>1, <1>2, <1>3, <1>4, <1>5, <1>6, <1>7, <1>8, <1>9, <1>10, <1>11, <1>12, <1>13, <1>14,
     <1>15, <1>16, <1>17, <1>18, <1>19, <1>20, <1>21, Zenon, ZenonT(30) DEF Next, Continue, Call

\* The ring keeps its types: in particular it never holds more than Size items,
\* whichever pushes, pops, evictions and drains race.
THEOREM TypeCorrect == Spec => []TypeOK
<1>1. Init => Basic
  BY BasicInit
<1>2. Basic /\ [Next]_vars => Basic'
  BY BasicNext
<1>3. Basic => TypeOK
  BY DEF Basic
<1>. QED BY <1>1, <1>2, <1>3, PTL DEF Spec

\* The invariant that the other theorems build on.
LEMMA BasicAlways == Spec => []Basic
  BY BasicInit, BasicNext, PTL DEF Spec
-----------------------------------------------------------------------------
\* Every step that changes n or a counter changes both sides alike.
LEMMA BalanceNext == Basic /\ StatsBalance /\ [Next]_vars => StatsBalance'
<1>. SUFFICES ASSUME TypeOK, StatsBalance, [Next]_vars PROVE StatsBalance'
  BY DEF Basic
<1>. USE DEF StatsBalance
<1>t. stats \in Counters /\ n \in Nat
  BY DEF TypeOK, Counters
<1>1. ASSUME NEW p \in Proc, NEW v \in Item, PushRefused(p, v) PROVE StatsBalance'
  BY <1>1, <1>t DEF PushRefused, Count, Counters, ringVars
<1>2. ASSUME NEW v, Enqueue(v) PROVE StatsBalance'
  BY <1>2, <1>t DEF Enqueue, Count, Counters
<1>3. ASSUME NEW p \in Proc, NEW v \in Item, PushEvicts(p, v) PROVE StatsBalance'
  BY <1>3, <1>t DEF PushEvicts, Counters
<1>4. ASSUME NEW p \in Proc, PushWaitClosed(p) PROVE StatsBalance'
  BY <1>4, <1>t DEF PushWaitClosed, Count, Counters, ringVars
<1>5. ASSUME NEW p \in Proc, Pop(p) PROVE StatsBalance'
  BY <1>5, <1>t DEF Pop, popLocked, Count, Counters
<1>6. ASSUME NEW p \in Proc, Drain(p) PROVE StatsBalance'
  BY <1>6, <1>t, SMTT(30) DEF Drain, Count, Counters
<1>7. ASSUME UNCHANGED <<n, stats>> PROVE StatsBalance'
  BY <1>7, SMTT(30)
<1>8. ASSUME NEW p \in Proc, Continue(p) PROVE StatsBalance'
  BY <1>8, <1>2, <1>4, <1>5, <1>7, SMTT(30) DEF Continue, PushWaitRoom, PushWaitFull, PushWaitWakes, Wakes,
     PopWaitEmpty, PopWaitCheck, PopWaitWakes, Signal, OnDrop, Return, ringVars
<1>9. ASSUME NEW p \in Proc, Call(p) PROVE StatsBalance'
  BY <1>9, <1>1, <1>2, <1>3, <1>5, <1>6, <1>7, Zenon DEF Call, PushAccepted, PushWait, PopWait, Close,
     PushWaitCancelled, PopWaitCancelled, ringVars
<1>. QED BY <1>7, <1>8, <1>9 DEF Next, vars, ringVars

\* Stats always balance: Pushed is Popped plus Dropped plus what is queued.
THEOREM StatsAlwaysBalance == Spec => []StatsBalance
<1>1. Init => StatsBalance
  BY DEF Init, StatsBalance
<1>. QED BY <1>1, BasicAlways, BalanceNext, PTL DEF Spec

\* No step makes a ring that is closed and empty open or non-empty.
LEMMA FinalNext == Basic /\ ErrClosedIsFinal /\ [Next]_vars => ErrClosedIsFinal'
<1>. SUFFICES ASSUME TypeOK, ErrClosedIsFinal, [Next]_vars PROVE ErrClosedIsFinal'
  BY DEF Basic
<1>. USE DEF ErrClosedIsFinal
<1>1. ASSUME NEW p \in Proc, NEW v \in Item,
             PushRefused(p, v) \/ PushAccepted(p, v) \/ PushEvicts(p, v) \/ PushWait(p, v)
      PROVE  ErrClosedIsFinal'
  BY <1>1, Zenon DEF PushRefused, PushAccepted, PushEvicts, PushWait, Open, ringVars
<1>2. ASSUME NEW p \in Proc, Continue(p) PROVE ErrClosedIsFinal'
  <2>1. CASE PushWaitClosed(p) \/ PushWaitRoom(p) \/ PushWaitFull(p)
    BY <2>1, Zenon DEF PushWaitClosed, PushWaitRoom, PushWaitFull, Open, ringVars, histVars
  <2>2. CASE Pop(p)
    BY <2>2 DEF Pop, histVars
  <2>3. CASE PopWaitCheck(p)
    BY <2>3, Zenon DEF PopWaitCheck, ringVars
  <2>4. CASE PushWaitWakes(p) \/ PopWaitEmpty(p) \/ PopWaitWakes(p) \/ Signal(p) \/ OnDrop(p) \/ Return(p)
    BY <2>4, Zenon DEF PushWaitWakes, PopWaitEmpty, PopWaitWakes, Wakes, Signal, OnDrop, Return, ringVars, histVars
  <2>. QED BY <1>2, <2>1, <2>2, <2>3, <2>4 DEF Continue
<1>3. ASSUME NEW p \in Proc, Call(p) PROVE ErrClosedIsFinal'
  <2>1. CASE Pop(p)
    BY <2>1 DEF Pop, histVars
  <2>4. CASE Drain(p)
    BY <2>4 DEF Drain, histVars
  <2>3. CASE Close(p)
    BY <2>3 DEF Close, histVars
  <2>2. CASE PopWait(p) \/ PushWaitCancelled(p) \/ PopWaitCancelled(p)
    BY <2>2, Zenon DEF PopWait, PushWaitCancelled, PopWaitCancelled, ringVars, histVars
  <2>. QED BY <1>3, <1>1, <2>1, <2>2, <2>3, <2>4 DEF Call
<1>4. CASE UNCHANGED vars
  BY <1>4 DEF vars, ringVars, histVars
<1>. QED BY <1>2, <1>3, <1>4 DEF Next

\* ErrClosed from PopWait is final, for any number of racing producers.
THEOREM ErrClosedStaysFinal == Spec => []ErrClosedIsFinal
<1>1. Init => ErrClosedIsFinal
  BY DEF Init, ErrClosedIsFinal
<1>. QED BY <1>1, BasicAlways, FinalNext, PTL DEF Spec
-----------------------------------------------------------------------------
\* The debt to channel c survives a step of p that leaves p's debts alone or
\* starts from none, and a Signal of p pays it or keeps it.
LEMMA SignalKeeps ==
  ASSUME Basic, NEW p \in Proc, Signal(p), NEW c \in Channel,
         chan[c] \/ \E q \in Proc : Owes(q, c)
  PROVE  chan'[c] \/ \E q \in Proc : Owes(q, c)'
<1>t. chan \in [Channel -> BOOLEAN] /\ owes \in [Proc -> Seq(Channel)]
  BY DEF Basic, TypeOK, Channel, Label
<1>. DEFINE h == Head(owes[p])
<1>d. /\ h \in Channel
      /\ \A d : (\E k \in 1..Len(owes[p]) : owes[p][k] = d)
                  => d = h \/ \E k \in 1..Len(Tail(owes[p])) : Tail(owes[p])[k] = d
  BY <1>t, DebtShrinks, Zenon DEF Signal
<1>1. chan'[h] = TRUE /\ (c # h => chan'[c] = chan[c]) /\ owes'[p] = Tail(owes[p])
      /\ \A q \in Proc : q # p => owes'[q] = owes[q]
  BY <1>t, <1>d, Zenon DEF Signal
<1>2. CASE c = h \/ chan[c]
  BY <1>1, <1>2
<1>3. CASE c # h /\ \E q \in Proc : Owes(q, c)
  <2>1. PICK q \in Proc : Owes(q, c)
    BY <1>3
  <2>2. CASE q = p
    <3>1. \E k \in 1..Len(owes[p]) : owes[p][k] = c
      BY <2>1, <2>2 DEF Owes
    <3>2. \E k \in 1..Len(owes'[p]) : owes'[p][k] = c
      BY <1>1, <1>d, <1>3, <3>1
    <3>. QED BY <3>2 DEF Owes
  <2>3. CASE q # p
    BY <1>1, <2>1, <2>3 DEF Owes
  <2>. QED BY <2>2, <2>3
<1>. QED BY <1>2, <1>3

\* A goroutine outside "after" owes nothing.
LEMMA QuietOwesNothing ==
  ASSUME Basic, NEW p \in Proc, pc[p] # "after", NEW c
  PROVE  ~Owes(p, c)
<1>1. owes[p] = <<>>
  BY DEF Basic, QuietOwes
<1>. QED BY <1>1 DEF Owes

\* What p owes when it unlocks.
LEMMA UnlockOwes ==
  ASSUME Basic, NEW p \in Proc, NEW ops, Unlock(p, ops), pc[p] # "after", NEW c
  PROVE  /\ (\E k \in 1..Len(ops) : ops[k] = c) => Owes(p, c)'
         /\ \A q \in Proc : Owes(q, c) => Owes(q, c)'
         /\ \A q \in Proc : q # p => pc'[q] = pc[q]
<1>1. owes'[p] = ops /\ \A q \in Proc : q # p => owes'[q] = owes[q] /\ pc'[q] = pc[q]
  BY DEF Unlock, Goto, Basic, TypeOK
<1>2. \A q \in Proc : Owes(q, c) => q # p
  BY QuietOwesNothing
<1>. QED BY <1>1, <1>2 DEF Owes

\* A consumer's wake-up is under way.
Under == chan["notEmpty"] \/ \E p \in Proc : Owes(p, "notEmpty") \/ pc[p] = "popWait"

\* Every step keeps a wake-up under way while items are queued.
LEMMA ConsumerNext == Basic /\ ConsumerWakeup /\ [Next]_vars => ConsumerWakeup'
<1>. SUFFICES ASSUME Basic, n > 0 => Under, [Next]_vars, n' > 0 PROVE Under'
  BY DEF ConsumerWakeup, Under
<1>t. /\ n \in Nat /\ chan \in [Channel -> BOOLEAN] /\ owes \in [Proc -> Seq(Channel)]
      /\ pc \in [Proc -> Label]
  BY DEF Basic, TypeOK, Channel, Label
\* A push signals notEmpty after its unlock.
<1>1. ASSUME NEW p \in Proc, NEW ops \in {<<"notEmpty">>, <<"notEmpty", "notFull">>},
             pc[p] # "after", Unlock(p, ops)
      PROVE  Under'
  <2>1. \E k \in 1..Len(ops) : ops[k] = "notEmpty"
    BY <1>1
  <2>. QED BY <2>1, <1>1, UnlockOwes DEF Under
\* A step that only moves p between labels, and takes no token.
<1>2. ASSUME NEW p \in Proc, NEW label, pc[p] # "popWait", pc' = [pc EXCEPT ![p] = label],
             UNCHANGED <<n, chan, owes>>
      PROVE  Under'
  BY <1>2, <1>t DEF Under, Owes
<1>3. ASSUME NEW p \in Proc, PushWaitRoom(p) PROVE Under'
  <2>1. PushWaitOwes \in {<<"notEmpty">>, <<"notEmpty", "notFull">>}
    BY DEF PushWaitOwes
  <2>. QED BY <1>1, <1>3, <2>1 DEF PushWaitRoom
<1>4. ASSUME NEW p \in Proc, Pop(p) PROVE Under'
  <2>1. n - 1 > 0
    BY <1>4, <1>t DEF Pop, popLocked
  <2>2. PopOwes = <<"notFull", "notEmpty">>
    BY <2>1 DEF PopOwes
  <2>3. \E k \in 1..Len(PopOwes) : PopOwes[k] = "notEmpty"
    BY <2>2
  <2>. QED BY <1>4, <2>3, UnlockOwes DEF Pop, Under
<1>5. ASSUME NEW p \in Proc, PopWaitWakes(p) PROVE Under'
  BY <1>5, <1>t DEF PopWaitWakes, Wakes, Goto, Under
<1>6. ASSUME NEW p \in Proc, PushWaitWakes(p) PROVE Under'
  <2>1. n > 0 /\ chan'["notEmpty"] = chan["notEmpty"] /\ owes' = owes
    BY <1>6, <1>t DEF PushWaitWakes, Wakes, ringVars, Channel
  <2>2. \A q \in Proc : pc[q] = "popWait" => pc'[q] = "popWait"
    BY <1>6, <1>t DEF PushWaitWakes, Wakes, Goto
  <2>. QED BY <2>1, <2>2 DEF Under, Owes
<1>7. ASSUME NEW p \in Proc, Signal(p) PROVE Under'
  <2>1. n > 0 /\ pc' = pc
    BY <1>7 DEF Signal, ringVars
  <2>. QED BY <1>7, <2>1, SignalKeeps DEF Under, Channel
<1>8. ASSUME NEW p \in Proc, Close(p) PROVE Under'
  <2>1. n > 0 /\ chan' = chan
    BY <1>8 DEF Close
  <2>. QED BY <1>8, <2>1, UnlockOwes DEF Close, Under
<1>9. ASSUME NEW p \in Proc, OnDrop(p) PROVE Under'
  BY <1>9 DEF OnDrop, Under, Owes, ringVars
<1>10. ASSUME NEW p \in Proc, Continue(p) PROVE Under'
  <2>1. CASE PushWaitClosed(p) \/ PushWaitFull(p) \/ PopWaitCheck(p) \/ Return(p)
    BY <2>1, <1>2, Zenon DEF PushWaitClosed, PushWaitFull, PopWaitCheck, Return, Goto, ringVars
  <2>2. CASE PopWaitEmpty(p)
    BY <2>2 DEF PopWaitEmpty, ringVars
  <2>. QED BY <1>10, <1>3, <1>4, <1>5, <1>6, <1>7, <1>9, <2>1, <2>2, SMTT(30) DEF Continue
<1>11. ASSUME NEW p \in Proc, Call(p) PROVE Under'
  <2>1. ASSUME NEW v \in Item, PushRefused(p, v) PROVE Under'
    BY <2>1 DEF PushRefused, Under, Owes, ringVars
  <2>2. ASSUME NEW v \in Item, PushAccepted(p, v) \/ PushEvicts(p, v) PROVE Under'
    BY <2>2, <1>1 DEF PushAccepted, PushEvicts
  <2>3. ASSUME NEW v \in Item, PushWait(p, v) PROVE Under'
    BY <2>3, <1>2, Zenon DEF PushWait, Goto, ringVars
  <2>4. CASE PopWait(p) \/ PushWaitCancelled(p) \/ PopWaitCancelled(p)
    BY <2>4, <1>2 DEF PopWait, PushWaitCancelled, PopWaitCancelled, Goto, ringVars
  <2>5. CASE Drain(p)
    BY <2>5, SMTT(30) DEF Drain
  <2>. QED BY <1>11, <1>4, <1>8, <2>1, <2>2, <2>3, <2>4, <2>5, SMTT(30) DEF Call
<1>12. CASE UNCHANGED vars
  BY <1>12 DEF vars, ringVars, Under, Owes
<1>. QED BY <1>10, <1>11, <1>12 DEF Next

\* No consumer's wake-up is lost, for any number of producers and consumers: one
\* token serves any number of items because Pop signals again.
THEOREM NoConsumerWakeupLost == Spec => []ConsumerWakeup
<1>1. Init => ConsumerWakeup
  BY DEF Init, ConsumerWakeup
<1>. QED BY <1>1, BasicAlways, ConsumerNext, PTL DEF Spec
-----------------------------------------------------------------------------
\* A producer sleeps although there is room; a producer's wake-up is under way.
Asleep == n < Size /\ ~closed /\ \E p \in Proc : pc[p] = "pushWaitSelect"
Room == chan["notFull"] \/ \E p \in Proc : Owes(p, "notFull") \/ pc[p] = "pushWait"

\* Every step keeps a wake-up under way while a producer sleeps on a ring with
\* room, as long as only closed rings are drained.
LEMMA ProducerNext ==
  ASSUME ~OpenDrain
  PROVE  Basic /\ ProducerWakeup /\ [Next]_vars => ProducerWakeup'
<1>. SUFFICES ASSUME Basic, Asleep => Room, [Next]_vars, Asleep' PROVE Room'
  BY DEF ProducerWakeup, Asleep, Room
<1>t. /\ n \in Nat /\ chan \in [Channel -> BOOLEAN] /\ owes \in [Proc -> Seq(Channel)]
      /\ pc \in [Proc -> Label]
  BY DEF Basic, TypeOK, Channel, Label
\* A step that only moves p, to a label other than the select.
<1>1. ASSUME NEW p \in Proc, NEW label, pc[p] # "pushWait", label # "pushWaitSelect",
             pc' = [pc EXCEPT ![p] = label], UNCHANGED <<n, closed, owes>>,
             chan'["notFull"] = chan["notFull"]
      PROVE  Room'
  <2>1. Asleep
    BY <1>1, <1>t, SMTT(30) DEF Asleep
  <2>. QED BY <1>1, <1>t, <2>1 DEF Room, Owes
<1>2. ASSUME NEW p \in Proc, PushWaitRoom(p) PROVE Room'
  <2>1. PushWaitOwes = <<"notEmpty", "notFull">>
    BY <1>2, <1>t DEF PushWaitRoom, PushWaitOwes, Enqueue, Asleep
  <2>2. \E k \in 1..Len(PushWaitOwes) : PushWaitOwes[k] = "notFull"
    BY <2>1, SMTT(30)
  <2>. QED BY <1>2, <2>2, UnlockOwes, SMTT(30) DEF PushWaitRoom, Room
<1>3. ASSUME NEW p \in Proc, Pop(p) PROVE Room'
  <2>1. PopOwes = <<"notFull">> \/ PopOwes = <<"notFull", "notEmpty">>
    BY DEF PopOwes
  <2>2. \E k \in 1..Len(PopOwes) : PopOwes[k] = "notFull"
    BY <2>1
  <2>. QED BY <1>3, <2>2, UnlockOwes DEF Pop, Room
<1>4. ASSUME NEW p \in Proc, PushWaitWakes(p) PROVE Room'
  BY <1>4, <1>t DEF PushWaitWakes, Wakes, Goto, Room
<1>5. ASSUME NEW p \in Proc, Signal(p) PROVE Room'
  <2>1. Asleep /\ pc' = pc
    BY <1>5 DEF Signal, Asleep, ringVars
  <2>. QED BY <1>5, <2>1, SignalKeeps DEF Room, Channel
<1>6. ASSUME NEW p \in Proc, NEW v \in Item, PushAccepted(p, v) PROVE Room'
  <2>1. n' = n + 1 /\ closed' = closed /\ chan' = chan /\ pc[p] = "idle" /\ pc'[p] = "after"
        /\ Unlock(p, <<"notEmpty">>)
    BY <1>6, <1>t, SMTT(30) DEF PushAccepted, Enqueue, Unlock, Goto
  <2>2. \A q \in Proc : q # p => pc'[q] = pc[q]
    BY <2>1, UnlockOwes
  <2>3. Asleep
    BY <2>1, <2>2, <1>t DEF Asleep
  <2>. QED BY <2>1, <2>2, <2>3, UnlockOwes DEF Room
<1>7. ASSUME NEW p \in Proc, PopWaitWakes(p) PROVE Room'
  <2>1. chan'["notFull"] = chan["notFull"]
    BY <1>7, <1>t DEF PopWaitWakes, Wakes, Channel
  <2>. QED BY <1>7, <2>1, <1>1, Zenon DEF PopWaitWakes, Wakes, Goto, ringVars
<1>8. ASSUME NEW p \in Proc, Continue(p) PROVE Room'
  <2>1. CASE PushWaitClosed(p)
    BY <2>1, Zenon DEF PushWaitClosed, Open, Asleep, ringVars
  <2>2. CASE PushWaitFull(p)
    BY <2>2, <1>t DEF PushWaitFull, Full, Asleep, ringVars
  <2>3. CASE PopWaitEmpty(p) \/ Return(p)
    BY <2>3, <1>1, Zenon DEF PopWaitEmpty, Return, Goto, ringVars
  <2>4. CASE PopWaitCheck(p)
    BY <2>4, <1>1, Zenon DEF PopWaitCheck, Goto, ringVars
  <2>5. CASE OnDrop(p)
    BY <2>5 DEF OnDrop, Asleep, Room, Owes, ringVars
  <2>. QED BY <1>8, <1>2, <1>3, <1>4, <1>5, <1>7, <2>1, <2>2, <2>3, <2>4, <2>5, SMTT(30) DEF Continue
<1>9. ASSUME NEW p \in Proc, Call(p) PROVE Room'
  <2>1. ASSUME NEW v \in Item, PushRefused(p, v) PROVE Room'
    BY <2>1 DEF PushRefused, Asleep, Room, Owes, ringVars
  <2>2. ASSUME NEW v \in Item, PushEvicts(p, v) PROVE Room'
    BY <2>2, <1>t DEF PushEvicts, Full, Asleep
  <2>3. ASSUME NEW v \in Item, PushWait(p, v) PROVE Room'
    BY <2>3, <1>1, Zenon DEF PushWait, Goto, ringVars
  <2>4. CASE PopWait(p) \/ PushWaitCancelled(p) \/ PopWaitCancelled(p)
    BY <2>4, <1>1 DEF PopWait, PushWaitCancelled, PopWaitCancelled, Goto, ringVars
  <2>5. CASE Close(p)
    BY <2>5, SMTT(30) DEF Close, Asleep
  <2>6. CASE Drain(p)
    BY <2>6, SMTT(30) DEF Drain, Asleep
  <2>. QED BY <1>9, <1>3, <1>6, <2>1, <2>2, <2>3, <2>4, <2>5, <2>6, SMTT(30) DEF Call
<1>10. CASE UNCHANGED vars
  BY <1>10 DEF vars, ringVars, Asleep, Room, Owes
<1>. QED BY <1>8, <1>9, <1>10 DEF Next

\* No producer's wake-up is lost if nobody drains an open ring, for any number of
\* producers and consumers: PushWait signals again while there is room.
THEOREM NoProducerWakeupLost ==
  ASSUME ~OpenDrain
  PROVE  Spec => []ProducerWakeup
<1>1. Init => ProducerWakeup
  BY DEF Init, ProducerWakeup
<1>2. Basic /\ ProducerWakeup /\ [Next]_vars => ProducerWakeup'
  BY ProducerNext
<1>. QED BY <1>1, <1>2, BasicAlways, PTL DEF Spec
-----------------------------------------------------------------------------
(* The window of slots, and what the moves do to the queued items *)

\* The k-th slot from slot h.
At(h, k) == (h + k) % Size

\* The same without the mask.
LEMMA AtIs ==
  ASSUME NEW h \in 0..(Size - 1), NEW k \in 0..Size
  PROVE  At(h, k) = IF h + k < Size THEN h + k ELSE h + k - Size
<1>1. Size \in Nat \ {0} /\ h + k \in Nat /\ h + k < 2 * Size
  OBVIOUS
<1>2. CASE h + k < Size
  BY ONLY <1>1, <1>2 DEF At
<1>3. CASE h + k >= Size
  BY ONLY <1>1, <1>3 DEF At
<1> QED BY <1>1, <1>2, <1>3

\* The slots of the window are distinct, they are all the slots, and moving the front by
\* one, as popLocked does, moves them all.
LEMMA AtFacts ==
  ASSUME NEW h \in 0..(Size - 1)
  PROVE  /\ \A k \in 0..Size : At(h, k) \in 0..(Size - 1)
         /\ At(h, 0) = h /\ At(h, Size) = h
         /\ \A j, k \in 0..(Size - 1) : At(h, j) = At(h, k) => j = k
         /\ \A i \in 0..(Size - 1) : \E k \in 0..(Size - 1) : At(h, k) = i
         /\ \A k \in 0..(Size - 1) : At(At(h, 1), k) = At(h, k + 1)
<1>1. \A k \in 0..Size : At(h, k) = IF h + k < Size THEN h + k ELSE h + k - Size
  BY AtIs
<1>2. \A k \in 0..Size : At(h, k) \in 0..(Size - 1)
  BY <1>1
<1>3. At(h, 0) = h /\ At(h, Size) = h
  BY <1>1
<1>4. \A j, k \in 0..(Size - 1) : At(h, j) = At(h, k) => j = k
  BY <1>1
<1>5. ASSUME NEW i \in 0..(Size - 1) PROVE \E k \in 0..(Size - 1) : At(h, k) = i
  <2>1. CASE i >= h
    <3>1. i - h \in 0..(Size - 1) /\ At(h, i - h) = i
      BY <1>1, <2>1
    <3> QED BY <3>1
  <2>2. CASE i < h
    <3>1. i - h + Size \in 0..(Size - 1) /\ At(h, i - h + Size) = i
      BY <1>1, <2>2
    <3> QED BY <3>1
  <2> QED BY <2>1, <2>2
<1>6. ASSUME NEW k \in 0..(Size - 1) PROVE At(At(h, 1), k) = At(h, k + 1)
  <2>1. At(h, 1) = IF h + 1 < Size THEN h + 1 ELSE 0
    BY <1>1
  <2>2. At(h, 1) \in 0..(Size - 1)
    BY <1>2
  <2>3. At(At(h, 1), k) = IF At(h, 1) + k < Size THEN At(h, 1) + k ELSE At(h, 1) + k - Size
    BY <2>2, AtIs
  <2>4. At(h, k + 1) = IF h + (k + 1) < Size THEN h + (k + 1) ELSE h + (k + 1) - Size
    BY <1>1
  <2> QED BY <2>1, <2>3, <2>4
<1> QED BY <1>2, <1>3, <1>4, <1>5, <1>6

\* The queued items in terms of At.
LEMMA ContentsAt ==
  TypeOK => /\ Contents \in Seq(Item \cup {None}) /\ Len(Contents) = n
            /\ Contents = [k \in 1..n |-> items[At(head, k - 1)]]
  BY ContentsType DEF Contents, Slot, At, TypeOK

\* What Append does.
LEMMA AppendIs ==
  ASSUME NEW T, NEW s \in Seq(T), NEW v \in T
  PROVE  /\ Append(s, v) \in Seq(T) /\ Len(Append(s, v)) = Len(s) + 1 /\ Append(s, v)[Len(s) + 1] = v
         /\ \A k \in 1..Len(s) : Append(s, v)[k] = s[k]
  OBVIOUS

\* What Tail does.
LEMMA TailIs ==
  ASSUME NEW T, NEW s \in Seq(T), s # <<>>
  PROVE  /\ Tail(s) \in Seq(T) /\ Len(Tail(s)) = Len(s) - 1 /\ Head(s) = s[1] /\ Len(s) \in Nat \ {0}
         /\ \A k \in 1..(Len(s) - 1) : Tail(s)[k] = s[k + 1]
  OBVIOUS

\* A sequence is what it holds.
LEMMA SameSeq ==
  ASSUME NEW T, NEW m \in Nat, NEW f, NEW g \in Seq(T), f = [k \in 1..m |-> f[k]], Len(g) = m,
         \A k \in 1..m : f[k] = g[k]
  PROVE  f = g
<1>1. g = [k \in 1..m |-> g[k]]
  OBVIOUS
<1> QED BY <1>1

\* An enqueue appends to the queued items.
LEMMA EnqueueAppends ==
  ASSUME TypeOK, NEW v \in Item, n < Size, Enqueue(v)
  PROVE  Contents' = Append(Contents, v)
<1>1. /\ head' = head /\ n' = n + 1 /\ n \in 0..(Size - 1) /\ head \in 0..(Size - 1)
      /\ items' = [items EXCEPT ![At(head, n)] = v] /\ items \in [0..(Size - 1) -> Item \cup {None}]
  BY DEF Enqueue, TypeOK, Slot, At
<1>2. Contents' = [k \in 1..(n + 1) |-> items'[At(head, k - 1)]]
  BY <1>1 DEF Contents, Slot, At
<1>3. ASSUME NEW k \in 1..(n + 1) PROVE Contents'[k] = IF k = n + 1 THEN v ELSE items[At(head, k - 1)]
  <2>1. k - 1 \in 0..(Size - 1) /\ k - 1 \in 0..Size /\ n \in 0..Size
    BY <1>1
  <2>2. At(head, k - 1) \in 0..(Size - 1) /\ At(head, n) \in 0..(Size - 1)
    BY <1>1, <2>1, AtFacts, Zenon
  <2>3. At(head, k - 1) = At(head, n) => k - 1 = n
    BY <1>1, <2>1, AtFacts
  <2> QED BY <1>1, <1>2, <2>1, <2>2, <2>3
<1>4. \A k \in 1..n : Contents[k] = items[At(head, k - 1)]
  BY ContentsAt
<1>5. /\ Append(Contents, v) \in Seq(Item \cup {None}) /\ Len(Append(Contents, v)) = n + 1
      /\ \A k \in 1..(n + 1) : Append(Contents, v)[k] = IF k = n + 1 THEN v ELSE Contents[k]
  BY ContentsAt, <1>1, AppendIs
<1>6. \A k \in 1..(n + 1) : Contents'[k] = Append(Contents, v)[k]
  BY <1>1, <1>3, <1>4, <1>5
<1>7. Contents' = [k \in 1..(n + 1) |-> Contents'[k]] /\ n + 1 \in Nat
  BY <1>1, <1>2
<1> QED BY <1>5, <1>6, <1>7, SameSeq, SMTT(30)

\* A pop takes the oldest item.
LEMMA PopTakesFront ==
  ASSUME TypeOK, n > 0, popLocked
  PROVE  Contents' = Tail(Contents) /\ Contents # <<>>
<1>1. /\ head' = At(head, 1) /\ n' = n - 1 /\ n \in 1..Size /\ head \in 0..(Size - 1)
      /\ items' = [items EXCEPT ![head] = None] /\ items \in [0..(Size - 1) -> Item \cup {None}]
  BY DEF popLocked, TypeOK, Slot, At
<1>2. Contents' = [k \in 1..(n - 1) |-> items'[At(At(head, 1), k - 1)]]
  <2>1. Contents' = [k \in 1..n' |-> items'[At(head', k - 1)]]
    BY DEF Contents, Slot, At
  <2> QED BY <1>1, <2>1
<1>3. ASSUME NEW k \in 1..(n - 1) PROVE Contents'[k] = items[At(head, k)]
  <2>1. k - 1 \in 0..(Size - 1) /\ k \in 0..(Size - 1) /\ k \in 0..Size /\ k # 0 /\ (k - 1) + 1 = k
    BY <1>1
  <2>2. At(At(head, 1), k - 1) = At(head, k)
    BY <1>1, <2>1, AtFacts
  <2>3. At(head, k) \in 0..(Size - 1)
    BY <1>1, <2>1, AtFacts, Zenon
  <2>4. At(head, k) # head
    BY <1>1, <2>1, AtFacts
  <2> QED BY <1>1, <1>2, <2>2, <2>3, <2>4
<1>4. \A k \in 1..n : Contents[k] = items[At(head, k - 1)]
  BY ContentsAt
<1>5. Contents # <<>>
  BY <1>1, ContentsAt
<1>6. /\ Tail(Contents) \in Seq(Item \cup {None}) /\ Len(Tail(Contents)) = n - 1
      /\ \A k \in 1..(n - 1) : Tail(Contents)[k] = Contents[k + 1]
  BY ContentsAt, <1>1, <1>5, TailIs
<1>7. ASSUME NEW k \in 1..(n - 1) PROVE Contents[k + 1] = items[At(head, k)]
  <2>1. k + 1 \in 1..n /\ (k + 1) - 1 = k
    BY <1>1
  <2> QED BY <1>4, <2>1
<1>8. \A k \in 1..(n - 1) : Contents'[k] = Tail(Contents)[k]
  BY <1>3, <1>6, <1>7
<1>9. Contents' = [k \in 1..(n - 1) |-> Contents'[k]] /\ n - 1 \in Nat
  BY <1>1, <1>2
<1> QED BY <1>5, <1>6, <1>8, <1>9, SameSeq, SMTT(30)

\* An eviction takes the oldest item and appends the new one.
LEMMA EvictShifts ==
  ASSUME TypeOK, NEW p \in Proc, NEW v \in Item, PushEvicts(p, v)
  PROVE  Contents' = Append(Tail(Contents), v) /\ Len(Contents) = Size
<1>1. /\ head' = At(head, 1) /\ n' = n /\ n = Size /\ head \in 0..(Size - 1)
      /\ items' = [items EXCEPT ![head] = v] /\ items \in [0..(Size - 1) -> Item \cup {None}]
  BY DEF PushEvicts, Full, TypeOK, Slot, At
<1>2. Contents' = [k \in 1..Size |-> items'[At(At(head, 1), k - 1)]]
  BY <1>1, SMTT(30) DEF Contents, Slot, At
<1>3. ASSUME NEW k \in 1..Size PROVE Contents'[k] = IF k = Size THEN v ELSE items[At(head, k)]
  <2>1. k - 1 \in 0..(Size - 1) /\ k \in 0..Size /\ (k - 1) + 1 = k
    BY <1>1
  <2>2. At(At(head, 1), k - 1) = At(head, k)
    BY <1>1, <2>1, AtFacts
  <2>3. At(head, k) \in 0..(Size - 1) /\ At(head, Size) = head
    BY <1>1, <2>1, AtFacts, Zenon
  <2>4. ASSUME k # Size PROVE At(head, k) # head
    <3>1. k \in 0..(Size - 1) /\ k # 0 /\ 0 \in 0..(Size - 1) /\ At(head, 0) = head
      BY <1>1, <2>1, <2>4, AtFacts
    <3> QED BY <1>1, <3>1, AtFacts
  <2> QED BY <1>1, <1>2, <2>2, <2>3, <2>4
<1>4. Contents \in Seq(Item \cup {None}) /\ Len(Contents) = Size /\ Contents # <<>>
  BY ContentsAt, <1>1
<1>5. \A k \in 1..Size : Contents[k] = items[At(head, k - 1)]
  BY ContentsAt, <1>1
<1>6. /\ Tail(Contents) \in Seq(Item \cup {None}) /\ Len(Tail(Contents)) = Size - 1
      /\ \A k \in 1..(Size - 1) : Tail(Contents)[k] = Contents[k + 1]
  BY <1>4, TailIs
<1>7. ASSUME NEW k \in 1..(Size - 1) PROVE Tail(Contents)[k] = items[At(head, k)]
  <2>1. k + 1 \in 1..Size /\ (k + 1) - 1 = k
    OBVIOUS
  <2> QED BY <1>5, <1>6, <2>1
<1>8. /\ Append(Tail(Contents), v) \in Seq(Item \cup {None}) /\ Len(Append(Tail(Contents), v)) = Size
      /\ \A k \in 1..(Size - 1) : Append(Tail(Contents), v)[k] = Tail(Contents)[k]
      /\ Append(Tail(Contents), v)[Size] = v
  BY <1>6, AppendIs
<1>9. ASSUME NEW k \in 1..Size PROVE Contents'[k] = Append(Tail(Contents), v)[k]
  <2>1. CASE k = Size
    BY <1>3, <1>8, <2>1
  <2>2. CASE k # Size
    <3>1. k \in 1..(Size - 1)
      BY <2>2
    <3> QED BY <1>3, <1>7, <1>8, <2>2, <3>1
  <2> QED BY <2>1, <2>2, ZenonT(30)
<1>10. Contents' = [k \in 1..Size |-> Contents'[k]]
  BY <1>2
<1> QED BY <1>4, <1>8, <1>9, <1>10, SameSeq
-----------------------------------------------------------------------------
(* Where the items are *)

\* A goroutine holds an item while it pushes it or returns it, and has items to pass to
\* OnDrop only after its mutex section, never more than the ring has slots.
HandsAt(p) ==
  /\ pc[p] \in {"pushWait", "pushWaitSelect"} => hand[p] \in Item
  /\ pc[p] \in {"idle", "popWait", "popWaitCheck", "popWaitSelect"} => hand[p] = None
  /\ pc[p] # "after" => doomed[p] = <<>>
  /\ Len(doomed[p]) <= Size
Hands == \A p \in Proc : HandsAt(p)

\* The slots behind the queued items are zero.
Window == \A k \in n..(Size - 1) : items[At(head, k)] = None

\* The places of item v: slots, goroutines that hold it, OnDrop calls to come.
InSlots(v) == {i \in 0..(Size - 1) : items[i] = v}
InHands(v) == {p \in Proc : hand[p] = v}
InDooms(v) == {d \in Proc \X (1..Size) : d[2] <= Len(doomed[d[1]]) /\ doomed[d[1]][d[2]] = v}

\* An item is nowhere before its call, and then in exactly one place.
Nowhere(v) == InSlots(v) = {} /\ InHands(v) = {} /\ InDooms(v) = {} /\ Len(fate[v]) = 0
Queued(v) == (\E i : InSlots(v) = {i}) /\ InHands(v) = {} /\ InDooms(v) = {} /\ Len(fate[v]) = 0
Held(v) == InSlots(v) = {} /\ (\E p : InHands(v) = {p}) /\ InDooms(v) = {} /\ Len(fate[v]) = 0
Dooming(v) == InSlots(v) = {} /\ InHands(v) = {} /\ (\E d : InDooms(v) = {d}) /\ Len(fate[v]) = 0
Settled(v) == InSlots(v) = {} /\ InHands(v) = {} /\ InDooms(v) = {} /\ Len(fate[v]) = 1

Placed(v) == IF v \in fresh THEN Nowhere(v) ELSE Queued(v) \/ Held(v) \/ Dooming(v) \/ Settled(v)
Places == \A v \in Item : Placed(v)

\* A step of p that leaves the others alone keeps Hands if the hands of p are right.
LEMMA HandsStep ==
  ASSUME Hands, NEW p \in Proc, HandsAt(p)',
         \A q \in Proc \ {p} : pc'[q] = pc[q] /\ hand'[q] = hand[q] /\ doomed'[q] = doomed[q]
  PROVE  Hands'
  BY DEF Hands, HandsAt

\* Every step keeps items in the hands that the labels say.
LEMMA HandsNext == Basic /\ Hands /\ [Next]_vars => Hands'
<1> SUFFICES ASSUME Basic, Hands, [Next]_vars PROVE Hands'
  OBVIOUS
<1>t. /\ pc \in [Proc -> Label] /\ hand \in [Proc -> Item \cup {None}] /\ n \in 0..Size
      /\ doomed \in [Proc -> Seq(Item \cup {None})] /\ items \in [0..(Size - 1) -> Item \cup {None}]
      /\ head \in 0..(Size - 1)
  BY DEF Basic, TypeOK, Label
<1>e. Len(<<>>) = 0
  OBVIOUS
<1>1. ASSUME NEW p \in Proc, NEW label, Goto(p, label), UNCHANGED <<hand, doomed>>, pc[p] # "after",
             \/ pc[p] \in {"pushWait", "pushWaitSelect"} /\ label \in {"pushWait", "pushWaitSelect"}
             \/ pc[p] \notin {"pushWait", "pushWaitSelect"} /\ label \notin {"pushWait", "pushWaitSelect"}
      PROVE  Hands'
  <2>1. pc'[p] = label /\ \A q \in Proc \ {p} : pc'[q] = pc[q]
    BY <1>1, <1>t DEF Goto
  <2>2. HandsAt(p) /\ pc[p] \in Label
    BY <1>t DEF Hands, HandsAt
  <2>3. HandsAt(p)'
    BY <1>1, <2>1, <2>2 DEF HandsAt, Label
  <2> QED BY <1>1, <2>1, <2>3, HandsStep
<1>2. ASSUME NEW p \in Proc, Goto(p, "after"), UNCHANGED doomed, NEW x, UNCHANGED hand \/ Hold(p, x)
      PROVE  Hands'
  <2>1. pc'[p] = "after" /\ \A q \in Proc \ {p} : pc'[q] = pc[q] /\ hand'[q] = hand[q]
    BY <1>2, <1>t DEF Goto, Hold
  <2>2. HandsAt(p)'
    BY <1>2, <2>1, SMTT(30) DEF Hands, HandsAt
  <2> QED BY <1>2, <2>1, <2>2, HandsStep
<1>3. ASSUME NEW p \in Proc, Goto(p, "after"), UNCHANGED hand, NEW s, doomed' = [doomed EXCEPT ![p] = s],
             Len(s) <= Size
      PROVE  Hands'
  <2>1. pc'[p] = "after" /\ doomed'[p] = s /\ \A q \in Proc \ {p} : pc'[q] = pc[q] /\ doomed'[q] = doomed[q]
    BY <1>3, <1>t DEF Goto
  <2>2. HandsAt(p)'
    BY <1>3, <2>1 DEF HandsAt
  <2> QED BY <1>3, <2>1, <2>2, HandsStep
<1>4. ASSUME NEW p \in Proc, Goto(p, "idle"), Hold(p, None), UNCHANGED doomed, doomed[p] = <<>>
      PROVE  Hands'
  <2>1. pc'[p] = "idle" /\ hand'[p] = None /\ \A q \in Proc \ {p} : pc'[q] = pc[q] /\ hand'[q] = hand[q]
    BY <1>4, <1>t DEF Goto, Hold
  <2>2. HandsAt(p)'
    BY <1>4, <1>e, <2>1 DEF HandsAt
  <2> QED BY <1>4, <2>1, <2>2, HandsStep
<1>5. ASSUME UNCHANGED <<pc, hand, doomed>> PROVE Hands'
  BY <1>5 DEF Hands, HandsAt
<1>6. ASSUME NEW p \in Proc, NEW v \in Item, PushRefused(p, v) \/ PushAccepted(p, v) PROVE Hands'
  BY <1>6, <1>2, <1>5 DEF PushRefused, PushAccepted, Unlock
<1>7. ASSUME NEW p \in Proc, NEW v \in Item, PushEvicts(p, v) PROVE Hands'
  <2>1. Len(<<items[head]>>) <= Size
    OBVIOUS
  <2> QED BY <1>3, <1>7, <2>1, ZenonT(30) DEF PushEvicts, Unlock
<1>8. ASSUME NEW p \in Proc, NEW v \in Item, PushWait(p, v) PROVE Hands'
  <2>1. /\ pc[p] = "idle" /\ pc'[p] = "pushWait" /\ hand'[p] = v /\ doomed' = doomed
        /\ \A q \in Proc \ {p} : pc'[q] = pc[q] /\ hand'[q] = hand[q]
    BY <1>8, <1>t DEF PushWait, Goto, Hold
  <2>2. HandsAt(p)'
    BY <2>1 DEF Hands, HandsAt
  <2> QED BY <2>1, <2>2, HandsStep
<1>9. ASSUME NEW p \in Proc, PushWaitClosed(p) \/ PushWaitCancelled(p) \/ Return(p) PROVE Hands'
  <2>1. Goto(p, "idle") /\ Hold(p, None) /\ UNCHANGED doomed /\ (pc[p] # "after" \/ doomed[p] = <<>>)
    BY <1>9 DEF PushWaitClosed, PushWaitCancelled, Return
  <2>2. doomed[p] = <<>>
    BY <2>1, SMTT(30) DEF Hands, HandsAt
  <2> QED BY <1>4, <2>1, <2>2
<1>10. ASSUME NEW p \in Proc, PushWaitRoom(p) \/ Pop(p) \/ Close(p) PROVE Hands'
  BY <1>10, <1>2 DEF PushWaitRoom, Pop, Close, Unlock
<1>11. ASSUME NEW p \in Proc, PushWaitFull(p) \/ PushWaitWakes(p) PROVE Hands'
  BY <1>11, <1>1 DEF PushWaitFull, PushWaitWakes, Wakes
<1>12. ASSUME NEW p \in Proc, PopWait(p) \/ PopWaitEmpty(p) \/ PopWaitWakes(p) \/ PopWaitCancelled(p)
       PROVE  Hands'
  BY <1>12, <1>1 DEF PopWait, PopWaitEmpty, PopWaitWakes, PopWaitCancelled, Wakes
<1>13. ASSUME NEW p \in Proc, PopWaitCheck(p) PROVE Hands'
  <2>1. PICK label \in {"idle", "popWaitSelect"} : Goto(p, label)
    BY <1>13 DEF PopWaitCheck
  <2>2. pc[p] = "popWaitCheck" /\ UNCHANGED <<hand, doomed>>
    BY <1>13 DEF PopWaitCheck
  <2> QED BY <1>1, <2>1, <2>2
<1>14. ASSUME NEW p \in Proc, Drain(p) PROVE Hands'
  <2>1. Len(Contents) <= Size
    BY <1>t, ContentsAt DEF Basic
  <2> QED BY <1>3, <1>14, <2>1, Zenon DEF Drain, Unlock
<1>15. ASSUME NEW p \in Proc, OnDrop(p) PROVE Hands'
  <2>1. /\ pc[p] = "after" /\ pc' = pc /\ hand' = hand /\ doomed[p] # <<>> /\ doomed'[p] = Tail(doomed[p])
        /\ \A q \in Proc \ {p} : doomed'[q] = doomed[q]
    BY <1>15, <1>t DEF OnDrop
  <2>2. Len(doomed[p]) <= Size /\ doomed[p] \in Seq(Item \cup {None})
    BY <1>t DEF Hands, HandsAt
  <2>3. Len(Tail(doomed[p])) = Len(doomed[p]) - 1 /\ Len(doomed[p]) \in Nat
    BY <2>1, <2>2, TailIs, SMTT(30)
  <2>4. HandsAt(p)'
    BY <2>1, <2>2, <2>3, SMTT(30) DEF HandsAt
  <2> QED BY <2>1, <2>4, HandsStep
<1>16. ASSUME NEW p \in Proc, Signal(p) PROVE Hands'
  BY <1>16, <1>5 DEF Signal
<1>17. CASE UNCHANGED vars
  BY <1>17, <1>5 DEF vars
<1> QED
  BY <1>6, <1>7, <1>8, <1>9, <1>10, <1>11, <1>12, <1>13, <1>14, <1>15, <1>16, <1>17
     DEF Next, Continue, Call

\* The steps that move the ring: an enqueue, a pop, an eviction, a drain; no other step
\* touches a slot, the front or the count.
LEMMA RingMoves ==
  ASSUME Basic, Hands, [Next]_vars
  PROVE  \/ UNCHANGED <<items, head, n>>
         \/ \E v \in Item : Enqueue(v) /\ Open /\ n < Size
         \/ popLocked /\ n > 0 /\ closed' = closed
         \/ \E p \in Proc, v \in Item : PushEvicts(p, v)
         \/ \E p \in Proc : Drain(p)
<1>t. n \in 0..Size
  BY DEF Basic, TypeOK
<1>1. ASSUME NEW p \in Proc, NEW v \in Item, PushAccepted(p, v)
      PROVE  Enqueue(v) /\ Open /\ n < Size
  BY <1>t, <1>1 DEF PushAccepted, Full
<1>2. ASSUME NEW p \in Proc, PushWaitRoom(p)
      PROVE  \E v \in Item : Enqueue(v) /\ Open /\ n < Size
  <2>1. hand[p] \in Item
    BY <1>2 DEF PushWaitRoom, Hands, HandsAt
  <2>2. Enqueue(hand[p]) /\ Open /\ n < Size
    BY <1>t, <1>2 DEF PushWaitRoom, Full
  <2> QED BY <2>1, <2>2
<1>3. ASSUME NEW p \in Proc, Pop(p) PROVE popLocked /\ n > 0 /\ closed' = closed
  BY <1>3 DEF Pop
<1>4. ASSUME NEW p \in Proc, Continue(p), ~PushWaitRoom(p), ~Pop(p) PROVE UNCHANGED <<items, head, n>>
  BY <1>4, Zenon DEF Continue, PushWaitClosed, PushWaitFull, PushWaitWakes, Wakes, PopWaitEmpty, PopWaitCheck,
     PopWaitWakes, Signal, OnDrop, Return, ringVars
<1>5. ASSUME NEW p \in Proc, Call(p), ~Pop(p), ~Drain(p),
             \A v \in Item : ~PushAccepted(p, v) /\ ~PushEvicts(p, v)
      PROVE  UNCHANGED <<items, head, n>>
  BY <1>5, Zenon DEF Call, PushRefused, PushWait, PopWait, Close, PushWaitCancelled, PopWaitCancelled, ringVars
<1>6. CASE UNCHANGED vars
  BY <1>6 DEF vars, ringVars
<1> QED BY <1>1, <1>2, <1>3, <1>4, <1>5, <1>6, Zenon DEF Next

\* Every step leaves the slots behind the queued items zero.
LEMMA WindowNext == Basic /\ Hands /\ Window /\ [Next]_vars => Window'
<1> SUFFICES ASSUME Basic, Hands, Window, [Next]_vars PROVE Window'
  OBVIOUS
<1>t. n \in 0..Size /\ head \in 0..(Size - 1) /\ items \in [0..(Size - 1) -> Item \cup {None}]
  BY DEF Basic, TypeOK
<1>1. ASSUME NEW v \in Item, Enqueue(v), n < Size PROVE Window'
  <2>1. n' = n + 1 /\ head' = head /\ items' = [items EXCEPT ![At(head, n)] = v]
    BY <1>1 DEF Enqueue, Slot, At
  <2> SUFFICES ASSUME NEW k \in (n + 1)..(Size - 1) PROVE items'[At(head, k)] = None
    BY <2>1 DEF Window
  <2>2. k \in 0..(Size - 1) /\ n \in 0..(Size - 1) /\ k # n /\ k \in n..(Size - 1) /\ k \in 0..Size
    BY <1>t, <1>1
  <2>3. At(head, k) # At(head, n)
    BY <1>t, <2>2, AtFacts
  <2>4. At(head, k) \in 0..(Size - 1)
    BY <1>t, <2>2, AtFacts, Zenon
  <2> QED BY <1>t, <2>1, <2>2, <2>3, <2>4 DEF Window
<1>2. ASSUME popLocked, n > 0 PROVE Window'
  <2>1. n' = n - 1 /\ head' = At(head, 1) /\ items' = [items EXCEPT ![head] = None]
    BY <1>2 DEF popLocked, Slot, At
  <2> SUFFICES ASSUME NEW k \in (n - 1)..(Size - 1) PROVE items'[At(At(head, 1), k)] = None
    BY <2>1 DEF Window
  <2>2. k \in 0..(Size - 1) /\ k + 1 \in 0..Size
    BY <1>t, <1>2
  <2>3. At(At(head, 1), k) = At(head, k + 1)
    BY <1>t, <2>2, AtFacts
  <2>4. At(head, k + 1) \in 0..(Size - 1)
    BY <1>t, <2>2, AtFacts, Zenon
  <2>5. CASE At(head, k + 1) = head
    BY <1>t, <2>1, <2>3, <2>5
  <2>6. CASE At(head, k + 1) # head
    <3>1. k + 1 \in n..(Size - 1)
      <4>1. k + 1 # Size
        BY <1>t, <2>6, AtFacts, Zenon
      <4> QED BY <1>t, <1>2, <2>2, <4>1
    <3> QED BY <1>t, <2>1, <2>3, <2>4, <2>6, <3>1 DEF Window
  <2> QED BY <2>5, <2>6
<1>3. ASSUME NEW p \in Proc, NEW v \in Item, PushEvicts(p, v) PROVE Window'
  BY <1>3, <1>t DEF PushEvicts, Full, Window
<1>4. ASSUME NEW p \in Proc, Drain(p) PROVE Window'
  <2>1. head' \in 0..(Size - 1) /\ n' = 0 /\ items' = [i \in 0..(Size - 1) |-> None]
    BY <1>4, BasicNext DEF Basic, TypeOK, Drain
  <2>2. \A k \in 0..Size : At(head', k) \in 0..(Size - 1)
    BY <2>1, AtFacts, Zenon
  <2>3. \A k \in 0..(Size - 1) : k \in 0..Size
    OBVIOUS
  <2> QED BY <2>1, <2>2, <2>3 DEF Window
<1>5. CASE UNCHANGED <<items, head, n>>
  BY <1>5 DEF Window
<1> QED BY <1>1, <1>2, <1>3, <1>4, <1>5, RingMoves, SMTT(30)

\* A new ring holds nothing, and nobody holds an item.
LEMMA HandsInit == Init => Hands /\ Window
<1> SUFFICES ASSUME Init PROVE Hands /\ Window
  OBVIOUS
<1>1. Hands
  BY DEF Init, Hands, HandsAt
<1>2. \A k \in 0..(Size - 1) : At(0, k) \in 0..(Size - 1)
  BY AtFacts
<1>3. Window
  BY <1>2 DEF Init, Window
<1> QED BY <1>1, <1>3

\* The invariant that the refinement and ownership build on.
LEMMA HandsAlways == Spec => [](Basic /\ Hands /\ Window)
  BY BasicInit, BasicNext, HandsInit, HandsNext, WindowNext, PTL DEF Spec
-----------------------------------------------------------------------------
\* The ring implements the bounded FIFO, for any capacity, policy and goroutines.
THEOREM RingImplementsFifo == Spec => ImplementsFifo
<1>1. Init => Fifo!Init
  BY DEF Init, Fifo!Init, Contents
<1>2. Basic /\ Hands /\ [Next]_vars => [Fifo!Next]_(Fifo!vars)
  <2> SUFFICES ASSUME Basic, Hands, [Next]_vars PROVE [Fifo!Next]_(Fifo!vars)
    OBVIOUS
  <2>t. TypeOK /\ Contents \in Seq(Item \cup {None}) /\ Len(Contents) = n
    BY ContentsAt DEF Basic
  <2>1. ASSUME NEW v \in Item, Enqueue(v), Open, n < Size PROVE [Fifo!Next]_(Fifo!vars)
    <3>1. Contents' = Append(Contents, v) /\ closed' = closed /\ ~closed
      BY <2>t, <2>1, EnqueueAppends, ZenonT(30) DEF Enqueue, Open
    <3>2. Fifo!Accept(v)
      BY <2>t, <2>1, <3>1 DEF Fifo!Accept
    <3> QED BY <3>2 DEF Fifo!Next
  <2>2. ASSUME popLocked, n > 0, closed' = closed PROVE [Fifo!Next]_(Fifo!vars)
    <3>1. Fifo!Take
      BY <2>t, <2>2, PopTakesFront DEF Fifo!Take
    <3> QED BY <3>1 DEF Fifo!Next
  <2>3. ASSUME NEW p \in Proc, NEW v \in Item, PushEvicts(p, v) PROVE [Fifo!Next]_(Fifo!vars)
    <3>1. closed' = closed /\ ~closed
      BY <2>3 DEF PushEvicts, Open
    <3>2. Fifo!Evict(v)
      BY <2>t, <2>3, <3>1, EvictShifts DEF Fifo!Evict
    <3> QED BY <3>2 DEF Fifo!Next
  <2>4. ASSUME NEW p \in Proc, Drain(p) PROVE [Fifo!Next]_(Fifo!vars)
    <3>1. n' = 0 /\ closed' = closed
      BY <2>4 DEF Drain
    <3>2. Fifo!Flush
      BY <3>1 DEF Fifo!Flush, Contents
    <3> QED BY <3>2 DEF Fifo!Next
  <2>5. CASE UNCHANGED <<items, head, n>>
    <3>1. Contents' = Contents
      BY <2>5, SMTT(30) DEF Contents, Slot
    <3>2. closed' = closed \/ closed' = TRUE
      BY DEF Next, Continue, Call, PushRefused, PushAccepted, PushEvicts, PushWait, PushWaitClosed, PushWaitRoom,
         PushWaitFull, PushWaitWakes, PushWaitCancelled, PopWait, Pop, PopWaitEmpty, PopWaitCheck, PopWaitWakes,
         PopWaitCancelled, Close, Drain, Signal, OnDrop, Return, Wakes, Enqueue, vars, ringVars
    <3> QED BY <3>1, <3>2 DEF Fifo!Next, Fifo!Close, Fifo!vars
  <2> QED BY <2>1, <2>2, <2>3, <2>4, <2>5, RingMoves
<1> QED BY <1>1, <1>2, HandsAlways, PTL DEF Spec, ImplementsFifo, Fifo!Spec
-----------------------------------------------------------------------------
\* What an assignment to a slot does to the places of item w.
LEMMA SlotUpdate ==
  ASSUME items \in [0..(Size - 1) -> Item \cup {None}], NEW i \in 0..(Size - 1), NEW x,
         items' = [items EXCEPT ![i] = x], NEW w
  PROVE  InSlots(w)' = IF w = x THEN InSlots(w) \cup {i} ELSE InSlots(w) \ {i}
  BY DEF InSlots

\* What an assignment to a hand does to the places of item w.
LEMMA HandUpdate ==
  ASSUME hand \in [Proc -> Item \cup {None}], NEW p \in Proc, NEW x, Hold(p, x), NEW w
  PROVE  InHands(w)' = IF w = x THEN InHands(w) \cup {p} ELSE InHands(w) \ {p}
  BY DEF InHands, Hold

\* The OnDrop calls for w in the sequence s of p.
DoomAdds(p, s, w) == {<<p, k>> : k \in {j \in 1..Len(s) : s[j] = w}}

\* What new OnDrop calls of p do to the places of item w.
LEMMA DoomUpdate ==
  ASSUME doomed \in [Proc -> Seq(Item \cup {None})], NEW p \in Proc, NEW s \in Seq(Item \cup {None}),
         doomed[p] = <<>>, Len(s) <= Size, doomed' = [doomed EXCEPT ![p] = s], NEW w
  PROVE  InDooms(w)' = InDooms(w) \cup DoomAdds(p, s, w)
<1>1. doomed'[p] = s /\ \A q \in Proc \ {p} : doomed'[q] = doomed[q]
  OBVIOUS
<1>2. Len(s) \in Nat /\ Len(doomed[p]) = 0
  OBVIOUS
<1>3. \A d \in InDooms(w) : d[1] \in Proc /\ d[2] \in 1..Size /\ d[2] <= Len(doomed[d[1]]) /\ doomed[d[1]][d[2]] = w
  BY DEF InDooms
<1>4. \A d \in InDooms(w) : d[1] # p
  BY <1>2, <1>3, SMTT(30)
<1>5. ASSUME NEW d \in InDooms(w)' PROVE d \in InDooms(w) \cup {<<p, k>> : k \in {j \in 1..Len(s) : s[j] = w}}
  <2>1. d \in Proc \X (1..Size) /\ d[2] <= Len(doomed'[d[1]]) /\ doomed'[d[1]][d[2]] = w
    BY <1>5 DEF InDooms
  <2>2. CASE d[1] = p
    <3>1. d = <<p, d[2]>> /\ d[2] \in 1..Len(s) /\ s[d[2]] = w
      BY <1>1, <1>2, <2>1, <2>2
    <3> QED BY <3>1
  <2>3. CASE d[1] # p
    BY <1>1, <2>1, <2>3 DEF InDooms
  <2> QED BY <2>2, <2>3
<1>6. ASSUME NEW d \in InDooms(w) PROVE d \in InDooms(w)'
  <2>1. d \in Proc \X (1..Size) /\ d[2] <= Len(doomed[d[1]]) /\ doomed[d[1]][d[2]] = w /\ d[1] \in Proc \ {p}
    BY <1>4, <1>6 DEF InDooms
  <2> QED BY <1>1, <2>1 DEF InDooms
<1>7. ASSUME NEW k \in 1..Len(s), s[k] = w PROVE <<p, k>> \in InDooms(w)'
  <2>1. <<p, k>> \in Proc \X (1..Size) /\ <<p, k>>[1] = p /\ <<p, k>>[2] = k
    BY <1>2, SMTT(30)
  <2> QED BY <1>1, <1>2, <1>7, <2>1 DEF InDooms
<1> QED BY <1>5, <1>6, <1>7 DEF DoomAdds

\* An item whose places stay the same stays placed.
LEMMA PlacedSame ==
  ASSUME NEW w, Placed(w), InSlots(w)' = InSlots(w), InHands(w)' = InHands(w), InDooms(w)' = InDooms(w),
         fate'[w] = fate[w], w \in fresh' <=> w \in fresh
  PROVE  Placed(w)'
  BY Zenon DEF Placed, Nowhere, Queued, Held, Dooming, Settled

\* What a step leaves alone has the same items.
LEMMA SameSlots == ASSUME UNCHANGED items, NEW w PROVE InSlots(w)' = InSlots(w)
  BY DEF InSlots
\* The same for the hands.
LEMMA SameHands == ASSUME UNCHANGED hand, NEW w PROVE InHands(w)' = InHands(w)
  BY DEF InHands
\* The same for the OnDrop calls to come.
LEMMA SameDooms == ASSUME UNCHANGED doomed, NEW w PROVE InDooms(w)' = InDooms(w)
  BY DEF InDooms

\* A place that names item v makes v placed there and nowhere else.
LEMMA WhereItIs ==
  ASSUME Places, NEW v \in Item
  PROVE  /\ \A i \in InSlots(v) : Queued(v) /\ InSlots(v) = {i} /\ v \notin fresh
         /\ \A p \in InHands(v) : Held(v) /\ InHands(v) = {p} /\ v \notin fresh
         /\ \A d \in InDooms(v) : Dooming(v) /\ InDooms(v) = {d} /\ v \notin fresh
<1>1. Placed(v)
  BY DEF Places
<1>2. ASSUME NEW i \in InSlots(v) PROVE Queued(v) /\ InSlots(v) = {i} /\ v \notin fresh
  BY <1>1, <1>2, Zenon DEF Placed, Nowhere, Queued, Held, Dooming, Settled
<1>3. ASSUME NEW p \in InHands(v) PROVE Held(v) /\ InHands(v) = {p} /\ v \notin fresh
  BY <1>1, <1>3, Zenon DEF Placed, Nowhere, Queued, Held, Dooming, Settled
<1>4. ASSUME NEW d \in InDooms(v) PROVE Dooming(v) /\ InDooms(v) = {d} /\ v \notin fresh
  BY <1>1, <1>4, Zenon DEF Placed, Nowhere, Queued, Held, Dooming, Settled
<1> QED BY <1>2, <1>3, <1>4

\* Recording the fate of v, or taking v from fresh, concerns v only.
LEMMA SettleUpdate ==
  ASSUME TypeOK, NEW v, NEW how, Settle(v, how)
  PROVE  /\ v \in Item => Len(fate'[v]) = Len(fate[v]) + 1
         /\ \A w \in Item \ {v} : fate'[w] = fate[w]
<1>1. fate \in [Item -> Seq({"kept", "popped", "dropped"})]
  BY DEF TypeOK
<1>2. v \in Item => fate'[v] = Append(fate[v], how) /\ Len(fate[v]) \in Nat
  BY <1>1 DEF Settle
<1>3. v \in Item => Len(Append(fate[v], how)) = Len(fate[v]) + 1
  BY <1>1
<1>4. \A w \in Item \ {v} : fate'[w] = fate[w]
  BY <1>1 DEF Settle
<1> QED BY <1>2, <1>3, <1>4

\* A step that leaves the places alone.
LEMMA AsidePlaces ==
  ASSUME Basic, Hands, Window, Places, UNCHANGED <<items, hand, doomed, fresh, fate>>
  PROVE  Places'
<1>p. \A w \in Item : Placed(w)
  BY DEF Places
<1>q. QED
  BY <1>p, PlacedSame, SameSlots, SameHands, SameDooms DEF Places

\* Push refuses the item: the caller keeps it.
LEMMA RefusedPlaces ==
  ASSUME Basic, Hands, Window, Places, NEW p \in Proc, NEW v \in Item, PushRefused(p, v)
  PROVE  Places'
<1>t. /\ TypeOK /\ n \in 0..Size /\ head \in 0..(Size - 1) /\ items \in [0..(Size - 1) -> Item \cup {None}]
      /\ hand \in [Proc -> Item \cup {None}] /\ doomed \in [Proc -> Seq(Item \cup {None})]
      /\ fate \in [Item -> Seq({"kept", "popped", "dropped"})]
  BY DEF Basic, TypeOK
<1>p. \A w \in Item : Placed(w)
  BY DEF Places
<1>q. QED
  <2> SUFFICES ASSUME NEW w \in Item PROVE Placed(w)'
    BY DEF Places
  <2>1. v \in fresh /\ fresh' = fresh \ {v} /\ UNCHANGED <<items, hand, doomed>> /\ Settle(v, "kept")
    BY DEF PushRefused, NewItem, ringVars
  <2>2. InSlots(w)' = InSlots(w) /\ InHands(w)' = InHands(w) /\ InDooms(w)' = InDooms(w)
    BY <2>1, SameSlots, SameHands, SameDooms
  <2>s. Len(fate'[v]) = Len(fate[v]) + 1 /\ \A x \in Item \ {v} : fate'[x] = fate[x]
    BY <1>t, <2>1, SettleUpdate, Zenon
  <2>3. CASE w = v
    <3>1. Nowhere(v)
      BY <1>p, <2>1, SMTT(30) DEF Placed
    <3>2. Settled(v)'
      BY <2>s, <2>2, <2>3, <3>1, SMTT(30) DEF Settled, Nowhere
    <3> QED BY <2>1, <2>3, <3>2 DEF Placed
  <2>4. CASE w # v
    BY <1>p, <2>s, <2>1, <2>2, <2>4, PlacedSame, SMTT(30)
  <2> QED BY <2>3, <2>4

\* Push queues the item in the slot behind the last one, which is zero.
LEMMA AcceptedPlaces ==
  ASSUME Basic, Hands, Window, Places, NEW p \in Proc, NEW v \in Item, PushAccepted(p, v)
  PROVE  Places'
<1>t. /\ TypeOK /\ n \in 0..Size /\ head \in 0..(Size - 1) /\ items \in [0..(Size - 1) -> Item \cup {None}]
      /\ hand \in [Proc -> Item \cup {None}] /\ doomed \in [Proc -> Seq(Item \cup {None})]
      /\ fate \in [Item -> Seq({"kept", "popped", "dropped"})]
  BY DEF Basic, TypeOK
<1>p. \A w \in Item : Placed(w)
  BY DEF Places
<1>n. \A w \in Item : w # None
  OBVIOUS
<1>l. Slot(n) = At(head, n) /\ At(head, n) \in 0..(Size - 1)
  BY <1>t, AtFacts, Zenon DEF Slot, At
<1>q. QED
  <2> SUFFICES ASSUME NEW w \in Item PROVE Placed(w)'
    BY DEF Places
  <2>1. /\ v \in fresh /\ fresh' = fresh \ {v} /\ UNCHANGED <<hand, doomed, fate>> /\ n < Size
        /\ items' = [items EXCEPT ![At(head, n)] = v]
    BY <1>t, <1>l, SMTT(30) DEF PushAccepted, NewItem, Enqueue, Full
  <2>2. InHands(w)' = InHands(w) /\ InDooms(w)' = InDooms(w)
    BY <2>1, SameHands, SameDooms, SMTT(30)
  <2>3. At(head, n) \notin InSlots(w)
    <3>1. n \in n..(Size - 1)
      BY <1>t, <2>1, SMTT(30)
    <3> QED BY <1>n, <3>1, SMTT(30) DEF Window, InSlots
  <2>4. InSlots(w)' = IF w = v THEN InSlots(w) \cup {At(head, n)} ELSE InSlots(w) \ {At(head, n)}
    BY <1>t, <1>l, <2>1, SlotUpdate, Zenon
  <2>5. CASE w = v
    <3>1. Nowhere(v)
      BY <1>p, <2>1 DEF Placed
    <3>2. InSlots(v)' = {At(head, n)}
      BY <2>4, <2>5, <3>1 DEF Nowhere
    <3>3. Queued(v)'
      BY <2>1, <2>2, <2>5, <3>1, <3>2, SMTT(30) DEF Queued, Nowhere
    <3> QED BY <2>1, <2>5, <3>3 DEF Placed
  <2>6. CASE w # v
    BY <1>p, <2>1, <2>2, <2>3, <2>4, <2>6, PlacedSame, SMTT(30)
  <2> QED BY <2>5, <2>6

\* Push queues the item and the oldest one is up for OnDrop.
LEMMA EvictsPlaces ==
  ASSUME Basic, Hands, Window, Places, NEW p \in Proc, NEW v \in Item, PushEvicts(p, v)
  PROVE  Places'
<1>t. /\ TypeOK /\ n \in 0..Size /\ head \in 0..(Size - 1) /\ items \in [0..(Size - 1) -> Item \cup {None}]
      /\ hand \in [Proc -> Item \cup {None}] /\ doomed \in [Proc -> Seq(Item \cup {None})]
      /\ fate \in [Item -> Seq({"kept", "popped", "dropped"})]
  BY DEF Basic, TypeOK
<1>p. \A w \in Item : Placed(w)
  BY DEF Places
<1>q. QED
  <2> SUFFICES ASSUME NEW w \in Item PROVE Placed(w)'
    BY DEF Places
  <2> DEFINE u == items[head]
  <2>1. /\ v \in fresh /\ fresh' = fresh \ {v} /\ UNCHANGED <<hand, fate>>
        /\ items' = [items EXCEPT ![head] = v] /\ doomed' = [doomed EXCEPT ![p] = <<u>>] /\ pc[p] = "idle"
    BY DEF PushEvicts, NewItem
  <2>2. InHands(w)' = InHands(w)
    BY <2>1, SameHands, SMTT(30)
  <2>3. InSlots(w)' = IF w = v THEN InSlots(w) \cup {head} ELSE InSlots(w) \ {head}
    BY <1>t, <2>1, SlotUpdate, ZenonT(30)
  <2>4. doomed[p] = <<>> /\ u \in Item \cup {None}
    BY <1>t, <2>1 DEF Hands, HandsAt
  <2>5. <<u>> \in Seq(Item \cup {None}) /\ Len(<<u>>) = 1 /\ <<u>>[1] = u
    BY <2>4
  <2>6. InDooms(w)' = InDooms(w) \cup DoomAdds(p, <<u>>, w)
    <3>1. Len(<<u>>) <= Size
      BY <2>5
    <3> HIDE DEF u
    <3> QED BY <1>t, <2>1, <2>4, <2>5, <3>1, DoomUpdate, Zenon
  <2>7. head \in InSlots(w) <=> w = u
    BY <1>t DEF InSlots
  <2> HIDE DEF u
  <2>8. InDooms(w)' = InDooms(w) \cup (IF w = u THEN {<<p, 1>>} ELSE {})
    <3>1. {j \in 1..Len(<<u>>) : <<u>>[j] = w} = IF w = u THEN {1} ELSE {}
      BY <2>5
    <3>2. {<<p, k>> : k \in {1}} = {<<p, 1>>} /\ {<<p, k>> : k \in {}} = {}
      OBVIOUS
    <3> QED BY <2>6, <3>1, <3>2 DEF DoomAdds
  <2>9. CASE w = v
    <3>1. Nowhere(v)
      BY <1>p, <2>1 DEF Placed
    <3>2. w # u
      BY <2>7, <2>9, <3>1 DEF Nowhere
    <3>3. InSlots(v)' = {head} /\ InDooms(v)' = {}
      BY <2>3, <2>8, <2>9, <3>1, <3>2, SMTT(30) DEF Nowhere
    <3>4. Queued(v)'
      BY <2>1, <2>2, <2>9, <3>1, <3>3, Zenon DEF Queued, Nowhere
    <3> QED BY <2>1, <2>9, <3>4 DEF Placed
  <2>10. CASE w # v /\ w = u
    <3>1. Queued(w) /\ InSlots(w) = {head} /\ w \notin fresh
      BY <2>7, <2>10, WhereItIs
    <3>2. InSlots(w)' = {} /\ InDooms(w)' = {<<p, 1>>}
      BY <2>3, <2>8, <2>10, <3>1, SMTT(30) DEF Queued
    <3>3. Dooming(w)'
      BY <2>1, <2>2, <3>1, <3>2, ZenonT(30) DEF Dooming, Queued
    <3> QED BY <2>1, <3>1, <3>3 DEF Placed
  <2>11. CASE w # v /\ w # u
    <3>1. InSlots(w)' = InSlots(w) /\ InDooms(w)' = InDooms(w)
      BY <2>3, <2>7, <2>8, <2>11
    <3> QED BY <1>p, <2>1, <2>2, <2>11, <3>1, PlacedSame
  <2> QED BY <2>9, <2>10, <2>11

\* PushWait holds the item.
LEMMA WaitPlaces ==
  ASSUME Basic, Hands, Window, Places, NEW p \in Proc, NEW v \in Item, PushWait(p, v)
  PROVE  Places'
<1>t. /\ TypeOK /\ n \in 0..Size /\ head \in 0..(Size - 1) /\ items \in [0..(Size - 1) -> Item \cup {None}]
      /\ hand \in [Proc -> Item \cup {None}] /\ doomed \in [Proc -> Seq(Item \cup {None})]
      /\ fate \in [Item -> Seq({"kept", "popped", "dropped"})]
  BY DEF Basic, TypeOK
<1>p. \A w \in Item : Placed(w)
  BY DEF Places
<1>n. \A w \in Item : w # None
  OBVIOUS
<1>q. QED
  <2> SUFFICES ASSUME NEW w \in Item PROVE Placed(w)'
    BY DEF Places
  <2>1. /\ v \in fresh /\ fresh' = fresh \ {v} /\ UNCHANGED <<items, doomed, fate>> /\ Hold(p, v)
        /\ pc[p] = "idle"
    BY DEF PushWait, NewItem, ringVars
  <2>2. InSlots(w)' = InSlots(w) /\ InDooms(w)' = InDooms(w)
    BY <2>1, SameSlots, SameDooms, SMTT(30)
  <2>3. InHands(w)' = IF w = v THEN InHands(w) \cup {p} ELSE InHands(w) \ {p}
    BY <1>t, <2>1, HandUpdate, SMTT(30)
  <2>4. p \notin InHands(w)
    BY <1>n, <2>1, SMTT(30) DEF Hands, HandsAt, InHands
  <2>5. CASE w = v
    <3>1. Nowhere(v)
      BY <1>p, <2>1 DEF Placed
    <3>2. InHands(v)' = {p}
      BY <2>3, <2>5, <3>1, SMTT(30) DEF Nowhere
    <3>3. Held(v)'
      BY <2>1, <2>2, <2>5, <3>1, <3>2, SMTT(30) DEF Held, Nowhere
    <3> QED BY <2>1, <2>5, <3>3, SMTT(30) DEF Placed
  <2>6. CASE w # v
    BY <1>p, <2>1, <2>2, <2>3, <2>4, <2>6, PlacedSame, SMTT(30)
  <2> QED BY <2>5, <2>6

\* The goroutine gives up the item it holds: the caller keeps it or has popped it.
LEMMA GivenUpPlaces ==
  ASSUME Basic, Hands, Window, Places, NEW p \in Proc, NEW how, Hold(p, None), UNCHANGED <<items,
         doomed, fresh>>, (hand[p] = None /\ UNCHANGED fate) \/ (hand[p] # None /\ Settle(hand[p],
         how))
  PROVE  Places'
<1>t. /\ TypeOK /\ n \in 0..Size /\ head \in 0..(Size - 1) /\ items \in [0..(Size - 1) -> Item \cup {None}]
      /\ hand \in [Proc -> Item \cup {None}] /\ doomed \in [Proc -> Seq(Item \cup {None})]
      /\ fate \in [Item -> Seq({"kept", "popped", "dropped"})]
  BY DEF Basic, TypeOK
<1>p. \A w \in Item : Placed(w)
  BY DEF Places
<1>n. \A w \in Item : w # None
  OBVIOUS
<1>q. QED
  <2> SUFFICES ASSUME NEW w \in Item PROVE Placed(w)'
    BY DEF Places
  <2>1. InSlots(w)' = InSlots(w) /\ InDooms(w)' = InDooms(w)
    BY SameSlots, SameDooms, SMTT(30)
  <2>2. InHands(w)' = InHands(w) \ {p}
    BY <1>t, <1>n, HandUpdate, SMTT(30)
  <2>3. p \in InHands(w) <=> hand[p] = w
    BY DEF InHands
  <2>4. CASE hand[p] = w
    <3>1. Held(w) /\ InHands(w) = {p} /\ w \notin fresh
      BY <2>3, <2>4, WhereItIs, SMTT(30)
    <3>2. Len(fate'[w]) = 1 /\ InHands(w)' = {}
      <4>1. Settle(w, how)
        BY <1>n, <2>4
      <4>2. Len(fate'[w]) = Len(fate[w]) + 1
        BY <1>t, <4>1, SettleUpdate, Zenon
      <4> QED BY <2>2, <3>1, <4>2, SMTT(30) DEF Held
    <3>3. Settled(w)'
      BY <2>1, <3>1, <3>2, SMTT(30) DEF Settled, Held
    <3> QED BY <3>1, <3>3 DEF Placed
  <2>5. CASE hand[p] # w
    <3>1. InHands(w)' = InHands(w) /\ fate'[w] = fate[w]
      BY <1>t, <2>2, <2>3, <2>5, SettleUpdate, SMTT(30)
    <3> QED BY <1>p, <2>1, <3>1, PlacedSame, SMTT(30)
  <2> QED BY <2>4, <2>5

\* PushWait gives up, or a call returns.
LEMMA HandedPlaces ==
  ASSUME Basic, Hands, Window, Places, NEW p \in Proc, PushWaitClosed(p) \/ PushWaitCancelled(p)
         \/ Return(p)
  PROVE  Places'
<1>n. \A w \in Item : w # None
  OBVIOUS
<1>q. QED
  <2>1. CASE PushWaitClosed(p) \/ PushWaitCancelled(p)
    <3>1. hand[p] # None
      BY <1>n, <2>1, ZenonT(30) DEF PushWaitClosed, PushWaitCancelled, Hands, HandsAt
    <3> QED BY GivenUpPlaces, <2>1, <3>1, SMTT(30) DEF PushWaitClosed, PushWaitCancelled, ringVars
  <2>2. CASE Return(p)
    <3>1. Hold(p, None) /\ UNCHANGED <<items, doomed, fresh>>
      BY <2>2 DEF Return, ringVars
    <3>2. (hand[p] = None /\ UNCHANGED fate) \/ (hand[p] # None /\ Settle(hand[p], "popped"))
      BY <2>2, Zenon DEF Return
    <3> QED BY GivenUpPlaces, <3>1, <3>2, SMTT(30)
  <2> QED BY <2>1, <2>2, SMTT(30)

\* PushWait queues the item it holds.
LEMMA RoomPlaces ==
  ASSUME NEW p \in Proc
  PROVE  Basic /\ Hands /\ Window /\ Places /\ PushWaitRoom(p) => Places'
<1>a. SUFFICES ASSUME Basic, Hands, Window, Places, PushWaitRoom(p) PROVE Places'
  OBVIOUS
<1>t. /\ TypeOK /\ n \in 0..Size /\ head \in 0..(Size - 1) /\ items \in [0..(Size - 1) -> Item \cup {None}]
      /\ hand \in [Proc -> Item \cup {None}] /\ doomed \in [Proc -> Seq(Item \cup {None})]
      /\ fate \in [Item -> Seq({"kept", "popped", "dropped"})]
  BY <1>a DEF Basic, TypeOK
<1>p. \A w \in Item : Placed(w)
  BY <1>a DEF Places
<1>n. \A w \in Item : w # None
  OBVIOUS
<1>l. Slot(n) = At(head, n) /\ At(head, n) \in 0..(Size - 1)
  BY <1>t, AtFacts, Zenon DEF Slot, At
<1>q. QED
  <2> SUFFICES ASSUME NEW w \in Item PROVE Placed(w)'
    BY <1>a DEF Places
  <2>1. /\ UNCHANGED <<doomed, fresh, fate>> /\ n < Size /\ Hold(p, None) /\ pc[p] = "pushWait"
        /\ items' = [items EXCEPT ![At(head, n)] = hand[p]]
    BY <1>a, <1>t, <1>l, SMTT(30) DEF PushWaitRoom, Enqueue, Full, histVars
  <2>2. InDooms(w)' = InDooms(w)
    BY <2>1, SameDooms, SMTT(30)
  <2>3. At(head, n) \notin InSlots(w)
    <3>1. n \in n..(Size - 1)
      BY <1>t, <2>1, SMTT(30)
    <3> QED BY <1>a, <1>n, <3>1, SMTT(30) DEF Window, InSlots
  <2>4. InSlots(w)' = IF w = hand[p] THEN InSlots(w) \cup {At(head, n)} ELSE InSlots(w) \ {At(head, n)}
    BY <1>t, <1>l, <2>1, SlotUpdate, Zenon
  <2>5. InHands(w)' = InHands(w) \ {p} /\ (p \in InHands(w) <=> hand[p] = w)
    <3>1. InHands(w)' = InHands(w) \ {p}
      BY <1>t, <1>n, <2>1, HandUpdate, ZenonT(30)
    <3>2. p \in InHands(w) <=> hand[p] = w
      BY DEF InHands
    <3> QED BY <3>1, <3>2
  <2>6. CASE w = hand[p]
    <3>1. Held(w) /\ InHands(w) = {p} /\ w \notin fresh
      BY <1>a, <2>5, <2>6, WhereItIs, SMTT(30)
    <3>2. InHands(w)' = {} /\ InSlots(w)' = {At(head, n)}
      BY <2>4, <2>5, <2>6, <3>1, SMTT(30) DEF Held
    <3>3. InDooms(w)' = {} /\ Len(fate'[w]) = 0
      BY <2>1, <2>2, <3>1, Zenon DEF Held
    <3>4. Queued(w)'
      BY <3>2, <3>3, Zenon DEF Queued
    <3> QED BY <2>1, <3>1, <3>4, Zenon DEF Placed
  <2>7. CASE w # hand[p]
    BY <1>p, <2>1, <2>2, <2>3, <2>4, <2>5, <2>7, PlacedSame, ZenonT(30)
  <2> QED BY <2>6, <2>7, SMTT(30)

\* Pop takes the oldest item.
LEMMA PopPlaces ==
  ASSUME NEW p \in Proc
  PROVE  Basic /\ Hands /\ Window /\ Places /\ Pop(p) => Places'
<1>a. SUFFICES ASSUME Basic, Hands, Window, Places, Pop(p) PROVE Places'
  OBVIOUS
<1>t. /\ TypeOK /\ n \in 0..Size /\ head \in 0..(Size - 1) /\ items \in [0..(Size - 1) -> Item \cup {None}]
      /\ hand \in [Proc -> Item \cup {None}] /\ doomed \in [Proc -> Seq(Item \cup {None})]
      /\ fate \in [Item -> Seq({"kept", "popped", "dropped"})]
  BY <1>a DEF Basic, TypeOK
<1>p. \A w \in Item : Placed(w)
  BY <1>a DEF Places
<1>n. \A w \in Item : w # None
  OBVIOUS
<1>q. QED
  <2> SUFFICES ASSUME NEW w \in Item PROVE Placed(w)'
    BY <1>a DEF Places
  <2>1. /\ UNCHANGED <<doomed, fresh, fate>> /\ Hold(p, items[head]) /\ pc[p] \in {"idle", "popWait"}
        /\ items' = [items EXCEPT ![head] = None]
    BY <1>a DEF Pop, popLocked, histVars
  <2>2. InDooms(w)' = InDooms(w)
    BY <2>1, SameDooms, SMTT(30)
  <2>3. InSlots(w)' = InSlots(w) \ {head} /\ (head \in InSlots(w) <=> items[head] = w)
    BY <1>t, <1>n, <2>1, SlotUpdate, SMTT(30) DEF InSlots
  <2>4. p \notin InHands(w)
    BY <1>a, <1>n, <2>1, SMTT(30) DEF Hands, HandsAt, InHands
  <2>5. InHands(w)' = IF w = items[head] THEN InHands(w) \cup {p} ELSE InHands(w) \ {p}
    BY <1>t, <2>1, HandUpdate, SMTT(30)
  <2>6. CASE w = items[head]
    <3>1. Queued(w) /\ InSlots(w) = {head} /\ w \notin fresh
      BY <1>a, <2>3, <2>6, WhereItIs, SMTT(30)
    <3>2. InSlots(w)' = {} /\ InHands(w)' = {p}
      BY <2>3, <2>5, <2>6, <3>1, SMTT(30) DEF Queued
    <3>3. InDooms(w)' = {} /\ Len(fate'[w]) = 0
      BY <2>1, <2>2, <3>1, Zenon DEF Queued
    <3>4. Held(w)'
      BY <3>2, <3>3, Zenon DEF Held
    <3> QED BY <2>1, <3>1, <3>4, SMTT(30) DEF Placed
  <2>7. CASE w # items[head]
    BY <1>p, <2>1, <2>2, <2>3, <2>4, <2>5, <2>7, PlacedSame, SMTT(30)
  <2> QED BY <2>6, <2>7, SMTT(30)

\* Drain has every queued item up for OnDrop.
LEMMA DrainPlaces ==
  ASSUME Basic, Hands, Window, Places, NEW p \in Proc, Drain(p)
  PROVE  Places'
<1>t. /\ TypeOK /\ n \in 0..Size /\ head \in 0..(Size - 1) /\ items \in [0..(Size - 1) -> Item \cup {None}]
      /\ hand \in [Proc -> Item \cup {None}] /\ doomed \in [Proc -> Seq(Item \cup {None})]
      /\ fate \in [Item -> Seq({"kept", "popped", "dropped"})]
  BY DEF Basic, TypeOK
<1>p. \A w \in Item : Placed(w)
  BY DEF Places
<1>n. \A w \in Item : w # None
  OBVIOUS
<1>q. QED
  <2> SUFFICES ASSUME NEW w \in Item PROVE Placed(w)'
    BY DEF Places
  <2>1. /\ UNCHANGED <<hand, fresh, fate>> /\ pc[p] = "idle" /\ doomed' = [doomed EXCEPT ![p] = Contents]
        /\ items' = [i \in 0..(Size - 1) |-> None]
    BY DEF Drain, histVars
  <2>2. InHands(w)' = InHands(w)
    BY <2>1, SameHands
  <2>3. InSlots(w)' = {}
    BY <1>n, <2>1, SMTT(30) DEF InSlots
  <2>4. /\ Contents \in Seq(Item \cup {None}) /\ Len(Contents) = n
        /\ \A k \in 1..n : Contents[k] = items[At(head, k - 1)]
    BY <1>t, ContentsAt, SMTT(30)
  <2>5. doomed[p] = <<>>
    BY <2>1, SMTT(30) DEF Hands, HandsAt
  <2> DEFINE K == {j \in 1..n : Contents[j] = w}
  <2>6. InDooms(w)' = InDooms(w) \cup {<<p, k>> : k \in K}
    <3>1. Len(Contents) <= Size
      BY <1>t, <2>4
    <3>2. InDooms(w)' = InDooms(w) \cup DoomAdds(p, Contents, w)
      BY <1>t, <2>1, <2>4, <2>5, <3>1, DoomUpdate, Zenon
    <3> QED BY <2>4, <3>2, SMTT(30) DEF DoomAdds
  <2>7. CASE InSlots(w) = {}
    <3>1. ASSUME NEW j \in 1..n PROVE Contents[j] # w
      <4>1. j - 1 \in 0..Size
        BY <1>t, SMTT(30)
      <4>2. At(head, j - 1) \in 0..(Size - 1)
        BY <1>t, <4>1, AtFacts, ZenonT(30)
      <4> QED BY <2>4, <2>7, <4>2 DEF InSlots
    <3>2. K = {}
      BY <3>1
    <3>3. InDooms(w)' = InDooms(w)
      BY <2>6, <3>2
    <3> QED BY <1>p, <2>1, <2>2, <2>3, <2>7, <3>3, PlacedSame, ZenonT(30)
  <2>8. ASSUME NEW i \in InSlots(w) PROVE Placed(w)'
    <3>1. Queued(w) /\ InSlots(w) = {i} /\ w \notin fresh /\ i \in 0..(Size - 1) /\ items[i] = w
      BY <2>8, WhereItIs, SMTT(30) DEF InSlots
    <3>2. PICK k \in 0..(Size - 1) : At(head, k) = i
      BY <1>t, <3>1, AtFacts, SMTT(30)
    <3>3. k < n
      <4>1. k \notin n..(Size - 1)
        BY <1>n, <3>1, <3>2, SMTT(30) DEF Window
      <4> QED BY <1>t, <4>1
    <3>4. k + 1 \in 1..n /\ (k + 1) - 1 = k
      BY <1>t, <3>3, SMTT(30)
    <3>5. k + 1 \in K
      BY <2>4, <3>1, <3>2, <3>4, SMTT(30)
    <3>6. ASSUME NEW j \in K PROVE j = k + 1
      <4>1. j \in 1..n /\ items[At(head, j - 1)] = w
        BY <2>4, SMTT(30)
      <4>2. j - 1 \in 0..(Size - 1) /\ j - 1 \in 0..Size
        BY <1>t, <4>1, SMTT(30)
      <4>3. At(head, j - 1) \in 0..(Size - 1)
        BY <1>t, <4>2, AtFacts, ZenonT(30)
      <4>4. At(head, j - 1) = At(head, k)
        BY <3>1, <3>2, <4>1, <4>3 DEF InSlots
      <4>5. j - 1 = k
        BY <1>t, <4>2, <4>4, AtFacts, SMTT(30)
      <4> QED BY <4>1, <4>5, SMTT(30)
    <3>7. K = {k + 1}
      BY <3>5, <3>6, SMTT(30)
    <3> HIDE DEF K
    <3>8. {<<p, j>> : j \in K} = {<<p, k + 1>>}
      BY <3>7, SMTT(30)
    <3>9. InDooms(w)' = {<<p, k + 1>>}
      BY <2>6, <3>1, <3>8, SMTT(30) DEF Queued
    <3>10. Dooming(w)'
      BY <2>1, <2>2, <2>3, <3>1, <3>9, ZenonT(30) DEF Dooming, Queued
    <3> QED BY <2>1, <3>1, <3>10 DEF Placed
  <2> QED BY <2>7, <2>8, SMTT(30)

\* OnDrop receives the first of the items, and the others move up.
LEMMA OnDropPlaces ==
  ASSUME NEW p \in Proc
  PROVE  Basic /\ Hands /\ Window /\ Places /\ OnDrop(p) => Places'
<1>a. SUFFICES ASSUME Basic, Hands, Window, Places, OnDrop(p) PROVE Places'
  OBVIOUS
<1>t. /\ TypeOK /\ n \in 0..Size /\ head \in 0..(Size - 1) /\ items \in [0..(Size - 1) -> Item \cup {None}]
      /\ hand \in [Proc -> Item \cup {None}] /\ doomed \in [Proc -> Seq(Item \cup {None})]
      /\ fate \in [Item -> Seq({"kept", "popped", "dropped"})]
  BY <1>a DEF Basic, TypeOK
<1>p. \A w \in Item : Placed(w)
  BY <1>a DEF Places
<1>q. QED
  <2> SUFFICES ASSUME NEW w \in Item PROVE Placed(w)'
    BY <1>a DEF Places
  <2> DEFINE s == doomed[p]
  <2>1. /\ UNCHANGED <<items, hand, fresh>> /\ s # <<>> /\ Settle(Head(s), "dropped")
        /\ doomed' = [doomed EXCEPT ![p] = Tail(s)]
    BY <1>a DEF OnDrop, ringVars
  <2>2. /\ s \in Seq(Item \cup {None}) /\ Len(s) \in Nat \ {0} /\ Head(s) = s[1] /\ Len(s) <= Size
        /\ Len(Tail(s)) = Len(s) - 1 /\ \A k \in 1..(Len(s) - 1) : Tail(s)[k] = s[k + 1]
    BY <1>a, <1>t, <2>1, TailIs, SMTT(30) DEF Hands, HandsAt
  <2>3. InSlots(w)' = InSlots(w) /\ InHands(w)' = InHands(w)
    BY <2>1, SameSlots, SameHands, SMTT(30)
  <2>4. doomed'[p] = Tail(s) /\ \A q \in Proc \ {p} : doomed'[q] = doomed[q]
    BY <1>t, <2>1, SMTT(30)
  <2>5. \A k \in 1..Size : <<p, k>> \in InDooms(w) <=> k <= Len(s) /\ s[k] = w
    BY SMTT(30) DEF InDooms
  <2> HIDE DEF s
  <2>6. \A k \in 1..Size : <<p, k>> \in InDooms(w)' <=> k <= Len(s) - 1 /\ s[k + 1] = w
    <3>1. \A k \in 1..Size : <<p, k>> \in InDooms(w)' <=> k <= Len(doomed'[p]) /\ doomed'[p][k] = w
      BY DEF InDooms
    <3>2. \A k \in 1..Size : k <= Len(s) - 1 => Tail(s)[k] = s[k + 1]
      BY <2>2, SMTT(30)
    <3> QED BY <2>2, <2>4, <3>1, <3>2, SMTT(30)
  <2>7. \A q \in Proc \ {p} : \A k \in 1..Size : <<q, k>> \in InDooms(w)' <=> <<q, k>> \in InDooms(w)
    BY <2>4, SMTT(30) DEF InDooms
  <2>8. InDooms(w) \in SUBSET (Proc \X (1..Size)) /\ InDooms(w)' \in SUBSET (Proc \X (1..Size))
    BY SMTT(30) DEF InDooms
  <2>9. CASE w = Head(s)
    <3>1. <<p, 1>> \in InDooms(w)
      BY <2>2, <2>5, <2>9, SMTT(30)
    <3>2. Dooming(w) /\ InDooms(w) = {<<p, 1>>} /\ w \notin fresh
      BY <1>a, <3>1, WhereItIs, SMTT(30)
    <3>3. ASSUME NEW d \in InDooms(w)' PROVE FALSE
      <4>1. PICK q \in Proc, k \in 1..Size : d = <<q, k>>
        BY <2>8, SMTT(30)
      <4>2. CASE q # p
        <5>1. <<q, k>> \in InDooms(w)
          BY <2>7, <4>1, <4>2, <3>3, SMTT(30)
        <5> QED BY <3>2, <4>2, <5>1, SMTT(30)
      <4>3. CASE q = p
        <5>1. k <= Len(s) - 1 /\ s[k + 1] = w
          BY <2>6, <3>3, <4>1, <4>3, SMTT(30)
        <5>2. k + 1 \in 1..Size /\ k + 1 <= Len(s)
          BY <2>2, <5>1, SMTT(30)
        <5>3. <<p, k + 1>> \in InDooms(w)
          BY <2>5, <5>1, <5>2, SMTT(30)
        <5>4. k + 1 = 1
          BY <3>2, <5>3, SMTT(30)
        <5> QED BY <5>4, SMTT(30)
      <4> QED BY <4>2, <4>3, SMTT(30)
    <3>4. InDooms(w)' = {}
      BY <3>3
    <3>5. Len(fate'[w]) = 1
      <4>1. Len(fate'[w]) = Len(fate[w]) + 1
        BY <1>t, <2>1, <2>9, SettleUpdate, Zenon
      <4> QED BY <3>2, <4>1 DEF Dooming
    <3>6. Settled(w)'
      BY <2>3, <3>2, <3>4, <3>5, SMTT(30) DEF Settled, Dooming
    <3> QED BY <2>1, <3>2, <3>6, SMTT(30) DEF Placed
  <2>10. CASE w # Head(s)
    <3>f. fate'[w] = fate[w]
      BY <1>t, <2>1, <2>10, SettleUpdate, SMTT(30)
    <3>1. CASE InDooms(w) = {}
      <4>1. ASSUME NEW d \in InDooms(w)' PROVE FALSE
        <5>1. PICK q \in Proc, k \in 1..Size : d = <<q, k>>
          BY <2>8, <4>1, SMTT(30)
        <5>2. CASE q # p
          BY <2>7, <3>1, <4>1, <5>1, <5>2, SMTT(30)
        <5>3. CASE q = p
          <6>1. k <= Len(s) - 1 /\ s[k + 1] = w
            BY <2>6, <4>1, <5>1, <5>3, SMTT(30)
          <6>2. k + 1 \in 1..Size /\ k + 1 <= Len(s)
            BY <2>2, <5>1, <6>1, SMTT(30)
          <6>3. <<p, k + 1>> \in InDooms(w)
            BY <2>5, <6>1, <6>2, Zenon
          <6> QED BY <3>1, <6>3, Zenon
        <5> QED BY <5>2, <5>3
      <4>2. InDooms(w)' = InDooms(w)
        BY <3>1, <4>1, SMTT(30)
      <4> QED BY <1>p, <2>1, <2>3, <3>f, <4>2, PlacedSame, SMTT(30)
    <3>2. ASSUME NEW d \in InDooms(w) PROVE Placed(w)'
      <4>1. Dooming(w) /\ InDooms(w) = {d} /\ w \notin fresh
        BY <1>a, <3>2, WhereItIs, SMTT(30)
      <4>2. PICK q \in Proc, k \in 1..Size : d = <<q, k>>
        BY <2>8, <3>2, SMTT(30)
      <4>3. \E e : InDooms(w)' = {e}
        <5>1. CASE q # p
          <6>1. ASSUME NEW r \in Proc, NEW j \in 1..Size
                PROVE  <<r, j>> \in InDooms(w)' <=> <<r, j>> = d
            <7>1. CASE r # p
              BY <2>7, <4>1, <7>1, SMTT(30)
            <7>2. CASE r = p
              <8>1. <<p, j + 1>> \notin InDooms(w) /\ <<p, j>> # d
                BY <4>1, <4>2, <5>1, SMTT(30)
              <8>2. j <= Len(s) - 1 => j + 1 \in 1..Size /\ j + 1 <= Len(s)
                BY <2>2
              <8> QED BY <2>5, <2>6, <7>2, <8>1, <8>2, SMTT(30)
            <7> QED BY <7>1, <7>2
          <6> QED BY <2>8, <4>2, <6>1
        <5>2. CASE q = p
          <6>1. k <= Len(s) /\ s[k] = w /\ k # 1
            BY <2>2, <2>5, <2>10, <3>2, <4>2, <5>2
          <6>2. k - 1 \in 1..Size /\ (k - 1) + 1 = k /\ k - 1 <= Len(s) - 1
            BY <2>2, <6>1
          <6>3. ASSUME NEW r \in Proc, NEW j \in 1..Size
                PROVE  <<r, j>> \in InDooms(w)' <=> <<r, j>> = <<p, k - 1>>
            <7>1. CASE r # p
              BY <2>7, <4>1, <4>2, <5>2, <7>1, SMTT(30)
            <7>2. CASE r = p
              <8>1. ASSUME <<p, j>> \in InDooms(w)' PROVE j = k - 1
                <9>1. j <= Len(s) - 1 /\ s[j + 1] = w
                  BY <2>6, <8>1, SMTT(30)
                <9>2. j + 1 \in 1..Size /\ j + 1 <= Len(s)
                  BY <2>2, <9>1, SMTT(30)
                <9>3. <<p, j + 1>> = <<p, k>>
                  BY <2>5, <4>1, <4>2, <5>2, <9>1, <9>2, SMTT(30)
                <9> QED BY <9>3, SMTT(30)
              <8>2. <<p, k - 1>> \in InDooms(w)'
                BY <2>6, <6>1, <6>2, SMTT(30)
              <8> QED BY <7>2, <8>1, <8>2, SMTT(30)
            <7> QED BY <7>1, <7>2, SMTT(30)
          <6>5. <<p, k - 1>> \in InDooms(w)'
            BY <6>2, <6>3, SMTT(30)
          <6>6. ASSUME NEW e \in InDooms(w)' PROVE e = <<p, k - 1>>
            <7>1. PICK r \in Proc, j \in 1..Size : e = <<r, j>>
              BY <2>8, <6>6, SMTT(30)
            <7> QED BY <6>3, <6>6, <7>1, SMTT(30)
          <6>7. InDooms(w)' = {<<p, k - 1>>}
            BY <6>5, <6>6, SMTT(30)
          <6> QED BY <6>7, ZenonT(30)
        <5> QED BY <5>1, <5>2, ZenonT(30)
      <4>4. Dooming(w)'
        BY <2>3, <3>f, <4>1, <4>3, ZenonT(30) DEF Dooming
      <4> QED BY <2>1, <4>1, <4>4, SMTT(30) DEF Placed
    <3> QED BY <3>1, <3>2
  <2> QED BY <2>9, <2>10

\* Every step moves the items it concerns from one place to another and no other item.
LEMMA PlacesNext == Basic /\ Hands /\ Window /\ Places /\ [Next]_vars => Places'
<1> SUFFICES ASSUME Basic, Hands, Window, Places, [Next]_vars PROVE Places'
  OBVIOUS
<1>11. ASSUME NEW p \in Proc, Continue(p) PROVE Places'
  BY AsidePlaces, HandedPlaces, RoomPlaces, PopPlaces, OnDropPlaces, <1>11, Zenon
     DEF Continue, PushWaitFull, PushWaitWakes, Wakes, PopWaitEmpty, PopWaitCheck, PopWaitWakes, Signal, ringVars, histVars
<1>12. ASSUME NEW p \in Proc, Call(p) PROVE Places'
  BY AsidePlaces, RefusedPlaces, AcceptedPlaces, EvictsPlaces, WaitPlaces, HandedPlaces, PopPlaces,
     DrainPlaces, <1>12, Zenon DEF Call, PopWait, Close, PopWaitCancelled, ringVars, histVars
<1>13. CASE UNCHANGED vars
  BY AsidePlaces, <1>13 DEF vars, ringVars, histVars
<1> QED BY <1>11, <1>12, <1>13 DEF Next

\* How many elements the sets have that hold at most one: the definition of Cardinality
\* unfolded over their subsets.
Sizes(S, g) == g = [T \in SUBSET S |-> IF T = {} THEN 0 ELSE 1 + g[T \ {CHOOSE x : x \in T}]]

\* Cardinality takes the function that Sizes describes.
LEMMA CardinalityIs == ASSUME NEW S PROVE Cardinality(S) = (CHOOSE g : Sizes(S, g))[S]
  BY DEF Cardinality, Sizes

\* The empty set has no element.
LEMMA CardinalityNone == Cardinality({}) = 0
<1> DEFINE g == [T \in SUBSET {} |-> 0]
<1>1. Sizes({}, g)
  BY DEF Sizes
<1>2. Sizes({}, CHOOSE h : Sizes({}, h))
  BY <1>1
<1> QED BY <1>2, CardinalityIs DEF Sizes

\* A singleton has one.
LEMMA CardinalityOne == ASSUME NEW x PROVE Cardinality({x}) = 1
<1> DEFINE g == [T \in SUBSET {x} |-> IF T = {} THEN 0 ELSE 1]
<1>1. (CHOOSE y : y \in {x}) = x
  OBVIOUS
<1>2. \A T \in SUBSET {x} : T = {} \/ T = {x}
  OBVIOUS
<1>3. Sizes({x}, g)
  BY <1>1, <1>2 DEF Sizes
<1> DEFINE f == CHOOSE h : Sizes({x}, h)
<1>4. Sizes({x}, f)
  BY <1>3
<1> HIDE DEF f
<1>5. f[{}] = 0 /\ f[{x}] = 1 + f[{x} \ {CHOOSE y : y \in {x}}]
  BY <1>4 DEF Sizes
<1>6. {x} \ {CHOOSE y : y \in {x}} = {}
  BY <1>1
<1>7. Cardinality({x}) = f[{x}]
  BY CardinalityIs DEF f
<1> QED BY <1>5, <1>6, <1>7

\* An item given to Push or PushWait has exactly one owner at every moment, for any number
\* of goroutines: it is never lost, delivered twice, or both delivered and dropped.
THEOREM EveryItemHasOneOwner == Spec => []OneOwner
<1>1. Init => Places
  <2> SUFFICES ASSUME Init, NEW v \in Item PROVE Placed(v)
    BY SMTT(30) DEF Places
  <2>1. InSlots(v) = {} /\ InHands(v) = {}
    BY SMTT(30) DEF Init, InSlots, InHands
  <2>2. InDooms(v) = {}
    BY SMTT(30) DEF Init, InDooms
  <2>3. Len(fate[v]) = 0 /\ v \in fresh
    BY SMTT(30) DEF Init
  <2> QED BY <2>1, <2>2, <2>3, SMTT(30) DEF Placed, Nowhere
<1>2. Places => OneOwner
  <2> SUFFICES ASSUME Places, NEW v \in Item PROVE Owners(v) = IF v \in fresh THEN 0 ELSE 1
    BY SMTT(30) DEF OneOwner
  <2>1. Owners(v) = Cardinality(InSlots(v)) + Cardinality(InHands(v)) + Cardinality(InDooms(v)) + Len(fate[v])
    BY DEF Owners, InSlots, InHands, InDooms
  <2>2. Cardinality({}) = 0 /\ \A x : Cardinality({x}) = 1
    BY CardinalityNone, CardinalityOne, ZenonT(30)
  <2>3. Placed(v)
    BY DEF Places
  <2>4. CASE Nowhere(v)
    BY <2>1, <2>2, <2>3, <2>4 DEF Nowhere, Placed, Queued, Held, Dooming, Settled
  <2>5. CASE Queued(v) /\ v \notin fresh
    <3>1. Cardinality(InSlots(v)) = 1
      BY <2>2, <2>5, Zenon DEF Queued
    <3> QED BY <2>1, <2>2, <2>5, <3>1 DEF Queued
  <2>6. CASE Held(v) /\ v \notin fresh
    <3>1. Cardinality(InHands(v)) = 1
      BY <2>2, <2>6, Zenon DEF Held
    <3> QED BY <2>1, <2>2, <2>6, <3>1 DEF Held
  <2>7. CASE Dooming(v) /\ v \notin fresh
    <3>1. Cardinality(InDooms(v)) = 1
      BY <2>2, <2>7, Zenon DEF Dooming
    <3> QED BY <2>1, <2>2, <2>7, <3>1 DEF Dooming
  <2>8. CASE Settled(v) /\ v \notin fresh
    BY <2>1, <2>2, <2>8 DEF Settled
  <2> QED BY <2>3, <2>4, <2>5, <2>6, <2>7, <2>8, SMTT(30) DEF Placed
<1> QED BY <1>1, <1>2, HandsAlways, PlacesNext, PTL DEF Spec
=============================================================================
