---------------------------- MODULE StreamReader -----------------------------
(* stream.Reader (stream/reader.go) over buf.Pool (buf/buf.go) and limit.Budget: *)
(* several Readers, each used by one goroutine, borrow from one pool whose       *)
(* budget they compete for.  A byte is its position in the Reader's source; 0 is *)
(* whatever a buffer held before, consumed bytes included.                       *)
EXTENDS BufSizes, Sequences, FiniteSetsExt, Functions

CONSTANTS
  Conn,        \* the Readers
  IdleSize,    \* ReaderOptions.IdleSize
  MaxData,     \* ReaderOptions.Max of each Reader
  MaxUnits,    \* the pool's budget
  MaxSource    \* bound on the bytes a source returns

ASSUME ReaderAssumption ==
  /\ IsFiniteSet(Conn) /\ minShift \in Nat /\ numClasses \in Nat \ {0} /\ IdleSize \in Nat \ {0}
  /\ MaxData \in [Conn -> {n \in Nat : n >= IdleSize}] /\ MaxUnits \in Nat /\ MaxSource \in Nat

VARIABLES
  used,  \* Budget.used
  rd     \* each Reader: its fields, the call under way (at, op, n) and
         \* the size for which the last one returned ErrTooLarge; light is last no
         \* larger than the idle buffer; got and eaten count bytes in and out

vars == <<used, rd>>
-----------------------------------------------------------------------------
\* Pool.Get charges the capacity, not the size.
ChargeSize(size) == size                                           \* mutated form
Charge(size) == Capacity(size)
-----------------------------------------------------------------------------
\* The fields of a Reader x.

Zeros(n) == [i \in 1 .. n |-> 0]
NewReader(c) ==
  [max |-> MaxData[c], mem |-> Zeros(IdleSize), r |-> 0, w |-> 0, light |-> TRUE, err |-> "nil", done |-> FALSE,
   big |-> 0, old |-> 0, at |-> "idle", op |-> "none", n |-> 0, tooLarge |-> 0, got |-> 0, eaten |-> 0]

Init == used = 0 /\ rd = [c \in Conn |-> NewReader(c)]

Buffered(x) == SubSeq(x.mem, x.r + 1, x.w)
BufLen(x) == x.w - x.r
Return(x) == [x EXCEPT !.at = "idle", !.op = "none", !.n = 0]
ErrTooLarge(x) == [Return(x) EXCEPT !.tooLarge = x.n]

\* ensure: n bytes fit from r with room left at the end ...
Fits(x, n) == Len(x.mem) >= n /\ x.w < Len(x.mem) /\ Len(x.mem) - x.r >= n

\* ... or they do once the buffered bytes have moved to the front ...
CompactedInPlace(x) == [x EXCEPT !.w = BufLen(x), !.r = 0]         \* mutated form
Compacted(x) ==
  [x EXCEPT !.mem = Buffered(x) \o Zeros(Len(x.mem) - BufLen(x)), !.w = BufLen(x), !.r = 0]

Prepared(x, n) == IF Len(x.mem) >= n /\ ~Fits(x, n) /\ x.r > 0 THEN Compacted(x) ELSE x
HasRoom(x, n) == Fits(x, n) \/ (Len(x.mem) >= n /\ x.r > 0 /\ BufLen(x) < Len(x.mem))

\* ... or a larger buffer is needed.
Need(x, n) == IF Len(x.mem) < n THEN n ELSE Len(x.mem) + 1
GrowSizeDoubles(x, need) == IF 2 * Len(x.mem) > x.max THEN 0 ELSE 2 * Len(x.mem) \* mutated form
GrowSize(x, need) == Min({Capacity(Max({need, Len(x.mem) + 1})), x.max})
Grown(x, size) ==
  [x EXCEPT !.mem = Buffered(x) \o Zeros(size - BufLen(x)), !.w = BufLen(x), !.r = 0,
            !.old = x.big, !.big = Capacity(size)]

\* Discard of k buffered bytes; an empty Reader goes back to its idle buffer
\* after a light read.
Shrinks(x) == x.big # 0 /\ x.light
RewoundNot(x) == x                                                 \* mutated form
Rewound(x) == [x EXCEPT !.r = 0, !.w = 0]
Discarded(x, k) ==
  LET y == [x EXCEPT !.r = @ + k, !.eaten = @ + k,
                     !.mem = [i \in DOMAIN @ |-> IF i > x.r + k THEN @[i] ELSE 0]] IN
  IF y.r # y.w THEN y
  ELSE IF Shrinks(y) THEN [Rewound(y) EXCEPT !.mem = Zeros(IdleSize), !.big = 0]
  ELSE Rewound(y)

\* What Discard gives back to the budget.
DiscardRefund(x, k) == IF x.r + k = x.w /\ Shrinks(x) THEN x.big ELSE 0
-----------------------------------------------------------------------------
\* Reader c becomes x, the budget is unchanged, or gets back what Budget.Release
\* is called with.
Becomes(c, x) == rd' = [rd EXCEPT ![c] = x] /\ UNCHANGED used
Refunds(c, x, n) == rd' = [rd EXCEPT ![c] = x] /\ used' = used - n

Idle(c) == rd[c].at = "idle"
Calls(c, op, n, at) == [rd[c] EXCEPT !.op = op, !.n = n, !.at = at, !.tooLarge = 0]

Peek(c, n) ==
  /\ Idle(c)
  /\ Becomes(c, LET x == Calls(c, "Peek", n, "loop") IN
                IF x.done THEN Return(x) ELSE IF n > x.max THEN ErrTooLarge(x) ELSE x)

\* The head of Peek's loop when it is done; Enough is its condition.
Enough(x) == BufLen(x) >= x.n
PeekDone(c) == rd[c].at = "loop" /\ rd[c].op = "Peek" /\ Enough(rd[c]) /\ Becomes(c, Return(rd[c]))

Fill(c) ==
  /\ Idle(c)
  /\ Becomes(c, LET x == Calls(c, "Fill", BufLen(rd[c]) + 1, "loop") IN
                IF x.done THEN Return(x) ELSE IF x.n > x.max THEN ErrTooLarge(x) ELSE x)

\* ensure(n) for Peek and Fill.
Ensuring(c) == rd[c].at = "loop" /\ (rd[c].op = "Peek" => ~Enough(rd[c]))

EnsureRoom(c) ==
  /\ Ensuring(c) /\ HasRoom(rd[c], rd[c].n)
  /\ Becomes(c, [Prepared(rd[c], rd[c].n) EXCEPT !.at = "read"])

EnsureGrows(c) ==
  LET x == Prepared(rd[c], rd[c].n)
      size == GrowSize(x, Need(x, x.n))
  IN /\ Ensuring(c) /\ ~HasRoom(rd[c], rd[c].n)
     /\ IF size <= Len(x.mem) THEN Becomes(c, ErrTooLarge(x))
        ELSE IF used + Charge(size) > MaxUnits THEN Becomes(c, Return(x))
        ELSE /\ rd' = [rd EXCEPT ![c] = [Grown(x, size) EXCEPT !.at = "free"]]
             /\ used' = used + Charge(size)

\* r.big.Release() of the buffer that grow replaced.
GrowReleases(c) ==
  rd[c].at = "free" /\ Refunds(c, [rd[c] EXCEPT !.at = "read", !.old = 0], rd[c].old)

\* Read: buffered bytes first, else from the source.
Read(c, n) ==
  /\ Idle(c)
  /\ LET x == Calls(c, "Read", n, "read")
         k == Min({n, BufLen(x)})
     IN IF x.done THEN Becomes(c, Return(x))
        ELSE IF BufLen(x) = 0 THEN Becomes(c, x)
        ELSE Refunds(c, Return(Discarded(x, k)), DiscardRefund(x, k))

\* What the call does with the data that readOnce has brought.
Continue(c, x) ==
  LET k == Min({x.n, BufLen(x)}) IN
  CASE x.op = "Peek" -> Becomes(c, [x EXCEPT !.at = "loop"])
    [] x.op = "Fill" -> Becomes(c, Return(x))
    [] x.op = "Read" -> Refunds(c, Return(Discarded(x, k)), DiscardRefund(x, k))

\* k bytes arrive; an error that comes with them is kept for the next read.
Filled(x, k, err) ==
  [x EXCEPT !.mem = [i \in DOMAIN x.mem |-> IF i \in x.w + 1 .. x.w + k THEN x.got + i - x.w ELSE x.mem[i]],
            !.w = @ + k, !.light = k <= IdleSize, !.err = err, !.got = @ + k]

\* readOnce: the source returns k bytes and perhaps an error.
ReadOnce(c, k, err) ==
  LET x == rd[c] IN
  /\ x.at = "read" /\ x.err = "nil"
  /\ x.w + k <= Len(x.mem) /\ x.got + k <= MaxSource /\ (k # 0 \/ err # "nil")
  /\ LET y == Filled(x, k, err) IN IF k > 0 THEN Continue(c, y) ELSE Becomes(c, Return(y))

\* readOnce: the earlier error; a count out of range; maxEmptyReads empty reads.
ReadSticky(c) == rd[c].at = "read" /\ rd[c].err # "nil" /\ Becomes(c, Return(rd[c]))
ReadInvalid(c) ==
  rd[c].at = "read" /\ rd[c].err = "nil" /\ Becomes(c, Return([rd[c] EXCEPT !.err = "EOF"]))
ReadNoProgress(c) == rd[c].at = "read" /\ rd[c].err = "nil" /\ Becomes(c, Return(rd[c]))

Discard(c, n) ==
  LET k == Min({n, BufLen(rd[c])})
  IN Idle(c) /\ n > 0 /\ Refunds(c, Discarded(rd[c], k), DiscardRefund(rd[c], k))

Release(c) ==
  /\ Idle(c) /\ ~rd[c].done
  /\ Refunds(c, [rd[c] EXCEPT !.done = TRUE, !.big = 0, !.mem = <<>>, !.r = 0, !.w = 0], rd[c].big)

Next ==
  \E c \in Conn :
    \/ \E n \in 1 .. MaxData[c] + 1 : Peek(c, n) \/ Read(c, n) \/ Discard(c, n)
    \/ Fill(c) \/ Release(c) \/ PeekDone(c) \/ EnsureRoom(c) \/ EnsureGrows(c) \/ GrowReleases(c)
    \/ \E k \in 0 .. MaxData[c], err \in {"nil", "EOF"} : ReadOnce(c, k, err)
    \/ ReadSticky(c) \/ ReadInvalid(c) \/ ReadNoProgress(c)

Spec == Init /\ [][Next]_vars
-----------------------------------------------------------------------------
\* The buffered bytes are the next bytes of the source, none lost, repeated or
\* out of order, however often the Reader compacted, grew, was refused a buffer
\* or went back to its idle buffer.
BufferedIsNext ==
  \A c \in Conn : LET x == rd[c] IN
    ~x.done => Buffered(x) = [i \in 1 .. x.got - x.eaten |-> x.eaten + i]

\* The budget is charged for exactly the capacity of what the Readers hold (each
\* a buffer that holds its data) and a released Reader holds nothing.
BudgetExact ==
  /\ used = SumFunction([c \in Conn |-> rd[c].big + rd[c].old])
  /\ \A c \in Conn : LET x == rd[c] IN
       /\ x.big # 0 => x.big >= Len(x.mem)
       /\ x.big = 0 /\ ~x.done => Len(x.mem) = IdleSize
       /\ x.at # "free" => x.old = 0

\* Every read from the source has room for a byte, so that a Peek makes progress
\* and io.ErrNoProgress is the source's fault; and the room is inside a buffer of
\* at most Max bytes, whatever class it was rounded up to.
RoomToRead ==
  \A c \in Conn : LET x == rd[c] IN
    /\ x.r <= x.w /\ x.w <= Len(x.mem) /\ Len(x.mem) <= x.max
    /\ x.at = "read" => x.w < Len(x.mem)

\* ErrTooLarge is returned only if more than Max bytes would have to be buffered,
\* however the buffer's size was rounded to a class.
TooLargeIsAboveMax ==
  \A c \in Conn : rd[c].tooLarge # 0 => rd[c].tooLarge > rd[c].max
=============================================================================
