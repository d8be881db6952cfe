------------------------- MODULE StreamReaderProofs --------------------------
(* What the Readers of a pool promise, for any number of them, any sizes and any *)
(* classes: every step preserves the invariant, which gives the properties.      *)
EXTENDS StreamBufProofs

(* The steps *)

\* What the invariant says of one Reader.
LEMMA OfReader ==
  ASSUME Inv, NEW c \in Conn
  PROVE  /\ Core(c, rd[c]) /\ Under(rd[c]) /\ rd[c] \in Reader /\ rd[c].big \in Nat /\ rd[c].old \in Nat /\ used \in Int
<1>1. \A e \in Conn : Core(e, rd[e]) /\ Under(rd[e]) /\ rd[e] \in Reader
  BY DEF Inv, Core
<1>2. \A e \in Conn : rd[e].big \in Nat /\ rd[e].old \in Nat
  BY <1>1, Fields
<1>3. Held \in [Conn -> Int] /\ IsFiniteSet(Conn)
  BY <1>2, ReaderAssumption DEF Held
<1>4. SumFunction(Held) \in Int
  BY <1>3, SumChanges, Zenon
<1> QED BY <1>1, <1>2, <1>4 DEF Inv

\* A step that holds what it held.
LEMMA StepBecomes ==
  ASSUME Inv, NEW c \in Conn, NEW y, Core(c, y), Under(y), Becomes(c, y), y.big = rd[c].big, y.old = rd[c].old
  PROVE  Inv'
<1>1. used' = used + ((y.big + y.old) - (rd[c].big + rd[c].old)) /\ rd' = [rd EXCEPT ![c] = y]
  BY OfReader DEF Becomes
<1>2. used' <= MaxUnits
  BY DEF Becomes, Inv
<1> QED BY <1>1, <1>2, Step, Zenon

\* A step that gives back n.
LEMMA StepRefunds ==
  ASSUME Inv, NEW c \in Conn, NEW y, NEW n, n \in Nat, Core(c, y), Under(y), Refunds(c, y, n),
         y.big \in Nat, y.old \in Nat, y.big + y.old = rd[c].big + rd[c].old - n
  PROVE  Inv'
<1>1. used' = used + ((y.big + y.old) - (rd[c].big + rd[c].old)) /\ rd' = [rd EXCEPT ![c] = y]
  BY OfReader DEF Refunds
<1>2. used' <= MaxUnits
  BY OfReader, ReaderAssumption DEF Refunds, Inv
<1> QED BY <1>1, <1>2, Step, Zenon

\* What Discard gives back is a buffer or nothing.
LEMMA RefundIs == ASSUME NEW x \in Reader, NEW k PROVE DiscardRefund(x, k) \in Nat
  BY Fields DEF DiscardRefund

\* Discard as the last step of a call, and as a call of its own.
LEMMA DiscardInv ==
  ASSUME Inv, NEW c \in Conn, NEW x, NEW k, k \in Nat, k <= BufLen(x), Core(c, x), x.old = 0,
         x.big = rd[c].big, rd[c].old = 0, Refunds(c, Return(Discarded(x, k)), DiscardRefund(x, k))
  PROVE  Inv'
<1> DEFINE y == Discarded(x, k)
           d == DiscardRefund(x, k)
<1>1. Core(c, y) /\ SameCall(x, y) /\ y.big = x.big - d
  BY DiscardedKeeps
<1>2. d \in Nat
  BY RefundIs DEF Core
<1>3. y.old = 0 /\ y \in Reader /\ y.big \in Nat
  BY <1>1, Fields DEF SameCall, Core
<1> HIDE DEF y, d
<1>4. Core(c, Return(y)) /\ Under(Return(y)) /\ Return(y).big = y.big /\ Return(y).old = 0
  BY <1>1, <1>3, ReturnKeeps
<1>5. Refunds(c, Return(y), d)
  BY DEF y, d
<1>6. Return(y).big \in Nat /\ Return(y).old \in Nat /\ Return(y).big + Return(y).old = rd[c].big + rd[c].old - d
  BY <1>1, <1>2, <1>3, <1>4, OfReader
<1> QED BY <1>2, <1>4, <1>5, <1>6, StepRefunds

\* A call that begins and returns at once, fails with ErrTooLarge, or goes on.
LEMMA BeginInv ==
  ASSUME Inv, NEW c \in Conn, Idle(c), NEW op \in {"Peek", "Fill"}, NEW n, n \in Nat, 1 <= n,
         op = "Fill" => n = BufLen(rd[c]) + 1,
         Becomes(c, LET x == Begun(rd[c], op, n, "loop") IN
                    IF x.done THEN Return(x) ELSE IF n > x.max THEN ErrTooLarge(x) ELSE x)
  PROVE  Inv'
<1> DEFINE x == Begun(rd[c], op, n, "loop")
<1>1. Core(c, rd[c]) /\ rd[c].old = 0 /\ op \in Ops /\ "loop" \in Ats
  BY OfReader DEF Idle, Under, Ops, Ats
<1>2. Core(c, x) /\ SameBuf(rd[c], x) /\ x.op = op /\ x.n = n /\ x.at = "loop" /\ x.old = rd[c].old
  BY <1>1, CallKeeps
<1>0. Becomes(c, IF x.done THEN Return(x) ELSE IF n > x.max THEN ErrTooLarge(x) ELSE x)
  OBVIOUS
<1> HIDE DEF x
<1>3. x.big = rd[c].big /\ BufLen(x) = BufLen(rd[c]) /\ x.old = 0
  BY <1>1, <1>2 DEF SameBuf, BufLen
<1>4. CASE x.done
  <2>1. Becomes(c, Return(x))
    BY <1>0, <1>4
  <2>2. Core(c, Return(x)) /\ Under(Return(x)) /\ Return(x).big = x.big /\ Return(x).old = 0
    BY <1>2, <1>3, ReturnKeeps
  <2> QED BY <1>1, <1>3, <2>1, <2>2, StepBecomes
<1>5. CASE ~x.done /\ n > x.max
  <2>1. Becomes(c, ErrTooLarge(x))
    BY <1>0, <1>5
  <2>2. Core(c, ErrTooLarge(x)) /\ Under(ErrTooLarge(x)) /\ ErrTooLarge(x).big = x.big /\ ErrTooLarge(x).old = 0
    BY <1>2, <1>3, <1>5, TooLargeKeeps, SMTT(30)
  <2> QED BY <1>1, <1>3, <2>1, <2>2, StepBecomes
<1>6. CASE ~x.done /\ ~(n > x.max)
  <2>1. Becomes(c, x)
    BY <1>0, <1>6
  <2>2. x.max \in Nat
    BY <1>2, Fields DEF Core
  <2>3. Under(x)
    BY <1>2, <1>3, <1>6, <2>2, SMTT(30) DEF Under
  <2> QED BY <1>1, <1>2, <1>3, <2>1, <2>3, StepBecomes, SMTT(30)
<1> QED BY <1>4, <1>5, <1>6

\* Peek begins.
LEMMA PeekInv == ASSUME Inv, NEW c \in Conn, NEW n \in 1 .. MaxData[c] + 1, Peek(c, n) PROVE Inv'
<1>1. n \in Nat /\ 1 <= n
  BY ReaderAssumption
<1>2. /\ Idle(c)
      /\ Becomes(c, LET x == Begun(rd[c], "Peek", n, "loop") IN
                    IF x.done THEN Return(x) ELSE IF n > x.max THEN ErrTooLarge(x) ELSE x)
  BY DEF Peek, Calls, Begun
<1> QED BY <1>1, <1>2, BeginInv

\* Fill begins, for one byte more than is buffered.
LEMMA FillInv == ASSUME Inv, NEW c \in Conn, Fill(c) PROVE Inv'
<1> DEFINE n == BufLen(rd[c]) + 1
<1>1. n \in Nat /\ 1 <= n
  <2>1. rd[c].w \in Nat /\ rd[c].r \in Nat /\ rd[c].r <= rd[c].w
    BY OfReader, Fields DEF Core, Live, Dead
  <2> QED BY <2>1 DEF BufLen
<1>2. Begun(rd[c], "Fill", n, "loop").n = n
  BY OfReader DEF Begun, Reader
<1>3. /\ Idle(c)
      /\ Becomes(c, LET x == Begun(rd[c], "Fill", n, "loop") IN
                    IF x.done THEN Return(x) ELSE IF x.n > x.max THEN ErrTooLarge(x) ELSE x)
  BY DEF Fill, Calls, Begun
<1>4. Becomes(c, LET x == Begun(rd[c], "Fill", n, "loop") IN
                    IF x.done THEN Return(x) ELSE IF n > x.max THEN ErrTooLarge(x) ELSE x)
  BY <1>2, <1>3
<1> QED BY <1>1, <1>3, <1>4, BeginInv

\* A call goes on at another place.
LEMMA MovesKeeps ==
  ASSUME NEW c \in Conn, NEW x, Core(c, x), NEW at \in Ats
  PROVE  LET y == [x EXCEPT !.at = at] IN
         Core(c, y) /\ SameBuf(x, y) /\ y.op = x.op /\ y.n = x.n /\ y.at = at /\ y.old = x.old
<1> DEFINE y == [x EXCEPT !.at = at]
<1>1. y \in Reader /\ SameBuf(x, y) /\ y.op = x.op /\ y.n = x.n /\ y.at = at /\ y.tooLarge = x.tooLarge /\ y.old = x.old
  <2>1. x \in Reader
    BY DEF Core
  <2>2. y \in Reader
    BY <2>1, Zenon DEF Reader
  <2>3. SameBuf(x, y) /\ y.op = x.op /\ y.n = x.n /\ y.at = at /\ y.tooLarge = x.tooLarge /\ y.old = x.old
    BY <2>1 DEF Reader, SameBuf
  <2> QED BY <2>2, <2>3
<1> HIDE DEF y
<1>2. y.tooLarge # 0 => y.tooLarge > y.max
  BY <1>1 DEF Core, SameBuf
<1>3. Core(c, y)
  BY <1>1, <1>2, SameCore
<1> QED BY <1>1, <1>3 DEF y

\* A call under way that returns without having changed anything.
LEMMA ReturnInv ==
  ASSUME Inv, NEW c \in Conn, rd[c].old = 0, Becomes(c, Return(rd[c]))
  PROVE  Inv'
<1>1. Core(c, rd[c])
  BY OfReader
<1>2. Core(c, Return(rd[c])) /\ Under(Return(rd[c])) /\ Return(rd[c]).big = rd[c].big /\ Return(rd[c]).old = 0
  BY <1>1, ReturnKeeps
<1> QED BY <1>2, StepBecomes

\* Peek has enough.
LEMMA PeekDoneInv == ASSUME Inv, NEW c \in Conn, PeekDone(c) PROVE Inv'
<1>1. rd[c].old = 0 /\ Becomes(c, Return(rd[c]))
  BY OfReader DEF PeekDone, Under
<1> QED BY <1>1, ReturnInv

\* readOnce returns the earlier error.
LEMMA ReadStickyInv == ASSUME Inv, NEW c \in Conn, ReadSticky(c) PROVE Inv'
<1>1. rd[c].old = 0 /\ Becomes(c, Return(rd[c]))
  BY OfReader DEF ReadSticky, Under
<1> QED BY <1>1, ReturnInv

\* readOnce gives up on a source that returns nothing.
LEMMA ReadNoProgressInv == ASSUME Inv, NEW c \in Conn, ReadNoProgress(c) PROVE Inv'
<1>1. rd[c].old = 0 /\ Becomes(c, Return(rd[c]))
  BY OfReader DEF ReadNoProgress, Under
<1> QED BY <1>1, ReturnInv

\* readOnce keeps the error of an invalid count.
LEMMA ReadInvalidInv == ASSUME Inv, NEW c \in Conn, ReadInvalid(c) PROVE Inv'
<1> DEFINE x == rd[c]
           y == [x EXCEPT !.err = "EOF"]
<1>1. Core(c, x) /\ x \in Reader /\ x.old = 0 /\ Becomes(c, Return(y))
  BY OfReader DEF ReadInvalid, Under
<1> HIDE DEF x
<1>2. y \in Reader
  BY <1>1, Zenon DEF Reader
<1>3. SameBuf(x, y) /\ y.tooLarge = x.tooLarge /\ y.old = x.old
  BY <1>1 DEF Reader, SameBuf
<1> HIDE DEF y
<1>4. Core(c, y) /\ y.big = x.big
  <2>1. y.tooLarge # 0 => y.tooLarge > y.max
    BY <1>1, <1>3 DEF Core, SameBuf
  <2> QED BY <1>1, <1>2, <1>3, <2>1, SameCore, SMTT(30) DEF SameBuf
<1>5. Core(c, Return(y)) /\ Under(Return(y)) /\ Return(y).big = y.big /\ Return(y).old = 0
  BY <1>1, <1>3, <1>4, ReturnKeeps, SMTT(30)
<1> QED BY <1>1, <1>4, <1>5, StepBecomes DEF x

\* ensure has room, perhaps after it compacted.
LEMMA EnsureRoomInv == ASSUME Inv, NEW c \in Conn, EnsureRoom(c) PROVE Inv'
<1> DEFINE x == rd[c]
           z == Prepared(x, x.n)
           y == [z EXCEPT !.at = "read"]
<1>1. /\ Core(c, x) /\ ~x.done /\ x.n \in Nat /\ x.old = 0 /\ x.op \in {"Peek", "Fill"} /\ 1 <= x.n /\ x.n <= x.max
      /\ HasRoom(x, x.n) /\ Becomes(c, y)
  BY OfReader, Fields DEF EnsureRoom, Ensuring, Under
<1> HIDE DEF x
<1>2. /\ Core(c, z) /\ SameCall(x, z) /\ z.big = x.big /\ z.max = x.max /\ z.done = x.done /\ z.w < Len(z.mem)
  BY <1>1, PreparedKeeps
<1> HIDE DEF z
<1>3. Core(c, y) /\ SameBuf(z, y) /\ y.op = z.op /\ y.n = z.n /\ y.at = "read" /\ y.old = z.old
  <2>1. "read" \in Ats
    BY DEF Ats
  <2> QED BY <1>2, <2>1, MovesKeeps
<1> HIDE DEF y
<1>4. y.big = x.big /\ y.old = 0 /\ y.max = x.max /\ ~y.done /\ y.op = x.op /\ y.n = x.n
  BY <1>1, <1>2, <1>3 DEF SameBuf, SameCall
<1>5. y.w < Len(y.mem)
  BY <1>2, <1>3, Zenon DEF SameBuf
<1>6. Under(y)
  BY <1>1, <1>3, <1>4, <1>5 DEF Under
<1> QED BY <1>1, <1>3, <1>4, <1>6, StepBecomes, SMTT(30) DEF x

\* ensure grows the buffer only if it is smaller than what is asked for.
LEMMA NoRoom ==
  ASSUME NEW x \in Reader, Live(x), BufLen(x) < x.n, ~HasRoom(x, x.n)
  PROVE  Len(x.mem) < x.n
<1> DEFINE len == Len(x.mem)
           r == x.r
           w == x.w
           n == x.n
<1>1. len \in Nat /\ r \in Nat /\ w \in Nat /\ n \in Nat
  BY Fields
<1>2. r <= w /\ w <= len /\ w - r < n
  BY DEF Live, BufLen
<1>3. /\ ~(len >= n /\ w < len /\ len - r >= n)
      /\ ~(len >= n /\ r > 0 /\ w - r < len)
  BY DEF HasRoom, Fits, BufLen
<1> HIDE DEF len, r, w, n
<1>4. len < n
  BY <1>1, <1>2, <1>3
<1> QED BY <1>4 DEF len, n

\* The size that grow asks for is larger than the buffer and at most Max.
LEMMA GrowSizeIs ==
  ASSUME NEW x \in Reader, Len(x.mem) < x.n, x.n <= x.max
  PROVE  LET size == GrowSize(x, Need(x, x.n)) IN size \in Nat /\ size > Len(x.mem) /\ size <= x.max
<1> DEFINE len == Len(x.mem)
           n == x.n
           max == x.max
           m == Max({n, len + 1})
           size == Min({Capacity(m), max})
<1>1. len \in Nat /\ n \in Nat /\ max \in Nat /\ len < n /\ n <= max
  BY Fields
<1>2. GrowSize(x, Need(x, x.n)) = size
  BY DEF GrowSize, Need
<1> HIDE DEF len, n, max
<1>3. m \in Nat \ {0} /\ m >= n
  <2> DEFINE k == len + 1
  <2>1. n \in Int /\ k \in Int
    BY <1>1
  <2> HIDE DEF k
  <2>2. Max({n, k}) \in {n, k} /\ Max({n, k}) >= n
    BY <2>1, MaxOf, Zenon
  <2> QED BY <1>1, <2>1, <2>2 DEF k
<1> HIDE DEF m
<1>4. Capacity(m) \in Nat /\ Capacity(m) >= m
  BY <1>3, CapacityFits
<1>5. size \in {Capacity(m), max} /\ size <= max
  <2>1. max \in Int /\ Capacity(m) \in Int
    BY <1>1, <1>4
  <2> QED BY <2>1, MinOf, Zenon
<1> HIDE DEF size
<1>6. size \in Nat /\ size > len /\ size <= max
  BY <1>1, <1>3, <1>4, <1>5, SMTT(30)
<1> QED BY <1>2, <1>6 DEF len, max

\* ensure grows the buffer, or the budget refuses; it never ends in ErrTooLarge.
LEMMA EnsureGrowsInv == ASSUME Inv, NEW c \in Conn, EnsureGrows(c) PROVE Inv'
<1> DEFINE x == rd[c]
           z == Prepared(x, x.n)
           size == GrowSize(z, Need(z, z.n))
           y == [Grown(z, size) EXCEPT !.at = "free"]
<1>1. /\ Core(c, x) /\ x \in Reader /\ ~x.done /\ x.n \in Nat /\ x.old = 0 /\ x.op \in {"Peek", "Fill"}
      /\ 1 <= x.n /\ x.n <= x.max /\ x.at = "loop" /\ (x.op = "Fill" => x.n = BufLen(x) + 1)
      /\ (x.op = "Peek" => ~Enough(x)) /\ ~HasRoom(x, x.n) /\ x.big \in Nat
  BY OfReader, Fields, SMTT(30) DEF EnsureGrows, Ensuring, Under
<1>2. \/ size <= Len(z.mem) /\ Becomes(c, ErrTooLarge(z))
      \/ Becomes(c, Return(z))
      \/ rd' = [rd EXCEPT ![c] = y] /\ used' = used + Charge(size) /\ ~(used + Charge(size) > MaxUnits)
  BY DEF EnsureGrows
<1>3. z = x
  BY <1>1, PreparedKeeps
<1>4. BufLen(x) < x.n
  <2>1. BufLen(x) \in Int
    BY <1>1, Fields DEF BufLen
  <2> QED BY <1>1, <2>1 DEF Enough
<1>5. Len(x.mem) < x.n
  BY <1>1, <1>4, NoRoom, SMTT(30) DEF Core
<1>6. size \in Nat /\ size > Len(x.mem) /\ size <= x.max
  BY <1>1, <1>3, <1>5, GrowSizeIs, SMTT(30)
<1> HIDE DEF size
<1>7. ~(size <= Len(z.mem))
  BY <1>1, <1>3, <1>6, Fields, SMTT(30)
<1>8. CASE Becomes(c, Return(z))
  BY <1>1, <1>3, <1>8, ReturnInv, SMTT(30)
<1>9. CASE rd' = [rd EXCEPT ![c] = y] /\ used' = used + Charge(size) /\ ~(used + Charge(size) > MaxUnits)
  <2>1. Core(c, y) /\ Under(y) /\ y.big = Capacity(size) /\ y.old = x.big
    BY <1>1, <1>3, <1>6, GrownKeeps, Zenon
  <2>2. y \in Reader /\ Capacity(size) \in Nat
    BY <2>1, Fields, Zenon DEF Core
  <2> HIDE DEF y
  <2>3. used' = used + ((y.big + y.old) - (rd[c].big + rd[c].old))
    BY <1>1, <1>9, <2>1, <2>2, OfReader DEF Charge
  <2>4. used' <= MaxUnits
    BY <1>9, <2>2, OfReader, ReaderAssumption, SMTT(30) DEF Charge
  <2> QED BY <1>9, <2>1, <2>3, <2>4, Step, Zenon
<1> QED BY <1>2, <1>7, <1>8, <1>9, SMTT(30)

\* grow gives back the buffer it replaced.
LEMMA GrowReleasesInv == ASSUME Inv, NEW c \in Conn, GrowReleases(c) PROVE Inv'
<1> DEFINE x == rd[c]
           y == [x EXCEPT !.at = "read", !.old = 0]
<1>1. /\ Core(c, x) /\ x \in Reader /\ x.op \in {"Peek", "Fill"} /\ 1 <= x.n /\ x.n <= x.max /\ ~x.done
      /\ x.big \in Nat /\ x.old \in Nat /\ Refunds(c, y, x.old)
  BY OfReader DEF GrowReleases, Under
<1>2. x.w < Len(x.mem)
  BY OfReader DEF GrowReleases, Under
<1> HIDE DEF x
<1>3. y \in Reader
  BY <1>1, Zenon DEF Reader, Ats
<1>4. SameBuf(x, y) /\ y.tooLarge = x.tooLarge /\ y.old = 0 /\ y.op = x.op /\ y.n = x.n /\ y.at = "read"
  BY <1>1 DEF Reader, SameBuf
<1> HIDE DEF y
<1>5. Core(c, y)
  <2>1. y.tooLarge # 0 => y.tooLarge > y.max
    BY <1>1, <1>4 DEF Core, SameBuf
  <2> QED BY <1>1, <1>3, <1>4, <2>1, SameCore, SMTT(30)
<1>6. y.max = x.max /\ y.done = x.done /\ y.big = x.big
  BY <1>4 DEF SameBuf
<1>7. y.w < Len(y.mem)
  BY <1>2, <1>4, Zenon DEF SameBuf
<1>8. Under(y)
  BY <1>1, <1>4, <1>6, <1>7, SMTT(30) DEF Under
<1>9. y.big + y.old = rd[c].big + rd[c].old - x.old /\ y.big \in Nat /\ y.old \in Nat
  BY <1>1, <1>4, <1>6 DEF x
<1> QED BY <1>1, <1>5, <1>8, <1>9, StepRefunds, SMTT(30)

\* The smaller of what is asked for and what is buffered.
LEMMA Part ==
  ASSUME NEW c \in Conn, NEW x, Core(c, x), NEW n, n \in Nat
  PROVE  LET k == Min({n, BufLen(x)}) IN k \in Nat /\ k <= BufLen(x) /\ BufLen(x) \in Nat
<1> DEFINE b == BufLen(x)
<1>1. b \in Nat
  <2>1. x.r \in Nat /\ x.w \in Nat /\ x.r <= x.w
    BY Fields DEF Core, Live, Dead
  <2> QED BY <2>1 DEF BufLen
<1> HIDE DEF b
<1>2. n \in Int /\ b \in Int
  BY <1>1
<1>3. Min({n, b}) \in {n, b} /\ Min({n, b}) <= b
  BY <1>2, MinOf, Zenon
<1>4. Min({n, b}) \in Nat
  BY <1>1, <1>3
<1> QED BY <1>1, <1>3, <1>4 DEF b

\* Read begins, and ends at once if there is buffered data.
LEMMA ReadInv == ASSUME Inv, NEW c \in Conn, NEW n \in 1 .. MaxData[c] + 1, Read(c, n) PROVE Inv'
<1> DEFINE x == Begun(rd[c], "Read", n, "read")
           k == Min({n, BufLen(x)})
<1>1. Core(c, rd[c]) /\ rd[c].old = 0 /\ n \in Nat
  BY OfReader, ReaderAssumption DEF Read, Idle, Under
<1>2. Core(c, x) /\ SameBuf(rd[c], x) /\ x.op = "Read" /\ x.n = n /\ x.at = "read" /\ x.old = rd[c].old
  <2>1. "Read" \in Ops /\ "read" \in Ats
    BY DEF Ops, Ats
  <2> QED BY <1>1, <2>1, CallKeeps
<1>3. \/ x.done /\ Becomes(c, Return(x))
      \/ ~x.done /\ BufLen(x) = 0 /\ Becomes(c, x)
      \/ Refunds(c, Return(Discarded(x, k)), DiscardRefund(x, k))
  BY DEF Read, Calls, Begun
<1> HIDE DEF x
<1>4. k \in Nat /\ k <= BufLen(x)
  BY <1>1, <1>2, Part
<1> HIDE DEF k
<1>5. x.big = rd[c].big /\ x.old = 0
  BY <1>1, <1>2 DEF SameBuf
<1>6. CASE x.done /\ Becomes(c, Return(x))
  <2>1. Core(c, Return(x)) /\ Under(Return(x)) /\ Return(x).big = x.big /\ Return(x).old = 0
    BY <1>2, <1>5, ReturnKeeps
  <2> QED BY <1>1, <1>5, <1>6, <2>1, StepBecomes
<1>7. CASE ~x.done /\ BufLen(x) = 0 /\ Becomes(c, x)
  <2>1. x.w < Len(x.mem)
    <3> DEFINE len == Len(x.mem)
    <3>1. x.r \in Nat /\ x.w \in Nat /\ (x.r = x.w => x.w = 0) /\ x.w - x.r = 0
      BY <1>2, <1>7, Fields DEF Core, Live, BufLen
    <3>2. x.w = 0
      BY <3>1
    <3>3. len \in Nat /\ 1 <= len
      BY <1>2, <1>7, Fields DEF Core, Live
    <3> HIDE DEF len
    <3>4. x.w < len
      BY <3>2, <3>3
    <3> QED BY <3>4 DEF len
  <2>2. Under(x)
    BY <1>2, <1>5, <1>7, <2>1, SMTT(30) DEF Under
  <2> QED BY <1>1, <1>2, <1>5, <1>7, <2>2, StepBecomes, SMTT(30)
<1>8. CASE Refunds(c, Return(Discarded(x, k)), DiscardRefund(x, k))
  BY <1>1, <1>2, <1>4, <1>5, <1>8, DiscardInv, SMTT(30)
<1> QED BY <1>3, <1>6, <1>7, <1>8, SMTT(30)

\* The source returns data, an error or both, and the call goes on or returns.
LEMMA ReadOnceInv ==
  ASSUME Inv, NEW c \in Conn, NEW k \in 0 .. MaxData[c], NEW err \in {"nil", "EOF"}, ReadOnce(c, k, err)
  PROVE  Inv'
<1> DEFINE x == rd[c]
           y == Filled(x, k, err)
           m == Min({y.n, BufLen(y)})
<1>1. /\ Core(c, x) /\ ~x.done /\ x.old = 0 /\ x.op \in {"Peek", "Fill", "Read"} /\ k \in Nat
      /\ x.op \in {"Peek", "Fill"} => 1 <= x.n /\ x.n <= x.max
  BY OfReader, ReaderAssumption, SMTT(30) DEF ReadOnce, Under
<1>2. x.w + k <= Len(x.mem)
  BY DEF ReadOnce
<1>3. \/ y.op = "Peek" /\ Becomes(c, [y EXCEPT !.at = "loop"])
      \/ Becomes(c, Return(y))
      \/ Refunds(c, Return(Discarded(y, m)), DiscardRefund(y, m))
  <2>1. y.op = x.op
    BY <1>1, <1>2, FilledKeeps DEF SameCall
  <2> HIDE DEF y
  <2>2. Continue(c, y) \/ Becomes(c, Return(y))
    BY DEF ReadOnce, y
  <2> QED BY <1>1, <2>1, <2>2, ZenonT(30) DEF Continue
<1>4. Core(c, y) /\ SameCall(x, y) /\ y.big = x.big /\ y.max = x.max /\ y.done = x.done
  BY <1>1, <1>2, FilledKeeps
<1> HIDE DEF y
<1>5. y.old = 0 /\ y.n \in Nat /\ y.op = x.op /\ y.n = x.n
  BY <1>1, <1>4, Fields, SMTT(30) DEF SameCall, Core
<1>6. m \in Nat /\ m <= BufLen(y)
  BY <1>4, <1>5, Part, SMTT(30)
<1> HIDE DEF m
<1>7. CASE y.op = "Peek" /\ Becomes(c, [y EXCEPT !.at = "loop"])
  <2> DEFINE z == [y EXCEPT !.at = "loop"]
  <2>1. Core(c, z) /\ SameBuf(y, z) /\ z.op = y.op /\ z.n = y.n /\ z.at = "loop" /\ z.old = y.old
    <3>1. "loop" \in Ats
      BY DEF Ats
    <3> QED BY <1>4, <3>1, MovesKeeps
  <2>2. Becomes(c, z)
    BY <1>7
  <2> HIDE DEF z
  <2>3. z.big = x.big /\ z.old = 0 /\ ~z.done /\ z.max = x.max
    BY <1>1, <1>4, <1>5, <2>1 DEF SameBuf
  <2>4. Under(z)
    BY <1>1, <1>5, <1>7, <2>1, <2>3 DEF Under
  <2> QED BY <1>1, <2>1, <2>2, <2>3, <2>4, StepBecomes, SMTT(30)
<1>8. CASE Becomes(c, Return(y))
  <2>1. Core(c, Return(y)) /\ Under(Return(y)) /\ Return(y).big = y.big /\ Return(y).old = 0
    BY <1>4, <1>5, ReturnKeeps
  <2> QED BY <1>1, <1>4, <1>8, <2>1, StepBecomes
<1>9. CASE Refunds(c, Return(Discarded(y, m)), DiscardRefund(y, m))
  BY <1>1, <1>4, <1>5, <1>6, <1>9, DiscardInv, SMTT(30)
<1> QED BY <1>3, <1>7, <1>8, <1>9, SMTT(30)

\* Discard.
LEMMA DiscardCallInv == ASSUME Inv, NEW c \in Conn, NEW n \in 1 .. MaxData[c] + 1, Discard(c, n) PROVE Inv'
<1> DEFINE x == rd[c]
           k == Min({n, BufLen(x)})
           y == Discarded(x, k)
           d == DiscardRefund(x, k)
<1>1. Core(c, x) /\ x \in Reader /\ x.old = 0 /\ x.at = "idle" /\ n \in Nat /\ Refunds(c, y, d)
  BY OfReader, ReaderAssumption DEF Discard, Idle, Under
<1> HIDE DEF x
<1>2. k \in Nat /\ k <= BufLen(x)
  BY <1>1, Part
<1> HIDE DEF k
<1>3. Core(c, y) /\ SameCall(x, y) /\ y.big = x.big - d
  BY <1>1, <1>2, DiscardedKeeps
<1>4. d \in Nat
  BY <1>1, RefundIs
<1> HIDE DEF y, d
<1>5. y.old = 0 /\ y.at = "idle" /\ y.big \in Nat
  BY <1>1, <1>3, Fields DEF SameCall, Core
<1>6. Under(y)
  BY <1>5 DEF Under
<1>7. y.big + y.old = rd[c].big + rd[c].old - d /\ y.old \in Nat
  BY <1>1, <1>3, <1>4, <1>5, Fields, SMTT(30) DEF x
<1> QED BY <1>1, <1>3, <1>4, <1>5, <1>6, <1>7, StepRefunds, SMTT(30)

\* Release gives up the buffer.
LEMMA ReleaseInv == ASSUME Inv, NEW c \in Conn, Release(c) PROVE Inv'
<1> DEFINE x == rd[c]
           y == [x EXCEPT !.done = TRUE, !.big = 0, !.mem = <<>>, !.r = 0, !.w = 0]
<1>1. Core(c, x) /\ x \in Reader /\ x.old = 0 /\ x.at = "idle" /\ x.big \in Nat /\ Refunds(c, y, x.big)
  BY OfReader DEF Release, Idle, Under
<1> HIDE DEF x
<1>2. y \in Reader
  <2>1. <<>> \in Seq(Nat) /\ 0 \in Nat
    OBVIOUS
  <2> QED BY <1>1, <2>1, Zenon DEF Reader
<1>3. /\ y.done /\ y.big = 0 /\ y.mem = <<>> /\ y.r = 0 /\ y.w = 0 /\ y.old = x.old /\ y.at = x.at
      /\ y.max = x.max /\ y.tooLarge = x.tooLarge
  BY <1>1 DEF Reader
<1> HIDE DEF y
<1>4. Core(c, y)
  BY <1>1, <1>2, <1>3, SMTT(30) DEF Core, Dead
<1>5. Under(y)
  BY <1>1, <1>3 DEF Under
<1>6. y.big + y.old = rd[c].big + rd[c].old - x.big /\ y.big \in Nat /\ y.old \in Nat
  BY <1>1, <1>3 DEF x
<1> QED BY <1>1, <1>4, <1>5, <1>6, StepRefunds, SMTT(30)
-----------------------------------------------------------------------------
\* The Readers start with empty idle buffers and the pool with an unused budget.
LEMMA InitInv == Init => Inv
<1> SUFFICES ASSUME Init PROVE Inv
  OBVIOUS
<1>1. used = 0 /\ rd = [c \in Conn |-> NewReader(c)]
  BY DEF Init
<1>2. ASSUME NEW c \in Conn
      PROVE  Core(c, rd[c]) /\ Under(rd[c]) /\ rd[c].big = 0 /\ rd[c].old = 0
  <2> DEFINE x == NewReader(c)
             z == Zeros(IdleSize)
  <2>0. rd[c] = x
    BY <1>1
  <2>1. z \in Seq(Nat) /\ Len(z) = IdleSize
    BY ZerosIs, ReaderAssumption
  <2> HIDE DEF z
  <2>2. MaxData[c] \in Nat /\ IdleSize <= MaxData[c] /\ IdleSize \in Nat /\ 1 <= IdleSize
    BY ReaderAssumption
  <2>3. /\ x.max = MaxData[c] /\ x.mem = z /\ x.r = 0 /\ x.w = 0 /\ x.got = 0 /\ x.eaten = 0 /\ x.big = 0 /\ x.old = 0
        /\ x.at = "idle" /\ x.tooLarge = 0 /\ x.done = FALSE
    BY DEF NewReader, z
  <2>4. x \in Reader
    BY <2>1, <2>2 DEF NewReader, z, Reader, Ats, Ops
  <2> HIDE DEF x
  <2>5. 1 <= Len(x.mem) /\ Len(x.mem) <= x.max /\ Len(x.mem) = IdleSize /\ x.w <= Len(x.mem)
    <3>1. Len(x.mem) = IdleSize
      BY <2>1, <2>3, Zenon
    <3> QED BY <2>2, <2>3, <3>1
  <2>6. Live(x)
    BY <2>3, <2>5 DEF Live
  <2>7. Core(c, x) /\ Under(x)
    BY <2>3, <2>4, <2>6 DEF Core, Under
  <2> QED BY <2>0, <2>3, <2>7
<1>3. Held = [c \in Conn |-> 0]
  BY <1>2 DEF Held
<1>4. SumFunction(Held) = 0
  BY <1>3, SumOfZeros, ReaderAssumption, Zenon
<1>5. DOMAIN rd = Conn /\ rd = [c \in Conn |-> rd[c]]
  BY <1>1
<1>6. used <= MaxUnits
  BY <1>1, ReaderAssumption
<1> QED BY <1>1, <1>2, <1>4, <1>5, <1>6, SMTT(30) DEF Inv

\* Every step of every Reader preserves the invariant.
LEMMA NextInv == Inv /\ [Next]_vars => Inv'
<1> SUFFICES ASSUME Inv, [Next]_vars PROVE Inv'
  BY SMTT(30)
<1>1. CASE UNCHANGED vars
  <2>1. rd' = rd /\ used' = used
    BY <1>1 DEF vars
  <2> QED BY <2>1 DEF Inv, Core, Under, Live, Dead, BufLen, Held
<1>2. ASSUME NEW c \in Conn, NEW n \in 1 .. MaxData[c] + 1, Peek(c, n) \/ Read(c, n) \/ Discard(c, n)
      PROVE  Inv'
  BY <1>2, PeekInv, ReadInv, DiscardCallInv, SMTT(30)
<1>3. ASSUME NEW c \in Conn,
             Fill(c) \/ Release(c) \/ PeekDone(c) \/ EnsureRoom(c) \/ EnsureGrows(c) \/ GrowReleases(c)
      PROVE  Inv'
  BY <1>3, FillInv, ReleaseInv, PeekDoneInv, EnsureRoomInv, EnsureGrowsInv, GrowReleasesInv, SMTT(30)
<1>4. ASSUME NEW c \in Conn, NEW k \in 0 .. MaxData[c], NEW err \in {"nil", "EOF"}, ReadOnce(c, k, err)
      PROVE  Inv'
  BY <1>4, ReadOnceInv
<1>5. ASSUME NEW c \in Conn, ReadSticky(c) \/ ReadInvalid(c) \/ ReadNoProgress(c)
      PROVE  Inv'
  BY <1>5, ReadStickyInv, ReadInvalidInv, ReadNoProgressInv
<1> QED BY <1>1, <1>2, <1>3, <1>4, <1>5, SMTT(30) DEF Next

\* The invariant holds in every reachable state.
THEOREM AlwaysInv == Spec => []Inv
  BY InitInv, NextInv, PTL DEF Spec

\* What a Reader has buffered is the next part of its source, byte for byte, for
\* any number of Readers, any sizes and any classes, and however ensure, grow,
\* Discard and refusals of the pool interleave.
THEOREM ReaderBytesAreNext == Spec => []BufferedIsNext
<1>1. Inv => BufferedIsNext
  <2> SUFFICES ASSUME Inv, NEW c \in Conn, ~rd[c].done
               PROVE  Buffered(rd[c]) = [i \in 1 .. rd[c].got - rd[c].eaten |-> rd[c].eaten + i]
    BY DEF BufferedIsNext
  <2> DEFINE x == rd[c]
             s == Buffered(x)
  <2>1. x \in Reader /\ Live(x)
    BY OfReader DEF Core
  <2> HIDE DEF x
  <2>2. /\ x.mem \in Seq(Nat) /\ x.r \in Nat /\ x.w \in Nat /\ x.r <= x.w /\ x.w <= Len(x.mem)
        /\ x.got \in Nat /\ x.eaten \in Nat
    BY <2>1, Fields DEF Live
  <2>3. s \in Seq(Nat) /\ Len(s) = x.w - x.r /\ \A i \in 1 .. x.w - x.r : s[i] = x.mem[x.r + i]
    BY <2>2, PartIs, Zenon DEF Buffered
  <2> HIDE DEF s
  <2>4. x.w - x.r = x.got - x.eaten /\ \A i \in 1 .. x.w - x.r : x.mem[x.r + i] = x.eaten + i
    BY <2>1 DEF Live
  <2>5. Len(s) = x.got - x.eaten /\ \A i \in 1 .. x.got - x.eaten : s[i] = x.eaten + i
    BY <2>3, <2>4, Zenon
  <2>6. s = [i \in 1 .. Len(s) |-> s[i]]
    BY <2>3
  <2>7. s = [i \in 1 .. x.got - x.eaten |-> x.eaten + i]
    BY <2>5, <2>6, Zenon
  <2> QED BY <2>7 DEF s, x
<1> QED BY <1>1, AlwaysInv, PTL

\* The shared budget is charged for exactly what the Readers hold at any moment, a
\* Reader between two buffers for both, and a released Reader for nothing.
THEOREM ReadersChargeWhatTheyHold == Spec => []BudgetExact
<1>1. Inv => BudgetExact
  <2> SUFFICES ASSUME Inv PROVE BudgetExact
    OBVIOUS
  <2>1. used = SumFunction([c \in Conn |-> rd[c].big + rd[c].old])
    BY SMTT(30) DEF Inv, Held
  <2>2. ASSUME NEW c \in Conn
        PROVE  LET x == rd[c] IN
               /\ x.big # 0 => x.big >= Len(x.mem)
               /\ x.big = 0 /\ ~x.done => Len(x.mem) = IdleSize
               /\ x.at # "free" => x.old = 0
    BY OfReader DEF Core, Live, Dead, Under
  <2> QED BY <2>1, <2>2 DEF BudgetExact
<1> QED BY <1>1, AlwaysInv, PTL

\* The Readers together never hold more than the budget, also while one of them has
\* two buffers.
THEOREM ReadersStayWithinBudget == Spec => [](used \in 0 .. MaxUnits)
<1>1. Inv => used \in 0 .. MaxUnits
  <2> SUFFICES ASSUME Inv PROVE used \in 0 .. MaxUnits
    OBVIOUS
  <2>1. \A c \in Conn : rd[c].big \in Nat /\ rd[c].old \in Nat
    BY OfReader
  <2>2. Held \in [Conn -> Nat] /\ IsFiniteSet(Conn)
    BY <2>1, ReaderAssumption DEF Held
  <2>3. SumFunction(Held) \in Nat
    BY <2>2, SumIsNat, Zenon
  <2> QED BY <2>3, ReaderAssumption DEF Inv
<1> QED BY <1>1, AlwaysInv, PTL

\* Whenever the source is read there is room for a byte inside a buffer of at most
\* Max bytes.
THEOREM ReadsHaveRoom == Spec => []RoomToRead
<1>1. Inv => RoomToRead
  <2> SUFFICES ASSUME Inv, NEW c \in Conn
               PROVE  LET x == rd[c] IN
                      /\ x.r <= x.w /\ x.w <= Len(x.mem) /\ Len(x.mem) <= x.max
                      /\ x.at = "read" => x.w < Len(x.mem)
    BY SMTT(30) DEF RoomToRead
  <2>1. CASE ~rd[c].done
    BY <2>1, OfReader, SMTT(30) DEF Core, Live, Under
  <2>2. CASE rd[c].done
    BY <2>2, OfReader, Fields, SMTT(30) DEF Core, Dead, Under
  <2> QED BY <2>1, <2>2
<1> QED BY <1>1, AlwaysInv, PTL

\* ErrTooLarge means that more than Max bytes were asked for, whatever classes the
\* pool has.
THEOREM ErrTooLargeIsAboveMax == Spec => []TooLargeIsAboveMax
<1>1. Inv => TooLargeIsAboveMax
  BY DEF Inv, Core, TooLargeIsAboveMax
<1> QED BY <1>1, AlwaysInv, PTL
=============================================================================
