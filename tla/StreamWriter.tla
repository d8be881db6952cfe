---------------------------- MODULE StreamWriter -----------------------------
(* stream.Writer (stream/writer.go) and the life of a buf.Buf (buf/buf.go):      *)
(* several Writers, each used by one goroutine, send buffers of one pool, which  *)
(* recycles them under the others' hands.  A byte is the message it belongs to   *)
(* and its offset; a message is <<its Writer, its number>>.                      *)
EXTENDS BufSizes, Sequences, FiniteSetsExt, SequencesExt

CONSTANTS
  Writer,   \* the Writers
  Buf,      \* the *Buf that may exist at a time, more than the budget can hand out
  Debug,    \* built with -tags netxdebug
  Sizes,    \* lengths of messages
  MaxUnits, \* the pool's budget
  MaxMsgs   \* bound on the messages of a Writer

VARIABLES
  used,  \* Budget.used
  bufs,  \* each Buf: where it is, cap(full), len(B) (0 when B is nil), the message in its memory, live
  wr     \* each Writer: held; arr, the backing array of vec, and len(vec); tmp, the first slice
         \* of the view that is being written (0: nil); size; and its goroutine: the call under way (at,
         \* i, k), the Buf in hand and its length n, messages made, and what the Flush owes and has sent

vars == <<used, bufs, wr>>

Poison == <<"poison", 0>>
NoBuf == [at |-> "none", cap |-> 0, len |-> 0, mem |-> Poison, live |-> FALSE]
NewWriter ==
  [held |-> <<>>, arr |-> <<>>, len |-> 0, tmp |-> 0, size |-> 0,
   at |-> "idle", i |-> 1, k |-> 1, hand |-> "nil", n |-> 0, made |-> 0, owed |-> <<>>, sent |-> <<>>, err |-> FALSE]

Init == used = 0 /\ bufs = [b \in Buf |-> NoBuf] /\ wr = [c \in Writer |-> NewWriter]

\* A slice of a Buf or of shared memory; entries of arr that are cleared are nil.
nil == [of |-> <<"nil", 0>>, lo |-> 0, hi |-> 0]
Bytes(msg, lo, hi) == [i \in 1 .. hi - lo |-> <<msg, lo + i>>]
\* What a Write of slice s takes from memory at this moment.
Content(s) == Bytes(IF s.of \in Buf THEN bufs[s.of].mem ELSE s.of, s.lo, s.hi)
SliceLen(s) == s.hi - s.lo

Becomes(c, x) == wr' = [wr EXCEPT ![c] = x]
-----------------------------------------------------------------------------
\* Pool.Copy: Get reserves the capacity, takes a Buf from the pool or a new one,
\* and Copy writes the message.
Reserve(c, n) ==
  LET x == wr[c] IN
  /\ x.at = "idle" /\ x.hand = "nil" /\ x.made < MaxMsgs
  /\ used + Capacity(n) <= MaxUnits
  /\ used' = used + Capacity(n) /\ Becomes(c, [x EXCEPT !.at = "take", !.n = n]) /\ UNCHANGED bufs

Take(c, b) ==
  LET x == wr[c] IN
  /\ x.at = "take"
  /\ \/ bufs[b].at = "none"
     \/ bufs[b].at = "pool" /\ classOf(x.n) >= 0 /\ bufs[b].cap = Capacity(x.n)
  /\ bufs' = [bufs EXCEPT ![b] = [@ EXCEPT !.at = "out", !.cap = Capacity(x.n), !.len = x.n, !.live = TRUE]]
  /\ Becomes(c, [x EXCEPT !.at = "copy", !.hand = b]) /\ UNCHANGED used

Copy(c) ==
  LET x == wr[c] IN
  /\ x.at = "copy"
  /\ bufs' = [bufs EXCEPT ![x.hand].mem = <<c, x.made + 1>>]
  /\ Becomes(c, [x EXCEPT !.at = "idle", !.made = @ + 1]) /\ UNCHANGED used

\* sync.Pool forgets what it holds when the garbage collector runs.
PoolDrops(b) == bufs[b].at = "pool" /\ bufs' = [bufs EXCEPT ![b] = NoBuf] /\ UNCHANGED <<used, wr>>
-----------------------------------------------------------------------------
\* The steps of Buf.Release, in order; the Buf is another goroutine's after Put.
PutFirst == <<"onRelease", "refund", "put", "nil">>                \* mutated form
ReleaseSteps == <<"onRelease", "refund", "nil", "put">>

Released(b, step) ==
  CASE step = "onRelease" -> [b EXCEPT !.live = FALSE, !.mem = IF Debug THEN Poison ELSE @]
    [] step = "refund" -> b
    [] step = "nil" -> [b EXCEPT !.len = 0]
    [] step = "put" -> IF b.cap > Large THEN NoBuf ELSE [b EXCEPT !.at = "pool"]

\* One step of the Release of Buf b by c; x is c after the last one.
ReleaseStep(c, b, x) ==
  LET step == ReleaseSteps[wr[c].k] IN
  /\ bufs' = [bufs EXCEPT ![b] = Released(@, step)]
  /\ used' = IF step = "refund" THEN used - bufs[b].cap ELSE used
  /\ Becomes(c, IF wr[c].k = Len(ReleaseSteps) THEN [x EXCEPT !.k = 1] ELSE [wr[c] EXCEPT !.k = @ + 1])

\* The caller releases a Buf that it did not pass on.
Release(c) == wr[c].at = "idle" /\ wr[c].hand # "nil" /\ Becomes(c, [wr[c] EXCEPT !.at = "release"]) /\ UNCHANGED <<used, bufs>>
Releasing(c) ==
  wr[c].at = "release" /\ ReleaseStep(c, wr[c].hand, [wr[c] EXCEPT !.at = "idle", !.hand = "nil"])
-----------------------------------------------------------------------------
\* append(w.vec, s), in place while the array has room.
Append1(x, s) ==
  [x EXCEPT !.arr = IF x.len < Len(@) THEN [@ EXCEPT ![x.len + 1] = s] ELSE Append(@, s),
            !.len = @ + 1, !.size = @ + SliceLen(s)]

Add(c) ==
  LET x == wr[c] IN
  /\ x.at = "idle" /\ x.hand # "nil"
  /\ Becomes(c, [Append1(x, [of |-> x.hand, lo |-> 0, hi |-> bufs[x.hand].len]) EXCEPT
                   !.held = Append(@, x.hand), !.hand = "nil", !.owed = @ \o Bytes(<<c, x.made>>, 0, x.n)])
  /\ UNCHANGED <<used, bufs>>

AddShared(c, n) ==
  LET x == wr[c]
      msg == <<c, x.made + 1>>
  IN /\ x.at = "idle" /\ x.hand = "nil" /\ x.made < MaxMsgs /\ n > 0
     /\ Becomes(c, [Append1(x, [of |-> msg, lo |-> 0, hi |-> n]) EXCEPT
                      !.made = @ + 1, !.owed = @ \o Bytes(msg, 0, n)])
     /\ UNCHANGED <<used, bufs>>

\* Flush: Write for one slice, and for more the view tmp, which the write consumes.
Flush(c) ==
  LET x == wr[c] IN
  /\ x.at = "idle"
  /\ Becomes(c, IF x.len = 0 THEN x
                ELSE [x EXCEPT !.at = "write", !.sent = <<>>, !.tmp = IF x.len = 1 THEN 0 ELSE 1])
  /\ UNCHANGED <<used, bufs>>

\* Write of the only slice: k bytes, with an error if that is not all of them.
WriteOne(c, k) ==
  LET x == wr[c] IN
  /\ x.at = "write" /\ x.tmp = 0 /\ k <= SliceLen(x.arr[1])
  /\ Becomes(c, [x EXCEPT !.at = "discard", !.sent = SubSeq(Content(x.arr[1]), 1, k), !.err = k < SliceLen(x.arr[1])])
  /\ UNCHANGED <<used, bufs>>

\* net.Buffers.WriteTo: one writev (or Write) takes some bytes of the first
\* slice; whole slices are cleared and left behind.
WriteVec(c, k) ==
  LET x == wr[c]
      s == x.arr[x.tmp]
  IN /\ x.at = "write" /\ x.tmp \in 1 .. x.len /\ k <= SliceLen(s) /\ (k > 0 \/ SliceLen(s) = 0)
     /\ Becomes(c, [x EXCEPT !.sent = @ \o SubSeq(Content(s), 1, k),
                             !.arr[x.tmp] = IF k = SliceLen(s) THEN nil ELSE [s EXCEPT !.lo = @ + k],
                             !.tmp = IF k = SliceLen(s) THEN @ + 1 ELSE @])
     /\ UNCHANGED <<used, bufs>>

WriteVecEnds(c, err) ==
  LET x == wr[c] IN
  /\ x.at = "write" /\ x.tmp > 0 /\ (x.tmp > x.len => ~err) /\ (x.tmp <= x.len => err)
  /\ Becomes(c, [x EXCEPT !.at = "discard", !.err = err]) /\ UNCHANGED <<used, bufs>>

\* Discard: release what is held, one after the other, and forget everything.
Discard(c) ==
  /\ wr[c].at = "idle"
  /\ Becomes(c, [wr[c] EXCEPT !.at = "discard", !.err = TRUE]) /\ UNCHANGED <<used, bufs>>

DiscardReleases(c) ==
  LET x == wr[c] IN
  /\ x.at = "discard" /\ x.i <= Len(x.held)
  /\ ReleaseStep(c, x.held[x.i], [x EXCEPT !.i = @ + 1, !.held[x.i] = "nil"])

ClearedNot(arr) == arr                                             \* mutated form
Cleared(arr) == [i \in DOMAIN arr |-> nil]

DiscardEnds(c) ==
  LET x == wr[c] IN
  /\ x.at = "discard" /\ x.i > Len(x.held)
  /\ Becomes(c, [x EXCEPT !.at = "idle", !.i = 1, !.held = <<>>, !.arr = Cleared(@), !.len = 0, !.tmp = 0, !.size = 0,
                          !.owed = <<>>, !.sent = <<>>, !.err = FALSE])
  /\ UNCHANGED <<used, bufs>>

Next ==
  \/ \E c \in Writer :
       \/ \E n \in Sizes : Reserve(c, n) \/ AddShared(c, n)
       \/ \E b \in Buf : Take(c, b)
       \/ Copy(c) \/ Release(c) \/ Releasing(c) \/ Add(c) \/ Flush(c) \/ Discard(c) \/ DiscardReleases(c) \/ DiscardEnds(c)
       \/ \E k \in 0 .. Max(Sizes) : WriteOne(c, k) \/ WriteVec(c, k)
       \/ \E err \in BOOLEAN : WriteVecEnds(c, err)
  \/ \E b \in Buf : PoolDrops(b)

Spec == Init /\ [][Next]_vars
-----------------------------------------------------------------------------
\* The Buf that a goroutine is releasing, and whether it has given back its units.
Target(x) == IF x.at = "release" THEN x.hand ELSE x.held[x.i]
Refunded(x) == x.k > 2

\* "A *Buf from Get or Copy has exactly one owner, who must call Release exactly
\* once": a Buf outside the pool is in one hand or in the held list of one Writer;
\* it is live when its Release begins; no Writer keeps a slice of a Buf it does
\* not hold, in the unused part of its array either; and the budget is charged for
\* exactly the Bufs that are out and those about to be taken.
BufHasOneOwner ==
  /\ \A b \in Buf :
       LET holds == {<<c, i>> \in Writer \X (0 .. MaxMsgs) :
                       IF i = 0 THEN wr[c].hand = b ELSE i <= Len(wr[c].held) /\ wr[c].held[i] = b}
       IN Cardinality(holds) = IF bufs[b].at = "out" THEN 1 ELSE 0
  /\ \A c \in Writer : LET x == wr[c] IN
       /\ x.at = "release" \/ (x.at = "discard" /\ x.i <= Len(x.held)) => bufs[Target(x)].live = (x.k = 1)
       /\ x.at # "discard" => \A s \in ToSet(x.arr) : s.of \in Buf => s.of \in ToSet(x.held)
  /\ used = MapThenSumSet(LAMBDA b : IF bufs[b].at = "out" THEN bufs[b].cap ELSE 0, Buf)
             + MapThenSumSet(LAMBDA c : IF wr[c].at = "take" THEN Capacity(wr[c].n)
                                        ELSE IF Refunded(wr[c]) THEN -bufs[Target(wr[c])].cap ELSE 0, Writer)

\* What a Flush puts on the wire is a prefix of what was added, in order and with
\* the contents it had then, although buffers are recycled all the time; it is all
\* of it when Flush returns nil, and Pending counts it.
FlushSendsPrefix ==
  \A c \in Writer : LET x == wr[c] IN
    /\ IsPrefix(x.sent, x.owed)
    /\ x.at = "discard" /\ ~x.err => x.sent = x.owed
    /\ x.size = Len(x.owed)
=============================================================================
