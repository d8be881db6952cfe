---------------------------- MODULE DropCounter -----------------------------
(* udp.dropCounter (udp/udp.go): readers that share a socket turn the kernel's  *)
(* wrapping W-bit count of dropped datagrams into a total.  A reader receives a *)
(* datagram with the count at the time it was queued, and may be overtaken by   *)
(* other readers before, between and after the atomic operations of observe.    *)
EXTENDS Integers, Sequences, FiniteSetsExt

CONSTANTS
  Reader,   \* readers of the socket
  W,        \* bits of the kernel's count (32)
  MaxStep,  \* most drops between two queued datagrams, bound
  MaxDrops, \* most drops, bound
  MaxQueue  \* most datagrams in the socket's queue, bound

VARIABLES
  kernel,  \* the kernel's count, before it wraps
  queue,   \* counts that travel with the queued datagrams, before they wrap
  last,    \* dropCounter.last
  total,   \* dropCounter.total
  rd       \* each reader: where it is in observe, the datagram's count, prev

vars == <<kernel, queue, last, total, rd>>

Idle == [at |-> "idle", seen |-> 0, prev |-> 0]

Init == kernel = 0 /\ queue = <<>> /\ last = 0 /\ total = 0 /\ rd = [r \in Reader |-> Idle]

\* int32(d): the signed value of a W-bit difference.
Signed(d) == LET u == d % 2^W IN IF u < 2^(W - 1) THEN u ELSE u - 2^W

raw(r) == rd[r].seen % 2^W
delta(r) == Signed(raw(r) - rd[r].prev)

\* Drops that last accounts for, counting what a reader is about to add.
Adding == {r \in Reader : rd[r].at = "add"}
Accounted == total + MapThenSumSet(delta, Adding)

\* Counts whose readers have not finished with them.
Outstanding == {queue[i] : i \in DOMAIN queue} \cup {rd[r].seen : r \in {q \in Reader : rd[q].at # "idle"}}

\* The kernel drops k datagrams and queues one.  The signed difference is only
\* meaningful while less than half the count's range lies between any two counts
\* under way.
Receive(k) ==
  /\ kernel + k <= MaxDrops /\ Len(queue) < MaxQueue
  /\ \A c \in Outstanding \cup {Accounted} : kernel + k - c < 2^(W - 1)
  /\ kernel' = kernel + k /\ queue' = Append(queue, kernel + k)
  /\ UNCHANGED <<last, total, rd>>

Read(r) ==
  /\ rd[r].at = "idle" /\ queue # <<>>
  /\ rd' = [rd EXCEPT ![r] = [Idle EXCEPT !.at = "load", !.seen = Head(queue)]]
  /\ queue' = Tail(queue) /\ UNCHANGED <<kernel, last, total>>

\* prev := last.Load(), and the early return.
Load(r) ==
  /\ rd[r].at = "load"
  /\ rd' = [rd EXCEPT ![r] = IF Signed(raw(r) - last) <= 0 THEN Idle ELSE [@ EXCEPT !.at = "cas", !.prev = last]]
  /\ UNCHANGED <<kernel, queue, last, total>>

Swaps(r) == last = rd[r].prev

\* Another reader moved last meanwhile: look again.
GiveUp(r) == Idle                                                  \* mutated form
Retry(r) == [rd[r] EXCEPT !.at = "load"]

CompareAndSwap(r) ==
  /\ rd[r].at = "cas"
  /\ IF Swaps(r)
       THEN last' = raw(r) /\ rd' = [rd EXCEPT ![r].at = "add"]
       ELSE rd' = [rd EXCEPT ![r] = Retry(r)] /\ UNCHANGED last
  /\ UNCHANGED <<kernel, queue, total>>

Add(r) ==
  /\ rd[r].at = "add"
  /\ total' = total + delta(r) /\ rd' = [rd EXCEPT ![r] = Idle]
  /\ UNCHANGED <<kernel, queue, last>>

Next ==
  \/ \E k \in 0 .. MaxStep : Receive(k)
  \/ \E r \in Reader : Read(r) \/ Load(r) \/ CompareAndSwap(r) \/ Add(r)

Spec == Init /\ [][Next]_vars
-----------------------------------------------------------------------------
\* However the readers of a socket overtake each other, KernelDrops plus what
\* they are about to add is a count the kernel had, the one in last: no drop is
\* counted twice, and none is made up by a wrap or by a late report.  When every
\* datagram has been looked at, no drop that was reported is missing.
DropsExact ==
  /\ Accounted <= kernel /\ Accounted % 2^W = last
  /\ (queue = <<>> /\ \A r \in Reader : rd[r].at = "idle") => total = kernel
=============================================================================
