# A formal model of go-netx

TLA+ specifications of the parts of go-netx that keep state, model-checked with TLC and,
for the queue, `tcp.Server`, `udp.Conn`, the lifecycle, the flow table, the Service contract and two limiters,
proved with TLAPS. Every definition follows the
Go source; `PROJECT.json` maps each one to its lines.

## The system and its parts

go-netx is a library of building blocks for network services. `netx.Server` runs one
`Service` from OnStart to OnStop; a `Group` makes a Service of several. `tcp.Server` and
`udp.Conn` are Services. Inside a handler, applications use `stream.Reader` and `stream.Writer`
(parsing and vectored writing over pooled buffers), `queue.Ring` (hand-over between goroutines), `flow.Table` (sessions with
idle eviction) and the limiters of `limit`. The parts meet in few places: the Group calls
Serve and Shutdown of its members; `tcp.Server` asks `limit.Limiter` and `limit.PerKey`
before it serves a connection; `buf.Pool` charges a `limit.Budget` for what a Reader grows
into and recycles the buffers a Writer has sent; both transports wait in `internal/backoff`
between temporary errors, make their sockets with `socket`, and `udp.Conn` reads batches
through `internal/sys`.

| Part (source) | State | Operations that change it | What makes it hard | What must hold |
|---|---|---|---|---|
| queue.Ring (`queue/queue.go`) | slots, head, n, closed; two capacity-1 signal channels, done; counters | Push, PushWait, Pop, PopWait, Close, Drain | one token stands for any number of items; signals and OnDrop run after the unlock; PopWait looks twice | bounded FIFO; one owner per item; no lost wake-up; ErrClosed final |
| tcp.Server (`tcp/server.go`) | stopped, serving, conns, WaitGroup, handler context, slots, counters | Serve with its accept loop, serveConn with its deferred calls, Shutdown, Close | stop and abort while a connection is between accept and go; order of deferred calls | no slot leaks; abort misses nobody; drain aborts nobody; Serve returns clean |
| netx.Server, Loop, Group (`lifecycle.go`) | state, contexts, force, result; members' calls | LoopContext step by step, signals, Stop, Shutdown, Group.Serve and Shutdown | members fail, ignore their context, never drain; signals at any time; joined errors | errors reported once and not lost; a stop drains first; a stop ends |
| flow.Flow, flow.Table (`flow/`) | maps per shard, coarse clock, state and LastSeen words | Get(AndTouch), GetOrOpen, Touch, BeginClose, Close, Remove, Sweep, Table.Close | Touch races expire; deletion, freezing and closing are separate | OnClose once; eviction only when idle; no revival |
| udp.Conn (`udp/udp.go`) | serving, closed, fatal, done, closing, closeOnce; receive queues | Serve, read, readBatch, readFailed, Shutdown, Close | Close in the middle of a batch or of a backoff; first fatal error | datagrams handled once, in order; quiet after Shutdown; reason of the stop kept |
| udp.dropCounter (`udp/udp.go`) | last, total | observe | readers report out of order; 32-bit wrap | no drop counted twice, made up or missed |
| stream.Reader, buf.Pool (`stream/reader.go`, `buf/buf.go`) | buffer, indices, sticky error; the budget | Peek, Fill, Read, Discard, Release; Get, Release | compaction, growth, refusal, return to the idle buffer | the bytes of the source in order; exact charges; room to read; ErrTooLarge only above Max |
| stream.Writer, buf (`stream/writer.go`, `buf/buf.go`) | queued slices, owned Bufs; the pool's free list and budget | Add, AddShared, Flush, Discard; Copy, Release | short writes; the backing array and the Bufs are used again while other goroutines take them | what is sent is what was added, in order; one owner per Buf |
| udp sending (`udp/udp.go`) | sockets, counters per socket | Listen, WriteTo, Reply, Stats, Close | a later socket fails; sends race the closing of the sockets one by one | all sockets or none; counters agree with what the kernel did |
| sys.BatchReader (`internal/sys`) | one array of headers that the kernel overwrites | recv, Message, DropCount | what an earlier datagram left in a header limits the next one | datagrams are seen as they arrived |
| socket, tcp.Dialer (`socket/`, `tcp/dialer.go`) | one socket while it is made | ListenConfig, Dialer, SetBuffers | each system call may fail, or grant less without failing; platforms differ | an option is in effect or the call fails, for a cause |
| limit (`limit/limit.go`) | permits, budget, bucket | TryAcquire, Release of Concurrency, All, PerKey, Rate; Reserve, Release of Budget | rollback while others acquire; overflow | permits balance; exact grants; every window bounded |

`PROJECT.json` lists the hazards of this code at the lines where they bite, with the
properties that would catch them.

## Modules

* `Ring` models `queue.Ring`. One action is one mutex section; afterwards the goroutine is
  at `after` and pays what it `owes` (channel operations) and hands `doomed` items to
  OnDrop in steps of their own, so that anything can run between the unlock and the signal.
  `fresh`, `fate` and `sawClosed` are history. `BoundedFifo` is the abstract specification;
  `Ring` implements it with the queue mapped to `Contents`, the slots from `head` on.
* `Service` is the abstract specification of what `lifecycle.go` asks of a Service: Serve blocks until
  everything has stopped, nothing is accepted after the stop, and Shutdown returns nil only when no
  work is in flight. Its stop has an intermediate stage, "stopping", in which work may still come in
  and Serve may already return: `udp.Conn` closes its sockets one by one, and readers woken from their
  backoff are gone before the last one is closed. `TcpServer` and `UdpConn` implement it; the work in flight is the connections
  from track to the end of serveConn, and the readers with datagrams in hand.
* `TcpServer` models Serve's accept loop (`loop`), one serveConn per connection (`st`, whose
  stages are the deferred calls in their reverse order) and everybody who may stop the server
  (`stop`): callers, the AfterFunc on Serve's context, and the loop itself after a permanent
  error. Options.Admit is any Limiter, so it may refuse at any time; the per-IP limit is the
  count that `limit.PerKey` keeps.
* `Lifecycle` models LoopContext (`at`), the signal goroutine of Loop (`sig`), the force watcher and
  Shutdown callers over a Group (`group`, `mem`). The members are any services that follow the
  Service contract: they fail, end, refuse or drain when they like. An error is the set of its
  causes, errors.Join is union, and `ignoreCanceled` does what the code does: it drops the whole
  error. Whether ShutdownTimeout is set, and whether a Serve after Shutdown fails (as those of tcp
  and udp do), is chosen in the initial state (`opt`).
* `FlowTable` models flows and a sharded table. A retried CAS loop is the one step of its last
  iteration; `expire`, whose CAS is not retried, is a load and a CAS.
* `UdpConn` models Serve, the readers, their errors and Close under its Once; the number of
  sockets (one, or one per reader) is chosen in the initial state. `DropCounter` models `observe`
  with its load, CAS and add as separate steps and a count of W bits.
  `UdpSend` models Listen (the checks of its options, the port that later sockets share, the batch in
  effect) and then senders, Stats and Close at once; the counters are loaded and incremented one by one.
* `BatchReader` models the recvmmsg headers and the control messages in them, in units of 4 bytes: the
  kernel takes the lengths as limits and overwrites them with results. The kernel is external and
  writes what fits.
* `SocketOptions` models the making of one socket, from the caller's hook to the last option,
  on five platforms, one step per system call; the kernel may fail each call and may cap a buffer silently.
  tcp.Dialer is in it as the caller that adds keep-alive and reports a DialEvent.
* `BufSizes` has the size classes of `buf` (class, Capacity), which `StreamReader` and `StreamWriter` share.
  `StreamWriter` models Writers over one recycling pool: a Release is the four steps of the
  code (the debug hook, the refund, clearing B, the put), and other Writers run between them. A Buf's memory
  has the message in it, so that a slice of a recycled Buf shows as another message.
* `StreamReader` models Readers that share a pool and its budget. A byte is its position in the
  source, so that a lost, repeated or stale byte shows.
* `Limit` (All over Concurrency, for callers that release what they hold), `Budget` (W-bit integers) and `Rate` (the token bucket, in
  integer fractions of a token).
* `RingProofs`, `TcpServerProofs`, `TcpBooksProofs`, `UdpConnProofs`, `FlowTableProofs`,
  `LifecycleLimitProofs` (of `Lifecycle`, `Limit` and `Rate`), `StreamBufProofs` and `StreamReaderProofs` hold the theorems. The `MC…`
  modules give the constants values. `MCUdp`, `MCSockets` and `MCLimits` put unrelated components side by side: the initial state chooses
  which one a behaviour is of, so the state spaces add up and do not multiply.

In each module a definition marked "mutated form" is the next definition with a plausible
mistake; `PROJECT.json` pairs it with the property that catches it.

## Runs

| Run | Instance | What it shows |
|---|---|---|
| `ring` | 3 goroutines, 4 items, 2 slots, DropOldest | FIFO refinement, one owner per item, both wake-up invariants, ErrClosed final |
| `ring_liveness` | 3 goroutines, 2 items, 1 slot, Reject | sleepers are served; Close ends every call |
| `tcp` | 2 connections, 1 IP with 1 slot, 1 caller, 1 accept error | slot accounting, Closed never ahead, nothing left when Serve returns, the Service contract, abort misses nobody, drain cancels nobody, Serve returns |
| `lifecycle` | 2 members, 1 caller, 2 signals, both values of both options | OnError once, Serve errors kept, a stop aborts nobody by itself, a stop with a timeout and a second signal end the loop |
| `flow` | 2 goroutines, 2 keys in 2 shards, 2 flows, sweeps at 1 and 2 | OnClose once, eviction for cause, no revival |
| `udp` | 2 readers, 1 or 2 sockets, batches of 2, 2 datagrams, 1 error, 2 callers; beside it 2 readers of a 3-bit drop count up to 10 | every datagram once and in order, the Service contract, nil means requested, a stop ends Serve; exact drop counts |
| `reader` | 2 Readers with Max 3 and 5, classes 1, 2, 4, budget 7, 3 bytes each | next bytes, exact budget, room to read, ErrTooLarge only above Max |
| `limits` | bucket of 2 tokens, 2/3 token per tick, 12 ticks; 3 goroutines on limiters of 2, 1, 3; 3 goroutines on a 4-bit budget of 7; 2 Writers, 3 Bufs of two classes, a budget of 5, messages of 1 and 3 bytes | window bound, permits balance, exact grants; one owner per Buf, what is sent is a prefix of what was added |
| `sockets` | Readers 0 or 2, Batch 0, 1 or 9 of at most 8, 2 ports, 2 senders, 2 sends of 1 or 3 bytes with MaxDatagram 2; 3 datagrams of 24 kinds through 2 headers; 5 platforms and all options with sizes 0 and 2 | all sockets or none, sends counted and ErrClosed only when closing; datagrams seen as they arrived; options applied or refused, refused for cause |
| `lifecycle_errors` | violated | finding 1 |
| `lifecycle_late_serve` | violated | finding 2 |
| `flow_evicted_open` | violated | finding 3 |

Why the bounds are enough. *Ring*: four items through two slots wrap twice and evict; two
sleepers and a third goroutine are the smallest group in which one token must serve two; the
theorems lift the bounds. *Tcp*: two connections are needed for one to be refused while another
holds the slot, and for abortAll to find one while the other is between track and go; with the
AfterFunc and the loop's own stop there are three concurrent stoppers. *Lifecycle*: two members
are enough for one to fail while the other drains. *Flow*: two flows on one key give a stale
Remove its chance, two shards let Table.Close or Sweep be halfway. *Udp*: two readers on one socket
overtake each other, and a batch of two can be interrupted by Close. A 3-bit count with up to ten
drops wraps once with up to three between datagrams; the environment keeps counts under way less than half
the range apart, which is 2^31 drops in the code. *Reader*: Max 3 lies between two
classes (so the clamp matters), Max 5 above the largest; a budget of 7 cannot hold both. *Writer*:
two Writers and three Bufs are the fewest with which one Writer's stale slice can refer to a Buf that
the other has taken from the pool while both have something queued; messages of 3 bytes are above the largest
class and are not pooled. *Sockets*: two senders overtake each other between the system call and the
counters, and Stats is between its loads; a later datagram in a header meets what each kind left there; a
drop count fits behind the smaller of two other control messages and not behind the larger.

CHECK_DEADLOCK is FALSE for `tcp`, `lifecycle`, `udp` and `sockets`: these objects are one-shot and stop
for good when everybody has returned. Symmetry is used in `ring` and `flow` (goroutines), `limits` (Writers,
Bufs) and `sockets` (senders), which have no liveness property.

## Fairness

A goroutine that can run does (weak fairness per goroutine: the Go scheduler is preemptive).
Nobody has to call anything, no handler, datagram, error or signal has to come, and no caller's
context has to end. Beyond that:

* `TcpServer`: a closed listener fails Accept, and a handler returns once its context is cancelled
  or its connection closed (the Handler contract). Handlers need not return otherwise.
* `Lifecycle`: hooks return, timers fire, a member's Shutdown honours its context. A Serve may
  ignore the end of its context for ever, and nobody has to drain.
* `UdpConn`: handlers return; the backoff timer has no fairness, so a stop may not rely on it.

## Proofs

`RingProofs`, for every number of goroutines and items, every Cap and both policies:

* `TypeCorrect`, `StatsAlwaysBalance`, `ErrClosedStaysFinal`, `NoConsumerWakeupLost`, and
  `NoProducerWakeupLost` for rings that are drained only once they are closed.
* The inductive invariant is `Basic == TypeOK /\ QuietOwes`: a goroutine owes channel operations
  only between its unlock and its return. Without QuietOwes a new call would overwrite debts, and
  the wake-up invariants would not be inductive: the wake-up under way may be a debt. Each
  wake-up theorem then has one step per action that can consume a token or add an item or a slot:
  who takes the token is at `popWait` (or `pushWait`) and looks at the ring, and when it takes an item
  and leaves others it owes the next signal.
* `RingImplementsFifo`, the refinement of `BoundedFifo`. Position k of the queue is slot `At(head, k)`; that
  the first Size positions are different slots (`AtFacts`, arithmetic on the mask) turns a store at the end, a
  pop of the front and an eviction into Append, Tail and both on `Contents`. `Window` adds that the
  slots outside the queue are empty and those inside are not, `Hands` that a goroutine has in its hand
  what its position in a call says, so that no step loses an item out of sight of the refinement.
* `EveryItemHasOneOwner`: `Places` says of each item where it is (`Nowhere`, `Queued`, `Held`, `Dooming`, `Settled`), in
  exactly one place. OneOwner alone says how many places have the item and not which, so it would not tell what a step finds
  there; each action moves the items it concerns from one place to the next (`…Places`) and no other.
* Assumptions: `RingAssumption`, that Cap and Size are positive, None is no item and the options
  are Booleans.

`TcpServerProofs` and, for the accounting, `TcpBooksProofs`, for any finite set of connections, any per-IP keys and any callers:

* `ServerImplementsService`: every step of the accept loop, of a connection's goroutine and of whoever
  stops the server is a step of `Service` or changes nothing of it. The inductive invariant `Inv` has four
  parts: `Types`; `Stopped`, that whoever is past stopAccept or saw draining is so after the stop; `Loop`, that the position of
  Serve tells what it has done (it leaves its loop only after the stop, the connection in its hand has
  no goroutine yet, it returns when nobody is served); and `Counted`, that the WaitGroup counts the
  serveConn goroutines, without which wg.Wait says nothing about handlers.
* `NilShutdownIsQuiet`: once a Shutdown has returned nil nothing is in flight and nothing will be. It is a property of `Service`, proved from its
  steps (`Quieted` adds that work is in flight only while Serve runs) and carried over by the refinement.
* `AbortNeverMisses`: the invariant `Aborting` adds that live connections are tracked, that none becomes
  live after the stop, and that an abortAll under way still has every open one in its snapshot. The
  property alone is not inductive, since it says nothing while the closing loop runs.
* `SlotsAlwaysBalance`, `ClosedIsNeverAhead` and `NothingLeft`. Their common invariant is `Books`: the connection in the loop's
  hand is the only accepted one (`InLoop`), a key is held from the check until releasePerIP (`Keyed`), what is
  tracked or open follows from a connection's stage (`Tracked`, `Opened`), and each counter is the number of
  connections in certain stages (`Permits`, `PerKey`, `Totals`). Every action moves at most one connection in or
  out of each of these sets, in the same step as the counter (`Tracks`, `TracksCount`).
* `DrainingKeepsHandlers`: `Causes` adds that whoever is about to abort has a cause already, and that a context
  which ended without one belongs to a Serve on its way out, when no handler is left.
* Assumptions: `TcpAssumption`: Conn is finite, the goroutines differ, and none is called "none" or "done".

`UdpConnProofs`, for any number of readers, sockets and callers and any batch size:

* `ConnImplementsService`. The inductive invariant has four parts: `Types`; `Calls`, that each goroutine in Close
  is there for the call it came from, so that it goes back to it; `Closed`, that the sockets are closed under
  closeOnce, after `closed` is set and before any Close returns, also for those that wait for the first;
  and `Reading`, that readers run only once Serve has begun, stop only once the Conn is closed, and have all stopped when
  Serve returns. Reading needs at least one reader, which Listen guarantees (zero means one).
* `NilShutdownIsQuiet`, from the refinement in the same way.
* `NilOnlyIfRequested`: `Cause` adds that whoever wins closeOnce is the cause of the stop, and that a reader which may
  still win it with a fatal error has recorded that error first. Without the second part Serve could look for it too early.
* `DatagramsTakenOnce`: TakenOnceInOrder with `Numbered`, that a queue holds the numbers after those of the datagrams gone from it, and
  `Handled`, that a reader about to read has an empty batch, without which a read would overwrite datagrams
  it has not handed over. A read and a truncated datagram are the same step, `Takes`, with n and with one datagram.
* Assumptions: `UdpAssumption`: there is a reader and a batch, and the goroutines differ.

`FlowTableProofs`, for any finite sets of goroutines and keys, any shards, times and number of flows:

* `FlowsLeaveForCause`. The inductive invariant has five parts: `Types`; `Ids`, that IDs are given out in order and a map holds
  a flow under its own key; `Places`, that a goroutine's position tells which of its pointers are set; `Scans`, that
  a Sweep holds the lock of its shard, so that the keys it has yet to visit stay mapped; and `Expiring`, that the flow it
  has loaded is still in the map, its loaded LastSeen is too old, and a word loaded as frozen has not changed since. The last
  makes the decision hold at the CAS as it did at the load.
* `NeverRevived`: `Frozen` adds that a flow which Remove or Sweep took is frozen, and that one which is closing or closed is too, or some goroutine is
  about to freeze it. Each action's effect on one flow is stated once (`FlowEffect`).
* `OnCloseExactlyOnce`: `Owed` adds that a flow is in its map, or on the list of one goroutine that will report it,
  or reported once. Remove, Sweep and Close are all instances of one step, `Takes`, from the map to a list.
* Assumptions: `FlowAssumption`: the sets are finite, there is a key, and times are naturals.

`LifecycleLimitProofs`, of `Lifecycle`, for any members, callers and number of signals:

* `OnErrorExactlyOnce`, `NoServeErrorLost` and `StopNeverAborts`. The inductive invariant has five parts: `Types`; `Grouped`, that a
  member has an error only once its Serve has returned and that the Group returns after all of them, with their errors; `Waited`, that
  LoopContext on its way out has the Group's error or gave up waiting; `Drained`, that the service context outlives every
  Shutdown; and `Outcome`, that OnError and the result agree before, in and after `report`. The error of a Serve passes
  through the Group, the channel and the join on its way to the result, and each part says where it is.

`LifecycleLimitProofs`, of `Limit`: `PermitsAlwaysBalance`, PermitsBalance for every finite set of goroutines and every non-empty
list of positive limits (`LimitAssumption`; NewConcurrency panics on others). It is inductive with the types; each action adds or removes one holder
of one limiter (`OneMore`, `OneLess`) or none (`Same`).

`LifecycleLimitProofs`, of `Rate`, for every cost, refill and burst: `TypeCorrect` and `WindowIsBounded`. The invariant
`Ledger` strengthens the bound: admissions in the window plus what the bucket would hold now never
exceed the burst plus the refill since the window opened. The bound alone is not inductive: it
does not say what is left in the bucket.

`StreamBufProofs` and `StreamReaderProofs`, for any finite set of Readers, any sizes and any classes:

* `ReaderBytesAreNext`, `ReadersChargeWhatTheyHold`, `ReadsHaveRoom`, `ErrTooLargeIsAboveMax` and `ReadersStayWithinBudget`. The inductive
  invariant `Inv` has three parts. `Core` is about the buffer: `Live`, that the data between r and w are the next
  bytes of the source and that an empty buffer is rewound, or `Dead` after Release. `Under` is about the call under way:
  only one that grows holds a second buffer, it asks for at most Max bytes, and it has room when it reads; for Fill
  n stays one above what is buffered, so that ensure always asks for more than there is and grows only a buffer that is too small for it. The last is that the
  budget is the sum of what the Readers hold. Each change of a buffer (compaction, growth, discard, arrival) has a lemma of its
  own in `StreamBufProofs`, and each action one in `StreamReaderProofs`. The branch in which `grow` itself returns
  ErrTooLarge is shown to be unreachable (`NoRoom`, `GrowSizeIs`): Peek and Fill have refused such a size before.
* `CapacityFits`: a class holds what was asked for and, above MinSize, less than twice that. It needs what `Pow2` computes.
* Sums over finite sets and powers of two are recursive functions. What they compute is proved from a smallest counterexample (`Least`, `Smallest`) and not by
  the library's induction rules.
* Assumptions: `ReaderAssumption`: Conn is finite, IdleSize is positive and no larger than any Max, there is at least one size class
  (NewReader panics on other sizes, and 0 stands for a default).

Only model-checked: liveness (out of the prover's reach) and all properties of UdpSend,
DropCounter, StreamWriter, SocketOptions, Budget and BatchReader (whose walk over control messages is recursive).

## Findings

1. `ShutdownErrorsSurvive` (`lifecycle.go:354`): Group.Shutdown joins its members' errors, and
   ignoreCanceled drops the whole when one of them is context.Canceled. After a second signal a
   real Shutdown error of one member disappears, although runtime.md says that only
   context.Canceled is left out.
2. `StopLeavesContext` (`lifecycle.go:69`): a stop that reaches a member's Shutdown before its
   Serve goroutine has started makes Serve fail, and the Group cancels the context of
   the members that are draining; ARCHITECTURE.md says a stop does not cancel the service context.
3. `EvictedIsNotOpen` (`flow/table.go:208`): Sweep freezes and deletes first and closes later, so
   a GetAndTouch that lost to it may return a flow that is still Open; its comment says otherwise.

Smaller disagreements met while reading, without a run of their own: a second signal handled before `begin`
is lost (`lifecycle.go:191`); OnStop runs beside a Serve that outlived AbortGrace
(`lifecycle.go:255`); a Touch between Table.Close's swap and Flow.Close still changes LastSeen
(`flow/table.go:258`); tcp Stats is not a point-in-time snapshot (`tcp/server.go:365`); a
Release without a permit lets InUse exceed Max for a moment (`limit/limit.go:50`), and Budget.Release of too
much leaves the counter negative when the panic is recovered (`limit/limit.go:160`); Drain of
an open ring does not wake a sleeping producer (`queue/queue.go:219`).

## Not modelled

* `examples`, `internal/leak`, `internal/tools`: programs that use the library, a test helper, and a generator of
  documentation; none is part of the library's behaviour.
* The files of `internal/sys` that classify error numbers per platform: `UdpConn` takes the class of an error as
  a choice. IPv6 zone names. `internal/counter`: each Inc and Load is one step of the module that uses it.
* `tcp.Server`'s ipKey: the key of a connection is any key or none, so its masking of IPv6 prefixes is not checked.
* Stats of `tcp`, `queue` and `flow` (reads only), the lengths of timeouts and delays (a timer fires at any
  moment), float64 rounding in Rate.
* Calls outside the documented contract: a Release of a permit or a key that the caller does not hold (it subtracts
  before it adds back and panics, `limit/limit.go:50`), and, in the runs, Drain of a ring that is not closed.
  While the count is too low another goroutine may acquire one permit too many.
* Memory effects below sequential consistency: Go's mutexes, channels and atomics give none.

## Plan

1. That every flow which left its table gets its OnClose (strong fairness of the shards' mutexes). A composition
   of `Lifecycle` with `Service` in place of an arbitrary member, and an abstract one-shot lifecycle
   (new, running, draining, aborting, stopped) that `Lifecycle` implements.
2. Proofs: ReserveIsExact of `Budget` for any goroutines; DropsExact of `DropCounter`; the properties
   of `StreamWriter`.
