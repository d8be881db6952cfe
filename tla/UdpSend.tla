------------------------------- MODULE UdpSend -------------------------------
(* udp.Listen with the sockets it opens, and WriteTo, Reply and Stats running    *)
(* while Close closes the sockets one after the other (udp/udp.go).              *)
EXTENDS Integers, Sequences, FiniteSets

CONSTANTS
  Readers,       \* values of Options.Readers
  Batches,       \* values of Options.Batch
  maxBatch,      \* the largest batch allowed
  DefaultBatch,  \* sys.DefaultBatch
  Ports,         \* ports the kernel may choose, and destination ports
  Sender,        \* goroutines that send, one datagram at a time
  Sizes,         \* lengths of datagrams
  MaxDatagram,
  MaxSends       \* bound on the sends

VARIABLES
  o,      \* Listen's options: Readers, Batch, Socket.ReusePort, and sys.BatchSupported; forgotten when it returns
  conn,   \* at (where Listen or Close is), port (0: any), readers, batch, dropsOn, i (the socket closeSockets closes next)
  socks,  \* the sockets: port, open, drops (counted by the kernel), and the sendStats
  snd,    \* each Sender: at, sock, size, res; reader: Reply's; late: Close had returned before it began
  calls,  \* history: the sends so far, those the kernel answered, and those that returned
  stats   \* a Stats call: at, i, its sum, and the sends that had returned when it began

vars == <<o, conn, socks, snd, calls, stats>>

\* The options Listen accepts, their defaults, the number of sockets and the batch in effect.
Valid == o.readers >= 0 /\ o.batch \in 0 .. maxBatch
readers == IF o.readers = 0 THEN 1 ELSE o.readers
nsock == IF o.reuse THEN readers ELSE 1
batch ==
  CASE ~o.batching -> 1
    [] o.batching /\ o.batch = 0 -> IF readers > nsock THEN 1 ELSE DefaultBatch
    [] OTHER -> o.batch

Gone == [readers |-> 0, batch |-> 0, reuse |-> FALSE, batching |-> FALSE]
NoSends == [packets |-> 0, bytes |-> 0, errors |-> 0]

Init ==
  /\ o \in [readers : Readers, batch : Batches, reuse : BOOLEAN, batching : BOOLEAN]
  /\ conn \in [at : {"new"}, port : Ports \cup {0}, readers : {0}, batch : {0}, dropsOn : {TRUE}, i : {1}]
  /\ socks = <<>>
  /\ snd = [g \in Sender |-> [at |-> "idle", sock |-> 1, size |-> 0, res |-> "none", reader |-> -1, late |-> FALSE]]
  /\ calls = [begun |-> 0, answered |-> NoSends, returned |-> NoSends]
  /\ stats = [at |-> "idle", i |-> 1, sum |-> NoSends, least |-> NoSends]
-----------------------------------------------------------------------------
Listen ==
  /\ conn.at = "new"
  /\ conn' = IF Valid THEN [conn EXCEPT !.at = "listen", !.batch = batch] ELSE [conn EXCEPT !.at = "failed"]
  /\ UNCHANGED <<o, socks, snd, calls, stats>>

\* The remaining sockets are bound to the port that the first one got.
AsAsked(p) == conn.port \* mutated form
Resolved(p) == IF socks = <<>> THEN p ELSE conn.port

\* The kernel binds a socket; EnableDropCount may fail.
ListenPacket(p, drops) ==
  /\ conn.at = "listen" /\ Len(socks) < nsock
  /\ p \in IF conn.port = 0 THEN Ports ELSE {conn.port}
  /\ socks' = Append(socks, [port |-> p, open |-> TRUE, drops |-> drops, stats |-> NoSends])
  /\ conn' = [conn EXCEPT !.port = Resolved(p), !.dropsOn = @ /\ drops]
  /\ UNCHANGED <<o, snd, calls, stats>>

ListenFails ==
  /\ conn.at = "listen" /\ Len(socks) < nsock
  /\ conn' = [conn EXCEPT !.at = "failing"] /\ o' = Gone /\ UNCHANGED <<socks, snd, calls, stats>>

ListenReturns ==
  /\ conn.at = "listen" /\ Len(socks) = nsock
  /\ conn' = [conn EXCEPT !.at = "open", !.readers = readers] /\ o' = Gone /\ UNCHANGED <<socks, snd, calls, stats>>

\* Close, once; closeSockets is also how Listen gives up.
Close == conn.at = "open" /\ conn' = [conn EXCEPT !.at = "closing"] /\ UNCHANGED <<o, socks, snd, calls, stats>>

closeSockets ==
  /\ conn.at \in {"closing", "failing"}
  /\ IF conn.i <= Len(socks)
       THEN conn' = [conn EXCEPT !.i = @ + 1] /\ socks' = [socks EXCEPT ![conn.i].open = FALSE]
       ELSE conn' = [conn EXCEPT !.at = IF @ = "closing" THEN "closed" ELSE "failed"] /\ UNCHANGED socks
  /\ UNCHANGED <<o, snd, calls, stats>>
-----------------------------------------------------------------------------
InUse == conn.at \in {"open", "closing", "closed"}

\* The socket that reader r receives on (Serve).
SockOf(r) == (r % Len(socks)) + 1

Begin(g, s, r, size, res) ==
  /\ InUse /\ snd[g].at = "idle" /\ calls.begun < MaxSends
  /\ snd' = [snd EXCEPT ![g] = [at |-> IF res = "none" THEN "write" ELSE "idle", sock |-> s, size |-> size,
                                res |-> res, reader |-> r, late |-> conn.at = "closed"]]
  /\ calls' = [calls EXCEPT !.begun = @ + 1]
  /\ UNCHANGED <<o, conn, socks, stats>>

\* write, up to the system call.
write(g, s, r, size) == Begin(g, s, r, size, IF size > MaxDatagram THEN "ErrTooLarge" ELSE "none")

WriteTo(g, port, size) == write(g, (port % Len(socks)) + 1, -1, size)

\* Reply to a packet of reader r; an index this Conn did not assign, or no packet.
Reply(g, r, port, size) ==
  IF r \in 0 .. conn.readers - 1 THEN write(g, (r % Len(socks)) + 1, r, size) ELSE WriteTo(g, port, size)

ReplyNil(g) == Begin(g, 1, -1, 0, "ErrNilPacket")

\* WriteToUDPAddrPort: the kernel may refuse the datagram.
Answer(st, x) == IF x.res = "nil" THEN [st EXCEPT !.packets = @ + 1, !.bytes = @ + x.size] ELSE [st EXCEPT !.errors = @ + 1]

WriteToUDPAddrPort(g, res) ==
  LET x == [snd[g] EXCEPT !.res = IF socks[snd[g].sock].open THEN res ELSE "ErrClosed", !.at = "count"] IN
  /\ snd[g].at = "write" /\ res \in {"nil", "refused"}
  /\ snd' = [snd EXCEPT ![g] = x]
  /\ calls' = [calls EXCEPT !.answered = Answer(@, x)]
  /\ UNCHANGED <<o, conn, socks, stats>>

\* write after the system call: errors, or packets and then bytes.
ClosedUncounted(st, x) == \* mutated form
  IF x.res = "nil" THEN [st EXCEPT !.packets = @ + 1] ELSE IF x.res = "ErrClosed" THEN st ELSE [st EXCEPT !.errors = @ + 1]
Counted(st, x) == IF x.res = "nil" THEN [st EXCEPT !.packets = @ + 1] ELSE [st EXCEPT !.errors = @ + 1]

Return(g) == calls' = [calls EXCEPT !.returned = Answer(@, snd[g])]

Count(g) ==
  LET x == snd[g] IN
  /\ x.at = "count" /\ socks' = [socks EXCEPT ![x.sock].stats = Counted(@, x)]
  /\ snd' = [snd EXCEPT ![g].at = IF x.res = "nil" THEN "bytes" ELSE "idle"]
  /\ IF x.res = "nil" THEN UNCHANGED calls ELSE Return(g)
  /\ UNCHANGED <<o, conn, stats>>

CountBytes(g) ==
  LET x == snd[g] IN
  /\ x.at = "bytes" /\ socks' = [socks EXCEPT ![x.sock].stats.bytes = @ + x.size]
  /\ snd' = [snd EXCEPT ![g].at = "idle"] /\ Return(g)
  /\ UNCHANGED <<o, conn, stats>>

\* Stats loads the counters one by one, socket after socket.
Stats ==
  /\ InUse /\ stats.at = "idle"
  /\ stats' = [at |-> "packets", i |-> 1, sum |-> NoSends, least |-> calls.returned]
  /\ UNCHANGED <<o, conn, socks, snd, calls>>

NextLoad == CASE stats.at = "packets" -> "bytes" [] stats.at = "bytes" -> "errors"
              [] OTHER -> IF stats.i < Len(socks) THEN "packets" ELSE "returned"

Load ==
  /\ stats.at \in {"packets", "bytes", "errors"}
  /\ stats' = [stats EXCEPT !.at = NextLoad, !.i = IF stats.at = "errors" THEN @ + 1 ELSE @,
                            !.sum[stats.at] = @ + socks[stats.i].stats[stats.at]]
  /\ UNCHANGED <<o, conn, socks, snd, calls>>

StatsReturns ==
  /\ stats.at = "returned" /\ stats' = [at |-> "idle", i |-> 1, sum |-> NoSends, least |-> NoSends]
  /\ UNCHANGED <<o, conn, socks, snd, calls>>

Next ==
  \/ Listen \/ ListenFails \/ ListenReturns \/ Close \/ closeSockets
  \/ \E p \in Ports, drops \in BOOLEAN : ListenPacket(p, drops)
  \/ Stats \/ Load \/ StatsReturns
  \/ \E g \in Sender :
       \/ \E p \in Ports, size \in Sizes : WriteTo(g, p, size) \/ (\E r \in -1 .. conn.readers : Reply(g, r, p, size))
       \/ \E res \in {"nil", "refused"} : WriteToUDPAddrPort(g, res)
       \/ ReplyNil(g) \/ Count(g) \/ CountBytes(g)

Spec == Init /\ [][Next]_vars
-----------------------------------------------------------------------------
\* Listen opens all its sockets at one port or leaves none open, also when a later one of
\* them fails, and Close leaves none open; a Conn that reports KernelDropsEnabled has it on
\* every socket; and readers that share a socket do not read in batches by default.
ListenAllOrNothing ==
  /\ conn.at \in {"failed", "closed"} => \A s \in DOMAIN socks : ~socks[s].open
  /\ conn.at = "listen" /\ Len(socks) = nsock /\ o.batch = 0 /\ conn.batch > 1 =>
       \A r, q \in 0 .. readers - 1 : r # q => SockOf(r) # SockOf(q)
  /\ InUse => \A s \in DOMAIN socks : socks[s].port = conn.port /\ (conn.dropsOn => socks[s].drops)

\* Sending races Close: ErrClosed is returned only once Close has begun and by every send
\* begun after Close returned, and Reply uses the socket its packet came from.  What
\* Stats reports has every send that had returned when it was called, and none that
\* the kernel had not answered.
SendsCounted ==
  /\ \A g \in Sender : LET x == snd[g] IN
       /\ x.res = "ErrClosed" => conn.at \in {"closing", "closed"}
       /\ x.late => x.res \notin {"nil", "refused"}
       /\ x.reader # -1 => x.sock = SockOf(x.reader)
  /\ stats.at = "returned" =>
       \A f \in DOMAIN NoSends : stats.least[f] <= stats.sum[f] /\ stats.sum[f] <= calls.answered[f]
=============================================================================
