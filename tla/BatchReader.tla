----------------------------- MODULE BatchReader -----------------------------
(* sys.BatchReader (internal/sys/mmsg_linux.go) and sys.DropCount                *)
(* (internal/sys/sys_linux.go) as udp.Conn.readBatch uses them: one array of     *)
(* recvmmsg headers is used for every call, and the kernel takes its fields as   *)
(* limits and overwrites them with results.  Lengths are in units of 4 bytes.    *)
EXTENDS Integers, Sequences, FiniteSetsExt

CONSTANTS
  Batch,      \* len(bufs)
  OOBSize,    \* sys.OOBSize
  MaxPacket,  \* length of each buffer
  Datagrams,  \* what may arrive: from, size and cmsgs, each with its type and len
  MaxArrivals \* bound on the datagrams that arrive

VARIABLES
  sent,   \* history: the datagrams that arrived, each with the kernel's drop count at that time
  queue,  \* the socket's receive queue
  msgs,   \* the mmsghdrs: Namelen, Controllen, Flags and len, with the name and the control data
  n,      \* BatchReader.n
  i,      \* the datagram of the batch that readBatch handles next
  at,     \* where the reader is
  seen    \* history: what readBatch got for each datagram

vars == <<sent, queue, msgs, n, i, at, seen>>

SizeofSockaddrAny == 28
NameLen(from) == IF from = "v4" THEN 4 ELSE 7
hdr == 4
cmsgAlign(k) == ((k + 1) \div 2) * 2

Init ==
  /\ sent = <<>> /\ queue = <<>> /\ n = 0 /\ i = 1 /\ at = "idle" /\ seen = <<>>
  /\ msgs = [s \in 1 .. Batch |-> [namelen |-> 0, controllen |-> 0, flags |-> {}, len |-> 0, name |-> "none", oob |-> <<>>]]

\* The count, 2 more each time, is in the drops message, if the datagram has one.
Arrive(d) ==
  LET p == [d EXCEPT !.cmsgs = [k \in DOMAIN @ |-> [type |-> @[k].type, len |-> @[k].len, count |-> 2 * Len(sent)]]] IN
  /\ Len(sent) < MaxArrivals /\ sent' = Append(sent, p) /\ queue' = Append(queue, p)
  /\ UNCHANGED <<msgs, n, i, at, seen>>
-----------------------------------------------------------------------------
\* The kernel writes control messages one after the other into what room there is:
\* one that does not fit is cut short, and one without room for its header left out.
RECURSIVE Put(_, _)
Put(cmsgs, room) ==
  IF cmsgs = <<>> \/ room < hdr THEN <<>>
  ELSE LET c == Head(cmsgs)
           space == Min({cmsgAlign(c.len), room})
       IN <<[c EXCEPT !.len = Min({c.len, room})]>> \o Put(Tail(cmsgs), room - space)

RECURSIVE Space(_)
Space(oob) == IF oob = <<>> THEN 0 ELSE cmsgAlign(Head(oob).len) + Space(Tail(oob))

\* A datagram p received into header h.
Received(h, p) ==
  LET oob == Put(p.cmsgs, h.controllen) IN
  [h EXCEPT !.name = IF h.namelen < NameLen(p.from) THEN "cut off" ELSE p.from, !.namelen = NameLen(p.from),
            !.len = Min({p.size, MaxPacket}), !.flags = IF p.size > MaxPacket THEN @ \cup {"MSG_TRUNC"} ELSE @,
            !.oob = oob, !.controllen = Min({Space(oob), @})]
-----------------------------------------------------------------------------
\* recv: every header is made ready, then recvmmsg, again after EINTR.
ReadyNoControl(h) == [h EXCEPT !.namelen = SizeofSockaddrAny, !.flags = {}] \* mutated form
Ready(h) == [h EXCEPT !.namelen = SizeofSockaddrAny, !.controllen = OOBSize, !.flags = {}]

recv ==
  /\ at = "idle" /\ at' = "recvmmsg"
  /\ msgs' = [s \in 1 .. Batch |-> Ready(msgs[s])]
  /\ UNCHANGED <<sent, queue, n, i, seen>>

\* EAGAIN, after which the poller calls recv again, or an error for readFailed.
recvFails == at = "recvmmsg" /\ at' = "idle" /\ n' = 0 /\ UNCHANGED <<sent, queue, msgs, i, seen>>

recvmmsg(k) ==
  /\ at = "recvmmsg" /\ k <= Len(queue)
  /\ msgs' = [s \in 1 .. Batch |-> IF s <= k THEN Received(msgs[s], queue[s]) ELSE msgs[s]]
  /\ queue' = SubSeq(queue, k + 1, Len(queue))
  /\ n' = k /\ i' = 1 /\ at' = "messages" /\ UNCHANGED <<sent, seen>>

\* DropCount: the first control message of its type that is complete, or -1.
RECURSIVE DropCount(_, _)
DropCount(oob, left) ==
  IF left < hdr \/ oob = <<>> THEN -1
  ELSE LET c == Head(oob) IN
       IF c.len < hdr \/ c.len > left THEN -1
       ELSE IF c.type = "drops" /\ c.len >= hdr + 1 THEN c.count
       ELSE IF cmsgAlign(c.len) > left THEN -1
       ELSE DropCount(Tail(oob), left - cmsgAlign(c.len))

\* addr: IPv4 in IPv6 is unmapped.
addr(name) == IF name = "v4 in v6" THEN "v4" ELSE name

\* Message(i), and what readBatch makes of it.
Message ==
  LET m == msgs[i] IN
  /\ at = "messages" /\ i <= n
  /\ seen' = Append(seen, [from |-> addr(m.name), size |-> m.len, trunc |-> "MSG_TRUNC" \in m.flags,
                           drops |-> DropCount(m.oob, m.controllen)])
  /\ i' = i + 1 /\ UNCHANGED <<sent, queue, msgs, n, at>>

BatchDone == at = "messages" /\ i > n /\ at' = "idle" /\ UNCHANGED <<sent, queue, msgs, n, i, seen>>

Next ==
  \/ \E d \in Datagrams : Arrive(d)
  \/ recv \/ recvFails \/ Message \/ BatchDone
  \/ \E k \in 1 .. Batch : recvmmsg(k)

Spec == Init /\ [][Next]_vars
-----------------------------------------------------------------------------
\* The drop count that travels with a datagram, if there is room for it.
Attached(p) ==
  LET fits == {j \in DOMAIN p.cmsgs : p.cmsgs[j].type = "drops"
                 /\ Space(SubSeq(p.cmsgs, 1, j - 1)) + p.cmsgs[j].len <= OOBSize}
  IN IF fits = {} THEN -1 ELSE p.cmsgs[Min(fits)].count

\* readBatch sees every datagram as it arrived, in order: its source (IPv4 unmapped), its length,
\* whether it was cut off and the kernel's drop count, whatever an earlier datagram
\* left in the header that received it.
SeenAsArrived ==
  \A k \in DOMAIN seen : LET p == sent[k] IN
    seen[k] = [from |-> addr(p.from), size |-> Min({p.size, MaxPacket}), trunc |-> p.size > MaxPacket, drops |-> Attached(p)]
=============================================================================
