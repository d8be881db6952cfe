------------------------------- MODULE UdpConn -------------------------------
(* udp.Conn (udp/udp.go): the readers that Serve starts, each in read (Batch 1) *)
(* or readBatch, and concurrent Serve, Shutdown and Close calls, Close also by  *)
(* a reader with a fatal error, by a handler and by the context.AfterFunc that  *)
(* Serve registers.  Sending changes counters only: UdpSend.                      *)
EXTENDS Naturals, Sequences, FiniteSetsExt

CONSTANTS
  Readers,      \* Options.Readers
  Caller,       \* goroutines that call Serve, Shutdown or Close, once each
  AfterFunc,    \* the goroutine that context.AfterFunc starts
  Batch,        \* Conn.batch
  MaxArrivals,  \* bound on the datagrams received
  MaxErrors     \* bound on read errors

ASSUME UdpAssumption ==
  /\ Readers \in Nat \ {0} /\ Batch \in Nat \ {0}
  /\ AfterFunc \notin Caller /\ MaxArrivals \in Nat /\ MaxErrors \in Nat
  /\ (Caller \cup {AfterFunc}) \cap (0 .. Readers - 1) = {}

Reader == 0 .. Readers - 1
Goroutine == Reader \cup Caller \cup {AfterFunc}

VARIABLES
  socks,    \* fixed: how many sockets Listen opened
  conn,     \* Conn: serving, closed, fatal, done and closing (channels closed);
            \* closeOnce and, as history, why it ran
  open,     \* sockets not closed yet
  queue,    \* datagrams in each socket's receive queue, numbered as they arrived
  batch,    \* datagrams each reader has received and not handled yet
  log,      \* history: datagrams each reader handed over or counted as truncated
  pc,       \* where each goroutine is
  op,       \* the call it makes, or for a reader why it closes the Conn
  result,   \* what each call returned
  arrived,  \* datagrams each socket has received
  errors    \* read errors so far

Socket == 0 .. socks - 1
sock(r) == r % socks

dataVars == <<socks, queue, batch, log, arrived>>
vars == <<conn, open, dataVars, pc, op, result, errors>>

\* One socket, or one per reader with ReusePort.
Init ==
  /\ socks \in {1, Readers}
  /\ conn = [serving |-> FALSE, closed |-> FALSE, fatal |-> FALSE, done |-> FALSE,
             closing |-> FALSE, once |-> "free", why |-> "none"]
  /\ open = Socket
  /\ queue = [s \in Socket |-> <<>>] /\ arrived = [s \in Socket |-> 0]
  /\ batch = [r \in Reader |-> <<>>] /\ log = [r \in Reader |-> <<>>]
  /\ pc = [g \in Goroutine |-> "idle"] /\ op = [g \in Goroutine |-> "none"]
  /\ result = [c \in Caller |-> "none"] /\ errors = 0

Goto(g, from, to) == pc[g] = from /\ pc' = [pc EXCEPT ![g] = to]
-----------------------------------------------------------------------------
\* Serve and its callers.

AlreadyClosedNot == FALSE                                          \* mutated form
AlreadyClosed == conn.closed

Returns(c, from, r) == Goto(c, from, "returned") /\ result' = [result EXCEPT ![c] = r]

ServeRefused(c) ==
  /\ AlreadyClosed \/ conn.serving
  /\ Returns(c, "idle", IF AlreadyClosed THEN "ErrClosed" ELSE "twice")
  /\ op' = [op EXCEPT ![c] = "Serve"]
  /\ UNCHANGED <<conn, open, dataVars, errors>>

Serve(c) ==
  /\ pc[c] = "idle" /\ ~AlreadyClosed /\ ~conn.serving
  /\ conn' = [conn EXCEPT !.serving = TRUE]
  /\ pc' = [g \in Goroutine |-> IF g \in Reader THEN "read" ELSE IF g = c THEN "wait" ELSE pc[g]]
  /\ op' = [op EXCEPT ![c] = "Serve"]
  /\ UNCHANGED <<open, dataVars, result, errors>>

\* wg.Wait(), then c.fatal under the lock.
ServeWait(c) ==
  /\ \A r \in Reader : pc[r] = "exit"
  /\ Goto(c, "wait", "return")
  /\ result' = [result EXCEPT ![c] = IF conn.fatal THEN "fatal" ELSE "nil"]
  /\ UNCHANGED <<conn, open, dataVars, op, errors>>

\* The deferred stop() and close(c.done).
ServeReturn(c) ==
  /\ Goto(c, "return", "returned")
  /\ conn' = [conn EXCEPT !.done = TRUE]
  /\ UNCHANGED <<open, dataVars, op, result, errors>>

CallClose(c, o) ==
  /\ Goto(c, "idle", "once") /\ op' = [op EXCEPT ![c] = o]
  /\ UNCHANGED <<conn, open, dataVars, result, errors>>

ShutdownServing(c) ==
  /\ IF conn.serving
       THEN Goto(c, "check", "select") /\ UNCHANGED result
       ELSE Returns(c, "check", "nil")
  /\ UNCHANGED <<conn, open, dataVars, op, errors>>

ShutdownDone(c) ==
  /\ conn.done /\ Returns(c, "select", "nil")
  /\ UNCHANGED <<conn, open, dataVars, op, errors>>

ShutdownExpires(c) ==
  /\ Returns(c, "select", "ctx.Err")
  /\ UNCHANGED <<conn, open, dataVars, op, errors>>

\* Serve's ctx has ended, and the AfterFunc was not disarmed first.
AfterFuncRuns ==
  /\ conn.serving /\ ~conn.done
  /\ Goto(AfterFunc, "idle", "once") /\ op' = [op EXCEPT ![AfterFunc] = "Close"]
  /\ UNCHANGED <<conn, open, dataVars, result, errors>>
-----------------------------------------------------------------------------
\* Close, by whoever calls it; sync.Once lets the others wait for the first.

\* Where a goroutine goes on after Close.
AfterClose(g) ==
  CASE op[g] = "Shutdown" -> "check"
    [] op[g] = "handler" -> "handler"
    [] op[g] = "fatal" -> "exit"
    [] OTHER -> "returned"

OnceFirst(g) ==
  /\ conn.once = "free" /\ Goto(g, "once", "closing")
  /\ conn' = [conn EXCEPT !.once = "running", !.closed = TRUE, !.why = op[g]]
  /\ UNCHANGED <<open, dataVars, op, result, errors>>

CloseClosing(g) ==
  /\ Goto(g, "closing", "sockets") /\ conn' = [conn EXCEPT !.closing = TRUE]
  /\ UNCHANGED <<open, dataVars, op, result, errors>>

closeSockets(g) ==
  /\ pc[g] = "sockets" /\ open # {}
  /\ open' = open \ {Min(open)}
  /\ UNCHANGED <<conn, dataVars, pc, op, result, errors>>

OnceEnd(g) ==
  /\ open = {} /\ Goto(g, "sockets", AfterClose(g))
  /\ conn' = [conn EXCEPT !.once = "done"]
  /\ UNCHANGED <<open, dataVars, op, result, errors>>

OncePassed(g) ==
  /\ conn.once = "done" /\ Goto(g, "once", AfterClose(g))
  /\ UNCHANGED <<conn, open, dataVars, op, result, errors>>

Close(g) == OnceFirst(g) \/ CloseClosing(g) \/ closeSockets(g) \/ OnceEnd(g) \/ OncePassed(g)
-----------------------------------------------------------------------------
\* The readers.

Arrive(s) ==
  /\ s \in open /\ MapThenSumSet(LAMBDA q : arrived[q], Socket) < MaxArrivals
  /\ arrived' = [arrived EXCEPT ![s] = @ + 1]
  /\ queue' = [queue EXCEPT ![s] = Append(@, arrived[s] + 1)]
  /\ UNCHANGED <<conn, open, socks, batch, log, pc, op, result, errors>>

\* How many datagrams one read may return.
Readable(s) == 1 .. Min({Batch, Len(queue[s])})

\* A read that returns datagrams; it blocks while there are none.
Read(r) ==
  LET s == sock(r) IN
  /\ s \in open
  /\ \E n \in Readable(s) :
       /\ batch' = [batch EXCEPT ![r] = SubSeq(queue[s], 1, n)]
       /\ queue' = [queue EXCEPT ![s] = SubSeq(@, n + 1, Len(@))]
  /\ Goto(r, "read", "message")
  /\ UNCHANGED <<conn, open, socks, log, arrived, op, result, errors>>

\* The datagram that the loop over the batch takes next.
NextMessageLast(b) == b[Len(b)]                                    \* mutated form
NextMessage(b) == Head(b)

\* A datagram is counted as truncated, or counted and handed to the handler.
Message(r) ==
  /\ pc[r] = "message" /\ batch[r] # <<>>
  /\ log' = [log EXCEPT ![r] = Append(@, NextMessage(batch[r]))]
  /\ batch' = [batch EXCEPT ![r] = Tail(@)]
  /\ \E to \in {"message", "handler"} : Goto(r, "message", to)
  /\ UNCHANGED <<conn, open, socks, queue, arrived, op, result, errors>>

BatchDone(r) ==
  /\ batch[r] = <<>> /\ Goto(r, "message", "read")
  /\ UNCHANGED <<conn, open, dataVars, op, result, errors>>

HandlerReturns(r) ==
  /\ Goto(r, "handler", "message")
  /\ UNCHANGED <<conn, open, dataVars, op, result, errors>>

HandlerCloses(r) ==
  /\ op[r] = "none" /\ Goto(r, "handler", "once") /\ op' = [op EXCEPT ![r] = "handler"]
  /\ UNCHANGED <<conn, open, dataVars, result, errors>>

\* readFailed: the socket is closed.
ReadClosed(r) ==
  /\ sock(r) \notin open /\ Goto(r, "read", "exit")
  /\ UNCHANGED <<conn, open, dataVars, op, result, errors>>

\* readFailed: the platform reports a truncated datagram as an error.
ReadTruncated(r) ==
  LET s == sock(r) IN
  /\ pc[r] = "read" /\ s \in open /\ queue[s] # <<>>
  /\ log' = [log EXCEPT ![r] = Append(@, Head(queue[s]))]
  /\ queue' = [queue EXCEPT ![s] = Tail(@)]
  /\ UNCHANGED <<conn, open, socks, batch, arrived, pc, op, result, errors>>

\* readFailed: a transient error waits, any other is fatal.
ReadFails(r, to) ==
  /\ sock(r) \in open /\ errors < MaxErrors /\ errors' = errors + 1
  /\ Goto(r, "read", to)
  /\ UNCHANGED <<conn, open, dataVars, op, result>>

BackoffOver(r) ==
  /\ Goto(r, "backoff", "read")
  /\ UNCHANGED <<conn, open, dataVars, op, result, errors>>

WokenNever == FALSE                                                \* mutated form
Woken == conn.closing

BackoffClosed(r) ==
  /\ Woken /\ Goto(r, "backoff", "exit")
  /\ UNCHANGED <<conn, open, dataVars, op, result, errors>>

FatalUnrecorded == conn.fatal                                      \* mutated form
Fatal == conn.fatal \/ ~conn.closed

RecordFatal(r) ==
  /\ Goto(r, "fatal", "once") /\ op' = [op EXCEPT ![r] = "fatal"]
  /\ conn' = [conn EXCEPT !.fatal = Fatal]
  /\ UNCHANGED <<open, dataVars, result, errors>>
-----------------------------------------------------------------------------
CallerStep(c) ==
  \/ ServeWait(c) \/ ServeReturn(c)
  \/ ShutdownServing(c) \/ ShutdownDone(c)

ReaderStep(r) ==
  \/ Read(r) \/ Message(r) \/ BatchDone(r) \/ HandlerReturns(r)
  \/ ReadClosed(r) \/ BackoffClosed(r) \/ RecordFatal(r)

Next ==
  \/ \E c \in Caller : \/ ServeRefused(c) \/ Serve(c) \/ CallerStep(c) \/ ShutdownExpires(c)
                       \/ \E o \in {"Shutdown", "Close"} : CallClose(c, o)
  \/ \E g \in Goroutine : Close(g)
  \/ \E r \in Reader : \/ ReaderStep(r) \/ HandlerCloses(r) \/ ReadTruncated(r) \/ BackoffOver(r)
                       \/ \E to \in {"backoff", "fatal"} : ReadFails(r, to)
  \/ AfterFuncRuns
  \/ \E s \in Socket : Arrive(s)

Spec == Init /\ [][Next]_vars

\* Goroutines run and handlers return.  Nobody has to call anything, no datagram
\* and no error has to come, and no backoff timer has to fire.
Fairness ==
  /\ \A c \in Caller : WF_vars(CallerStep(c))
  /\ \A g \in Goroutine : WF_vars(Close(g))
  /\ \A r \in Reader : WF_vars(ReaderStep(r))

FairSpec == Spec /\ Fairness
-----------------------------------------------------------------------------
InClose == {"once", "closing", "sockets"}

\* A datagram that left a socket's queue is handed over or counted as truncated
\* by exactly one of the socket's readers, each in order of arrival, also when
\* the Conn is closed in the middle of a batch.
TakenOnceInOrder ==
  LET Taken(r) == log[r] \o batch[r]
      Mine(s) == {r \in Reader : sock(r) = s}
      Elems(q) == {q[i] : i \in DOMAIN q}
  IN /\ \A r \in Reader : \A i, j \in DOMAIN Taken(r) : i < j => Taken(r)[i] < Taken(r)[j]
     /\ \A r, q \in Reader : r # q /\ sock(r) = sock(q) => Elems(Taken(r)) \cap Elems(Taken(q)) = {}
     /\ \A s \in Socket : UNION {Elems(Taken(r)) : r \in Mine(s)} = 1 .. arrived[s] - Len(queue[s])

\* A reader is at work from the read that returns datagrams until it is done with them.
AtWork(r) == pc[r] \in {"message", "handler"} \/ (pc[r] \in InClose /\ op[r] = "handler")

Contract == INSTANCE Service WITH
  Work <- Reader, work <- {r \in Reader : AtWork(r)}, serving <- conn.serving, done <- conn.done,
  stop <- IF open = {} THEN "stopped" ELSE IF conn.closed THEN "stopping" ELSE "no",
  nils <- {c \in Caller : op[c] = "Shutdown" /\ pc[c] = "returned" /\ result[c] = "nil"}

\* udp.Conn implements the Service contract: once its sockets are closed no reader
\* gets a datagram, Serve returns when every reader has stopped, and Shutdown returns
\* nil only then: a Serve that races with it counts as serving or finds the Conn closed.
ImplementsService == Contract!Spec

\* Serve returns nil only if the stop was requested: when a reader's fatal error
\* is what closed the Conn, Serve reports a fatal error.
NilMeansRequested ==
  \A c \in Caller : op[c] = "Serve" /\ result[c] = "nil" => conn.why \in {"Shutdown", "Close", "handler"}

\* A stop, whoever makes it, ends Serve, and a reader in backoff does not have
\* to wait for its timer.
StopEndsServe == (conn.serving /\ \E g \in Goroutine : pc[g] = "once") ~> conn.done
=============================================================================
