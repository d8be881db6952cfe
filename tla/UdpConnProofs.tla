---------------------------- MODULE UdpConnProofs ----------------------------
(* Proofs about udp.Conn for any number of readers, sockets and callers and any *)
(* batch size: it implements the Service contract, Serve returns nil only when  *)
(* the stop was requested, and every datagram is taken once, in order.          *)
EXTENDS UdpConn, TLAPS

ReaderLabels == {"idle", "read", "message", "handler", "backoff", "fatal", "exit"} \cup InClose
CallerLabels == {"idle", "wait", "return", "check", "select", "returned"} \cup InClose
Ops == {"none", "Serve", "Shutdown", "Close", "handler", "fatal"}

Types ==
  /\ socks \in Nat \ {0}
  /\ conn \in [serving : BOOLEAN, closed : BOOLEAN, fatal : BOOLEAN, done : BOOLEAN,
               closing : BOOLEAN, once : {"free", "running", "done"}, why : Ops]
  /\ pc \in [Goroutine -> ReaderLabels \cup CallerLabels]
  /\ op \in [Goroutine -> Ops]
  /\ result \in [Caller -> {"none", "ErrClosed", "twice", "fatal", "nil", "ctx.Err"}]

\* Who is in which call: AfterClose leads a goroutine back to where it came from.
Calls ==
  /\ \A r \in Reader : /\ pc[r] \in ReaderLabels
                       /\ pc[r] \in InClose => op[r] \in {"handler", "fatal"}
  /\ \A c \in Caller \cup {AfterFunc} :
       /\ pc[c] \in CallerLabels
       /\ pc[c] \in {"wait", "return"} => op[c] = "Serve"
       /\ pc[c] \in {"check", "select"} => op[c] = "Shutdown"
       /\ pc[c] \in InClose => op[c] \in {"Shutdown", "Close"}

\* Sockets are closed under closeOnce, after closed is set, and before any Close returns.
Closed ==
  /\ ~conn.closed => open = Socket /\ conn.once = "free" /\ ~conn.closing
  /\ conn.once = "done" => open = {}
  /\ \A g \in Goroutine : /\ pc[g] \in {"closing", "sockets"} => conn.closed
                          /\ pc[g] \in {"check", "select"} => open = {}

\* Readers run only while Serve does, and stop only once the Conn is closed.
Reading ==
  /\ ~conn.serving => ~conn.done /\ \A r \in Reader : pc[r] = "idle"
  /\ \A r \in Reader : pc[r] = "exit" => conn.closed
  /\ \A c \in Caller : pc[c] \in {"wait", "return"} => conn.serving
  /\ conn.done \/ (\E c \in Caller : pc[c] = "return") => \A r \in Reader : pc[r] = "exit"

Inv == Types /\ Calls /\ Closed /\ Reading

\* The three kinds of goroutines are different ones.
LEMMA Apart == /\ Reader \cap (Caller \cup {AfterFunc}) = {}
               /\ Goroutine = Reader \cup (Caller \cup {AfterFunc})
               /\ AfterFunc \notin Caller
  BY UdpAssumption DEF Reader, Goroutine

\* A Conn that Listen returned: every socket open, no reader started.
LEMMA InitInv == Init => Inv
<1> SUFFICES ASSUME Init PROVE Inv
    OBVIOUS
<1>1. Types
      BY UdpAssumption DEF Init, Types, ReaderLabels, Ops
<1>2. Calls
      BY Apart DEF Init, Calls, ReaderLabels, CallerLabels, InClose
<1>3. Closed
      BY DEF Init, Closed
<1>4. Reading
      BY Apart, SMTT(30) DEF Init, Reading
<1>5. QED
      BY <1>1, <1>2, <1>3, <1>4 DEF Inv

\* Each step of a caller, of a goroutine in Close or of a reader keeps the invariant.
LEMMA NextInv == Inv /\ [Next]_vars => Inv'
<1> SUFFICES ASSUME Inv, [Next]_vars PROVE Inv'
    OBVIOUS
<1> USE Apart DEF Inv
<1>1. ASSUME NEW c \in Caller, ServeRefused(c) PROVE Inv'
  <2>1. Types'
        BY <1>1
        DEF ServeRefused, Returns, Goto, dataVars, Types, ReaderLabels, CallerLabels, InClose, Ops
  <2>2. Calls'
        BY <1>1 DEF ServeRefused, Returns, Goto, Types, Calls, ReaderLabels, CallerLabels, InClose
  <2>3. Closed'
        BY <1>1 DEF ServeRefused, Returns, Goto, dataVars, Types, Calls, Closed, Socket, InClose
  <2>4. Reading'
        BY <1>1 DEF ServeRefused, Returns, Goto, dataVars, Types, Calls, Closed, Reading, InClose
  <2>5. QED
        BY <2>1, <2>2, <2>3, <2>4
<1>2. ASSUME NEW c \in Caller, Serve(c) PROVE Inv'
  <2>1. Types'
        BY <1>2, Zenon DEF Serve, AlreadyClosed, dataVars, Types, ReaderLabels, CallerLabels, InClose, Ops
  <2>2. Calls'
        BY <1>2 DEF Serve, AlreadyClosed, Types, Calls, ReaderLabels, CallerLabels, InClose
  <2>3. Closed'
        BY <1>2 DEF Serve, AlreadyClosed, dataVars, Types, Calls, Closed, Socket, InClose
  <2>4. Reading'
        BY <1>2 DEF Serve, AlreadyClosed, dataVars, Types, Calls, Closed, Reading, InClose
  <2>5. QED
        BY <2>1, <2>2, <2>3, <2>4
<1>3. ASSUME NEW c \in Caller, ServeWait(c) PROVE Inv'
  <2>1. Types'
        BY <1>3 DEF ServeWait, Goto, dataVars, Types, ReaderLabels, CallerLabels, InClose, Ops
  <2>2. Calls'
        BY <1>3 DEF ServeWait, Goto, Types, Calls, ReaderLabels, CallerLabels, InClose
  <2>3. Closed'
        BY <1>3 DEF ServeWait, Goto, dataVars, Types, Calls, Closed, Socket, InClose
  <2>4. Reading'
        BY <1>3 DEF ServeWait, Goto, dataVars, Types, Calls, Closed, Reading, InClose
  <2>5. QED
        BY <2>1, <2>2, <2>3, <2>4
<1>4. ASSUME NEW c \in Caller, ServeReturn(c) PROVE Inv'
  <2>1. Types'
        BY <1>4, Zenon DEF ServeReturn, Goto, dataVars, Types, ReaderLabels, CallerLabels, InClose, Ops
  <2>2. Calls'
        BY <1>4 DEF ServeReturn, Goto, Types, Calls, ReaderLabels, CallerLabels, InClose
  <2>3. Closed'
        BY <1>4 DEF ServeReturn, Goto, dataVars, Types, Calls, Closed, Socket, InClose
  <2>4. Reading'
        BY <1>4 DEF ServeReturn, Goto, dataVars, Types, Calls, Closed, Reading, InClose
  <2>5. QED
        BY <2>1, <2>2, <2>3, <2>4
<1>5. ASSUME NEW c \in Caller, ShutdownServing(c) PROVE Inv'
  <2>1. Types'
        BY <1>5
        DEF ShutdownServing, Returns, Goto, dataVars, Types, ReaderLabels, CallerLabels, InClose,
           Ops
  <2>2. Calls'
        BY <1>5
        DEF ShutdownServing, Returns, Goto, Types, Calls, ReaderLabels, CallerLabels, InClose
  <2>3. Closed'
        BY <1>5 DEF ShutdownServing, Returns, Goto, dataVars, Types, Calls, Closed, Socket, InClose
  <2>4. Reading'
        BY <1>5 DEF ShutdownServing, Returns, Goto, dataVars, Types, Calls, Closed, Reading, InClose
  <2>5. QED
        BY <2>1, <2>2, <2>3, <2>4
<1>6. ASSUME NEW c \in Caller, ShutdownDone(c) PROVE Inv'
  <2>1. Types'
        BY <1>6
        DEF ShutdownDone, Returns, Goto, dataVars, Types, ReaderLabels, CallerLabels, InClose, Ops
  <2>2. Calls'
        BY <1>6 DEF ShutdownDone, Returns, Goto, Types, Calls, ReaderLabels, CallerLabels, InClose
  <2>3. Closed'
        BY <1>6 DEF ShutdownDone, Returns, Goto, dataVars, Types, Calls, Closed, Socket, InClose
  <2>4. Reading'
        BY <1>6 DEF ShutdownDone, Returns, Goto, dataVars, Types, Calls, Closed, Reading, InClose
  <2>5. QED
        BY <2>1, <2>2, <2>3, <2>4
<1>7. ASSUME NEW c \in Caller, ShutdownExpires(c) PROVE Inv'
  <2>1. Types'
        BY <1>7
        DEF ShutdownExpires, Returns, Goto, dataVars, Types, ReaderLabels, CallerLabels, InClose,
           Ops
  <2>2. Calls'
        BY <1>7
        DEF ShutdownExpires, Returns, Goto, Types, Calls, ReaderLabels, CallerLabels, InClose
  <2>3. Closed'
        BY <1>7 DEF ShutdownExpires, Returns, Goto, dataVars, Types, Calls, Closed, Socket, InClose
  <2>4. Reading'
        BY <1>7 DEF ShutdownExpires, Returns, Goto, dataVars, Types, Calls, Closed, Reading, InClose
  <2>5. QED
        BY <2>1, <2>2, <2>3, <2>4
<1>8. ASSUME NEW c \in Caller, NEW o \in {"Shutdown", "Close"}, CallClose(c, o) PROVE Inv'
  <2>1. Types'
        BY <1>8 DEF CallClose, Goto, dataVars, Types, ReaderLabels, CallerLabels, InClose, Ops
  <2>2. Calls'
        BY <1>8 DEF CallClose, Goto, Types, Calls, ReaderLabels, CallerLabels, InClose
  <2>3. Closed'
        BY <1>8 DEF CallClose, Goto, dataVars, Types, Calls, Closed, Socket, InClose
  <2>4. Reading'
        BY <1>8 DEF CallClose, Goto, dataVars, Types, Calls, Closed, Reading, InClose
  <2>5. QED
        BY <2>1, <2>2, <2>3, <2>4
<1>9. ASSUME NEW g \in Goroutine, OnceFirst(g) PROVE Inv'
  <2>1. Types'
        BY <1>9, Zenon DEF OnceFirst, Goto, dataVars, Types, ReaderLabels, CallerLabels, InClose, Ops
  <2>2. Calls'
        BY <1>9 DEF OnceFirst, Goto, Types, Calls, ReaderLabels, CallerLabels, InClose
  <2>3. Closed'
        BY <1>9 DEF OnceFirst, Goto, dataVars, Types, Calls, Closed, Socket, InClose
  <2>4. Reading'
        BY <1>9 DEF OnceFirst, Goto, dataVars, Types, Calls, Closed, Reading, InClose
  <2>5. QED
        BY <2>1, <2>2, <2>3, <2>4
<1>10. ASSUME NEW g \in Goroutine, CloseClosing(g) PROVE Inv'
  <2>1. Types'
        BY <1>10, Zenon DEF CloseClosing, Goto, dataVars, Types, ReaderLabels, CallerLabels, InClose, Ops
  <2>2. Calls'
        BY <1>10 DEF CloseClosing, Goto, Types, Calls, ReaderLabels, CallerLabels, InClose
  <2>3. Closed'
        BY <1>10 DEF CloseClosing, Goto, dataVars, Types, Calls, Closed, Socket, InClose
  <2>4. Reading'
        BY <1>10 DEF CloseClosing, Goto, dataVars, Types, Calls, Closed, Reading, InClose
  <2>5. QED
        BY <2>1, <2>2, <2>3, <2>4
<1>11. ASSUME NEW g \in Goroutine, closeSockets(g) PROVE Inv'
  <2>1. Types'
        BY <1>11 DEF closeSockets, dataVars, Types, ReaderLabels, CallerLabels, InClose, Ops
  <2>2. Calls'
        BY <1>11 DEF closeSockets, Types, Calls, ReaderLabels, CallerLabels, InClose
  <2>3. Closed'
        BY <1>11 DEF closeSockets, dataVars, Types, Calls, Closed, Socket, InClose
  <2>4. Reading'
        BY <1>11 DEF closeSockets, dataVars, Types, Calls, Closed, Reading, InClose
  <2>5. QED
        BY <2>1, <2>2, <2>3, <2>4
<1>12. ASSUME NEW g \in Goroutine, OnceEnd(g) PROVE Inv'
  <2>1. Types'
        BY <1>12
        DEF OnceEnd, Goto, AfterClose, dataVars, Types, ReaderLabels, CallerLabels, InClose, Ops
  <2>2. Calls'
        BY <1>12 DEF OnceEnd, Goto, AfterClose, Types, Calls, ReaderLabels, CallerLabels, InClose
  <2>3. Closed'
        BY <1>12 DEF OnceEnd, Goto, AfterClose, dataVars, Types, Calls, Closed, Socket, InClose
  <2>4. Reading'
        BY <1>12 DEF OnceEnd, Goto, AfterClose, dataVars, Types, Calls, Closed, Reading, InClose
  <2>5. QED
        BY <2>1, <2>2, <2>3, <2>4
<1>13. ASSUME NEW g \in Goroutine, OncePassed(g) PROVE Inv'
  <2>1. Types'
        BY <1>13
        DEF OncePassed, Goto, AfterClose, dataVars, Types, ReaderLabels, CallerLabels, InClose, Ops
  <2>2. Calls'
        BY <1>13 DEF OncePassed, Goto, AfterClose, Types, Calls, ReaderLabels, CallerLabels, InClose
  <2>3. Closed'
        BY <1>13 DEF OncePassed, Goto, AfterClose, dataVars, Types, Calls, Closed, Socket, InClose
  <2>4. Reading'
        BY <1>13 DEF OncePassed, Goto, AfterClose, dataVars, Types, Calls, Closed, Reading, InClose
  <2>5. QED
        BY <2>1, <2>2, <2>3, <2>4
<1>14. ASSUME NEW r \in Reader, Read(r) PROVE Inv'
  <2>1. Types'
        BY <1>14 DEF Read, Goto, dataVars, Types, ReaderLabels, CallerLabels, InClose, Ops
  <2>2. Calls'
        BY <1>14 DEF Read, Goto, Types, Calls, ReaderLabels, CallerLabels, InClose
  <2>3. Closed'
        BY <1>14 DEF Read, Goto, dataVars, Types, Calls, Closed, Socket, InClose
  <2>4. Reading'
        BY <1>14 DEF Read, Goto, dataVars, Types, Calls, Closed, Reading, InClose
  <2>5. QED
        BY <2>1, <2>2, <2>3, <2>4
<1>15. ASSUME NEW r \in Reader, Message(r) PROVE Inv'
  <2>1. Types'
        BY <1>15 DEF Message, Goto, dataVars, Types, ReaderLabels, CallerLabels, InClose, Ops
  <2>2. Calls'
        BY <1>15 DEF Message, Goto, Types, Calls, ReaderLabels, CallerLabels, InClose
  <2>3. Closed'
        BY <1>15 DEF Message, Goto, dataVars, Types, Calls, Closed, Socket, InClose
  <2>4. Reading'
        BY <1>15 DEF Message, Goto, dataVars, Types, Calls, Closed, Reading, InClose
  <2>5. QED
        BY <2>1, <2>2, <2>3, <2>4
<1>16. ASSUME NEW r \in Reader, BatchDone(r) PROVE Inv'
  <2>1. Types'
        BY <1>16 DEF BatchDone, Goto, dataVars, Types, ReaderLabels, CallerLabels, InClose, Ops
  <2>2. Calls'
        BY <1>16 DEF BatchDone, Goto, Types, Calls, ReaderLabels, CallerLabels, InClose
  <2>3. Closed'
        BY <1>16 DEF BatchDone, Goto, dataVars, Types, Calls, Closed, Socket, InClose
  <2>4. Reading'
        BY <1>16 DEF BatchDone, Goto, dataVars, Types, Calls, Closed, Reading, InClose
  <2>5. QED
        BY <2>1, <2>2, <2>3, <2>4
<1>17. ASSUME NEW r \in Reader, HandlerReturns(r) PROVE Inv'
  <2>1. Types'
        BY <1>17 DEF HandlerReturns, Goto, dataVars, Types, ReaderLabels, CallerLabels, InClose, Ops
  <2>2. Calls'
        BY <1>17 DEF HandlerReturns, Goto, Types, Calls, ReaderLabels, CallerLabels, InClose
  <2>3. Closed'
        BY <1>17 DEF HandlerReturns, Goto, dataVars, Types, Calls, Closed, Socket, InClose
  <2>4. Reading'
        BY <1>17 DEF HandlerReturns, Goto, dataVars, Types, Calls, Closed, Reading, InClose
  <2>5. QED
        BY <2>1, <2>2, <2>3, <2>4
<1>18. ASSUME NEW r \in Reader, ReadClosed(r) PROVE Inv'
  <2>1. Types'
        BY <1>18 DEF ReadClosed, Goto, dataVars, Types, ReaderLabels, CallerLabels, InClose, Ops
  <2>2. Calls'
        BY <1>18 DEF ReadClosed, Goto, Types, Calls, ReaderLabels, CallerLabels, InClose
  <2>3. Closed'
        BY <1>18 DEF ReadClosed, Goto, dataVars, Types, Calls, Closed, Socket, InClose
  <2>. sock(r) \in Socket
       BY UdpAssumption DEF Types, Reader, sock, Socket
  <2>4. Reading'
        BY <1>18 DEF ReadClosed, Goto, dataVars, Types, Calls, Closed, Reading, InClose
  <2>5. QED
        BY <2>1, <2>2, <2>3, <2>4
<1>19. ASSUME NEW r \in Reader, BackoffClosed(r) PROVE Inv'
  <2>1. Types'
        BY <1>19
        DEF BackoffClosed, Goto, Woken, dataVars, Types, ReaderLabels, CallerLabels, InClose, Ops
  <2>2. Calls'
        BY <1>19 DEF BackoffClosed, Goto, Woken, Types, Calls, ReaderLabels, CallerLabels, InClose
  <2>3. Closed'
        BY <1>19 DEF BackoffClosed, Goto, Woken, dataVars, Types, Calls, Closed, Socket, InClose
  <2>4. Reading'
        BY <1>19 DEF BackoffClosed, Goto, Woken, dataVars, Types, Calls, Closed, Reading, InClose
  <2>5. QED
        BY <2>1, <2>2, <2>3, <2>4
<1>20. ASSUME NEW r \in Reader, RecordFatal(r) PROVE Inv'
  <2>1. Types'
        BY <1>20, Zenon
        DEF RecordFatal, Goto, Fatal, dataVars, Types, ReaderLabels, CallerLabels, InClose, Ops
  <2>2. Calls'
        BY <1>20 DEF RecordFatal, Goto, Fatal, Types, Calls, ReaderLabels, CallerLabels, InClose
  <2>3. Closed'
        BY <1>20 DEF RecordFatal, Goto, Fatal, dataVars, Types, Calls, Closed, Socket, InClose
  <2>4. Reading'
        BY <1>20 DEF RecordFatal, Goto, Fatal, dataVars, Types, Calls, Closed, Reading, InClose
  <2>5. QED
        BY <2>1, <2>2, <2>3, <2>4
<1>21. ASSUME NEW r \in Reader, HandlerCloses(r) PROVE Inv'
  <2>1. Types'
        BY <1>21 DEF HandlerCloses, Goto, dataVars, Types, ReaderLabels, CallerLabels, InClose, Ops
  <2>2. Calls'
        BY <1>21 DEF HandlerCloses, Goto, Types, Calls, ReaderLabels, CallerLabels, InClose
  <2>3. Closed'
        BY <1>21 DEF HandlerCloses, Goto, dataVars, Types, Calls, Closed, Socket, InClose
  <2>4. Reading'
        BY <1>21 DEF HandlerCloses, Goto, dataVars, Types, Calls, Closed, Reading, InClose
  <2>5. QED
        BY <2>1, <2>2, <2>3, <2>4
<1>22. ASSUME NEW r \in Reader, ReadTruncated(r) PROVE Inv'
  <2>1. Types'
        BY <1>22 DEF ReadTruncated, dataVars, Types, ReaderLabels, CallerLabels, InClose, Ops
  <2>2. Calls'
        BY <1>22 DEF ReadTruncated, Types, Calls, ReaderLabels, CallerLabels, InClose
  <2>3. Closed'
        BY <1>22 DEF ReadTruncated, dataVars, Types, Calls, Closed, Socket, InClose
  <2>4. Reading'
        BY <1>22 DEF ReadTruncated, dataVars, Types, Calls, Closed, Reading, InClose
  <2>5. QED
        BY <2>1, <2>2, <2>3, <2>4
<1>23. ASSUME NEW r \in Reader, BackoffOver(r) PROVE Inv'
  <2>1. Types'
        BY <1>23 DEF BackoffOver, Goto, dataVars, Types, ReaderLabels, CallerLabels, InClose, Ops
  <2>2. Calls'
        BY <1>23 DEF BackoffOver, Goto, Types, Calls, ReaderLabels, CallerLabels, InClose
  <2>3. Closed'
        BY <1>23 DEF BackoffOver, Goto, dataVars, Types, Calls, Closed, Socket, InClose
  <2>4. Reading'
        BY <1>23 DEF BackoffOver, Goto, dataVars, Types, Calls, Closed, Reading, InClose
  <2>5. QED
        BY <2>1, <2>2, <2>3, <2>4
<1>24. ASSUME NEW r \in Reader, NEW to \in {"backoff", "fatal"}, ReadFails(r, to) PROVE Inv'
  <2>1. Types'
        BY <1>24 DEF ReadFails, Goto, dataVars, Types, ReaderLabels, CallerLabels, InClose, Ops
  <2>2. Calls'
        BY <1>24 DEF ReadFails, Goto, Types, Calls, ReaderLabels, CallerLabels, InClose
  <2>3. Closed'
        BY <1>24 DEF ReadFails, Goto, dataVars, Types, Calls, Closed, Socket, InClose
  <2>4. Reading'
        BY <1>24 DEF ReadFails, Goto, dataVars, Types, Calls, Closed, Reading, InClose
  <2>5. QED
        BY <2>1, <2>2, <2>3, <2>4
<1>25. CASE AfterFuncRuns
  <2>1. Types'
        BY <1>25 DEF AfterFuncRuns, Goto, dataVars, Types, ReaderLabels, CallerLabels, InClose, Ops
  <2>2. Calls'
        BY <1>25 DEF AfterFuncRuns, Goto, Types, Calls, ReaderLabels, CallerLabels, InClose
  <2>3. Closed'
        BY <1>25 DEF AfterFuncRuns, Goto, dataVars, Types, Calls, Closed, Socket, InClose
  <2>4. Reading'
        BY <1>25 DEF AfterFuncRuns, Goto, dataVars, Types, Calls, Closed, Reading, InClose
  <2>5. QED
        BY <2>1, <2>2, <2>3, <2>4
<1>26. ASSUME NEW s \in Socket, Arrive(s) PROVE Inv'
  <2>1. Types'
        BY <1>26 DEF Arrive, dataVars, Types, ReaderLabels, CallerLabels, InClose, Ops
  <2>2. Calls'
        BY <1>26 DEF Arrive, Types, Calls, ReaderLabels, CallerLabels, InClose
  <2>3. Closed'
        BY <1>26 DEF Arrive, dataVars, Types, Calls, Closed, Socket, InClose
  <2>4. Reading'
        BY <1>26 DEF Arrive, dataVars, Types, Calls, Closed, Reading, InClose
  <2>5. QED
        BY <2>1, <2>2, <2>3, <2>4
<1>27. CASE UNCHANGED vars
      BY <1>27 DEF vars, dataVars, Types, Calls, Closed, Reading, Socket
<1>28. QED
      BY <1>1, <1>2, <1>3, <1>4, <1>5, <1>6, <1>7, <1>8, <1>9, <1>10, <1>11, <1>12, <1>13, <1>14,
         <1>15, <1>16, <1>17, <1>18, <1>19, <1>20, <1>21, <1>22, <1>23, <1>24, <1>25, <1>26, <1>27
      DEF Next, CallerStep, ReaderStep, Close
-----------------------------------------------------------------------------
(* The refinement *)

\* Contract's substitutions, by name.
Busy == {r \in Reader : AtWork(r)}
Phase == IF open = {} THEN "stopped" ELSE IF conn.closed THEN "stopping" ELSE "no"
Nils == {c \in Caller : op[c] = "Shutdown" /\ pc[c] = "returned" /\ result[c] = "nil"}

\* Each step maps to a step of the Service contract or changes nothing it can see.
LEMMA NextImplements == Inv /\ Inv' /\ [Next]_vars => [Contract!Next]_(Contract!vars)
<1> SUFFICES ASSUME Inv, Inv', [Next]_vars PROVE [Contract!Next]_(Contract!vars)
    OBVIOUS
<1> DEFINE Stutter == UNCHANGED <<conn.serving, Phase, Busy, conn.done, Nils>>
<1>s. Stutter => [Contract!Next]_(Contract!vars)
      BY DEF Contract!vars, Busy, Phase, Nils
<1> HIDE DEF Stutter
<1> USE Apart DEF Inv
<1>1. ASSUME NEW c \in Caller, ServeRefused(c) PROVE Stutter
  <2>1. UNCHANGED <<conn.serving, Phase, conn.done>>
        BY <1>1 DEF ServeRefused, Returns, Goto, Types, Phase
  <2>2. Busy' = Busy
        BY <1>1
        DEF ServeRefused, Returns, Goto, Types, Calls, Reading, Busy, AtWork, ReaderLabels, InClose
  <2>3. Nils' = Nils
        BY <1>1 DEF ServeRefused, Returns, Goto, Types, Calls, Nils, InClose
  <2>4. QED
        BY <2>1, <2>2, <2>3 DEF Stutter
<1>2. ASSUME NEW c \in Caller, ServeWait(c) PROVE Stutter
  <2>1. UNCHANGED <<conn.serving, Phase, conn.done>>
        BY <1>2 DEF ServeWait, Goto, Types, Phase
  <2>2. Busy' = Busy
        BY <1>2 DEF ServeWait, Goto, Types, Calls, Reading, Busy, AtWork, ReaderLabels, InClose
  <2>3. Nils' = Nils
        BY <1>2 DEF ServeWait, Goto, Types, Calls, Nils, InClose
  <2>4. QED
        BY <2>1, <2>2, <2>3 DEF Stutter
<1>3. ASSUME NEW c \in Caller, ShutdownExpires(c) PROVE Stutter
  <2>1. UNCHANGED <<conn.serving, Phase, conn.done>>
        BY <1>3 DEF ShutdownExpires, Returns, Goto, Types, Phase
  <2>2. Busy' = Busy
        BY <1>3
        DEF ShutdownExpires, Returns, Goto, Types, Calls, Reading, Busy, AtWork, ReaderLabels,
           InClose
  <2>3. Nils' = Nils
        BY <1>3 DEF ShutdownExpires, Returns, Goto, Types, Calls, Nils, InClose
  <2>4. QED
        BY <2>1, <2>2, <2>3 DEF Stutter
<1>4. ASSUME NEW c \in Caller, NEW o \in {"Shutdown", "Close"}, CallClose(c, o) PROVE Stutter
  <2>1. UNCHANGED <<conn.serving, Phase, conn.done>>
        BY <1>4 DEF CallClose, Goto, Types, Phase
  <2>2. Busy' = Busy
        BY <1>4 DEF CallClose, Goto, Types, Calls, Reading, Busy, AtWork, ReaderLabels, InClose
  <2>3. Nils' = Nils
        BY <1>4 DEF CallClose, Goto, Types, Calls, Nils, InClose
  <2>4. QED
        BY <2>1, <2>2, <2>3 DEF Stutter
<1>5. ASSUME NEW g \in Goroutine, CloseClosing(g) PROVE Stutter
  <2>1. UNCHANGED <<conn.serving, Phase, conn.done>>
        BY <1>5 DEF CloseClosing, Goto, Types, Phase
  <2>2. Busy' = Busy
        BY <1>5 DEF CloseClosing, Goto, Types, Calls, Reading, Busy, AtWork, ReaderLabels, InClose
  <2>3. Nils' = Nils
        BY <1>5 DEF CloseClosing, Goto, Types, Calls, Nils, InClose
  <2>4. QED
        BY <2>1, <2>2, <2>3 DEF Stutter
<1>6. ASSUME NEW g \in Goroutine, OnceEnd(g) PROVE Stutter
  <2>1. UNCHANGED <<conn.serving, Phase, conn.done>>
        BY <1>6 DEF OnceEnd, Goto, AfterClose, Types, Phase
  <2>2. Busy' = Busy
        BY <1>6
        DEF OnceEnd, Goto, AfterClose, Types, Calls, Reading, Busy, AtWork, ReaderLabels, InClose
  <2>3. Nils' = Nils
        BY <1>6 DEF OnceEnd, Goto, AfterClose, Types, Calls, Nils, InClose
  <2>4. QED
        BY <2>1, <2>2, <2>3 DEF Stutter
<1>7. ASSUME NEW g \in Goroutine, OncePassed(g) PROVE Stutter
  <2>1. UNCHANGED <<conn.serving, Phase, conn.done>>
        BY <1>7 DEF OncePassed, Goto, AfterClose, Types, Phase
  <2>2. Busy' = Busy
        BY <1>7
        DEF OncePassed, Goto, AfterClose, Types, Calls, Reading, Busy, AtWork, ReaderLabels, InClose
  <2>3. Nils' = Nils
        BY <1>7 DEF OncePassed, Goto, AfterClose, Types, Calls, Nils, InClose
  <2>4. QED
        BY <2>1, <2>2, <2>3 DEF Stutter
<1>8. ASSUME NEW r \in Reader, Message(r) PROVE Stutter
  <2>1. UNCHANGED <<conn.serving, Phase, conn.done>>
        BY <1>8, SMTT(30) DEF Message, Goto, Types, Phase
  <2>2. Busy' = Busy
        BY <1>8 DEF Message, Goto, Types, Calls, Reading, Busy, AtWork, ReaderLabels, InClose
  <2>3. Nils' = Nils
        BY <1>8 DEF Message, Goto, Types, Calls, Nils, InClose
  <2>4. QED
        BY <2>1, <2>2, <2>3 DEF Stutter
<1>9. ASSUME NEW r \in Reader, HandlerReturns(r) PROVE Stutter
  <2>1. UNCHANGED <<conn.serving, Phase, conn.done>>
        BY <1>9 DEF HandlerReturns, Goto, Types, Phase
  <2>2. Busy' = Busy
        BY <1>9 DEF HandlerReturns, Goto, Types, Calls, Reading, Busy, AtWork, ReaderLabels, InClose
  <2>3. Nils' = Nils
        BY <1>9 DEF HandlerReturns, Goto, Types, Calls, Nils, InClose
  <2>4. QED
        BY <2>1, <2>2, <2>3 DEF Stutter
<1>10. ASSUME NEW r \in Reader, ReadClosed(r) PROVE Stutter
  <2>1. UNCHANGED <<conn.serving, Phase, conn.done>>
        BY <1>10 DEF ReadClosed, Goto, Types, Phase
  <2>2. Busy' = Busy
        BY <1>10 DEF ReadClosed, Goto, Types, Calls, Reading, Busy, AtWork, ReaderLabels, InClose
  <2>3. Nils' = Nils
        BY <1>10 DEF ReadClosed, Goto, Types, Calls, Nils, InClose
  <2>4. QED
        BY <2>1, <2>2, <2>3 DEF Stutter
<1>11. ASSUME NEW r \in Reader, BackoffClosed(r) PROVE Stutter
  <2>1. UNCHANGED <<conn.serving, Phase, conn.done>>
        BY <1>11, SMTT(30) DEF BackoffClosed, Goto, Types, Phase
  <2>2. Busy' = Busy
        BY <1>11 DEF BackoffClosed, Goto, Types, Calls, Reading, Busy, AtWork, ReaderLabels, InClose
  <2>3. Nils' = Nils
        BY <1>11 DEF BackoffClosed, Goto, Types, Calls, Nils, InClose
  <2>4. QED
        BY <2>1, <2>2, <2>3 DEF Stutter
<1>12. ASSUME NEW r \in Reader, RecordFatal(r) PROVE Stutter
  <2>1. UNCHANGED <<conn.serving, Phase, conn.done>>
        BY <1>12 DEF RecordFatal, Goto, Types, Phase
  <2>2. Busy' = Busy
        BY <1>12 DEF RecordFatal, Goto, Types, Calls, Reading, Busy, AtWork, ReaderLabels, InClose
  <2>3. Nils' = Nils
        BY <1>12 DEF RecordFatal, Goto, Types, Calls, Nils, InClose
  <2>4. QED
        BY <2>1, <2>2, <2>3 DEF Stutter
<1>13. ASSUME NEW r \in Reader, HandlerCloses(r) PROVE Stutter
  <2>1. UNCHANGED <<conn.serving, Phase, conn.done>>
        BY <1>13 DEF HandlerCloses, Goto, Types, Phase
  <2>2. Busy' = Busy
        BY <1>13 DEF HandlerCloses, Goto, Types, Calls, Reading, Busy, AtWork, ReaderLabels, InClose
  <2>3. Nils' = Nils
        BY <1>13 DEF HandlerCloses, Goto, Types, Calls, Nils, InClose
  <2>4. QED
        BY <2>1, <2>2, <2>3 DEF Stutter
<1>14. ASSUME NEW r \in Reader, ReadTruncated(r) PROVE Stutter
  <2>1. UNCHANGED <<conn.serving, Phase, conn.done>>
        BY <1>14, SMTT(30) DEF ReadTruncated, Types, Phase
  <2>2. Busy' = Busy
        BY <1>14 DEF ReadTruncated, Types, Calls, Reading, Busy, AtWork, ReaderLabels, InClose
  <2>3. Nils' = Nils
        BY <1>14 DEF ReadTruncated, Types, Calls, Nils, InClose
  <2>4. QED
        BY <2>1, <2>2, <2>3 DEF Stutter
<1>15. ASSUME NEW r \in Reader, BackoffOver(r) PROVE Stutter
  <2>1. UNCHANGED <<conn.serving, Phase, conn.done>>
        BY <1>15 DEF BackoffOver, Goto, Types, Phase
  <2>2. Busy' = Busy
        BY <1>15 DEF BackoffOver, Goto, Types, Calls, Reading, Busy, AtWork, ReaderLabels, InClose
  <2>3. Nils' = Nils
        BY <1>15 DEF BackoffOver, Goto, Types, Calls, Nils, InClose
  <2>4. QED
        BY <2>1, <2>2, <2>3 DEF Stutter
<1>16. ASSUME NEW r \in Reader, NEW to \in {"backoff", "fatal"}, ReadFails(r, to) PROVE Stutter
  <2>1. UNCHANGED <<conn.serving, Phase, conn.done>>
        BY <1>16, SMTT(30) DEF ReadFails, Goto, Types, Phase
  <2>2. Busy' = Busy
        BY <1>16 DEF ReadFails, Goto, Types, Calls, Reading, Busy, AtWork, ReaderLabels, InClose
  <2>3. Nils' = Nils
        BY <1>16 DEF ReadFails, Goto, Types, Calls, Nils, InClose
  <2>4. QED
        BY <2>1, <2>2, <2>3 DEF Stutter
<1>17. ASSUME AfterFuncRuns PROVE Stutter
  <2>1. UNCHANGED <<conn.serving, Phase, conn.done>>
        BY <1>17, Zenon DEF AfterFuncRuns, Goto, Types, Phase
  <2>2. Busy' = Busy
        BY <1>17 DEF AfterFuncRuns, Goto, Types, Calls, Reading, Busy, AtWork, ReaderLabels, InClose
  <2>3. Nils' = Nils
        BY <1>17 DEF AfterFuncRuns, Goto, Types, Calls, Nils, InClose
  <2>4. QED
        BY <2>1, <2>2, <2>3 DEF Stutter
<1>18. ASSUME NEW s \in Socket, Arrive(s) PROVE Stutter
  <2>1. UNCHANGED <<conn.serving, Phase, conn.done>>
        BY <1>18 DEF Arrive, Types, Phase
  <2>2. Busy' = Busy
        BY <1>18 DEF Arrive, Types, Calls, Reading, Busy, AtWork, ReaderLabels, InClose
  <2>3. Nils' = Nils
        BY <1>18 DEF Arrive, Types, Calls, Nils, InClose
  <2>4. QED
        BY <2>1, <2>2, <2>3 DEF Stutter
<1>19. ASSUME NEW c \in Caller, Serve(c) PROVE Contract!Serve
  <2>1. ~conn.serving /\ Phase = "no" /\ conn'.serving = TRUE /\ UNCHANGED <<Phase, conn.done>>
        BY <1>19, UdpAssumption, SMTT(30) DEF Serve, AlreadyClosed, Types, Closed, Phase, Socket
  <2>2. Busy' = Busy
        BY <1>19 DEF Serve, Types, Reading, Busy, AtWork, InClose
  <2>3. Nils' = Nils
        BY <1>19 DEF Serve, Types, Nils
  <2>4. QED
        BY <2>1, <2>2, <2>3 DEF Contract!Serve, Busy, Phase, Nils
<1>20. ASSUME NEW c \in Caller, ServeReturn(c) PROVE Contract!ServeReturns
  <2>1. \A r \in Reader : pc[r] = "exit"
        BY <1>20 DEF ServeReturn, Goto, Reading
  <2>2. conn.serving /\ Phase # "no" /\ conn'.done = TRUE /\ UNCHANGED <<conn.serving, Phase>>
    <3>1. 0 \in Reader
          BY UdpAssumption DEF Reader
    <3>2. QED
          BY <1>20, <2>1, <3>1 DEF ServeReturn, Goto, Types, Reading, Phase
  <2>3. Busy = {} /\ Busy' = Busy
        BY <1>20, <2>1 DEF ServeReturn, Goto, Types, Busy, AtWork, InClose
  <2>4. Nils' = Nils
        BY <1>20 DEF ServeReturn, Goto, Types, Calls, Nils
  <2>5. QED
        BY <2>2, <2>3, <2>4 DEF Contract!ServeReturns, Busy, Phase, Nils
<1>21. ASSUME NEW c \in Caller, ShutdownServing(c) \/ ShutdownDone(c)
       PROVE  Stutter \/ Contract!ShutdownNil(c)
  <2>1. Phase = "stopped" /\ UNCHANGED <<conn.serving, Phase, conn.done>>
        BY <1>21 DEF ShutdownServing, ShutdownDone, Returns, Goto, Closed, Phase
  <2>2. Busy' = Busy
        BY <1>21 DEF ShutdownServing, ShutdownDone, Returns, Goto, Types, Busy, AtWork, InClose
  <2>3. CASE ShutdownServing(c) /\ conn.serving
    <3>1. Nils' = Nils
          BY <2>3 DEF ShutdownServing, Goto, Types, Nils
    <3>2. QED
          BY <2>1, <2>2, <3>1 DEF Stutter
  <2>4. CASE (ShutdownServing(c) /\ ~conn.serving) \/ ShutdownDone(c)
    <3>1. Nils' = Nils \cup {c}
          BY <2>4 DEF ShutdownServing, ShutdownDone, Returns, Goto, Types, Calls, Nils
    <3>2. conn.done \/ ~conn.serving
          BY <2>4, SMTT(30) DEF ShutdownDone
    <3>3. QED
          BY <2>1, <2>2, <3>1, <3>2 DEF Contract!ShutdownNil, Busy, Phase, Nils
  <2>5. QED
        BY <1>21, <2>3, <2>4
<1>22. ASSUME NEW g \in Goroutine, OnceFirst(g) \/ closeSockets(g) PROVE Stutter \/ Contract!Stop
  <2>1. UNCHANGED <<conn.serving, conn.done>>
        BY <1>22, ZenonT(30) DEF OnceFirst, closeSockets, Types
  <2>2. Phase' = Phase \/ (Phase = "no" /\ Phase' \in {"stopping", "stopped"})
          \/ (Phase = "stopping" /\ Phase' = "stopped")
        BY <1>22, Zenon DEF OnceFirst, closeSockets, Types, Closed, Phase
  <2>3. Busy' = Busy
        BY <1>22 DEF OnceFirst, closeSockets, Goto, Types, Busy, AtWork, InClose
  <2>4. Nils' = Nils
        BY <1>22 DEF OnceFirst, closeSockets, Goto, Types, Nils
  <2>5. QED
        BY <2>1, <2>2, <2>3, <2>4 DEF Stutter, Contract!Stop, Busy, Phase, Nils
<1>23. ASSUME NEW r \in Reader, Read(r) PROVE Contract!Accept(r)
  <2>1. /\ conn.serving /\ ~conn.done /\ Phase # "stopped"
        /\ UNCHANGED <<conn.serving, Phase, conn.done>>
        BY <1>23 DEF Read, Goto, Reading, Phase
  <2>2. Busy' = Busy \cup {r}
        BY <1>23 DEF Read, Goto, Types, Busy, AtWork, InClose
  <2>3. Nils' = Nils
        BY <1>23 DEF Read, Goto, Types, Nils
  <2>4. QED
        BY <2>1, <2>2, <2>3 DEF Contract!Accept, Busy, Phase, Nils
<1>24. ASSUME NEW r \in Reader, BatchDone(r) PROVE Contract!Finish(r)
  <2>1. UNCHANGED <<conn.serving, Phase, conn.done>>
        BY <1>24 DEF BatchDone, Phase
  <2>2. Busy' = Busy \ {r}
        BY <1>24 DEF BatchDone, Goto, Types, Busy, AtWork, InClose
  <2>3. Nils' = Nils
        BY <1>24 DEF BatchDone, Goto, Types, Nils
  <2>4. QED
        BY <2>1, <2>2, <2>3 DEF Contract!Finish, Busy, Phase, Nils
<1>25. ASSUME UNCHANGED vars PROVE Stutter
       BY <1>25 DEF vars, dataVars, Stutter, Phase, Busy, AtWork, Nils
<1>26. QED
  <2>1. CASE \E c \in Caller : \/ ServeRefused(c) \/ Serve(c) \/ CallerStep(c) \/ ShutdownExpires(c)
                              \/ \E o \in {"Shutdown", "Close"} : CallClose(c, o)
        BY <2>1, <1>s, <1>1, <1>2, <1>3, <1>4, <1>19, <1>20, <1>21 DEF CallerStep, Contract!Next
  <2>2. CASE \E g \in Goroutine : Close(g)
        BY <2>2, <1>s, <1>5, <1>6, <1>7, <1>22 DEF Close, Contract!Next
  <2>3. CASE \E r \in Reader :
               \/ ReaderStep(r) \/ HandlerCloses(r) \/ ReadTruncated(r) \/ BackoffOver(r)
               \/ \E to \in {"backoff", "fatal"} : ReadFails(r, to)
        BY <2>3, <1>s, <1>8, <1>9, <1>10, <1>11, <1>12, <1>13, <1>14, <1>15, <1>16, <1>23, <1>24
        DEF ReaderStep, Contract!Next
  <2>4. CASE AfterFuncRuns \/ (\E s \in Socket : Arrive(s)) \/ UNCHANGED vars
        BY <2>4, <1>s, <1>17, <1>18, <1>25
  <2>5. QED
        BY <2>1, <2>2, <2>3, <2>4 DEF Next

\* udp.Conn implements the Service contract for every number of readers, sockets and
\* callers and every batch size: what ImplementsService checks on a small instance.
THEOREM ConnImplementsService == Spec => ImplementsService
<1>1. Init => Contract!Init
  <2>1. Init => Busy = {} /\ Nils = {}
        BY DEF Init, Busy, AtWork, InClose, Nils, Goroutine
  <2>2. Init => conn.serving = FALSE /\ conn.done = FALSE /\ Phase = "no"
        BY UdpAssumption DEF Init, Phase, Socket
  <2>3. QED
        BY <2>1, <2>2 DEF Contract!Init, Busy, Phase, Nils
<1>2. QED
      BY <1>1, InitInv, NextInv, NextImplements, PTL DEF Spec, ImplementsService, Contract!Spec

\* What makes ShutdownNilIsQuiet inductive in the contract: work is in flight only
\* while Serve runs.
Quieted ==
  /\ conn.done \/ ~conn.serving => Busy = {}
  /\ conn.done => conn.serving
  /\ Contract!ShutdownNilIsQuiet

\* Every step of the contract preserves it.
LEMMA QuietedNext == Quieted /\ [Contract!Next]_(Contract!vars) => Quieted'
<1> SUFFICES ASSUME Quieted, [Contract!Next]_(Contract!vars) PROVE Quieted'
    OBVIOUS
<1> USE DEF Quieted, Busy, Contract!ShutdownNilIsQuiet
<1>1. CASE Contract!Serve
      BY <1>1 DEF Contract!Serve
<1>2. CASE Contract!Stop
      BY <1>2 DEF Contract!Stop
<1>3. CASE Contract!ServeReturns
      BY <1>3 DEF Contract!ServeReturns
<1>4. ASSUME NEW r \in Reader, Contract!Accept(r) PROVE Quieted'
      BY <1>4 DEF Contract!Accept
<1>5. ASSUME NEW r \in Reader, Contract!Finish(r) PROVE Quieted'
      BY <1>5 DEF Contract!Finish
<1>6. ASSUME NEW c \in Caller, Contract!ShutdownNil(c) PROVE Quieted'
      BY <1>6 DEF Contract!ShutdownNil
<1>7. CASE UNCHANGED Contract!vars
      BY <1>7 DEF Contract!vars
<1>8. QED
      BY <1>1, <1>2, <1>3, <1>4, <1>5, <1>6, <1>7 DEF Contract!Next

\* Once a Shutdown of udp.Conn has returned nil its sockets are closed and no reader
\* is at work or will be, whatever Serve and other callers do.
THEOREM NilShutdownIsQuiet == Spec => []Contract!ShutdownNilIsQuiet
<1>1. Contract!Init => Quieted
      BY DEF Contract!Init, Quieted, Busy, Contract!ShutdownNilIsQuiet
<1>2. Quieted => Contract!ShutdownNilIsQuiet
      BY DEF Quieted
<1>3. QED
      BY <1>1, <1>2, QuietedNext, ConnImplementsService, PTL DEF ImplementsService, Contract!Spec
-----------------------------------------------------------------------------
(* What Serve returns *)

Requested == {"Shutdown", "Close", "handler"}

\* What makes NilMeansRequested inductive: the goroutine that wins closeOnce is the cause
\* of the stop, and a reader that may still win it with a fatal error has recorded it.
Cause ==
  /\ conn.once = "free" => conn.why = "none" /\ ~conn.closed
  /\ conn.closed => conn.why \in Requested \/ (conn.why = "fatal" /\ conn.fatal)
  /\ \A r \in Reader : pc[r] = "once" /\ op[r] = "fatal" => conn.closed \/ conn.fatal
  /\ \A c \in Caller : pc[c] = "idle" => result[c] = "none"
  /\ NilMeansRequested

\* Only OnceFirst sets the cause, and only ServeWait can make a Serve return nil.
LEMMA NextCause == Inv /\ Cause /\ [Next]_vars => Cause'
<1> SUFFICES ASSUME Inv, Cause, [Next]_vars PROVE Cause'
    OBVIOUS
<1> USE Apart DEF Inv, Types, Calls, Cause, Requested, NilMeansRequested, InClose
<1>1. ASSUME NEW c \in Caller, ServeRefused(c) PROVE Cause'
      BY <1>1 DEF ServeRefused, Returns, Goto
<1>2. ASSUME NEW c \in Caller, Serve(c) PROVE Cause'
      BY <1>2, SMTT(30) DEF Serve
<1>3. ASSUME NEW c \in Caller, ServeWait(c) PROVE Cause'
      BY <1>3, UdpAssumption DEF ServeWait, Goto, Reading, Reader
<1>4. ASSUME NEW c \in Caller, ServeReturn(c) PROVE Cause'
      BY <1>4 DEF ServeReturn, Goto
<1>5. ASSUME NEW c \in Caller, ShutdownServing(c) PROVE Cause'
      BY <1>5 DEF ShutdownServing, Returns, Goto
<1>6. ASSUME NEW c \in Caller, ShutdownDone(c) PROVE Cause'
      BY <1>6 DEF ShutdownDone, Returns, Goto
<1>7. ASSUME NEW c \in Caller, ShutdownExpires(c) PROVE Cause'
      BY <1>7 DEF ShutdownExpires, Returns, Goto
<1>8. ASSUME NEW c \in Caller, NEW o \in {"Shutdown", "Close"}, CallClose(c, o) PROVE Cause'
      BY <1>8 DEF CallClose, Goto
<1>9. ASSUME NEW g \in Goroutine, OnceFirst(g) PROVE Cause'
      BY <1>9 DEF OnceFirst, Goto
<1>10. ASSUME NEW g \in Goroutine, CloseClosing(g) PROVE Cause'
      BY <1>10 DEF CloseClosing, Goto
<1>11. ASSUME NEW g \in Goroutine, closeSockets(g) PROVE Cause'
      BY <1>11 DEF closeSockets
<1>12. ASSUME NEW g \in Goroutine, OnceEnd(g) PROVE Cause'
      BY <1>12 DEF OnceEnd, Goto, AfterClose, Closed
<1>13. ASSUME NEW g \in Goroutine, OncePassed(g) PROVE Cause'
      BY <1>13 DEF OncePassed, Goto, AfterClose
<1>14. ASSUME NEW r \in Reader, RecordFatal(r) PROVE Cause'
      BY <1>14, ZenonT(30) DEF RecordFatal, Fatal, Goto
<1>15. ASSUME NEW r \in Reader, HandlerCloses(r) PROVE Cause'
      BY <1>15 DEF HandlerCloses, Goto
<1>16. ASSUME NEW r \in Reader, NEW to \in {"backoff", "fatal"}, ReadFails(r, to) PROVE Cause'
      BY <1>16 DEF ReadFails, Goto
<1>17. CASE AfterFuncRuns
      BY <1>17 DEF AfterFuncRuns, Goto
<1>18. ASSUME NEW s \in Socket, Arrive(s) PROVE Cause'
      BY <1>18 DEF Arrive
<1>19. ASSUME NEW r \in Reader,
              \/ Read(r) \/ Message(r) \/ BatchDone(r) \/ HandlerReturns(r) \/ ReadClosed(r)
              \/ BackoffClosed(r) \/ ReadTruncated(r) \/ BackoffOver(r)
       PROVE  Cause'
  <2>1. /\ UNCHANGED <<conn, op, result>>
        /\ \A c \in Caller : pc'[c] = pc[c]
        /\ \A q \in Reader : pc'[q] = "once" => pc[q] = "once"
        BY <1>19 DEF Read, Message, BatchDone, HandlerReturns, ReadClosed, BackoffClosed,
                     ReadTruncated, BackoffOver, Goto
  <2>2. QED
        BY <2>1, SMTT(30)
<1>20. CASE UNCHANGED vars
      BY <1>20 DEF vars
<1> HIDE DEF Inv, Types, Calls, Cause, Requested, NilMeansRequested, InClose
<1>21. QED
      BY <1>1, <1>2, <1>3, <1>4, <1>5, <1>6, <1>7, <1>8, <1>9, <1>10, <1>11, <1>12, <1>13, <1>14,
         <1>15, <1>16, <1>17, <1>18, <1>19, <1>20
      DEF Next, CallerStep, ReaderStep, Close

\* Serve returns nil only for a requested stop, however its readers' fatal errors race with
\* Close, Shutdown and the AfterFunc: what NilMeansRequested checks on a small instance.
THEOREM NilOnlyIfRequested == Spec => []NilMeansRequested
<1>1. Init => Cause
      BY Apart DEF Init, Cause, NilMeansRequested
<1>2. Cause => NilMeansRequested
      BY DEF Cause
<1>3. QED
      BY <1>1, <1>2, InitInv, NextInv, NextCause, PTL DEF Spec
-----------------------------------------------------------------------------
(* Every datagram is taken once, in order *)

\* What a reader has taken from its socket, and how many datagrams left the socket's queue.
Taken(r) == log[r] \o batch[r]
Gone(s) == arrived[s] - Len(queue[s])

DataTypes ==
  /\ socks \in Nat \ {0}
  /\ queue \in [Socket -> Seq(Nat)] /\ arrived \in [Socket -> Nat]
  /\ batch \in [Reader -> Seq(Nat)] /\ log \in [Reader -> Seq(Nat)]

\* A socket's queue holds the numbers that follow those of the datagrams gone from it.
Numbered == \A s \in Socket : /\ Len(queue[s]) <= arrived[s]
                              /\ \A i \in 1..Len(queue[s]) : queue[s][i] = Gone(s) + i

\* A reader about to read has handled its last batch.
Handled == \A r \in Reader : pc[r] \in {"idle", "read", "backoff"} => batch[r] = <<>>

Ordered == \A r \in Reader : \A i, j \in 1..Len(Taken(r)) : i < j => Taken(r)[i] < Taken(r)[j]

Once == \A r, q \in Reader : r # q /\ sock(r) = sock(q) =>
          \A i \in 1..Len(Taken(r)), j \in 1..Len(Taken(q)) : Taken(r)[i] # Taken(q)[j]

Within == \A r \in Reader : \A i \in 1..Len(Taken(r)) : Taken(r)[i] \in 1..Gone(sock(r))

Complete == \A s \in Socket : \A k \in 1..Gone(s) :
              \E r \in Reader : sock(r) = s /\ \E i \in 1..Len(Taken(r)) : Taken(r)[i] = k

Data == DataTypes /\ Numbered /\ Handled /\ Ordered /\ Once /\ Within /\ Complete

\* A reader reads from one of the sockets.
LEMMA SockIsOne ==
  ASSUME socks \in Nat \ {0}, NEW r \in Reader
  PROVE  sock(r) \in Socket
  BY UdpAssumption DEF sock, Socket, Reader

\* Concatenation, position by position.
LEMMA ConcatIs ==
  ASSUME NEW s \in Seq(Nat), NEW t \in Seq(Nat)
  PROVE  /\ s \o t \in Seq(Nat) /\ Len(s \o t) = Len(s) + Len(t)
         /\ \A i \in 1..Len(s) : (s \o t)[i] = s[i]
         /\ \A i \in 1..Len(t) : (s \o t)[Len(s) + i] = t[i]
  OBVIOUS

\* Appending one number.
LEMMA AppendIs ==
  ASSUME NEW s \in Seq(Nat), NEW d \in Nat
  PROVE  /\ Append(s, d) \in Seq(Nat) /\ Len(Append(s, d)) = Len(s) + 1
         /\ Append(s, d)[Len(s) + 1] = d /\ \A i \in 1..Len(s) : Append(s, d)[i] = s[i]
  OBVIOUS

\* The first n entries and the rest.
LEMMA SubSeqIs ==
  ASSUME NEW s \in Seq(Nat), NEW n \in 1..Len(s)
  PROVE  /\ SubSeq(s, 1, n) \in Seq(Nat) /\ Len(SubSeq(s, 1, n)) = n
         /\ \A i \in 1..n : SubSeq(s, 1, n)[i] = s[i]
         /\ SubSeq(s, n + 1, Len(s)) \in Seq(Nat) /\ Len(SubSeq(s, n + 1, Len(s))) = Len(s) - n
         /\ \A i \in 1..(Len(s) - n) : SubSeq(s, n + 1, Len(s))[i] = s[n + i]
  OBVIOUS

\* Sequences that agree at every position are equal.
LEMMA SameSeq ==
  ASSUME NEW s \in Seq(Nat), NEW t \in Seq(Nat), Len(s) = Len(t), \A i \in 1..Len(s) : s[i] = t[i]
  PROVE  s = t
  OBVIOUS

\* An index of the longer sequence is one of the old part or one of the new part.
LEMMA OldOrNew ==
  ASSUME NEW m \in Nat, NEW n \in Nat, NEW i \in 1..(m + n)
  PROVE  i \in 1..m \/ \E k \in 1..n : i = m + k
<1>1. CASE i <= m
  BY <1>1
<1>2. CASE i > m
  <2>1. i - m \in 1..n /\ i = m + (i - m)
    BY <1>2
  <2> QED BY <2>1
<1> QED BY <1>1, <1>2

\* Handing over the first datagram of the batch does not change what was taken.
LEMMA HandOver ==
  ASSUME NEW s \in Seq(Nat), NEW t \in Seq(Nat), t # <<>>
  PROVE  /\ Append(s, Head(t)) \in Seq(Nat) /\ Tail(t) \in Seq(Nat)
         /\ Append(s, Head(t)) \o Tail(t) = s \o t
<1> DEFINE a == Append(s, Head(t))
           u == Tail(t)
           v == a \o u
           w == s \o t
<1>1. /\ a \in Seq(Nat) /\ Len(a) = Len(s) + 1 /\ a[Len(s) + 1] = t[1]
      /\ \A i \in 1..Len(s) : a[i] = s[i]
  OBVIOUS
<1>2. u \in Seq(Nat) /\ Len(u) = Len(t) - 1 /\ Len(t) \in Nat \ {0} /\ \A i \in 1..(Len(t) - 1) : u[i] = t[i + 1]
  OBVIOUS
<1> HIDE DEF a, u
<1>3. /\ v \in Seq(Nat) /\ Len(v) = Len(a) + Len(u)
      /\ \A i \in 1..Len(a) : v[i] = a[i]
      /\ \A i \in 1..Len(u) : v[Len(a) + i] = u[i]
  BY <1>1, <1>2, ConcatIs, Zenon
<1>4. /\ w \in Seq(Nat) /\ Len(w) = Len(s) + Len(t)
      /\ \A i \in 1..Len(s) : w[i] = s[i]
      /\ \A i \in 1..Len(t) : w[Len(s) + i] = t[i]
  BY ConcatIs, Zenon
<1> HIDE DEF v, w
<1>5. ASSUME NEW i \in 1..Len(v) PROVE v[i] = w[i]
  <2>1. CASE i \in 1..Len(s)
    BY <1>1, <1>3, <1>4, <2>1
  <2>2. CASE i = Len(s) + 1
    <3>1. w[Len(s) + 1] = t[1]
      BY <1>2, <1>4, SMTT(30)
    <3> QED BY <1>1, <1>3, <2>2, <3>1
  <2>3. ASSUME i > Len(s) + 1 PROVE v[i] = w[i]
    <3>1. PICK k \in 1..Len(u) : i = Len(a) + k
      <4>1. Len(a) \in Nat /\ Len(u) \in Nat
        BY <1>1, <1>2
      <4>2. i \in 1..(Len(a) + Len(u)) /\ i \notin 1..Len(a)
        BY <1>1, <1>3, <2>3
      <4> QED BY <4>1, <4>2, OldOrNew, Zenon
    <3>2. v[i] = t[k + 1]
      BY <1>2, <1>3, <3>1, Zenon
    <3>3. k + 1 \in 1..Len(t) /\ i = Len(s) + (k + 1)
      BY <1>1, <1>2, <3>1
    <3>4. w[i] = t[k + 1]
      BY <1>4, <3>3
    <3> QED BY <3>2, <3>4
  <2>4. i \in 1..Len(s) \/ i = Len(s) + 1 \/ i > Len(s) + 1
    BY <1>1, <1>2, <1>3
  <2> QED BY <2>1, <2>2, <2>3, <2>4
<1>6. v = w
  <2>1. Len(v) = Len(w)
    BY <1>1, <1>2, <1>3, <1>4
  <2> QED BY <1>3, <1>4, <1>5, <2>1, SameSeq, Zenon
<1> QED BY <1>1, <1>2, <1>6, Zenon DEF a, u, v, w

\* A read returns no more than is queued.
LEMMA ReadableIs ==
  ASSUME NEW s \in Socket, DataTypes, NEW n \in Readable(s)
  PROVE  n \in 1..Len(queue[s])
<1>1. Len(queue[s]) \in Nat /\ Batch \in Nat
  BY UdpAssumption DEF DataTypes
<1>2. \E m \in {Batch, Len(queue[s])} : \A k \in {Batch, Len(queue[s])} : m <= k
  BY <1>1
<1>3. Min({Batch, Len(queue[s])}) <= Len(queue[s]) /\ Min({Batch, Len(queue[s])}) \in Nat
  BY <1>1, <1>2 DEF Min
<1> QED BY <1>1, <1>3 DEF Readable

\* What has been taken is in sequences, and counts are numbers.
LEMMA DataFacts ==
  ASSUME DataTypes
  PROVE  /\ \A r \in Reader : Taken(r) \in Seq(Nat) /\ Len(Taken(r)) \in Nat /\ sock(r) \in Socket
         /\ \A s \in Socket : Gone(s) \in Int
<1>1. ASSUME NEW r \in Reader
      PROVE  Taken(r) \in Seq(Nat) /\ Len(Taken(r)) \in Nat /\ sock(r) \in Socket
  <2>1. log[r] \in Seq(Nat) /\ batch[r] \in Seq(Nat)
    BY DEF DataTypes
  <2>2. Taken(r) \in Seq(Nat)
    BY <2>1, ConcatIs, Zenon DEF Taken
  <2> QED BY <2>2, SockIsOne DEF DataTypes
<1>2. ASSUME NEW s \in Socket PROVE Gone(s) \in Int
  BY DEF DataTypes, Gone
<1> QED BY <1>1, <1>2

\* A reader takes the n datagrams that are next in its socket's queue.
Takes(r, n) ==
  /\ Len(Taken(r)') = Len(Taken(r)) + n
  /\ \A i \in 1..Len(Taken(r)) : Taken(r)'[i] = Taken(r)[i]
  /\ \A k \in 1..n : Taken(r)'[Len(Taken(r)) + k] = Gone(sock(r)) + k
  /\ \A q \in Reader \ {r} : Taken(q)' = Taken(q)
  /\ \A s \in Socket : Gone(s)' = IF s = sock(r) THEN Gone(s) + n ELSE Gone(s)
  /\ UNCHANGED socks

\* Taking the next datagrams keeps the order, gives no datagram to two readers and
\* misses none.
LEMMA TakesKeeps ==
  ASSUME Data, NEW r \in Reader, NEW n \in Nat, Takes(r, n)
  PROVE  Ordered' /\ Once' /\ Within' /\ Complete'
<1> DEFINE m == Len(Taken(r))
           g == Gone(sock(r))
<1>1. /\ m \in Nat /\ g \in Int /\ sock(r) \in Socket
      /\ \A q \in Reader : Taken(q) \in Seq(Nat) /\ Len(Taken(q)) \in Nat /\ sock(q) \in Socket
  BY DataFacts DEF Data
<1>2. /\ Len(Taken(r)') = m + n
      /\ \A s \in Socket : s = sock(r) => Gone(s) = g /\ Gone(s)' = g + n
      /\ \A i \in 1..m : Taken(r)'[i] = Taken(r)[i]
      /\ \A k \in 1..n : Taken(r)'[m + k] = g + k
  BY DEF Takes
<1>3. \A q \in Reader \ {r} : Taken(q)' = Taken(q)
  BY DEF Takes
<1>4. \A s \in Socket \ {sock(r)} : Gone(s)' = Gone(s)
  BY DEF Takes
<1>5. Socket' = Socket /\ \A q \in Reader : sock(q)' = sock(q)
  BY DEF Takes, Socket, sock
<1>6. \A i \in 1..m : Taken(r)[i] \in 1..g
  BY DEF Data, Within
<1>6a. \A i \in 1..(m + n) : i \in 1..m \/ \E k \in 1..n : i = m + k
  BY <1>1, OldOrNew
<1>7. \A q \in Reader \ {r} : sock(q) = sock(r) => \A i \in 1..Len(Taken(q)) : Taken(q)[i] \in 1..g
  BY DEF Data, Within
<1> HIDE DEF m, g
<1>8. Ordered'
  <2> SUFFICES ASSUME NEW q \in Reader, NEW i \in 1..Len(Taken(q)'), NEW j \in 1..Len(Taken(q)'), i < j
               PROVE  Taken(q)'[i] < Taken(q)'[j]
    BY DEF Ordered
  <2>1. CASE q # r
    BY <1>3, <2>1 DEF Data, Ordered
  <2>2. CASE q = r
    <3>1. i \in 1..(m + n) /\ j \in 1..(m + n)
      BY <1>2, <2>2
    <3>2. CASE j \in 1..m
      <4>1. i \in 1..m
        BY <1>1, <3>1, <3>2
      <4>2. Taken(r)[i] < Taken(r)[j]
        BY <3>2, <4>1 DEF Data, Ordered, m
      <4> QED BY <1>2, <2>2, <3>2, <4>1, <4>2
    <3>3. ASSUME NEW k \in 1..n, j = m + k PROVE Taken(q)'[i] < Taken(q)'[j]
      <4>1. Taken(r)'[j] = g + k
        BY <1>2, <3>3
      <4>2. CASE i \in 1..m
        <5>1. Taken(r)'[i] \in 1..g
          BY <1>2, <1>6, <4>2
        <5> QED BY <1>1, <2>2, <4>1, <5>1
      <4>3. ASSUME NEW l \in 1..n, i = m + l PROVE Taken(q)'[i] < Taken(q)'[j]
        <5>1. Taken(r)'[i] = g + l /\ l < k
          BY <1>1, <1>2, <3>3, <4>3
        <5> QED BY <1>1, <2>2, <4>1, <5>1
      <4> QED BY <1>6a, <3>1, <4>2, <4>3
    <3> QED BY <1>6a, <3>1, <3>2, <3>3
  <2> QED BY <2>1, <2>2
<1>9. Once'
  <2>1. ASSUME NEW q \in Reader, q # r, sock(q) = sock(r),
               NEW i \in 1..Len(Taken(r)'), NEW j \in 1..Len(Taken(q))
        PROVE  Taken(r)'[i] # Taken(q)[j]
    <3>1. i \in 1..(m + n)
      BY <1>2
    <3>2. CASE i \in 1..m
      <4>1. Taken(r)[i] # Taken(q)[j]
        BY <2>1, <3>2 DEF Data, Once, m
      <4> QED BY <1>2, <3>2, <4>1
    <3>3. ASSUME NEW k \in 1..n, i = m + k PROVE Taken(r)'[i] # Taken(q)[j]
      <4>1. Taken(r)'[i] = g + k
        BY <1>2, <3>3
      <4>2. Taken(q)[j] \in 1..g
        BY <1>7, <2>1
      <4> QED BY <1>1, <4>1, <4>2
    <3> QED BY <1>6a, <3>1, <3>2, <3>3
  <2> SUFFICES ASSUME NEW p \in Reader, NEW q \in Reader, p # q, sock(p) = sock(q),
                      NEW i \in 1..Len(Taken(p)'), NEW j \in 1..Len(Taken(q)')
               PROVE  Taken(p)'[i] # Taken(q)'[j]
    BY <1>5 DEF Once
  <2>2. CASE p = r
    BY <1>3, <2>1, <2>2
  <2>3. CASE q = r
    BY <1>3, <2>1, <2>3
  <2>4. CASE p # r /\ q # r
    BY <1>3, <2>4 DEF Data, Once
  <2> QED BY <2>2, <2>3, <2>4
<1>10. Within'
  <2> SUFFICES ASSUME NEW q \in Reader, NEW i \in 1..Len(Taken(q)'), NEW s \in Socket, s = sock(q)
               PROVE  Taken(q)'[i] \in 1..Gone(s)'
    BY <1>1, <1>5 DEF Within, Gone
  <2>1. CASE q = r
    <3>1. i \in 1..(m + n) /\ Gone(s)' = g + n
      BY <1>2, <2>1
    <3>2. CASE i \in 1..m
      <4>1. Taken(q)'[i] \in 1..g
        BY <1>2, <1>6, <2>1, <3>2
      <4> QED BY <1>1, <3>1, <4>1
    <3>3. ASSUME NEW k \in 1..n, i = m + k PROVE Taken(q)'[i] \in 1..Gone(s)'
      <4>1. Taken(q)'[i] = g + k
        BY <1>2, <2>1, <3>3
      <4>2. g >= 0
        BY <1>1, SMTT(30) DEF Data, Numbered, DataTypes, Gone, g
      <4> QED BY <1>1, <3>1, <4>1, <4>2
    <3> QED BY <1>6a, <3>1, <3>2, <3>3
  <2>2. CASE q # r
    <3>1. Taken(q)' = Taken(q)
      BY <1>3, <2>2
    <3>2. CASE sock(q) = sock(r)
      <4>1. Taken(q)[i] \in 1..g
        BY <1>7, <2>2, <3>1, <3>2
      <4>2. Gone(s)' = g + n
        BY <1>2, <3>2
      <4> QED BY <1>1, <3>1, <4>1, <4>2
    <3>3. CASE sock(q) # sock(r)
      <4>1. Gone(s)' = Gone(sock(q))
        BY <1>4, <3>3
      <4> QED BY <3>1, <4>1 DEF Data, Within
    <3> QED BY <3>2, <3>3
  <2> QED BY <2>1, <2>2
<1>11. Complete'
  <2> SUFFICES ASSUME NEW s \in Socket, NEW k \in 1..Gone(s)'
               PROVE  \E q \in Reader : sock(q) = s /\ \E i \in 1..Len(Taken(q)') : Taken(q)'[i] = k
    BY <1>5 DEF Complete
  <2>1. CASE k \in 1..Gone(s)
    <3>0. PICK q \in Reader : sock(q) = s /\ \E i \in 1..Len(Taken(q)) : Taken(q)[i] = k
      BY <2>1 DEF Data, Complete
    <3>1. PICK i \in 1..Len(Taken(q)) : Taken(q)[i] = k
      BY <3>0
    <3>2. i \in 1..Len(Taken(q)') /\ Taken(q)'[i] = k
      <4>1. CASE q = r
        BY <1>1, <1>2, <3>1, <4>1 DEF m
      <4>2. CASE q # r
        BY <1>3, <3>1, <4>2
      <4> QED BY <4>1, <4>2
    <3> QED BY <3>0, <3>2
  <2>2. CASE k \notin 1..Gone(s)
    <3>1. s = sock(r)
      BY <1>4, <2>2
    <3>2. Gone(s) = g /\ Gone(s)' = g + n
      BY <1>2, <3>1
    <3>2a. k \in (g + 1)..(g + n)
      BY <1>1, <2>2, <3>2
    <3>3. k - g \in 1..n /\ g + (k - g) = k
      BY <1>1, <3>2a
    <3>4. PICK l \in 1..n : g + l = k
      BY <3>3
    <3>5. m + l \in 1..Len(Taken(r)') /\ Taken(r)'[m + l] = k
      <4>1. Taken(r)'[m + l] = g + l
        BY <1>2, <3>4
      <4> QED BY <1>1, <1>2, <3>4, <4>1
    <3> QED BY <3>1, <3>5
  <2> QED BY <2>1, <2>2
<1> QED BY <1>8, <1>9, <1>10, <1>11

\* Nothing was received or taken before Serve.
LEMMA InitData == Init => Data
<1> SUFFICES ASSUME Init PROVE Data
  OBVIOUS
<1>1. DataTypes
  BY UdpAssumption DEF Init, DataTypes
<1>2. \A s \in Socket : queue[s] = <<>> /\ arrived[s] = 0 /\ Len(queue[s]) = 0 /\ Gone(s) = 0
  BY DEF Init, Gone
<1>3. \A r \in Reader : batch[r] = <<>> /\ Taken(r) = <<>> \o <<>>
  BY DEF Init, Taken
<1>4. \A r \in Reader : Len(Taken(r)) = 0
  BY <1>3
<1>5. Numbered
  BY <1>2 DEF Numbered
<1>6. Handled
  BY <1>3 DEF Handled
<1>7. Ordered /\ Once /\ Within
  BY <1>4 DEF Ordered, Once, Within
<1>8. Complete
  BY <1>2 DEF Complete
<1> QED BY <1>1, <1>5, <1>6, <1>7, <1>8, SMTT(30) DEF Data

\* Steps that take nothing from a socket: what has been taken and what is gone stay.
LEMMA NothingTaken ==
  ASSUME Data, UNCHANGED socks, \A r \in Reader : Taken(r)' = Taken(r), \A s \in Socket : Gone(s)' = Gone(s)
  PROVE  Ordered' /\ Once' /\ Within' /\ Complete'
<1>1. 0 \in Reader
  BY UdpAssumption DEF Reader
<1>2. Len(Taken(0)) \in Nat /\ \A s \in Socket : Gone(s) \in Int
  BY <1>1, DataFacts DEF Data
<1>3. Takes(0, 0)
  BY <1>1, <1>2 DEF Takes
<1> QED BY <1>1, <1>3, TakesKeeps

\* Steps that touch no datagram: only where the readers are matters.
LEMMA DataAside ==
  ASSUME Data, UNCHANGED dataVars,
         \A r \in Reader : pc'[r] \in {"idle", "read", "backoff"} =>
                             pc[r] \in {"idle", "read", "backoff"} \/ batch[r] = <<>>
  PROVE  Data'
<1>1. UNCHANGED <<socks, queue, batch, log, arrived>>
  BY SMTT(30) DEF dataVars
<1>2. DataTypes'
  BY <1>1 DEF Data, DataTypes, Socket
<1>3. Numbered'
  BY <1>1 DEF Data, Numbered, Socket, Gone
<1>4. Handled'
  BY <1>1 DEF Data, Handled
<1>5. (\A r \in Reader : Taken(r)' = Taken(r)) /\ (\A s \in Socket : Gone(s)' = Gone(s))
  BY <1>1 DEF Taken, Gone
<1>6. Ordered' /\ Once' /\ Within' /\ Complete'
  BY <1>1, <1>5, NothingTaken
<1> QED BY <1>2, <1>3, <1>4, <1>6, SMTT(30) DEF Data

\* A datagram that arrives gets the next number and goes to the end of the queue.
LEMMA ArriveData ==
  ASSUME Data, NEW s \in Socket, Arrive(s)
  PROVE  Data'
<1>1. /\ UNCHANGED <<socks, batch, log, pc>> /\ arrived' = [arrived EXCEPT ![s] = arrived[s] + 1]
      /\ queue' = [queue EXCEPT ![s] = Append(queue[s], arrived[s] + 1)]
  BY DEF Arrive
<1>2. DataTypes
  BY DEF Data
<1>3. /\ queue[s] \in Seq(Nat) /\ arrived[s] \in Nat /\ Socket' = Socket
      /\ queue \in [Socket -> Seq(Nat)] /\ arrived \in [Socket -> Nat]
  BY <1>1, <1>2 DEF DataTypes, Socket
<1>4. /\ Append(queue[s], arrived[s] + 1) \in Seq(Nat) /\ Len(Append(queue[s], arrived[s] + 1)) = Len(queue[s]) + 1
      /\ \A i \in 1..Len(queue[s]) : Append(queue[s], arrived[s] + 1)[i] = queue[s][i]
      /\ Append(queue[s], arrived[s] + 1)[Len(queue[s]) + 1] = arrived[s] + 1
  BY <1>3
<1>5. DataTypes'
  BY <1>1, <1>2, <1>3, <1>4 DEF DataTypes
<1>6. /\ queue'[s] = Append(queue[s], arrived[s] + 1) /\ arrived'[s] = arrived[s] + 1
      /\ \A q \in Socket \ {s} : queue'[q] = queue[q] /\ arrived'[q] = arrived[q]
  BY <1>1, <1>3
<1>7. \A q \in Socket : Gone(q)' = Gone(q)
  <2>1. \A q \in Socket \ {s} : Gone(q)' = Gone(q)
    BY <1>6, Zenon DEF Gone
  <2>2. Len(queue'[s]) = Len(queue[s]) + 1 /\ arrived'[s] = arrived[s] + 1
    BY <1>4, <1>6
  <2>3. Len(queue[s]) \in Nat /\ arrived[s] \in Nat
    BY <1>3
  <2>4. Gone(s)' = Gone(s)
    BY <2>2, <2>3 DEF Gone
  <2> QED BY <2>1, <2>4, Zenon
<1>8. Numbered'
  <2> SUFFICES ASSUME NEW q \in Socket
               PROVE  /\ Len(queue'[q]) <= arrived'[q]
                      /\ \A i \in 1..Len(queue'[q]) : queue'[q][i] = Gone(q) + i
    BY <1>3, <1>7 DEF Numbered
  <2>1. Len(queue[q]) <= arrived[q] /\ \A i \in 1..Len(queue[q]) : queue[q][i] = Gone(q) + i
    BY DEF Data, Numbered
  <2>2. CASE q # s
    BY <1>6, <2>1, <2>2, SMTT(30)
  <2>3. CASE q = s
    <3>1. Gone(s) + (Len(queue[s]) + 1) = arrived[s] + 1
      BY <1>3 DEF Gone
    <3>2. \A i \in 1..(Len(queue[s]) + 1) : i \in 1..Len(queue[s]) \/ i = Len(queue[s]) + 1
      BY <1>3
    <3>3. Len(queue'[s]) = Len(queue[s]) + 1 /\ \A i \in 1..Len(queue[s]) : queue'[s][i] = queue[s][i]
      BY <1>4, <1>6
    <3>4. queue'[s][Len(queue[s]) + 1] = arrived[s] + 1
      BY <1>4, <1>6
    <3>5. ASSUME NEW i \in 1..Len(queue'[s]) PROVE queue'[s][i] = Gone(s) + i
      BY <2>1, <2>3, <3>1, <3>2, <3>3, <3>4
    <3>6. Len(queue'[s]) <= arrived'[s]
      BY <1>3, <1>6, <2>1, <2>3, <3>3
    <3> QED BY <2>3, <3>5, <3>6
  <2> QED BY <2>2, <2>3
<1>9. Handled'
  BY <1>1 DEF Data, Handled
<1>10. Ordered' /\ Once' /\ Within' /\ Complete'
  <2>1. \A r \in Reader : Taken(r)' = Taken(r)
    BY <1>1 DEF Taken
  <2> QED BY <1>1, <1>7, <2>1, NothingTaken
<1> QED BY <1>5, <1>8, <1>9, <1>10 DEF Data

\* Removing the first n numbers of a queue leaves those that follow them.
LEMMA QueueShrinks ==
  ASSUME Data, NEW s \in Socket, NEW n \in 1..Len(queue[s]), NEW rest \in Seq(Nat),
         Len(rest) = Len(queue[s]) - n, \A i \in 1..(Len(queue[s]) - n) : rest[i] = queue[s][n + i],
         UNCHANGED <<socks, arrived>>, queue' = [queue EXCEPT ![s] = rest]
  PROVE  /\ Numbered' /\ queue' \in [Socket -> Seq(Nat)]
         /\ \A q \in Socket : Gone(q)' = IF q = s THEN Gone(q) + n ELSE Gone(q)
<1>1. /\ queue \in [Socket -> Seq(Nat)] /\ arrived \in [Socket -> Nat] /\ Socket' = Socket
      /\ queue[s] \in Seq(Nat) /\ Len(queue[s]) \in Nat /\ arrived[s] \in Nat
  BY SMTT(30) DEF Data, DataTypes, Socket
<1>2. queue'[s] = rest /\ \A q \in Socket \ {s} : queue'[q] = queue[q]
  BY <1>1
<1>3. \A q \in Socket : Gone(q)' = IF q = s THEN Gone(q) + n ELSE Gone(q)
  BY <1>1, <1>2 DEF Gone
<1>4. Numbered'
  <2> SUFFICES ASSUME NEW q \in Socket
               PROVE  /\ Len(queue'[q]) <= arrived[q]
                      /\ \A i \in 1..Len(queue'[q]) : queue'[q][i] = Gone(q)' + i
    BY <1>1 DEF Numbered
  <2>1. Len(queue[q]) <= arrived[q] /\ \A i \in 1..Len(queue[q]) : queue[q][i] = Gone(q) + i
    BY DEF Data, Numbered
  <2>2. CASE q # s
    BY <1>2, <1>3, <2>1, <2>2
  <2>3. CASE q = s
    <3>1. Gone(s)' = Gone(s) + n /\ Gone(s) \in Int
      BY <1>1, <1>3 DEF Gone
    <3>2. ASSUME NEW i \in 1..Len(rest) PROVE rest[i] = Gone(s)' + i
      <4>1. rest[i] = queue[s][n + i] /\ n + i \in 1..Len(queue[s])
        BY <1>1
      <4> QED BY <2>1, <2>3, <3>1, <4>1
    <3>3. Len(rest) <= arrived[s]
      BY <1>1, <2>1, <2>3
    <3> QED BY <1>2, <2>3, <3>2, <3>3
  <2> QED BY <2>2, <2>3
<1>5. queue' \in [Socket -> Seq(Nat)]
  BY <1>1
<1> QED BY <1>3, <1>4, <1>5

\* A read takes the first datagrams of the queue, in order.
LEMMA ReadData ==
  ASSUME Types, Data, NEW r \in Reader, Read(r)
  PROVE  Data'
<1> DEFINE s == sock(r)
<1>1. s \in Socket /\ DataTypes
  BY DataFacts DEF Data
<1>2. PICK n \in Readable(s) : /\ batch' = [batch EXCEPT ![r] = SubSeq(queue[s], 1, n)]
                               /\ queue' = [queue EXCEPT ![s] = SubSeq(queue[s], n + 1, Len(queue[s]))]
  BY Zenon DEF Read
<1>3. UNCHANGED <<socks, log, arrived>> /\ pc[r] = "read" /\ pc' = [pc EXCEPT ![r] = "message"]
  BY DEF Read, Goto
<1> HIDE DEF s
<1>4. n \in 1..Len(queue[s])
  BY <1>1, ReadableIs
<1>5. /\ queue[s] \in Seq(Nat) /\ Socket' = Socket /\ batch \in [Reader -> Seq(Nat)]
      /\ log[r] \in Seq(Nat) /\ Len(queue[s]) \in Nat
  BY <1>1, <1>3 DEF DataTypes, Socket
<1> DEFINE b == SubSeq(queue[s], 1, n)
           rest == SubSeq(queue[s], n + 1, Len(queue[s]))
<1>6. /\ b \in Seq(Nat) /\ Len(b) = n /\ \A i \in 1..n : b[i] = queue[s][i]
      /\ rest \in Seq(Nat) /\ Len(rest) = Len(queue[s]) - n
      /\ \A i \in 1..(Len(queue[s]) - n) : rest[i] = queue[s][n + i]
  BY <1>4, <1>5, SubSeqIs
<1>7. batch' = [batch EXCEPT ![r] = b] /\ queue' = [queue EXCEPT ![s] = rest]
  BY <1>2
<1> HIDE DEF b, rest
<1>8. /\ Numbered' /\ queue' \in [Socket -> Seq(Nat)]
      /\ \A q \in Socket : Gone(q)' = IF q = s THEN Gone(q) + n ELSE Gone(q)
  BY <1>1, <1>3, <1>4, <1>6, <1>7, QueueShrinks, ZenonT(30)
<1>9. DataTypes'
  BY <1>1, <1>3, <1>5, <1>6, <1>7, <1>8 DEF DataTypes
<1>10. Handled'
  <2>1. pc'[r] = "message" /\ \A q \in Reader \ {r} : pc'[q] = pc[q] /\ batch'[q] = batch[q]
    BY <1>3, <1>5, <1>7, SMTT(30) DEF Types, Goroutine
  <2> QED BY <2>1 DEF Data, Handled
<1>11. Takes(r, n)
  <2>1. Taken(r) = log[r] \o <<>> /\ batch[r] = <<>>
    BY <1>3, Zenon DEF Data, Handled, Taken
  <2>2. Taken(r)' = log[r] \o b
    BY <1>3, <1>5, <1>7 DEF Taken
  <2>3. Len(Taken(r)) = Len(log[r]) /\ \A i \in 1..Len(log[r]) : Taken(r)[i] = log[r][i]
    BY <1>5, <2>1
  <2>4. /\ Len(Taken(r)') = Len(log[r]) + n
        /\ \A i \in 1..Len(log[r]) : Taken(r)'[i] = log[r][i]
        /\ \A i \in 1..n : Taken(r)'[Len(log[r]) + i] = b[i]
    <3>1. /\ Len(log[r] \o b) = Len(log[r]) + Len(b)
          /\ \A i \in 1..Len(log[r]) : (log[r] \o b)[i] = log[r][i]
          /\ \A i \in 1..Len(b) : (log[r] \o b)[Len(log[r]) + i] = b[i]
      BY <1>5, <1>6, ConcatIs, Zenon
    <3> QED BY <1>6, <2>2, <3>1
  <2>5. \A i \in 1..n : b[i] = Gone(s) + i
    <3>1. \A i \in 1..Len(queue[s]) : queue[s][i] = Gone(s) + i
      BY <1>1 DEF Data, Numbered
    <3>2. \A i \in 1..n : i \in 1..Len(queue[s])
      BY <1>4, <1>5
    <3> QED BY <1>6, <3>1, <3>2, Zenon
  <2>6. \A q \in Reader \ {r} : Taken(q)' = Taken(q)
    BY <1>3, <1>5, <1>7 DEF Taken
  <2> QED BY <1>3, <1>8, <2>3, <2>4, <2>5, <2>6 DEF Takes, s
<1>12. Ordered' /\ Once' /\ Within' /\ Complete'
  <2>1. n \in Nat
    BY <1>4
  <2> QED BY <1>11, <2>1, TakesKeeps
<1> QED BY <1>8, <1>9, <1>10, <1>12 DEF Data

\* A datagram reported as truncated is taken straight from the queue.
LEMMA TruncatedData ==
  ASSUME Data, NEW r \in Reader, ReadTruncated(r)
  PROVE  Data'
<1> DEFINE s == sock(r)
<1>1. s \in Socket /\ DataTypes
  BY DataFacts DEF Data
<1>2. /\ UNCHANGED <<socks, batch, arrived, pc>> /\ pc[r] = "read" /\ queue[s] # <<>>
      /\ log' = [log EXCEPT ![r] = Append(log[r], Head(queue[s]))]
      /\ queue' = [queue EXCEPT ![s] = Tail(queue[s])]
  BY DEF ReadTruncated
<1> HIDE DEF s
<1>3. /\ queue[s] \in Seq(Nat) /\ Socket' = Socket /\ log \in [Reader -> Seq(Nat)]
      /\ log[r] \in Seq(Nat) /\ Len(queue[s]) \in Nat
  BY <1>1, <1>2, SMTT(30) DEF DataTypes, Socket
<1> DEFINE rest == Tail(queue[s])
           d == Head(queue[s])
<1>4. /\ rest \in Seq(Nat) /\ Len(rest) = Len(queue[s]) - 1 /\ 1 \in 1..Len(queue[s]) /\ d \in Nat
      /\ d = queue[s][1]
  BY <1>2, <1>3
<1>5. \A i \in 1..(Len(queue[s]) - 1) : rest[i] = queue[s][1 + i]
  BY <1>2, <1>3
<1>6. log' = [log EXCEPT ![r] = Append(log[r], d)] /\ queue' = [queue EXCEPT ![s] = rest]
  BY <1>2
<1> HIDE DEF d, rest
<1>7. /\ Numbered' /\ queue' \in [Socket -> Seq(Nat)]
      /\ \A q \in Socket : Gone(q)' = IF q = s THEN Gone(q) + 1 ELSE Gone(q)
  BY <1>1, <1>2, <1>4, <1>5, <1>6, QueueShrinks, Zenon
<1>8. DataTypes'
  <2>1. Append(log[r], d) \in Seq(Nat)
    BY <1>3, <1>4, AppendIs, Zenon
  <2> QED BY <1>1, <1>2, <1>3, <1>6, <1>7, <2>1 DEF DataTypes
<1>9. Handled'
  BY <1>2 DEF Data, Handled
<1>10. Takes(r, 1)
  <2>1. Taken(r) = log[r] \o <<>> /\ Taken(r)' = Append(log[r], d) \o <<>>
    BY <1>2, <1>3, <1>6, Zenon DEF Data, Handled, Taken
  <2>2. Len(Taken(r)) = Len(log[r]) /\ \A i \in 1..Len(log[r]) : Taken(r)[i] = log[r][i]
    BY <1>3, <2>1
  <2>3. /\ Len(Taken(r)') = Len(log[r]) + 1
        /\ \A i \in 1..Len(log[r]) : Taken(r)'[i] = log[r][i]
        /\ Taken(r)'[Len(log[r]) + 1] = d
    <3> DEFINE a == Append(log[r], d)
    <3>1. /\ a \in Seq(Nat) /\ Len(a) = Len(log[r]) + 1 /\ a[Len(log[r]) + 1] = d
          /\ \A i \in 1..Len(log[r]) : a[i] = log[r][i]
      BY <1>3, <1>4, AppendIs, Zenon
    <3>2. Taken(r)' = a \o <<>> /\ Len(log[r]) \in Nat
      BY <1>3, <2>1
    <3> HIDE DEF a
    <3>3. Len(a \o <<>>) = Len(a) /\ \A i \in 1..Len(a) : (a \o <<>>)[i] = a[i]
      BY <3>1
    <3> QED BY <3>1, <3>2, <3>3
  <2>4. d = Gone(s) + 1
    BY <1>1, <1>4 DEF Data, Numbered
  <2>5. \A q \in Reader \ {r} : Taken(q)' = Taken(q)
    BY <1>2, <1>3, <1>6 DEF Taken
  <2>6. \A k \in 1..1 : k = 1
    OBVIOUS
  <2> QED BY <1>2, <1>7, <2>2, <2>3, <2>4, <2>5, <2>6, SMTT(30) DEF Takes, s
<1>11. Ordered' /\ Once' /\ Within' /\ Complete'
  BY <1>10, TakesKeeps
<1> QED BY <1>7, <1>8, <1>9, <1>11 DEF Data

\* Handing over a datagram of the batch moves it, it is not taken anew.
LEMMA MessageData ==
  ASSUME Types, Data, NEW r \in Reader, Message(r)
  PROVE  Data'
<1>1. DataTypes /\ log[r] \in Seq(Nat) /\ batch[r] \in Seq(Nat)
  BY DEF Data, DataTypes
<1>2. /\ UNCHANGED <<socks, queue, arrived>> /\ batch[r] # <<>>
      /\ log' = [log EXCEPT ![r] = Append(log[r], Head(batch[r]))]
      /\ batch' = [batch EXCEPT ![r] = Tail(batch[r])]
      /\ \E to \in {"message", "handler"} : pc' = [pc EXCEPT ![r] = to]
  BY Zenon DEF Message, NextMessage, Goto
<1>3. /\ Append(log[r], Head(batch[r])) \in Seq(Nat) /\ Tail(batch[r]) \in Seq(Nat)
      /\ Append(log[r], Head(batch[r])) \o Tail(batch[r]) = log[r] \o batch[r]
  BY <1>1, <1>2, HandOver, Zenon
<1>4. DataTypes'
  BY <1>1, <1>2, <1>3, SMTT(30) DEF DataTypes, Socket
<1>5. Numbered'
  BY <1>2 DEF Data, Numbered, Socket, Gone
<1>6. Handled'
  <2>1. pc'[r] \in {"message", "handler"} /\ \A q \in Reader \ {r} : pc'[q] = pc[q] /\ batch'[q] = batch[q]
    BY <1>1, <1>2 DEF Types, Goroutine, DataTypes
  <2> QED BY <2>1 DEF Data, Handled
<1>7. \A q \in Reader : Taken(q)' = Taken(q)
  <2>1. \A q \in Reader \ {r} : Taken(q)' = Taken(q)
    BY <1>1, <1>2, SMTT(30) DEF Taken, DataTypes
  <2>2. Taken(r)' = Append(log[r], Head(batch[r])) \o Tail(batch[r])
    BY <1>1, <1>2 DEF Taken, DataTypes
  <2>3. Taken(r)' = Taken(r)
    BY <1>3, <2>2, Zenon DEF Taken
  <2> QED BY <2>1, <2>3
<1>8. \A s \in Socket : Gone(s)' = Gone(s)
  BY <1>2 DEF Gone
<1>9. Ordered' /\ Once' /\ Within' /\ Complete'
  BY <1>2, <1>7, <1>8, NothingTaken
<1> QED BY <1>4, <1>5, <1>6, <1>9 DEF Data

\* Each step numbers the datagrams that arrive, takes the next ones, or leaves them alone.
LEMMA NextData == Inv /\ Data /\ [Next]_vars => Data'
<1> SUFFICES ASSUME Inv, Data, [Next]_vars PROVE Data'
  OBVIOUS
<1>t. Types /\ Calls /\ Reading
  BY DEF Inv
<1>1. ASSUME NEW c \in Caller,
             \/ ServeRefused(c) \/ ServeWait(c) \/ ServeReturn(c) \/ ShutdownServing(c) \/ ShutdownDone(c)
             \/ ShutdownExpires(c) \/ \E o \in {"Shutdown", "Close"} : CallClose(c, o)
      PROVE  Data'
  <2>1. UNCHANGED dataVars /\ \E to : pc' = [pc EXCEPT ![c] = to]
    BY <1>1 DEF ServeRefused, ServeWait, ServeReturn, ShutdownServing, ShutdownDone, ShutdownExpires,
                CallClose, Returns, Goto
  <2>2. \A r \in Reader : pc'[r] = pc[r]
    BY <1>t, <2>1, Apart DEF Types, Goroutine
  <2> QED BY <2>1, <2>2, DataAside
<1>2. ASSUME NEW c \in Caller, Serve(c) PROVE Data'
  <2>1. UNCHANGED dataVars /\ \A r \in Reader : pc[r] = "idle"
    BY <1>t, <1>2 DEF Serve, Reading
  <2> QED BY <2>1, DataAside
<1>3. ASSUME NEW g \in Goroutine, Close(g) PROVE Data'
  <2>1. UNCHANGED dataVars
    BY <1>3 DEF Close, OnceFirst, CloseClosing, closeSockets, OnceEnd, OncePassed
  <2>2. AfterClose(g) \notin {"idle", "read", "backoff"}
    BY DEF AfterClose
  <2>3. UNCHANGED pc \/ \E to : to \notin {"idle", "read", "backoff"} /\ pc' = [pc EXCEPT ![g] = to]
    BY <1>3, <2>2 DEF Close, OnceFirst, CloseClosing, closeSockets, OnceEnd, OncePassed, Goto
  <2>4. \A r \in Reader : pc'[r] \in {"idle", "read", "backoff"} => pc[r] \in {"idle", "read", "backoff"}
    BY <1>t, <2>3 DEF Types, Goroutine
  <2> QED BY <2>1, <2>4, DataAside
<1>4. ASSUME NEW r \in Reader, BatchDone(r) PROVE Data'
  <2>1. UNCHANGED dataVars /\ batch[r] = <<>> /\ \A q \in Reader \ {r} : pc'[q] = pc[q]
    BY <1>t, <1>4 DEF BatchDone, Goto, Types, Goroutine
  <2> QED BY <2>1, DataAside, SMTT(30)
<1>5. ASSUME NEW r \in Reader,
             \/ HandlerReturns(r) \/ HandlerCloses(r) \/ ReadClosed(r) \/ BackoffClosed(r) \/ RecordFatal(r)
             \/ BackoffOver(r) \/ \E to \in {"backoff", "fatal"} : ReadFails(r, to)
      PROVE  Data'
  <2>1. /\ UNCHANGED dataVars
        /\ \E to : /\ pc' = [pc EXCEPT ![r] = to]
                   /\ to \in {"idle", "read", "backoff"} => pc[r] \in {"idle", "read", "backoff"}
    BY <1>5 DEF HandlerReturns, HandlerCloses, ReadClosed, BackoffClosed, RecordFatal, BackoffOver, ReadFails, Goto
  <2>2. \A q \in Reader : pc'[q] \in {"idle", "read", "backoff"} => pc[q] \in {"idle", "read", "backoff"}
    BY <1>t, <2>1 DEF Types, Goroutine
  <2> QED BY <2>1, <2>2, DataAside
<1>6. CASE AfterFuncRuns
  <2>1. UNCHANGED dataVars /\ \A r \in Reader : pc'[r] = pc[r]
    BY <1>t, <1>6, Apart DEF AfterFuncRuns, Goto, Types, Goroutine
  <2> QED BY <2>1, DataAside
<1>7. CASE UNCHANGED vars
  <2>1. UNCHANGED dataVars /\ UNCHANGED pc
    BY <1>7 DEF vars
  <2> QED BY <2>1, DataAside
<1> QED
  BY <1>t, <1>1, <1>2, <1>3, <1>4, <1>5, <1>6, <1>7, ReadData, MessageData, TruncatedData, ArriveData
  DEF Next, CallerStep, ReaderStep

\* Whatever left a socket's queue was handed over or counted by exactly one reader, in
\* order of arrival: TakenOnceInOrder, for any number of sockets and readers and any batch size.
THEOREM DatagramsTakenOnce == Spec => []TakenOnceInOrder
<1>1. Data => TakenOnceInOrder
  <2> SUFFICES ASSUME Data PROVE TakenOnceInOrder
    OBVIOUS
  <2> DEFINE Elems(q) == {q[i] : i \in DOMAIN q}
             Mine(s) == {r \in Reader : sock(r) = s}
  <2>1. /\ \A r \in Reader : Taken(r) \in Seq(Nat) /\ DOMAIN Taken(r) = 1..Len(Taken(r)) /\ sock(r) \in Socket
    BY DataFacts DEF Data
  <2>2. \A r \in Reader : \A i, j \in DOMAIN Taken(r) : i < j => Taken(r)[i] < Taken(r)[j]
    BY <2>1 DEF Data, Ordered
  <2>3. \A r, q \in Reader : r # q /\ sock(r) = sock(q) => Elems(Taken(r)) \cap Elems(Taken(q)) = {}
    BY <2>1 DEF Data, Once
  <2>4. ASSUME NEW s \in Socket PROVE UNION {Elems(Taken(r)) : r \in Mine(s)} = 1 .. Gone(s)
    <3>1. ASSUME NEW r \in Mine(s), NEW k \in Elems(Taken(r)) PROVE k \in 1 .. Gone(s)
      BY <2>1, <3>1, SMTT(30) DEF Data, Within
    <3>2. ASSUME NEW k \in 1 .. Gone(s) PROVE \E r \in Mine(s) : k \in Elems(Taken(r))
      <4>1. PICK r \in Reader : sock(r) = s /\ \E i \in 1..Len(Taken(r)) : Taken(r)[i] = k
        BY DEF Data, Complete
      <4>2. r \in Mine(s) /\ k \in Elems(Taken(r))
        BY <2>1, <4>1
      <4> QED BY <4>2
    <3> HIDE DEF Elems, Mine
    <3> QED BY <3>1, <3>2
  <2> QED BY <2>2, <2>3, <2>4, ZenonT(30) DEF TakenOnceInOrder, Taken, Gone
<1> QED BY <1>1, InitInv, NextInv, InitData, NextData, PTL DEF Spec
=============================================================================
