------------------------------- MODULE Service -------------------------------
(* What a netx Service promises (lifecycle.go): Serve blocks until the service  *)
(* has fully stopped, and Shutdown stops accepting new work and returns nil     *)
(* only when the work in flight is done.  tcp.Server and udp.Conn implement it. *)

CONSTANTS
  Work,   \* pieces of work: connections, or readers with datagrams in hand
  Caller  \* goroutines that call Shutdown

VARIABLES
  serving,  \* Serve has begun
  stop,     \* "no", "stopping" (some work may still come in), or "stopped"
  work,     \* work in flight
  done,     \* Serve has returned after serving
  nils      \* callers whose Shutdown returned nil

vars == <<serving, stop, work, done, nils>>

Init == serving = FALSE /\ stop = "no" /\ work = {} /\ done = FALSE /\ nils = {}

Serve ==
  /\ ~serving /\ stop = "no"
  /\ serving' = TRUE /\ UNCHANGED <<stop, work, done, nils>>

Accept(w) ==
  /\ serving /\ ~done /\ stop # "stopped"
  /\ work' = work \cup {w} /\ UNCHANGED <<serving, stop, done, nils>>

Finish(w) == work' = work \ {w} /\ UNCHANGED <<serving, stop, done, nils>>

Stop ==
  /\ \/ stop = "no" /\ stop' \in {"stopping", "stopped"}
     \/ stop = "stopping" /\ stop' = "stopped"
  /\ UNCHANGED <<serving, work, done, nils>>

ServeReturns ==
  /\ serving /\ stop # "no" /\ work = {}
  /\ done' = TRUE /\ UNCHANGED <<serving, stop, work, nils>>

ShutdownNil(c) ==
  /\ stop = "stopped" /\ (done \/ ~serving)
  /\ nils' = nils \cup {c} /\ UNCHANGED <<serving, stop, work, done>>

Next ==
  \/ Serve \/ Stop \/ ServeReturns
  \/ \E w \in Work : Accept(w) \/ Finish(w)
  \/ \E c \in Caller : ShutdownNil(c)

Spec == Init /\ [][Next]_vars
-----------------------------------------------------------------------------
\* Once a Shutdown has returned nil no work is in flight, and none comes in
\* any more: not even through a Serve that was about to begin.
ShutdownNilIsQuiet == nils # {} => work = {} /\ stop = "stopped" /\ (done \/ ~serving)
=============================================================================
