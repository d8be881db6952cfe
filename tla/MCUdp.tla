-------------------------------- MODULE MCUdp --------------------------------
(* Instances of UdpConn and DropCounter for TLC, side by side: part says which  *)
(* of the two a behaviour is of.  They share no state: what a reader does with  *)
(* the kernel's count does not depend on the datagrams, and the other way round.*)
EXTENDS UdpConn

CONSTANTS c1, c2, r1, r2, W, MaxStep, MaxDrops, MaxQueue

TwoCallers == {c1, c2}

VARIABLES part, kernel, counts, last, total, rd

dropVars == <<kernel, counts, last, total, rd>>

Drops == INSTANCE DropCounter WITH Reader <- {r1, r2}, queue <- counts

InitParts == part \in {"conn", "drops"} /\ Init /\ Drops!Init

NextParts ==
  \/ part = "conn" /\ Next /\ UNCHANGED <<part, dropVars>>
  \/ part = "drops" /\ Drops!Next /\ UNCHANGED <<part, vars>>

SpecParts == InitParts /\ [][NextParts]_<<part, vars, dropVars>> /\ (part = "conn" => Fairness)

\* observe adds up to a count the kernel had, however readers overtake each other
\* and wherever the count wraps, and misses none that was reported.
DropsExact == Drops!DropsExact
=============================================================================
