------------------------------- MODULE MCRing -------------------------------
(* Instances of Ring for TLC. *)
EXTENDS Ring, TLC

CONSTANTS p1, p2, p3, NItems

ThreeProcs == {p1, p2, p3}
Items == 1..NItems

\* Goroutines are interchangeable; used where only safety is checked.
Sym == Permutations(Proc)
=============================================================================
