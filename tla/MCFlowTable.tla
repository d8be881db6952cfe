----------------------------- MODULE MCFlowTable -----------------------------
(* Instances of FlowTable for TLC. *)
EXTENDS FlowTable, TLC

CONSTANTS p1, p2, k1, k2

TwoProcs == {p1, p2}
OneKey == {k1}
TwoKeys == {k1, k2}
OneShard == [k \in Key |-> 0]
TwoShards == [k \in Key |-> IF k = k1 THEN 0 ELSE 1]

\* Goroutines are interchangeable.
Sym == Permutations(Proc)
=============================================================================
