----------------------------- MODULE MCLifecycle -----------------------------
(* Instances of Lifecycle for TLC. *)
EXTENDS Lifecycle

CONSTANTS m1, m2, k1

TwoMembers == {m1, m2}
OneCaller == {k1}
=============================================================================
