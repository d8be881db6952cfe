--------------------------- MODULE MCStreamReader ---------------------------
(* Instances of StreamReader for TLC. *)
EXTENDS StreamReader, TLC

CONSTANTS c1, c2

TwoReaders == {c1, c2}

\* One Max below the largest size class, and one above it.
TwoMax == c1 :> 3 @@ c2 :> 5
=============================================================================
