------------------------------ MODULE BufSizes -------------------------------
(* The size classes of buf.Pool (buf/buf.go): powers of two from MinSize to      *)
(* Large; what is larger is allocated directly and has class -1.                 *)
EXTENDS Integers

CONSTANTS
  minShift,   \* log2 of the smallest class
  numClasses  \* size classes

Pow2[k \in Nat] == IF k = 0 THEN 1 ELSE 2 * Pow2[k - 1]

MinSize == Pow2[minShift]
Large == Pow2[minShift + numClasses - 1]

\* bits.Len
BitLen(x) == CHOOSE k \in 0 .. x : Pow2[k] > x /\ (k > 0 => Pow2[k - 1] <= x)

classOf(n) == IF n > Large THEN -1 ELSE IF n <= MinSize THEN 0 ELSE BitLen(n - 1) - minShift

Capacity(n) == IF classOf(n) >= 0 THEN MinSize * Pow2[classOf(n)] ELSE n
=============================================================================
