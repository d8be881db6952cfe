------------------------------- MODULE Budget --------------------------------
(* limit.Budget: Reserve and Release of amounts of a W-bit counter, by          *)
(* goroutines that each hold one reservation at a time.                         *)
EXTENDS Integers, FiniteSets, FiniteSetsExt

CONSTANTS
  Proc,     \* goroutines
  W,        \* width of the signed integers, 64 in the code
  MaxUnits  \* Budget.max

VARIABLES
  used,  \* Budget.used
  held,  \* the amount each goroutine holds
  got    \* what the last Reserve asked for, what was held then and what it answered

vars == <<used, held, got>>

Width == -(2^(W - 1)) .. 2^(W - 1) - 1
\* Two's complement wrap-around.
Wrap(x) == ((x + 2^(W - 1)) % 2^W) - 2^(W - 1)

Held == MapThenSumSet(LAMBDA p : held[p], Proc)

Init == used = 0 /\ held = [p \in Proc |-> 0] /\ got = [n |-> 0, held |-> 0, ok |-> TRUE]

FitsNaively(n) == Wrap(used + n) <= MaxUnits                            \* mutated form
Fits(n) == n <= Wrap(MaxUnits - used)

\* Reserve(n): negative n is refused, and so is what does not fit.
Granted(n) == n >= 0 /\ Fits(n)

Reserve(p, n) ==
  /\ held[p] = 0
  /\ got' = [n |-> n, held |-> Held, ok |-> Granted(n)]
  /\ IF Granted(n)
       THEN used' = Wrap(used + n) /\ held' = [held EXCEPT ![p] = n]
       ELSE UNCHANGED <<used, held>>

\* Release(n) of a reservation; a negative n panics before it changes anything.
Release(p) ==
  /\ held[p] > 0 /\ used' = Wrap(used - held[p])
  /\ held' = [held EXCEPT ![p] = 0] /\ UNCHANGED got

Next ==
  \E p \in Proc : \/ \E n \in Width : Reserve(p, n)
                  \/ Release(p)

Spec == Init /\ [][Next]_vars
-----------------------------------------------------------------------------
\* The counter is the sum of the reservations, and Reserve grants exactly what
\* fits: no amount up to the largest integer slips through an overflow, and none
\* that fits is refused.
ReserveIsExact ==
  /\ used = Held /\ Held <= MaxUnits
  /\ got.ok <=> got.n >= 0 /\ got.held + got.n <= MaxUnits
=============================================================================
