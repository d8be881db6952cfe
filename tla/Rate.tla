-------------------------------- MODULE Rate ---------------------------------
(* limit.Rate: the token bucket.  Time advances in ticks; tokens are counted in *)
(* the fraction of a token that a tick may add: an admission costs Cost of      *)
(* them, a tick adds Refill (perSec / ticks per second * Cost), and the bucket  *)
(* holds Burst * Cost.  Rounding of the code's float64 is not modelled.         *)
EXTENDS Integers

CONSTANTS
  Cost,    \* fractions in one token
  Refill,  \* fractions that one tick adds
  Burst,   \* NewRate's burst, in tokens
  Horizon  \* bound on time

ASSUME RateAssumption ==
  Cost \in Nat \ {0} /\ Refill \in Nat \ {0} /\ Burst \in Nat \ {0} /\ Horizon \in Nat

VARIABLES
  time,    \* r.now()
  last,    \* Rate.last; Never is the zero time
  tokens,  \* Rate.tokens
  start,   \* history: when the observed window opened; Never before that
  count    \* history: admissions in the observed window

rateVars == <<time, last, tokens, start, count>>

Never == -1

RateInit == time = 0 /\ last = Never /\ tokens = Burst * Cost /\ start = Never /\ count = 0

Tick == time < Horizon /\ time' = time + 1 /\ UNCHANGED <<last, tokens, start, count>>

\* The bucket at the current time.
Refilled ==
  LET t == IF last = Never THEN tokens ELSE tokens + (time - last) * Refill
  IN IF t > Burst * Cost THEN Burst * Cost ELSE t

LastKept == IF Refilled < Cost THEN last ELSE time                 \* mutated form
LastNow == time

TryAcquire ==
  /\ last' = LastNow
  /\ IF Refilled < Cost
       THEN tokens' = Refilled /\ UNCHANGED count
       ELSE tokens' = Refilled - Cost /\ count' = IF start = Never THEN 0 ELSE count + 1
  /\ UNCHANGED <<time, start>>

\* An observer opens a window at any time.
Observe == start = Never /\ start' = time /\ UNCHANGED <<time, last, tokens, count>>

RateNext == Tick \/ TryAcquire \/ Observe

RateSpec == RateInit /\ [][RateNext]_rateVars
-----------------------------------------------------------------------------
\* Times are ordered and the bucket is never negative nor above its burst.
TypeOK ==
  /\ time \in Nat /\ last \in {Never} \cup Nat /\ last <= time
  /\ tokens \in 0 .. Burst * Cost
  /\ start \in {Never} \cup Nat /\ start <= time /\ count \in Nat

\* In every window, wherever it opens, at most burst plus rate times its length
\* are admitted.
WindowBound == start # Never => Cost * count <= Burst * Cost + Refill * (time - start)
=============================================================================
