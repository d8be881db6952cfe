------------------------------- MODULE MCLimits -------------------------------
(* Instances of Rate, Limit, Budget and of StreamWriter, whose buffers a budget *)
(* is charged for, for TLC, side by side: part says which of them a behaviour   *)
(* is of.                                                                       *)
EXTENDS Rate, Limit, TLC

CONSTANTS p1, p2, p3, W, MaxUnits, w1, w2, b1, b2, b3

ThreeProcs == {p1, p2, p3}
\* The middle limiter is the tightest, so that refusals roll back.
ThreeLimiters == <<2, 1, 3>>

TwoWriters == {w1, w2}
ThreeBufs == {b1, b2, b3}

\* Writers are alike, and so are Bufs.
Alike == Permutations(TwoWriters) \cup Permutations(ThreeBufs)

VARIABLES part, used, held, got, charged, bufs, wr

budgetVars == <<used, held, got>>
writerVars == <<charged, bufs, wr>>

B == INSTANCE Budget

\* Classes of 1 and 2 bytes; messages of 1 byte, and of 3, which are not pooled; a
\* budget for three Bufs of which one is large.
Wr == INSTANCE StreamWriter WITH
  Writer <- TwoWriters, Buf <- ThreeBufs, minShift <- 0, numClasses <- 2, Sizes <- {1, 3}, MaxUnits <- 5, MaxMsgs <- 2,
  Debug <- TRUE, used <- charged

InitParts ==
  part \in {"rate", "permits", "budget", "writer"} /\ RateInit /\ AllInit /\ B!Init /\ Wr!Init

NextParts ==
  /\ UNCHANGED part
  /\ \/ part = "rate" /\ RateNext /\ UNCHANGED <<allVars, budgetVars, writerVars>>
     \/ part = "permits" /\ AllNext /\ UNCHANGED <<rateVars, budgetVars, writerVars>>
     \/ part = "budget" /\ B!Next /\ UNCHANGED <<rateVars, allVars, writerVars>>
     \/ part = "writer" /\ Wr!Next /\ UNCHANGED <<rateVars, allVars, budgetVars>>

SpecParts == InitParts /\ [][NextParts]_<<part, rateVars, allVars, budgetVars, writerVars>>
-----------------------------------------------------------------------------
\* Budget counts exactly what is reserved, and Reserve grants exactly what fits.
ReserveIsExact == B!ReserveIsExact

\* A Buf outside the pool has one owner, who releases it once (Buf.Release,
\* Writer.Discard), and the budget is charged for it as long.
BufHasOneOwner == Wr!BufHasOneOwner

\* Flush sends what was added, in order and unchanged, up to the first error.
FlushSendsPrefix == Wr!FlushSendsPrefix
=============================================================================
