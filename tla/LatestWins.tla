------------------------------ MODULE LatestWins ------------------------------
(* What a view of a changing value promises when it may skip values: it only *)
(* moves forward, never shows what was not there yet, and in the end shows   *)
(* the last one, unless it is over before.  The values are numbered in the   *)
(* order they came; 0 is what the view shows at the start.                   *)
EXTENDS Naturals

CONSTANT MaxValues   \* bound: the values that ever come

VARIABLES
  newest,   \* the last value that came
  shown,    \* the value on display
  over      \* nobody looks any more

vars == <<newest, shown, over>>

Init == newest = 0 /\ shown = 0 /\ over = FALSE

Come ==
  /\ newest < MaxValues /\ newest' = newest + 1
  /\ UNCHANGED <<shown, over>>

Show ==
  /\ shown' \in (shown + 1)..newest
  /\ UNCHANGED <<newest, over>>

End ==
  /\ ~ over /\ over' = TRUE
  /\ UNCHANGED <<newest, shown>>

Next == Come \/ Show \/ End

Safety == Init /\ [][Next]_vars

CatchesUp == \A n \in 1..MaxValues : (newest >= n) ~> (shown >= n \/ over)

Spec == Safety /\ CatchesUp
===============================================================================
