------------------------------ MODULE TokenBucket ------------------------------
(***************************************************************************)
(* What a rate limit promises: every key that exists has a bucket of its   *)
(* own, full from the start and never forgotten.  Credit is counted in     *)
(* ticks: one request costs Cost of them, one tick gives one back.         *)
(***************************************************************************)
EXTENDS Integers

CONSTANTS Key, Full, Cost

VARIABLES level,    \* the credit of each key
          verdict   \* the last answer given

vars == <<level, verdict>>

Silent == [key |-> "nobody", allowed |-> FALSE]

Init == /\ level = [k \in Key |-> Full]
        /\ verdict = Silent

Tick == /\ level' = [k \in Key |-> IF level[k] < Full THEN level[k] + 1 ELSE level[k]]
        /\ UNCHANGED verdict

Allow(k) ==
    /\ verdict' = [key |-> k, allowed |-> level[k] >= Cost]
    /\ level' = [level EXCEPT ![k] = IF @ >= Cost THEN @ - Cost ELSE @]

Next == Tick \/ \E k \in Key : Allow(k)

Spec == Init /\ [][Next]_vars
===============================================================================
