----------------------------- MODULE TokenBucket -----------------------------
(* What a rate limiter promises: a bucket of Max units into which one unit *)
(* flows every tick, and from which callers take what they ask for, or     *)
(* nothing when it holds less.                                             *)
EXTENDS Integers

CONSTANTS Max, Amounts

VARIABLES level, refused

Init == level = Max /\ refused = 0

Flow ==
    /\ level' = IF level < Max THEN level + 1 ELSE level
    /\ UNCHANGED refused

Take(n) ==
    /\ n <= level
    /\ level' = level - n
    /\ refused' = 0

TurnDown(n) ==
    /\ n > level
    /\ refused' = n
    /\ UNCHANGED level

Next == Flow \/ \E n \in Amounts : Take(n) \/ TurnDown(n)
Spec == Init /\ [][Next]_<<level, refused>>
=============================================================================
