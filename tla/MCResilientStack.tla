-------------------------- MODULE MCResilientStack --------------------------
(* Instances of ResilientStack for TLC: one slot and room for two waiters, *)
(* so that the order in which they wait can be told.                       *)
EXTENDS ResilientStack

MCCallers == {"r1", "r2", "r3", "r4"}
MCMaxAttempts == 2
MCAttempts == MCCallers \X (1..MCMaxAttempts)

\* The requests are interchangeable and arrive in the order of their names.
\* The fourth is the one too many: it comes when the line is full, passes the
\* limiter and asks at once. What else could become of it becomes of the others.
Arrivals == <<"r1", "r2", "r3", "r4">>
InTurn ==
    /\ \A i \in 1..Len(Arrivals) - 1 :
          stage'[Arrivals[i]] = "new" => stage'[Arrivals[i + 1]] = "new"
    /\ stage'["r4"] = "admitted" => stage["r4"] = "new" /\ Len(queue) = MaxQueue
    /\ stage["r4"] = "new" => stage'["r4"] # "done"

MCSpec == Init /\ [][Next /\ InTurn]_vars /\ Fairness
=============================================================================
