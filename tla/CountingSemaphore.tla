-------------------------- MODULE CountingSemaphore --------------------------
(* What a concurrency limiter with a waiting line promises, whatever it    *)
(* counts: at most Slots holders, a line in which only the head can be     *)
(* served, and no free slot while someone waits.                           *)
EXTENDS Integers, FiniteSets, Sequences

CONSTANTS Calls, Slots

VARIABLES holders, line

Waiting == {line[i] : i \in 1..Len(line)}

Init == holders = {} /\ line = <<>>

\* A free slot goes to a newcomer only when nobody waits for it.
Enter(c) ==
    /\ c \notin holders /\ line = <<>>
    /\ Cardinality(holders) < Slots
    /\ holders' = holders \cup {c}
    /\ UNCHANGED line

Join(c) ==
    /\ c \notin holders \cup Waiting
    /\ Cardinality(holders) >= Slots
    /\ line' = Append(line, c)
    /\ UNCHANGED holders

\* A holder leaves, and the head of the line takes over its slot.
Leave(c) ==
    /\ c \in holders
    /\ IF line = <<>>
       THEN holders' = holders \ {c} /\ UNCHANGED line
       ELSE /\ holders' = (holders \ {c}) \cup {Head(line)}
            /\ line' = Tail(line)

Next == \E c \in Calls : Enter(c) \/ Join(c) \/ Leave(c)
Spec == Init /\ [][Next]_<<holders, line>>
=============================================================================
