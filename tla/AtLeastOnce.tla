---------------------------- MODULE AtLeastOnce ----------------------------
(***************************************************************************)
(* What a consumer of events promises: what was published to it stays      *)
(* pending until it is served (a handler has succeeded with it, or nobody  *)
(* subscribed to its type) or parked in a dead-letter queue. It may be     *)
(* dropped only if it is not "sure", or if a handler has failed with it    *)
(* and nothing is there to park it. Handlers may succeed with an event any *)
(* number of times.                                                        *)
(***************************************************************************)
CONSTANTS Events

VARIABLES
    published, pending, served, parked,     \* sets of events
    failed,                                 \* events that a handler let go
    sure                                    \* events that may not be dropped

promiseVars == <<published, pending, served, parked, failed, sure>>

Init ==
    /\ published = {} /\ pending = {}
    /\ served = {} /\ parked = {} /\ failed = {}
    /\ sure \in SUBSET Events

\* An event that nobody subscribed to, or that was handled before, is served
\* as soon as it is published.
Publish(e) ==
    /\ published' = published \cup {e}
    /\ pending' = pending \cup {e}
    /\ served' \in {served, served \cup {e}}
    /\ UNCHANGED <<parked, failed, sure>>

\* A step of a consumer or of its broker.
Work ==
    /\ served \subseteq served' /\ served' \subseteq published
    /\ parked \subseteq parked' /\ parked' \subseteq published
    /\ failed \subseteq failed' /\ failed' \subseteq published
    /\ pending' \subseteq pending
    /\ sure \subseteq sure'
    /\ (pending \ pending') \cap sure \subseteq served' \cup parked' \cup failed'
    /\ UNCHANGED published

Next == Work \/ \E e \in Events : Publish(e)

Spec == Init /\ [][Next]_promiseVars
=============================================================================
