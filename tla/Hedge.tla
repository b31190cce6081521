------------------------------- MODULE Hedge -------------------------------
(***************************************************************************)
(* packages/resilience Hedge.execute: the copies of one operation, started *)
(* by timers one after the other. tryReject trusts two counters, and not   *)
(* the copies themselves.                                                  *)
(***************************************************************************)
EXTENDS Integers

CONSTANTS MaxCopies             \* bound on options.copies

ASSUME HedgeAssumption == MaxCopies \in Nat \ {0}

VARIABLES
    copies,         \* options.copies
    copy,           \* "unborn", "running", "ok" or "failed"
    fired,          \* timers that have fired
    pending, timersPending,
    outcome         \* of the promise: "open", "resolved" or "rejected"

hedgeVars == <<copies, copy, fired, pending, timersPending, outcome>>

HedgeTypeOK ==
    /\ copies \in 0..MaxCopies
    /\ copy \in [0..MaxCopies - 1 -> {"unborn", "running", "ok", "failed"}]
    /\ fired \in 0..MaxCopies - 1
    /\ pending \in 0..MaxCopies /\ timersPending \in -1..MaxCopies - 1
    /\ outcome \in {"open", "resolved", "rejected"}

HedgeInit ==
    /\ copies \in 0..MaxCopies
    /\ copy = [i \in 0..MaxCopies - 1 |-> "unborn"]
    /\ fired = 0 /\ pending = 0 /\ timersPending = 0
    /\ outcome = "open"

\* A call of execute, when nothing of the last is left. The first copy is
\* launched whatever the options say.
Hedged ==
    /\ copy[0] = "unborn" \/ fired >= copies - 1
    /\ \A i \in 0..MaxCopies - 1 : copy[i] # "running"
    /\ copy' = [i \in 0..MaxCopies - 1 |-> IF i = 0 THEN "running" ELSE "unborn"]
    /\ fired' = 0 /\ pending' = 1 /\ timersPending' = copies - 1
    /\ outcome' = "open"
    /\ UNCHANGED copies

\* Mutant: a copy that is not launched yet is forgotten.
TryRejectMutant(p, t) ==
    outcome' = IF p = 0 /\ outcome = "open" THEN "rejected" ELSE outcome
TryReject(p, t) ==
    outcome' = IF p = 0 /\ t = 0 /\ outcome = "open" THEN "rejected" ELSE outcome

CopyFulfills(i) ==
    /\ copy[i] = "running"
    /\ copy' = [copy EXCEPT ![i] = "ok"]
    /\ outcome' = IF outcome = "open" THEN "resolved" ELSE outcome
    /\ UNCHANGED <<copies, fired, pending, timersPending>>

CopyRejects(i) ==
    /\ copy[i] = "running"
    /\ copy' = [copy EXCEPT ![i] = "failed"]
    /\ pending' = pending - 1
    /\ TryReject(pending - 1, timersPending)
    /\ UNCHANGED <<copies, fired, timersPending>>

\* The timers were set with growing delays and fire in this order.
HedgeTimer ==
    /\ copy[0] # "unborn" /\ fired < copies - 1
    /\ fired' = fired + 1
    /\ timersPending' = timersPending - 1
    /\ IF outcome = "open"
       THEN /\ copy' = [copy EXCEPT ![fired'] = "running"] /\ pending' = pending + 1
            /\ UNCHANGED outcome
       ELSE UNCHANGED <<copy, pending>> /\ TryReject(pending, timersPending - 1)
    /\ UNCHANGED copies

CopySettles(i) == CopyFulfills(i) \/ CopyRejects(i)
HedgeNext == Hedged \/ HedgeTimer \/ \E i \in 0..MaxCopies - 1 : CopySettles(i)

\* Timers fire, and the operation settles.
HedgeFairness ==
    /\ WF_hedgeVars(HedgeTimer)
    /\ \A i \in 0..MaxCopies - 1 : WF_hedgeVars(CopySettles(i))

HedgeSpec == HedgeInit /\ [][HedgeNext]_hedgeVars /\ HedgeFairness

(***************************************************************************)
(* Properties                                                              *)
(***************************************************************************)
\* "if every copy rejects the last rejection is propagated", and "a fast
\* rejection from the first copy does not prematurely settle the promise"
\* (lines 11 and 13): the caller is refused only if every copy that was asked
\* for was launched and failed, and is never refused what one has returned.
RefusedLast ==
    /\ outcome = "rejected" => fired = copies - 1 /\ \A i \in 0..fired : copy[i] = "failed"
    /\ outcome = "resolved" <=> \E i \in 0..fired : copy[i] = "ok"

\* The caller is answered if the copies settle, and one was asked for.
HedgeSettles == (copies > 0 /\ copy[0] # "unborn") ~> outcome # "open"
=============================================================================
