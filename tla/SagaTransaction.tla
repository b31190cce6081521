-------------------------- MODULE SagaTransaction --------------------------
(***************************************************************************)
(* packages/saga SagaTransaction: steps whose actions may be in progress   *)
(* at the same time, commit, and any number of rollbacks, each of which    *)
(* awaits the compensations of the steps it found, the last step first.    *)
(***************************************************************************)
EXTENDS Naturals, Sequences, SequencesExt, FiniteSets

CONSTANTS
    Steps,          \* calls of step
    Rollbacks       \* bound: calls of rollback

ASSUME SagaAssumption == IsFiniteSet(Rollbacks)

VARIABLES
    status,
    fresh,          \* steps that have not been called
    acting,         \* steps that await their action
    completedSteps,
    undoing,        \* what each rollback has still to compensate; <<>> otherwise
    rolling,        \* rollbacks in progress
    spent,          \* rollbacks that have been called
    calls,          \* how often each compensation was called
    late,           \* ghost: steps recorded after a rollback had begun
    misused         \* ghost: commit or rollback called after either of them

sagaVars == <<status, fresh, acting, completedSteps, undoing, rolling, spent, calls, late, misused>>

Recorded == {completedSteps[i] : i \in 1..Len(completedSteps)}

SagaTypeOK ==
    /\ status \in {"running", "committed", "compensating", "compensated"}
    /\ fresh \subseteq Steps /\ acting \subseteq Steps \ fresh
    /\ completedSteps \in Seq(Steps \ (fresh \cup acting))
    /\ Cardinality(Recorded) = Len(completedSteps)
    /\ undoing \in [Rollbacks -> Seq(Steps)]
    /\ rolling \subseteq spent /\ spent \subseteq Rollbacks
    /\ calls \in [Steps -> 0..Cardinality(Rollbacks)]
    /\ late \subseteq Recorded
    /\ misused \in BOOLEAN

SagaInit ==
    /\ status = "running"
    /\ fresh = Steps /\ acting = {}
    /\ completedSteps = <<>>
    /\ undoing = [r \in Rollbacks |-> <<>>]
    /\ rolling = {} /\ spent = {}
    /\ calls = [s \in Steps |-> 0]
    /\ late = {} /\ misused = FALSE

\* step: it throws unless the saga is running; that and its timeout change
\* nothing.
Step(s) ==
    /\ s \in fresh /\ status = "running"
    /\ fresh' = fresh \ {s} /\ acting' = acting \cup {s}
    /\ UNCHANGED <<status, completedSteps, undoing, rolling, spent, calls, late, misused>>

\* The action resolves: the step is recorded, whatever the status is by now.
ActionResolves(s) ==
    /\ s \in acting
    /\ acting' = acting \ {s}
    /\ completedSteps' = Append(completedSteps, s)
    /\ late' = IF spent = {} THEN late ELSE late \cup {s}
    /\ UNCHANGED <<status, fresh, undoing, rolling, spent, calls, misused>>

ActionRejects(s) ==
    /\ s \in acting
    /\ acting' = acting \ {s}
    /\ UNCHANGED <<status, fresh, completedSteps, undoing, rolling, spent, calls, late, misused>>

Commit ==
    /\ status' = "committed"
    /\ misused' = (misused \/ status # "running")
    /\ UNCHANGED <<fresh, acting, completedSteps, undoing, rolling, spent, calls, late>>

\* runCompensations goes on with seq: the compensation of its first is called.
Compensate(r, seq) ==
    /\ undoing' = [undoing EXCEPT ![r] = seq]
    /\ calls' = IF seq = <<>> THEN calls ELSE [calls EXCEPT ![Head(seq)] = @ + 1]

Rollback(r) ==
    /\ r \notin spent
    /\ status' = "compensating"
    /\ rolling' = rolling \cup {r} /\ spent' = spent \cup {r}
    /\ Compensate(r, Reverse(completedSteps))
    /\ misused' = (misused \/ status # "running")
    /\ UNCHANGED <<fresh, acting, completedSteps, late>>

\* Mutant: the error of a compensation ends the loop.
CompensationSettlesMutant(r) ==
    /\ r \in rolling /\ undoing[r] # <<>>
    /\ \/ Compensate(r, Tail(undoing[r]))
       \/ Compensate(r, <<>>)
    /\ UNCHANGED <<status, fresh, acting, completedSteps, rolling, spent, late, misused>>
\* The compensation awaited resolves or rejects.
CompensationSettles(r) ==
    /\ r \in rolling /\ undoing[r] # <<>>
    /\ Compensate(r, Tail(undoing[r]))
    /\ UNCHANGED <<status, fresh, acting, completedSteps, rolling, spent, late, misused>>

RollbackEnds(r) ==
    /\ r \in rolling /\ undoing[r] = <<>>
    /\ status' = "compensated"
    /\ rolling' = rolling \ {r}
    /\ UNCHANGED <<fresh, acting, completedSteps, undoing, spent, calls, late, misused>>

SagaNext ==
    \/ Commit
    \/ \E s \in Steps : Step(s) \/ ActionResolves(s) \/ ActionRejects(s)
    \/ \E r \in Rollbacks : Rollback(r) \/ CompensationSettles(r) \/ RollbackEnds(r)

SagaSpec == SagaInit /\ [][SagaNext]_sagaVars

\* A saga whose rollback has ended has called the compensation of every step
\* it recorded once, whether or not compensations failed (docs/packages/
\* saga.md:16), except those of steps that were still in their action when the
\* rollback began (line 47), unless commit or rollback was called again
\* (line 55).
CompensatedOnce ==
    (status = "compensated" /\ ~misused) =>
        \A s \in Recorded : calls[s] = IF s \in late THEN 0 ELSE 1
=============================================================================
