---------------------------- MODULE JobScheduler ----------------------------
(***************************************************************************)
(* InMemoryScheduler of packages/scheduler with its JobRegistry and its    *)
(* ConcurrencyLimiters, and the IntervalRunner that triggers jobs on       *)
(* timers.                                                                 *)
(*                                                                         *)
(* Each registration gets a limiter of its own.  An execution keeps the    *)
(* limiter that it was started under, while its job can be unregistered,   *)
(* registered again, triggered again, or the scheduler cleared, between    *)
(* any two of its attempts.                                                *)
(***************************************************************************)
EXTENDS Integers, FiniteSets, Sequences

CONSTANTS
    Jobs,           \* job ids
    MaxConcurrency, \* registration.maxConcurrency
    MaxRetries,     \* registration.maxRetries
    MaxExecs,       \* bound: executions started
    MaxRegs         \* bound: registrations

ASSUME ConcurrencyAssumption == MaxConcurrency \in Nat
ASSUME RetriesAssumption == MaxRetries \in Nat
ASSUME BoundsAssumption == MaxExecs \in Nat /\ MaxRegs \in Nat

VARIABLES
    owner,      \* the job of every registration so far, by number
    current,    \* number of the job's registration; 0 when it has none
    count,      \* getCount of the limiter of each registration
    runs,       \* the registration of every execution so far, by id
    phase,      \* how far each execution has come
    attempt,    \* attempt, counted from 0
    record,     \* the status each execution's JobRecord shows
    stats,      \* stats
    timer,      \* handles: jobs with an interval
    disturbed   \* ghost: clear was called while something ran

schedVars == <<owner, current, count, runs, phase, attempt, record,
               stats, timer, disturbed>>

Execs == 1..MaxExecs
Final == {"succeeded", "failed"}
InProgress == {"executing", "delaying"}
Counters == {"total", "succeeded", "failed", "active"}
Running == {e \in Execs : phase[e] \in InProgress}
Regs == 1..MaxRegs
Under(g) == {e \in Running : runs[e] = g}
OfJob(j) == {e \in Running : owner[runs[e]] = j}

SchedTypeOK ==
    /\ owner \in Seq(Jobs) /\ Len(owner) <= MaxRegs
    /\ current \in [Jobs -> 0..MaxRegs]
    /\ count \in [Regs -> Nat]
    /\ runs \in Seq(Regs) /\ Len(runs) <= MaxExecs
    /\ phase \in [Execs -> {"unused"} \cup InProgress \cup Final]
    /\ attempt \in [Execs -> 0..MaxRetries]
    /\ record \in [Execs -> {"none", "running"} \cup Final]
    /\ stats \in [Counters -> Int]
    /\ timer \subseteq Jobs
    /\ disturbed \in BOOLEAN

NoStats == [c \in Counters |-> 0]

SchedInit ==
    /\ owner = <<>>
    /\ current = [j \in Jobs |-> 0]
    /\ count = [g \in Regs |-> 0]
    /\ runs = <<>>
    /\ phase = [e \in Execs |-> "unused"]
    /\ attempt = [e \in Execs |-> 0]
    /\ record = [e \in Execs |-> "none"]
    /\ stats = NoStats
    /\ timer = {}
    /\ disturbed = FALSE

\* register throws for an id that is registered, before it makes a limiter.
Register(j) ==
    /\ current[j] = 0
    /\ Len(owner) < MaxRegs
    /\ owner' = Append(owner, j)
    /\ current' = [current EXCEPT ![j] = Len(owner) + 1]
    /\ UNCHANGED <<count, runs, phase, attempt, record, stats, timer, disturbed>>

Unregister(j) ==
    /\ current[j] # 0
    /\ current' = [current EXCEPT ![j] = 0]
    /\ UNCHANGED <<owner, count, runs, phase, attempt, record, stats, timer, disturbed>>

\* isAllowed.
Allowed(j) == count[current[j]] < MaxConcurrency
\* trigger starts an execution, whose first attempt runs at once; or throws.
Admit(j) ==
    /\ current[j] # 0
    /\ Allowed(j)
    /\ Len(runs) < MaxExecs
    /\ runs' = Append(runs, current[j])
    /\ phase' = [phase EXCEPT ![Len(runs) + 1] = "executing"]
    /\ record' = [record EXCEPT ![Len(runs) + 1] = "running"]
    /\ count' = [count EXCEPT ![current[j]] = @ + 1]
    /\ stats' = [stats EXCEPT !["total"] = @ + 1, !["active"] = @ + 1]
    /\ UNCHANGED <<owner, current, attempt, timer, disturbed>>
Refuse(j) ==
    /\ current[j] # 0 => ~Allowed(j)
    /\ UNCHANGED schedVars
Trigger(j) == Admit(j) \/ Refuse(j)

\* Mutant of finalize: only a success gives its slot back.
KeepSlot(e, outcome) ==
    /\ phase' = [phase EXCEPT ![e] = outcome]
    /\ record' = [record EXCEPT ![e] = outcome]
    /\ stats' = [stats EXCEPT ![outcome] = @ + 1, !["active"] = @ - 1]
    /\ count' = IF outcome = "failed" THEN count
                ELSE [count EXCEPT ![runs[e]] = @ - 1]
\* Mutant of finalize: a failed execution stays active.
StaysActive(e, outcome) ==
    /\ phase' = [phase EXCEPT ![e] = outcome]
    /\ record' = [record EXCEPT ![e] = outcome]
    /\ stats' = [stats EXCEPT ![outcome] = @ + 1,
                              !["active"] = IF outcome = "failed" THEN @ ELSE @ - 1]
    /\ count' = [count EXCEPT ![runs[e]] = IF @ > 0 THEN @ - 1 ELSE @]
\* finalize, which releases the limiter the execution was started under.
Finalize(e, outcome) ==
    /\ phase' = [phase EXCEPT ![e] = outcome]
    /\ record' = [record EXCEPT ![e] = outcome]
    /\ stats' = [stats EXCEPT ![outcome] = @ + 1, !["active"] = @ - 1]
    /\ count' = [count EXCEPT ![runs[e]] = IF @ > 0 THEN @ - 1 ELSE @]

Succeed(e) ==
    /\ phase[e] = "executing"
    /\ Finalize(e, "succeeded")
    /\ UNCHANGED <<owner, current, runs, attempt, timer, disturbed>>

\* Mutant of runWithRetries: one retry too many.
RetryOnceMore(e) ==
    /\ phase[e] = "executing"
    /\ IF attempt[e] <= MaxRetries
       THEN phase' = [phase EXCEPT ![e] = "delaying"] /\ UNCHANGED <<record, stats, count>>
       ELSE Finalize(e, "failed")
    /\ UNCHANGED <<owner, current, runs, attempt, timer, disturbed>>
\* An attempt fails: runWithRetries awaits the back-off, or gives up.
AttemptFails(e) ==
    /\ phase[e] = "executing"
    /\ IF attempt[e] < MaxRetries
       THEN phase' = [phase EXCEPT ![e] = "delaying"] /\ UNCHANGED <<record, stats, count>>
       ELSE Finalize(e, "failed")
    /\ UNCHANGED <<owner, current, runs, attempt, timer, disturbed>>

\* Mutant: the attempts are not counted.
SameAttempt(e) ==
    /\ phase[e] = "delaying"
    /\ phase' = [phase EXCEPT ![e] = "executing"]
    /\ UNCHANGED <<owner, current, count, runs, attempt, record, stats, timer, disturbed>>
NextAttempt(e) ==
    /\ phase[e] = "delaying"
    /\ phase' = [phase EXCEPT ![e] = "executing"]
    /\ attempt' = [attempt EXCEPT ![e] = @ + 1]
    /\ UNCHANGED <<owner, current, count, runs, record, stats, timer, disturbed>>

\* clear forgets registrations, records and statistics; what runs runs on,
\* with the limiter it holds.
Clear ==
    /\ current' = [j \in Jobs |-> 0]
    /\ record' = [e \in Execs |-> "none"]
    /\ stats' = NoStats
    /\ disturbed' = (disturbed \/ Running # {})
    /\ UNCHANGED <<owner, count, runs, phase, attempt, timer>>

\* IntervalRunner: start, stop, and the interval's callback, which swallows
\* what trigger throws.
StartTimer(j) ==
    /\ j \notin timer
    /\ timer' = timer \cup {j}
    /\ UNCHANGED <<owner, current, count, runs, phase, attempt, record, stats, disturbed>>
StopTimer(j) ==
    /\ j \in timer
    /\ timer' = timer \ {j}
    /\ UNCHANGED <<owner, current, count, runs, phase, attempt, record, stats, disturbed>>
Fire(j) == j \in timer /\ Trigger(j)

GoesOn(e) == Succeed(e) \/ AttemptFails(e) \/ NextAttempt(e)

SchedNext ==
    \/ Clear
    \/ \E j \in Jobs : \/ Register(j) \/ Unregister(j) \/ Trigger(j)
                       \/ StartTimer(j) \/ StopTimer(j) \/ Fire(j)
    \/ \E e \in Execs : GoesOn(e)

SchedSpec == SchedInit /\ [][SchedNext]_schedVars

(* Attempts settle and delays end; nobody has to trigger or register.      *)
SchedFairness == \A e \in Execs : WF_schedVars(GoesOn(e))
SchedFairSpec == SchedSpec /\ SchedFairness

-----------------------------------------------------------------------------
(* A limiter counts exactly the executions that hold one of its slots, in  *)
(* whatever order they end, their job is registered anew or the scheduler  *)
(* is cleared: no slot leaks, none is given back twice, and a registration *)
(* never has more than MaxConcurrency executions.                          *)
SlotsMatchRuns ==
    \A g \in Regs : count[g] = Cardinality(Under(g)) /\ count[g] <= MaxConcurrency

(* The statistics and the records tell the same story as the executions,   *)
(* unless clear was called under executions in progress.                   *)
Recorded(s) == {e \in Execs : record[e] = s}
StatsTellTruth ==
    ~disturbed =>
        /\ stats["active"] = Cardinality(Running)
        /\ Recorded("running") = Running
        /\ stats["succeeded"] = Cardinality(Recorded("succeeded"))
        /\ stats["failed"] = Cardinality(Recorded("failed"))
        /\ stats["total"] = stats["active"] + stats["succeeded"] + stats["failed"]

(* If the attempts of a job settle, every execution comes to an end, and   *)
(* its slot comes back whatever happened to its registration.              *)
EveryRunEnds ==
    \A e \in Execs : phase[e] \in InProgress ~> phase[e] \in Final

(* docs/packages/scheduler.md:81: "By default, concurrent runs of the same *)
(* job are prevented": a job id never has more than MaxConcurrency         *)
(* executions in progress.                                                 *)
ConcurrencyRespected == \A j \in Jobs : Cardinality(OfJob(j)) <= MaxConcurrency
=============================================================================
