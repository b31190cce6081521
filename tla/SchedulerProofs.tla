--------------------------- MODULE SchedulerProofs ---------------------------
(* Theorems about JobScheduler, for every number of jobs, registrations    *)
(* and executions and every limit.                                         *)
EXTENDS JobScheduler, FiniteSetTheorems, TLAPS

(* Ids are given out in order: an execution beyond the last one started    *)
(* has neither a phase nor a record, and one that waits has attempts left. *)
Known ==
    /\ \A e \in Execs : e > Len(runs) => phase[e] = "unused" /\ record[e] = "none"
    /\ \A e \in Execs : phase[e] = "delaying" => attempt[e] < MaxRetries
BaseInv == SchedTypeOK /\ Known

(* Every step is one of four kinds: it starts an execution, ends one,      *)
(* clears the records, or leaves what runs alone.                          *)
Starts(g) ==
    /\ count[g] < MaxConcurrency
    /\ Len(runs) < MaxExecs
    /\ runs' = Append(runs, g)
    /\ phase' = [phase EXCEPT ![Len(runs) + 1] = "executing"]
    /\ record' = [record EXCEPT ![Len(runs) + 1] = "running"]
    /\ count' = [count EXCEPT ![g] = @ + 1]
    /\ stats' = [stats EXCEPT !["total"] = @ + 1, !["active"] = @ + 1]
    /\ UNCHANGED disturbed
Finishes(e, outcome) ==
    /\ phase[e] = "executing"
    /\ Finalize(e, outcome)
    /\ UNCHANGED <<runs, disturbed>>
Moves ==
    /\ phase' \in [Execs -> {"unused"} \cup InProgress \cup Final]
    /\ \A e \in Execs : phase'[e] \in InProgress <=> phase[e] \in InProgress
    /\ \A e \in Execs : phase[e] = "unused" => phase'[e] = "unused"
    /\ UNCHANGED <<runs, count, record, stats, disturbed>>

LEMMA Kinds ==
    ASSUME BaseInv, [SchedNext]_schedVars
    PROVE  \/ \E g \in Regs : Starts(g)
           \/ \E e \in Execs, outcome \in Final : Finishes(e, outcome)
           \/ Clear
           \/ Moves
<1> USE BoundsAssumption
    DEF BaseInv, SchedTypeOK, Execs, Regs, InProgress, Final, Moves
<1>1. CASE UNCHANGED schedVars
  BY <1>1 DEF schedVars
<1>2. ASSUME NEW j \in Jobs, Admit(j)
      PROVE  \E g \in Regs : Starts(g)
  <2>1. current[j] \in Regs
    BY <1>2 DEF Admit
  <2> QED
    BY <1>2, <2>1 DEF Admit, Allowed, Starts
<1>3. ASSUME NEW j \in Jobs,
             Register(j) \/ Unregister(j) \/ Refuse(j) \/ StartTimer(j) \/ StopTimer(j)
      PROVE  Moves
  BY <1>3 DEF Register, Unregister, Refuse, StartTimer, StopTimer, schedVars
<1>4. ASSUME NEW e \in Execs, Succeed(e) \/ AttemptFails(e)
      PROVE  Moves \/ \E outcome \in Final : Finishes(e, outcome)
  BY <1>4 DEF Succeed, AttemptFails, Finishes
<1>5. ASSUME NEW e \in Execs, NextAttempt(e) PROVE Moves
  BY <1>5 DEF NextAttempt
<1> QED
  BY <1>1, <1>2, <1>3, <1>4, <1>5 DEF SchedNext, Trigger, Fire, GoesOn

-----------------------------------------------------------------------------
LEMMA BaseInit == SchedInit => BaseInv
<1> SUFFICES ASSUME SchedInit PROVE BaseInv
  OBVIOUS
<1>1. owner = <<>> /\ owner \in Seq(Jobs) /\ runs = <<>> /\ runs \in Seq(Regs)
  BY DEF SchedInit
<1>2. Len(owner) = 0 /\ Len(runs) = 0
  BY <1>1
<1>3. SchedTypeOK
  <2>1. disturbed \in BOOLEAN
    BY Zenon DEF SchedInit
  <2>2. /\ current \in [Jobs -> 0..MaxRegs] /\ count \in [Regs -> Nat]
        /\ attempt \in [Execs -> 0..MaxRetries] /\ stats \in [Counters -> Int]
    BY RetriesAssumption, BoundsAssumption DEF SchedInit, NoStats
  <2>3. /\ phase \in [Execs -> {"unused"} \cup InProgress \cup Final]
        /\ record \in [Execs -> {"none", "running"} \cup Final]
        /\ timer \subseteq Jobs
    BY DEF SchedInit
  <2> QED
    BY <1>1, <1>2, <2>1, <2>2, <2>3, BoundsAssumption DEF SchedTypeOK
<1>4. Known
  BY DEF SchedInit, Known
<1> QED
  BY <1>3, <1>4 DEF BaseInv

LEMMA FinalizeType ==
    ASSUME BaseInv, NEW e \in Execs, phase[e] = "executing",
           NEW outcome \in Final, Finalize(e, outcome)
    PROVE  /\ count' \in [Regs -> Nat]
           /\ phase' \in [Execs -> {"unused"} \cup InProgress \cup Final]
           /\ record' \in [Execs -> {"none", "running"} \cup Final]
           /\ stats' \in [Counters -> Int]
<1>1. runs[e] \in Regs
  <2>1. runs \in Seq(Regs) /\ Len(runs) \in Nat /\ e \in Int /\ e >= 1
    BY BoundsAssumption DEF BaseInv, SchedTypeOK, Execs
  <2>2. ~(e > Len(runs))
    BY DEF BaseInv, Known
  <2>3. e \in 1..Len(runs)
    BY <2>1, <2>2
  <2> QED
    BY <2>1, <2>3
<1>2. count' \in [Regs -> Nat]
  BY <1>1 DEF Finalize, BaseInv, SchedTypeOK, Counters
<1>3. stats' \in [Counters -> Int]
  <2>1. CASE outcome = "succeeded"
    BY <2>1 DEF Finalize, BaseInv, SchedTypeOK, Counters
  <2>2. CASE outcome = "failed"
    BY <2>2 DEF Finalize, BaseInv, SchedTypeOK, Counters
  <2> QED
    BY <2>1, <2>2 DEF Final
<1> QED
  BY <1>2, <1>3 DEF Finalize, BaseInv, SchedTypeOK, Final

LEMMA FinalizeKnown ==
    ASSUME BaseInv, NEW e \in Execs, phase[e] = "executing",
           NEW outcome \in Final, Finalize(e, outcome), UNCHANGED <<runs, attempt>>
    PROVE  Known'
<1>1. /\ phase'[e] \in Final
      /\ \A f \in Execs \ {e} : phase'[f] = phase[f] /\ record'[f] = record[f]
  BY DEF Finalize, BaseInv, SchedTypeOK
<1>2. ~(e > Len(runs))
  BY DEF BaseInv, Known
<1>3. "delaying" \notin Final
  BY DEF Final
<1> QED
  BY <1>1, <1>2, <1>3 DEF BaseInv, Known

LEMMA BaseStep == BaseInv /\ [SchedNext]_schedVars => BaseInv'
<1> SUFFICES ASSUME BaseInv, [SchedNext]_schedVars PROVE BaseInv'
  OBVIOUS
<1> USE ConcurrencyAssumption, RetriesAssumption, BoundsAssumption
<1>1. CASE Clear
  BY <1>1 DEF Clear, BaseInv, SchedTypeOK, Known, NoStats, Counters, Final, InProgress, Execs
<1>2. ASSUME NEW j \in Jobs, Register(j) \/ Unregister(j) PROVE BaseInv'
  <2>1. /\ owner' \in Seq(Jobs) /\ Len(owner') <= MaxRegs
        /\ current' \in [Jobs -> 0..MaxRegs]
    <3>1. owner \in Seq(Jobs) /\ Len(owner) \in Nat /\ Len(owner) <= MaxRegs
      BY DEF BaseInv, SchedTypeOK
    <3>2. CASE Register(j)
      BY <3>1, <3>2 DEF Register, BaseInv, SchedTypeOK
    <3>3. CASE Unregister(j)
      BY <3>1, <3>3 DEF Unregister, BaseInv, SchedTypeOK
    <3> QED
      BY <1>2, <3>2, <3>3
  <2>2. UNCHANGED <<count, runs, phase, attempt, record, stats, timer, disturbed>>
    BY <1>2 DEF Register, Unregister
  <2> QED
    BY <2>1, <2>2 DEF BaseInv, SchedTypeOK, Known
<1>3. ASSUME NEW j \in Jobs, StartTimer(j) \/ StopTimer(j) PROVE BaseInv'
  BY <1>3 DEF StartTimer, StopTimer, BaseInv, SchedTypeOK, Known, Execs
<1>4. ASSUME NEW j \in Jobs, Admit(j) PROVE BaseInv'
  <2>1. current[j] \in Regs /\ Len(runs) + 1 \in Execs
    BY <1>4 DEF Admit, BaseInv, SchedTypeOK, Execs, Regs
  <2>2. /\ runs' \in Seq(Regs) /\ Len(runs') = Len(runs) + 1
        /\ count' \in [Regs -> Nat]
        /\ stats' \in [Counters -> Int]
    <3>1. runs' \in Seq(Regs) /\ Len(runs') = Len(runs) + 1
      BY <1>4, <2>1 DEF Admit, BaseInv, SchedTypeOK
    <3>2. count' \in [Regs -> Nat]
      BY <1>4, <2>1 DEF Admit, BaseInv, SchedTypeOK
    <3>3. stats' \in [Counters -> Int]
      BY <1>4 DEF Admit, BaseInv, SchedTypeOK, Counters
    <3> QED
      BY <3>1, <3>2, <3>3
  <2>3. Known'
    <3>1. ASSUME NEW e \in Execs, e > Len(runs')
          PROVE  phase'[e] = "unused" /\ record'[e] = "none"
      <4>1. e # Len(runs) + 1 /\ e > Len(runs)
        BY <2>2, <3>1 DEF BaseInv, SchedTypeOK, Execs
      <4> QED
        BY <1>4, <4>1 DEF Admit, BaseInv, SchedTypeOK, Known
    <3>2. ASSUME NEW e \in Execs, phase'[e] = "delaying"
          PROVE  attempt'[e] < MaxRetries
      <4>1. phase[e] = "delaying" /\ attempt' = attempt
        BY <1>4, <3>2 DEF Admit, BaseInv, SchedTypeOK
      <4> QED
        BY <4>1 DEF BaseInv, Known
    <3> QED
      BY <3>1, <3>2 DEF Known
  <2>4. phase' \in [Execs -> {"unused"} \cup InProgress \cup Final]
    BY <1>4, <2>1 DEF Admit, BaseInv, SchedTypeOK, InProgress
  <2>5. record' \in [Execs -> {"none", "running"} \cup Final]
    BY <1>4, <2>1 DEF Admit, BaseInv, SchedTypeOK
  <2>6. Len(runs') <= MaxExecs
    BY <2>1, <2>2 DEF Execs
  <2>7. UNCHANGED <<owner, current, attempt, timer, disturbed>>
    BY <1>4 DEF Admit
  <2> QED
    BY <2>2, <2>3, <2>4, <2>5, <2>6, <2>7 DEF BaseInv, SchedTypeOK
<1>5. ASSUME NEW j \in Jobs, Refuse(j) PROVE BaseInv'
  BY <1>5 DEF Refuse, schedVars, BaseInv, SchedTypeOK, Known
<1>6. ASSUME NEW e \in Execs, Succeed(e) PROVE BaseInv'
  <2>1. phase[e] = "executing" /\ Finalize(e, "succeeded") /\ "succeeded" \in Final
    BY <1>6 DEF Succeed, Final
  <2>2. UNCHANGED <<owner, current, runs, attempt, timer, disturbed>>
    BY <1>6 DEF Succeed
  <2>3. Known'
    BY <2>1, <2>2, FinalizeKnown
  <2> QED
    BY <2>1, <2>2, <2>3, FinalizeType DEF BaseInv, SchedTypeOK
<1>7. ASSUME NEW e \in Execs, AttemptFails(e) PROVE BaseInv'
  <2>1. CASE attempt[e] < MaxRetries
    BY <1>7, <2>1 DEF AttemptFails, BaseInv, SchedTypeOK, Known, InProgress, Execs
  <2>2. CASE ~(attempt[e] < MaxRetries)
    <3>1. phase[e] = "executing" /\ Finalize(e, "failed") /\ "failed" \in Final
      BY <1>7, <2>2 DEF AttemptFails, Final
    <3>2. UNCHANGED <<owner, current, runs, attempt, timer, disturbed>>
      BY <1>7, <2>2 DEF AttemptFails
    <3>3. Known'
      BY <3>1, <3>2, FinalizeKnown
    <3> QED
      BY <3>1, <3>2, <3>3, FinalizeType DEF BaseInv, SchedTypeOK
  <2> QED
    BY <2>1, <2>2
<1>8. ASSUME NEW e \in Execs, NextAttempt(e) PROVE BaseInv'
  BY <1>8 DEF NextAttempt, BaseInv, SchedTypeOK, Known, InProgress, Execs
<1>9. CASE UNCHANGED schedVars
  BY <1>9 DEF schedVars, BaseInv, SchedTypeOK, Known
<1> QED
  BY <1>1, <1>2, <1>3, <1>4, <1>5, <1>6, <1>7, <1>8, <1>9
  DEF SchedNext, Trigger, Fire, GoesOn

(* Type correctness of the scheduler, its limiters and its records.        *)
THEOREM SchedTypeCorrect == SchedSpec => []SchedTypeOK
<1>1. BaseInv => SchedTypeOK
  BY DEF BaseInv
<1> QED
  BY <1>1, BaseInit, BaseStep, PTL DEF SchedSpec

-----------------------------------------------------------------------------
LEMMA FiniteExecs == ASSUME NEW S \in SUBSET Execs
                     PROVE  IsFiniteSet(S) /\ Cardinality(S) \in Nat
<1>1. IsFiniteSet(Execs)
  BY BoundsAssumption, FS_Interval DEF Execs
<1> QED
  BY <1>1, FS_Subset, FS_CardinalityType

(* What each kind of step does to the set of executions in progress.       *)
LEMMA StartsRuns ==
    ASSUME BaseInv, NEW g \in Regs, Starts(g)
    PROVE  LET n == Len(runs) + 1
           IN  /\ n \in Execs /\ n \notin Running /\ record[n] = "none"
               /\ Running' = Running \cup {n}
               /\ runs'[n] = g
               /\ \A e \in Running : runs'[e] = runs[e]
<1> DEFINE n == Len(runs) + 1
<1>1. runs \in Seq(Regs) /\ Len(runs) \in Nat
  BY DEF BaseInv, SchedTypeOK
<1>2. n \in Execs /\ n > Len(runs)
  BY <1>1, BoundsAssumption DEF Starts, Execs
<1>3. phase[n] = "unused" /\ record[n] = "none"
  BY <1>2 DEF BaseInv, Known
<1>4. \A e \in Execs : phase'[e] = IF e = n THEN "executing" ELSE phase[e]
  BY <1>2 DEF Starts, BaseInv, SchedTypeOK
<1>5. n \notin Running /\ Running' = Running \cup {n}
  BY <1>2, <1>3, <1>4 DEF Running, InProgress
<1>6. runs'[n] = g
  BY <1>1 DEF Starts
<1>7. ASSUME NEW e \in Running PROVE runs'[e] = runs[e]
  <2>1. e \in Execs /\ phase[e] # "unused"
    BY DEF Running, InProgress
  <2>2. e \in 1..Len(runs)
    BY <1>1, <2>1, BoundsAssumption DEF BaseInv, Known, Execs
  <2> QED
    BY <1>1, <2>2 DEF Starts
<1> QED
  BY <1>2, <1>3, <1>5, <1>6, <1>7

LEMMA FinishesRuns ==
    ASSUME BaseInv, NEW e \in Execs, NEW outcome \in Final, Finishes(e, outcome)
    PROVE  e \in Running /\ Running' = Running \ {e} /\ runs[e] \in Regs
<1>1. runs[e] \in Regs
  <2>1. runs \in Seq(Regs) /\ Len(runs) \in Nat /\ e \in Int /\ e >= 1
    BY BoundsAssumption DEF BaseInv, SchedTypeOK, Execs
  <2>2. ~(e > Len(runs))
    BY DEF Finishes, BaseInv, Known
  <2> QED
    BY <2>1, <2>2
<1>2. \A d \in Execs : phase'[d] = IF d = e THEN outcome ELSE phase[d]
  BY DEF Finishes, Finalize, BaseInv, SchedTypeOK
<1> QED
  BY <1>1, <1>2 DEF Finishes, Running, InProgress, Final

(* Only a start and an end touch a limiter, each by one, and so they do to *)
(* the set of executions that hold its slots.                              *)
THEOREM SlotsAreConserved == SchedSpec => []SlotsMatchRuns
<1>1. SchedInit => SlotsMatchRuns
  <2> SUFFICES ASSUME SchedInit, NEW g \in Regs
               PROVE  count[g] = Cardinality(Under(g)) /\ count[g] <= MaxConcurrency
    BY DEF SlotsMatchRuns
  <2>1. Under(g) = {}
    BY DEF SchedInit, Under, Running, InProgress
  <2> QED
    BY <2>1, FS_EmptySet, ConcurrencyAssumption DEF SchedInit
<1>2. BaseInv /\ SlotsMatchRuns /\ [SchedNext]_schedVars => SlotsMatchRuns'
  <2> SUFFICES ASSUME BaseInv, SlotsMatchRuns, [SchedNext]_schedVars, NEW g \in Regs
               PROVE  count'[g] = Cardinality(Under(g)') /\ count'[g] <= MaxConcurrency
    BY DEF SlotsMatchRuns
  <2>0. /\ count[g] = Cardinality(Under(g)) /\ count[g] <= MaxConcurrency
        /\ count[g] \in Nat /\ IsFiniteSet(Under(g))
    BY FiniteExecs DEF SlotsMatchRuns, BaseInv, SchedTypeOK, Under, Running
  <2>1. ASSUME NEW h \in Regs, Starts(h)
        PROVE  count'[g] = Cardinality(Under(g)') /\ count'[g] <= MaxConcurrency
    <3> DEFINE n == Len(runs) + 1
    <3>1. /\ n \notin Running /\ Running' = Running \cup {n} /\ runs'[n] = h
          /\ \A e \in Running : runs'[e] = runs[e]
      BY <2>1, StartsRuns
    <3> HIDE DEF n
    <3>2. count'[g] = IF g = h THEN count[g] + 1 ELSE count[g]
      BY <2>1 DEF Starts, BaseInv, SchedTypeOK
    <3>3. CASE g = h
      <4>1. Under(g)' = Under(g) \cup {n} /\ n \notin Under(g)
        BY <3>1, <3>3 DEF Under
      <4>2. Cardinality(Under(g)') = Cardinality(Under(g)) + 1
        BY <4>1, <2>0, FS_AddElement
      <4> QED
        BY <2>0, <2>1, <3>2, <3>3, <4>2, ConcurrencyAssumption DEF Starts
    <3>4. CASE g # h
      <4>1. Under(g)' = Under(g)
        BY <3>1, <3>4 DEF Under
      <4> QED
        BY <2>0, <3>2, <3>4, <4>1
    <3> QED
      BY <3>3, <3>4
  <2>2. ASSUME NEW e \in Execs, NEW outcome \in Final, Finishes(e, outcome)
        PROVE  count'[g] = Cardinality(Under(g)') /\ count'[g] <= MaxConcurrency
    <3>1. /\ e \in Running /\ Running' = Running \ {e} /\ runs[e] \in Regs
          /\ runs' = runs
      BY <2>2, FinishesRuns DEF Finishes
    <3>2. count' = [count EXCEPT ![runs[e]] = IF @ > 0 THEN @ - 1 ELSE @]
      BY <2>2 DEF Finishes, Finalize
    <3>3. CASE g = runs[e]
      <4>1. e \in Under(g) /\ Under(g)' = Under(g) \ {e}
        BY <3>1, <3>3 DEF Under
      <4>2. Cardinality(Under(g)') = Cardinality(Under(g)) - 1
        BY <4>1, <2>0, FS_RemoveElement
      <4>3. Cardinality(Under(g)') \in Nat
        <5>1. IsFiniteSet(Under(g)')
          BY <4>1, <2>0, FS_RemoveElement
        <5> QED
          BY <5>1, FS_CardinalityType
      <4>4. count'[g] = IF count[g] > 0 THEN count[g] - 1 ELSE count[g]
        BY <3>2, <3>3 DEF BaseInv, SchedTypeOK
      <4> QED
        BY <2>0, <4>2, <4>3, <4>4, ConcurrencyAssumption
    <3>4. CASE g # runs[e]
      <4>1. Under(g)' = Under(g)
        BY <3>1, <3>4 DEF Under
      <4>2. count'[g] = count[g]
        BY <3>2, <3>4 DEF BaseInv, SchedTypeOK
      <4> QED
        BY <2>0, <4>1, <4>2
    <3> QED
      BY <3>3, <3>4
  <2>3. CASE Clear
    BY <2>0, <2>3 DEF Clear, Under, Running
  <2>4. CASE Moves
    <3>1. Running' = Running /\ runs' = runs /\ count' = count
      BY <2>4 DEF Moves, Running
    <3>2. Under(g)' = Under(g)
      BY <3>1 DEF Under
    <3> QED
      BY <2>0, <3>1, <3>2
  <2> QED
    BY <2>1, <2>2, <2>3, <2>4, Kinds
<1> QED
  BY <1>1, <1>2, BaseInit, BaseStep, PTL DEF SchedSpec

(* Statistics, records and executions move together.                       *)
LEMMA RecordedFinite ==
    \A s : IsFiniteSet(Recorded(s)) /\ Cardinality(Recorded(s)) \in Nat
<1> TAKE s
<1>1. Recorded(s) \in SUBSET Execs
  BY DEF Recorded
<1> QED
  BY <1>1, FiniteExecs

LEMMA StartTells ==
    ASSUME BaseInv, StatsTellTruth, NEW g \in Regs, Starts(g)
    PROVE  StatsTellTruth'
<1> SUFFICES ASSUME ~disturbed
             PROVE  /\ stats'["active"] = Cardinality(Running')
                    /\ Recorded("running")' = Running'
                    /\ stats'["succeeded"] = Cardinality(Recorded("succeeded")')
                    /\ stats'["failed"] = Cardinality(Recorded("failed")')
                    /\ stats'["total"] = stats'["active"] + stats'["succeeded"] + stats'["failed"]
  BY DEF StatsTellTruth, Starts
<1> DEFINE n == Len(runs) + 1
<1>1. n \in Execs /\ n \notin Running /\ record[n] = "none" /\ Running' = Running \cup {n}
  BY StartsRuns
<1>2. record' = [record EXCEPT ![n] = "running"]
  BY DEF Starts
<1> HIDE DEF n
<1>3. /\ Recorded("running")' = Recorded("running") \cup {n}
      /\ Recorded("succeeded")' = Recorded("succeeded")
      /\ Recorded("failed")' = Recorded("failed")
  BY <1>1, <1>2 DEF Recorded, BaseInv, SchedTypeOK
<1>4. Cardinality(Running') = Cardinality(Running) + 1
  <2>1. Running \in SUBSET Execs
    BY DEF Running
  <2> QED
    BY <1>1, <2>1, FiniteExecs, FS_AddElement
<1>5. /\ stats'["active"] = stats["active"] + 1 /\ stats'["total"] = stats["total"] + 1
      /\ stats'["succeeded"] = stats["succeeded"] /\ stats'["failed"] = stats["failed"]
      /\ stats["active"] \in Int /\ stats["succeeded"] \in Int /\ stats["failed"] \in Int
  BY DEF Starts, BaseInv, SchedTypeOK, Counters
<1>6. /\ stats["active"] = Cardinality(Running) /\ Recorded("running") = Running
      /\ stats["succeeded"] = Cardinality(Recorded("succeeded"))
      /\ stats["failed"] = Cardinality(Recorded("failed"))
      /\ stats["total"] = stats["active"] + stats["succeeded"] + stats["failed"]
  BY DEF StatsTellTruth
<1>7. stats'["total"] = stats'["active"] + stats'["succeeded"] + stats'["failed"]
  BY <1>5, <1>6
<1> QED
  BY <1>1, <1>3, <1>4, <1>5, <1>6, <1>7

LEMMA FinishTells ==
    ASSUME BaseInv, StatsTellTruth, NEW e \in Execs, NEW outcome \in Final,
           Finishes(e, outcome)
    PROVE  StatsTellTruth'
<1> SUFFICES ASSUME ~disturbed
             PROVE  /\ stats'["active"] = Cardinality(Running')
                    /\ Recorded("running")' = Running'
                    /\ stats'["succeeded"] = Cardinality(Recorded("succeeded")')
                    /\ stats'["failed"] = Cardinality(Recorded("failed")')
                    /\ stats'["total"] = stats'["active"] + stats'["succeeded"] + stats'["failed"]
  BY DEF StatsTellTruth, Finishes
<1>1. e \in Running /\ Running' = Running \ {e}
  BY FinishesRuns
<1>2. /\ stats["active"] = Cardinality(Running) /\ Recorded("running") = Running
      /\ stats["succeeded"] = Cardinality(Recorded("succeeded"))
      /\ stats["failed"] = Cardinality(Recorded("failed"))
      /\ stats["total"] = stats["active"] + stats["succeeded"] + stats["failed"]
  BY DEF StatsTellTruth
<1>3. record[e] = "running" /\ record' = [record EXCEPT ![e] = outcome]
  BY <1>1, <1>2 DEF Recorded, Finishes, Finalize
<1>4. /\ Recorded("running")' = Recorded("running") \ {e}
      /\ Recorded(outcome)' = Recorded(outcome) \cup {e} /\ e \notin Recorded(outcome)
      /\ \A s \in Final : s # outcome => Recorded(s)' = Recorded(s)
  BY <1>3 DEF Recorded, BaseInv, SchedTypeOK, Final
<1>5. Cardinality(Running') = Cardinality(Running) - 1
  <2>1. Running \in SUBSET Execs
    BY DEF Running
  <2> QED
    BY <1>1, <2>1, FiniteExecs, FS_RemoveElement
<1>6. Cardinality(Recorded(outcome)') = Cardinality(Recorded(outcome)) + 1
  BY <1>4, RecordedFinite, FS_AddElement
<1>7. stats' = [stats EXCEPT ![outcome] = @ + 1, !["active"] = @ - 1]
  BY DEF Finishes, Finalize
<1>8. stats \in [Counters -> Int]
  BY DEF BaseInv, SchedTypeOK
<1>9. CASE outcome = "succeeded"
  <2>1. /\ stats'["active"] = stats["active"] - 1 /\ stats'["total"] = stats["total"]
        /\ stats'["succeeded"] = stats["succeeded"] + 1
        /\ stats'["failed"] = stats["failed"]
        /\ stats["active"] \in Int /\ stats["succeeded"] \in Int /\ stats["failed"] \in Int
    BY <1>7, <1>8, <1>9 DEF Counters
  <2>2. Recorded("failed")' = Recorded("failed")
    BY <1>4, <1>9 DEF Final
  <2>3. stats'["total"] = stats'["active"] + stats'["succeeded"] + stats'["failed"]
    BY <1>2, <2>1
  <2> QED
    BY <1>1, <1>2, <1>4, <1>5, <1>6, <1>9, <2>1, <2>2, <2>3
<1>10. CASE outcome = "failed"
  <2>1. /\ stats'["active"] = stats["active"] - 1 /\ stats'["total"] = stats["total"]
        /\ stats'["failed"] = stats["failed"] + 1
        /\ stats'["succeeded"] = stats["succeeded"]
        /\ stats["active"] \in Int /\ stats["succeeded"] \in Int /\ stats["failed"] \in Int
    BY <1>7, <1>8, <1>10 DEF Counters
  <2>2. Recorded("succeeded")' = Recorded("succeeded")
    BY <1>4, <1>10 DEF Final
  <2>3. stats'["total"] = stats'["active"] + stats'["succeeded"] + stats'["failed"]
    BY <1>2, <2>1
  <2> QED
    BY <1>1, <1>2, <1>4, <1>5, <1>6, <1>10, <2>1, <2>2, <2>3
<1> QED
  BY <1>9, <1>10 DEF Final

(* The statistics and the records agree with what runs and what has ended, *)
(* whatever is registered, triggered and retried, until clear disturbs     *)
(* executions in progress.                                                 *)
THEOREM StatsAreTrue == SchedSpec => []StatsTellTruth
<1>1. SchedInit => StatsTellTruth
  <2> SUFFICES ASSUME SchedInit PROVE StatsTellTruth
    OBVIOUS
  <2>1. /\ Running = {} /\ \A s \in {"running"} \cup Final : Recorded(s) = {}
        /\ \A c \in Counters : stats[c] = 0
    BY DEF SchedInit, Running, Recorded, InProgress, Final, NoStats
  <2> QED
    BY <2>1, FS_EmptySet DEF StatsTellTruth, Counters, Final
<1>2. BaseInv /\ StatsTellTruth /\ [SchedNext]_schedVars => StatsTellTruth'
  <2> SUFFICES ASSUME BaseInv, StatsTellTruth, [SchedNext]_schedVars PROVE StatsTellTruth'
    OBVIOUS
  <2>1. CASE Clear
    <3>1. CASE disturbed'
      BY <3>1 DEF StatsTellTruth
    <3>2. CASE ~disturbed'
      <4>1. Running' = {}
        BY <2>1, <3>2 DEF Clear, Running
      <4>2. \A s \in {"running"} \cup Final : Recorded(s)' = {}
        BY <2>1 DEF Clear, Recorded, Final
      <4>3. \A c \in Counters : stats'[c] = 0
        BY <2>1 DEF Clear, NoStats
      <4> QED
        BY <4>1, <4>2, <4>3, FS_EmptySet DEF StatsTellTruth, Counters, Final
    <3> QED
      BY <3>1, <3>2
  <2>2. CASE Moves
    <3>1. Running' = Running /\ \A s : Recorded(s)' = Recorded(s)
      BY <2>2 DEF Moves, Running, Recorded
    <3> QED
      BY <2>2, <3>1 DEF Moves, StatsTellTruth
  <2> QED
    BY <2>1, <2>2, StartTells, FinishTells, Kinds
<1> QED
  BY <1>1, <1>2, BaseInit, BaseStep, PTL DEF SchedSpec
-----------------------------------------------------------------------------
(* An execution runs under a registration that was made, and a job that is *)
(* registered has a registration of its own.                               *)
Made == 1..Len(owner)
Placed ==
    /\ \A j \in Jobs : current[j] # 0 => current[j] \in Made /\ owner[current[j]] = j
    /\ \A i \in 1..Len(runs) : runs[i] \in Made

LEMMA PlacedStep == BaseInv /\ Placed /\ [SchedNext]_schedVars => Placed'
<1> SUFFICES ASSUME BaseInv, Placed, [SchedNext]_schedVars PROVE Placed'
  OBVIOUS
<1>0. /\ owner \in Seq(Jobs) /\ Len(owner) \in Nat /\ runs \in Seq(Regs) /\ Len(runs) \in Nat
      /\ current \in [Jobs -> 0..MaxRegs]
  BY DEF BaseInv, SchedTypeOK
<1>1. ASSUME NEW j \in Jobs, Register(j) PROVE Placed'
  <2>1. /\ owner' = Append(owner, j) /\ runs' = runs
        /\ current' = [current EXCEPT ![j] = Len(owner) + 1]
    BY <1>1 DEF Register
  <2>2. /\ Len(owner') = Len(owner) + 1 /\ owner'[Len(owner) + 1] = j
        /\ \A g \in Made : owner'[g] = owner[g] /\ g \in Made'
        /\ Len(owner) + 1 \in Made'
    BY <1>0, <2>1 DEF Made
  <2>3. \A i \in Jobs : current'[i] = IF i = j THEN Len(owner) + 1 ELSE current[i]
    BY <1>0, <2>1
  <2>4. ASSUME NEW i \in Jobs, current'[i] # 0
        PROVE  current'[i] \in Made' /\ owner'[current'[i]] = i
    BY <2>2, <2>3, <2>4 DEF Placed
  <2>5. \A i \in 1..Len(runs') : runs'[i] \in Made'
    BY <2>1, <2>2 DEF Placed
  <2> QED
    BY <2>4, <2>5 DEF Placed
<1>2. ASSUME NEW j \in Jobs, Admit(j) PROVE Placed'
  <2>1. /\ current[j] # 0 /\ runs' = Append(runs, current[j])
        /\ UNCHANGED <<owner, current>>
    BY <1>2 DEF Admit
  <2>2. current[j] \in Made
    BY <2>1 DEF Placed
  <2>3. \A i \in 1..Len(runs') : runs'[i] = IF i = Len(runs) + 1 THEN current[j] ELSE runs[i]
    BY <1>0, <2>1
  <2>4. \A i \in 1..Len(runs') : i = Len(runs) + 1 \/ i \in 1..Len(runs)
    BY <1>0, <2>1
  <2>5. Made' = Made
    BY <2>1 DEF Made
  <2> QED
    BY <2>1, <2>2, <2>3, <2>4, <2>5 DEF Placed
<1>3. CASE Clear \/ \E j \in Jobs : Unregister(j)
  <2>1. /\ UNCHANGED <<owner, runs>>
        /\ \A j \in Jobs : current'[j] = 0 \/ current'[j] = current[j]
    BY <1>0, <1>3 DEF Clear, Unregister
  <2> QED
    BY <2>1 DEF Placed, Made
<1>4. CASE UNCHANGED <<owner, runs, current>>
  BY <1>4 DEF Placed, Made
<1>5. ASSUME NEW j \in Jobs, Refuse(j) \/ StartTimer(j) \/ StopTimer(j)
      PROVE  UNCHANGED <<owner, runs, current>>
  BY <1>5 DEF Refuse, StartTimer, StopTimer, schedVars
<1>6. ASSUME NEW e \in Execs, GoesOn(e) PROVE UNCHANGED <<owner, runs, current>>
  BY <1>6 DEF GoesOn, Succeed, AttemptFails, NextAttempt
<1>7. UNCHANGED schedVars => UNCHANGED <<owner, runs, current>>
  BY DEF schedVars
<1> QED
  BY <1>1, <1>2, <1>3, <1>4, <1>5, <1>6, <1>7 DEF SchedNext, Trigger, Fire

(* A job that was registered once: no two registrations are its own.       *)
RegisteredOnce(j) == \A g, h \in Made : owner[g] = j /\ owner[h] = j => g = h

ConcurrencyRespectedOnce ==
    \A j \in Jobs : RegisteredOnce(j) => Cardinality(OfJob(j)) <= MaxConcurrency

(* What docs/packages/scheduler.md:81 promises holds for a job that has    *)
(* been registered once, however it is triggered, unregistered or cleared: *)
(* only a second registration, which brings a limiter of its own, can take *)
(* it beyond MaxConcurrency executions in progress.                        *)
THEOREM LimitOfOneRegistration == SchedSpec => []ConcurrencyRespectedOnce
<1>1. SchedInit => Placed
  BY DEF SchedInit, Placed
<1>2. BaseInv /\ Placed /\ SlotsMatchRuns => ConcurrencyRespectedOnce
  <2> SUFFICES ASSUME BaseInv, Placed, SlotsMatchRuns, NEW j \in Jobs, RegisteredOnce(j)
               PROVE  Cardinality(OfJob(j)) <= MaxConcurrency
    BY DEF ConcurrencyRespectedOnce
  <2>1. CASE OfJob(j) = {}
    BY <2>1, FS_EmptySet, ConcurrencyAssumption
  <2>2. CASE OfJob(j) # {}
    <3>1. ASSUME NEW e \in OfJob(j) PROVE runs[e] \in Made /\ runs[e] \in Regs /\ owner[runs[e]] = j
      <4>1. e \in Execs /\ phase[e] # "unused" /\ owner[runs[e]] = j
        BY <3>1 DEF OfJob, Running, InProgress
      <4>2. runs \in Seq(Regs) /\ e \in 1..Len(runs)
        BY <4>1, BoundsAssumption DEF BaseInv, SchedTypeOK, Known, Execs
      <4> QED
        BY <4>1, <4>2 DEF Placed
    <3>2. PICK d \in OfJob(j) : TRUE
      BY <2>2
    <3> DEFINE g == runs[d]
    <3>3. g \in Regs /\ \A e \in OfJob(j) : runs[e] = g
      BY <3>1, <3>2 DEF RegisteredOnce
    <3>4. OfJob(j) \subseteq Under(g)
      BY <3>3 DEF OfJob, Under
    <3>5. IsFiniteSet(Under(g)) /\ Cardinality(Under(g)) \in Nat
      BY FiniteExecs DEF Under, Running
    <3>6. Cardinality(OfJob(j)) \in Nat /\ Cardinality(OfJob(j)) <= Cardinality(Under(g))
      BY <3>4, <3>5, FS_Subset, FS_CardinalityType
    <3>7. Cardinality(Under(g)) <= MaxConcurrency
      BY <3>3 DEF SlotsMatchRuns
    <3> QED
      BY <3>5, <3>6, <3>7, ConcurrencyAssumption
  <2> QED
    BY <2>1, <2>2
<1> QED
  BY <1>1, <1>2, BaseInit, BaseStep, PlacedStep, SlotsAreConserved, PTL DEF SchedSpec
=============================================================================
