-------------------------- MODULE MultiLevelCache --------------------------
(***************************************************************************)
(* packages/cache-redis MultiLevelCache over an InMemoryCache (l1) and a   *)
(* RedisCache (l2). Keys share no state: there is one key. l1 answers at   *)
(* once; the commands to l2 go down one connection, which executes them in *)
(* the order they were sent, and an action runs from one reply to the next *)
(* command. A value is "live", or "dead" once a write has replaced it that *)
(* no read of l2 and no computation was racing.                            *)
(***************************************************************************)
EXTENDS Naturals, Sequences

CONSTANTS
    Callers,        \* calls that may be in progress at a time
    Nobody          \* not a caller

ASSUME CallersAssumption == Nobody \notin Callers

VARIABLES
    l1, l2,         \* the two levels
    pipe,           \* callers whose command to l2 has no reply yet
    phase,          \* where each call is suspended
    val,            \* the value a caller is writing
    inflight,       \* owner of the promise in the inflight map
    awaits,         \* owner of the promise a caller waits for
    disturbed       \* ghost: a computation failed, or the value was removed,
                    \* since callers began to share a computation

cacheVars == <<l1, l2, pipe, phase, val, inflight, awaits, disturbed>>

Values   == {"none", "live", "dead"}
Reading  == {"reading", "fetching", "rereading"}
Writing  == {"setting", "storing", "deleting"}
Sharing  == {"computing", "storing", "waiting", "woken", "rereading"}
Phases   == {"idle"} \cup Reading \cup Writing \cup Sharing
In(S)    == {c \in Callers : phase[c] \in S}

CacheTypeOK ==
    /\ l1 \in Values /\ l2 \in Values
    /\ pipe \in Seq(Callers)
    /\ phase \in [Callers -> Phases]
    /\ val \in [Callers -> Values]
    /\ inflight \in Callers \cup {Nobody}
    /\ awaits \in [Callers -> Callers \cup {Nobody}]
    /\ disturbed \in BOOLEAN

CacheInit ==
    /\ l1 = "none" /\ l2 = "none"
    /\ pipe = <<>>
    /\ phase = [c \in Callers |-> "idle"]
    /\ val = [c \in Callers |-> "none"]
    /\ inflight = Nobody
    /\ awaits = [c \in Callers |-> Nobody]
    /\ disturbed = FALSE

(***************************************************************************)
(* Helpers                                                                 *)
(***************************************************************************)
\* The ghost's step: callers that still share keep what has happened.
Disturb(now) ==
    disturbed' = ((now \/ disturbed) /\ \E c \in Callers : phase'[c] \in Sharing)

GoTo(c, p) == phase' = [phase EXCEPT ![c] = p]
Send(c, p) == GoTo(c, p) /\ pipe' = Append(pipe, c)

\* Mutant: a write that reaches l2 only.
WriteMutant(c, p, v) ==
    LET racing == In(Reading \cup {"computing"}) \ {c}
        Old(x) == IF racing = {} /\ x = "live" THEN "dead" ELSE x
    IN  /\ l1' = Old(l1)
        /\ l2' = Old(l2)
        /\ val' = [d \in Callers |-> IF d = c THEN v ELSE Old(val[d])]
        /\ Send(c, p)
\* set or delete by c: l1 changes at once, the command for l2 is sent. What
\* was there before is dead if nobody can still write it back.
Write(c, p, v) ==
    LET racing == In(Reading \cup {"computing"}) \ {c}
        Old(x) == IF racing = {} /\ x = "live" THEN "dead" ELSE x
    IN  /\ l1' = v
        /\ l2' = Old(l2)
        /\ val' = [d \in Callers |-> IF d = c THEN v ELSE Old(val[d])]
        /\ Send(c, p)

\* finally of runComputation: the lock is resolved and the entry removed,
\* whoever owns it.
Finally(c) ==
    /\ phase' = [d \in Callers |-> IF d = c THEN "idle"
                                   ELSE IF phase[d] = "waiting" /\ awaits[d] = c THEN "woken"
                                   ELSE phase[d]]
    /\ awaits' = [d \in Callers |-> IF awaits[d] = c THEN Nobody ELSE awaits[d]]
    /\ inflight' = Nobody

\* runComputation up to the call of fn: replaces the entry, if there is one.
RunComputation(c) == GoTo(c, "computing") /\ inflight' = c /\ UNCHANGED awaits

\* Mutant: getOrCompute does not look at inflight.
ComputeWithLockMutant(c) == RunComputation(c)
\* computeWithLock: wait for a computation in flight, or run one.
ComputeWithLock(c) ==
    \/ /\ inflight # Nobody
       /\ GoTo(c, "waiting")
       /\ awaits' = [awaits EXCEPT ![c] = inflight]
       /\ UNCHANGED inflight
    \/ inflight = Nobody /\ RunComputation(c)

(***************************************************************************)
(* Calls; one that hits l1 changes nothing                                 *)
(***************************************************************************)
Get(c) ==
    /\ phase[c] = "idle" /\ l1 = "none"
    /\ \E p \in {"reading", "fetching"} : Send(c, p)     \* get, getOrCompute
    /\ UNCHANGED <<l1, l2, val, inflight, awaits, disturbed>>

Set(c) ==
    /\ phase[c] = "idle"
    /\ Write(c, "setting", "live")
    /\ Disturb(FALSE)
    /\ UNCHANGED <<inflight, awaits>>

Delete(c) ==
    /\ phase[c] = "idle"
    /\ Write(c, "deleting", "none")
    /\ Disturb(TRUE)
    /\ UNCHANGED <<inflight, awaits>>

\* invalidateL1, and the entry's expiry or eviction in the InMemoryCache.
InvalidateL1 ==
    /\ l1 # "none"
    /\ l1' = "none"
    /\ disturbed' = (In(Sharing) # {})
    /\ UNCHANGED <<l2, pipe, phase, val, inflight, awaits>>

\* The entry expires in Redis.
ExpireL2 ==
    /\ l2 # "none"
    /\ l2' = "none"
    /\ disturbed' = (In(Sharing) # {})
    /\ UNCHANGED <<l1, pipe, phase, val, inflight, awaits>>

(***************************************************************************)
(* Replies of l2, to the caller at the head of the pipe                    *)
(***************************************************************************)
Replied(S) == pipe # <<>> /\ phase[Head(pipe)] \in S /\ pipe' = Tail(pipe)

\* fetchFromL2 found a value: it is written back to l1 and returned.
ReadHit ==
    /\ Replied(Reading) /\ l2 # "none"
    /\ l1' = l2
    /\ GoTo(Head(pipe), "idle")
    /\ Disturb(FALSE)
    /\ UNCHANGED <<l2, val, inflight, awaits>>

\* It found none: get returns, getOrCompute computes, getAfterLock computes
\* without another look at inflight.
ReadMiss ==
    /\ Replied(Reading) /\ l2 = "none"
    /\ LET c == Head(pipe) IN
       \/ phase[c] = "reading" /\ GoTo(c, "idle") /\ UNCHANGED <<inflight, awaits>>
       \/ phase[c] = "fetching" /\ ComputeWithLock(c)
       \/ phase[c] = "rereading" /\ RunComputation(c)
    /\ Disturb(FALSE)
    /\ UNCHANGED <<l1, l2, val>>

\* The end of a set or delete, and of the computation it belongs to.
WriteEnds(c) ==
    IF phase[c] = "storing" THEN Finally(c)
    ELSE GoTo(c, "idle") /\ UNCHANGED <<inflight, awaits>>

WriteDone ==
    /\ Replied(Writing)
    /\ l2' = val[Head(pipe)]
    /\ val' = [val EXCEPT ![Head(pipe)] = "none"]
    /\ WriteEnds(Head(pipe))
    /\ Disturb(FALSE)
    /\ UNCHANGED l1

\* Redis rejects a read: the call throws.
ReadFails ==
    /\ Replied(Reading)
    /\ GoTo(Head(pipe), "idle")
    /\ Disturb(FALSE)
    /\ UNCHANGED <<l1, l2, val, inflight, awaits>>

\* Redis rejects a write, which may have been executed: the call throws, and
\* its caller knows that the levels may differ: no value counts as dead.
WriteFails ==
    LET Back(x) == IF x = "dead" THEN "live" ELSE x IN
    /\ Replied(Writing)
    /\ l2' \in {Back(l2), Back(val[Head(pipe)])}
    /\ val' = [d \in Callers |-> IF d = Head(pipe) THEN "none" ELSE Back(val[d])]
    /\ WriteEnds(Head(pipe))
    /\ Disturb(FALSE)
    /\ UNCHANGED l1

(***************************************************************************)
(* Computations                                                            *)
(***************************************************************************)
FnResolves(c) ==
    /\ phase[c] = "computing"
    /\ Write(c, "storing", "live")
    /\ Disturb(FALSE)
    /\ UNCHANGED <<inflight, awaits>>

\* Mutant: the lock is removed, but not resolved.
FnRejectsMutant(c) ==
    /\ phase[c] = "computing"
    /\ GoTo(c, "idle")
    /\ inflight' = Nobody
    /\ Disturb(TRUE)
    /\ UNCHANGED <<l1, l2, pipe, val, awaits>>
FnRejects(c) ==
    /\ phase[c] = "computing"
    /\ Finally(c)
    /\ Disturb(TRUE)
    /\ UNCHANGED <<l1, l2, pipe, val>>

\* A waiter goes on in getAfterLock.
Woken(c) ==
    /\ phase[c] = "woken"
    /\ \/ l1 # "none" /\ GoTo(c, "idle") /\ UNCHANGED pipe
       \/ l1 = "none" /\ Send(c, "rereading")
    /\ Disturb(FALSE)
    /\ UNCHANGED <<l1, l2, val, inflight, awaits>>

Reply == ReadHit \/ ReadMiss \/ WriteDone \/ ReadFails \/ WriteFails
FnSettles(c) == FnResolves(c) \/ FnRejects(c)

CacheNext ==
    \/ InvalidateL1 \/ ExpireL2 \/ Reply
    \/ \E c \in Callers : Get(c) \/ Set(c) \/ Delete(c) \/ FnSettles(c) \/ Woken(c)

\* Redis replies, computations settle and the event loop runs what is ready.
CacheFairness ==
    /\ WF_cacheVars(Reply)
    /\ \A c \in Callers : WF_cacheVars(FnSettles(c)) /\ WF_cacheVars(Woken(c))

CacheSpec == CacheInit /\ [][CacheNext]_cacheVars /\ CacheFairness

(***************************************************************************)
(* Properties                                                              *)
(***************************************************************************)
\* What a set or a delete replaced never comes back to l1, nor to l2 once
\* the writes sent have been executed, unless a read of l2 or a computation
\* was in progress when it was called: fetchFromL2 (line 59) and
\* runComputation (line 86) write after an await and check nothing.
OverwrittenStaysGone ==
    /\ l1 # "dead"
    /\ In(Writing) = {} => l2 # "dead"

\* Callers share one computation (doc, line 28: "exactly once") until one
\* fails, or until the value is removed before its waiters have read it.
SingleFlight == \A c, d \in In({"computing"}) : c # d => disturbed

\* No call waits for ever on a lock, whatever became of the computation it
\* waited for (finally, lines 89 to 92).
EveryCallReturns == \A c \in Callers : (phase[c] # "idle") ~> (phase[c] = "idle")
=============================================================================
