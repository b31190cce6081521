---------------------------- MODULE RequestReply ----------------------------
(***************************************************************************)
(* packages/messaging RequestReplyBroker: requests wait for a reply under  *)
(* their correlation id, each with a timer. A request of createChannel     *)
(* registers before its send is awaited: a reply may come before the send  *)
(* ends.                                                                   *)
(***************************************************************************)
EXTENDS FiniteSets

CONSTANTS
    Requests,       \* requests at a time
    CorrIds,        \* correlation ids
    NoRequest       \* nothing is registered

ASSUME RequestAssumption == NoRequest \notin Requests

VARIABLES
    registered,     \* the request registered under each id
    corr,           \* the id of each request
    waiting,        \* requests whose promise is not settled
    timers,         \* requests with a timer
    reused,         \* ghost: ids registered anew while an earlier request of
                    \* theirs was open, as long as one is
    cancelled       \* ghost: requests that were cancelled

replyVars == <<registered, corr, waiting, timers, reused, cancelled>>

ReplyTypeOK ==
    /\ registered \in [CorrIds -> Requests \cup {NoRequest}]
    /\ corr \in [Requests -> CorrIds]
    /\ waiting \subseteq Requests /\ timers \subseteq Requests
    /\ reused \subseteq CorrIds /\ cancelled \subseteq Requests

ReplyInit ==
    /\ registered = [i \in CorrIds |-> NoRequest]
    /\ corr \in [Requests -> CorrIds]
    /\ waiting = {} /\ timers = {}
    /\ reused = {} /\ cancelled = {}

\* Ids with a request that waits and was not cancelled.
Open == {corr[r] : r \in waiting \ cancelled}

\* awaitReply, a new request in the place of one that is over: what was
\* registered under the id is replaced.
AwaitReply(r, i) ==
    /\ r \notin waiting \/ r \in cancelled
    /\ corr' = [corr EXCEPT ![r] = i]
    /\ waiting' = waiting \cup {r} /\ cancelled' = cancelled \ {r}
    /\ registered' = [registered EXCEPT ![i] = r]
    /\ timers' = timers \cup {r}
    /\ reused' = reused \cup ({i} \cap Open)

\* A timer deletes what is registered under its id.
Timer(r) ==
    /\ r \in timers
    /\ timers' = timers \ {r}
    /\ registered' = [registered EXCEPT ![corr[r]] = NoRequest]
    /\ waiting' = waiting \ {r}
    /\ UNCHANGED <<corr, cancelled>>
    /\ reused' = reused \cap Open'

\* Mutant: the timer is not cleared.
DeliverReplyMutant(i) ==
    LET r == registered[i] IN
    /\ r # NoRequest
    /\ registered' = [registered EXCEPT ![i] = NoRequest]
    /\ waiting' = waiting \ {r}
    /\ UNCHANGED <<corr, cancelled, timers>>
    /\ reused' = reused \cap Open'
\* deliver: without a request under the id the reply is not matched.
DeliverReply(i) ==
    LET r == registered[i] IN
    /\ r # NoRequest
    /\ registered' = [registered EXCEPT ![i] = NoRequest]
    /\ waiting' = waiting \ {r}
    /\ timers' = timers \ {r}
    /\ UNCHANGED <<corr, cancelled>>
    /\ reused' = reused \cap Open'

\* cancel, and clearAll one by one: nothing settles the promise.
Cancel(I) ==
    LET gone == {registered[i] : i \in I} \ {NoRequest} IN
    /\ gone # {}
    /\ registered' = [i \in CorrIds |-> IF i \in I THEN NoRequest ELSE registered[i]]
    /\ timers' = timers \ gone
    /\ cancelled' = cancelled \cup gone
    /\ UNCHANGED <<corr, waiting>>
    /\ reused' = reused \cap Open'

ReplyNext ==
    \/ \E r \in Requests : Timer(r) \/ \E i \in CorrIds : AwaitReply(r, i)
    \/ \E i \in CorrIds : DeliverReply(i) \/ Cancel({i})
    \/ Cancel(CorrIds)

\* Timers fire.
ReplyFairness == \A r \in Requests : WF_replyVars(Timer(r))

ReplySpec == ReplyInit /\ [][ReplyNext]_replyVars /\ ReplyFairness

\* A request that waits can be answered, unless its id was registered by
\* another request while it was open (line 25 deletes either's), or it was
\* cancelled.
WaitsWhereRepliesGo ==
    \A r \in waiting \ cancelled : corr[r] \notin reused => registered[corr[r]] = r

\* Every request settles, unless it is cancelled (line 63 clears the timer
\* and settles nothing).
RequestsSettle ==
    \A r \in Requests : []<>(r \notin waiting \/ r \in cancelled)
=============================================================================
