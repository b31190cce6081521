---------------------------- MODULE CacheProofs ----------------------------
(***************************************************************************)
(* Proofs about MultiLevelCache, RedisLock, SecretCache, HotReload, Hedge  *)
(* and DataLoader, and about MCCaches, which chooses among them, for any   *)
(* number of calls, processes, listeners and copies and any time to live.  *)
(***************************************************************************)
EXTENDS MCCaches, FiniteSetTheorems, TLAPS

(***************************************************************************)
(* RedisLock: while nobody is late, whoever uses the lock has the key, for *)
(* as long as it was set for.                                              *)
(***************************************************************************)
HasKey(p) == key = p /\ left > 0 /\ held[p] + left = LockTtl
KeyInv ==
    /\ LockTypeOK
    /\ \A p \in Holders : stage[p] = "idle" => held[p] = 0
    /\ late \/ \A p \in Holders : stage[p] # "idle" => HasKey(p)

\* The key invariant holds when the lock is new.
LEMMA KeyInit == LockInit => KeyInv
<1> SUFFICES ASSUME LockInit PROVE KeyInv
  OBVIOUS
<1>1. 0 \in 0..LockTtl
  BY LockAssumption
<1>2. late \in BOOLEAN
  BY DEF LockInit
<1> QED
  BY <1>1, <1>2, LockAssumption DEF LockInit, KeyInv, LockTypeOK

\* Whoever leaves is forgotten; the others keep their key.
LEMMA KeyStep == KeyInv /\ [LockNext]_lockVars => KeyInv'
<1> SUFFICES ASSUME KeyInv, [LockNext]_lockVars PROVE KeyInv'
  OBVIOUS
<1> USE LockAssumption DEF KeyInv, LockTypeOK, HasKey
<1>1. CASE LockTick
  <2>1. late' \in BOOLEAN
    BY <1>1, Zenon DEF LockTick
  <2>2. left' \in 0..LockTtl /\ key' \in Holders \cup {NoHolder}
    BY <1>1 DEF LockTick
  <2>3. \A p \in Holders : Elapsed(p) \in 0..LockTtl /\ (stage[p] = "idle" => Elapsed(p) = held[p])
    BY DEF Elapsed
  <2>4. held' \in [Holders -> 0..LockTtl] /\ \A p \in Holders : held'[p] = Elapsed(p)
    BY <1>1, <2>3 DEF LockTick
  <2>5. ASSUME ~late', NEW p \in Holders, stage[p] # "idle" PROVE HasKey(p)'
    <3>1. ~late /\ Elapsed(p) # LockTtl
      BY <1>1, <2>5 DEF LockTick, Using
    <3>2. key = p /\ left > 0 /\ held[p] + left = LockTtl
      BY <2>5, <3>1
    <3>3. held'[p] = held[p] + 1 /\ left' = left - 1
      BY <1>1, <2>4, <2>5, <3>2 DEF LockTick, Elapsed
    <3>4. left' # 0 /\ held'[p] + left' = LockTtl
      BY <2>4, <3>1, <3>2, <3>3
    <3> QED
      BY <1>1, <2>2, <3>2, <3>4 DEF LockTick
  <2> QED
    BY <1>1, <2>1, <2>2, <2>3, <2>4, <2>5 DEF LockTick
<1>2. ASSUME NEW p \in Holders, Acquire(p) PROVE KeyInv'
  BY <1>2 DEF Acquire, GoOn
<1>3. ASSUME NEW p \in Holders, Enter(p) PROVE KeyInv'
  BY <1>3 DEF Enter, GoOn
<1>4. ASSUME NEW p \in Holders, EndWork(p) PROVE KeyInv'
  BY <1>4 DEF EndWork, GoOn
<1>5. ASSUME NEW p \in Holders, Release(p) PROVE KeyInv'
  <2>1. \A q \in Holders : ~late /\ stage[q] # "idle" => q = p
    BY <1>5 DEF Release
  <2>2. Using = {p} => \A q \in Holders : stage[q] # "idle" => q = p
    BY DEF Using
  <2> QED
    BY <1>5, <2>1, <2>2 DEF Release, Leave, GoOn
<1>6. ASSUME NEW p \in Holders, Abandon(p) PROVE KeyInv'
  <2>2. Using = {p} => \A q \in Holders : stage[q] # "idle" => q = p
    BY DEF Using
  <2> QED
    BY <1>6, <2>2 DEF Abandon, Leave, GoOn
<1>7. CASE UNCHANGED lockVars
  BY <1>7 DEF lockVars
<1> QED
  BY <1>1, <1>2, <1>3, <1>4, <1>5, <1>6, <1>7 DEF LockNext, Refused

\* For any number of processes, with crashes and failed commands: one process
\* at a time is in its callback unless one has outlived its key.
THEOREM LockExcludes == LockSpec => []OneInside
<1>1. KeyInv => OneInside
  <2> SUFFICES ASSUME KeyInv, ~late PROVE Cardinality(Inside) <= 1
    BY DEF OneInside
  <2>1. Inside \subseteq {key}
    BY DEF KeyInv, LockTypeOK, HasKey, Inside
  <2>2. IsFiniteSet({key}) /\ Cardinality({key}) = 1
    BY FS_Singleton
  <2>3. Cardinality(Inside) <= Cardinality({key})
    BY <2>1, <2>2, FS_Subset
  <2> QED
    BY <2>2, <2>3
<1> QED
  BY <1>1, KeyInit, KeyStep, PTL DEF LockSpec

(***************************************************************************)
(* SecretCache: a call that holds a dead value has been crossed, or the    *)
(* change that made it dead is still on its way to the cache.              *)
(***************************************************************************)
Pending(d) == step[d] = "done" /\ op[d] \in Changes
HandInv ==
    /\ SecretTypeOK
    /\ StaleOnlyIfCrossed
    /\ \A c \in Clients : got[c] # "none" => step[c] = "done"
    /\ \A c \in Clients : got[c] = "dead" =>
          c \in crossed \/ \E d \in Clients \ {c} : Pending(d)
    /\ \A c \in Clients : Pending(c) /\ got[c] # "none" => op[c] = "set"

\* Nothing is dead at first.
LEMMA HandInit == SecretInit => HandInv
BY DEF SecretInit, HandInv, SecretTypeOK, StaleOnlyIfCrossed, Cells, Changes

\* Each step leaves a reason for every dead value.
LEMMA HandStep == HandInv /\ [SecretNext]_secretVars => HandInv'
<1> SUFFICES ASSUME HandInv, [SecretNext]_secretVars PROVE HandInv'
  OBVIOUS
<1> USE DEF HandInv, SecretTypeOK, StaleOnlyIfCrossed, Cells, Changes, Pending
<1>1. CASE Expire
  BY <1>1 DEF Expire
<1>2. ASSUME NEW c \in Clients, NEW o \in Changes \cup {"get"}, Ask(c, o) PROVE HandInv'
  BY <1>2 DEF Ask
<1>3. ASSUME NEW c \in Clients, BackendReads(c) PROVE HandInv'
  BY <1>3 DEF BackendReads
<1>4. ASSUME NEW c \in Clients, BackendChanges(c) PROVE HandInv'
  BY <1>4 DEF BackendChanges, Die
<1>5. ASSUME NEW c \in Clients, Fill(c) PROVE HandInv'
  <2>1. SecretTypeOK'
    <3>1. excused' \in BOOLEAN
      <4>1. (c \in crossed) \in BOOLEAN
        OBVIOUS
      <4> QED
        BY <1>5, <4>1, Zenon DEF Fill
    <3>2. Return(c) /\ crossed' = crossed \ {c} /\ exists' = exists
      BY <1>5, Zenon DEF Fill
    <3>3. cached' \in Cells
      BY <1>5, Zenon DEF Fill
    <3> QED
      BY <3>1, <3>2, <3>3 DEF Return
  <2>2. StaleOnlyIfCrossed'
    <3>0. Return(c)
      BY <1>5, Zenon DEF Fill
    <3>1. \A d \in Clients : d # c /\ Pending(d) => Pending(d)'
      BY <3>0 DEF Return
    <3>2. ~Pending(c)
      BY <1>5 DEF Fill
    <3>3. CASE got[c] = "none"
      <4>1. cached' = cached /\ excused' = excused
        BY <1>5, <3>3, Zenon DEF Fill
      <4> QED
        BY <3>1, <3>2, <4>1
    <3>4. CASE got[c] # "none"
      <4>1. cached' = got[c]
        BY <1>5, <3>4, Zenon DEF Fill
      <4>2. excused' = (c \in crossed)
        BY <1>5, <3>4, Zenon DEF Fill
      <4> QED
        BY <3>1, <4>1, <4>2
    <3> QED
      BY <3>3, <3>4
  <2> QED
    BY <1>5, <2>1, <2>2 DEF Fill, Return
<1>6. ASSUME NEW c \in Clients, Apply(c) PROVE HandInv'
  <2>1. SecretTypeOK'
    <3>1. excused' \in BOOLEAN
      BY <1>6, Zenon DEF Apply
    <3> QED
      BY <1>6, <3>1 DEF Apply, Return, Busy
  <2>2. StaleOnlyIfCrossed'
    <3>1. \A d \in Clients : d # c /\ Pending(d) => Pending(d)'
      BY <1>6 DEF Apply, Return
    <3>2. cached' = got[c]
      BY <1>6, Zenon DEF Apply
    <3>3. excused' = (op[c] = "set" /\ c \in crossed)
      BY <1>6, Zenon DEF Apply
    <3>4. got[c] = "dead" => op[c] = "set"
      BY <1>6 DEF Apply
    <3> QED
      BY <3>1, <3>2, <3>3, <3>4
  <2> QED
    BY <1>6, <2>1, <2>2 DEF Apply, Return, Busy
<1>7. ASSUME NEW c \in Clients, BackendFails(c) PROVE HandInv'
  <2>1. excused' = (excused \/ Pending(c))
    BY <1>7, Zenon DEF BackendFails
  <2>2. crossed' = (IF Pending(c) THEN Busy ELSE crossed) \ {c}
    BY <1>7, Zenon DEF BackendFails
  <2>3. Return(c) /\ UNCHANGED <<cached, exists>>
    BY <1>7 DEF BackendFails
  <2>4. \A d \in Clients : d # c => (Pending(d)' <=> Pending(d)) /\ got'[d] = got[d] /\ op'[d] = op[d] /\ step'[d] = step[d]
    BY <2>3 DEF Return
  <2>5. got'[c] = "none" /\ ~Pending(c)'
    BY <2>3 DEF Return
  <2>6. SecretTypeOK'
    <3>1. excused' \in BOOLEAN
      BY <2>1, Zenon
    <3> QED
      BY <2>2, <2>3, <3>1 DEF Return, Busy
  <2>7. StaleOnlyIfCrossed'
    BY <2>1, <2>3, <2>4
  <2>8. ASSUME NEW d \in Clients, got'[d] = "dead"
        PROVE  d \in crossed' \/ \E e \in Clients \ {d} : Pending(e)'
    <3>1. d # c /\ got[d] = "dead"
      BY <2>4, <2>5, <2>8
    <3>2. d \in Busy
      BY <3>1 DEF Busy
    <3> QED
      BY <2>2, <2>4, <3>1, <3>2
  <2> HIDE DEF Pending, SecretTypeOK, StaleOnlyIfCrossed, HandInv
  <2>9. \A d \in Clients : got'[d] # "none" => d # c
    BY <2>5
  <2>10. /\ \A d \in Clients : got'[d] # "none" => step'[d] = "done"
         /\ \A d \in Clients : Pending(d)' /\ got'[d] # "none" => op'[d] = "set"
    BY <2>4, <2>9 DEF HandInv
  <2> QED
    BY <2>6, <2>7, <2>8, <2>10 DEF HandInv
<1>8. CASE UNCHANGED secretVars
  BY <1>8 DEF secretVars
<1> QED
  BY <1>1, <1>2, <1>3, <1>4, <1>5, <1>6, <1>7, <1>8 DEF SecretNext

\* For any number of calls: a value the backend no longer has is cached only
\* by a call that was in progress when the change reached the cache.
THEOREM StaleIsCrossed == SecretSpec => []StaleOnlyIfCrossed
<1>1. HandInv => StaleOnlyIfCrossed
  BY DEF HandInv
<1> QED
  BY <1>1, HandInit, HandStep, PTL DEF SecretSpec

(***************************************************************************)
(* MultiLevelCache: while nothing disturbs them, whoever computes owns the *)
(* entry of inflight, whoever waits waits for its owner, and whoever has   *)
(* been woken finds the value in l1.                                       *)
(***************************************************************************)
Undisturbed ==
    /\ \A c \in Callers : phase[c] \in {"computing", "storing"} => inflight = c
    /\ \A c \in Callers : phase[c] = "waiting" => inflight # Nobody /\ awaits[c] = inflight
    /\ \A c \in Callers : phase[c] # "rereading"
    /\ \A c \in Callers : phase[c] \in {"woken", "storing"} => l1 # "none"
ShareInv ==
    /\ CacheTypeOK
    /\ inflight # Nobody => phase[inflight] \in {"computing", "storing"}
    /\ disturbed \/ Undisturbed

\* The sharing invariant holds of an empty cache.
LEMMA ShareInit == CacheInit => ShareInv
<1> SUFFICES ASSUME CacheInit PROVE ShareInv
  OBVIOUS
<1>1. CacheTypeOK
  <2>1. disturbed \in BOOLEAN
    BY DEF CacheInit
  <2> QED
    BY <2>1 DEF CacheInit, CacheTypeOK, Values, Phases
<1>2. Undisturbed /\ inflight = Nobody
  BY DEF CacheInit, Undisturbed
<1> QED
  BY <1>1, <1>2 DEF ShareInv

\* What the queue of commands gives and takes keeps its type.
LEMMA PipeType ==
    ASSUME CacheTypeOK
    PROVE  /\ \A c \in Callers : Append(pipe, c) \in Seq(Callers)
           /\ pipe # <<>> => Head(pipe) \in Callers /\ Tail(pipe) \in Seq(Callers)
BY DEF CacheTypeOK

\* The ghost is Boolean after every step, and false when nobody shares.
LEMMA DisturbType ==
    ASSUME NEW now \in BOOLEAN, disturbed \in BOOLEAN, Disturb(now)
    PROVE  /\ disturbed' \in BOOLEAN
           /\ ~disturbed' => \/ ~disturbed /\ ~now
                             \/ \A c \in Callers : phase'[c] \notin Sharing
BY Zenon DEF Disturb

\* The end of a computation wakes those who wait for it, and no one else.
LEMMA FinallyShares ==
    ASSUME ShareInv, NEW c \in Callers, phase[c] = "storing", Finally(c), UNCHANGED l1,
           ~disturbed' => ~disturbed \/ \A d \in Callers : phase'[d] \notin Sharing
    PROVE  /\ phase' \in [Callers -> Phases] /\ awaits' \in [Callers -> Callers \cup {Nobody}]
           /\ inflight' = Nobody
           /\ disturbed' \/ Undisturbed'
<1> USE CallersAssumption DEF ShareInv, CacheTypeOK, Phases
<1>1. /\ phase' \in [Callers -> Phases] /\ awaits' \in [Callers -> Callers \cup {Nobody}]
      /\ inflight' = Nobody
  BY DEF Finally, Reading, Writing, Sharing
<1>2. CASE \A d \in Callers : phase'[d] \notin Sharing
  BY <1>1, <1>2 DEF Undisturbed, Sharing
<1>3. CASE ~disturbed
  BY <1>1, <1>3 DEF Undisturbed, Finally
<1> QED
  BY <1>1, <1>2, <1>3

\* Each step preserves the sharing invariant.
LEMMA ShareStep == ShareInv /\ [CacheNext]_cacheVars => ShareInv'
<1> SUFFICES ASSUME ShareInv, [CacheNext]_cacheVars PROVE ShareInv'
  OBVIOUS
<1> USE CallersAssumption, PipeType, DisturbType
    DEF ShareInv, Undisturbed, CacheTypeOK, Values, Phases, Reading, Writing, Sharing
<1>1. ASSUME NEW c \in Callers, Get(c) PROVE ShareInv'
  BY <1>1 DEF Get, Send, GoTo
<1>2. ASSUME NEW c \in Callers, Set(c) PROVE ShareInv'
  BY <1>2 DEF Set, Write, Send, GoTo
<1>3. ASSUME NEW c \in Callers, Delete(c) PROVE ShareInv'
  BY <1>3 DEF Delete, Write, Send, GoTo
<1>4. CASE InvalidateL1
  BY <1>4 DEF InvalidateL1, In
<1>5. CASE ExpireL2
  BY <1>5 DEF ExpireL2, In
<1>6. CASE ReadHit
  BY <1>6 DEF ReadHit, Replied, GoTo
<1>7. CASE ReadMiss
  <2> DEFINE c == Head(pipe)
  <2>1. c \in Callers /\ pipe' \in Seq(Callers) /\ disturbed' \in BOOLEAN
    BY <1>7 DEF ReadMiss, Replied
  <2>2. CASE phase[c] = "reading" /\ GoTo(c, "idle") /\ UNCHANGED <<inflight, awaits>>
    BY <1>7, <2>1, <2>2 DEF ReadMiss, GoTo
  <2>3. CASE inflight # Nobody /\ GoTo(c, "waiting") /\ awaits' = [awaits EXCEPT ![c] = inflight]
             /\ UNCHANGED inflight /\ phase[c] = "fetching"
    BY <1>7, <2>1, <2>3 DEF ReadMiss, GoTo
  <2>4. CASE inflight = Nobody /\ RunComputation(c) /\ phase[c] = "fetching"
    BY <1>7, <2>1, <2>4 DEF ReadMiss, GoTo, RunComputation
  <2>5. CASE phase[c] = "rereading" /\ RunComputation(c)
    BY <1>7, <2>1, <2>5 DEF ReadMiss, GoTo, RunComputation
  <2> QED
    BY <1>7, <2>2, <2>3, <2>4, <2>5, Zenon DEF ReadMiss, ComputeWithLock
<1>8. CASE WriteDone
  <2> DEFINE c == Head(pipe)
  <2>1. c \in Callers /\ pipe' \in Seq(Callers) /\ disturbed' \in BOOLEAN /\ phase[c] \in Writing
    BY <1>8 DEF WriteDone, Replied
  <2>2. l1' = l1 /\ l2' \in Values /\ val' \in [Callers -> Values]
    BY <1>8, <2>1 DEF WriteDone
  <2>3. CASE phase[c] = "storing" /\ Finally(c)
    <3>1. Disturb(FALSE)
      BY <1>8 DEF WriteDone
    <3> QED
      BY <2>1, <2>2, <2>3, <3>1, FinallyShares
  <2>4. CASE phase[c] # "storing" /\ GoTo(c, "idle") /\ UNCHANGED <<inflight, awaits>>
    BY <1>8, <2>1, <2>2, <2>4 DEF WriteDone, GoTo
  <2> QED
    BY <1>8, <2>3, <2>4, Zenon DEF WriteDone, WriteEnds
<1>9. CASE ReadFails
  BY <1>9 DEF ReadFails, Replied, GoTo
<1>10. CASE WriteFails
  <2> DEFINE c == Head(pipe)
  <2>1. c \in Callers /\ pipe' \in Seq(Callers) /\ disturbed' \in BOOLEAN /\ phase[c] \in Writing
    BY <1>10 DEF WriteFails, Replied
  <2>2. l1' = l1 /\ l2' \in Values /\ val' \in [Callers -> Values]
    BY <1>10, <2>1 DEF WriteFails
  <2>3. CASE phase[c] = "storing" /\ Finally(c)
    <3>1. Disturb(FALSE)
      BY <1>10 DEF WriteFails
    <3> QED
      BY <2>1, <2>2, <2>3, <3>1, FinallyShares
  <2>4. CASE phase[c] # "storing" /\ GoTo(c, "idle") /\ UNCHANGED <<inflight, awaits>>
    BY <1>10, <2>1, <2>2, <2>4 DEF WriteFails, GoTo
  <2> QED
    BY <1>10, <2>3, <2>4, Zenon DEF WriteFails, WriteEnds
<1>11. ASSUME NEW c \in Callers, FnResolves(c) PROVE ShareInv'
  BY <1>11 DEF FnResolves, Write, Send, GoTo
<1>12. ASSUME NEW c \in Callers, FnRejects(c) PROVE ShareInv'
  BY <1>12 DEF FnRejects, Finally
<1>13. ASSUME NEW c \in Callers, Woken(c) PROVE ShareInv'
  BY <1>13 DEF Woken, Send, GoTo
<1>14. CASE UNCHANGED cacheVars
  BY <1>14 DEF cacheVars
<1> QED
  BY <1>1, <1>2, <1>3, <1>4, <1>5, <1>6, <1>7, <1>8, <1>9, <1>10, <1>11, <1>12, <1>13, <1>14
     DEF CacheNext, Reply, FnSettles

\* For any number of callers: two computations are in progress only after one
\* has failed, or the value was removed before its waiters read it.
THEOREM ComputedOnce == CacheSpec => []SingleFlight
<1>1. ShareInv => SingleFlight
  BY DEF ShareInv, Undisturbed, SingleFlight, In
<1> QED
  BY <1>1, ShareInit, ShareStep, PTL DEF CacheSpec

(***************************************************************************)
(* The queue of commands: each caller that waits for l2 is in it once. If  *)
(* anything is dead, a write is in the queue after which nothing is dead   *)
(* and before which nothing is read.                                       *)
(***************************************************************************)
Queued == Reading \cup Writing
QueueInv ==
    /\ \A i \in 1..Len(pipe) : phase[pipe[i]] \in Queued
    /\ \A i, j \in 1..Len(pipe) : pipe[i] = pipe[j] => i = j
    /\ \A c \in Callers : phase[c] \in Queued => \E i \in 1..Len(pipe) : pipe[i] = c
Barrier(m) ==
    /\ phase[pipe[m]] \in Writing
    /\ \A i \in m..Len(pipe) : val[pipe[i]] # "dead"
    /\ \A i \in 1..m : phase[pipe[i]] \notin Reading
NoneDead == l2 # "dead" /\ \A c \in Callers : val[c] # "dead"
DeadInv ==
    /\ CacheTypeOK
    /\ QueueInv
    /\ \A c \in Callers : phase[c] \notin Writing => val[c] = "none"
    /\ l1 # "dead"
    /\ NoneDead \/ \E m \in 1..Len(pipe) : Barrier(m)

\* Nothing is queued, and nothing dead, in an empty cache.
LEMMA DeadInit == CacheInit => DeadInv
<1> SUFFICES ASSUME CacheInit PROVE DeadInv
  OBVIOUS
<1>1. CacheTypeOK
  BY ShareInit DEF ShareInv
<1>2. Len(pipe) = 0 /\ \A c \in Callers : phase[c] = "idle" /\ val[c] = "none"
  BY DEF CacheInit
<1>3. l1 = "none" /\ l2 = "none"
  BY DEF CacheInit
<1> QED
  BY <1>1, <1>2, <1>3 DEF DeadInv, QueueInv, Queued, NoneDead, Reading, Writing

\* A caller sends a command: the others keep their places.
LEMMA SendKeeps ==
    ASSUME DeadInv, NEW c \in Callers, phase[c] \notin Queued,
           NEW p \in Queued, Send(c, p)
    PROVE  /\ QueueInv'
           /\ Len(pipe') = Len(pipe) + 1 /\ pipe'[Len(pipe) + 1] = c
           /\ \A i \in 1..Len(pipe) : pipe'[i] = pipe[i] /\ pipe[i] # c /\ phase'[pipe[i]] = phase[pipe[i]]
           /\ phase'[c] = p /\ \A d \in Callers \ {c} : phase'[d] = phase[d]
<1> USE DEF DeadInv, CacheTypeOK
<1>1. phase'[c] = p /\ \A d \in Callers \ {c} : phase'[d] = phase[d]
  BY DEF Send, GoTo
<1>2. Len(pipe') = Len(pipe) + 1 /\ pipe'[Len(pipe) + 1] = c
  BY DEF Send
<1>3. \A i \in 1..Len(pipe) : pipe'[i] = pipe[i] /\ pipe[i] \in Callers
  BY DEF Send
<1>4. \A i \in 1..Len(pipe) : pipe[i] # c
  BY DEF QueueInv
<1>5. \A i \in 1..Len(pipe') : phase'[pipe'[i]] \in Queued
  BY <1>1, <1>2, <1>3, <1>4 DEF QueueInv
<1>6. \A i, j \in 1..Len(pipe') : pipe'[i] = pipe'[j] => i = j
  BY <1>2, <1>3, <1>4 DEF QueueInv
<1>7. ASSUME NEW d \in Callers, phase'[d] \in Queued
      PROVE  \E i \in 1..Len(pipe') : pipe'[i] = d
  BY <1>1, <1>2, <1>3, <1>7 DEF QueueInv
<1> QED
  BY <1>1, <1>2, <1>3, <1>4, <1>5, <1>6, <1>7 DEF QueueInv

\* The head of the queue gets its reply: the others move up.
LEMMA ReplyKeeps ==
    ASSUME DeadInv, pipe # <<>>, pipe' = Tail(pipe),
           phase'[Head(pipe)] \notin Queued,
           \A d \in Callers \ {Head(pipe)} :
              phase[d] \in Queued \/ phase'[d] \in Queued => phase'[d] = phase[d]
    PROVE  /\ QueueInv'
           /\ Head(pipe) = pipe[1] /\ pipe[1] \in Callers
           /\ Len(pipe) \in Nat /\ Len(pipe) > 0 /\ Len(pipe') = Len(pipe) - 1
           /\ \A i \in 1..Len(pipe') : pipe'[i] = pipe[i + 1] /\ pipe'[i] \in Callers \ {pipe[1]}
                                      /\ phase'[pipe'[i]] = phase[pipe'[i]]
<1> USE DEF DeadInv, CacheTypeOK
<1>1. Head(pipe) = pipe[1] /\ pipe[1] \in Callers
  OBVIOUS
<1>2. Len(pipe) \in Nat /\ Len(pipe) > 0 /\ Len(pipe') = Len(pipe) - 1
  OBVIOUS
<1>3. \A i \in 1..Len(pipe') : pipe'[i] = pipe[i + 1] /\ pipe[i + 1] \in Callers
  OBVIOUS
<1>4. \A i \in 1..Len(pipe') : pipe'[i] # pipe[1]
  BY <1>2, <1>3 DEF QueueInv
<1>5. \A i \in 1..Len(pipe') : phase'[pipe'[i]] = phase[pipe'[i]] /\ phase[pipe'[i]] \in Queued
  BY <1>1, <1>2, <1>3, <1>4 DEF QueueInv
<1>6. ASSUME NEW c \in Callers, phase'[c] \in Queued
      PROVE  \E i \in 1..Len(pipe') : pipe'[i] = c
  <2>1. c # pipe[1] /\ phase[c] \in Queued
    BY <1>1, <1>6
  <2>2. PICK j \in 1..Len(pipe) : pipe[j] = c
    BY <2>1 DEF QueueInv
  <2>3. j - 1 \in 1..Len(pipe') /\ pipe'[j - 1] = c
    BY <1>2, <1>3, <2>1, <2>2
  <2> QED
    BY <2>3
<1>7. \A i, j \in 1..Len(pipe') : pipe'[i] = pipe'[j] => i = j
  BY <1>2, <1>3 DEF QueueInv
<1> QED
  BY <1>1, <1>2, <1>3, <1>4, <1>5, <1>6, <1>7 DEF QueueInv

\* A set or delete: it is the barrier if nothing is being read or computed,
\* and otherwise kills nothing.
LEMMA WriteKeeps ==
    ASSUME DeadInv, CacheTypeOK', NEW c \in Callers, phase[c] \in {"idle", "computing"},
           NEW p \in Writing, NEW v \in {"live", "none"}, Write(c, p, v)
    PROVE  DeadInv'
<1> DEFINE racing == In(Reading \cup {"computing"}) \ {c}
<1>1. Send(c, p) /\ l1' = v /\ val'[c] = v
  BY DEF Write
<1>2. /\ QueueInv'
      /\ Len(pipe') = Len(pipe) + 1 /\ pipe'[Len(pipe) + 1] = c
      /\ \A i \in 1..Len(pipe) : pipe'[i] = pipe[i] /\ pipe[i] # c /\ phase'[pipe[i]] = phase[pipe[i]]
      /\ phase'[c] = p /\ \A d \in Callers \ {c} : phase'[d] = phase[d]
  BY <1>1, SendKeeps DEF Queued, Reading, Writing
<1>3. \A d \in Callers \ {c} : val'[d] = val[d] \/ (racing = {} /\ val[d] = "live")
  BY DEF Write
<1>4. \A i \in 1..Len(pipe) : pipe[i] \in Callers
  BY DEF DeadInv, CacheTypeOK
<1>5. Len(pipe) \in Nat
  BY DEF DeadInv, CacheTypeOK
<1>6. \A d \in Callers : phase'[d] \notin Writing => val'[d] = "none"
  BY <1>1, <1>2, <1>3 DEF DeadInv
<1>7. CASE racing = {}
  <2>1. \A i \in 1..Len(pipe) : phase[pipe[i]] \notin Reading
    BY <1>2, <1>4, <1>7 DEF In
  <2> PICK m \in Nat : m = Len(pipe) + 1
    BY <1>5
  <2>2. m \in 1..Len(pipe') /\ Barrier(m)'
    BY <1>1, <1>2, <1>5, <2>1 DEF Barrier, Reading, Writing
  <2> QED
    BY <1>1, <1>2, <1>5, <1>6, <2>2 DEF DeadInv
<1>8. CASE racing # {}
  <2>1. l2' = l2 /\ \A d \in Callers \ {c} : val'[d] = val[d]
    BY <1>8 DEF Write
  <2>2. CASE NoneDead
    BY <1>1, <1>2, <1>6, <2>1, <2>2 DEF DeadInv, NoneDead
  <2>3. ASSUME NEW m \in 1..Len(pipe), Barrier(m) PROVE DeadInv'
    <3>1. \A i \in m..Len(pipe') : val'[pipe'[i]] # "dead"
      BY <1>1, <1>2, <1>4, <1>5, <2>1, <2>3 DEF Barrier
    <3>2. Barrier(m)' /\ m \in 1..Len(pipe')
      BY <1>2, <1>5, <2>3, <3>1 DEF Barrier
    <3> QED
      BY <1>1, <1>2, <1>6, <3>2 DEF DeadInv
  <2> QED
    BY <2>2, <2>3 DEF DeadInv
<1> QED
  BY <1>7, <1>8

\* A caller starts to read l2, behind the barrier if there is one.
LEMMA ReadSent ==
    ASSUME DeadInv, CacheTypeOK', NEW c \in Callers, phase[c] \in {"idle", "woken"},
           NEW p \in Reading, Send(c, p), UNCHANGED <<l1, l2, val>>
    PROVE  DeadInv'
<1>2. /\ QueueInv'
      /\ Len(pipe') = Len(pipe) + 1 /\ pipe'[Len(pipe) + 1] = c
      /\ \A i \in 1..Len(pipe) : pipe'[i] = pipe[i] /\ pipe[i] # c /\ phase'[pipe[i]] = phase[pipe[i]]
      /\ phase'[c] = p /\ \A d \in Callers \ {c} : phase'[d] = phase[d]
  BY SendKeeps DEF Queued, Reading, Writing
<1>3. Len(pipe) \in Nat /\ val[c] = "none"
  BY DEF DeadInv, CacheTypeOK, Writing
<1>4. \A d \in Callers : phase'[d] \notin Writing => val'[d] = "none"
  BY <1>2, <1>3 DEF DeadInv
<1>5. ASSUME NEW m \in 1..Len(pipe), Barrier(m) PROVE Barrier(m)' /\ m \in 1..Len(pipe')
  BY <1>2, <1>3, <1>5 DEF Barrier
<1> QED
  BY <1>2, <1>4, <1>5 DEF DeadInv, NoneDead

\* When the command at the head is a read, nothing is dead.
LEMMA ReadsNothingDead ==
    ASSUME DeadInv, Replied(Reading)
    PROVE  NoneDead /\ Head(pipe) \in Callers /\ val[Head(pipe)] = "none"
<1>1. Len(pipe) > 0 /\ Len(pipe) \in Nat /\ Head(pipe) = pipe[1] /\ pipe[1] \in Callers
  BY DEF DeadInv, CacheTypeOK, Replied
<1>2. \A m \in 1..Len(pipe) : ~Barrier(m)
  BY <1>1 DEF Barrier, Replied
<1> QED
  BY <1>1, <1>2 DEF DeadInv, Replied, Reading, Writing

\* After the reply to a read nothing is dead.
LEMMA ReadReplied ==
    ASSUME DeadInv, CacheTypeOK', Replied(Reading), l1' \in {l1, l2}, UNCHANGED <<l2, val>>,
           phase'[Head(pipe)] \notin Queued,
           \A d \in Callers \ {Head(pipe)} : phase'[d] = phase[d]
    PROVE  DeadInv'
<1>1. QueueInv'
  BY ReplyKeeps DEF Replied
<1>2. NoneDead /\ Head(pipe) \in Callers /\ val[Head(pipe)] = "none"
  BY ReadsNothingDead
<1>3. l1' # "dead" /\ NoneDead'
  BY <1>2 DEF DeadInv, NoneDead
<1>4. \A d \in Callers : phase'[d] \notin Writing => val'[d] = "none"
  BY <1>2 DEF DeadInv
<1> QED
  BY <1>1, <1>3, <1>4 DEF DeadInv

\* A write is executed: the barrier moves up, or has become the value of l2.
LEMMA WriteReplied ==
    ASSUME DeadInv, CacheTypeOK', Replied(Writing), l1' = l1,
           phase'[Head(pipe)] \notin Queued,
           \A d \in Callers \ {Head(pipe)} :
              phase[d] \in Queued \/ phase'[d] \in Queued => phase'[d] = phase[d],
           \/ l2' = val[Head(pipe)] /\ val' = [val EXCEPT ![Head(pipe)] = "none"]
           \/ NoneDead'  /\ \A d \in Callers : val'[d] = "none" <=> val[d] = "none" \/ d = Head(pipe)
    PROVE  DeadInv'
<1>1. /\ QueueInv'
      /\ Head(pipe) = pipe[1] /\ pipe[1] \in Callers
      /\ Len(pipe) \in Nat /\ Len(pipe) > 0 /\ Len(pipe') = Len(pipe) - 1
      /\ \A i \in 1..Len(pipe') : pipe'[i] = pipe[i + 1] /\ pipe'[i] \in Callers \ {pipe[1]}
                                 /\ phase'[pipe'[i]] = phase[pipe'[i]]
  BY ReplyKeeps DEF Replied
<1>2. \A d \in Callers : phase'[d] \notin Writing => val'[d] = "none"
  BY <1>1 DEF DeadInv, CacheTypeOK, Queued
<1>3. CASE NoneDead'
  BY <1>1, <1>2, <1>3 DEF DeadInv
<1>4. CASE l2' = val[pipe[1]] /\ val' = [val EXCEPT ![pipe[1]] = "none"]
  <2>1. val'[pipe[1]] = "none" /\ \A d \in Callers \ {pipe[1]} : val'[d] = val[d]
    BY <1>1, <1>4 DEF DeadInv, CacheTypeOK
  <2>2. CASE NoneDead
    BY <1>1, <1>3, <1>4, <2>1, <2>2 DEF NoneDead
  <2>3. CASE Barrier(1)
    <3>1. \A c \in Callers : val[c] # "dead"
      BY <1>1, <2>3 DEF Barrier, DeadInv, QueueInv, Queued
    <3> QED
      BY <1>1, <1>3, <1>4, <2>1, <3>1 DEF NoneDead
  <2>4. ASSUME NEW m \in 1..Len(pipe), m # 1, Barrier(m) PROVE DeadInv'
    <3> PICK n \in Nat : n = m - 1
      BY <1>1, <2>4
    <3>1. n \in 1..Len(pipe')
      BY <1>1, <2>4
    <3>2. \A i \in n..Len(pipe') : val'[pipe'[i]] # "dead"
      BY <1>1, <2>1, <2>4, <3>1 DEF Barrier
    <3>3. \A i \in 1..n : phase'[pipe'[i]] \notin Reading
      BY <1>1, <2>4, <3>1 DEF Barrier
    <3>4. phase'[pipe'[n]] \in Writing
      BY <1>1, <2>4, <3>1 DEF Barrier
    <3>5. Barrier(n)'
      BY <3>2, <3>3, <3>4 DEF Barrier
    <3> QED
      BY <1>1, <1>2, <3>1, <3>5 DEF DeadInv
  <2> QED
    BY <1>1, <2>2, <2>3, <2>4 DEF DeadInv
<1> QED
  BY <1>1, <1>3, <1>4

\* A step that leaves levels, values, queue and who is in it alone.
LEMMA QuietKeeps ==
    ASSUME DeadInv, CacheTypeOK', l1' \in {l1, "none"}, l2' \in {l2, "none"}, UNCHANGED <<pipe, val>>,
           \A d \in Callers : phase[d] \in Queued \/ phase'[d] \in Queued => phase'[d] = phase[d]
    PROVE  DeadInv'
<1>1. \A i \in 1..Len(pipe) : pipe[i] \in Callers
  BY DEF DeadInv, CacheTypeOK
<1>2. QueueInv'
  BY <1>1 DEF DeadInv, QueueInv
<1>3. \A m \in 1..Len(pipe) : Barrier(m) => Barrier(m)'
  BY <1>1, <1>2 DEF Barrier, DeadInv, QueueInv
<1>4. \A d \in Callers : phase'[d] \notin Writing => val'[d] = "none"
  BY DEF DeadInv, Queued
<1> QED
  BY <1>2, <1>3, <1>4 DEF DeadInv, NoneDead

\* Each step preserves the invariant.
LEMMA DeadStep == ShareInv /\ DeadInv /\ [CacheNext]_cacheVars => DeadInv'
<1> SUFFICES ASSUME ShareInv, DeadInv, [CacheNext]_cacheVars PROVE DeadInv'
  OBVIOUS
<1>0. CacheTypeOK' /\ CacheTypeOK
  BY ShareStep DEF ShareInv
<1>1. ASSUME NEW c \in Callers, Get(c) PROVE DeadInv'
  BY <1>0, <1>1, ReadSent DEF Get, Reading
<1>2. ASSUME NEW c \in Callers, Set(c) PROVE DeadInv'
  BY <1>0, <1>2, WriteKeeps DEF Set, Writing
<1>3. ASSUME NEW c \in Callers, Delete(c) PROVE DeadInv'
  BY <1>0, <1>3, WriteKeeps DEF Delete, Writing
<1>4. CASE InvalidateL1
  BY <1>0, <1>4, QuietKeeps DEF InvalidateL1
<1>5. CASE ExpireL2
  BY <1>0, <1>5, QuietKeeps DEF ExpireL2
<1>6. CASE ReadHit
  BY <1>0, <1>6, ReadReplied, PipeType DEF ReadHit, GoTo, CacheTypeOK, Replied, Queued, Reading, Writing
<1>7. CASE ReadMiss
  <2>1. PICK p \in {"idle", "waiting", "computing"} : GoTo(Head(pipe), p)
    BY <1>7 DEF ReadMiss, ComputeWithLock, RunComputation
  <2> QED
    BY <1>0, <1>7, <2>1, ReadReplied, PipeType DEF ReadMiss, GoTo, CacheTypeOK, Replied, Queued, Reading, Writing
<1>8. CASE WriteDone
  <2>1. phase'[Head(pipe)] = "idle" /\ \A d \in Callers \ {Head(pipe)} : phase'[d] = phase[d] \/ (phase[d] = "waiting" /\ phase'[d] = "woken")
    BY <1>0, <1>8, PipeType DEF WriteDone, WriteEnds, Finally, GoTo, CacheTypeOK, Replied
  <2> QED
    BY <1>0, <1>8, <2>1, WriteReplied DEF WriteDone, Queued, Reading, Writing
<1>9. CASE ReadFails
  BY <1>0, <1>9, ReadReplied, PipeType DEF ReadFails, GoTo, CacheTypeOK, Replied, Queued, Reading, Writing
<1>10. CASE WriteFails
  <2>1. phase'[Head(pipe)] = "idle" /\ \A d \in Callers \ {Head(pipe)} : phase'[d] = phase[d] \/ (phase[d] = "waiting" /\ phase'[d] = "woken")
    BY <1>0, <1>10, PipeType DEF WriteFails, WriteEnds, Finally, GoTo, CacheTypeOK, Replied
  <2>2. NoneDead' /\ \A d \in Callers : val'[d] = "none" <=> val[d] = "none" \/ d = Head(pipe)
    BY <1>0, <1>10 DEF WriteFails, NoneDead, CacheTypeOK, Values
  <2> QED
    BY <1>0, <1>10, <2>1, <2>2, WriteReplied DEF WriteFails, Queued, Reading, Writing
<1>11. ASSUME NEW c \in Callers, FnResolves(c) PROVE DeadInv'
  BY <1>0, <1>11, WriteKeeps DEF FnResolves, Writing
<1>12. ASSUME NEW c \in Callers, FnRejects(c) PROVE DeadInv'
  BY <1>0, <1>12, QuietKeeps DEF FnRejects, Finally, Queued, Reading, Writing
<1>13. ASSUME NEW c \in Callers, Woken(c) PROVE DeadInv'
  <2>1. CASE l1 # "none" /\ GoTo(c, "idle") /\ UNCHANGED pipe
    BY <1>0, <1>13, <2>1, QuietKeeps DEF Woken, GoTo, CacheTypeOK, Queued, Reading, Writing
  <2>2. CASE Send(c, "rereading")
    BY <1>0, <1>13, <2>2, ReadSent DEF Woken, Reading
  <2> QED
    BY <1>13, <2>1, <2>2 DEF Woken
<1>14. CASE UNCHANGED cacheVars
  BY <1>0, <1>14, QuietKeeps DEF cacheVars
<1> QED
  BY <1>1, <1>2, <1>3, <1>4, <1>5, <1>6, <1>7, <1>8, <1>9, <1>10, <1>11, <1>12, <1>13, <1>14
     DEF CacheNext, Reply, FnSettles

\* For any number of callers: a write that races with no read of l2 and no
\* computation is never undone.
THEOREM WritesLast == CacheSpec => []OverwrittenStaysGone
<1>1. DeadInv => OverwrittenStaysGone
  <2> SUFFICES ASSUME DeadInv, In(Writing) = {} PROVE l2 # "dead"
    BY DEF OverwrittenStaysGone, DeadInv
  <2>1. \A m \in 1..Len(pipe) : pipe[m] \in Callers
    BY DEF DeadInv, CacheTypeOK
  <2> QED
    BY <2>1 DEF DeadInv, NoneDead, Barrier, In
<1> QED
  BY <1>1, ShareInit, ShareStep, DeadInit, DeadStep, PTL DEF CacheSpec
(***************************************************************************)
(* HotReload: what a call has read is no older than the configuration.     *)
(***************************************************************************)
\* A call that has read is in progress, and unless it was overtaken it has
\* read nothing older than what is current.
ReadInv ==
    /\ sources \in 0..MaxChanges /\ current \in Versions
    /\ call \in [Loads -> {"idle", "start", "reload"}] /\ read \in [Loads -> Versions]
    /\ told \in [Listeners -> Versions] /\ listeners \subseteq Listeners
    /\ current # Unread => current <= sources
    /\ \A c \in Loads : read[c] # Unread =>
          /\ call[c] # "idle" /\ read[c] <= sources
          /\ c \in overtaken \/ current = Unread \/ read[c] >= current
    /\ quiet \/ \A l \in listeners : told[l] \in {Unread, current}

(***************************************************************************)
(* The safety behind EveryCallReturns: a call is never left with nothing   *)
(* that will move it on.                                                   *)
(***************************************************************************)
Attended(c) == awaits[c] \in Callers /\ phase[awaits[c]] \in {"computing", "storing"}
Waits == \A c \in Callers : phase[c] = "waiting" => Attended(c)

\* The end of a computation wakes all who wait for it: the others wait for
\* one that goes on.
LEMMA FinallyWaits ==
    ASSUME CacheTypeOK, Waits, NEW c \in Callers, Finally(c)
    PROVE  Waits'
<1> SUFFICES ASSUME NEW d \in Callers, phase'[d] = "waiting"
             PROVE  awaits'[d] \in Callers /\ phase'[awaits'[d]] \in {"computing", "storing"}
  BY DEF Waits, Attended
<1>1. d # c /\ phase[d] = "waiting" /\ awaits[d] # c
  BY DEF Finally
<1>2. awaits'[d] = awaits[d] /\ Attended(d)
  BY <1>1 DEF Finally, Waits
<1>3. phase'[awaits[d]] = phase[awaits[d]]
  BY <1>1, <1>2 DEF Finally, Attended
<1> QED
  BY <1>2, <1>3 DEF Attended

\* A call that does not end a computation goes on alone.
LEMMA StepWaits ==
    ASSUME CacheTypeOK, Waits, NEW c \in Callers, NEW p \in Phases, GoTo(c, p),
           phase[c] \in {"computing", "storing"} => p \in {"computing", "storing"},
           \/ p # "waiting" /\ UNCHANGED awaits
           \/ /\ p = "waiting" /\ inflight # Nobody
              /\ phase[inflight] \in {"computing", "storing"}
              /\ awaits' = [awaits EXCEPT ![c] = inflight]
    PROVE  Waits'
<1> SUFFICES ASSUME NEW d \in Callers, phase'[d] = "waiting"
             PROVE  awaits'[d] \in Callers /\ phase'[awaits'[d]] \in {"computing", "storing"}
  BY DEF Waits, Attended
<1>1. \A e \in Callers : phase'[e] = IF e = c THEN p ELSE phase[e]
  BY DEF GoTo, CacheTypeOK
<1>2. \A e \in Callers : phase[e] \in {"computing", "storing"} => phase'[e] \in {"computing", "storing"}
  BY <1>1
<1>3. CASE d = c
  <2>1. p = "waiting" /\ awaits'[c] = inflight /\ inflight \in Callers
    BY <1>1, <1>3 DEF CacheTypeOK
  <2> QED
    BY <1>2, <1>3, <2>1
<1>4. CASE d # c
  <2>1. phase[d] = "waiting" /\ awaits'[d] = awaits[d]
    BY <1>1, <1>4 DEF CacheTypeOK
  <2> QED
    BY <1>2, <2>1 DEF Waits, Attended
<1> QED
  BY <1>3, <1>4

LEMMA WaitStep == ShareInv /\ DeadInv /\ Waits /\ [CacheNext]_cacheVars => Waits'
<1> SUFFICES ASSUME ShareInv, DeadInv, Waits, [CacheNext]_cacheVars PROVE Waits'
  OBVIOUS
<1>0. CacheTypeOK /\ (inflight # Nobody => phase[inflight] \in {"computing", "storing"})
  BY DEF ShareInv
<1>1. ASSUME NEW c \in Callers, Get(c) \/ Set(c) \/ Delete(c) \/ FnResolves(c) \/ Woken(c) PROVE Waits'
  <2>1. /\ UNCHANGED awaits
        /\ \E p \in Phases \ {"waiting"} :
              /\ GoTo(c, p)
              /\ phase[c] \in {"computing", "storing"} => p \in {"computing", "storing"}
    BY <1>1 DEF Get, Set, Delete, FnResolves, Woken, Write, Send, Phases, Reading, Writing, Sharing
  <2> QED
    BY <1>0, <2>1, StepWaits
<1>2. ASSUME NEW c \in Callers, FnRejects(c) PROVE Waits'
  BY <1>0, <1>2, FinallyWaits DEF FnRejects
<1>3. CASE ReadHit \/ ReadMiss \/ ReadFails
  <2> DEFINE c == Head(pipe)
  <2>1. c \in Callers /\ phase[c] \in Reading
    BY <1>0, <1>3, PipeType DEF ReadHit, ReadMiss, ReadFails, Replied
  <2>2. phase[c] \notin {"computing", "storing"}
    BY <2>1 DEF Reading
  <2> HIDE DEF c
  <2>3. CASE \E p \in {"idle", "computing"} : GoTo(c, p) /\ UNCHANGED awaits
    BY <1>0, <2>1, <2>2, <2>3, StepWaits DEF Phases, Sharing
  <2>4. CASE GoTo(c, "waiting") /\ inflight # Nobody /\ awaits' = [awaits EXCEPT ![c] = inflight]
    BY <1>0, <2>1, <2>2, <2>4, StepWaits DEF Phases, Sharing
  <2> QED
    BY <1>3, <2>3, <2>4, Zenon DEF ReadHit, ReadMiss, ReadFails, ComputeWithLock, RunComputation, c
<1>4. CASE WriteDone \/ WriteFails
  <2> DEFINE c == Head(pipe)
  <2>1. c \in Callers /\ WriteEnds(c)
    BY <1>0, <1>4, PipeType DEF WriteDone, WriteFails, Replied
  <2>2. phase[c] \in Writing
    BY <1>4 DEF WriteDone, WriteFails, Replied
  <2> HIDE DEF c
  <2>3. CASE phase[c] = "storing"
    BY <1>0, <2>1, <2>3, FinallyWaits DEF WriteEnds
  <2>4. CASE phase[c] # "storing"
    BY <1>0, <2>1, <2>2, <2>4, StepWaits DEF WriteEnds, Writing, Phases
  <2> QED
    BY <2>3, <2>4
<1>5. CASE InvalidateL1 \/ ExpireL2 \/ UNCHANGED cacheVars
  BY <1>5 DEF InvalidateL1, ExpireL2, cacheVars, Waits, Attended
<1> QED
  BY <1>1, <1>2, <1>3, <1>4, <1>5 DEF CacheNext, Reply, FnSettles

Attending ==
    \A c \in Callers :
        \/ phase[c] \in {"idle", "computing", "woken"}
        \/ phase[c] \in Queued /\ \E i \in 1..Len(pipe) : pipe[i] = c
        \/ phase[c] = "waiting" /\ Attended(c)

\* A call in progress is waiting for a reply of Redis that is on its way,
\* computes, has been woken, or waits for a call that computes or stores
\* (finally, lines 89 to 92, wakes all who wait for the one that ends).
THEOREM NobodyIsForgotten == CacheSpec => []Attending
<1>1. CacheInit => Waits
  BY DEF CacheInit, Waits
<1>2. ShareInv /\ DeadInv /\ Waits => Attending
  <2> SUFFICES ASSUME ShareInv, DeadInv, Waits, NEW c \in Callers
               PROVE  \/ phase[c] \in {"idle", "computing", "woken"}
                      \/ phase[c] \in Queued /\ \E i \in 1..Len(pipe) : pipe[i] = c
                      \/ phase[c] = "waiting" /\ Attended(c)
    BY DEF Attending
  <2>1. phase[c] \in Phases
    BY DEF ShareInv, CacheTypeOK
  <2>2. phase[c] \in {"idle", "computing", "woken", "waiting"} \cup Queued
    BY <2>1 DEF Queued, Phases, Reading, Writing, Sharing
  <2> QED
    BY <2>2 DEF DeadInv, QueueInv, Waits
<1> QED
  BY <1>1, <1>2, ShareInit, DeadInit, ShareStep, DeadStep, WaitStep, PTL DEF CacheSpec

\* Each step but a store leaves the current configuration alone.
LEMMA ReadStep ==
    ASSUME ReadInv, [ConfigNext]_configVars
    PROVE  /\ ReadInv'
           /\ \A c \in Loads \ overtaken :
                 call[c] # "idle" /\ call'[c] = "idle" /\ current # Unread => current' >= current
<1> USE ConfigAssumption DEF ReadInv, Versions, Unread
<1>1. ASSUME NEW c \in Loads, Store(c)
      PROVE  /\ ReadInv'
             /\ \A d \in Loads \ overtaken :
                   call[d] # "idle" /\ call'[d] = "idle" /\ current # Unread => current' >= current
  <2>1. /\ current' = read[c] /\ read[c] # Unread /\ UNCHANGED <<sources, listeners>>
        /\ call' = [call EXCEPT ![c] = "idle"] /\ read' = [read EXCEPT ![c] = Unread]
        /\ overtaken' = (overtaken \ {c}) \cup {d \in Loads \ {c} : call[d] # "idle"}
    BY <1>1 DEF Store, Over
  <2>2. PICK heard \in SUBSET listeners :
           /\ told' = [l \in Listeners |-> IF call[c] = "reload" /\ l \in heard THEN read[c] ELSE told[l]]
           /\ quiet' = (call[c] = "start" \/ heard # listeners)
    BY <1>1 DEF Store
  <2>3. quiet' \/ \A l \in listeners' : told'[l] \in {Unread, current'}
    <3>1. CASE call[c] = "start" \/ heard # listeners
      BY <2>2, <3>1, Zenon
    <3>2. CASE call[c] = "reload" /\ heard = listeners
      BY <2>1, <2>2, <3>2
    <3> QED
      BY <2>1, <3>1, <3>2
  <2>4. told' \in [Listeners -> Versions]
    BY <2>2
  <2>5. \A d \in Loads : read'[d] # Unread => d # c /\ d \in overtaken' /\ call'[d] # "idle" /\ read'[d] <= sources
    BY <2>1
  <2>6. \A d \in Loads : call[d] # "idle" /\ call'[d] = "idle" => d = c
    BY <2>1
  <2> QED
    BY <2>1, <2>3, <2>4, <2>5, <2>6
<1>2. ASSUME NEW c \in Loads, LoadFails(c) PROVE ReadInv' /\ current' = current
  <2>1. /\ UNCHANGED <<sources, current, listeners, told, quiet>>
        /\ call' = [call EXCEPT ![c] = "idle"] /\ read' = [read EXCEPT ![c] = Unread]
        /\ overtaken' = (overtaken \ {c}) \cup {}
    BY <1>2 DEF LoadFails, Over
  <2>2. quiet' \/ \A l \in listeners' : told'[l] \in {Unread, current'}
    BY <2>1, Zenon DEF ReadInv
  <2> QED
    BY <2>1, <2>2
<1>3. ASSUME NEW c \in Loads, NEW way \in {"start", "reload"}, Begin(c, way) PROVE ReadInv' /\ current' = current
  <2>1. UNCHANGED <<sources, read, current, listeners, told, overtaken, quiet>>
        /\ call' = [call EXCEPT ![c] = way]
    BY <1>3 DEF Begin
  <2>2. quiet' \/ \A l \in listeners' : told'[l] \in {Unread, current'}
    BY <2>1, Zenon DEF ReadInv
  <2> QED
    BY <2>1, <2>2
<1>4. ASSUME NEW c \in Loads, ReadSources(c) PROVE ReadInv' /\ current' = current
  <2>1. /\ UNCHANGED <<sources, call, current, listeners, told, overtaken, quiet>>
        /\ call[c] # "idle" /\ read' = [read EXCEPT ![c] = sources]
    BY <1>4 DEF ReadSources
  <2>2. quiet' \/ \A l \in listeners' : told'[l] \in {Unread, current'}
    BY <2>1, Zenon DEF ReadInv
  <2> QED
    BY <2>1, <2>2
<1>5. CASE SourcesChange
  <2>1. /\ UNCHANGED <<call, read, current, listeners, told, overtaken, quiet>>
        /\ sources < MaxChanges /\ sources' = sources + 1
    BY <1>5 DEF SourcesChange
  <2>2. quiet' \/ \A l \in listeners' : told'[l] \in {Unread, current'}
    BY <2>1, Zenon DEF ReadInv
  <2> QED
    BY <2>1, <2>2
<1>6. ASSUME NEW l \in Listeners, OnChange(l) \/ Unsubscribe(l) PROVE ReadInv' /\ current' = current
  <2>1. /\ UNCHANGED <<sources, call, read, current, overtaken, quiet>>
        /\ \/ listeners' = listeners \cup {l} /\ told' = [told EXCEPT ![l] = Unread]
           \/ listeners' = listeners \ {l} /\ told' = told
    BY <1>6 DEF OnChange, Unsubscribe
  <2>2. (\A k \in listeners : told[k] \in {Unread, current})
           => \A k \in listeners' : told'[k] \in {Unread, current'}
    BY <2>1
  <2>3. quiet' \/ \A k \in listeners' : told'[k] \in {Unread, current'}
    BY <2>1, <2>2, Zenon DEF ReadInv
  <2> QED
    BY <2>1, <2>3
<1>7. CASE UNCHANGED configVars
  BY <1>7, Zenon DEF configVars, ReadInv
<1>8. SourcesChange \/ UNCHANGED configVars => current' = current \/ call' = call
  BY DEF SourcesChange, configVars
<1> QED
  BY <1>1, <1>2, <1>3, <1>4, <1>5, <1>6, <1>7 DEF ConfigNext, SourcesChange, configVars

\* Nothing has been read at first.
LEMMA ReadInit == ConfigInit => ReadInv /\ ConfigTypeOK
<1> SUFFICES ASSUME ConfigInit PROVE ReadInv /\ ConfigTypeOK
  OBVIOUS
<1>0. quiet \in BOOLEAN
  BY DEF ConfigInit
<1>1. Unread \in Versions /\ 0 \in 0..MaxChanges
  BY ConfigAssumption DEF Versions, Unread
<1>2. ConfigTypeOK
  BY <1>0, <1>1 DEF ConfigInit, ConfigTypeOK
<1>3. listeners = {} /\ current = Unread /\ \A c \in Loads : read[c] = Unread
  BY DEF ConfigInit
<1>4. quiet \/ \A l \in listeners : told[l] \in {Unread, current}
  BY <1>3
<1> QED
  BY <1>2, <1>3, <1>4, Zenon DEF ReadInv, ConfigTypeOK

\* Configurations never go back, for any number of calls, listeners and
\* changes, unless a call was overtaken, and listeners know the current one.
THEOREM ConfigGoesForward == ConfigSpec => ReloadsGoForward
<1>1. ConfigInit => ReadInv
  BY ReadInit
<1>2. ReadInv /\ [ConfigNext]_configVars => ReadInv'
  BY ReadStep
<1>3. ReadInv => quiet \/ \A l \in listeners : told[l] \in {Unread, current}
  BY Zenon DEF ReadInv
<1>4. ReadInv /\ [ConfigNext]_configVars
      => [\A c \in Loads \ overtaken : call[c] # "idle" /\ call'[c] = "idle" /\ current # Unread
            => current' >= current]_configVars
  BY ReadStep
<1> QED
  BY <1>1, <1>2, <1>3, <1>4, PTL DEF ConfigSpec, ReloadsGoForward

(***************************************************************************)
(* Hedge: the counters that tryReject trusts.                              *)
(***************************************************************************)
Indices == 0..MaxCopies - 1
Alive   == {i \in Indices : copy[i] \in {"running", "ok"}}

\* The counters stand for the copies: those launched that have not failed,
\* and those still to come.
CountersInv ==
    /\ copies \in 0..MaxCopies /\ fired \in Nat
    /\ copy \in [Indices -> {"unborn", "running", "ok", "failed"}]
    /\ outcome \in {"open", "resolved", "rejected"}
    /\ pending = Cardinality(Alive)
    /\ \A i \in Indices : i > fired => copy[i] = "unborn"
    /\ IF copy[0] = "unborn"
       THEN fired = 0 /\ outcome = "open"
       ELSE /\ timersPending = copies - 1 - fired
            /\ fired = 0 \/ fired <= copies - 1
            /\ outcome = "open" => \A i \in 0..fired : copy[i] \in {"running", "failed"}
            /\ outcome = "resolved" => \E i \in 0..fired : copy[i] = "ok"
            /\ outcome = "rejected" => fired = copies - 1 /\ \A i \in 0..fired : copy[i] = "failed"

\* Counting the copies that are alive tells whether there are any.
LEMMA AliveFinite ==
    CountersInv =>
        IsFiniteSet(Alive) /\ Cardinality(Alive) \in Nat /\ (Cardinality(Alive) = 0 <=> Alive = {})
<1>1. IsFiniteSet(Indices) /\ Alive \subseteq Indices
  BY HedgeAssumption, FS_Interval DEF Indices, Alive
<1> QED
  BY <1>1, FS_Subset, FS_CardinalityType, FS_EmptySet

\* Each step keeps the counters exact: an answer takes a copy that is running
\* out of them, a timer puts one in while the caller is not answered.
LEMMA CountersStep == CountersInv /\ [HedgeNext]_hedgeVars => CountersInv'
<1> SUFFICES ASSUME CountersInv, [HedgeNext]_hedgeVars PROVE CountersInv'
  OBVIOUS
<1>1. /\ IsFiniteSet(Alive) /\ Cardinality(Alive) \in Nat /\ (Cardinality(Alive) = 0 <=> Alive = {})
      /\ MaxCopies \in Nat \ {0} /\ 0 \in Indices
  BY AliveFinite, HedgeAssumption DEF Indices
<1>2. CASE Hedged
  <2>1. /\ copy' = [i \in Indices |-> IF i = 0 THEN "running" ELSE "unborn"]
        /\ fired' = 0 /\ pending' = 1 /\ timersPending' = copies - 1
        /\ outcome' = "open" /\ copies' = copies
    BY <1>2 DEF Hedged, Indices
  <2>2. Alive' = {0}
    BY <1>1, <2>1 DEF Alive
  <2>3. Cardinality(Alive') = 1
    BY <2>2, FS_Singleton
  <2>4. 0..fired' = {0}
    BY <2>1
  <2> QED
    BY <1>1, <2>1, <2>3, <2>4 DEF CountersInv, Indices
<1>3. ASSUME NEW i \in Indices, copy[i] = "running"
      PROVE  /\ i \in 0..fired /\ copy[0] # "unborn" /\ outcome # "rejected" /\ i \in Nat
             /\ i \in Alive
  <2>1. i \in 0..fired /\ i \in Nat
    BY <1>3 DEF CountersInv, Indices
  <2>2. copy[0] # "unborn"
    BY <1>3, <2>1 DEF CountersInv
  <2> QED
    BY <1>3, <2>1, <2>2 DEF CountersInv, Alive
<1>4. ASSUME NEW i \in Indices, CopyFulfills(i) PROVE CountersInv'
  <2>1. /\ copy[i] = "running" /\ copy' = [copy EXCEPT ![i] = "ok"]
        /\ outcome' = IF outcome = "open" THEN "resolved" ELSE outcome
        /\ UNCHANGED <<copies, fired, pending, timersPending>>
    BY <1>4 DEF CopyFulfills
  <2>2. /\ i \in 0..fired /\ copy[0] # "unborn" /\ outcome # "rejected" /\ i \in Nat
    BY <1>3, <2>1
  <2>3. copy' \in [Indices -> {"unborn", "running", "ok", "failed"}] /\ copy'[i] = "ok"
        /\ \A j \in Indices \ {i} : copy'[j] = copy[j]
    BY <2>1 DEF CountersInv
  <2>4. Alive' = Alive
    BY <2>1, <2>3 DEF Alive
  <2>5. outcome' = "resolved"
    BY <2>1, <2>2 DEF CountersInv
  <2>6. copy'[0] # "unborn"
    BY <1>1, <2>2, <2>3
  <2>7. \A j \in Indices : j > fired' => copy'[j] = "unborn"
    BY <2>1, <2>2, <2>3 DEF CountersInv
  <2> QED
    BY <2>1, <2>2, <2>3, <2>4, <2>5, <2>6, <2>7 DEF CountersInv
<1>5. ASSUME NEW i \in Indices, CopyRejects(i) PROVE CountersInv'
  <2>1. /\ copy[i] = "running" /\ copy' = [copy EXCEPT ![i] = "failed"]
        /\ pending' = pending - 1
        /\ outcome' = IF pending - 1 = 0 /\ timersPending = 0 /\ outcome = "open" THEN "rejected" ELSE outcome
        /\ UNCHANGED <<copies, fired, timersPending>>
    BY <1>5 DEF CopyRejects, TryReject
  <2>2. /\ i \in 0..fired /\ copy[0] # "unborn" /\ outcome # "rejected" /\ i \in Nat /\ i \in Alive
    BY <1>3, <2>1
  <2>3. copy' \in [Indices -> {"unborn", "running", "ok", "failed"}] /\ copy'[i] = "failed"
        /\ \A j \in Indices \ {i} : copy'[j] = copy[j]
    BY <2>1 DEF CountersInv
  <2>4. Alive' = Alive \ {i}
    BY <2>1, <2>3 DEF Alive
  <2>5. IsFiniteSet(Alive') /\ Cardinality(Alive') = Cardinality(Alive) - 1 /\ (Cardinality(Alive') = 0 <=> Alive' = {})
    BY <1>1, <2>2, <2>4, FS_RemoveElement, FS_EmptySet
  <2>6. copy'[0] # "unborn" /\ pending' = Cardinality(Alive')
    BY <1>1, <2>1, <2>2, <2>3, <2>5 DEF CountersInv
  <2>7. \A j \in Indices : j > fired' => copy'[j] = "unborn"
    BY <2>1, <2>2, <2>3 DEF CountersInv
  <2>8. \A j \in 0..fired : j \in Indices
    BY <1>1, <2>2 DEF CountersInv, Indices
  <2>9. outcome' = "open" => \A j \in 0..fired : copy'[j] \in {"running", "failed"}
    BY <2>1, <2>2, <2>3, <2>8 DEF CountersInv
  <2>10. outcome' = "resolved" => \E j \in 0..fired : copy'[j] = "ok"
    <3> SUFFICES ASSUME outcome' = "resolved" PROVE \E j \in 0..fired : copy'[j] = "ok"
      OBVIOUS
    <3>1. PICK j \in 0..fired : copy[j] = "ok"
      BY <2>1, <2>2 DEF CountersInv
    <3> QED
      BY <2>1, <2>3, <2>8, <3>1
  <2>11. outcome' = "rejected" => fired = copies - 1 /\ \A j \in 0..fired : copy'[j] = "failed"
    <3> SUFFICES ASSUME outcome' = "rejected"
                 PROVE  fired = copies - 1 /\ \A j \in 0..fired : copy'[j] = "failed"
      OBVIOUS
    <3>1. pending' = 0 /\ timersPending = 0 /\ outcome = "open"
      BY <2>1, <2>2
    <3>2. fired = copies - 1
      BY <2>2, <3>1 DEF CountersInv
    <3>3. Alive' = {}
      BY <2>5, <2>6, <3>1
    <3>4. \A j \in 0..fired : copy[j] \in {"running", "failed"}
      BY <2>2, <3>1 DEF CountersInv
    <3>5. \A j \in 0..fired : copy'[j] \in {"running", "failed"}
      BY <2>3, <2>8, <3>4
    <3> QED
      BY <2>8, <3>2, <3>3, <3>5 DEF Alive
  <2>12. outcome' \in {"open", "resolved", "rejected"}
    BY <2>1 DEF CountersInv
  <2> QED
    BY <2>1, <2>2, <2>3, <2>6, <2>7, <2>9, <2>10, <2>11, <2>12 DEF CountersInv
<1>6. CASE HedgeTimer
  <2>1. /\ copy[0] # "unborn" /\ fired < copies - 1 /\ fired' = fired + 1
        /\ timersPending' = timersPending - 1 /\ copies' = copies
        /\ IF outcome = "open"
           THEN /\ copy' = [copy EXCEPT ![fired + 1] = "running"] /\ pending' = pending + 1
                /\ outcome' = outcome
           ELSE copy' = copy /\ pending' = pending /\ outcome' = outcome
    BY <1>6 DEF HedgeTimer, TryReject
  <2>2. /\ fired \in Nat /\ copies \in Nat /\ fired + 1 \in Indices /\ copies <= MaxCopies
        /\ copy[fired + 1] = "unborn" /\ outcome # "rejected"
    BY <1>1, <2>1 DEF CountersInv, Indices
  <2>3. CASE outcome = "open"
    <3>1. /\ copy' \in [Indices -> {"unborn", "running", "ok", "failed"}] /\ copy'[fired + 1] = "running"
          /\ \A j \in Indices \ {fired + 1} : copy'[j] = copy[j]
      BY <2>1, <2>2, <2>3 DEF CountersInv
    <3>2. Alive' = Alive \cup {fired + 1} /\ fired + 1 \notin Alive
      BY <2>2, <3>1 DEF Alive
    <3>3. Cardinality(Alive') = Cardinality(Alive) + 1
      BY <1>1, <3>2, FS_AddElement
    <3>4. \A j \in Indices : j > fired' => copy'[j] = "unborn"
      BY <2>1, <2>2, <3>1 DEF CountersInv, Indices
    <3>5. copy'[0] # "unborn"
      BY <1>1, <2>1, <2>2, <3>1
    <3>6. \A j \in 0..fired + 1 : copy'[j] \in {"running", "failed"}
      <4>1. \A j \in 0..fired : copy[j] \in {"running", "failed"} /\ j \in Indices /\ j # fired + 1
        <5>1. \A j \in 0..fired : copy[j] \in {"running", "failed"}
          BY <2>1, <2>3 DEF CountersInv
        <5>2. \A j \in 0..fired : j \in Indices /\ j # fired + 1
          BY <1>1, <2>1, <2>2 DEF Indices
        <5> QED
          BY <5>1, <5>2
      <4>2. \A j \in 0..fired + 1 : j \in 0..fired \/ j = fired + 1
        BY <2>2
      <4> QED
        BY <3>1, <4>1, <4>2
    <3> QED
      BY <2>1, <2>2, <2>3, <3>1, <3>3, <3>4, <3>5, <3>6 DEF CountersInv
  <2>4. CASE outcome = "resolved"
    <3>1. copy' = copy /\ pending' = pending /\ outcome' = outcome /\ Alive' = Alive
      BY <2>1, <2>4 DEF Alive
    <3>2. \E i \in 0..fired + 1 : copy'[i] = "ok"
      BY <2>1, <2>2, <2>4, <3>1 DEF CountersInv
    <3>3. \A j \in Indices : j > fired' => copy'[j] = "unborn"
      BY <2>1, <2>2, <3>1 DEF CountersInv, Indices
    <3>4. timersPending' = copies - 1 - (fired + 1) /\ fired + 1 <= copies - 1
      BY <2>1, <2>2 DEF CountersInv
    <3> QED
      BY <2>1, <2>2, <2>4, <3>1, <3>2, <3>3, <3>4 DEF CountersInv
  <2> QED
    BY <2>2, <2>3, <2>4 DEF CountersInv
<1>7. CASE UNCHANGED hedgeVars
  BY <1>7 DEF hedgeVars, CountersInv, Alive
<1> QED
  BY <1>2, <1>4, <1>5, <1>6, <1>7 DEF HedgeNext, CopySettles, Indices

\* Nothing has been launched at first.
LEMMA CountersInit == HedgeInit => CountersInv
<1> SUFFICES ASSUME HedgeInit PROVE CountersInv
  OBVIOUS
<1>1. copy = [i \in Indices |-> "unborn"] /\ 0 \in Indices
  BY HedgeAssumption DEF HedgeInit, Indices
<1>2. Alive = {}
  BY <1>1 DEF Alive
<1> QED
  BY <1>1, <1>2, FS_EmptySet DEF HedgeInit, CountersInv

\* A hedged call is refused only after every copy was launched and failed, for
\* any number of copies and any order of timers and answers.
THEOREM RefusedWhenAllFailed == HedgeSpec => []RefusedLast
<1>1. CountersInv => RefusedLast
  <2> SUFFICES ASSUME CountersInv PROVE RefusedLast
    OBVIOUS
  <2>1. CASE copy[0] = "unborn"
    <3>1. fired = 0 /\ outcome = "open"
      BY <2>1 DEF CountersInv
    <3> QED
      BY <2>1, <3>1 DEF RefusedLast
  <2>2. CASE copy[0] # "unborn"
    BY <2>2 DEF CountersInv, RefusedLast
  <2> QED
    BY <2>1, <2>2
<1> QED
  BY <1>1, CountersInit, CountersStep, PTL DEF HedgeSpec

\* The counters are small numbers; none runs before the first call.
HedgeRange == CountersInv /\ timersPending \in -1..MaxCopies - 1

LEMMA HedgeRangeStep == HedgeRange /\ [HedgeNext]_hedgeVars => HedgeRange'
<1> SUFFICES ASSUME HedgeRange, [HedgeNext]_hedgeVars PROVE timersPending' \in -1..MaxCopies - 1
  BY CountersStep DEF HedgeRange
<1>1. copies \in 0..MaxCopies /\ fired \in Nat /\ timersPending \in -1..MaxCopies - 1
  BY DEF HedgeRange, CountersInv
<1>2. CASE Hedged
  BY <1>1, <1>2, HedgeAssumption DEF Hedged
<1>3. CASE HedgeTimer
  <2>1. copy[0] # "unborn" /\ fired < copies - 1 /\ timersPending' = timersPending - 1
    BY <1>3 DEF HedgeTimer
  <2>2. timersPending = copies - 1 - fired
    BY <2>1 DEF HedgeRange, CountersInv
  <2> QED
    BY <1>1, <2>1, <2>2, HedgeAssumption
<1>4. CASE timersPending' = timersPending
  BY <1>1, <1>4
<1>5. Hedged \/ HedgeTimer \/ timersPending' = timersPending
  BY DEF HedgeNext, CopySettles, CopyFulfills, CopyRejects, hedgeVars
<1> QED
  BY <1>2, <1>3, <1>4, <1>5

LEMMA HedgeRangeType == HedgeRange => HedgeTypeOK
<1> SUFFICES ASSUME HedgeRange PROVE HedgeTypeOK
  OBVIOUS
<1>1. copies \in 0..MaxCopies /\ fired \in Nat
  BY DEF HedgeRange, CountersInv
<1>2. fired \in 0..MaxCopies - 1
  BY <1>1, HedgeAssumption DEF HedgeRange, CountersInv
<1>3. pending \in 0..MaxCopies
  <2>1. IsFiniteSet(Indices) /\ Cardinality(Indices) = MaxCopies /\ Alive \subseteq Indices
    BY HedgeAssumption, FS_Interval DEF Indices, Alive
  <2>2. Cardinality(Alive) \in Nat /\ Cardinality(Alive) <= MaxCopies
    BY <2>1, FS_Subset, FS_CardinalityType
  <2> QED
    BY <2>2, HedgeAssumption DEF HedgeRange, CountersInv
<1> QED
  BY <1>1, <1>2, <1>3 DEF HedgeRange, CountersInv, HedgeTypeOK, Indices

(***************************************************************************)
(* HotReload: the ranges that ReadInv leaves out.                          *)
(***************************************************************************)
LEMMA ConfigTypeStep == ConfigTypeOK /\ [ConfigNext]_configVars => ConfigTypeOK'
<1> SUFFICES ASSUME ConfigTypeOK, [ConfigNext]_configVars PROVE ConfigTypeOK'
  OBVIOUS
<1> USE ConfigAssumption DEF ConfigTypeOK, Versions, Unread
<1>1. CASE SourcesChange
  BY <1>1 DEF SourcesChange
<1>2. ASSUME NEW c \in Loads, NEW way \in {"start", "reload"}, Begin(c, way) PROVE ConfigTypeOK'
  BY <1>2 DEF Begin
<1>3. ASSUME NEW c \in Loads, ReadSources(c) PROVE ConfigTypeOK'
  BY <1>3 DEF ReadSources
<1>4. ASSUME NEW c \in Loads, LoadFails(c) PROVE ConfigTypeOK'
  BY <1>4 DEF LoadFails, Over
<1>5. ASSUME NEW c \in Loads, Store(c) PROVE ConfigTypeOK'
  <2>1. /\ UNCHANGED <<sources, listeners>> /\ current' = read[c]
        /\ call' = [call EXCEPT ![c] = "idle"] /\ read' = [read EXCEPT ![c] = Unread]
        /\ overtaken' \subseteq Loads
    BY <1>5 DEF Store, Over
  <2>2. PICK heard \in SUBSET listeners :
           /\ told' = [l \in Listeners |-> IF call[c] = "reload" /\ l \in heard THEN read[c] ELSE told[l]]
           /\ quiet' = (call[c] = "start" \/ heard # listeners)
    BY <1>5 DEF Store
  <2>3. told' \in [Listeners -> Versions] /\ quiet' \in BOOLEAN
    BY <2>2
  <2> QED
    BY <2>1, <2>3
<1>6. ASSUME NEW l \in Listeners, OnChange(l) \/ Unsubscribe(l) PROVE ConfigTypeOK'
  BY <1>6 DEF OnChange, Unsubscribe
<1>7. CASE UNCHANGED configVars
  BY <1>7 DEF configVars
<1> QED
  BY <1>1, <1>2, <1>3, <1>4, <1>5, <1>6, <1>7 DEF ConfigNext

(***************************************************************************)
(* DataLoader: a call that waits is queued, or the batch function has it,  *)
(* or its batch has ended without an answer; and the flush of a queue that *)
(* is not empty is under way.                                              *)
(***************************************************************************)
LoadKept ==
    /\ \A c \in LoadCalls : load[c] = "waiting" => c \in queue \cup (UNION batches) \cup dropped
    /\ queue # {} => scheduled
    /\ scheduled <=> turn
LoaderInv == LoaderTypeOK /\ LoadKept

LEMMA LoaderStarts == LoaderInit => LoaderInv
BY DEF LoaderInit, LoaderInv, LoaderTypeOK, LoadKept

LEMMA LoaderStep == LoaderInv /\ [LoaderNext]_loaderVars => LoaderInv'
<1> SUFFICES ASSUME LoaderInv, [LoaderNext]_loaderVars PROVE LoaderInv'
  OBVIOUS
<1> USE DEF LoaderInv, LoaderTypeOK, LoadKept
<1>1. ASSUME NEW c \in LoadCalls, LoadKey(c) PROVE LoaderInv'
  <2>1. UNCHANGED <<keyOf, loaded, batches, dropped>>
    BY <1>1 DEF LoadKey
  <2>2. CASE keyOf[c] \in loaded
    <3>1. load' = [load EXCEPT ![c] = "value"] /\ UNCHANGED <<queue, scheduled, turn>>
      BY <1>1, <2>2 DEF LoadKey
    <3>2. \A d \in LoadCalls : load'[d] = "waiting" => load[d] = "waiting"
      BY <3>1
    <3> QED
      BY <2>1, <3>1, <3>2
  <2>3. CASE keyOf[c] \notin loaded
    <3>1. load' = [load EXCEPT ![c] = "waiting"] /\ queue' = queue \cup {c} /\ scheduled' = TRUE
      BY <1>1, <2>3 DEF LoadKey
    <3>2. turn' = (turn \/ ~scheduled)
      BY <1>1, <2>3, Zenon DEF LoadKey
    <3>3. turn' = TRUE
      BY <3>2
    <3>4. \A d \in LoadCalls : load'[d] = "waiting" => d = c \/ load[d] = "waiting"
      BY <3>1
    <3> QED
      BY <2>1, <3>1, <3>3, <3>4
  <2> QED
    BY <2>2, <2>3
<1>2. CASE Flush
  <2>1. \A c \in queue \cup UNION batches : c \in UNION batches'
    BY <1>2 DEF Flush
  <2> QED
    BY <1>2, <2>1 DEF Flush
<1>3. ASSUME NEW b \in batches, BatchFails(b) PROVE LoaderInv'
  <2>1. /\ batches' = batches \ {b} /\ dropped' = dropped \cup b
        /\ UNCHANGED <<keyOf, load, loaded, queue, scheduled, turn>>
    BY <1>3 DEF BatchFails
  <2>2. ASSUME NEW a \in batches, NEW c \in a PROVE c \in (UNION batches') \cup dropped'
    <3>1. CASE a = b
      BY <2>1, <2>2, <3>1
    <3>2. CASE a # b
      <4>1. a \in batches'
        BY <2>1, <2>2, <3>2
      <4> QED
        BY <2>2, <4>1
    <3> QED
      BY <3>1, <3>2
  <2> QED
    BY <2>1, <2>2
<1>4. ASSUME NEW b \in batches, BatchAnswers(b) PROVE LoaderInv'
  <2>1. /\ batches' = batches \ {b} /\ UNCHANGED <<keyOf, queue, scheduled, turn>>
    BY <1>4 DEF BatchAnswers
  <2>2. PICK good \in SUBSET b, bad \in SUBSET b :
          /\ load' = [c \in LoadCalls |-> IF c \in good THEN "value"
                                          ELSE IF c \in bad THEN "error" ELSE load[c]]
          /\ loaded' = loaded \cup {keyOf[c] : c \in good}
          /\ dropped' = dropped \cup (b \ (good \cup bad))
    BY <1>4 DEF BatchAnswers
  <2>3. ASSUME NEW c \in LoadCalls, load'[c] = "waiting"
        PROVE  c \in queue \cup (UNION batches') \cup dropped'
    <3>1. load[c] = "waiting" /\ c \notin good \cup bad
      BY <2>2, <2>3
    <3>2. c \in b => c \in dropped'
      BY <2>2, <3>1
    <3>3. CASE c \in queue \cup dropped
      BY <2>1, <2>2, <3>3
    <3>4. ASSUME NEW a \in batches, c \in a, a # b PROVE c \in UNION batches'
      <4>1. a \in batches'
        BY <2>1, <3>4
      <4> QED
        BY <3>4, <4>1
    <3> QED
      BY <2>3, <3>1, <3>2, <3>3, <3>4
  <2>4. LoaderTypeOK'
    BY <2>1, <2>2
  <2> QED
    BY <2>1, <2>3, <2>4
<1>5. CASE ClearCache
  BY <1>5 DEF ClearCache
<1>6. ASSUME NEW k \in LoadKeys, Prime(k) PROVE LoaderInv'
  BY <1>6 DEF Prime
<1>7. CASE UNCHANGED loaderVars
  BY <1>7 DEF loaderVars
<1> QED
  BY <1>1, <1>2, <1>3, <1>4, <1>5, <1>6, <1>7 DEF LoaderNext, BatchSettles

(***************************************************************************)
(* MCCaches: whichever part takes the steps, the invariants of all hold.   *)
(***************************************************************************)
CachesInv ==
    /\ ShareInv /\ DeadInv /\ KeyInv /\ HandInv /\ ReadInv /\ ConfigTypeOK /\ LoaderInv
    /\ HedgeRange /\ part \in Parts

LEMMA CachesStart == Init => CachesInv
<1> SUFFICES ASSUME Init PROVE CachesInv
  OBVIOUS
<1>1. CacheInit /\ LockInit /\ SecretInit /\ ConfigInit /\ LoaderInit /\ HedgeInit /\ part \in Parts
  BY DEF Init
<1>2. ReadInv /\ ConfigTypeOK
  BY <1>1, ReadInit
<1>3. HedgeRange
  BY <1>1, CountersInit, HedgeAssumption DEF HedgeInit, HedgeRange
<1> QED
  BY <1>1, <1>2, <1>3, ShareInit, DeadInit, KeyInit, HandInit, LoaderStarts DEF CachesInv

\* A step of the composition is one of each part, or leaves it alone.
StepOfEach ==
    /\ [CacheNext]_cacheVars /\ [LockNext]_lockVars /\ [SecretNext]_secretVars
    /\ [ConfigNext]_configVars /\ [LoaderNext]_loaderVars /\ [HedgeNext]_hedgeVars

LEMMA StepIsOfEach == [Next]_vars => StepOfEach /\ UNCHANGED part
BY Zenon DEF Next, vars, StepOfEach

LEMMA CachesStep == CachesInv /\ [Next]_vars => CachesInv'
<1> SUFFICES ASSUME CachesInv, [Next]_vars PROVE CachesInv'
  OBVIOUS
<1>1. StepOfEach /\ UNCHANGED part
  BY StepIsOfEach
<1>2. ShareInv' /\ DeadInv'
  BY <1>1, ShareStep, DeadStep, Zenon DEF CachesInv, StepOfEach
<1>3. KeyInv' /\ HandInv'
  BY <1>1, KeyStep, HandStep, Zenon DEF CachesInv, StepOfEach
<1>4. ReadInv' /\ ConfigTypeOK'
  BY <1>1, ReadStep, ConfigTypeStep, Zenon DEF CachesInv, StepOfEach
<1>5. LoaderInv' /\ HedgeRange'
  BY <1>1, LoaderStep, HedgeRangeStep, Zenon DEF CachesInv, StepOfEach
<1> QED
  BY <1>1, <1>2, <1>3, <1>4, <1>5, Zenon DEF CachesInv

\* Every variable of the six parts stays in its range.
THEOREM CachesTypeCorrect == Spec => []TypeOK
<1>1. CachesInv => TypeOK
  BY HedgeRangeType, Zenon DEF CachesInv, TypeOK, ShareInv, KeyInv, HandInv, LoaderInv
<1> QED
  BY <1>1, CachesStart, CachesStep, PTL DEF Spec

\* No call of load is forgotten between the flag, the microtask and the batches
\* on their way: what the liveness of load rests on (load and flush, lines 66-85).
THEOREM LoadsAreKept == Spec => []LoadKept
<1>1. CachesInv => LoadKept
  BY DEF CachesInv, LoaderInv
<1> QED
  BY <1>1, CachesStart, CachesStep, PTL DEF Spec

\* MCCaches implements the specifications of its parts, with their fairness.
THEOREM CachesAsSpecified == Spec => CacheSpec /\ LockSpec /\ SecretSpec /\ ConfigSpec /\ HedgeSpec
<1>1. Init => CacheInit /\ LockInit /\ SecretInit /\ ConfigInit /\ HedgeInit
  BY Zenon DEF Init
<1>2. [Next]_vars => /\ [CacheNext]_cacheVars /\ [LockNext]_lockVars /\ [SecretNext]_secretVars
                     /\ [ConfigNext]_configVars /\ [HedgeNext]_hedgeVars
  BY StepIsOfEach DEF StepOfEach
<1> QED
  BY <1>1, <1>2, PTL DEF Spec, CacheSpec, LockSpec, SecretSpec, ConfigSpec, HedgeSpec

\* So what is proved of each part holds of what is model-checked: nothing that
\* was replaced comes back, callers share a computation, one process is inside
\* the lock, and configurations and hedged calls go forward.
THEOREM CachesKeepPromises ==
    Spec => /\ []OverwrittenStaysGone /\ []SingleFlight /\ []OneInside
            /\ []StaleOnlyIfCrossed /\ ReloadsGoForward /\ []RefusedLast /\ []Attending
BY CachesAsSpecified, WritesLast, ComputedOnce, LockExcludes, StaleIsCrossed,
   ConfigGoesForward, RefusedWhenAllFailed, NobodyIsForgotten, PTL
=============================================================================
