---------------------------- MODULE RabbitProofs ----------------------------
(***************************************************************************)
(* RabbitConsumer implements AtLeastOnce, for any number of events,        *)
(* publications, retries, handlers and channels.                           *)
(***************************************************************************)
EXTENDS RabbitConsumer, SequenceTheorems, TLAPS

Job       == [msg : Messages, via : pool \cup {Closed}, raced : BOOLEAN]
TimerPair == Messages \X (pool \cup {Closed})

OpenJobs(jobs) == {s \in Slots : jobs[s] # Idle /\ jobs[s].via # Closed}
Retry(m)   == <<m[1], m[2], m[3] + 1>>
SentIn(f)    == {m[1] : m \in {n \in Messages : n[3] = 0 /\ f[n] # "out"}}

\* What is handled or waits for a timer was sent, and so was its event. The
\* invariants are stated of places f, deliveries and timers, so that they can
\* be used in the middle of a step.
Within(f, jobs, timers) ==
    /\ f \in [Messages -> {"out", "ready", "gone"} \cup pool]
    /\ jobs \in [Slots -> {Idle} \cup Job]
    /\ timers \subseteq TimerPair
    /\ \A s \in Slots : jobs[s] # Idle => f[jobs[s].msg] # "out"
    /\ \A t \in timers : f[t[1]] # "out" /\ t[1][3] < MaxRetries
    /\ \A m \in Messages : f[m] # "out" => m[1] \in SentIn(f)

\* A message is sent again only once it has left the queue.
Ordered(f) == \A m \in Messages : m[3] < MaxRetries /\ f[Retry(m)] # "out" => f[m] = "gone"

\* A handler whose channel is open owns its message.
Owned(f, jobs) ==
    \A s \in OpenJobs(jobs) :
        /\ f[jobs[s].msg] = jobs[s].via
        /\ \A t \in OpenJobs(jobs) : jobs[s].msg = jobs[t].msg => s = t

\* A timer that can still publish is the only one to do so.
Timed(f, timers) ==
    \A t \in timers : t[2] # Closed => f[t[1]] = "gone" /\ f[Retry(t[1])] = "out"

Marks ==
    /\ \A i \in 1..Len(processed) : processed[i] \in served
    /\ served \subseteq Published /\ failed \subseteq Published /\ parked \subseteq Published

\* What has left the queue was handled, passed over or dead-lettered; or a
\* handler has failed with it and there is no queue for dead letters.
Dropped    == IF deadLetter = "queue" THEN {} ELSE failed
Settled(e) == e \in served \/ e \in parked \/ e \in Dropped \/ e \notin Wanted
Kept == OneChannel => \A m \in Messages : at[m] = "gone" => Settled(m[1])

\* Deliveries of one event at a time are marked.
Twins(jobs) ==
    \A s, t \in Slots :
        jobs[s] # Idle /\ jobs[t] # Idle /\ s # t /\ jobs[s].msg[1] = jobs[t].msg[1]
            => jobs[s].raced

\* What RabbitTypeOK says of the other variables.
Rest ==
    /\ pool \in Pools /\ deadLetter \in DeadLetters /\ isRunning \in BOOLEAN
    /\ link \in {"up", "waiting", "down"}
    /\ home \in pool \cup {Closed} /\ subs \subseteq pool
    /\ processed \in Seq(Events) /\ Len(processed) <= Remembered

RabbitInv ==
    /\ Rest
    /\ Within(at, work, armed)
    /\ OneChannel => Ordered(at) /\ Owned(at, work) /\ Timed(at, armed)
    /\ Marks
    /\ Kept
    /\ Twins(work)
    /\ RabbitSecondRun

LiveIn(f, jobs, timers, m) ==
    \/ f[m] \notin {"out", "gone"}
    \/ \E t \in timers : t[1] = m
    \/ \E s \in Slots : jobs[s] # Idle /\ jobs[s].msg = m

\* The same deliveries, but for their channels.
Same(jobs, others) ==
    \A s \in Slots :
        IF jobs[s] = Idle THEN others[s] = Idle
        ELSE /\ others[s] # Idle
             /\ others[s].msg = jobs[s].msg /\ others[s].raced = jobs[s].raced

-----------------------------------------------------------------------------
\* The parts of a message, and the message that retries it.
LEMMA MessageParts ==
    ASSUME NEW m \in Messages
    PROVE  /\ m = <<m[1], m[2], m[3]>> /\ m[1] \in Events /\ m[2] \in 1..Publications
           /\ m[3] \in Nat /\ m[3] <= MaxRetries
           /\ m[3] < MaxRetries => /\ Retry(m) \in Messages /\ Retry(m)[1] = m[1]
                                   /\ Retry(m)[3] = m[3] + 1
BY RabbitAssumption DEF Messages, Retry

LEMMA NotIdle == ASSUME NEW j, j.msg \in Messages PROVE j # Idle
BY DEF Idle, Messages

\* Whether messages are sent for the first time is all that matters here.
LEMMA SentIs ==
    ASSUME NEW f, NEW g,
           \A m \in Messages : m[3] = 0 => (f[m] = "out" <=> g[m] = "out")
    PROVE  SentIn(f) = SentIn(g)
BY DEF SentIn

LEMMA PublishedIs == Published = SentIn(at) /\ Published' = SentIn(at')
BY DEF Published, SentIn

\* The connection is lost in the middle of a step.
LEMMA DisconnectKeeps ==
    ASSUME pool \in Pools, NEW f, NEW jobs, NEW timers,
           Within(f, jobs, timers), OneChannel => Ordered(f),
           Disconnect(f, jobs, timers), UNCHANGED config
    PROVE  /\ Within(at, work, armed)'
           /\ (OneChannel => Ordered(at) /\ Owned(at, work) /\ Timed(at, armed))'
           /\ \A m \in Messages : /\ at'[m] = "out" <=> f[m] = "out"
                                  /\ at'[m] = "gone" <=> f[m] = "gone"
           /\ \A m \in Messages : Live(m)' => LiveIn(f, jobs, timers, m)
           /\ Same(jobs, work')
<1>0. pool' = pool /\ Closed \notin pool /\ "out" \notin pool /\ "ready" \notin pool /\ "gone" \notin pool
  BY RabbitAssumption DEF config
<1> HIDE DEF Idle
<1>1. /\ at' \in [Messages -> {"out", "ready", "gone"} \cup pool]
      /\ \A m \in Messages : at'[m] = IF f[m] \in pool THEN "ready" ELSE f[m]
  BY DEF Disconnect, Requeued, Within
<1>2. \A m \in Messages : /\ at'[m] = "out" <=> f[m] = "out"
                          /\ at'[m] = "gone" <=> f[m] = "gone"
  BY <1>0, <1>1
<1>3. ASSUME NEW s \in Slots
      PROVE  IF jobs[s] = Idle THEN work'[s] = Idle
             ELSE /\ work'[s].msg = jobs[s].msg /\ work'[s] # Idle /\ work'[s] \in Job
                  /\ work'[s].raced = jobs[s].raced /\ work'[s].via = Closed
  <2>1. CASE jobs[s] = Idle
    BY <2>1 DEF Disconnect
  <2>2. CASE jobs[s] # Idle
    <3>1. jobs[s] \in Job
      BY <2>2 DEF Within
    <3>2. work'[s] = [jobs[s] EXCEPT !.via = Closed]
      BY <2>2 DEF Disconnect
    <3>3. work'[s].msg = jobs[s].msg /\ work'[s] \in Job /\ work'[s].raced = jobs[s].raced /\ work'[s].via = Closed
      BY <3>1, <3>2 DEF Job
    <3>4. jobs[s].msg \in Messages
      BY <3>1 DEF Job
    <3>5. work'[s] # Idle
      BY <3>3, <3>4, NotIdle
    <3> QED
      BY <2>2, <3>3, <3>5
  <2> QED
    BY <2>1, <2>2
<1>4. /\ work' \in [Slots -> {Idle} \cup Job']
      /\ OpenJobs(work') = {}
  <2>1. DOMAIN work' = Slots /\ work' = [s \in Slots |-> work'[s]]
    BY DEF Disconnect
  <2>2. Job' = Job
    BY <1>0 DEF Job
  <2>3. \A s \in Slots : work'[s] \in {Idle} \cup Job'
    BY <1>3, <2>2
  <2>4. work' \in [Slots -> {Idle} \cup Job']
    BY <2>1, <2>3
  <2> QED
    BY <1>3, <2>4 DEF OpenJobs
<1>5. /\ armed' \subseteq TimerPair'
      /\ \A t \in armed' : t[2] = Closed /\ \E u \in timers : u[1] = t[1]
  BY <1>0 DEF Disconnect, Within, TimerPair
<1>6. \A s \in Slots : work'[s] # Idle => at'[work'[s].msg] # "out"
  <2>1. \A s \in Slots : jobs[s] # Idle => jobs[s].msg \in Messages /\ f[jobs[s].msg] # "out"
    BY DEF Within, Job
  <2> QED
    BY <1>2, <1>3, <2>1
<1>7. \A t \in armed' : at'[t[1]] # "out" /\ t[1][3] < MaxRetries
  <2>1. \A u \in timers : u[1] \in Messages /\ f[u[1]] # "out" /\ u[1][3] < MaxRetries
    BY DEF Within, TimerPair
  <2> QED
    BY <1>2, <1>5, <2>1
<1>8. SentIn(at') = SentIn(f)
  BY <1>2, SentIs
<1>9. Within(at, work, armed)'
  BY <1>0, <1>1, <1>2, <1>4, <1>5, <1>6, <1>7, <1>8 DEF Within, SentIn
<1>10. (OneChannel => Ordered(at) /\ Owned(at, work) /\ Timed(at, armed))'
  <2>1. OneChannel' = OneChannel
    BY <1>0 DEF OneChannel
  <2>2. Ordered(f) => Ordered(at')
    BY <1>2, MessageParts DEF Ordered
  <2> QED
    BY <1>4, <1>5, <2>1, <2>2 DEF Owned, Timed, Ordered
<1>11. ASSUME NEW m \in Messages, Live(m)'
       PROVE  LiveIn(f, jobs, timers, m)
  BY <1>2, <1>3, <1>5, <1>11 DEF Live, LiveIn, Busy
<1> QED
  BY <1>2, <1>3, <1>9, <1>10, <1>11 DEF Same

\* An ack or a nack: with one channel it is that of the message itself.
LEMMA SettleKeeps ==
    ASSUME pool \in Pools, NEW f, NEW m \in Messages, NEW k \in pool, NEW jobs, NEW timers,
           NEW rejected \in BOOLEAN, NEW kept,
           Within(f, jobs, timers), f[m] # "out",
           OneChannel => /\ Ordered(f) /\ Owned(f, jobs) /\ f[m] = k
                         /\ \A s \in OpenJobs(jobs) : jobs[s].msg # m
                         /\ \A t \in timers : t[2] # Closed =>
                               (t[1] = m \/ f[t[1]] = "gone") /\ f[Retry(t[1])] = "out",
           Settle(f, m, k, jobs, timers, rejected, kept), UNCHANGED config
    PROVE  /\ Within(at, work, armed)'
           /\ (OneChannel => Ordered(at) /\ Owned(at, work) /\ Timed(at, armed))'
           /\ \A n \in Messages : at'[n] = "out" <=> f[n] = "out"
           /\ \A n \in Messages : Live(n)' => LiveIn(f, jobs, timers, n)
           /\ Same(jobs, work')
           /\ kept \subseteq parked' /\ parked' \subseteq kept \cup SentIn(f)
           /\ OneChannel =>
                 /\ \A n \in Messages : at'[n] = "gone" => f[n] = "gone" \/ n = m
                 /\ rejected /\ deadLetter = "queue" => m[1] \in parked'
           /\ UNCHANGED session \/ (link' = "waiting" /\ home' = Closed /\ subs' = {})
<1>0. pool' = pool /\ Closed \notin pool /\ "out" \notin pool /\ "ready" \notin pool /\ "gone" \notin pool
  BY RabbitAssumption DEF config
<1> HIDE DEF Idle
<1>1. CASE f[m] # k /\ Disconnect(f, jobs, timers) /\ parked' = kept
  <2>1. ~OneChannel
    BY <1>1
  <2>2. OneChannel' = OneChannel
    BY <1>0 DEF OneChannel
  <2>3. link' = "waiting" /\ home' = Closed /\ subs' = {}
    BY <1>1 DEF Disconnect
  <2>4. /\ Within(at, work, armed)' /\ Same(jobs, work')
        /\ \A n \in Messages : at'[n] = "out" <=> f[n] = "out"
        /\ \A n \in Messages : Live(n)' => LiveIn(f, jobs, timers, n)
    BY <1>1, <2>1, DisconnectKeeps
  <2> QED
    BY <1>1, <2>1, <2>2, <2>3, <2>4
<1> DEFINE Good ==
             /\ Within(at, work, armed)'
             /\ (OneChannel => Ordered(at) /\ Owned(at, work) /\ Timed(at, armed))'
             /\ \A n \in Messages : at'[n] = "out" <=> f[n] = "out"
             /\ \A n \in Messages : Live(n)' => LiveIn(f, jobs, timers, n)
             /\ Same(jobs, work')
             /\ kept \subseteq parked' /\ parked' \subseteq kept \cup SentIn(f)
             /\ OneChannel =>
                   /\ \A n \in Messages : at'[n] = "gone" => f[n] = "gone" \/ n = m
                   /\ rejected /\ deadLetter = "queue" => m[1] \in parked'
<1>2. ASSUME NEW d \in Messages,
             IF f[m] = k THEN d = m ELSE f[d] = k,
             at' = [f EXCEPT ![d] = "gone"],
             parked' = IF rejected /\ deadLetter = "queue" THEN kept \cup {d[1]} ELSE kept,
             work' = jobs, armed' = timers, UNCHANGED session
      PROVE  Good
  <2>1. f[d] # "out"
    BY <1>0, <1>2
  <2>2. at' \in [Messages -> {"out", "ready", "gone"} \cup pool]
    BY <1>2 DEF Within
  <2>3. \A n \in Messages : at'[n] = IF n = d THEN "gone" ELSE f[n]
    BY <1>2 DEF Within
  <2>4. \A n \in Messages : at'[n] = "out" <=> f[n] = "out"
    BY <2>1, <2>3
  <2>5. SentIn(at') = SentIn(f)
    BY <2>4, SentIs
  <2>6. Job' = Job /\ TimerPair' = TimerPair
    BY <1>0 DEF Job, TimerPair
  <2>7. \A s \in Slots : work'[s] # Idle => at'[work'[s].msg] # "out"
    <3>1. \A s \in Slots : jobs[s] # Idle => jobs[s].msg \in Messages /\ f[jobs[s].msg] # "out"
      BY DEF Within, Job
    <3> QED
      BY <1>2, <2>4, <3>1
  <2>8. \A t \in armed' : t[1] \in Messages /\ at'[t[1]] # "out" /\ t[1][3] < MaxRetries
    <3>1. \A u \in timers : u[1] \in Messages /\ f[u[1]] # "out" /\ u[1][3] < MaxRetries
      BY DEF Within, TimerPair
    <3> QED
      BY <1>2, <2>4, <3>1
  <2>9. Within(at, work, armed)'
    BY <1>0, <1>2, <2>2, <2>4, <2>5, <2>6, <2>7, <2>8 DEF Within
  <2>10. ASSUME OneChannel
         PROVE  (Ordered(at) /\ Owned(at, work) /\ Timed(at, armed))'
    <3>1. d = m /\ f[m] = k
      BY <1>2, <2>10
    <3>2. Ordered(at')
      BY <2>3, <2>4, <2>10, MessageParts DEF Ordered
    <3>3. OpenJobs(work') = OpenJobs(jobs)
      BY <1>2 DEF OpenJobs
    <3>4. Owned(at', work')
      <4>1. \A s \in OpenJobs(jobs) : jobs[s].msg \in Messages /\ jobs[s].msg # m
        BY <2>10 DEF Within, Job, OpenJobs
      <4> QED
        BY <1>2, <2>3, <2>10, <3>1, <3>3, <4>1 DEF Owned
    <3>5. Timed(at', armed')
      <4>1. ASSUME NEW t \in armed', t[2] # Closed
            PROVE  at'[t[1]] = "gone" /\ at'[Retry(t[1])] = "out"
        <5>1. t \in timers /\ t[1] \in Messages /\ t[1][3] < MaxRetries
          BY <1>2, <2>8, <4>1
        <5>2. Retry(t[1]) \in Messages
          BY <5>1, MessageParts
        <5>3. (t[1] = m \/ f[t[1]] = "gone") /\ f[Retry(t[1])] = "out"
          BY <2>10, <4>1, <5>1
        <5> QED
          BY <2>3, <2>4, <3>1, <5>1, <5>2, <5>3
      <4> QED
        BY <4>1 DEF Timed
    <3> QED
      BY <3>2, <3>4, <3>5
  <2>11. OneChannel' = OneChannel
    BY <1>0 DEF OneChannel
  <2>12. \A n \in Messages : Live(n)' => LiveIn(f, jobs, timers, n)
    BY <1>2, <2>3 DEF Live, LiveIn, Busy
  <2>13. Same(jobs, work')
    BY <1>2 DEF Same
  <2>14. d[1] \in SentIn(f)
    BY <2>1 DEF Within
  <2>15. OneChannel =>
            /\ \A n \in Messages : at'[n] = "gone" => f[n] = "gone" \/ n = m
            /\ rejected /\ deadLetter = "queue" => m[1] \in parked'
    BY <1>2, <2>3
  <2>16. kept \subseteq parked' /\ parked' \subseteq kept \cup SentIn(f)
    BY <1>2, <2>14
  <2> QED
    BY <2>4, <2>9, <2>10, <2>11, <2>12, <2>13, <2>15, <2>16
<1>3. CASE \E d \in Messages :
             /\ IF f[m] = k THEN d = m ELSE f[d] = k
             /\ at' = [f EXCEPT ![d] = "gone"]
             /\ parked' = IF rejected /\ deadLetter = "queue" THEN kept \cup {d[1]} ELSE kept
             /\ work' = jobs /\ armed' = timers
             /\ UNCHANGED session
  <2> HIDE DEF Good
  <2>1. Good /\ UNCHANGED session
    BY <1>2, <1>3, Zenon
  <2> USE DEF Good
  <2> QED
    BY <2>1
<1> QED
  BY <1>1, <1>3, Zenon DEF Settle

-----------------------------------------------------------------------------
\* The invariant gives every variable its range.
LEMMA InvType == RabbitInv => RabbitTypeOK
<1> SUFFICES ASSUME RabbitInv PROVE RabbitTypeOK
  OBVIOUS
<1>1. Published \subseteq Events
  BY MessageParts DEF Published
<1>2. served \subseteq Events /\ failed \subseteq Events /\ parked \subseteq Events
  BY <1>1 DEF RabbitInv, Marks
<1>3. /\ at \in [Messages -> {"out", "ready", "gone"} \cup pool]
      /\ work \in [Slots -> {Idle} \cup Job] /\ armed \subseteq TimerPair
  BY DEF RabbitInv, Within
<1> QED
  BY <1>2, <1>3 DEF RabbitInv, Rest, RabbitTypeOK, Job, TimerPair

LEMMA TwinsKept ==
    ASSUME NEW jobs, NEW others, Twins(jobs), Same(jobs, others)
    PROVE  Twins(others)
BY DEF Twins, Same

\* What is remembered is the event, or was remembered before.
LEMMA RememberStep ==
    ASSUME NEW seq \in Seq(Events), Len(seq) <= Remembered, NEW e \in Events
    PROVE  /\ Remember(seq, e) \in Seq(Events) /\ Len(Remember(seq, e)) <= Remembered
           /\ \A i \in 1..Len(Remember(seq, e)) :
                 Remember(seq, e)[i] = e \/ \E j \in 1..Len(seq) : Remember(seq, e)[i] = seq[j]
<1> DEFINE kept == IF Len(seq) = Remembered THEN Tail(seq) ELSE seq
<1>1. Len(seq) \in Nat /\ Remembered \in Nat \ {0}
  BY RabbitAssumption
<1>2. CASE Contains(seq, e)
  BY <1>1, <1>2 DEF Remember
<1>3. CASE ~Contains(seq, e)
  <2>1. Remember(seq, e) = Append(kept, e)
    BY <1>3 DEF Remember
  <2>2. kept \in Seq(Events) /\ Len(kept) \in Nat /\ Len(kept) < Remembered
        /\ \A i \in 1..Len(kept) : \E j \in 1..Len(seq) : kept[i] = seq[j]
    <3>1. CASE Len(seq) = Remembered
      <4>1. seq # <<>>
        BY <1>1, <3>1, EmptySeq
      <4>2. /\ kept \in Seq(Events) /\ Len(kept) = Len(seq) - 1
            /\ \A i \in 1..Len(kept) : kept[i] = seq[i + 1]
        BY <3>1, <4>1, HeadTailProperties
      <4>3. \A i \in 1..Len(kept) : i + 1 \in 1..Len(seq)
        BY <1>1, <4>2
      <4> QED
        BY <1>1, <3>1, <4>2, <4>3
    <3>2. CASE Len(seq) # Remembered
      BY <1>1, <3>2
    <3> QED
      BY <3>1, <3>2
  <2> HIDE DEF kept
  <2>3. /\ Append(kept, e) \in Seq(Events) /\ Len(Append(kept, e)) = Len(kept) + 1
        /\ Append(kept, e)[Len(kept) + 1] = e
        /\ \A i \in 1..Len(kept) : Append(kept, e)[i] = kept[i]
    BY <2>2, AppendProperties
  <2>4. ASSUME NEW i \in 1..Len(Append(kept, e))
        PROVE  Append(kept, e)[i] = e \/ \E j \in 1..Len(seq) : Append(kept, e)[i] = seq[j]
    <3>1. i \in 1..Len(kept) \/ i = Len(kept) + 1
      BY <2>2, <2>3
    <3> QED
      BY <2>2, <2>3, <3>1
  <2>5. Len(Append(kept, e)) <= Remembered
    BY <1>1, <2>2, <2>3
  <2> QED
    BY <2>1, <2>3, <2>4, <2>5
<1> QED
  BY <1>2, <1>3

\* What every step does but a publication: nothing is published, and nothing
\* is forgotten without being settled, as it stays in its place.
GoesOn ==
    /\ RabbitInv' /\ UNCHANGED config
    /\ Published' = Published
    /\ served \subseteq served' /\ failed \subseteq failed' /\ parked \subseteq parked'
    /\ \A m \in Messages : Live(m)' => \E n \in Messages : Live(n) /\ n[1] = m[1]

\* Such a step is one the promise allows.
LEMMA GoesOnWorks ==
    ASSUME RabbitInv, GoesOn
    PROVE  Promise!Work
<1>1. Published' = Published /\ served' \cup (Published' \ Wanted) \subseteq Published
      /\ parked' \subseteq Published /\ failed' \subseteq Published
  BY DEF GoesOn, RabbitInv, Marks
<1>2. served \cup (Published \ Wanted) \subseteq served' \cup (Published' \ Wanted)
  BY <1>1 DEF GoesOn
<1>3. Pending' \subseteq Pending
  BY DEF Pending, GoesOn
<1>4. (IF OneChannel THEN Events ELSE {})' = IF OneChannel THEN Events ELSE {}
  BY DEF GoesOn, config, OneChannel
<1>5. ASSUME OneChannel, NEW e \in Pending, e \notin Pending'
      PROVE  e \in served' \cup (Published' \ Wanted) \cup parked' \cup Dropped'
  <2>1. PICK m \in Messages : Live(m) /\ m[1] = e
    BY <1>5 DEF Pending
  <2>2. at[m] # "out"
    BY <2>1 DEF Live, Busy, RabbitInv, Within
  <2>3. e \in Published'
    BY <1>1, <2>1, <2>2, PublishedIs DEF RabbitInv, Within
  <2>4. PICK n \in Messages : n[1] = e /\ at'[n] # "out"
    BY <2>3 DEF Published
  <2>5. ~Live(n)'
    BY <1>5, <2>4 DEF Pending
  <2>6. at'[n] = "gone"
    BY <2>4, <2>5 DEF Live
  <2>7. Settled(e)'
    BY <1>4, <1>5, <2>4, <2>6 DEF GoesOn, RabbitInv, Kept, config, OneChannel
  <2> QED
    BY <2>3, <2>7 DEF Settled
<1>6. Dropped \subseteq Dropped' /\ Dropped' \subseteq Published
  BY <1>1 DEF Dropped, GoesOn, config
<1> QED
  BY <1>1, <1>2, <1>3, <1>4, <1>5, <1>6 DEF Promise!Work, Dropped, GoesOn

-----------------------------------------------------------------------------
\* What is published first is pending, and the rest stays as it is.
LEMMA PublishKeeps ==
    ASSUME RabbitInv, NEW e \in Events, NEW n \in 1..Publications, PublishTo(e, n)
    PROVE  RabbitInv' /\ Promise!Publish(e)
<1> DEFINE new == <<e, n, 0>>
<1>0. UNCHANGED <<pool, deadLetter, link, home, subs, isRunning, work, armed, processed, served, failed, parked>>
  BY DEF PublishTo, config, session
<1>1. new \in Messages /\ new[1] = e /\ new[3] = 0
  BY RabbitAssumption DEF Messages
<1> HIDE DEF new
<1>2. at[new] = "out"
  BY DEF PublishTo, new
<1>3. \A m \in Messages : at'[m] = IF m = new THEN "ready" ELSE at[m]
  BY DEF PublishTo, new, RabbitInv, Within
<1>4. SentIn(at') = SentIn(at) \cup {e}
  BY <1>1, <1>3 DEF SentIn
<1>5. Within(at, work, armed)'
  <2>1. at' \in [Messages -> {"out", "ready", "gone"} \cup pool]
    BY <1>1 DEF PublishTo, new, RabbitInv, Within
  <2>2. \A m \in Messages : at'[m] # "out" => m[1] \in SentIn(at')
    BY <1>1, <1>3, <1>4 DEF RabbitInv, Within
  <2>3. \A t \in armed : t[1] \in Messages /\ at'[t[1]] # "out" /\ t[1][3] < MaxRetries
    BY <1>3 DEF RabbitInv, Within, TimerPair
  <2>4. \A s \in Slots : work[s] # Idle => at'[work[s].msg] # "out"
    <3>1. \A s \in Slots : work[s] # Idle => work[s].msg \in Messages
      BY DEF RabbitInv, Within, Job
    <3> QED
      BY <1>3, <3>1 DEF RabbitInv, Within
  <2> QED
    BY <1>0, <2>1, <2>2, <2>3, <2>4 DEF RabbitInv, Within, Job, TimerPair
<1>6. ASSUME OneChannel PROVE (Ordered(at) /\ Owned(at, work) /\ Timed(at, armed))'
  <2>1. Ordered(at) /\ Owned(at, work) /\ Timed(at, armed)
    BY <1>6 DEF RabbitInv
  <2>2. \A m \in Messages : m[3] < MaxRetries => Retry(m) # new /\ Retry(m) \in Messages
    BY <1>1, MessageParts
  <2>3. Ordered(at')
    BY <1>2, <1>3, <2>1, <2>2 DEF Ordered
  <2>4. \A s \in OpenJobs(work) : work[s].msg \in Messages /\ work[s].msg # new
    BY <1>2 DEF RabbitInv, Within, OpenJobs, Job
  <2>5. Owned(at', work')
    BY <1>0, <1>3, <2>1, <2>4 DEF Owned, OpenJobs
  <2>6. \A t \in armed : t[1] \in Messages /\ t[1][3] < MaxRetries /\ at[t[1]] # "out"
    BY DEF RabbitInv, Within, TimerPair
  <2>7. Timed(at', armed')
    BY <1>0, <1>2, <1>3, <2>1, <2>2, <2>6 DEF Timed
  <2> QED
    BY <2>3, <2>5, <2>7
<1>7. OneChannel' = OneChannel
  BY <1>0 DEF OneChannel
<1>8. Kept'
  BY <1>0, <1>3, <1>7 DEF RabbitInv, Kept, Settled, Dropped
<1>9. Published' = Published \cup {e}
  BY <1>4, PublishedIs
<1>10. Marks' /\ Rest' /\ Twins(work)' /\ RabbitSecondRun'
  BY <1>0, <1>9 DEF RabbitInv, Marks, Rest, Twins, RabbitSecondRun, Busy, EventIn, Contains
<1>11. Pending' = Pending \cup {e}
  <2>1. \A m \in Messages : Live(m)' <=> Live(m) \/ m = new
    BY <1>0, <1>1, <1>2, <1>3 DEF Live, Busy
  <2> QED
    BY <1>1, <2>1 DEF Pending
<1>12. Promise!Publish(e)
  <2>1. (IF OneChannel THEN Events ELSE {})' = IF OneChannel THEN Events ELSE {}
    BY <1>0, <1>7
  <2>2. (served \cup (Published \ Wanted))' \in
           {served \cup (Published \ Wanted), served \cup (Published \ Wanted) \cup {e}}
    BY <1>0, <1>9
  <2> QED
    BY <1>0, <1>9, <1>11, <2>1, <2>2 DEF Promise!Publish
<1> QED
  BY <1>5, <1>6, <1>7, <1>8, <1>10, <1>12 DEF RabbitInv

\* A lost connection puts what was delivered back into the queue.
LEMMA LostKeeps == ASSUME RabbitInv, ConnectionLost PROVE GoesOn
<1>1. UNCHANGED <<pool, deadLetter, isRunning, processed, served, failed, parked>> /\ Disconnect(at, work, armed)
  BY DEF ConnectionLost, config
<1>2. pool \in Pools /\ UNCHANGED config /\ OneChannel' = OneChannel
  BY <1>1 DEF RabbitInv, Rest, config, OneChannel
<1>3. /\ Within(at, work, armed)'
      /\ (OneChannel => Ordered(at) /\ Owned(at, work) /\ Timed(at, armed))'
      /\ \A m \in Messages : /\ at'[m] = "out" <=> at[m] = "out"
                             /\ at'[m] = "gone" <=> at[m] = "gone"
      /\ \A m \in Messages : Live(m)' => LiveIn(at, work, armed, m)
      /\ Same(work, work')
  BY <1>1, <1>2, DisconnectKeeps DEF RabbitInv
<1>4. link' = "waiting" /\ home' = Closed /\ subs' = {}
  BY <1>1 DEF Disconnect
<1>5. Rest'
  BY <1>1, <1>4 DEF RabbitInv, Rest
<1>6. Published' = Published
  BY <1>3, PublishedIs, SentIs
<1>7. Marks' /\ Kept'
  BY <1>1, <1>2, <1>3, <1>6 DEF RabbitInv, Marks, Kept, Settled, Dropped
<1>8. Twins(work)'
  BY <1>3, TwinsKept DEF RabbitInv
<1>9. RabbitSecondRun'
  BY <1>1, <1>3 DEF RabbitInv, RabbitSecondRun, Busy, EventIn, Same, Contains
<1>10. \A m \in Messages : LiveIn(at, work, armed, m) => Live(m)
  BY DEF LiveIn, Live, Busy
<1> QED
  BY <1>1, <1>2, <1>3, <1>5, <1>6, <1>7, <1>8, <1>9, <1>10 DEF GoesOn, RabbitInv

\* So does the end of the process, which also ends handlers and timers.
LEMMA RestartKeeps == ASSUME RabbitInv, Restarted PROVE GoesOn
<1>1. /\ UNCHANGED <<pool, deadLetter, served, failed, parked>>
      /\ at' = Requeued(at) /\ work' = [s \in Slots |-> Idle] /\ armed' = {} /\ processed' = <<>>
      /\ link' = "up" /\ home' = Closed /\ subs' = {} /\ isRunning' = FALSE
  BY DEF Restarted, config
<1>2. pool \in Pools /\ UNCHANGED config /\ OneChannel' = OneChannel
  BY <1>1 DEF RabbitInv, Rest, config, OneChannel
<1>3. "out" \notin pool /\ "ready" \notin pool /\ "gone" \notin pool
  BY <1>2, RabbitAssumption
<1>4. /\ at' \in [Messages -> {"out", "ready", "gone"} \cup pool]
      /\ \A m \in Messages : at'[m] = IF at[m] \in pool THEN "ready" ELSE at[m]
  BY <1>1 DEF Requeued, RabbitInv, Within
<1>5. \A m \in Messages : /\ at'[m] = "out" <=> at[m] = "out"
                          /\ at'[m] = "gone" <=> at[m] = "gone"
  BY <1>3, <1>4
<1>6. SentIn(at') = SentIn(at) /\ Published' = Published
  BY <1>5, PublishedIs, SentIs
<1>7. Within(at, work, armed)'
  BY <1>1, <1>4, <1>5, <1>6 DEF RabbitInv, Within
<1>8. (OneChannel => Ordered(at) /\ Owned(at, work) /\ Timed(at, armed))'
  <2>1. OpenJobs(work') = {}
    BY <1>1 DEF OpenJobs
  <2>2. Ordered(at) => Ordered(at')
    BY <1>5, MessageParts DEF Ordered
  <2> QED
    BY <1>1, <1>2, <2>1, <2>2 DEF RabbitInv, Owned, Timed, Ordered
<1>9. Marks' /\ Kept'
  BY <1>1, <1>2, <1>5, <1>6 DEF RabbitInv, Marks, Kept, Settled, Dropped
<1>10. Twins(work)' /\ RabbitSecondRun'
  BY <1>1 DEF Twins, RabbitSecondRun, Busy
<1>11. Rest'
  <2>1. <<>> \in Seq(Events) /\ Len(<<>>) = 0 /\ 0 <= Remembered
    BY RabbitAssumption
  <2> QED
    BY <1>1, <2>1 DEF RabbitInv, Rest
<1>12. \A m \in Messages : Live(m)' => Live(m)
  BY <1>1, <1>5 DEF Live, Busy
<1> QED
  BY <1>1, <1>2, <1>6, <1>7, <1>8, <1>9, <1>10, <1>11, <1>12 DEF GoesOn, RabbitInv

\* To start, stop or reconnect changes no place and no delivery.
LEMMA SessionKeeps == ASSUME RabbitInv, Start \/ Stop \/ Reconnect PROVE GoesOn
<1>1. /\ UNCHANGED <<at, pool, deadLetter, work, armed, served, failed, parked>>
      /\ processed' = processed \/ processed' = <<>>
  BY DEF Start, Stop, Reconnect, config
<1>2. UNCHANGED config /\ OneChannel' = OneChannel /\ Published' = Published
  BY <1>1 DEF config, OneChannel, Published
<1>3. Rest'
  <2>1. <<>> \in Seq(Events) /\ Len(<<>>) = 0 /\ 0 <= Remembered
    BY RabbitAssumption
  <2> QED
    BY <1>1, <2>1 DEF RabbitInv, Rest, Start, Stop, Reconnect
<1>4. Within(at, work, armed)' /\ (OneChannel => Ordered(at) /\ Owned(at, work) /\ Timed(at, armed))'
  BY <1>1, <1>2 DEF RabbitInv, Within, Job, TimerPair, Ordered, Owned, Timed, OpenJobs
<1>5. Marks'
  <2>1. Len(<<>>) = 0
    OBVIOUS
  <2> QED
    BY <1>1, <1>2, <2>1 DEF RabbitInv, Marks
<1>6. Kept' /\ Twins(work)'
  BY <1>1, <1>2 DEF RabbitInv, Kept, Settled, Dropped, Twins
<1>7. RabbitSecondRun'
  <2>1. Len(<<>>) = 0
    OBVIOUS
  <2> QED
    BY <1>1, <2>1 DEF RabbitInv, RabbitSecondRun, Busy, EventIn, Contains
<1>8. \A m \in Messages : Live(m)' => Live(m)
  BY <1>1 DEF Live, Busy
<1> QED
  BY <1>1, <1>2, <1>3, <1>4, <1>5, <1>6, <1>7, <1>8 DEF GoesOn, RabbitInv

\* A delivery is owned by its handler, and marked beside another of its event.
LEMMA DeliverKeeps ==
    ASSUME RabbitInv, NEW s \in Slots, NEW m \in Messages, Deliver(s, m)
    PROVE  GoesOn
<1> HIDE DEF Idle
<1>0. UNCHANGED <<pool, deadLetter, link, home, subs, isRunning, armed, processed, served, failed, parked>>
  BY DEF Deliver, config, session
<1>1. PICK h \in subs : at' = [at EXCEPT ![m] = h]
  BY DEF Deliver
<1>2. PICK k \in pool : Handle(s, m, k)
  BY DEF Deliver
<1>3. /\ work[s] = Idle /\ at[m] = "ready" /\ ~Contains(processed, m[1])
  BY DEF Deliver, Busy
<1>4. h \in pool /\ Closed \notin pool /\ "out" \notin pool /\ "ready" \notin pool /\ "gone" \notin pool
  BY RabbitAssumption DEF RabbitInv, Rest
<1>5. /\ at' \in [Messages -> {"out", "ready", "gone"} \cup pool]
      /\ \A n \in Messages : at'[n] = IF n = m THEN h ELSE at[n]
  BY <1>1, <1>4 DEF RabbitInv, Within
<1>6. UNCHANGED config /\ OneChannel' = OneChannel
  BY <1>0 DEF config, OneChannel
<1>7. \A n \in Messages : /\ at'[n] = "out" <=> at[n] = "out"
                          /\ at'[n] = "gone" <=> at[n] = "gone"
  BY <1>3, <1>4, <1>5
<1>8. SentIn(at') = SentIn(at) /\ Published' = Published
  BY <1>7, PublishedIs, SentIs
<1> DEFINE twin == {t \in Busy : EventIn(t) = m[1]}
<1>9. \A t \in Slots : work'[t] =
         IF t = s THEN [msg |-> m, via |-> k, raced |-> twin # {}]
         ELSE IF t \in twin THEN [work[t] EXCEPT !.raced = TRUE] ELSE work[t]
  BY <1>2 DEF Handle
<1>10. /\ work'[s] \in Job /\ work'[s] # Idle
       /\ work'[s].msg = m /\ work'[s].via = k /\ (twin # {} => work'[s].raced)
  <2>1. (twin # {}) \in BOOLEAN
    BY Zenon
  <2>2. [msg |-> m, via |-> k, raced |-> twin # {}] \in Job
    BY <2>1 DEF Job
  <2>3. /\ [msg |-> m, via |-> k, raced |-> twin # {}].msg = m
        /\ [msg |-> m, via |-> k, raced |-> twin # {}].via = k
    OBVIOUS
  <2>4. twin # {} => [msg |-> m, via |-> k, raced |-> twin # {}].raced
    OBVIOUS
  <2>5. work'[s] = [msg |-> m, via |-> k, raced |-> twin # {}]
    BY <1>9
  <2>6. work'[s] # Idle
    BY <2>3, <2>5, NotIdle
  <2> QED
    BY <2>2, <2>3, <2>4, <2>5, <2>6
<1>11. ASSUME NEW t \in Slots \ {s}, work[t] # Idle
       PROVE  /\ work[t] \in Job /\ work'[t] \in Job /\ work'[t] # Idle
              /\ work'[t].msg = work[t].msg /\ work'[t].via = work[t].via
              /\ work[t].raced => work'[t].raced
              /\ work[t].msg[1] = m[1] => work'[t].raced /\ twin # {}
  <2>1. work[t] \in Job
    BY <1>11 DEF RabbitInv, Within
  <2>2. t \in twin <=> work[t].msg[1] = m[1]
    BY <1>11 DEF Busy, EventIn
  <2>3. CASE t \in twin
    <3>1. work'[t] = [work[t] EXCEPT !.raced = TRUE]
      BY <1>9, <1>11, <2>3
    <3>2. /\ work'[t] \in Job /\ work'[t].msg = work[t].msg /\ work'[t].via = work[t].via
          /\ work'[t].raced
      BY <2>1, <3>1 DEF Job
    <3>3. work[t].msg \in Messages
      BY <2>1 DEF Job
    <3> QED
      BY <2>1, <2>3, <3>2, <3>3, NotIdle
  <2>4. CASE t \notin twin
    BY <1>9, <1>11, <2>1, <2>2, <2>4
  <2> QED
    BY <2>3, <2>4
<1>12. \A t \in Slots \ {s} : work[t] = Idle => work'[t] = Idle
  BY <1>9 DEF Busy
<1>13. work' \in [Slots -> {Idle} \cup Job] /\ Job' = Job /\ TimerPair' = TimerPair
  <2>1. \A t \in Slots : work'[t] \in {Idle} \cup Job
    BY <1>10, <1>11, <1>12
  <2>2. work' = [t \in Slots |-> work'[t]]
    BY <1>2 DEF Handle
  <2> QED
    BY <1>0, <2>1, <2>2 DEF Job, TimerPair
<1> HIDE DEF twin
<1>14. \A t \in Slots : work[t] # Idle => work[t].msg \in Messages /\ at[work[t].msg] # "out"
  BY DEF RabbitInv, Within, Job
<1>15. Within(at, work, armed)'
  <2>1. \A t \in Slots : work'[t] # Idle => at'[work'[t].msg] # "out"
    BY <1>3, <1>7, <1>10, <1>11, <1>12, <1>14
  <2>2. \A t \in armed : t[1] \in Messages /\ at'[t[1]] # "out" /\ t[1][3] < MaxRetries
    BY <1>7 DEF RabbitInv, Within, TimerPair
  <2>3. \A n \in Messages : at'[n] # "out" => n[1] \in SentIn(at')
    BY <1>7, <1>8 DEF RabbitInv, Within
  <2>4. armed' \subseteq TimerPair'
    BY <1>0, <1>13 DEF RabbitInv, Within
  <2> QED
    BY <1>0, <1>5, <1>13, <2>1, <2>2, <2>3, <2>4 DEF Within
<1>16. ASSUME OneChannel PROVE (Ordered(at) /\ Owned(at, work) /\ Timed(at, armed))'
  <2>1. Ordered(at) /\ Owned(at, work) /\ Timed(at, armed)
    BY <1>16 DEF RabbitInv
  <2>2. Ordered(at')
    BY <1>7, <2>1, MessageParts DEF Ordered
  <2>3. \A t \in OpenJobs(work') :
            \/ t = s
            \/ t # s /\ t \in OpenJobs(work) /\ work'[t].msg = work[t].msg /\ work'[t].via = work[t].via
    BY <1>11, <1>12 DEF OpenJobs
  <2>4. \A t \in OpenJobs(work) : work[t].msg \in Messages /\ work[t].msg # m
    <3>1. ASSUME NEW t \in OpenJobs(work) PROVE work[t].msg \in Messages /\ work[t].msg # m
      <4>1. work[t] \in Job /\ work[t].via # Closed
        BY DEF OpenJobs, RabbitInv, Within
      <4>2. at[work[t].msg] \in pool
        BY <2>1, <4>1 DEF Owned, Job
      <4> QED
        BY <1>3, <1>4, <4>1, <4>2 DEF Job
    <3> QED
      BY <3>1
  <2>5. h = k
    BY <1>4, <1>16 DEF OneChannel
  <2>6. Owned(at', work')
    BY <1>5, <1>10, <2>1, <2>3, <2>4, <2>5 DEF Owned
  <2>7. Timed(at', armed')
    <3>1. \A t \in armed : t[1] \in Messages /\ Retry(t[1]) \in Messages
      BY MessageParts DEF RabbitInv, Within, TimerPair
    <3> QED
      BY <1>0, <1>7, <2>1, <3>1 DEF Timed
  <2> QED
    BY <2>2, <2>6, <2>7
<1>17. Marks' /\ Kept' /\ Rest'
  BY <1>0, <1>6, <1>7, <1>8 DEF RabbitInv, Marks, Kept, Settled, Dropped, Rest
<1>18. Twins(work')
  <2>1. ASSUME NEW t \in Slots, NEW u \in Slots, work'[t] # Idle, work'[u] # Idle, t # u,
               work'[t].msg[1] = work'[u].msg[1]
        PROVE  work'[t].raced
    <3>1. CASE t = s
      BY <1>10, <1>11, <1>12, <2>1, <3>1
    <3>2. CASE u = s
      BY <1>10, <1>11, <1>12, <2>1, <3>2
    <3>3. CASE t # s /\ u # s
      BY <1>11, <1>12, <2>1, <3>3 DEF RabbitInv, Twins
    <3> QED
      BY <3>1, <3>2, <3>3
  <2> QED
    BY <2>1 DEF Twins
<1>19. RabbitSecondRun'
  <2>1. ASSUME NEW t \in Slots, work'[t] # Idle, Contains(processed, work'[t].msg[1]) PROVE work'[t].raced
    <3>1. t # s
      BY <1>3, <1>10, <2>1
    <3>2. work[t] # Idle /\ work'[t].msg = work[t].msg /\ (work[t].raced => work'[t].raced)
      BY <1>11, <1>12, <2>1, <3>1
    <3> QED
      BY <2>1, <3>2 DEF RabbitInv, RabbitSecondRun, Busy, EventIn
  <2> QED
    BY <1>0, <2>1 DEF RabbitSecondRun, Busy, EventIn
<1>20. \A n \in Messages : Live(n)' => Live(n)
  <2>1. \A n \in Messages : at'[n] \notin {"out", "gone"} => Live(n)
    BY <1>7 DEF Live
  <2>2. Live(m)
    BY <1>3 DEF Live
  <2> QED
    BY <1>0, <1>10, <1>11, <1>12, <2>1, <2>2 DEF Live, Busy
<1> QED
  BY <1>0, <1>6, <1>8, <1>15, <1>16, <1>17, <1>18, <1>19, <1>20 DEF GoesOn, RabbitInv

\* What is passed over was handled before, or nobody wants it.
LEMMA SkipKeeps ==
    ASSUME RabbitInv, NEW m \in Messages, Skip(m), subs # {}
    PROVE  GoesOn
<1> HIDE DEF Idle
<1>0. UNCHANGED <<pool, deadLetter, isRunning, processed, served, failed>> /\ UNCHANGED config
  BY DEF Skip, config
<1>1. PICK h \in subs, k \in pool : Settle([at EXCEPT ![m] = h], m, k, work, armed, FALSE, parked)
  BY DEF Skip
<1>2. at[m] = "ready" /\ (Contains(processed, m[1]) \/ m[1] \notin Wanted)
  BY DEF Skip
<1>3. h \in pool /\ Closed \notin pool /\ "out" \notin pool /\ "ready" \notin pool /\ "gone" \notin pool
  BY RabbitAssumption DEF RabbitInv, Rest
<1> DEFINE f == [at EXCEPT ![m] = h]
<1>4. /\ f \in [Messages -> {"out", "ready", "gone"} \cup pool]
      /\ \A n \in Messages : f[n] = IF n = m THEN h ELSE at[n]
  BY <1>3 DEF RabbitInv, Within
<1> HIDE DEF f
<1>5. \A n \in Messages : /\ f[n] = "out" <=> at[n] = "out"
                          /\ f[n] = "gone" <=> at[n] = "gone"
  BY <1>2, <1>3, <1>4
<1>6. SentIn(f) = SentIn(at)
  BY <1>5, SentIs
<1>7. \A t \in Slots : work[t] # Idle => work[t].msg \in Messages /\ at[work[t].msg] # "out"
  BY DEF RabbitInv, Within, Job
<1>8. \A t \in armed : t[1] \in Messages /\ at[t[1]] # "out" /\ t[1][3] < MaxRetries /\ Retry(t[1]) \in Messages
  BY MessageParts DEF RabbitInv, Within, TimerPair
<1>9. Within(f, work, armed)
  BY <1>4, <1>5, <1>6, <1>7, <1>8 DEF RabbitInv, Within
<1>10. ASSUME OneChannel
       PROVE  /\ Ordered(f) /\ Owned(f, work) /\ f[m] = k
              /\ \A t \in OpenJobs(work) : work[t].msg # m
              /\ \A t \in armed : t[2] # Closed => (t[1] = m \/ f[t[1]] = "gone") /\ f[Retry(t[1])] = "out"
  <2>1. Ordered(at) /\ Owned(at, work) /\ Timed(at, armed)
    BY <1>10 DEF RabbitInv
  <2>2. Ordered(f)
    BY <1>5, <2>1, MessageParts DEF Ordered
  <2>3. ASSUME NEW t \in OpenJobs(work) PROVE work[t].msg \in Messages /\ work[t].msg # m
    <3>1. work[t] \in Job /\ work[t].via # Closed
      BY DEF OpenJobs, RabbitInv, Within
    <3>2. at[work[t].msg] \in pool
      BY <2>1, <3>1 DEF Owned, Job
    <3> QED
      BY <1>2, <1>3, <3>1, <3>2 DEF Job
  <2>4. Owned(f, work)
    BY <1>4, <2>1, <2>3 DEF Owned
  <2>5. f[m] = k
    BY <1>3, <1>4, <1>10 DEF OneChannel
  <2>6. \A t \in armed : t[2] # Closed => f[t[1]] = "gone" /\ f[Retry(t[1])] = "out"
    BY <1>5, <1>8, <2>1 DEF Timed
  <2> QED
    BY <2>2, <2>3, <2>4, <2>5, <2>6
<1>11. /\ Within(at, work, armed)'
       /\ (OneChannel => Ordered(at) /\ Owned(at, work) /\ Timed(at, armed))'
       /\ \A n \in Messages : at'[n] = "out" <=> f[n] = "out"
       /\ \A n \in Messages : Live(n)' => LiveIn(f, work, armed, n)
       /\ Same(work, work')
       /\ parked \subseteq parked' /\ parked' \subseteq parked \cup SentIn(f)
       /\ OneChannel => \A n \in Messages : at'[n] = "gone" => f[n] = "gone" \/ n = m
       /\ UNCHANGED session \/ (link' = "waiting" /\ home' = Closed /\ subs' = {})
  <2>1. pool \in Pools /\ f[m] # "out" /\ FALSE \in BOOLEAN
    BY <1>2, <1>5 DEF RabbitInv, Rest
  <2>2. Settle(f, m, k, work, armed, FALSE, parked)
    BY <1>1 DEF f
  <2> QED
    BY <1>0, <1>9, <1>10, <2>1, <2>2, SettleKeeps
<1>12. SentIn(at') = SentIn(at) /\ Published' = Published
  <2>1. SentIn(at') = SentIn(f)
    BY <1>11, SentIs
  <2> QED
    BY <1>6, <2>1, PublishedIs
<1>13. Marks'
  BY <1>0, <1>6, <1>11, <1>12, PublishedIs DEF RabbitInv, Marks
<1>14. Kept'
  <2>1. OneChannel' = OneChannel
    BY <1>0 DEF OneChannel
  <2>2. m[1] \in served \/ m[1] \notin Wanted
    BY <1>2 DEF RabbitInv, Marks, Contains
  <2> QED
    BY <1>0, <1>5, <1>11, <2>1, <2>2 DEF RabbitInv, Kept, Settled, Dropped
<1>15. Rest'
  BY <1>0, <1>11 DEF RabbitInv, Rest, session
<1>16. Twins(work)' /\ RabbitSecondRun'
  BY <1>0, <1>11, TwinsKept DEF RabbitInv, RabbitSecondRun, Busy, EventIn, Same
<1>17. ASSUME NEW n \in Messages, Live(n)' PROVE Live(n)
  <2>1. LiveIn(f, work, armed, n)
    BY <1>11, <1>17
  <2> QED
    BY <1>5, <2>1 DEF Live, LiveIn, Busy
<1> QED
  BY <1>0, <1>11, <1>12, <1>13, <1>14, <1>15, <1>16, <1>17 DEF GoesOn, RabbitInv

\* What follows a handler leaves its event settled, or its message in the queue.
LEMMA AnswerKeeps ==
    ASSUME RabbitInv, NEW s \in Busy, NEW timers, NEW rejected \in BOOLEAN, NEW kept,
           \/ timers = armed
           \/ timers = armed \cup {<<work[s].msg, work[s].via>>} /\ work[s].msg[3] < MaxRetries,
           kept = parked \/ kept = parked \cup {EventIn(s)},
           \/ served' = served /\ processed' = processed
           \/ served' = served \cup {EventIn(s)} /\ processed' = Remember(processed, EventIn(s)),
           failed' = failed \/ failed' = failed \cup {EventIn(s)},
           \/ EventIn(s) \in served'
           \/ EventIn(s) \in failed' /\ (deadLetter = "queue" => rejected \/ EventIn(s) \in kept),
           UNCHANGED config, isRunning' = isRunning,
           Answer(s, timers, rejected, kept)
    PROVE  GoesOn
<1> HIDE DEF Idle
<1> DEFINE m == work[s].msg
           k == work[s].via
           e == EventIn(s)
           free == [work EXCEPT ![s] = Idle]
<1>0. pool' = pool /\ deadLetter' = deadLetter /\ OneChannel' = OneChannel
  BY DEF config, OneChannel
<1>1. /\ s \in Slots /\ work[s] # Idle /\ work[s] \in Job
      /\ m \in Messages /\ k \in pool \cup {Closed} /\ e = m[1]
      /\ at[m] # "out"
  <2>1. s \in Slots /\ work[s] # Idle
    BY DEF Busy
  <2> QED
    BY <2>1 DEF RabbitInv, Within, Job, EventIn
<1>2. /\ free \in [Slots -> {Idle} \cup Job] /\ free[s] = Idle
      /\ \A t \in Slots \ {s} : free[t] = work[t]
  BY <1>1 DEF RabbitInv, Within
<1>3. e \in Published /\ e \in SentIn(at) /\ e \in Events
  <2>1. e \in SentIn(at) /\ e \in Events
    BY <1>1, MessageParts DEF RabbitInv, Within
  <2> QED
    BY <2>1, PublishedIs
<1>4. /\ processed' \in Seq(Events) /\ Len(processed') <= Remembered
      /\ served \subseteq served' /\ served' \subseteq Published
      /\ \A i \in 1..Len(processed') :
            /\ processed'[i] \in served'
            /\ processed'[i] = e \/ \E j \in 1..Len(processed) : processed'[i] = processed[j]
  <2>1. /\ processed \in Seq(Events) /\ Len(processed) <= Remembered
        /\ served \subseteq Published /\ \A i \in 1..Len(processed) : processed[i] \in served
    BY DEF RabbitInv, Rest, Marks
  <2>2. CASE served' = served /\ processed' = processed
    BY <2>1, <2>2
  <2>3. CASE served' = served \cup {e} /\ processed' = Remember(processed, e)
    <3>1. /\ processed' \in Seq(Events) /\ Len(processed') <= Remembered
          /\ \A i \in 1..Len(processed') :
                processed'[i] = e \/ \E j \in 1..Len(processed) : processed'[i] = processed[j]
      BY <1>3, <2>1, <2>3, RememberStep
    <3> QED
      BY <1>3, <2>1, <2>3, <3>1
  <2> QED
    BY <2>2, <2>3
<1>5. kept \subseteq Published /\ parked \subseteq kept /\ failed \subseteq failed' /\ failed' \subseteq Published
  BY <1>3 DEF RabbitInv, Marks
<1>6. Twins(free)
  BY <1>2 DEF RabbitInv, Twins
<1>7. ASSUME Same(free, work') PROVE Twins(work)' /\ RabbitSecondRun'
  <2>1. Twins(work')
    BY <1>6, <1>7, TwinsKept
  <2>2. ASSUME NEW t \in Slots, work'[t] # Idle, Contains(processed', work'[t].msg[1]) PROVE work'[t].raced
    <3>1. t # s /\ work[t] # Idle /\ work'[t].msg = work[t].msg /\ work'[t].raced = work[t].raced
      BY <1>2, <1>7, <2>2 DEF Same
    <3>2. work[t].msg[1] = e \/ Contains(processed, work[t].msg[1])
      BY <1>4, <2>2, <3>1 DEF Contains
    <3>3. CASE work[t].msg[1] = e
      BY <1>1, <3>1, <3>3 DEF RabbitInv, Twins
    <3>4. CASE Contains(processed, work[t].msg[1])
      BY <3>1, <3>4 DEF RabbitInv, RabbitSecondRun, Busy, EventIn
    <3> QED
      BY <3>1, <3>2, <3>3, <3>4
  <2> QED
    BY <2>1, <2>2 DEF RabbitSecondRun, Busy, EventIn
<1>8. CASE k = Closed
  <2>1. work' = free /\ UNCHANGED <<at, link, home, subs, armed, parked>>
    BY <1>8 DEF Answer, session
  <2>2. Published' = Published /\ SentIn(at') = SentIn(at)
    BY <2>1 DEF Published
  <2>3. Within(at, work, armed)'
    BY <1>0, <1>2, <2>1, <2>2 DEF RabbitInv, Within, Job, TimerPair
  <2>4. OpenJobs(work') \subseteq OpenJobs(work) /\ \A t \in OpenJobs(work') : work'[t] = work[t]
    BY <1>2, <2>1 DEF OpenJobs
  <2>5. (OneChannel => Ordered(at) /\ Owned(at, work) /\ Timed(at, armed))'
    BY <1>0, <2>1, <2>4 DEF RabbitInv, Ordered, Owned, Timed
  <2>6. Marks' /\ Kept' /\ Rest'
    BY <1>0, <1>4, <1>5, <2>1, <2>2 DEF RabbitInv, Marks, Kept, Settled, Dropped, Rest
  <2>7. Same(free, work')
    BY <2>1 DEF Same
  <2>8. \A n \in Messages : Live(n)' => Live(n)
    BY <1>2, <2>1 DEF Live, Busy
  <2> QED
    BY <1>4, <1>5, <1>7, <2>1, <2>2, <2>3, <2>5, <2>6, <2>7, <2>8 DEF GoesOn, RabbitInv
<1>9. CASE k # Closed
  <2>0. k \in pool /\ "out" \notin pool /\ "ready" \notin pool /\ "gone" \notin pool /\ pool \in Pools
    BY <1>1, <1>9, RabbitAssumption DEF RabbitInv, Rest
  <2>1. Settle(at, m, k, free, timers, rejected, kept)
    BY <1>9 DEF Answer
  <2>2. \A t \in timers : /\ t \in TimerPair /\ at[t[1]] # "out" /\ t[1][3] < MaxRetries
                          /\ t[1] \in Messages /\ Retry(t[1]) \in Messages
                          /\ t \in armed \/ (t[1] = m /\ t[2] = k)
    <3>1. \A t \in armed : t \in TimerPair /\ at[t[1]] # "out" /\ t[1][3] < MaxRetries /\ t[1] \in Messages
      BY DEF RabbitInv, Within, TimerPair
    <3>2. timers # armed => <<m, k>> \in TimerPair /\ m[3] < MaxRetries
      BY <1>1 DEF TimerPair
    <3>3. timers \subseteq armed \cup {<<m, k>>}
      OBVIOUS
    <3> QED
      BY <1>1, <3>1, <3>2, <3>3, MessageParts
  <2>3. Within(at, free, timers)
    BY <1>2, <2>2 DEF RabbitInv, Within
  <2>4. ASSUME OneChannel
        PROVE  /\ Ordered(at) /\ Owned(at, free) /\ at[m] = k
               /\ \A t \in OpenJobs(free) : free[t].msg # m
               /\ \A t \in timers : t[2] # Closed => (t[1] = m \/ at[t[1]] = "gone") /\ at[Retry(t[1])] = "out"
    <3>1. Ordered(at) /\ Owned(at, work) /\ Timed(at, armed)
      BY <2>4 DEF RabbitInv
    <3>2. s \in OpenJobs(work)
      BY <1>1, <1>9 DEF OpenJobs
    <3>3. \A t \in OpenJobs(free) : t \in OpenJobs(work) /\ t # s /\ free[t] = work[t]
      BY <1>2 DEF OpenJobs
    <3>4. at[m] = k
      BY <3>1, <3>2 DEF Owned
    <3>5. Owned(at, free)
      BY <3>1, <3>3 DEF Owned
    <3>6. \A t \in OpenJobs(free) : free[t].msg # m
      BY <3>1, <3>2, <3>3 DEF Owned
    <3>7. m[3] < MaxRetries => at[Retry(m)] = "out"
      BY <1>1, <2>0, <3>1, <3>4 DEF Ordered
    <3> HIDE DEF m, k
    <3>8. \A t \in timers : t[2] # Closed => (t[1] = m \/ at[t[1]] = "gone") /\ at[Retry(t[1])] = "out"
      BY <2>2, <3>1, <3>7 DEF Timed
    <3> QED
      BY <3>1, <3>4, <3>5, <3>6, <3>8
  <2> HIDE DEF m, k, free
  <2>5. /\ Within(at, work, armed)'
        /\ (OneChannel => Ordered(at) /\ Owned(at, work) /\ Timed(at, armed))'
        /\ \A n \in Messages : at'[n] = "out" <=> at[n] = "out"
        /\ \A n \in Messages : Live(n)' => LiveIn(at, free, timers, n)
        /\ Same(free, work')
        /\ kept \subseteq parked' /\ parked' \subseteq kept \cup SentIn(at)
        /\ OneChannel =>
              /\ \A n \in Messages : at'[n] = "gone" => at[n] = "gone" \/ n = m
              /\ rejected /\ deadLetter = "queue" => m[1] \in parked'
        /\ UNCHANGED session \/ (link' = "waiting" /\ home' = Closed /\ subs' = {})
    BY <1>1, <2>0, <2>1, <2>3, <2>4, SettleKeeps
  <2>6. SentIn(at') = SentIn(at) /\ Published' = Published
    BY <2>5, SentIs, PublishedIs
  <2>7. Marks'
    BY <1>4, <1>5, <2>5, <2>6, PublishedIs DEF Marks
  <2>8. Kept'
    BY <1>0, <1>1, <1>4, <1>5, <2>5 DEF RabbitInv, Kept, Settled, Dropped
  <2>9. Rest'
    BY <1>0, <1>4, <2>5 DEF RabbitInv, Rest, session
  <2>10. ASSUME NEW n \in Messages, Live(n)' PROVE Live(n)
    <3>1. LiveIn(at, free, timers, n)
      BY <2>5, <2>10
    <3>2. Live(m)
      BY <1>1 DEF Live, Busy, m
    <3> QED
      BY <1>2, <2>2, <3>1, <3>2 DEF Live, LiveIn, Busy
  <2> QED
    BY <1>4, <1>5, <1>7, <2>5, <2>6, <2>7, <2>8, <2>9, <2>10 DEF GoesOn, RabbitInv
<1> QED
  BY <1>8, <1>9

\* A timer sends the message that follows the one it was set for.
LEMMA TimerKeeps ==
    ASSUME RabbitInv, NEW t \in armed, TimerFires(t)
    PROVE  GoesOn
<1> DEFINE m == t[1]
           r == Retry(m)
<1>1. CASE t[2] = Closed /\ Restarted
  BY <1>1, RestartKeeps
<1>2. CASE /\ t[2] # Closed
           /\ at' = [at EXCEPT ![r] = "ready"]
           /\ armed' = armed \ {t}
           /\ UNCHANGED <<config, session, isRunning, work, processed, served, failed, parked>>
  <2>0. UNCHANGED <<pool, deadLetter, link, home, subs, isRunning, work, processed, served, failed, parked>>
        /\ UNCHANGED config
    BY <1>2 DEF config, session
  <2>1. /\ t \in TimerPair /\ m \in Messages /\ m[3] < MaxRetries /\ at[m] # "out"
        /\ t = <<t[1], t[2]>> /\ t[2] \in pool
    BY <1>2 DEF RabbitInv, Within, TimerPair
  <2>2. r \in Messages /\ r[1] = m[1] /\ r[3] = m[3] + 1 /\ m[3] \in Nat
    BY <2>1, MessageParts
  <2>3. ASSUME NEW n \in Messages, Retry(n) = r PROVE n = m
    <3>1. n = <<n[1], n[2], n[3]>> /\ m = <<m[1], m[2], m[3]>> /\ n[3] \in Nat /\ m[3] \in Nat
      BY <2>1, MessageParts
    <3>2. n[1] = m[1] /\ n[2] = m[2] /\ n[3] + 1 = m[3] + 1
      BY <2>3 DEF Retry
    <3> QED
      BY <3>1, <3>2
  <2>4. "out" \notin pool /\ "ready" \notin pool /\ "gone" \notin pool
    BY RabbitAssumption DEF RabbitInv, Rest
  <2>5. OneChannel' = OneChannel
    BY <2>0 DEF OneChannel
  <2> HIDE DEF r, m
  <2>6. /\ at' \in [Messages -> {"out", "ready", "gone"} \cup pool]
        /\ \A n \in Messages : at'[n] = IF n = r THEN "ready" ELSE at[n]
    BY <1>2, <2>2 DEF RabbitInv, Within
  <2>7. SentIn(at') = SentIn(at) /\ Published' = Published
    <3>1. \A n \in Messages : n[3] = 0 => n # r
      BY <2>2
    <3> QED
      BY <2>6, <3>1, SentIs, PublishedIs
  <2>8. \A u \in armed : u \in TimerPair /\ u[1] \in Messages /\ at[u[1]] # "out" /\ u[1][3] < MaxRetries
                         /\ u = <<u[1], u[2]>> /\ Retry(u[1]) \in Messages
    BY MessageParts DEF RabbitInv, Within, TimerPair
  <2>9. \A s \in Slots : work[s] # Idle => work[s].msg \in Messages /\ at[work[s].msg] # "out"
    BY DEF RabbitInv, Within, Job
  <2>10. Within(at, work, armed)'
    <3>1. Job' = Job /\ TimerPair' = TimerPair
      BY <2>0 DEF Job, TimerPair
    <3>2. \A n \in Messages : at'[n] # "out" => n[1] \in SentIn(at')
      BY <2>1, <2>2, <2>6, <2>7 DEF RabbitInv, Within
    <3>3. \A s \in Slots : work[s] # Idle => at'[work[s].msg] # "out"
      BY <2>6, <2>9
    <3>4. \A u \in armed' : u \in TimerPair /\ at'[u[1]] # "out" /\ u[1][3] < MaxRetries
      BY <1>2, <2>6, <2>8
    <3> QED
      BY <2>0, <2>6, <3>1, <3>2, <3>3, <3>4 DEF RabbitInv, Within
  <2>11. ASSUME OneChannel PROVE (Ordered(at) /\ Owned(at, work) /\ Timed(at, armed))'
    <3>1. Ordered(at) /\ Owned(at, work) /\ Timed(at, armed)
      BY <2>11 DEF RabbitInv
    <3>2. at[m] = "gone" /\ at[r] = "out"
      BY <1>2, <3>1 DEF Timed, m, r
    <3>3. Ordered(at')
      <4>1. ASSUME NEW n \in Messages, n[3] < MaxRetries, at'[Retry(n)] # "out" PROVE at'[n] = "gone"
        <5>1. Retry(n) \in Messages
          BY <4>1, MessageParts
        <5>2. CASE Retry(n) = r
          BY <2>1, <2>3, <2>6, <3>2, <5>2
        <5>3. CASE Retry(n) # r
          BY <2>6, <3>1, <3>2, <4>1, <5>1, <5>3 DEF Ordered
        <5> QED
          BY <5>2, <5>3
      <4> QED
        BY <4>1 DEF Ordered
    <3>4. Owned(at', work')
      <4>1. \A s \in OpenJobs(work) : work[s].msg \in Messages /\ work[s].msg # r
        BY <2>9, <3>2 DEF OpenJobs
      <4> QED
        BY <2>0, <2>6, <3>1, <4>1 DEF Owned, OpenJobs
    <3>5. ASSUME NEW u \in armed', u[2] # Closed PROVE at'[u[1]] = "gone" /\ at'[Retry(u[1])] = "out"
      <4>1. u \in armed /\ u # t /\ at[u[1]] = "gone" /\ at[Retry(u[1])] = "out"
        BY <1>2, <3>1, <3>5 DEF Timed
      <4>2. u[2] \in pool /\ u[2] = t[2]
        BY <2>1, <2>8, <2>11, <3>5, <4>1 DEF TimerPair, OneChannel
      <4>3. u[1] # m
        BY <2>1, <2>8, <4>1, <4>2 DEF m
      <4>4. Retry(u[1]) # r
        BY <2>3, <2>8, <4>1, <4>3
      <4> QED
        BY <2>6, <2>8, <3>2, <4>1, <4>4
    <3> QED
      BY <3>3, <3>4, <3>5 DEF Timed
  <2>12. Marks' /\ Rest' /\ Twins(work)' /\ RabbitSecondRun'
    BY <2>0, <2>7 DEF RabbitInv, Marks, Rest, Twins, RabbitSecondRun, Busy, EventIn, Contains
  <2>13. Kept'
    BY <2>0, <2>5, <2>6 DEF RabbitInv, Kept, Settled, Dropped
  <2>14. ASSUME NEW n \in Messages, Live(n)' PROVE \E q \in Messages : Live(q) /\ q[1] = n[1]
    <3>1. Live(m)
      BY DEF Live, m
    <3>2. CASE n = r
      BY <2>1, <2>2, <3>1, <3>2
    <3>3. CASE n # r
      BY <1>2, <2>0, <2>6, <2>14, <3>3 DEF Live, Busy
    <3> QED
      BY <3>2, <3>3
  <2> QED
    BY <2>0, <2>5, <2>7, <2>10, <2>11, <2>12, <2>13, <2>14 DEF GoesOn, RabbitInv
<1> QED
  BY <1>1, <1>2 DEF TimerFires, Retry

-----------------------------------------------------------------------------
\* Nothing is published at first.
LEMMA RabbitStarts == RabbitInit => RabbitInv /\ Promise!Init
<1> SUFFICES ASSUME RabbitInit PROVE RabbitInv /\ Promise!Init
  OBVIOUS
<1>1. /\ at = [m \in Messages |-> "out"] /\ work = [s \in Slots |-> Idle]
      /\ armed = {} /\ processed = <<>> /\ served = {} /\ failed = {} /\ parked = {}
  BY DEF RabbitInit
<1>2. Published = {} /\ SentIn(at) = {} /\ Pending = {} /\ Busy = {} /\ OpenJobs(work) = {}
  BY <1>1 DEF Published, SentIn, Pending, Live, Busy, OpenJobs
<1>3. <<>> \in Seq(Events) /\ Len(<<>>) = 0 /\ 0 <= Remembered
  BY RabbitAssumption
<1>4. Rest
  <2>1. deadLetter \in DeadLetters /\ isRunning \in BOOLEAN
    BY DEF RabbitInit
  <2> QED
    BY <1>1, <1>3, <2>1 DEF RabbitInit, Rest
<1>5. Within(at, work, armed)
  BY <1>1 DEF Within
<1>6. Ordered(at) /\ Owned(at, work) /\ Timed(at, armed)
  <2>1. Ordered(at)
    BY <1>1, MessageParts DEF Ordered
  <2> QED
    BY <1>1, <1>2, <2>1 DEF Owned, Timed
<1>7. Marks /\ Kept /\ Twins(work) /\ RabbitSecondRun
  BY <1>1, <1>2, <1>3 DEF Marks, Kept, Twins, RabbitSecondRun
<1>8. Promise!Init
  BY <1>1, <1>2 DEF Promise!Init
<1> QED
  BY <1>4, <1>5, <1>6, <1>7, <1>8 DEF RabbitInv

\* Every step keeps the invariant, and is one of the promise.
LEMMA RabbitStep ==
    ASSUME RabbitInv, [RabbitNext]_rabbitVars
    PROVE  RabbitInv' /\ [Promise!Next]_(Promise!promiseVars)
<1>1. CASE UNCHANGED rabbitVars
  <2>1. UNCHANGED <<at, pool, deadLetter, link, home, subs, isRunning, work, armed, processed, served, failed, parked>>
    BY <1>1 DEF rabbitVars, config, session
  <2>2. RabbitInv'
    BY <2>1 DEF RabbitInv, Rest, Within, Job, TimerPair, OneChannel, Ordered, Owned, Timed, OpenJobs, Marks,
                Published, Kept, Settled, Dropped, Twins, RabbitSecondRun, Busy, EventIn
  <2>3. UNCHANGED Promise!promiseVars
    BY <2>1 DEF Promise!promiseVars, Published, Pending, Live, Busy, OneChannel
  <2> QED
    BY <2>2, <2>3
<1>2. ASSUME NEW e \in Events, NEW n \in 1..Publications, PublishTo(e, n)
      PROVE  RabbitInv' /\ Promise!Next
  BY <1>2, PublishKeeps DEF Promise!Next
<1>3. ASSUME ConnectionLost \/ Reconnect \/ Crash \/ Start \/ Stop PROVE GoesOn
  BY <1>3, LostKeeps, RestartKeeps, SessionKeeps DEF Crash
<1>4. ASSUME Receive PROVE GoesOn
  <2>1. PICK m \in Messages : Skip(m) \/ \E s \in Slots : Deliver(s, m)
    BY <1>4 DEF Receive
  <2> QED
    BY <1>4, <2>1, SkipKeeps, DeliverKeeps DEF Receive
<1>5. ASSUME Fire PROVE GoesOn
  BY <1>5, TimerKeeps DEF Fire
<1>6. ASSUME NEW s \in Slots, Settles(s) PROVE GoesOn
  <2>1. CASE HandlerResolves(s)
    <3>1. TRUE \in BOOLEAN /\ FALSE \in BOOLEAN /\ UNCHANGED config /\ isRunning' = isRunning
      BY <2>1 DEF HandlerResolves
    <3>2. s \in Busy /\ Answer(s, armed, FALSE, parked) /\ failed' = failed /\ served' = served \cup {EventIn(s)}
          /\ processed' = Remember(processed, EventIn(s))
      BY <2>1 DEF HandlerResolves
    <3> QED
      BY <3>1, <3>2, AnswerKeeps
  <2>2. CASE HandlerRejects(s)
    <3>1. TRUE \in BOOLEAN /\ UNCHANGED config /\ isRunning' = isRunning
          /\ served' = served /\ processed' = processed
      BY <2>2 DEF HandlerRejects
    <3>2. s \in Busy /\ work[s].msg[3] < MaxRetries /\ failed' = failed \cup {EventIn(s)}
          /\ Answer(s, armed \cup {<<work[s].msg, work[s].via>>}, TRUE, parked)
      BY <2>2 DEF HandlerRejects
    <3> QED
      BY <3>1, <3>2, AnswerKeeps
  <2>3. CASE GiveUp(s)
    <3> DEFINE kept == IF deadLetter = "queue" THEN parked \cup {EventIn(s)} ELSE parked
               rejected == deadLetter = "off"
    <3>1. rejected \in BOOLEAN /\ UNCHANGED config /\ isRunning' = isRunning
          /\ served' = served /\ processed' = processed
      BY <2>3 DEF GiveUp
    <3>2. s \in Busy /\ Answer(s, armed, rejected, kept) /\ failed' = failed \cup {EventIn(s)}
      BY <2>3 DEF GiveUp
    <3>3. kept = parked \/ kept = parked \cup {EventIn(s)}
      OBVIOUS
    <3>4. deadLetter = "queue" => EventIn(s) \in kept
      OBVIOUS
    <3> HIDE DEF kept, rejected
    <3> QED
      BY <3>1, <3>2, <3>3, <3>4, AnswerKeeps
  <2> QED
    BY <1>6, <2>1, <2>2, <2>3 DEF Settles
<1>7. GoesOn => RabbitInv' /\ Promise!Next
  BY GoesOnWorks DEF GoesOn, Promise!Next
<1> QED
  BY <1>1, <1>2, <1>3, <1>4, <1>5, <1>6, <1>7 DEF RabbitNext

\* Over one channel the consumer of RabbitMQ loses no event that no handler has
\* failed with: what is gone from the queue was handled or passed over, and a
\* lost channel returns to the queue what its handlers still work on
\* (handleMessage, lines 137-190). Of the others none is lost where somebody has
\* bound a queue to the dead-letter exchange; the code binds none, and without
\* one both a retry (line 234) and giving up (line 278) may lose the event.
THEOREM RabbitImplements == RabbitSpec => RabbitKeepsEvents
<1> QED
  BY RabbitStarts, RabbitStep, PTL DEF RabbitSpec, RabbitKeepsEvents, Promise!Spec

\* Type correctness of the consumer, its connection and its queue.
THEOREM RabbitTypeCorrect == RabbitSpec => []RabbitTypeOK
<1> QED
  BY RabbitStarts, RabbitStep, InvType, PTL DEF RabbitSpec

\* No handler runs for an event whose id is remembered, unless two deliveries
\* of the event were in progress at a time (handleMessage, lines 143-166).
THEOREM RabbitRunsOnce == RabbitSpec => []RabbitSecondRun
<1>1. RabbitInv => RabbitSecondRun
  BY DEF RabbitInv
<1> QED
  BY <1>1, RabbitStarts, RabbitStep, PTL DEF RabbitSpec
AcknowledgedAction ==
    OneChannel =>
        \A s \in Slots : HandlerResolves(s) /\ work[s].via # Closed => at'[work[s].msg] = "gone"

\* Over one channel the comment of line 174 holds: the ack of a handler that has
\* succeeded is that of its own message, which leaves the queue.
THEOREM RabbitAcknowledgesHandled == RabbitSpec => [][AcknowledgedAction]_rabbitVars
<1>1. RabbitInv => AcknowledgedAction
  <2> SUFFICES ASSUME RabbitInv, OneChannel, NEW s \in Slots, HandlerResolves(s), work[s].via # Closed
               PROVE  at'[work[s].msg] = "gone"
    BY DEF AcknowledgedAction
  <2> DEFINE m == work[s].msg
  <2>1. s \in OpenJobs(work) /\ work[s] \in Job /\ m \in Messages
    BY DEF HandlerResolves, Busy, OpenJobs, RabbitInv, Within, Job
  <2>2. at[m] = work[s].via
    BY <2>1 DEF RabbitInv, Owned
  <2>3. Settle(at, m, work[s].via, [work EXCEPT ![s] = Idle], armed, FALSE, parked)
    BY DEF HandlerResolves, Answer
  <2>4. at' = [at EXCEPT ![m] = "gone"]
    BY <2>2, <2>3 DEF Settle
  <2> QED
    BY <2>1, <2>4 DEF RabbitInv, Within
<1>2. RabbitInv /\ [RabbitNext]_rabbitVars => [AcknowledgedAction]_rabbitVars
  BY <1>1
<1> QED
  BY <1>2, RabbitStarts, RabbitStep, PTL DEF RabbitSpec
=============================================================================
