--------------------------- MODULE EventSourcing ---------------------------
(***************************************************************************)
(* packages/eventsourcing: one stream of the InMemoryEventStore and its    *)
(* aggregate, held by several writers who load it, raise events and save.  *)
(* One projection is fed by a subscription and rebuilt, from events read   *)
(* before, by the ProjectionRebuildManager of packages/application. An     *)
(* event is a number.                                                      *)
(***************************************************************************)
EXTENDS Naturals, Sequences, SequencesExt

CONSTANTS
    Writers,        \* holders of a copy of the aggregate
    EventBound      \* bound: events ever raised

ASSUME EventSourcingAssumption == EventBound \in Nat

VARIABLES
    stream,         \* events stored
    history,        \* events each aggregate has applied, those raised included
    uncommitted,    \* how many of them it has not marked as committed
    saving,         \* writers that await an append
    overlapped,     \* ghost: aggregates with events raised during an append
    raised,         \* events raised so far
    view,           \* events the projection was given since its last reset
    todo,           \* events a rebuild has still to project
    rebuild,        \* "none", "read": it is about to reset, or "run"
    mixed           \* ghost: the view missed an event, or got one out of turn

esVars == <<stream, history, uncommitted, saving, overlapped, raised, view, todo, rebuild, mixed>>
projection == <<view, todo, rebuild, mixed>>
aggregates == <<history, uncommitted, saving, overlapped, raised>>

EsTypeOK ==
    /\ stream \in Seq(1..EventBound) /\ view \in Seq(1..EventBound) /\ todo \in Seq(1..EventBound)
    /\ history \in [Writers -> Seq(1..EventBound)]
    /\ uncommitted \in [Writers -> 0..EventBound]
    /\ \A w \in Writers : uncommitted[w] <= Len(history[w])
    /\ saving \subseteq Writers /\ overlapped \subseteq Writers
    /\ raised \in 0..EventBound
    /\ rebuild \in {"none", "read", "run"} /\ mixed \in BOOLEAN

EsInit ==
    /\ stream = <<>> /\ view = <<>> /\ todo = <<>>
    /\ history = [w \in Writers |-> <<>>]
    /\ uncommitted = [w \in Writers |-> 0]
    /\ saving = {} /\ overlapped = {}
    /\ raised = 0
    /\ rebuild = "none" /\ mixed = FALSE

(***************************************************************************)
(* Aggregates                                                              *)
(***************************************************************************)
Stored(w) == Len(history[w]) - uncommitted[w]

\* loadFromHistory of a new aggregate.
Load(w) ==
    /\ w \notin saving
    /\ history' = [history EXCEPT ![w] = stream]
    /\ uncommitted' = [uncommitted EXCEPT ![w] = 0]
    /\ overlapped' = overlapped \ {w}
    /\ UNCHANGED <<stream, saving, raised, projection>>

Raise(w) ==
    /\ raised < EventBound
    /\ raised' = raised + 1
    /\ history' = [history EXCEPT ![w] = Append(@, raised')]
    /\ uncommitted' = [uncommitted EXCEPT ![w] = @ + 1]
    /\ overlapped' = IF w \in saving THEN overlapped \cup {w} ELSE overlapped
    /\ UNCHANGED <<stream, saving, projection>>

\* append stores the uncommitted events, then calls the subscribers: the
\* projection gets the first k of them if one throws, which fails the append.
StoreAndTell(w) ==
    LET new == SubSeq(history[w], Stored(w) + 1, Len(history[w])) IN
    \E k \in 0..Len(new), ok \in BOOLEAN :
        /\ ok => k = Len(new)
        /\ stream' = stream \o new
        /\ saving' = IF ok THEN saving \cup {w} ELSE saving
        /\ view' = view \o SubSeq(new, 1, k)
        /\ mixed' = (mixed \/ k < Len(new) \/ (rebuild = "run" /\ todo # <<>>))

\* Mutant: the version is not compared.
SaveMutant(w) ==
    /\ w \notin saving /\ uncommitted[w] > 0
    /\ StoreAndTell(w)
    /\ UNCHANGED <<history, uncommitted, overlapped, raised, todo, rebuild>>
\* With another version than expected append rejects and changes nothing.
Save(w) ==
    /\ w \notin saving /\ uncommitted[w] > 0
    /\ Len(stream) = Stored(w)
    /\ StoreAndTell(w)
    /\ UNCHANGED <<history, uncommitted, overlapped, raised, todo, rebuild>>

\* markCommitted, after the await: of all that was raised by now.
MarkCommitted(w) ==
    /\ w \in saving
    /\ saving' = saving \ {w}
    /\ uncommitted' = [uncommitted EXCEPT ![w] = 0]
    /\ UNCHANGED <<stream, history, overlapped, raised, projection>>

(***************************************************************************)
(* Rebuild                                                                 *)
(***************************************************************************)
ReadStream ==
    /\ rebuild = "none"
    /\ rebuild' = "read" /\ todo' = stream
    /\ UNCHANGED <<stream, aggregates, view, mixed>>

\* Mutant: the projection is not reset.
ResetMutant ==
    /\ rebuild = "read"
    /\ rebuild' = "run"
    /\ mixed' = (todo # stream)
    /\ UNCHANGED <<stream, aggregates, view, todo>>
Reset ==
    /\ rebuild = "read"
    /\ rebuild' = "run" /\ view' = <<>>
    /\ mixed' = (todo # stream)
    /\ UNCHANGED <<stream, aggregates, todo>>

\* An event is projected, or counted as an error.
ProjectNext ==
    /\ rebuild = "run" /\ todo # <<>>
    /\ todo' = Tail(todo)
    /\ \/ view' = Append(view, Head(todo)) /\ UNCHANGED mixed
       \/ mixed' = TRUE /\ UNCHANGED view
    /\ UNCHANGED <<stream, aggregates, rebuild>>

RebuildEnds ==
    /\ rebuild = "run" /\ todo = <<>>
    /\ rebuild' = "none"
    /\ UNCHANGED <<stream, aggregates, view, todo, mixed>>

EsNext ==
    \/ \E w \in Writers : Load(w) \/ Raise(w) \/ Save(w) \/ MarkCommitted(w)
    \/ ReadStream \/ Reset \/ ProjectNext \/ RebuildEnds

EsSpec == EsInit /\ [][EsNext]_esVars

(***************************************************************************)
(* Properties                                                              *)
(***************************************************************************)
\* No event is stored twice, not by the retry of an append that failed after
\* it had stored either (line 75); and what an aggregate takes for stored is
\* the stream's beginning, unless events were raised while an append was
\* awaited, which markCommitted (line 64) then forgets.
StreamAgrees ==
    /\ \A i, j \in DOMAIN stream : stream[i] = stream[j] => i = j
    /\ \A w \in Writers \ overlapped :
           /\ Stored(w) <= Len(stream)
           /\ SubSeq(history[w], 1, Stored(w)) = SubSeq(stream, 1, Stored(w))

\* The projection shows the stream in order, unless an append fell between
\* the read and the last event of a rebuild (line 31), or the projection or
\* another subscriber threw, since the last rebuild.
ViewIsReplay == (rebuild = "none" /\ ~mixed) => view = stream
=============================================================================
