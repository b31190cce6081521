---------------------------- MODULE DataLoader ----------------------------
(***************************************************************************)
(* packages/web-graphql DataLoader: calls of load are queued for one flush *)
(* at the end of the turn, which hands their keys to the batch function.   *)
(* The function may answer a key with an error or not at all, and it may   *)
(* fail; batches are on their way beside each other.                       *)
(***************************************************************************)
CONSTANTS LoadCalls, LoadKeys

VARIABLES
    keyOf, load,    \* key of each call; "idle", "waiting", "value" or "error"
    loaded,         \* keys in the cache
    queue,          \* calls queued
    scheduled,      \* the flag
    turn,           \* the microtask that flushes is waiting
    batches,        \* batches the batch function works on, each a set of calls
    dropped         \* ghost: calls whose batch failed or had no result for them

loaderVars == <<keyOf, load, loaded, queue, scheduled, turn, batches, dropped>>

LoaderTypeOK ==
    /\ keyOf \in [LoadCalls -> LoadKeys]
    /\ load \in [LoadCalls -> {"idle", "waiting", "value", "error"}]
    /\ loaded \subseteq LoadKeys
    /\ queue \subseteq LoadCalls /\ scheduled \in BOOLEAN /\ turn \in BOOLEAN
    /\ batches \subseteq SUBSET LoadCalls /\ dropped \subseteq LoadCalls

LoaderInit ==
    /\ keyOf \in [LoadCalls -> LoadKeys]
    /\ load = [c \in LoadCalls |-> "idle"]
    /\ loaded = {} /\ queue = {} /\ scheduled = FALSE /\ turn = FALSE
    /\ batches = {} /\ dropped = {}

LoadKey(c) ==
    /\ load[c] = "idle"
    /\ IF keyOf[c] \in loaded
       THEN load' = [load EXCEPT ![c] = "value"] /\ UNCHANGED <<queue, scheduled, turn>>
       ELSE /\ load' = [load EXCEPT ![c] = "waiting"]
            /\ queue' = queue \cup {c}
            /\ scheduled' = TRUE /\ turn' = (turn \/ ~scheduled)
    /\ UNCHANGED <<keyOf, loaded, batches, dropped>>

\* Mutant: the flag is not reset.
FlushMutant ==
    /\ turn
    /\ batches' = batches \cup {queue}
    /\ queue' = {} /\ turn' = FALSE
    /\ UNCHANGED <<keyOf, load, loaded, scheduled, dropped>>
Flush ==
    /\ turn
    /\ batches' = batches \cup {queue}
    /\ queue' = {} /\ scheduled' = FALSE /\ turn' = FALSE
    /\ UNCHANGED <<keyOf, load, loaded, dropped>>

\* Calls of the batch get a value, an error or nothing; values are cached.
BatchAnswers(b) ==
    /\ b \in batches
    /\ batches' = batches \ {b}
    /\ \E good \in SUBSET b : \E bad \in SUBSET (b \ good) :
          /\ load' = [c \in LoadCalls |-> IF c \in good THEN "value"
                                          ELSE IF c \in bad THEN "error" ELSE load[c]]
          /\ loaded' = loaded \cup {keyOf[c] : c \in good}
          /\ dropped' = dropped \cup (b \ (good \cup bad))
    /\ UNCHANGED <<keyOf, queue, scheduled, turn>>

\* flush rejects, and nobody waits for it.
BatchFails(b) ==
    /\ b \in batches
    /\ batches' = batches \ {b}
    /\ dropped' = dropped \cup b
    /\ UNCHANGED <<keyOf, load, loaded, queue, scheduled, turn>>

Prime(k) == loaded' = loaded \cup {k} /\ UNCHANGED <<keyOf, load, queue, scheduled, turn, batches, dropped>>
ClearCache == loaded' = {} /\ UNCHANGED <<keyOf, load, queue, scheduled, turn, batches, dropped>>

BatchSettles(b) == BatchAnswers(b) \/ BatchFails(b)

LoaderNext ==
    \/ \E c \in LoadCalls : LoadKey(c)
    \/ Flush
    \/ \E b \in batches : BatchSettles(b)
    \/ ClearCache \/ \E k \in LoadKeys : Prime(k)

\* The microtask runs, and the batch function settles.
LoaderFairness ==
    /\ WF_loaderVars(Flush)
    /\ \A b \in SUBSET LoadCalls : WF_loaderVars(BatchSettles(b))

(***************************************************************************)
(* Properties                                                              *)
(***************************************************************************)
\* Every call of load is answered, whatever comes in while a batch is on its
\* way, unless its own batch fails or has no result for it (lines 69-85).
LoadsAnswered ==
    \A c \in LoadCalls : load[c] = "waiting" ~> load[c] # "waiting" \/ c \in dropped
=============================================================================
