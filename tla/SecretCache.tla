---------------------------- MODULE SecretCache ----------------------------
(***************************************************************************)
(* packages/secrets CachedSecretsAdapter around a remote SecretsPort. Each *)
(* key is on its own: there is one. A call is idle, waits for the backend  *)
(* to execute it ("asked"), or has been executed and waits for the reply   *)
(* ("done"). Values are "live", or "dead" once the backend has moved on.   *)
(* CachingBehavior (application/mediator) has the same shape: handle is a  *)
(* get, and a change of data followed by invalidate is a rotate.           *)
(***************************************************************************)
CONSTANTS Clients   \* calls that may be in progress at a time

VARIABLES
    cached,         \* the entry of the cache Map, "none" if there is none
    exists,         \* whether the backend has the secret
    op, step,       \* operation of each call and how far it is
    got,            \* value a call has read or written
    crossed,        \* ghost: calls in progress when a change reached the cache,
                    \* or failed to reach it
    excused         \* ghost: the entry comes from a crossed call, or a change
                    \* executed by the backend was reported as failed

secretVars == <<cached, exists, op, step, got, crossed, excused>>

Cells   == {"none", "live", "dead"}
Changes == {"set", "delete", "rotate"}
Busy    == {c \in Clients : step[c] # "idle"}

SecretTypeOK ==
    /\ cached \in Cells
    /\ exists \in BOOLEAN /\ excused \in BOOLEAN
    /\ op \in [Clients -> Changes \cup {"get"}]
    /\ step \in [Clients -> {"idle", "asked", "done"}]
    /\ got \in [Clients -> Cells]
    /\ crossed \in SUBSET Clients

SecretInit ==
    /\ cached = "none" /\ exists = TRUE
    /\ op = [c \in Clients |-> "get"]
    /\ step = [c \in Clients |-> "idle"]
    /\ got = [c \in Clients |-> "none"]
    /\ crossed = {} /\ excused = FALSE

Die(x) == IF x = "live" THEN "dead" ELSE x

\* A call ends; nothing of it is kept.
Return(c) ==
    /\ step' = [step EXCEPT ![c] = "idle"]
    /\ op' = [op EXCEPT ![c] = "get"]
    /\ got' = [got EXCEPT ![c] = "none"]

\* The call of the backend. A get that hits the cache changes nothing.
Ask(c, o) ==
    /\ step[c] = "idle"
    /\ o = "get" => cached = "none"
    /\ op' = [op EXCEPT ![c] = o]
    /\ step' = [step EXCEPT ![c] = "asked"]
    /\ UNCHANGED <<cached, exists, got, crossed, excused>>

\* The backend answers a get.
BackendReads(c) ==
    /\ step[c] = "asked" /\ op[c] = "get"
    /\ step' = [step EXCEPT ![c] = "done"]
    /\ got' = [got EXCEPT ![c] = IF exists THEN "live" ELSE "none"]
    /\ UNCHANGED <<cached, exists, op, crossed, excused>>

\* The backend executes a change: all older values are dead.
BackendChanges(c) ==
    /\ step[c] = "asked" /\ op[c] \in Changes
    /\ op[c] = "rotate" => exists
    /\ step' = [step EXCEPT ![c] = "done"]
    /\ exists' = (op[c] # "delete")
    /\ cached' = Die(cached)
    /\ got' = [d \in Clients |-> IF d # c THEN Die(got[d])
                                 ELSE IF op[c] = "set" THEN "live" ELSE "none"]
    /\ UNCHANGED <<op, crossed, excused>>

\* get, after the await: a value found is cached, whatever has happened since.
Fill(c) ==
    /\ step[c] = "done" /\ op[c] = "get"
    /\ cached' = IF got[c] = "none" THEN cached ELSE got[c]
    /\ excused' = IF got[c] = "none" THEN excused ELSE c \in crossed
    /\ crossed' = crossed \ {c}
    /\ Return(c)
    /\ UNCHANGED exists

\* Mutant: rotate leaves the entry.
ApplyMutant(c) ==
    /\ step[c] = "done" /\ op[c] \in Changes
    /\ cached' = IF op[c] = "rotate" THEN cached ELSE got[c]
    /\ excused' = (op[c] = "set" /\ c \in crossed)
    /\ crossed' = Busy \ {c}
    /\ Return(c)
    /\ UNCHANGED exists
\* set, delete and rotate, after the await: the entry is replaced or removed.
Apply(c) ==
    /\ step[c] = "done" /\ op[c] \in Changes
    /\ cached' = got[c]
    /\ excused' = (op[c] = "set" /\ c \in crossed)
    /\ crossed' = Busy \ {c}
    /\ Return(c)
    /\ UNCHANGED exists

\* The backend rejects, before or after it has executed the call: the cache
\* is left as it is.
BackendFails(c) ==
    /\ step[c] # "idle"
    /\ LET lost == step[c] = "done" /\ op[c] \in Changes IN
       /\ excused' = (excused \/ lost)
       /\ crossed' = (IF lost THEN Busy ELSE crossed) \ {c}
    /\ Return(c)
    /\ UNCHANGED <<cached, exists>>

\* The time to live of the entry is over.
Expire ==
    /\ cached # "none"
    /\ cached' = "none" /\ excused' = FALSE
    /\ UNCHANGED <<exists, op, step, got, crossed>>

SecretNext ==
    \/ Expire
    \/ \E c \in Clients :
          \/ \E o \in Changes \cup {"get"} : Ask(c, o)
          \/ BackendReads(c) \/ BackendChanges(c) \/ Fill(c) \/ Apply(c) \/ BackendFails(c)

SecretSpec == SecretInit /\ [][SecretNext]_secretVars

\* The cache holds a value the backend no longer has only while the change is
\* on its way, or if the call that cached it was in progress when the change
\* reached the cache: get (line 51) and set (line 61) write what they hold
\* after an await. ("evicted on set, delete, and rotate to stay consistent",
\* line 24.)
StaleOnlyIfCrossed ==
    cached = "dead" => excused \/ \E c \in Clients : step[c] = "done" /\ op[c] \in Changes
=============================================================================
