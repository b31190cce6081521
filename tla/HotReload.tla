----------------------------- MODULE HotReload -----------------------------
(***************************************************************************)
(* packages/config HotReloadConfigLoader: start and reload each wait for   *)
(* the inner loader, which reads the sources in between: one source here.  *)
(* The configuration is the number of changes it had seen.                 *)
(***************************************************************************)
EXTENDS Naturals

CONSTANTS
    Loads, Listeners,           \* calls in progress, callbacks of onChange
    MaxChanges                  \* bound on the changes of the sources

ASSUME ConfigAssumption == MaxChanges \in Nat

VARIABLES
    sources,        \* changes the sources have seen
    call, read,     \* each call: "idle", "start" or "reload", and what it read
    current,        \* Unread: start has not returned yet
    listeners,      \* callbacks subscribed
    told,           \* what each was told last, Unread if nothing
    overtaken,      \* ghost: calls during which another has stored
    quiet           \* ghost: the last to store did not tell every listener

configVars == <<sources, call, read, current, listeners, told, overtaken, quiet>>

Unread   == MaxChanges + 1
Versions == 0..Unread

ConfigTypeOK ==
    /\ sources \in 0..MaxChanges
    /\ call \in [Loads -> {"idle", "start", "reload"}] /\ read \in [Loads -> Versions]
    /\ current \in Versions
    /\ listeners \subseteq Listeners /\ told \in [Listeners -> Versions]
    /\ overtaken \subseteq Loads /\ quiet \in BOOLEAN

ConfigInit ==
    /\ sources = 0
    /\ call = [c \in Loads |-> "idle"] /\ read = [c \in Loads |-> Unread]
    /\ current = Unread
    /\ listeners = {} /\ told = [l \in Listeners |-> Unread]
    /\ overtaken = {} /\ quiet = FALSE

SourcesChange ==
    /\ sources < MaxChanges
    /\ sources' = sources + 1
    /\ UNCHANGED <<call, read, current, listeners, told, overtaken, quiet>>

Begin(c, op) ==
    /\ call[c] = "idle"
    /\ call' = [call EXCEPT ![c] = op]
    /\ UNCHANGED <<sources, read, current, listeners, told, overtaken, quiet>>

ReadSources(c) ==
    /\ call[c] # "idle" /\ read[c] = Unread
    /\ read' = [read EXCEPT ![c] = sources]
    /\ UNCHANGED <<sources, call, current, listeners, told, overtaken, quiet>>

\* A call returns; those in progress are overtaken if it stored.
Over(c, others) ==
    /\ call' = [call EXCEPT ![c] = "idle"] /\ read' = [read EXCEPT ![c] = Unread]
    /\ overtaken' = (overtaken \ {c}) \cup {d \in others : call[d] # "idle"}

\* A source fails, or the configuration is not valid.
LoadFails(c) ==
    /\ call[c] # "idle"
    /\ Over(c, {})
    /\ UNCHANGED <<sources, current, listeners, told, quiet>>

\* Mutant: the listeners are told the value that was current before.
StoreMutant(c) ==
    /\ read[c] # Unread
    /\ current' = read[c]
    /\ \E heard \in SUBSET listeners :
          /\ told' = [l \in Listeners |-> IF call[c] = "reload" /\ l \in heard THEN current ELSE told[l]]
          /\ quiet' = (call[c] = "start" \/ heard # listeners)
    /\ Over(c, Loads \ {c})
    /\ UNCHANGED <<sources, listeners>>
\* start stores and tells nobody; a listener that throws keeps reload from
\* telling those behind it (the order of the Set is left open).
Store(c) ==
    /\ read[c] # Unread
    /\ current' = read[c]
    /\ \E heard \in SUBSET listeners :
          /\ told' = [l \in Listeners |-> IF call[c] = "reload" /\ l \in heard THEN read[c] ELSE told[l]]
          /\ quiet' = (call[c] = "start" \/ heard # listeners)
    /\ Over(c, Loads \ {c})
    /\ UNCHANGED <<sources, listeners>>

OnChange(l) ==
    /\ l \notin listeners
    /\ listeners' = listeners \cup {l}
    /\ told' = [told EXCEPT ![l] = Unread]
    /\ UNCHANGED <<sources, call, read, current, overtaken, quiet>>

Unsubscribe(l) ==
    /\ listeners' = listeners \ {l}
    /\ UNCHANGED <<sources, call, read, current, told, overtaken, quiet>>

ConfigNext ==
    \/ SourcesChange
    \/ \E c \in Loads : Begin(c, "start") \/ Begin(c, "reload") \/ ReadSources(c) \/ LoadFails(c) \/ Store(c)
    \/ \E l \in Listeners : OnChange(l) \/ Unsubscribe(l)

ConfigSpec == ConfigInit /\ [][ConfigNext]_configVars

(***************************************************************************)
(* Properties                                                              *)
(***************************************************************************)
\* A reload never takes the configuration back to an older one unless another
\* call stored while it was waiting; and a listener that was told anything
\* knows what get returns (lines 36-43), unless start stored last or a
\* listener threw.
ReloadsGoForward ==
    /\ [][\A c \in Loads \ overtaken : call[c] # "idle" /\ call'[c] = "idle" /\ current # Unread
            => current' >= current]_configVars
    /\ [](quiet \/ \A l \in listeners : told[l] \in {Unread, current})
=============================================================================
