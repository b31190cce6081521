---------------------------- MODULE ProcessStore ----------------------------
(***************************************************************************)
(* packages/process-manager InMemoryProcessStore: processes by id, and an  *)
(* index from correlation ids to the process saved last under them. Of a   *)
(* process the model keeps its correlation id.                             *)
(***************************************************************************)
CONSTANTS
    Processes, Correlations,
    Nothing         \* no process, no correlation id, or no entry

Absent == "absent"

ASSUME StoreAssumption ==
    Nothing \notin Processes \cup Correlations /\ Absent \notin Correlations \cup {Nothing}

VARIABLES
    byId,           \* correlation id of each process, or Absent
    byCorrelation,  \* index entry of each correlation id
    contested       \* ghost: correlation ids given to a process while another
                    \* one had them, and held by some process ever since

storeVars == <<byId, byCorrelation, contested>>

StoreTypeOK ==
    /\ byId \in [Processes -> Correlations \cup {Nothing, Absent}]
    /\ byCorrelation \in [Correlations -> Processes \cup {Nothing}]
    /\ contested \subseteq Correlations

StoreInit ==
    /\ byId = [p \in Processes |-> Absent]
    /\ byCorrelation = [c \in Correlations |-> Nothing]
    /\ contested = {}

Contest(p, c) ==
    contested' = {d \in Correlations :
                    /\ d \in contested \/ (d = c /\ \E q \in Processes \ {p} : byId[q] = d)
                    /\ \E q \in Processes : byId'[q] = d}

\* Mutant: an entry is written only if there is none.
SaveProcessMutant(p, c) ==
    /\ byId' = [byId EXCEPT ![p] = c]
    /\ byCorrelation' = [d \in Correlations |->
                            IF d = c /\ byCorrelation[d] = Nothing THEN p ELSE byCorrelation[d]]
    /\ Contest(p, c)
\* save: the entry of an earlier correlation id stays.
SaveProcess(p, c) ==
    /\ byId' = [byId EXCEPT ![p] = c]
    /\ byCorrelation' = [d \in Correlations |-> IF d = c THEN p ELSE byCorrelation[d]]
    /\ Contest(p, c)

\* delete: the entry goes, whichever process it has come to point to.
DeleteProcess(p) ==
    /\ byId[p] # Absent
    /\ byCorrelation' = [c \in Correlations |-> IF c = byId[p] THEN Nothing ELSE byCorrelation[c]]
    /\ byId' = [byId EXCEPT ![p] = Absent]
    /\ Contest(p, Nothing)

StoreNext ==
    \E p \in Processes :
        \/ DeleteProcess(p)
        \/ \E c \in Correlations \cup {Nothing} : SaveProcess(p, c)

StoreSpec == StoreInit /\ [][StoreNext]_storeVars

\* A stored process is found under its correlation id, through any changes of
\* ids, unless the id was given to two processes at a time: then the index
\* knows the one saved last, and none once either is deleted (line 47).
FoundByCorrelation ==
    \A p \in Processes :
        byId[p] \in Correlations \ contested => byCorrelation[byId[p]] = p
=============================================================================
