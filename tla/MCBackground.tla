----------------------------- MODULE MCBackground -----------------------------
(***************************************************************************)
(* What a service does on timers: the relay of its outbox and its          *)
(* scheduler. They share no state, so that interleaving their steps would  *)
(* show nothing: a behaviour is one of the part chosen at its start.       *)
(***************************************************************************)
EXTENDS OutboxRelay, JobScheduler

VARIABLE part       \* the part that takes steps

BackgroundInit == part \in {"relay", "scheduler"} /\ Init /\ SchedInit

BackgroundNext ==
    /\ UNCHANGED part
    /\ \/ part = "relay" /\ Next /\ UNCHANGED schedVars
       \/ part = "scheduler" /\ SchedNext /\ UNCHANGED vars

BackgroundSpec ==
    BackgroundInit /\ [][BackgroundNext]_<<vars, schedVars, part>> /\ Fairness /\ SchedFairness
=============================================================================
