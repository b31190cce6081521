----------------------------- MODULE MCDuplicates -----------------------------
(***************************************************************************)
(* Where the same thing is done twice: poll cycles of the relay that       *)
(* overlap on a message, and requests that carry the same idempotency key. *)
(* They share no state: a behaviour is one of the part chosen at its       *)
(* start. Cycles and requests are interchangeable.                         *)
(***************************************************************************)
EXTENDS OutboxRelay, IdempotentUseCase, TLC

VARIABLE part       \* the part that takes steps

DuplicatesInit == part \in {"relay", "key"} /\ Init /\ IdemInit

DuplicatesNext ==
    /\ UNCHANGED part
    /\ \/ part = "relay" /\ Next /\ UNCHANGED idemVars
       \/ part = "key" /\ IdemNext /\ UNCHANGED vars

DuplicatesSpec == DuplicatesInit /\ [][DuplicatesNext]_<<vars, idemVars, part>>

Symmetry == Permutations(Cycles) \cup Permutations(Requests)
=============================================================================
