------------------------- MODULE MCIdempotentUseCase -------------------------
(* Instances of IdempotentUseCase for TLC: requests are interchangeable.   *)
EXTENDS IdempotentUseCase, TLC

Symmetry == Permutations(Requests)
=============================================================================
