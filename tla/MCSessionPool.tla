--------------------------- MODULE MCSessionPool ---------------------------
(* Instances of SessionPool for TLC. *)
EXTENDS SessionPool, TLC

(* Calls, direct callers and sessions are each interchangeable (used only   *)
(* where no liveness is checked).                                           *)
Symmetry == Permutations(Calls) \cup Permutations(DirectCalls) \cup Permutations(Sessions)
=============================================================================
