------------------------- MODULE MCDiagnosticsQueue -------------------------
(* The instances of DiagnosticsQueue that TLC checks. *)
EXTENDS DiagnosticsQueue, TLC

Symmetry == Permutations(Id) \cup Permutations(Key) \cup Permutations(Data)
=============================================================================
