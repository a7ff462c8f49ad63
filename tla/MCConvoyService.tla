-------------------------- MODULE MCConvoyService --------------------------
(* Symmetry for the runs of ConvoyService.                                 *)
EXTENDS ConvoyService, TLC

Symmetry == Permutations(Person) \cup Permutations(Convoy) \cup Permutations(Req)
=============================================================================
