-------------------------------- MODULE MCSetup --------------------------------
(* Up to two sites, a certificate the machine trusts and one it does not. *)
EXTENDS Setup, TLC

MCSymmetry == Permutations(Sites) \cup Permutations(Handlers)
=============================================================================
