------------------------------ MODULE MCSecret ------------------------------
(* Four starts of the process, overlapping, failing and losing power. *)
EXTENDS SecretFile, TLC

MCSymmetry == Permutations(Starts)
=============================================================================
