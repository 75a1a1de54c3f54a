----------------------------- MODULE MCAccounts -----------------------------
(* Two identities, each with its own address, and two browsers. *)
EXTENDS Accounts, TLC

CONSTANTS g1, g2, e1, e2

MCEmailOf == g1 :> e1 @@ g2 :> e2

MCSymmetry == Permutations(Handlers) \cup Permutations(Browsers)
=============================================================================
