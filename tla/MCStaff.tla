------------------------------ MODULE MCStaff ------------------------------
(* One user who authorizes their own devices, with one device allowed or two. *)
EXTENDS Access, TLC

CONSTANTS u1, d1, d2, d3

MCNone == {}
MCNoCoupons == [c \in {} |-> 1]
MCOneDevice == u1 :> 1
MCTwoDevices == u1 :> 2

MCSymmetry == Permutations({d1, d2, d3})
=============================================================================
