------------------------------ MODULE MCMixed ------------------------------
(* A coupon that never expires and a staff account on the same devices. *)
EXTENDS Access, TLC

CONSTANTS c1, u1, d1, r1, r2

MCCouponLimit == c1 :> 1
MCCouponExpiry == c1 :> Forever
MCStaffLimit == u1 :> 1

MCSymmetry == Permutations({r1, r2})
=============================================================================
