------------------------------ MODULE MCCoupon ------------------------------
(* Coupons alone: one coupon for one device, two guests. *)
EXTENDS Access, TLC

CONSTANTS c1, d1, d2, r1, r2

MCNoUnlimited == {}
MCCouponLimit == c1 :> 1
MCCouponExpiry == c1 :> 3
MCNoStaff == [u \in {} |-> 1]

\* No more devices are online than the only coupon admits (README: "over-limit
\* device is denied"): authorize and fail keep the controller in step with the
\* seats taken.
OnlineWithinLimit == Cardinality({d \in Devices : Online(d)}) <= MCCouponLimit[c1]

MCSymmetry == Permutations({d1, d2}) \cup Permutations({r1, r2})
=============================================================================
