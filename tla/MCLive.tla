------------------------------- MODULE MCLive -------------------------------
(* One guest and one member of staff on one device, for liveness. *)
EXTENDS Access, TLC

CONSTANTS c1, u1

MCCouponLimit == c1 :> 1
MCCouponExpiry == c1 :> 2
MCStaffLimit == u1 :> 1
=============================================================================
