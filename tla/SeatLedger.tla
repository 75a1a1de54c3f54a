----------------------------- MODULE SeatLedger -----------------------------
(***************************************************************************)
(* What coupons promise, without rows, transactions or a controller: a     *)
(* coupon has seats, a seat is taken only while there is room and the      *)
(* coupon is not revoked, and seats may be given up at any time.           *)
(***************************************************************************)
EXTENDS Naturals, FiniteSets

CONSTANTS Coupons, Unlimited, CouponLimit, Devices

VARIABLES
    seats,      \* seats[c]: the devices that hold coupon c
    closed      \* revoked coupons

Init ==
    /\ seats = [c \in Coupons |-> {}]
    /\ closed = {}

Room(c) == c \in Unlimited \/ Cardinality(seats[c]) < CouponLimit[c]

Take(c, d) ==
    /\ c \notin closed
    /\ d \notin seats[c]
    /\ Room(c)
    /\ seats' = [seats EXCEPT ![c] = @ \cup {d}]
    /\ UNCHANGED closed

Close(c) ==
    /\ closed' = closed \cup {c}
    /\ UNCHANGED seats

\* One step may give up several seats: the reconciler fails all overdue
\* reservations in one statement.
Release ==
    /\ \E kept \in [Coupons -> SUBSET Devices] :
          /\ \A c \in Coupons : kept[c] \subseteq seats[c]
          /\ seats' = kept
    /\ UNCHANGED closed

Next ==
    \/ \E c \in Coupons : Close(c) \/ \E d \in Devices : Take(c, d)
    \/ Release

Spec == Init /\ [][Next]_<<seats, closed>>
=============================================================================
