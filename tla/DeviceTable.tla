---------------------------- MODULE DeviceTable ----------------------------
(***************************************************************************)
(* The table device_authorizations (migrations/0001_init.sql) as a         *)
(* sequence of rows, and the queries and updates access.rs, revoke.rs and  *)
(* main.rs run on it.  A row's id is its position: the column is           *)
(* AUTOINCREMENT and only a setup reset, outside this module, deletes      *)
(* rows.  A device stands for both the MAC address and the controller's    *)
(* client id; the owner is the coupon (kind COUPON) or the user (STAFF).   *)
(***************************************************************************)
EXTENDS Controller, Sequences

CONSTANTS
    Coupons,        \* coupons issued, by id
    Unlimited,      \* those with unlimited_devices = 1
    CouponLimit,    \* device_limit of each coupon
    CouponExpiry,   \* expires_at of each coupon
    Users,          \* accounts that may authorize their own devices
    StaffLimit,     \* device_limit of each user
    StaffMinutes,   \* settings.staff_session_minutes
    None            \* SQL NULL

ASSUME TableAssumption ==
    /\ Unlimited \subseteq Coupons
    /\ IsFiniteSet(Devices)
    /\ Coupons \cap Users = {}
    /\ CouponLimit \in [Coupons -> Nat \ {0}]
    /\ CouponExpiry \in [Coupons -> 0..Forever]
    /\ StaffLimit \in [Users -> Nat \ {0}]
    /\ StaffMinutes \in 1..Forever - 1
    /\ None \notin Nat \cup Coupons \cup Users \cup Devices

Statuses == {"PENDING", "ACTIVE", "REVOKED", "FAILED"}

Owners == Coupons \cup Users

Row == [owner : Owners, dev : Devices, status : Statuses,
        expires : Nat, created : Nat, authorizedAt : Nat \cup {None}]

\* What both INSERTs write; the row starts as a reservation.
NewRow(o, d, expires, at) ==
    [owner |-> o, dev |-> d, status |-> "PENDING",
     expires |-> expires, created |-> at, authorizedAt |-> None]

Occupies(row) == row.status \in {"PENDING", "ACTIVE"}

\* Ids of the rows the two COUNT queries see at time at.
Held(t, o, at) ==
    {i \in DOMAIN t : t[i].owner = o /\ Occupies(t[i]) /\ t[i].expires > at}

DevicesOf(t, ids) == {t[i].dev : i \in ids}

\* SELECT EXISTS: the device already has access under this owner.
ActiveOn(t, o, d, at) ==
    \E i \in Held(t, o, at) : t[i].dev = d /\ t[i].status = "ACTIVE"

\* The partial unique indices admit one occupying row per owner and device.
IndexTaken(t, o, d) ==
    \E i \in DOMAIN t : t[i].owner = o /\ t[i].dev = d /\ Occupies(t[i])

\* Mutant: the limit test admits one device too many.
CouponFullOffByOne(t, c, at) ==
    /\ c \notin Unlimited
    /\ Cardinality(DevicesOf(t, Held(t, c, at))) > CouponLimit[c]

CouponFull(t, c, at) ==
    /\ c \notin Unlimited
    /\ Cardinality(DevicesOf(t, Held(t, c, at))) >= CouponLimit[c]

StaffFull(t, u, at) == Cardinality(Held(t, u, at)) >= StaffLimit[u]

\* ORDER BY authorized_at LIMIT 1 over the user's ACTIVE rows, expired or not;
\* SQLite may pick any of the rows that tie.
OldestActive(t, u) ==
    LET active == {i \in DOMAIN t : t[i].owner = u /\ t[i].status = "ACTIVE"}
    IN  {i \in active : \A j \in active : t[i].authorizedAt <= t[j].authorizedAt}

\* ACTIVE rows of one owner: what a coupon's revocation selects.
ActiveIds(t, o) == {i \in DOMAIN t : t[i].owner = o /\ t[i].status = "ACTIVE"}

\* ACTIVE rows of anyone whose time is over: what the reconciler selects.
ExpiredIds(t, at) == {i \in DOMAIN t : t[i].status = "ACTIVE" /\ t[i].expires <= at}

\* Mutant: the reason lands in the status column.
SetStatusReason(t, ids, s) ==
    [i \in DOMAIN t |-> IF i \in ids
                        THEN [t[i] EXCEPT !.status = IF s = "REVOKED" THEN "EXPIRED" ELSE s]
                        ELSE t[i]]

\* UPDATE ... SET status=s WHERE id IN ids
SetStatus(t, ids, s) ==
    [i \in DOMAIN t |-> IF i \in ids THEN [t[i] EXCEPT !.status = s] ELSE t[i]]
=============================================================================
