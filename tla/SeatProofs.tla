----------------------------- MODULE SeatProofs -----------------------------
(***************************************************************************)
(* Coupons admit no more devices than their limit, rows only move forward, *)
(* and the handlers implement SeatLedger, for every value of the constants *)
(* with Prompt; without it, a coupon's row is inserted only where there is *)
(* room, and what is revoked stays revoked.                                *)
(*                                                                         *)
(* The inductive invariants are SeatInv and RowsInv of module Access.      *)
(* With Prompt every step but the two INSERTs has the same shape           *)
(* (Settles): rows stay where they are, their status moves forward, and    *)
(* the row a running request holds stays PENDING unless that request ends. *)
(* The lemmas first derive the parts of SeatInv from that shape, then show *)
(* it action by action.  Without Prompt a reservation may be failed under  *)
(* its request, so a row may also go from FAILED to ACTIVE (StepKinds).    *)
(***************************************************************************)
EXTENDS AccessProofs

\* Row i stays, and moves forward.
Forward(i) ==
    /\ i \in DOMAIN auths'
    /\ auths'[i].owner = auths[i].owner /\ auths'[i].dev = auths[i].dev
    /\ auths'[i].expires = auths[i].expires /\ auths'[i].created = auths[i].created
    /\ \/ auths'[i].status = auths[i].status
       \/ auths[i].status = "PENDING" /\ auths'[i].status \in {"ACTIVE", "FAILED"}
       \/ auths[i].status = "ACTIVE" /\ auths'[i].status = "REVOKED"

\* Request q keeps its place, ends, goes on with its reservation, or starts.
Onward(q) ==
    \/ req'[q] = req[q]
    \/ req'[q] = NoRequest
    \/ /\ Holding(q) /\ Holding(q)'
       /\ req'[q].owner = req[q].owner /\ req'[q].at = req[q].at
       /\ req'[q].row = req[q].row
       /\ req'[q].pc \in {"replace", "retire"} =>
             req[q].pc \in {"replace", "retire"} /\ req'[q].old = req[q].old
    \/ req'[q].pc \in {"reading", "resolving"} /\ req'[q].at = now

\* The reservation of a request that goes on is not settled by anyone.
Kept(q) == Holding(q) /\ Holding(q)' => auths'[req[q].row].status = "PENDING"

\* The shape of a step that inserts no row.
Settles ==
    /\ DOMAIN auths' = DOMAIN auths
    /\ \A i \in DOMAIN auths : Forward(i)
    /\ \A q \in Portal : Onward(q) /\ Kept(q)

-----------------------------------------------------------------------------
(* Seats held *)

LEMMA HeldFinite ==
    ASSUME WellFormed, NEW c
    PROVE  /\ HeldDevices(c) \subseteq Devices
           /\ IsFiniteSet(HeldDevices(c)) /\ Cardinality(HeldDevices(c)) \in Nat
  <1>1. HeldDevices(c) \subseteq Devices
    BY RowsTyped DEF HeldDevices, DevicesOf, WellFormed, TypeOK
  <1> QED
    BY <1>1, TableAssumption, FS_Subset, FS_CardinalityType

\* A step that only settles rows can free seats, never take one.
LEMMA HeldShrinks ==
    ASSUME WellFormed, DOMAIN auths' = DOMAIN auths, \A i \in DOMAIN auths : Forward(i),
           NEW c
    PROVE  /\ HeldDevices(c)' \subseteq HeldDevices(c)
           /\ Cardinality(HeldDevices(c)') <= Cardinality(HeldDevices(c))
  <1>1. HeldDevices(c)' \subseteq HeldDevices(c)
    BY DEF HeldDevices, DevicesOf, Occupies, Forward
  <1> QED
    BY <1>1, HeldFinite, FS_Subset

\* The COUNT query of a redemption at a time before the coupon's expiry counts
\* exactly the devices that hold it.
LEMMA CountIsHeld ==
    ASSUME ExpiryCopied, NEW c \in Coupons, NEW at \in Nat, CouponExpiry[c] > at
    PROVE  DevicesOf(auths, Held(auths, c, at)) = HeldDevices(c)
  <1>1. Held(auths, c, at) = {i \in DOMAIN auths : auths[i].owner = c /\ Occupies(auths[i])}
    BY DEF Held, ExpiryCopied
  <1> QED
    BY <1>1 DEF HeldDevices

-----------------------------------------------------------------------------
(* The parts of SeatInv, from the shape of a step *)

LEMMA SettlesReservations ==
    ASSUME WellFormed, ReservationsOwned, Settles
    PROVE  ReservationsOwned'
  <1> SUFFICES ASSUME NEW r \in Portal, Holding(r)'
               PROVE  /\ auths'[req'[r].row].status = "PENDING"
                      /\ auths'[req'[r].row].owner = req'[r].owner
                      /\ auths'[req'[r].row].created = req'[r].at
                      /\ \A q \in Portal \ {r} : Holding(q)' => req'[q].row # req'[r].row
    BY DEF ReservationsOwned
  <1>1. \A q \in Portal : Holding(q)' =>
            /\ Holding(q) /\ req'[q].row = req[q].row
            /\ req'[q].owner = req[q].owner /\ req'[q].at = req[q].at
    BY DEF Settles, Onward, Holding, NoRequest
  <1>2. req[r].row \in DOMAIN auths
    BY <1>1 DEF WellFormed, RequestsWellFormed
  <1> QED
    BY <1>1, <1>2 DEF ReservationsOwned, Settles, Kept, Forward

LEMMA GrantedStays ==
    ASSUME \A i \in DOMAIN auths : Forward(i), NEW i, Granted(i)
    PROVE  Granted(i)'
  BY DEF Granted, Forward

\* A revoke request takes into its queue, and as its row, what it finds granted.
LEMMA RevocationTargets ==
    ASSUME WellFormed, RevokedGranted, [Next]_vars, \A i : Granted(i) => Granted(i)'
    PROVE  RevokedGranted'
  <1>0. /\ adm \in [Admins -> Revocation]
        /\ \A b \in Admins : /\ adm[b].pc = "mark" => Granted(adm[b].row)
                             /\ \A i \in adm[b].queue : Granted(i)
    BY DEF WellFormed, TypeOK, RevokedGranted
  <1> SUFFICES ASSUME NEW b \in Admins, NEW i,
                      \/ adm'[b].pc = "mark" /\ i = adm'[b].row
                      \/ i \in adm'[b].queue
               PROVE  Granted(i)'
    BY DEF RevokedGranted
  <1>1. ASSUME NEW a \in Admins, AdminStep(a)
        PROVE  Granted(i)
    <2>0. adm[a] \in Revocation
      BY <1>0
    <2>1. CASE b # a
      <3>1. adm'[b] = adm[b]
        BY <1>0, <1>1, <2>1 DEF AdminStep, RevokeUnauthorize, RevokeCommit, CouponSelect,
           CouponMark, CouponAudit, CouponUnauthorize, RevokeEnd, RevokeEndSent, AdmGoto
      <3> QED
        BY <1>0, <3>1
    <2>2. CASE b = a /\ \E j \in adm[a].queue : CouponUnauthorize(a, j)
      <3>1. PICK j \in adm[a].queue, ok \in BOOLEAN :
               adm' = [adm EXCEPT ![a].queue = @ \ {j},
                                  ![a].pc = IF ok THEN "mark" ELSE "loop",
                                  ![a].row = IF ok THEN j ELSE 0,
                                  ![a].failed = @ \/ ~ok]
        BY <2>2 DEF CouponUnauthorize
      <3>2. /\ adm'[a].pc = "mark" => adm'[a].row = j
            /\ adm'[a].queue = adm[a].queue \ {j}
        BY <1>0, <2>0, <3>1 DEF Revocation
      <3> QED
        BY <1>0, <2>2, <3>2
    <2>3. CASE b = a /\ CouponSelect(a)
      <3>1. adm'[a].pc = "loop" /\ adm'[a].queue = ActiveIds(auths, adm[a].coupon)
        BY <1>0, <2>0, <2>3 DEF CouponSelect, Revocation
      <3> QED
        BY <2>3, <3>1 DEF ActiveIds, Granted
    <2>4. CASE /\ b = a
               /\ RevokeUnauthorize(a) \/ RevokeCommit(a) \/ CouponMark(a)
                  \/ CouponAudit(a) \/ RevokeEnd(a) \/ RevokeEndSent(a)
      <3>1. adm'[a].pc # "mark" /\ adm'[a].queue \subseteq adm[a].queue
        BY <1>0, <2>0, <2>4 DEF RevokeUnauthorize, RevokeCommit, CouponMark, CouponAudit,
           RevokeEnd, RevokeEndSent, AdmGoto, NoRevocation, Revocation
      <3> QED
        BY <1>0, <2>4, <3>1
    <2> QED
      BY <1>1, <2>1, <2>2, <2>3, <2>4 DEF AdminStep
  <1>2. ASSUME NEW a \in Admins,
               \/ \E j \in DOMAIN auths : RevokeSelect(a, j)
               \/ \E c \in Coupons : CouponRevoke(a, c)
        PROVE  Granted(i)
    <2>1. PICK pc \in {"unauthorize", "select"} :
             /\ \A q \in Admins \ {a} : adm'[q] = adm[q]
             /\ adm'[a].pc = pc /\ adm'[a].queue = adm[a].queue
      BY <1>0, <1>2 DEF RevokeSelect, CouponRevoke, Revocation
    <2> QED
      BY <1>0, <2>1
  <1>3. ASSUME adm' = adm
        PROVE  Granted(i)
    BY <1>0, <1>3
  <1>4. ~Restart
    BY DEF Restart, NoRevocation
  <1>5. Granted(i)
    BY <1>1, <1>2, <1>3, <1>4 DEF Next, Arrive, RedeemRead, StaffStart, PortalStep,
       RedeemReserve, StaffReserve, StaffReplace, StaffRetire, Authorize, Finalize, Fail,
       GiveUp, GiveUpSent, ReconStep, ReconTimeout, ReconTimeoutError, ReconSelect,
       ReconUnauthorize, ReconMark, ReconMarkError, ReconSleep, Late, Tick, vars
  <1> QED
    BY <1>5

LEMMA SettlesTargets ==
    ASSUME TargetsGranted, Settles
    PROVE  ReplacedGranted'
  <1> SUFFICES ASSUME NEW r \in Portal, req'[r].pc \in {"replace", "retire"},
                      NEW i, i = req'[r].old
               PROVE  Granted(i)'
    BY DEF ReplacedGranted
  <1>1. req[r].pc \in {"replace", "retire"} /\ req[r].old = i
    BY DEF Settles, Onward, NoRequest
  <1>2. Granted(i)
    BY <1>1 DEF TargetsGranted, ReplacedGranted
  <1> QED
    BY <1>2, GrantedStays DEF Settles

LEMMA SettlesTimely ==
    ASSUME WellFormed, Timely, Settles, now' = now
    PROVE  Timely'
  <1> SUFFICES ASSUME NEW r \in Portal, req'[r].pc # "idle"
               PROVE  now <= req'[r].at + ReservationTTL
    BY DEF Timely
  <1>1. now \in Nat /\ ReservationTTL \in Nat
    BY AccessAssumption DEF WellFormed, TypeOK, ControllerTypeOK
  <1>2. \/ req[r].pc # "idle" /\ req'[r].at = req[r].at
        \/ req'[r].at = now
    BY DEF Settles, Onward, NoRequest, Holding
  <1> QED
    BY <1>1, <1>2 DEF Timely

LEMMA SettlesExpiry ==
    ASSUME ExpiryCopied, Settles
    PROVE  ExpiryCopied'
  BY DEF ExpiryCopied, Settles, Forward

LEMMA SettlesLimit ==
    ASSUME WellFormed, CouponWithinLimit, Settles
    PROVE  CouponWithinLimit'
  <1> SUFFICES ASSUME NEW c \in Coupons \ Unlimited
               PROVE  Cardinality(HeldDevices(c)') <= CouponLimit[c]
    BY DEF CouponWithinLimit
  <1>1. CouponLimit[c] \in Nat
    BY TableAssumption
  <1>2. HeldDevices(c)' \subseteq HeldDevices(c)
    BY HeldShrinks DEF Settles
  <1>3. IsFiniteSet(HeldDevices(c)) /\ Cardinality(HeldDevices(c)) \in Nat
    BY HeldFinite
  <1>4. /\ Cardinality(HeldDevices(c)') <= Cardinality(HeldDevices(c))
        /\ Cardinality(HeldDevices(c)') \in Nat
    BY <1>2, <1>3, FS_Subset, FS_CardinalityType
  <1>5. Cardinality(HeldDevices(c)) <= CouponLimit[c]
    BY DEF CouponWithinLimit
  <1> QED
    BY <1>1, <1>3, <1>4, <1>5

\* A redemption that keeps reading keeps what it read, as long as no coupon
\* is revoked under it.
LEMMA SettlesRead ==
    ASSUME WellFormed, ReadStillTrue, Settles,
           NEW r \in Portal, req[r].pc = "reading", NEW c, c = req[r].owner
    PROVE  c \notin Unlimited => Cardinality(HeldDevices(c)') < CouponLimit[c]
  <1> SUFFICES ASSUME c \notin Unlimited
               PROVE  Cardinality(HeldDevices(c)') < CouponLimit[c]
    OBVIOUS
  <1>1. c \in Coupons /\ CouponLimit[c] \in Nat
    BY TableAssumption DEF WellFormed, RequestsWellFormed
  <1>2. HeldDevices(c)' \subseteq HeldDevices(c)
    BY HeldShrinks DEF Settles
  <1>3. IsFiniteSet(HeldDevices(c)) /\ Cardinality(HeldDevices(c)) \in Nat
    BY HeldFinite
  <1>4. /\ Cardinality(HeldDevices(c)') <= Cardinality(HeldDevices(c))
        /\ Cardinality(HeldDevices(c)') \in Nat
    BY <1>2, <1>3, FS_Subset, FS_CardinalityType
  <1>5. Cardinality(HeldDevices(c)) < CouponLimit[c]
    BY DEF ReadStillTrue
  <1> QED
    BY <1>1, <1>3, <1>4, <1>5

\* Redemptions that go on reading still see what they saw.
LEMMA SettlesReads ==
    ASSUME WellFormed, ReadStillTrue, Settles, revoked' = revoked,
           \A q \in Portal : req'[q].pc = "reading" => req'[q] = req[q]
    PROVE  ReadStillTrue'
  <1> SUFFICES ASSUME NEW r \in Portal, req'[r].pc = "reading", NEW c, c = req'[r].owner
               PROVE  /\ c \notin revoked
                      /\ c \notin Unlimited =>
                            Cardinality(HeldDevices(c)') < CouponLimit[c]
    BY DEF ReadStillTrue
  <1>1. req[r].pc = "reading" /\ c = req[r].owner
    OBVIOUS
  <1>2. c \notin revoked
    BY <1>1 DEF ReadStillTrue
  <1> QED
    BY <1>1, <1>2, SettlesRead

-----------------------------------------------------------------------------
(* The shape, action by action *)

LEMMA SameRows ==
    ASSUME auths' = auths
    PROVE  DOMAIN auths' = DOMAIN auths /\ \A i \in DOMAIN auths : Forward(i)
  BY DEF Forward

\* UPDATE to REVOKED of rows that were granted, or to FAILED of reservations.
LEMMA UpdatedRows ==
    ASSUME WellFormed, NEW ids, NEW s \in {"REVOKED", "FAILED"},
           auths' = SetStatus(auths, ids, s),
           \A i \in ids \cap DOMAIN auths :
               auths[i].status \in IF s = "REVOKED" THEN {"ACTIVE", "REVOKED"} ELSE {"PENDING"}
    PROVE  /\ DOMAIN auths' = DOMAIN auths
           /\ \A i \in DOMAIN auths : Forward(i)
           /\ \A i \in DOMAIN auths : i \notin ids => auths'[i] = auths[i]
  <1>1. s \in Statuses /\ auths \in Seq(Row)
    BY DEF Statuses, WellFormed, TypeOK
  <1>2. /\ DOMAIN auths' = DOMAIN auths
        /\ \A i \in DOMAIN auths :
              auths'[i] = IF i \in ids THEN [auths[i] EXCEPT !.status = s] ELSE auths[i]
    BY <1>1, SetStatusFacts
  <1>3. \A i \in DOMAIN auths : auths[i] \in Row
    BY <1>1, RowsTyped
  <1> QED
    BY <1>2, <1>3 DEF Forward, Row

\* Rows that leave reservations alone leave every request its own.
LEMMA OthersKept ==
    ASSUME WellFormed, ReservationsOwned,
           \A i \in DOMAIN auths : auths[i].status = "PENDING" => auths'[i] = auths[i]
    PROVE  \A q \in Portal : Kept(q)
  BY DEF Kept, ReservationsOwned, WellFormed, RequestsWellFormed

LEMMA RevokedRows ==
    ASSUME WellFormed, NEW ids, auths' = SetStatus(auths, ids, "REVOKED"),
           \A i \in ids \cap DOMAIN auths : auths[i].status \in {"ACTIVE", "REVOKED"}
    PROVE  /\ DOMAIN auths' = DOMAIN auths
           /\ \A i \in DOMAIN auths : Forward(i)
           /\ \A i \in DOMAIN auths : auths[i].status = "PENDING" => auths'[i] = auths[i]
  BY UpdatedRows

\* A request that ends and settles its own row leaves every other its own.
LEMMA OwnRowSettled ==
    ASSUME WellFormed, ReservationsOwned, NEW r \in Portal, Holding(r), ~Holding(r)',
           \A i \in DOMAIN auths : i # req[r].row => auths'[i] = auths[i]
    PROVE  \A q \in Portal : Kept(q)
  <1> SUFFICES ASSUME NEW q \in Portal, Holding(q), Holding(q)'
               PROVE  auths'[req[q].row].status = "PENDING"
    BY DEF Kept
  <1>1. req[q].row \in DOMAIN auths /\ auths[req[q].row].status = "PENDING"
    BY DEF ReservationsOwned, WellFormed, RequestsWellFormed
  <1>2. q # r
    OBVIOUS
  <1>3. req[q].row # req[r].row
    BY <1>2 DEF ReservationsOwned
  <1> QED
    BY <1>1, <1>3

\* The shape of a step that moves request r on and changes nothing it holds.
Moved(r) ==
    /\ \A q \in Portal \ {r} : req'[q] = req[q]
    /\ req'[r].owner = req[r].owner /\ req'[r].dev = req[r].dev /\ req'[r].at = req[r].at
    /\ req'[r].row = req[r].row /\ req'[r].old = req[r].old

LEMMA AuthorizeMoves ==
    ASSUME WellFormed, NEW r \in Portal, Authorize(r)
    PROVE  /\ Moved(r)
           /\ \/ req'[r].pc = "finalize" /\ req'[r].stamp = now
              \/ req'[r].pc = "fail"
  <1>1. PICK ok \in BOOLEAN :
           req' = [req EXCEPT ![r].pc = IF ok THEN "finalize" ELSE "fail",
                              ![r].stamp = IF ok THEN now ELSE 0]
    BY DEF Authorize
  <1>2. req \in [Portal -> Request]
    BY DEF WellFormed, TypeOK
  <1> QED
    BY <1>1, <1>2 DEF Moved, Request

LEMMA RequestSettles ==
    ASSUME SeatInv, NEW r \in Portal,
           \/ StaffReplace(r) \/ StaffRetire(r) \/ Authorize(r)
           \/ Finalize(r) \/ Fail(r) \/ GiveUp(r) \/ GiveUpSent(r)
    PROVE  /\ Settles /\ now' = now /\ revoked' = revoked /\ adm' = adm
           /\ \A q \in Portal : req'[q].pc = "reading" => req'[q] = req[q]
  <1> USE DEF SeatInv
  <1>0. /\ req \in [Portal -> Request]
        /\ \A q \in Portal : Holding(q) => req[q].row \in DOMAIN auths
    BY DEF WellFormed, TypeOK, RequestsWellFormed
  <1>1. CASE StaffReplace(r)
    <2>1. PICK pc \in {"retire", "fail"} : req' = [req EXCEPT ![r].pc = pc]
      BY <1>1 DEF StaffReplace, Goto
    <2>2. auths' = auths /\ now' = now /\ revoked' = revoked /\ adm' = adm
          /\ req[r].pc = "replace"
      BY <1>1 DEF StaffReplace, dbVars
    <2>3. \A q \in Portal : Onward(q)
      BY <1>0, <2>1, <2>2 DEF Onward, Holding, Request
    <2>4. \A q \in Portal : req'[q].pc = "reading" => req'[q] = req[q]
      BY <1>0, <2>1 DEF Request
    <2> QED
      BY <2>2, <2>3, <2>4, SameRows, OthersKept DEF Settles
  <1>2. CASE StaffRetire(r)
    <2>1. /\ req' = [req EXCEPT ![r].pc = "authorize"] /\ req[r].pc = "retire"
          /\ auths' = SetStatus(auths, {req[r].old}, "REVOKED")
          /\ now' = now /\ revoked' = revoked /\ adm' = adm
      BY <1>2 DEF StaffRetire, Goto
    <2>2. auths[req[r].old].status \in {"ACTIVE", "REVOKED"}
      BY <2>1 DEF TargetsGranted, ReplacedGranted, Granted
    <2>3. /\ DOMAIN auths' = DOMAIN auths /\ \A i \in DOMAIN auths : Forward(i)
          /\ \A i \in DOMAIN auths : auths[i].status = "PENDING" => auths'[i] = auths[i]
      <3>1. \A i \in {req[r].old} \cap DOMAIN auths : auths[i].status \in {"ACTIVE", "REVOKED"}
        BY <2>2
      <3> QED
        BY <2>1, <3>1, RevokedRows
    <2>4. \A q \in Portal : Kept(q)
      BY <2>3, OthersKept
    <2>5. \A q \in Portal : Onward(q)
      BY <1>0, <2>1 DEF Onward, Holding, Request
    <2>6. \A q \in Portal : req'[q].pc = "reading" => req'[q] = req[q]
      BY <1>0, <2>1 DEF Request
    <2> QED
      BY <2>1, <2>3, <2>4, <2>5, <2>6 DEF Settles
  <1>3. CASE Authorize(r)
    <2>1. Moved(r) /\ req'[r].pc \in {"finalize", "fail"}
      BY <1>3, AuthorizeMoves
    <2>2. auths' = auths /\ now' = now /\ revoked' = revoked /\ adm' = adm
          /\ req[r].pc = "authorize"
      BY <1>3 DEF Authorize, dbVars
    <2>3. \A q \in Portal : Onward(q)
      BY <2>1, <2>2 DEF Moved, Onward, Holding
    <2>4. \A q \in Portal : req'[q].pc = "reading" => req'[q] = req[q]
      BY <2>1 DEF Moved
    <2> QED
      BY <2>2, <2>3, <2>4, SameRows, OthersKept DEF Settles
  <1>4. ASSUME End(r)
        PROVE  /\ \A q \in Portal : Onward(q)
               /\ \A q \in Portal : req'[q].pc = "reading" => req'[q] = req[q]
               /\ \A q \in Portal : Holding(q)' => q # r
    BY <1>0, <1>4 DEF End, Onward, NoRequest, Holding
  <1>5. CASE Finalize(r)
    <2>1. /\ End(r) /\ now' = now /\ revoked' = revoked /\ adm' = adm
          /\ req[r].pc = "finalize"
          /\ auths' = [auths EXCEPT ![req[r].row].status = "ACTIVE",
                                    ![req[r].row].authorizedAt = req[r].stamp]
      BY <1>5 DEF Finalize
    <2>2. /\ Holding(r) /\ req[r].row \in DOMAIN auths /\ auths \in Seq(Row)
          /\ req[r].stamp \in Nat
          /\ auths[req[r].row].status = "PENDING" /\ auths[req[r].row] \in Row
      BY <1>0, <2>1, RowsTyped
      DEF Holding, ReservationsOwned, WellFormed, TypeOK, Request
    <2>3. /\ DOMAIN auths' = DOMAIN auths
          /\ auths'[req[r].row] = [auths[req[r].row] EXCEPT !.status = "ACTIVE",
                                                            !.authorizedAt = req[r].stamp]
          /\ \A i \in DOMAIN auths : i # req[r].row => auths'[i] = auths[i]
      BY <2>1, <2>2, ActivateFacts
    <2>4. \A i \in DOMAIN auths : Forward(i)
      <3>1. Forward(req[r].row)
        <4>1. /\ auths'[req[r].row].status = "ACTIVE"
              /\ auths'[req[r].row].owner = auths[req[r].row].owner
              /\ auths'[req[r].row].dev = auths[req[r].row].dev
              /\ auths'[req[r].row].expires = auths[req[r].row].expires
              /\ auths'[req[r].row].created = auths[req[r].row].created
          BY <2>2, <2>3 DEF Row
        <4> QED
          BY <2>2, <2>3, <4>1 DEF Forward
      <3>2. \A i \in DOMAIN auths : i # req[r].row => Forward(i)
        BY <2>3 DEF Forward
      <3> QED
        BY <3>1, <3>2
    <2>5. \A q \in Portal : Kept(q)
      BY <1>4, <2>1, <2>2, <2>3, OwnRowSettled
    <2> QED
      BY <1>4, <2>1, <2>3, <2>4, <2>5 DEF Settles
  <1>6. CASE Fail(r)
    <2>1. /\ End(r) /\ now' = now /\ revoked' = revoked /\ adm' = adm
          /\ req[r].pc = "fail" /\ auths' = SetStatus(auths, {req[r].row}, "FAILED")
      BY <1>6 DEF Fail
    <2>2. Holding(r) /\ auths[req[r].row].status = "PENDING"
      BY <2>1 DEF Holding, ReservationsOwned
    <2>3. /\ DOMAIN auths' = DOMAIN auths /\ \A i \in DOMAIN auths : Forward(i)
          /\ \A i \in DOMAIN auths : i # req[r].row => auths'[i] = auths[i]
      BY <2>1, <2>2, UpdatedRows
    <2>4. \A q \in Portal : Kept(q)
      BY <1>4, <2>1, <2>2, <2>3, OwnRowSettled
    <2> QED
      BY <1>4, <2>1, <2>3, <2>4 DEF Settles
  <1>7. CASE GiveUp(r) \/ GiveUpSent(r)
    <2>1. End(r) /\ now' = now /\ revoked' = revoked /\ adm' = adm /\ auths' = auths
      BY <1>7 DEF GiveUp, GiveUpSent, dbVars
    <2> QED
      BY <1>4, <2>1, SameRows, OthersKept DEF Settles
  <1> QED
    BY <1>1, <1>2, <1>3, <1>5, <1>6, <1>7
\* The administrators' handlers write only rows that were granted.
LEMMA RevocationSettles ==
    ASSUME SeatInv, NEW a \in Admins, AdminStep(a)
    PROVE  Settles /\ now' = now /\ revoked' = revoked /\ req' = req
  <1> USE DEF SeatInv
  <1>0. adm[a].pc = "mark" => Granted(adm[a].row)
    BY DEF TargetsGranted, RevokedGranted
  <1>1. now' = now /\ revoked' = revoked /\ req' = req
    BY DEF AdminStep, RevokeUnauthorize, RevokeCommit, CouponSelect, CouponMark,
           CouponAudit, CouponUnauthorize, RevokeEnd, RevokeEndSent, dbVars
  <1>2. /\ DOMAIN auths' = DOMAIN auths /\ \A i \in DOMAIN auths : Forward(i)
        /\ \A i \in DOMAIN auths : auths[i].status = "PENDING" => auths'[i] = auths[i]
    <2>1. CASE RevokeCommit(a) /\ auths[adm[a].row].status = "ACTIVE"
      <3>1. auths' = SetStatus(auths, {adm[a].row}, "REVOKED")
        BY <2>1 DEF RevokeCommit
      <3> QED
        BY <2>1, <3>1, RevokedRows
    <2>2. CASE CouponMark(a)
      <3>1. auths' = SetStatus(auths, {adm[a].row}, "REVOKED") /\ Granted(adm[a].row)
        BY <1>0, <2>2 DEF CouponMark
      <3>2. \A i \in {adm[a].row} \cap DOMAIN auths : auths[i].status \in {"ACTIVE", "REVOKED"}
        BY <3>1 DEF Granted
      <3> QED
        BY <3>1, <3>2, RevokedRows
    <2>3. CASE auths' = auths
      BY <2>3, SameRows
    <2> QED
      BY <2>1, <2>2, <2>3 DEF AdminStep, RevokeUnauthorize, RevokeCommit, CouponSelect,
         CouponMark, CouponAudit, CouponUnauthorize, RevokeEnd, RevokeEndSent, dbVars
  <1>3. Settles
    BY <1>1, <1>2, OthersKept DEF Settles, Onward
  <1> QED
    BY <1>1, <1>3

\* The reconciler revokes what was ACTIVE, and fails only reservations whose
\* request is gone: one that still runs is not overdue (Timely).
LEMMA ReconSettles ==
    ASSUME SeatInv, ReconStep
    PROVE  Settles /\ now' = now /\ revoked' = revoked /\ req' = req /\ adm' = adm
  <1> USE DEF SeatInv
  <1>1. now' = now /\ revoked' = revoked /\ req' = req /\ adm' = adm
    BY DEF ReconStep, ReconTimeout, ReconTimeoutError, ReconSelect, ReconUnauthorize,
           ReconMark, ReconMarkError, ReconSleep, dbVars
  <1>2. CASE ReconTimeout
    <2> DEFINE ids == {i \in DOMAIN auths : Overdue(auths[i], now)}
    <2>1. auths' = SetStatus(auths, ids, "FAILED")
      BY <1>2 DEF ReconTimeout
    <2>2. \A i \in ids \cap DOMAIN auths : auths[i].status = "PENDING"
      BY DEF Overdue
    <2>3. /\ DOMAIN auths' = DOMAIN auths /\ \A i \in DOMAIN auths : Forward(i)
          /\ \A i \in DOMAIN auths : i \notin ids => auths'[i] = auths[i]
      <3> HIDE DEF ids
      <3> QED
        BY <2>1, <2>2, UpdatedRows
    <2>4. ASSUME NEW q \in Portal, Holding(q)
          PROVE  req[q].row \notin ids /\ req[q].row \in DOMAIN auths
                 /\ auths[req[q].row].status = "PENDING"
      <3>1. /\ now \in Nat /\ ReservationTTL \in Nat /\ req[q].at \in Nat
            /\ req[q].pc # "idle"
        BY <2>4, AccessAssumption DEF Holding, WellFormed, TypeOK, ControllerTypeOK, Request
      <3>2. now <= req[q].at + ReservationTTL /\ auths[req[q].row].created = req[q].at
        BY <2>4, <3>1 DEF Timely, ReservationsOwned
      <3> QED
        BY <2>4, <3>1, <3>2 DEF Overdue, ReservationsOwned, WellFormed, RequestsWellFormed
    <2>5. \A q \in Portal : Kept(q)
      BY <2>3, <2>4 DEF Kept
    <2> QED
      BY <1>1, <2>3, <2>5 DEF Settles, Onward
  <1>3. CASE ReconMark /\ auths[recon.row].status = "ACTIVE"
    <2>1. auths' = SetStatus(auths, {recon.row}, "REVOKED")
      BY <1>3 DEF ReconMark
    <2>2. /\ DOMAIN auths' = DOMAIN auths /\ \A i \in DOMAIN auths : Forward(i)
          /\ \A i \in DOMAIN auths : auths[i].status = "PENDING" => auths'[i] = auths[i]
      <3>1. \A i \in {recon.row} \cap DOMAIN auths : auths[i].status \in {"ACTIVE", "REVOKED"}
        BY <1>3
      <3> QED
        BY <2>1, <3>1, RevokedRows
    <2> QED
      BY <1>1, <2>2, OthersKept DEF Settles, Onward
  <1>4. CASE auths' = auths
    BY <1>1, <1>4, SameRows, OthersKept DEF Settles, Onward
  <1> QED
    BY <1>1, <1>2, <1>3, <1>4 DEF ReconStep, ReconTimeout, ReconTimeoutError, ReconSelect,
       ReconUnauthorize, ReconMark, ReconMarkError, ReconSleep, dbVars

\* A request that starts takes no seat.
LEMMA StartSettles ==
    ASSUME SeatInv, NEW r \in Portal, NEW d \in Devices,
           \/ \E c \in Coupons : RedeemRead(r, c, d)
           \/ \E u \in Users : StaffStart(r, u, d)
    PROVE  Settles /\ now' = now /\ revoked' = revoked /\ adm' = adm
  <1> USE DEF SeatInv
  <1>0. req \in [Portal -> Request]
    BY DEF WellFormed, TypeOK
  <1>1. auths' = auths /\ now' = now /\ revoked' = revoked /\ adm' = adm
    BY DEF RedeemRead, StaffStart, dbVars
  <1>2. PICK q : /\ q.pc \in {"reading", "resolving"} /\ q.at = now
                 /\ req' = [req EXCEPT ![r] = q]
    BY DEF RedeemRead, StaffStart
  <1>3. \A p \in Portal : Onward(p)
    BY <1>0, <1>2 DEF Onward
  <1> QED
    BY <1>1, <1>3, SameRows, OthersKept DEF Settles

\* What RedeemRead checks is what ReadStillTrue says of the new reader.
LEMMA StartReads ==
    ASSUME WellFormed, ExpiryCopied, ReadStillTrue, NEW r \in Portal, NEW d \in Devices,
           \/ \E c \in Coupons : RedeemRead(r, c, d)
           \/ \E u \in Users : StaffStart(r, u, d)
    PROVE  ReadStillTrue'
  <1>0. req \in [Portal -> Request] /\ now \in Nat
    BY DEF WellFormed, TypeOK, ControllerTypeOK
  <1>1. auths' = auths /\ revoked' = revoked
    BY DEF RedeemRead, StaffStart, dbVars
  <1>2. \A q \in Portal \ {r} : req'[q] = req[q]
    BY <1>0 DEF RedeemRead, StaffStart
  <1>3. \A c : HeldDevices(c)' = HeldDevices(c)
    BY <1>1 DEF HeldDevices, DevicesOf, Occupies
  <1>4. ASSUME req'[r].pc = "reading"
        PROVE  /\ req'[r].owner \notin revoked
               /\ req'[r].owner \notin Unlimited =>
                     Cardinality(HeldDevices(req'[r].owner)) < CouponLimit[req'[r].owner]
    <2>1. PICK c \in Coupons : RedeemRead(r, c, d)
      BY <1>0, <1>4 DEF StaffStart
    <2>2. req'[r].owner = c /\ c \notin revoked /\ CouponExpiry[c] > now
          /\ ~CouponFull(auths, c, now)
      BY <1>0, <2>1 DEF RedeemRead
    <2>3. DevicesOf(auths, Held(auths, c, now)) = HeldDevices(c)
      BY <1>0, <2>2, CountIsHeld
    <2>4. Cardinality(HeldDevices(c)) \in Nat /\ CouponLimit[c] \in Nat
      BY HeldFinite, TableAssumption
    <2> QED
      BY <2>2, <2>3, <2>4 DEF CouponFull
  <1>5. \A q \in Portal : req'[q].pc = "reading" =>
           /\ req'[q].owner \notin revoked
           /\ req'[q].owner \notin Unlimited =>
                 Cardinality(HeldDevices(req'[q].owner)) < CouponLimit[req'[q].owner]
    BY <1>2, <1>4 DEF ReadStillTrue
  <1> SUFFICES ASSUME NEW q \in Portal, req'[q].pc = "reading", NEW c, c = req'[q].owner
               PROVE  /\ c \notin revoked'
                      /\ c \notin Unlimited =>
                            Cardinality(HeldDevices(c)') < CouponLimit[c]
    BY DEF ReadStillTrue
  <1> QED
    BY <1>1, <1>3, <1>5

-----------------------------------------------------------------------------
(* The two INSERTs *)

\* The shape of an INSERT: request r, the only one with an open transaction,
\* gets a new row n; the other rows keep their reservations and a coupon's
\* rows their status.
Inserts(r, n) ==
    /\ n \notin DOMAIN auths /\ DOMAIN auths' = DOMAIN auths \cup {n}
    /\ auths'[n].status = "PENDING" /\ auths'[n].owner = req[r].owner
    /\ auths'[n].dev = req[r].dev /\ auths'[n].created = req[r].at
    /\ auths'[n].owner \in Coupons => auths'[n].expires = CouponExpiry[auths'[n].owner]
    /\ \A i \in DOMAIN auths :
          /\ Forward(i)
          /\ auths[i].status = "PENDING" => auths'[i].status = "PENDING"
          /\ auths[i].owner \in Coupons => auths'[i].status = auths[i].status
    /\ req[r].pc \in {"reading", "resolving"} /\ DbFree({r})
    /\ req'[r].pc \in {"authorize", "replace"} /\ req'[r].row = n
    /\ req'[r].owner = req[r].owner /\ req'[r].at = req[r].at
    /\ req'[r].pc = "replace" => Granted(req'[r].old)
    /\ \A q \in Portal \ {r} : req'[q] = req[q]
    /\ now' = now /\ revoked' = revoked /\ adm' = adm

LEMMA RedeemInserts ==
    ASSUME WellFormed, NEW r \in Portal, RedeemReserve(r)
    PROVE  \E n : Inserts(r, n)
  <1> DEFINE row == NewRow(req[r].owner, req[r].dev, CouponExpiry[req[r].owner], req[r].at)
  <1>1. /\ req \in [Portal -> Request] /\ req[r].pc = "reading" /\ DbFree({r})
        /\ req[r].owner \in Coupons /\ req[r].dev \in Devices /\ req[r].at \in Nat
        /\ auths \in Seq(Row)
    BY DEF RedeemReserve, WellFormed, TypeOK, RequestsWellFormed, Request
  <1>2. /\ row \in Row /\ row.status = "PENDING" /\ row.owner = req[r].owner
        /\ row.dev = req[r].dev /\ row.created = req[r].at
        /\ row.expires = CouponExpiry[row.owner]
    BY <1>1, SessionTime, TableAssumption DEF NewRow, Row, Statuses, Owners
  <1>3. auths' = Append(auths, row) /\ now' = now /\ revoked' = revoked /\ adm' = adm
    BY DEF RedeemReserve
  <1> HIDE DEF row
  <1>4. PICK n \in Nat : n = Len(auths) + 1
    BY <1>1, RowsTyped
  <1>5. /\ n \notin DOMAIN auths /\ DOMAIN auths' = DOMAIN auths \cup {n}
        /\ auths'[n] = row /\ \A i \in DOMAIN auths : auths'[i] = auths[i]
    BY <1>1, <1>2, <1>3, <1>4, InsertFacts
  <1>6. \A i \in DOMAIN auths : Forward(i)
    BY <1>5 DEF Forward
  <1>7. req' = [req EXCEPT ![r].pc = "authorize", ![r].row = n]
    BY <1>4 DEF RedeemReserve
  <1>8. /\ req'[r].pc = "authorize" /\ req'[r].row = n
        /\ req'[r].owner = req[r].owner /\ req'[r].at = req[r].at
        /\ \A q \in Portal \ {r} : req'[q] = req[q]
    BY <1>1, <1>7 DEF Request
  <1> QED
    BY <1>1, <1>2, <1>3, <1>5, <1>6, <1>8 DEF Inserts

\* The rows an INSERT of authorize_staff finds, once the user's expired ones
\* are retired.
LEMMA StaffRows ==
    ASSUME WellFormed, NEW r \in Portal, StaffReserve(r)
    PROVE  LET ids == ActiveIds(auths, req[r].owner) \cap ExpiredIds(auths, req[r].at)
               t   == SetStatus(auths, ids, "REVOKED")
           IN  /\ DOMAIN t = DOMAIN auths
               /\ \A i \in DOMAIN auths :
                     /\ t[i] = IF i \in ids THEN [auths[i] EXCEPT !.status = "REVOKED"]
                               ELSE auths[i]
                     /\ auths'[i] = t[i]
  <1> DEFINE ids == ActiveIds(auths, req[r].owner) \cap ExpiredIds(auths, req[r].at)
             t   == SetStatus(auths, ids, "REVOKED")
             row == NewRow(req[r].owner, req[r].dev, req[r].at + StaffMinutes * Minute, req[r].at)
  <1>1. /\ auths \in Seq(Row) /\ req[r].owner \in Users /\ req[r].dev \in Devices
        /\ req[r].at \in Nat /\ "REVOKED" \in Statuses
    BY DEF StaffReserve, WellFormed, TypeOK, RequestsWellFormed, Request, Statuses
  <1>2. row \in Row
    BY <1>1, SessionTime, TableAssumption DEF NewRow, Row, Statuses, Owners
  <1>3. auths' = Append(t, row)
    BY DEF StaffReserve
  <1> HIDE DEF ids, row
  <1>4. /\ t \in Seq(Row) /\ DOMAIN t = DOMAIN auths
        /\ \A i \in DOMAIN auths :
              t[i] = IF i \in ids THEN [auths[i] EXCEPT !.status = "REVOKED"] ELSE auths[i]
    BY <1>1, SetStatusFacts
  <1> HIDE DEF t
  <1>5. \A i \in DOMAIN auths : auths'[i] = t[i]
    BY <1>2, <1>3, <1>4, InsertFacts
  <1> QED
    BY <1>4, <1>5 DEF t, ids

LEMMA OldestIsActive ==
    ASSUME NEW t, NEW u, NEW i \in OldestActive(t, u)
    PROVE  i \in DOMAIN t /\ t[i].status = "ACTIVE"
  BY Zenon DEF OldestActive

LEMMA StaffInserts ==
    ASSUME WellFormed, NEW r \in Portal, StaffReserve(r)
    PROVE  \E n : Inserts(r, n)
  <1> DEFINE u   == req[r].owner
             at  == req[r].at
             ids == ActiveIds(auths, u) \cap ExpiredIds(auths, at)
             t   == SetStatus(auths, ids, "REVOKED")
             row == NewRow(u, req[r].dev, at + StaffMinutes * Minute, at)
  <1>1. /\ req \in [Portal -> Request] /\ req[r].pc = "resolving" /\ DbFree({r})
        /\ u \in Users /\ req[r].dev \in Devices /\ at \in Nat /\ auths \in Seq(Row)
    BY DEF StaffReserve, WellFormed, TypeOK, RequestsWellFormed, Request
  <1>2. /\ row \in Row /\ row.status = "PENDING" /\ row.owner = u /\ u \notin Coupons
        /\ row.dev = req[r].dev /\ row.created = at
    BY <1>1, SessionTime, TableAssumption DEF NewRow, Row, Statuses, Owners
  <1>3. auths' = Append(t, row) /\ now' = now /\ revoked' = revoked /\ adm' = adm
    BY DEF StaffReserve
  <1>4. \A i \in ids : i \in DOMAIN auths /\ auths[i].status = "ACTIVE" /\ auths[i].owner = u
    BY DEF ActiveIds
  <1>5. PICK old \in Victims(t, u, at) :
           req' = [req EXCEPT ![r].pc = IF old = 0 THEN "authorize" ELSE "replace",
                              ![r].row = Len(auths) + 1, ![r].old = old]
    BY DEF StaffReserve
  <1>6. old = 0 \/ (old \in DOMAIN t /\ t[old].status = "ACTIVE")
    <2> HIDE DEF t
    <2>1. old \in OldestActive(t, u) \/ old = 0
      BY <1>5 DEF Victims
    <2> QED
      BY <2>1, OldestIsActive
  <1> HIDE DEF row, ids
  <1>7. /\ t \in Seq(Row) /\ DOMAIN t = DOMAIN auths /\ Len(t) = Len(auths)
        /\ \A i \in DOMAIN auths :
              t[i] = IF i \in ids THEN [auths[i] EXCEPT !.status = "REVOKED"] ELSE auths[i]
    BY <1>1, SetStatusFacts DEF Statuses
  <1> HIDE DEF t
  <1>8. PICK n \in Nat : n = Len(auths) + 1
    BY <1>1, RowsTyped
  <1>9. /\ n \notin DOMAIN auths /\ DOMAIN auths' = DOMAIN auths \cup {n}
        /\ auths'[n] = row /\ \A i \in DOMAIN auths : auths'[i] = t[i]
    BY <1>2, <1>3, <1>7, <1>8, InsertFacts
  <1>10. \A i \in DOMAIN auths : auths[i] \in Row
    BY <1>1, RowsTyped
  <1>11. \A i \in DOMAIN auths :
            /\ Forward(i)
            /\ auths[i].status = "PENDING" => auths'[i].status = "PENDING"
            /\ auths[i].owner \in Coupons => auths'[i].status = auths[i].status
    <2> SUFFICES ASSUME NEW i \in DOMAIN auths
                 PROVE  /\ Forward(i)
                        /\ auths[i].status = "PENDING" => auths'[i].status = "PENDING"
                        /\ auths[i].owner \in Coupons => auths'[i].status = auths[i].status
      OBVIOUS
    <2>1. CASE i \in ids
      <3>1. /\ auths'[i] = [auths[i] EXCEPT !.status = "REVOKED"]
            /\ auths[i].status = "ACTIVE" /\ auths[i].owner = u
        BY <1>4, <1>7, <1>9, <2>1
      <3>2. /\ auths'[i].status = "REVOKED" /\ auths'[i].owner = auths[i].owner
            /\ auths'[i].dev = auths[i].dev /\ auths'[i].expires = auths[i].expires
            /\ auths'[i].created = auths[i].created
        BY <1>10, <3>1 DEF Row
      <3> QED
        BY <1>2, <1>9, <3>1, <3>2 DEF Forward
    <2>2. CASE i \notin ids
      BY <1>7, <1>9, <2>2 DEF Forward
    <2> QED
      BY <2>1, <2>2
  <1>12. PICK pc \in {"authorize", "replace"} :
            /\ req' = [req EXCEPT ![r].pc = pc, ![r].row = n, ![r].old = old]
            /\ pc = "replace" => old # 0
    BY <1>5, <1>8
  <1>13. /\ req'[r].pc = pc /\ req'[r].row = n /\ req'[r].old = old
         /\ req'[r].owner = u /\ req'[r].at = at
         /\ \A q \in Portal \ {r} : req'[q] = req[q]
    BY <1>1, <1>12 DEF Request
  <1>14. pc = "replace" => Granted(old)
    <2>1. ASSUME NEW i \in DOMAIN auths, t[i].status = "ACTIVE"
          PROVE  auths[i].status = "ACTIVE"
      BY <1>4, <1>7, <2>1
    <2> QED
      BY <1>6, <1>7, <1>12, <2>1 DEF Granted
  <1> QED
    BY <1>1, <1>2, <1>3, <1>9, <1>11, <1>12, <1>13, <1>14 DEF Inserts

\* Only the coupon of the new row gains a device.
LEMMA InsertHeld ==
    ASSUME NEW r, NEW n, Inserts(r, n), NEW c \in Coupons
    PROVE  HeldDevices(c)' = IF c = req[r].owner THEN HeldDevices(c) \cup {req[r].dev}
                             ELSE HeldDevices(c)
  <1> DEFINE ids == {i \in DOMAIN auths : auths[i].owner = c /\ Occupies(auths[i])}
             new == {i \in DOMAIN auths' : auths'[i].owner = c /\ Occupies(auths'[i])}
  <1>1. new = IF c = req[r].owner THEN ids \cup {n} ELSE ids
    BY DEF Inserts, Forward, Occupies
  <1>2. \A i \in ids : auths'[i].dev = auths[i].dev
    BY DEF Inserts, Forward
  <1>3. HeldDevices(c) = {auths[i].dev : i \in ids} /\ HeldDevices(c)' = {auths'[i].dev : i \in new}
    BY DEF HeldDevices, DevicesOf, Occupies
  <1>4. auths'[n].dev = req[r].dev
    BY DEF Inserts
  <1> HIDE DEF ids, new
  <1>5. CASE c = req[r].owner
    BY <1>1, <1>2, <1>3, <1>4, <1>5
  <1>6. CASE c # req[r].owner
    BY <1>1, <1>2, <1>3, <1>6
  <1> QED
    BY <1>5, <1>6

\* An INSERT disturbs no other request, and no one is reading beside it.
LEMMA InsertKeeps ==
    ASSUME SeatInv, NEW r \in Portal, NEW n, Inserts(r, n)
    PROVE  ReservationsOwned' /\ TargetsGranted' /\ Timely' /\ ExpiryCopied' /\ ReadStillTrue'
  <1> USE DEF SeatInv
  <1>0. \A q \in Portal : Holding(q) => req[q].row \in DOMAIN auths
    BY DEF WellFormed, RequestsWellFormed
  <1>1. Holding(r)'
    BY DEF Holding, Inserts
  <1>2. \A q \in Portal \ {r} : (Holding(q)' <=> Holding(q)) /\ req'[q] = req[q]
    BY DEF Holding, Inserts
  <1>3. ReservationsOwned'
    <2>1. \A q \in Portal \ {r} : Holding(q) =>
             /\ auths'[req[q].row].status = "PENDING"
             /\ auths'[req[q].row].owner = req[q].owner
             /\ auths'[req[q].row].created = req[q].at
             /\ req[q].row # n
             /\ \A p \in Portal \ {q} : Holding(p) => req[p].row # req[q].row
      BY <1>0 DEF ReservationsOwned, Inserts, Forward
    <2>2. /\ auths'[req'[r].row].status = "PENDING"
          /\ auths'[req'[r].row].owner = req'[r].owner
          /\ auths'[req'[r].row].created = req'[r].at
          /\ req'[r].row = n
      BY DEF Inserts
    <2> SUFFICES ASSUME NEW q \in Portal, Holding(q)'
                 PROVE  /\ auths'[req'[q].row].status = "PENDING"
                        /\ auths'[req'[q].row].owner = req'[q].owner
                        /\ auths'[req'[q].row].created = req'[q].at
                        /\ \A p \in Portal \ {q} : Holding(p)' => req'[p].row # req'[q].row
      BY DEF ReservationsOwned
    <2>3. CASE q = r
      BY <1>2, <2>1, <2>2, <2>3
    <2>4. CASE q # r
      BY <1>2, <2>1, <2>2, <2>4
    <2> QED
      BY <2>3, <2>4
  <1>4. \A i : Granted(i) => Granted(i)'
    BY GrantedStays DEF Inserts
  <1>5. ReplacedGranted'
    <2> SUFFICES ASSUME NEW q \in Portal, req'[q].pc \in {"replace", "retire"},
                        NEW i, i = req'[q].old
                 PROVE  Granted(i)'
      BY DEF ReplacedGranted
    <2>1. Granted(i)
      BY DEF Inserts, TargetsGranted, ReplacedGranted
    <2> QED
      BY <1>4, <2>1
  <1>6. RevokedGranted'
    <2>1. adm' = adm
      BY DEF Inserts
    <2> SUFFICES ASSUME NEW a \in Admins, NEW i,
                        \/ adm[a].pc = "mark" /\ i = adm[a].row
                        \/ i \in adm[a].queue
                 PROVE  Granted(i)'
      BY <2>1 DEF RevokedGranted
    <2> QED
      BY <1>4 DEF TargetsGranted, RevokedGranted
  <1>7. Timely'
    BY DEF Timely, Inserts
  <1>8. ExpiryCopied'
    BY DEF ExpiryCopied, Inserts, Forward
  <1>9. ReadStillTrue'
    <2>1. \A q \in Portal : req'[q].pc # "reading"
      BY DEF Inserts, DbFree
    <2> QED
      BY <2>1 DEF ReadStillTrue
  <1> QED
    BY <1>3, <1>5, <1>6, <1>7, <1>8, <1>9 DEF TargetsGranted

\* A redemption commits a seat there is still room for.
LEMMA RedeemTakes ==
    ASSUME SeatInv, NEW r \in Portal, RedeemReserve(r)
    PROVE  LET c == req[r].owner
           IN  /\ c \in Coupons /\ req[r].dev \in Devices /\ c \notin revoked
               /\ req[r].dev \notin HeldDevices(c)
               /\ c \in Unlimited \/ Cardinality(HeldDevices(c)) < CouponLimit[c]
  <1>1. req[r].pc = "reading" /\ ~IndexTaken(auths, req[r].owner, req[r].dev)
    BY DEF RedeemReserve
  <1>2. req[r].owner \in Coupons /\ req[r].dev \in Devices
    BY <1>1 DEF SeatInv, WellFormed, RequestsWellFormed
  <1>3. req[r].dev \notin HeldDevices(req[r].owner)
    BY <1>1 DEF IndexTaken, HeldDevices, DevicesOf
  <1> QED
    BY <1>1, <1>2, <1>3 DEF SeatInv, ReadStillTrue

LEMMA InsertWithinLimit ==
    ASSUME SeatInv, NEW r \in Portal, RedeemReserve(r) \/ StaffReserve(r),
           NEW n, Inserts(r, n)
    PROVE  CouponWithinLimit'
  <1> SUFFICES ASSUME NEW c \in Coupons \ Unlimited
               PROVE  Cardinality(HeldDevices(c)') <= CouponLimit[c]
    BY DEF CouponWithinLimit
  <1>1. CouponLimit[c] \in Nat
    BY TableAssumption
  <1>2. IsFiniteSet(HeldDevices(c)) /\ Cardinality(HeldDevices(c)) \in Nat
    BY HeldFinite DEF SeatInv
  <1>3. Cardinality(HeldDevices(c)) <= CouponLimit[c]
    BY DEF SeatInv, CouponWithinLimit
  <1>4. CASE c # req[r].owner
    BY <1>3, <1>4, InsertHeld
  <1>5. CASE c = req[r].owner
    <2>1. RedeemReserve(r)
      <3>1. StaffReserve(r) => req[r].owner \in Users
        BY DEF StaffReserve, SeatInv, WellFormed, RequestsWellFormed
      <3> QED
        BY <1>5, <3>1, TableAssumption
    <2>2. req[r].dev \notin HeldDevices(c) /\ Cardinality(HeldDevices(c)) < CouponLimit[c]
      BY <1>5, <2>1, RedeemTakes
    <2>3. HeldDevices(c)' = HeldDevices(c) \cup {req[r].dev}
      BY <1>5, InsertHeld
    <2>4. Cardinality(HeldDevices(c)') = Cardinality(HeldDevices(c)) + 1
      BY <1>2, <2>2, <2>3, FS_AddElement
    <2> QED
      BY <1>1, <1>2, <2>2, <2>4
  <1> QED
    BY <1>4, <1>5

-----------------------------------------------------------------------------
(* Everything else *)

LEMMA NoOneReading ==
    ASSUME DbFree({})
    PROVE  \A r \in Portal : req[r].pc # "reading"
  BY DEF DbFree

\* A revoke request looks up its row, or revokes a coupon nobody is reading.
LEMMA RevokeStarts ==
    ASSUME SeatInv, NEW a \in Admins,
           \/ \E i \in DOMAIN auths : RevokeSelect(a, i)
           \/ \E c \in Coupons : CouponRevoke(a, c)
    PROVE  /\ Settles /\ now' = now /\ req' = req /\ revoked \subseteq revoked'
           /\ ReadStillTrue'
  <1> USE DEF SeatInv
  <1>1. /\ auths' = auths /\ now' = now /\ req' = req /\ revoked \subseteq revoked'
        /\ \/ revoked' = revoked
           \/ DbFree({})
    BY DEF RevokeSelect, CouponRevoke, dbVars
  <1>2. Settles
    BY <1>1, SameRows, OthersKept DEF Settles, Onward
  <1>3. ReadStillTrue'
    <2>1. CASE revoked' = revoked
      BY <1>1, <1>2, <2>1, SettlesReads
    <2>2. CASE DbFree({})
      BY <1>1, <2>2, NoOneReading DEF ReadStillTrue
    <2> QED
      BY <1>1, <2>1, <2>2
  <1> QED
    BY <1>1, <1>2, <1>3

\* With Prompt, time passes only while every request is young enough.
LEMMA TickTimely ==
    ASSUME SeatInv, Prompt, Tick
    PROVE  Timely'
  <1> SUFFICES ASSUME NEW r \in Portal, req[r].pc # "idle"
               PROVE  now + 1 <= req[r].at + ReservationTTL
    BY DEF Tick, Timely
  <1>1. now \in Nat /\ req[r].at \in Nat /\ ReservationTTL \in Nat
    BY AccessAssumption DEF SeatInv, WellFormed, TypeOK, ControllerTypeOK, Request
  <1>2. now < req[r].at + ReservationTTL
    BY DEF Tick
  <1> QED
    BY <1>1, <1>2

LEMMA WorldSettles ==
    ASSUME SeatInv, Prompt, Restart \/ Late \/ Tick \/ UNCHANGED vars
    PROVE  /\ Settles /\ auths' = auths /\ revoked' = revoked
           /\ Timely' /\ ReadStillTrue'
  <1> USE DEF SeatInv
  <1>1. auths' = auths /\ revoked' = revoked
    BY DEF Restart, Late, Tick, vars, dbVars
  <1>2. \/ req' = req
        \/ req' = [r \in Portal |-> NoRequest]
    BY DEF Restart, Late, Tick, vars
  <1>3. \A r \in Portal : Onward(r)
    BY <1>2 DEF Onward
  <1>4. Settles
    BY <1>1, <1>3, SameRows, OthersKept DEF Settles
  <1>5. Timely'
    <2>1. CASE now' = now
      BY <1>4, <2>1, SettlesTimely
    <2>2. CASE Tick
      BY <2>2, TickTimely
    <2> QED
      BY <2>1, <2>2 DEF Restart, Late, vars
  <1>6. \A r \in Portal : req'[r].pc = "reading" => req'[r] = req[r]
    BY <1>2 DEF NoRequest
  <1> QED
    BY <1>1, <1>4, <1>5, <1>6, SettlesReads

-----------------------------------------------------------------------------
(* The invariant *)

LEMMA InitSeatInv == Init => SeatInv
  <1> SUFFICES ASSUME Init
               PROVE  SeatInv
    OBVIOUS
  <1>1. WellFormed
    BY InitWellFormed
  <1>2. DOMAIN auths = {} /\ \A r \in Portal : req[r] = NoRequest
    BY DEF Init
  <1>3. \A a \in Admins : adm[a] = NoRevocation
    BY DEF Init
  <1>4. ReservationsOwned /\ Timely /\ ReadStillTrue /\ ReplacedGranted
    BY <1>2 DEF ReservationsOwned, Timely, ReadStillTrue, ReplacedGranted, Holding, NoRequest
  <1>5. RevokedGranted
    BY <1>3 DEF RevokedGranted, NoRevocation
  <1>6. ExpiryCopied
    BY <1>2 DEF ExpiryCopied
  <1>7. CouponWithinLimit
    <2> SUFFICES ASSUME NEW c \in Coupons \ Unlimited
                 PROVE  Cardinality(HeldDevices(c)) <= CouponLimit[c]
      BY DEF CouponWithinLimit
    <2>1. HeldDevices(c) = {}
      BY <1>2 DEF HeldDevices, DevicesOf
    <2> QED
      BY <2>1, FS_EmptySet, TableAssumption
  <1> QED
    BY <1>1, <1>4, <1>5, <1>6, <1>7 DEF SeatInv, TargetsGranted

\* A step that settles rows keeps the invariant, given the parts that depend
\* on more than the rows and requests.
LEMMA SettledSeatInv ==
    ASSUME SeatInv, [Next]_vars, Settles, Timely', ReadStillTrue'
    PROVE  SeatInv'
  <1>1. WellFormed'
    BY NextWellFormed DEF SeatInv
  <1>2. RevokedGranted'
    <2>1. \A i : Granted(i) => Granted(i)'
      BY GrantedStays DEF Settles
    <2> QED
      BY <2>1, RevocationTargets DEF SeatInv, TargetsGranted
  <1> QED
    BY <1>1, <1>2, SettlesReservations, SettlesTargets, SettlesExpiry, SettlesLimit
    DEF SeatInv, TargetsGranted

LEMMA NextSeatInv ==
    ASSUME Prompt, SeatInv, [Next]_vars
    PROVE  SeatInv'
  <1> USE DEF SeatInv
  <1>1. ASSUME NEW r \in Portal, NEW n, RedeemReserve(r) \/ StaffReserve(r), Inserts(r, n)
        PROVE  SeatInv'
    BY <1>1, NextWellFormed, InsertKeeps, InsertWithinLimit
  <1>2. ASSUME NEW r \in Portal, RedeemReserve(r) \/ StaffReserve(r)
        PROVE  SeatInv'
    BY <1>1, <1>2, RedeemInserts, StaffInserts
  <1>3. ASSUME Settles, now' = now, ReadStillTrue'
        PROVE  SeatInv'
    BY <1>3, SettlesTimely, SettledSeatInv
  <1>4. ASSUME NEW r \in Portal,
               \/ StaffReplace(r) \/ StaffRetire(r) \/ Authorize(r)
               \/ Finalize(r) \/ Fail(r) \/ GiveUp(r) \/ GiveUpSent(r)
        PROVE  SeatInv'
    BY <1>3, <1>4, RequestSettles, SettlesReads
  <1>5. ASSUME NEW a \in Admins, AdminStep(a)
        PROVE  SeatInv'
    BY <1>3, <1>5, RevocationSettles, SettlesReads
  <1>6. ASSUME ReconStep
        PROVE  SeatInv'
    BY <1>3, <1>6, ReconSettles, SettlesReads
  <1>7. ASSUME Arrive
        PROVE  SeatInv'
    BY <1>3, <1>7, StartSettles, StartReads, RevokeStarts DEF Arrive
  <1>8. ASSUME Restart \/ Late \/ Tick \/ UNCHANGED vars
        PROVE  SeatInv'
    BY <1>8, WorldSettles, SettledSeatInv
  <1> QED
    BY <1>2, <1>4, <1>5, <1>6, <1>7, <1>8 DEF Next, PortalStep

-----------------------------------------------------------------------------
(* What needs no Prompt.  A request that outlives ReservationTTL may find    *)
(* its reservation FAILED, and Finalize sets it ACTIVE all the same; every   *)
(* other step still moves rows forward.  Of what the requests rely on,       *)
(* RowsInv is what survives that.                                            *)

\* Row i stays as it is, or is failed or revoked.
StepsDown(i) ==
    /\ i \in DOMAIN auths'
    /\ \/ auths'[i] = auths[i]
       \/ auths[i].status = "ACTIVE" /\ auths'[i] = [auths[i] EXCEPT !.status = "REVOKED"]
       \/ auths[i].status = "PENDING" /\ auths'[i] = [auths[i] EXCEPT !.status = "FAILED"]

\* The shape of a step that inserts no row and makes none ACTIVE.
Lowers == DOMAIN auths' = DOMAIN auths /\ \A i \in DOMAIN auths : StepsDown(i)

LEMMA StepsDownForward ==
    ASSUME WellFormed, NEW i \in DOMAIN auths, StepsDown(i)
    PROVE  /\ Forward(i)
           /\ auths'[i].authorizedAt = auths[i].authorizedAt
           /\ auths'[i].status = "ACTIVE" => auths'[i] = auths[i]
  <1>1. auths[i] \in Row
    BY RowsTyped DEF WellFormed, TypeOK
  <1> QED
    BY <1>1 DEF StepsDown, Forward, Row

LEMMA UpdateLowers ==
    ASSUME WellFormed, NEW ids, NEW s \in {"REVOKED", "FAILED"},
           auths' = SetStatus(auths, ids, s),
           \A i \in ids \cap DOMAIN auths :
               auths[i].status \in IF s = "REVOKED" THEN {"ACTIVE", "REVOKED"}
                                   ELSE {"PENDING", "FAILED"}
    PROVE  Lowers
  <1>1. s \in Statuses /\ auths \in Seq(Row)
    BY DEF Statuses, WellFormed, TypeOK
  <1>2. /\ DOMAIN auths' = DOMAIN auths
        /\ \A i \in DOMAIN auths :
              auths'[i] = IF i \in ids THEN [auths[i] EXCEPT !.status = s] ELSE auths[i]
    BY <1>1, SetStatusFacts
  <1> SUFFICES ASSUME NEW i \in DOMAIN auths
               PROVE  StepsDown(i)
    BY <1>2 DEF Lowers
  <1>3. auths[i] \in Row
    BY <1>1, RowsTyped
  <1>4. CASE i \in ids /\ auths[i].status = s
    <2>1. [auths[i] EXCEPT !.status = s] = auths[i]
      BY <1>3, <1>4 DEF Row
    <2> QED
      BY <1>2, <1>4, <2>1 DEF StepsDown
  <1>5. CASE i \in ids /\ auths[i].status # s
    BY <1>2, <1>5 DEF StepsDown
  <1>6. CASE i \notin ids
    BY <1>2, <1>6 DEF StepsDown
  <1> QED
    BY <1>4, <1>5, <1>6

\* How a step may change the table.
LEMMA TableSteps ==
    ASSUME WellFormed, ReservationsUnsettled, TargetsGranted, [Next]_vars
    PROVE  \/ \E r \in Portal : Finalize(r) \/ RedeemReserve(r) \/ StaffReserve(r)
           \/ Lowers
  <1>1. auths' = auths => Lowers
    BY DEF Lowers, StepsDown
  <1>2. ASSUME NEW i, NEW ids, ids = {i}, Granted(i), auths' = SetStatus(auths, ids, "REVOKED")
        PROVE  Lowers
    <2>1. \A j \in ids \cap DOMAIN auths : auths[j].status \in {"ACTIVE", "REVOKED"}
      BY <1>2 DEF Granted
    <2> QED
      BY <1>2, <2>1, UpdateLowers
  <1>3. ASSUME NEW r \in Portal, PortalStep(r),
               ~(Finalize(r) \/ RedeemReserve(r) \/ StaffReserve(r))
        PROVE  Lowers
    <2>1. CASE StaffRetire(r)
      <3>1. Granted(req[r].old) /\ auths' = SetStatus(auths, {req[r].old}, "REVOKED")
        BY <2>1 DEF StaffRetire, TargetsGranted, ReplacedGranted
      <3> QED
        BY <1>2, <3>1
    <2>2. CASE Fail(r)
      <3>1. /\ auths' = SetStatus(auths, {req[r].row}, "FAILED")
            /\ auths[req[r].row].status \in {"PENDING", "FAILED"}
        BY <2>2 DEF Fail, Holding, ReservationsUnsettled
      <3>2. \A j \in {req[r].row} \cap DOMAIN auths : auths[j].status \in {"PENDING", "FAILED"}
        BY <3>1
      <3> QED
        BY <3>1, <3>2, UpdateLowers
    <2> QED
      BY <1>1, <1>3, <2>1, <2>2 DEF PortalStep, StaffReplace, Authorize, GiveUp, GiveUpSent,
         dbVars
  <1>4. ASSUME NEW a \in Admins, AdminStep(a)
        PROVE  Lowers
    <2>1. CASE RevokeCommit(a) /\ auths[adm[a].row].status = "ACTIVE"
      <3>1. auths' = SetStatus(auths, {adm[a].row}, "REVOKED") /\ Granted(adm[a].row)
        BY <2>1 DEF RevokeCommit, Granted, WellFormed, RevocationsWellFormed
      <3> QED
        BY <1>2, <3>1
    <2>2. CASE CouponMark(a)
      <3>1. auths' = SetStatus(auths, {adm[a].row}, "REVOKED") /\ Granted(adm[a].row)
        BY <2>2 DEF CouponMark, TargetsGranted, RevokedGranted
      <3> QED
        BY <1>2, <3>1
    <2> QED
      BY <1>1, <1>4, <2>1, <2>2 DEF AdminStep, RevokeUnauthorize, RevokeCommit, CouponSelect,
         CouponAudit, CouponUnauthorize, RevokeEnd, RevokeEndSent, dbVars
  <1>5. ASSUME ReconStep
        PROVE  Lowers
    <2>1. CASE ReconTimeout
      <3> DEFINE ids == {i \in DOMAIN auths : Overdue(auths[i], now)}
      <3>1. auths' = SetStatus(auths, ids, "FAILED")
        BY <2>1 DEF ReconTimeout
      <3>2. \A i \in ids \cap DOMAIN auths : auths[i].status \in {"PENDING", "FAILED"}
        BY DEF Overdue
      <3> HIDE DEF ids
      <3> QED
        BY <3>1, <3>2, UpdateLowers
    <2>2. CASE ReconMark /\ auths[recon.row].status = "ACTIVE"
      <3>1. auths' = SetStatus(auths, {recon.row}, "REVOKED") /\ Granted(recon.row)
        BY <2>2 DEF ReconMark, Granted, WellFormed, SweepWellFormed
      <3> QED
        BY <1>2, <3>1
    <2> QED
      BY <1>1, <1>5, <2>1, <2>2 DEF ReconStep, ReconTimeoutError, ReconSelect, ReconUnauthorize,
         ReconMark, ReconMarkError, ReconSleep, dbVars
  <1>6. ASSUME Arrive \/ Restart \/ Late \/ Tick \/ UNCHANGED vars
        PROVE  auths' = auths
    BY <1>6 DEF Arrive, RedeemRead, StaffStart, RevokeSelect, CouponRevoke, Restart, Late,
       Tick, vars, dbVars
  <1> QED
    BY <1>1, <1>3, <1>4, <1>5, <1>6 DEF Next

\* What Finalize does, whatever became of its reservation meanwhile.
LEMMA FinalizeSteps ==
    ASSUME RowsInv, NEW r \in Portal, Finalize(r)
    PROVE  LET k == req[r].row
           IN  /\ Holding(r) /\ DbFree({r}) /\ req' = [req EXCEPT ![r] = NoRequest]
               /\ k \in DOMAIN auths /\ auths[k].status \in {"PENDING", "FAILED"}
               /\ auths[k].owner = req[r].owner /\ req[r].owner \in Owners
               /\ DOMAIN auths' = DOMAIN auths
               /\ auths'[k] = [auths[k] EXCEPT !.status = "ACTIVE", !.authorizedAt = req[r].stamp]
               /\ auths'[k].status = "ACTIVE" /\ auths'[k].authorizedAt = req[r].stamp
               /\ auths'[k].owner = auths[k].owner /\ auths'[k].dev = auths[k].dev
               /\ auths'[k].expires = auths[k].expires
               /\ \A i \in DOMAIN auths : i # k => auths'[i] = auths[i]
  <1> DEFINE k == req[r].row
  <1>1. /\ req[r].pc = "finalize" /\ auths \in Seq(Row) /\ DbFree({r})
        /\ req[r].stamp \in Nat /\ req' = [req EXCEPT ![r] = NoRequest]
        /\ auths' = [auths EXCEPT ![k].status = "ACTIVE", ![k].authorizedAt = req[r].stamp]
    BY DEF Finalize, End, RowsInv, WellFormed, TypeOK, Request
  <1>2. /\ Holding(r) /\ k \in DOMAIN auths /\ auths[k].status \in {"PENDING", "FAILED"}
        /\ auths[k].owner = req[r].owner /\ req[r].owner \in Owners
    BY <1>1 DEF Holding, RowsInv, ReservationsUnsettled, WellFormed, RequestsWellFormed
  <1>3. auths[k] \in Row
    BY <1>1, <1>2, RowsTyped
  <1> HIDE DEF k
  <1>4. /\ DOMAIN auths' = DOMAIN auths
        /\ auths'[k] = [auths[k] EXCEPT !.status = "ACTIVE", !.authorizedAt = req[r].stamp]
        /\ \A i \in DOMAIN auths : i # k => auths'[i] = auths[i]
    BY <1>1, <1>2, ActivateFacts
  <1>5. /\ auths'[k].status = "ACTIVE" /\ auths'[k].authorizedAt = req[r].stamp
        /\ auths'[k].owner = auths[k].owner /\ auths'[k].dev = auths[k].dev
        /\ auths'[k].expires = auths[k].expires
    BY <1>3, <1>4 DEF Row
  <1> QED
    BY <1>1, <1>2, <1>4, <1>5 DEF k

\* How a step may move a request.
LEMMA RequestSteps ==
    ASSUME WellFormed, [Next]_vars, NEW q \in Portal
    PROVE  /\ Onward(q) \/ RedeemReserve(q) \/ StaffReserve(q)
           /\ \/ req'[q].pc # "reading" \/ req'[q] = req[q]
              \/ \E d \in Devices, c \in Coupons : RedeemRead(q, c, d)
  <1> DEFINE Moves == /\ Onward(q) \/ RedeemReserve(q) \/ StaffReserve(q)
                      /\ \/ req'[q].pc # "reading" \/ req'[q] = req[q]
                         \/ \E d \in Devices, c \in Coupons : RedeemRead(q, c, d)
  <1>0. req \in [Portal -> Request]
    BY DEF WellFormed, TypeOK
  <1>1. req'[q] = req[q] => Moves
    BY DEF Onward
  <1>2. ASSUME NEW r \in Portal, RedeemReserve(r) \/ StaffReserve(r)
        PROVE  Moves
    <2>1. PICK n : Inserts(r, n)
      BY <1>2, RedeemInserts, StaffInserts
    <2> QED
      BY <1>1, <1>2, <2>1 DEF Inserts
  <1>3. ASSUME NEW r \in Portal, StaffReplace(r) \/ StaffRetire(r) \/ Authorize(r)
        PROVE  Moves
    <2>1. /\ Moved(r) /\ Holding(r)
          /\ req'[r].pc \in {"retire", "authorize", "finalize", "fail"}
          /\ req'[r].pc = "retire" => req[r].pc = "replace"
      <3>1. CASE StaffReplace(r) \/ StaffRetire(r)
        <4>1. PICK pc \in {"retire", "authorize", "fail"} :
                 /\ req' = [req EXCEPT ![r].pc = pc] /\ Holding(r)
                 /\ pc = "retire" => req[r].pc = "replace"
          BY <3>1 DEF StaffReplace, StaffRetire, Goto, Holding
        <4> QED
          BY <1>0, <4>1 DEF Moved, Request
      <3>2. CASE Authorize(r)
        BY <3>2, AuthorizeMoves DEF Authorize, Holding
      <3> QED
        BY <1>3, <3>1, <3>2
    <2>2. q # r => req'[q] = req[q]
      BY <2>1 DEF Moved
    <2>3. Onward(r) /\ req'[r].pc # "reading"
      BY <2>1 DEF Moved, Onward, Holding
    <2> QED
      BY <1>1, <2>2, <2>3
  <1>4. ASSUME NEW r \in Portal, Finalize(r) \/ Fail(r) \/ GiveUp(r) \/ GiveUpSent(r)
        PROVE  Moves
    <2>1. req'[q] = req[q] \/ req'[q] = NoRequest
      BY <1>0, <1>4 DEF Finalize, Fail, GiveUp, GiveUpSent, End
    <2> QED
      BY <1>1, <2>1 DEF Onward, NoRequest
  <1>5. ASSUME NEW r \in Portal, NEW d \in Devices, NEW c \in Coupons, RedeemRead(r, c, d)
        PROVE  Moves
    <2>1. q # r => req'[q] = req[q]
      BY <1>0, <1>5 DEF RedeemRead
    <2>2. req'[r].pc = "reading" /\ req'[r].at = now
      BY <1>0, <1>5 DEF RedeemRead
    <2> QED
      BY <1>1, <1>5, <2>1, <2>2 DEF Onward
  <1>6. ASSUME NEW r \in Portal, NEW d \in Devices, NEW u \in Users, StaffStart(r, u, d)
        PROVE  Moves
    <2>1. q # r => req'[q] = req[q]
      BY <1>0, <1>6 DEF StaffStart
    <2>2. req'[r].pc = "resolving" /\ req'[r].at = now
      BY <1>0, <1>6 DEF StaffStart
    <2> QED
      BY <1>1, <2>1, <2>2 DEF Onward
  <1>7. Restart => req'[q] = NoRequest
    BY DEF Restart
  <1>8. Restart => Moves
    BY <1>7 DEF Onward, NoRequest
  <1>9. \/ Moves
        \/ req' = req
    BY <1>2, <1>3, <1>4, <1>5, <1>6, <1>8
    DEF Next, Arrive, PortalStep, RevokeSelect, CouponRevoke, AdminStep, RevokeUnauthorize,
        RevokeCommit, CouponSelect, CouponMark, CouponAudit, CouponUnauthorize, RevokeEnd,
        RevokeEndSent, ReconStep, ReconTimeout, ReconTimeoutError, ReconSelect,
        ReconUnauthorize, ReconMark, ReconMarkError, ReconSleep, Late, Tick, vars
  <1> QED
    BY <1>1, <1>9

\* A coupon is revoked only while nobody reads.
LEMMA RevokedSteps ==
    ASSUME [Next]_vars, revoked' # revoked
    PROVE  DbFree({}) /\ req' = req /\ auths' = auths
  <1>1. PICK a \in Admins : \E c \in Coupons : CouponRevoke(a, c)
    BY DEF Next, Arrive, RedeemRead, StaffStart, RevokeSelect, PortalStep,
       RedeemReserve, StaffReserve, StaffReplace, StaffRetire, Authorize, Finalize, Fail,
       GiveUp, GiveUpSent, AdminStep, RevokeUnauthorize, RevokeCommit, CouponSelect,
       CouponMark, CouponAudit, CouponUnauthorize, RevokeEnd, RevokeEndSent, ReconStep,
       ReconTimeout, ReconTimeoutError, ReconSelect, ReconUnauthorize, ReconMark,
       ReconMarkError, ReconSleep, Restart, Late, Tick, vars, dbVars
  <1> QED
    BY <1>1 DEF CouponRevoke

LEMMA LowersForward ==
    ASSUME WellFormed, Lowers
    PROVE  DOMAIN auths' = DOMAIN auths /\ \A i \in DOMAIN auths : Forward(i)
  BY StepsDownForward DEF Lowers

\* Every step inserts a row, makes one ACTIVE, or neither.
LEMMA StepKinds ==
    ASSUME RowsInv, [Next]_vars
    PROVE  \/ \E r \in Portal : Finalize(r)
           \/ \E r \in Portal : \E n :
                 (RedeemReserve(r) \/ StaffReserve(r)) /\ Inserts(r, n)
           \/ Lowers /\ \A q \in Portal : Onward(q)
  <1>1. CASE \E r \in Portal : RedeemReserve(r) \/ StaffReserve(r)
    BY <1>1, RedeemInserts, StaffInserts DEF RowsInv
  <1>2. CASE \A r \in Portal : ~(RedeemReserve(r) \/ StaffReserve(r))
    BY <1>2, TableSteps, RequestSteps DEF RowsInv
  <1> QED
    BY <1>1, <1>2

LEMMA GrantedForEver ==
    ASSUME RowsInv, [Next]_vars, NEW i, Granted(i)
    PROVE  Granted(i)'
  <1>1. CASE \E r \in Portal : Finalize(r)
    BY <1>1, FinalizeSteps DEF Granted
  <1>2. CASE \E r \in Portal : \E n : Inserts(r, n)
    BY <1>2, GrantedStays DEF Inserts
  <1>3. CASE Lowers
    BY <1>3, LowersForward, GrantedStays DEF RowsInv
  <1> QED
    BY <1>1, <1>2, <1>3, StepKinds

\* A step takes no reservation out of "PENDING" and "FAILED" but with the
\* request that holds it.
LEMMA UnsettledStep ==
    ASSUME RowsInv, [Next]_vars
    PROVE  ReservationsUnsettled'
  <1> USE DEF RowsInv
  <1>0. \A q \in Portal : Holding(q) => req[q].row \in DOMAIN auths
    BY DEF WellFormed, RequestsWellFormed
  <1>1. CASE \E r \in Portal : \E n : Inserts(r, n)
    <2>1. PICK r \in Portal : \E n : Inserts(r, n)
      BY <1>1
    <2>2. PICK n : Inserts(r, n)
      BY <2>1
    <2>3. \A q \in Portal \ {r} : (Holding(q)' <=> Holding(q)) /\ req'[q] = req[q]
      BY <2>2 DEF Holding, Inserts
    <2>4. \A q \in Portal \ {r} : Holding(q) =>
             /\ auths'[req[q].row].status \in {"PENDING", "FAILED"}
             /\ auths'[req[q].row].owner = req[q].owner
             /\ req[q].row # n
             /\ \A p \in Portal \ {q} : Holding(p) => req[p].row # req[q].row
      <3>1. \A i \in DOMAIN auths :
               auths[i].status \in {"PENDING", "FAILED"} =>
                  auths'[i].status \in {"PENDING", "FAILED"} /\ auths'[i].owner = auths[i].owner
        BY <2>2 DEF Inserts, Forward
      <3> QED
        BY <1>0, <2>2, <3>1 DEF ReservationsUnsettled, Inserts
    <2>5. /\ auths'[req'[r].row].status = "PENDING"
          /\ auths'[req'[r].row].owner = req'[r].owner
          /\ req'[r].row = n
      BY <2>2 DEF Inserts
    <2> SUFFICES ASSUME NEW q \in Portal, Holding(q)'
                 PROVE  /\ auths'[req'[q].row].status \in {"PENDING", "FAILED"}
                        /\ auths'[req'[q].row].owner = req'[q].owner
                        /\ \A p \in Portal \ {q} : Holding(p)' => req'[p].row # req'[q].row
      BY DEF ReservationsUnsettled
    <2>6. CASE q = r
      BY <2>3, <2>4, <2>5, <2>6
    <2>7. CASE q # r
      BY <2>3, <2>4, <2>5, <2>7
    <2> QED
      BY <2>6, <2>7
  <1>2. ASSUME \A q \in Portal : Onward(q),
               \A q \in Portal : Holding(q) /\ Holding(q)' =>
                   /\ auths'[req[q].row].status \in {"PENDING", "FAILED"}
                   /\ auths'[req[q].row].owner = auths[req[q].row].owner
        PROVE  ReservationsUnsettled'
    <2> SUFFICES ASSUME NEW r \in Portal, Holding(r)'
                 PROVE  /\ auths'[req'[r].row].status \in {"PENDING", "FAILED"}
                        /\ auths'[req'[r].row].owner = req'[r].owner
                        /\ \A q \in Portal \ {r} : Holding(q)' => req'[q].row # req'[r].row
      BY DEF ReservationsUnsettled
    <2>1. \A q \in Portal : Holding(q)' =>
              Holding(q) /\ req'[q].row = req[q].row /\ req'[q].owner = req[q].owner
      BY <1>2 DEF Onward, Holding, NoRequest
    <2> QED
      BY <1>2, <2>1 DEF ReservationsUnsettled
  <1>3. CASE Lowers /\ \A q \in Portal : Onward(q)
    <2>1. ASSUME NEW q \in Portal, Holding(q), NEW k, k = req[q].row
          PROVE  /\ auths'[k].status \in {"PENDING", "FAILED"}
                 /\ auths'[k].owner = auths[k].owner
      <3>1. k \in DOMAIN auths /\ auths[k].status \in {"PENDING", "FAILED"}
        BY <1>0, <2>1 DEF ReservationsUnsettled
      <3>2. Forward(k) /\ (auths'[k].status = "ACTIVE" => auths'[k] = auths[k])
        BY <1>3, <3>1, StepsDownForward DEF Lowers
      <3> QED
        BY <3>1, <3>2 DEF Forward
    <2> QED
      BY <1>2, <1>3, <2>1
  <1>4. CASE \E r \in Portal : Finalize(r)
    <2>1. PICK r \in Portal : Finalize(r)
      BY <1>4
    <2>2. PICK k : k = req[r].row
      OBVIOUS
    <2>3. /\ Holding(r) /\ req' = [req EXCEPT ![r] = NoRequest]
          /\ \A i \in DOMAIN auths : i # k => auths'[i] = auths[i]
      BY <2>1, <2>2, FinalizeSteps
    <2>4. \A q \in Portal : Onward(q) /\ (Holding(q)' => q # r)
      BY <2>3 DEF Onward, Holding, NoRequest, WellFormed, TypeOK
    <2>5. ASSUME NEW q \in Portal, Holding(q), q # r
          PROVE  auths'[req[q].row] = auths[req[q].row]
      <3>1. req[q].row # k
        BY <2>2, <2>3, <2>5 DEF ReservationsUnsettled
      <3> QED
        BY <1>0, <2>3, <2>5, <3>1
    <2> QED
      BY <1>2, <2>4, <2>5 DEF ReservationsUnsettled
  <1> QED
    BY <1>1, <1>3, <1>4, StepKinds

LEMMA ReplacedStep ==
    ASSUME RowsInv, [Next]_vars
    PROVE  ReplacedGranted'
  <1> SUFFICES ASSUME NEW q \in Portal, req'[q].pc \in {"replace", "retire"},
                      NEW i, i = req'[q].old
               PROVE  Granted(i)'
    BY DEF ReplacedGranted
  <1>1. CASE Onward(q)
    <2>1. req[q].pc \in {"replace", "retire"} /\ req[q].old = i
      BY <1>1 DEF Onward, NoRequest
    <2> QED
      BY <2>1, GrantedForEver DEF RowsInv, TargetsGranted, ReplacedGranted
  <1>2. CASE RedeemReserve(q) \/ StaffReserve(q)
    <2>1. PICK n : Inserts(q, n)
      BY <1>2, RedeemInserts, StaffInserts DEF RowsInv
    <2> QED
      BY <2>1, GrantedForEver DEF Inserts
  <1> QED
    BY <1>1, <1>2, RequestSteps DEF RowsInv

LEMMA ExpiryStep ==
    ASSUME RowsInv, [Next]_vars
    PROVE  ExpiryCopied'
  <1>1. CASE \E r \in Portal : Finalize(r)
    <2>1. PICK r \in Portal : Finalize(r)
      BY <1>1
    <2>2. PICK k : k = req[r].row
      OBVIOUS
    <2>3. /\ DOMAIN auths' = DOMAIN auths
          /\ auths'[k].owner = auths[k].owner /\ auths'[k].expires = auths[k].expires
          /\ \A i \in DOMAIN auths : i # k => auths'[i] = auths[i]
      BY <2>1, <2>2, FinalizeSteps
    <2>4. \A i \in DOMAIN auths :
             auths'[i].owner = auths[i].owner /\ auths'[i].expires = auths[i].expires
      BY <2>3
    <2> QED
      BY <2>3, <2>4 DEF RowsInv, ExpiryCopied
  <1>2. CASE \E r \in Portal : \E n : Inserts(r, n)
    BY <1>2 DEF RowsInv, ExpiryCopied, Inserts, Forward
  <1>3. CASE Lowers
    BY <1>3, LowersForward DEF RowsInv, ExpiryCopied, Forward
  <1> QED
    BY <1>1, <1>2, <1>3, StepKinds

\* What a redemption reads changes under it only by seats becoming free: no
\* one else commits a seat, revokes its coupon or revives a row beside it.
LEMMA ReadStep ==
    ASSUME RowsInv, [Next]_vars
    PROVE  ReadStillTrue'
  <1> USE DEF RowsInv
  <1>1. ASSUME \A q \in Portal : req'[q].pc # "reading"
        PROVE  ReadStillTrue'
    BY <1>1 DEF ReadStillTrue
  <1>2. CASE \E r \in Portal : Finalize(r)
    <2>1. PICK r \in Portal : Finalize(r)
      BY <1>2
    <2>2. /\ Holding(r) /\ DbFree({r}) /\ req' = [req EXCEPT ![r] = NoRequest]
          /\ req \in [Portal -> Request]
      BY <2>1, FinalizeSteps DEF WellFormed, TypeOK
    <2>3. \A q \in Portal : req'[q].pc # "reading"
      BY <2>2 DEF Holding, DbFree, NoRequest
    <2> QED
      BY <1>1, <2>3
  <1>3. CASE \E r \in Portal : \E n : Inserts(r, n)
    <2>1. \A q \in Portal : req'[q].pc # "reading"
      BY <1>3 DEF Inserts, DbFree
    <2> QED
      BY <1>1, <2>1
  <1>4. CASE Lowers /\ revoked' # revoked
    <2>1. DbFree({}) /\ req' = req
      BY <1>4, RevokedSteps
    <2> QED
      BY <1>1, <2>1, NoOneReading
  <1>5. CASE Lowers /\ \E r \in Portal, d \in Devices, c \in Coupons : RedeemRead(r, c, d)
    BY <1>5, StartReads
  <1>6. CASE /\ Lowers /\ revoked' = revoked
             /\ ~ \E r \in Portal, d \in Devices, c \in Coupons : RedeemRead(r, c, d)
    <2> SUFFICES ASSUME NEW r \in Portal, req'[r].pc = "reading", NEW c, c = req'[r].owner
                 PROVE  /\ c \notin revoked
                        /\ c \notin Unlimited =>
                              Cardinality(HeldDevices(c)') < CouponLimit[c]
      BY <1>6 DEF ReadStillTrue
    <2>1. req'[r] = req[r]
      BY <1>6, RequestSteps
    <2>2. /\ c \in Coupons /\ c \notin revoked
          /\ c \notin Unlimited => Cardinality(HeldDevices(c)) < CouponLimit[c]
      BY <2>1 DEF ReadStillTrue, WellFormed, RequestsWellFormed
    <2>3. /\ Cardinality(HeldDevices(c)') <= Cardinality(HeldDevices(c))
          /\ Cardinality(HeldDevices(c)') \in Nat /\ Cardinality(HeldDevices(c)) \in Nat
      <3>1. HeldDevices(c)' \subseteq HeldDevices(c)
        BY <1>6, LowersForward, HeldShrinks
      <3> QED
        BY <3>1, HeldFinite, FS_Subset, FS_CardinalityType
    <2>4. CouponLimit[c] \in Nat
      BY <2>2, TableAssumption
    <2> QED
      BY <2>2, <2>3, <2>4
  <1> QED
    BY <1>2, <1>3, <1>4, <1>5, <1>6, StepKinds

LEMMA InitRowsInv == Init => RowsInv
  <1> SUFFICES ASSUME Init
               PROVE  RowsInv
    OBVIOUS
  <1>1. SeatInv
    BY InitSeatInv
  <1>2. ReservationsUnsettled
    BY DEF Init, ReservationsUnsettled, Holding, NoRequest
  <1> QED
    BY <1>1, <1>2 DEF SeatInv, RowsInv

LEMMA NextRowsInv ==
    ASSUME RowsInv, [Next]_vars
    PROVE  RowsInv'
  <1>1. RevokedGranted'
    BY GrantedForEver, RevocationTargets DEF RowsInv, TargetsGranted
  <1> QED
    BY <1>1, NextWellFormed, UnsettledStep, ReplacedStep, ExpiryStep, ReadStep
    DEF RowsInv, TargetsGranted

LEMMA RowsInvHolds == Spec => []RowsInv
  BY InitRowsInv, NextRowsInv, PTL DEF Spec

\* With Prompt, a reservation is not even failed under its request.
LEMMA SeatInvRows == SeatInv => RowsInv
  BY DEF SeatInv, RowsInv, ReservationsOwned, ReservationsUnsettled

-----------------------------------------------------------------------------
(* The theorems *)

LEMMA SeatInvHolds ==
    ASSUME Prompt
    PROVE  Spec => []SeatInv
  BY InitSeatInv, NextSeatInv, PTL DEF Spec

\* If requests end within ReservationTTL, a coupon never admits more devices
\* than its device_limit (access.rs, redeem_coupon), whatever the number of
\* coupons, devices, requests and administrators and however their handlers,
\* the reconciler and restarts interleave.
THEOREM CouponsBounded ==
    ASSUME Prompt
    PROVE  Spec => []CouponWithinLimit
  <1>1. SeatInv => CouponWithinLimit
    BY DEF SeatInv
  <1> QED
    BY <1>1, SeatInvHolds, PTL

\* Every step leaves the rows that were there in place and moves them forward.
LEMMA NextForward ==
    ASSUME Prompt, SeatInv, [Next]_vars
    PROVE  \A i \in DOMAIN auths : Forward(i)
  <1>1. ASSUME NEW r \in Portal, RedeemReserve(r) \/ StaffReserve(r)
        PROVE  \A i \in DOMAIN auths : Forward(i)
    BY <1>1, RedeemInserts, StaffInserts DEF SeatInv, Inserts
  <1>2. ASSUME NEW r \in Portal,
               \/ StaffReplace(r) \/ StaffRetire(r) \/ Authorize(r)
               \/ Finalize(r) \/ Fail(r) \/ GiveUp(r) \/ GiveUpSent(r)
        PROVE  \A i \in DOMAIN auths : Forward(i)
    BY <1>2, RequestSettles DEF Settles
  <1>3. ASSUME NEW a \in Admins, AdminStep(a)
        PROVE  \A i \in DOMAIN auths : Forward(i)
    BY <1>3, RevocationSettles DEF Settles
  <1>4. ASSUME ReconStep
        PROVE  \A i \in DOMAIN auths : Forward(i)
    BY <1>4, ReconSettles DEF Settles
  <1>5. ASSUME Arrive
        PROVE  \A i \in DOMAIN auths : Forward(i)
    BY <1>5, StartSettles, RevokeStarts DEF Settles, Arrive
  <1>6. ASSUME Restart \/ Late \/ Tick \/ UNCHANGED vars
        PROVE  \A i \in DOMAIN auths : Forward(i)
    BY <1>6, WorldSettles DEF Settles
  <1> QED
    BY <1>1, <1>2, <1>3, <1>4, <1>5, <1>6 DEF Next, PortalStep

\* The blind UPDATEs of finalize, fail, the replacement of a staff device and
\* the coupon revocation never move a row back.
THEOREM RowsMoveForward ==
    ASSUME Prompt
    PROVE  Spec => StatusMovesForward
  <1>1. SeatInv /\ [Next]_vars =>
           [\A i \in DOMAIN auths :
               \/ auths'[i].status = auths[i].status
               \/ auths[i].status = "PENDING" /\ auths'[i].status \in {"ACTIVE", "FAILED"}
               \/ auths[i].status = "ACTIVE" /\ auths'[i].status = "REVOKED"]_vars
    BY NextForward DEF Forward
  <1> QED
    BY <1>1, SeatInvHolds, PTL DEF Spec, StatusMovesForward

\* What is revoked stays revoked, with or without Prompt: a row whose request
\* is still running was never granted, so the one that Finalize sets ACTIVE by
\* id, however late, is not one that an administrator or the reconciler revoked.
THEOREM RevokedIsFinal == Spec => RevokedStays
  <1>1. ASSUME RowsInv, [Next]_vars, NEW i \in DOMAIN auths, auths[i].status = "REVOKED"
        PROVE  auths'[i].status = "REVOKED"
    <2>1. CASE \E r \in Portal : Finalize(r)
      BY <1>1, <2>1, FinalizeSteps
    <2>2. CASE (\E r \in Portal : \E n : Inserts(r, n)) \/ Lowers
      <3>1. Forward(i)
        BY <1>1, <2>2, LowersForward DEF Inserts, RowsInv
      <3> QED
        BY <1>1, <3>1 DEF Forward
    <2> QED
      BY <1>1, <2>1, <2>2, StepKinds
  <1>2. RowsInv /\ [Next]_vars =>
           [\A i \in DOMAIN auths :
               auths[i].status = "REVOKED" => auths'[i].status = "REVOKED"]_vars
    BY <1>1
  <1> QED
    BY <1>2, RowsInvHolds, PTL DEF Spec, RevokedStays

\* Only a row of redeem_coupon belongs to a coupon, and it is inserted into a
\* coupon that is not revoked and has room.
LEMMA InsertHasRoom ==
    ASSUME RowsInv, [Next]_vars, NEW i \in DOMAIN auths' \ DOMAIN auths,
           NEW c \in Coupons, c = auths'[i].owner
    PROVE  /\ c \notin revoked
           /\ c \in Unlimited \/ Cardinality(HeldDevices(c)) < CouponLimit[c]
  <1>1. ~ \E r \in Portal : Finalize(r)
    BY FinalizeSteps
  <1>2. ~Lowers
    BY DEF Lowers
  <1>3. \E r \in Portal : \E n :
           (RedeemReserve(r) \/ StaffReserve(r)) /\ Inserts(r, n)
    BY <1>1, <1>2, StepKinds
  <1>4. PICK r \in Portal : \E n :
           (RedeemReserve(r) \/ StaffReserve(r)) /\ Inserts(r, n)
    BY <1>3
  <1>5. PICK n : (RedeemReserve(r) \/ StaffReserve(r)) /\ Inserts(r, n)
    BY <1>4
  <1>6. i = n /\ req[r].owner = c
    BY <1>5 DEF Inserts
  <1>7. RedeemReserve(r)
    <2>1. StaffReserve(r) => req[r].owner \in Users
      BY DEF StaffReserve, RowsInv, WellFormed, RequestsWellFormed
    <2> QED
      BY <1>5, <1>6, <2>1, TableAssumption
  <1> QED
    BY <1>6, <1>7 DEF RedeemReserve, RowsInv, ReadStillTrue

\* A seat is reserved only on a coupon that is not revoked and has room, in the
\* state of the INSERT and not only in the one the check read, with or without
\* Prompt: what outlives ReservationTTL can overfill a coupon only by Finalize
\* reviving the seat it lost.
THEOREM RoomIsThere == Spec => RoomWhenReserved
  <1>1. RowsInv /\ [Next]_vars =>
           [\A i \in DOMAIN auths' \ DOMAIN auths : auths'[i].owner \in Coupons =>
               /\ auths'[i].owner \notin revoked
               /\ auths'[i].owner \in Unlimited
                  \/ Cardinality(HeldDevices(auths'[i].owner))
                        < CouponLimit[auths'[i].owner]]_vars
    BY InsertHasRoom
  <1> QED
    BY <1>1, RowsInvHolds, PTL DEF Spec, RoomWhenReserved

-----------------------------------------------------------------------------
(* Refinement of SeatLedger *)

LEMMA InitLedger == Init => Ledger!Init
  <1>1. ASSUME Init
        PROVE  \A c \in Coupons : HeldDevices(c) = {}
    BY <1>1 DEF Init, HeldDevices, DevicesOf
  <1> QED
    BY <1>1 DEF Init, Ledger!Init

\* A step that settles rows and revokes nothing gives up seats, or none.
LEMMA SettlesReleases ==
    ASSUME WellFormed, DOMAIN auths' = DOMAIN auths, \A i \in DOMAIN auths : Forward(i),
           revoked' = revoked
    PROVE  Ledger!Release
  <1> DEFINE kept == [c \in Coupons |-> HeldDevices(c)']
  <1>1. \A c \in Coupons : HeldDevices(c)' \subseteq HeldDevices(c)
    BY HeldShrinks
  <1>2. \A c \in Coupons : HeldDevices(c) \subseteq Devices
    BY HeldFinite
  <1>3. kept \in [Coupons -> SUBSET Devices]
    BY <1>1, <1>2
  <1> QED
    BY <1>1, <1>3 DEF Ledger!Release

LEMMA RedeemLedger ==
    ASSUME SeatInv, NEW r \in Portal, RedeemReserve(r)
    PROVE  \E c \in Coupons, d \in Devices : Ledger!Take(c, d)
  <1>1. PICK n : Inserts(r, n)
    BY RedeemInserts DEF SeatInv
  <1>2. PICK c \in Coupons, d \in Devices : c = req[r].owner /\ d = req[r].dev
    BY RedeemTakes
  <1>3. /\ c \notin revoked /\ d \notin HeldDevices(c)
        /\ c \in Unlimited \/ Cardinality(HeldDevices(c)) < CouponLimit[c]
    BY <1>2, RedeemTakes
  <1>4. \A b \in Coupons : HeldDevices(b)' = IF b = c THEN HeldDevices(b) \cup {d}
                                            ELSE HeldDevices(b)
    BY <1>1, <1>2, InsertHeld
  <1>5. revoked' = revoked
    BY DEF RedeemReserve
  <1>6. Ledger!Take(c, d)
    <2>1. [b \in Coupons |-> HeldDevices(b)'] =
             [[b \in Coupons |-> HeldDevices(b)] EXCEPT ![c] = @ \cup {d}]
      BY <1>4
    <2>2. [b \in Coupons |-> HeldDevices(b)][c] = HeldDevices(c)
      OBVIOUS
    <2>3. Ledger!Room(c)
      BY <1>3, <2>2 DEF Ledger!Room, Cardinality, Ledger!Cardinality
    <2> QED
      BY <1>3, <1>5, <2>1, <2>2, <2>3 DEF Ledger!Take
  <1> QED
    BY <1>6

LEMMA StaffLedger ==
    ASSUME SeatInv, NEW r \in Portal, StaffReserve(r)
    PROVE  UNCHANGED <<[c \in Coupons |-> HeldDevices(c)], revoked>>
  <1>1. PICK n : Inserts(r, n)
    BY StaffInserts DEF SeatInv
  <1>2. req[r].owner \notin Coupons /\ revoked' = revoked
    BY TableAssumption DEF StaffReserve, SeatInv, WellFormed, RequestsWellFormed
  <1>3. \A c \in Coupons : HeldDevices(c)' = HeldDevices(c)
    BY <1>1, <1>2, InsertHeld
  <1> QED
    BY <1>2, <1>3

LEMMA CloseLedger ==
    ASSUME NEW a \in Admins, NEW c \in Coupons, CouponRevoke(a, c)
    PROVE  Ledger!Close(c)
  <1>1. auths' = auths /\ revoked' = revoked \cup {c}
    BY DEF CouponRevoke
  <1>2. \A b \in Coupons : HeldDevices(b)' = HeldDevices(b)
    BY <1>1 DEF HeldDevices, DevicesOf, Occupies
  <1> QED
    BY <1>1, <1>2 DEF Ledger!Close

LEMMA NextLedger ==
    ASSUME Prompt, SeatInv, [Next]_vars
    PROVE  \/ Ledger!Next
           \/ UNCHANGED <<[c \in Coupons |-> HeldDevices(c)], revoked>>
  <1>1. ASSUME Settles, revoked' = revoked
        PROVE  Ledger!Next
    BY <1>1, SettlesReleases DEF Settles, SeatInv, Ledger!Next
  <1>2. ASSUME NEW r \in Portal, RedeemReserve(r)
        PROVE  Ledger!Next
    BY <1>2, RedeemLedger DEF Ledger!Next
  <1>3. ASSUME NEW r \in Portal,
               \/ StaffReplace(r) \/ StaffRetire(r) \/ Authorize(r)
               \/ Finalize(r) \/ Fail(r) \/ GiveUp(r) \/ GiveUpSent(r)
        PROVE  Ledger!Next
    BY <1>1, <1>3, RequestSettles
  <1>4. ASSUME NEW a \in Admins, AdminStep(a)
        PROVE  Ledger!Next
    BY <1>1, <1>4, RevocationSettles
  <1>5. ASSUME ReconStep
        PROVE  Ledger!Next
    BY <1>1, <1>5, ReconSettles
  <1>6. ASSUME NEW r \in Portal, NEW d \in Devices,
               \/ \E c \in Coupons : RedeemRead(r, c, d)
               \/ \E u \in Users : StaffStart(r, u, d)
        PROVE  Ledger!Next
    BY <1>1, <1>6, StartSettles
  <1>7. ASSUME NEW a \in Admins, NEW i \in DOMAIN auths, RevokeSelect(a, i)
        PROVE  Ledger!Next
    <2>1. revoked' = revoked
      BY <1>7 DEF RevokeSelect, dbVars
    <2> QED
      BY <1>1, <1>7, <2>1, RevokeStarts
  <1>8. ASSUME NEW a \in Admins, NEW c \in Coupons, CouponRevoke(a, c)
        PROVE  Ledger!Next
    BY <1>8, CloseLedger DEF Ledger!Next
  <1>9. ASSUME Restart \/ Late \/ Tick \/ UNCHANGED vars
        PROVE  Ledger!Next
    BY <1>1, <1>9, WorldSettles
  <1> QED
    BY <1>2, <1>3, <1>4, <1>5, <1>6, <1>7, <1>8, <1>9, StaffLedger
    DEF Next, PortalStep, Arrive

\* Redemption, revocation, the reconciler and every failure path together
\* implement the seat ledger: a seat is taken only on a coupon that is not
\* revoked and has room, in one atomic step, although redeem_coupon asks the
\* controller between its check and its INSERT.
THEOREM LedgerImplemented ==
    ASSUME Prompt
    PROVE  Spec => ImplementsLedger
  <1>1. SeatInv /\ [Next]_vars =>
           [Ledger!Next]_<<[c \in Coupons |-> HeldDevices(c)], revoked>>
    BY NextLedger
  <1> QED
    BY <1>1, InitLedger, SeatInvHolds, PTL DEF Spec, ImplementsLedger, Ledger!Spec
=============================================================================
