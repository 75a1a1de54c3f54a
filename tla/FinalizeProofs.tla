---------------------------- MODULE FinalizeProofs ----------------------------
(***************************************************************************)
(* What Finalize adds: one audit record for each row that becomes ACTIVE,  *)
(* for every value of the constants; and never a device beyond a user's    *)
(* limit, with Prompt and SerialStaff.  The device replaced for it is the  *)
(* oldest up to the time a request may run, with Prompt, however many      *)
(* requests a user runs.                                                   *)
(*                                                                         *)
(* Finalize is the only step that makes a row ACTIVE (FinalizeOnly), and   *)
(* gives it a time its request has read (Past): not after now, and not     *)
(* before the request began.  The results follow from that step.           *)
(***************************************************************************)
EXTENDS SeatProofs, WellFoundedInduction

\* The shape of a step that makes no row ACTIVE.
ActivatesNone ==
    /\ DOMAIN auths \subseteq DOMAIN auths'
    /\ \A i \in DOMAIN auths :
          /\ Forward(i)
          /\ auths'[i].authorizedAt = auths[i].authorizedAt
          /\ auths'[i].status = "ACTIVE" => auths'[i] = auths[i]
    /\ \A i \in DOMAIN auths' \ DOMAIN auths : auths'[i].status = "PENDING"

LEMMA InsertActivatesNone ==
    ASSUME WellFormed, NEW r \in Portal, RedeemReserve(r) \/ StaffReserve(r)
    PROVE  ActivatesNone
  <1>1. PICK n : Inserts(r, n)
    BY RedeemInserts, StaffInserts
  <1>2. auths \in Seq(Row) /\ \A i \in DOMAIN auths : auths[i] \in Row
    BY RowsTyped DEF WellFormed, TypeOK
  <1>3. \A i \in DOMAIN auths :
           /\ auths'[i].authorizedAt = auths[i].authorizedAt
           /\ auths'[i].status = "ACTIVE" => auths'[i] = auths[i]
    <2>1. CASE RedeemReserve(r)
      <3> DEFINE row == NewRow(req[r].owner, req[r].dev, CouponExpiry[req[r].owner], req[r].at)
      <3>1. row \in Row
        <4>1. /\ req[r].owner \in Coupons /\ req[r].dev \in Devices /\ req[r].at \in Nat
          BY <2>1 DEF RedeemReserve, WellFormed, TypeOK, RequestsWellFormed, Request
        <4> QED
          BY <4>1, TableAssumption DEF NewRow, Row, Statuses, Owners
      <3>2. auths' = Append(auths, row)
        BY <2>1 DEF RedeemReserve
      <3> HIDE DEF row
      <3> QED
        BY <1>2, <3>1, <3>2, InsertFacts
    <2>2. CASE StaffReserve(r)
      <3>1. ASSUME NEW i \in DOMAIN auths
            PROVE  \/ auths'[i] = auths[i]
                   \/ auths'[i] = [auths[i] EXCEPT !.status = "REVOKED"]
        BY <2>2, StaffRows
      <3> QED
        BY <1>2, <3>1 DEF Row
    <2> QED
      BY <2>1, <2>2
  <1> QED
    BY <1>1, <1>3 DEF Inserts, ActivatesNone

\* A row becomes ACTIVE in no other step than Finalize.
LEMMA FinalizeOnly ==
    ASSUME RowsInv, [Next]_vars, \A r \in Portal : ~Finalize(r)
    PROVE  ActivatesNone
  <1>1. CASE Lowers
    BY <1>1, StepsDownForward DEF Lowers, ActivatesNone, RowsInv
  <1>2. CASE \E r \in Portal : RedeemReserve(r) \/ StaffReserve(r)
    BY <1>2, InsertActivatesNone DEF RowsInv
  <1> QED
    BY <1>1, <1>2, StepKinds

\* With Prompt, Finalize finds its reservation still PENDING.
LEMMA FinalizeFacts ==
    ASSUME SeatInv, NEW r \in Portal, Finalize(r)
    PROVE  LET k == req[r].row
           IN  /\ k \in DOMAIN auths /\ auths[k].status = "PENDING"
               /\ auths[k].owner = req[r].owner /\ req[r].owner \in Owners
               /\ DOMAIN auths' = DOMAIN auths
               /\ auths'[k].status = "ACTIVE" /\ auths'[k].authorizedAt = req[r].stamp
               /\ auths'[k].owner = auths[k].owner /\ auths'[k].expires = auths[k].expires
               /\ \A i \in DOMAIN auths : i # k => auths'[i] = auths[i]
  <1>1. auths[req[r].row].status = "PENDING"
    BY FinalizeSteps, SeatInvRows DEF SeatInv, ReservationsOwned
  <1> QED
    BY <1>1, FinalizeSteps, SeatInvRows

-----------------------------------------------------------------------------
(* Audit records *)

\* Rows of these owners that are, or were, ACTIVE.
GrantedOf(os) == {i \in DOMAIN auths : /\ auths[i].owner \in os
                                       /\ auths[i].status \in {"ACTIVE", "REVOKED"}}

LEMMA RowsFinite ==
    ASSUME WellFormed
    PROVE  IsFiniteSet(DOMAIN auths)
  <1>1. DOMAIN auths = 1..Len(auths) /\ Len(auths) \in Nat
    BY LenProperties DEF WellFormed, TypeOK
  <1> QED
    BY <1>1, FS_Interval

LEMMA GrantedFinite ==
    ASSUME WellFormed, NEW os
    PROVE  IsFiniteSet(GrantedOf(os))
  BY RowsFinite, FS_Subset DEF GrantedOf

LEMMA NoneGranted ==
    ASSUME ActivatesNone, NEW os
    PROVE  GrantedOf(os)' = GrantedOf(os)
  BY DEF ActivatesNone, Forward, GrantedOf

LEMMA OneGranted ==
    ASSUME RowsInv, NEW r \in Portal, Finalize(r), NEW os
    PROVE  Cardinality(GrantedOf(os)') = IF req[r].owner \in os
                                         THEN Cardinality(GrantedOf(os)) + 1
                                         ELSE Cardinality(GrantedOf(os))
  <1> DEFINE k == req[r].row
  <1>1. /\ k \in DOMAIN auths /\ auths[k].status \in {"PENDING", "FAILED"}
        /\ auths[k].owner = req[r].owner
        /\ DOMAIN auths' = DOMAIN auths
        /\ auths'[k].status = "ACTIVE" /\ auths'[k].owner = auths[k].owner
        /\ \A i \in DOMAIN auths : i # k => auths'[i] = auths[i]
    BY FinalizeSteps
  <1>2. k \notin GrantedOf(os)
    BY <1>1 DEF GrantedOf
  <1> HIDE DEF k
  <1>3. CASE req[r].owner \in os
    <2>1. GrantedOf(os)' = GrantedOf(os) \cup {k}
      BY <1>1, <1>3 DEF GrantedOf
    <2> QED
      BY <1>2, <1>3, <2>1, GrantedFinite, FS_AddElement DEF RowsInv
  <1>4. CASE req[r].owner \notin os
    <2>1. GrantedOf(os)' = GrantedOf(os)
      BY <1>1, <1>4 DEF GrantedOf
    <2> QED
      BY <1>4, <2>1
  <1> QED
    BY <1>3, <1>4

\* The two kinds of grants are recorded by Finalize alone.
LEMMA AuditChanges ==
    ASSUME WellFormed, [Next]_vars, \A r \in Portal : ~Finalize(r)
    PROVE  /\ audit'["COUPON_REDEEMED"] = audit["COUPON_REDEEMED"]
           /\ audit'["STAFF_DEVICE_AUTHORIZED"] = audit["STAFF_DEVICE_AUTHORIZED"]
  <1>1. \/ audit' = audit
        \/ \E e \in {"DEVICE_LIMIT_REPLACED", "AUTHORIZATION_REVOKED", "COUPON_REVOKED"} : Audit(e)
    <2>1. ASSUME NEW r \in Portal, PortalStep(r)
          PROVE  audit' = audit \/ Audit("DEVICE_LIMIT_REPLACED")
      BY <2>1 DEF PortalStep, RedeemReserve, StaffReserve, StaffReplace, StaffRetire,
         Authorize, Fail, GiveUp, GiveUpSent, dbVars
    <2>2. ASSUME NEW a \in Admins, AdminStep(a)
          PROVE  audit' = audit \/ Audit("AUTHORIZATION_REVOKED") \/ Audit("COUPON_REVOKED")
      BY <2>2 DEF AdminStep, RevokeUnauthorize, RevokeCommit, CouponSelect, CouponMark,
         CouponAudit, CouponUnauthorize, RevokeEnd, RevokeEndSent, dbVars
    <2>3. ASSUME ReconStep
          PROVE  audit' = audit
      BY <2>3 DEF ReconStep, ReconTimeout, ReconTimeoutError, ReconSelect, ReconUnauthorize,
         ReconMark, ReconMarkError, ReconSleep, dbVars
    <2>4. ASSUME Arrive \/ Restart \/ Late \/ Tick \/ UNCHANGED vars
          PROVE  audit' = audit
      BY <2>4 DEF Arrive, RedeemRead, StaffStart, RevokeSelect, CouponRevoke, Restart, Late,
         Tick, vars, dbVars
    <2> QED
      BY <2>1, <2>2, <2>3, <2>4 DEF Next
  <1>2. audit \in [Events -> Nat]
    BY DEF WellFormed, TypeOK
  <1> QED
    BY <1>1, <1>2 DEF Audit, Events

LEMMA FinalizeAudits ==
    ASSUME RowsInv, NEW r \in Portal, Finalize(r)
    PROVE  /\ audit'["COUPON_REDEEMED"] =
                IF req[r].owner \in Coupons THEN audit["COUPON_REDEEMED"] + 1
                ELSE audit["COUPON_REDEEMED"]
           /\ audit'["STAFF_DEVICE_AUTHORIZED"] =
                IF req[r].owner \in Users THEN audit["STAFF_DEVICE_AUTHORIZED"] + 1
                ELSE audit["STAFF_DEVICE_AUTHORIZED"]
  <1>1. req[r].owner \in Coupons \cup Users /\ Coupons \cap Users = {}
    BY FinalizeSteps, TableAssumption DEF Owners
  <1>2. audit \in [Events -> Nat] /\ Audit(RedeemedEvent(req[r].owner))
    BY DEF RowsInv, WellFormed, TypeOK, Finalize
  <1> QED
    BY <1>1, <1>2 DEF Audit, Events, RedeemedEvent

AuditInv ==
    /\ audit["COUPON_REDEEMED"] = Cardinality(GrantedOf(Coupons))
    /\ audit["STAFF_DEVICE_AUTHORIZED"] = Cardinality(GrantedOf(Users))

LEMMA AuditStep ==
    ASSUME RowsInv, AuditInv, [Next]_vars
    PROVE  AuditInv'
  <1>1. CASE \E r \in Portal : Finalize(r)
    <2>1. PICK r \in Portal : Finalize(r)
      BY <1>1
    <2>2. /\ Cardinality(GrantedOf(Coupons)') = IF req[r].owner \in Coupons
                                                THEN Cardinality(GrantedOf(Coupons)) + 1
                                                ELSE Cardinality(GrantedOf(Coupons))
          /\ Cardinality(GrantedOf(Users)') = IF req[r].owner \in Users
                                              THEN Cardinality(GrantedOf(Users)) + 1
                                              ELSE Cardinality(GrantedOf(Users))
      BY <2>1, OneGranted
    <2> QED
      BY <2>1, <2>2, FinalizeAudits DEF AuditInv
  <1>2. CASE \A r \in Portal : ~Finalize(r)
    <2>1. GrantedOf(Coupons)' = GrantedOf(Coupons) /\ GrantedOf(Users)' = GrantedOf(Users)
      BY <1>2, FinalizeOnly, NoneGranted
    <2> QED
      BY <1>2, <2>1, AuditChanges DEF AuditInv, RowsInv
  <1> QED
    BY <1>1, <1>2

\* Every row that ever became ACTIVE has its one audit record, through every
\* interleaving, crash and failed statement, and even if its request took so
\* long that its reservation was failed under it (finalize writes both in one
\* transaction, by id and without looking at the row).
THEOREM GrantsAreAudited == Spec => []AuditCountsGrants
  <1>1. Init => AuditInv
    BY FS_EmptySet DEF Init, AuditInv, GrantedOf, Events
  <1>2. RowsInv /\ AuditInv /\ [Next]_vars => AuditInv'
    BY AuditStep
  <1>3. AuditInv => AuditCountsGrants
    BY DEF AuditInv, AuditCountsGrants, GrantedOf
  <1> QED
    BY <1>1, <1>2, <1>3, RowsInvHolds, PTL DEF Spec

-----------------------------------------------------------------------------
(* A user's limit *)

\* Rows of a user that are ACTIVE and not expired at time t.
Alive(u, t) == {i \in ActiveIds(auths, u) : auths[i].expires > t}

\* SerialStaff: a user has one request.
OneRequest ==
    \A r, q \in Portal : req[r].owner \in Users /\ req[q].owner = req[r].owner => q = r

\* The times a request has read are past, in the order it read them.
Past ==
    \A r \in Portal :
        /\ req[r].pc # "idle" => req[r].at <= now
        /\ req[r].pc = "finalize" => req[r].at <= req[r].stamp /\ req[r].stamp <= now

\* A row that was ever ACTIVE keeps the time it became so.
Dated ==
    \A i \in DOMAIN auths : Granted(i) =>
        auths[i].authorizedAt \in Nat /\ auths[i].authorizedAt <= now

\* What the running request of a user may rely on, counted at the time it
\* started: before its INSERT, that the limit holds; while it replaces a row,
\* that there is room without that row; after that, that there is room.
Roomy(r) ==
    /\ req[r].pc = "resolving" =>
          Cardinality(Alive(req[r].owner, req[r].at)) <= StaffLimit[req[r].owner]
    /\ req[r].pc \in {"replace", "retire"} =>
          Cardinality(Alive(req[r].owner, req[r].at) \ {req[r].old}) < StaffLimit[req[r].owner]
    /\ req[r].pc \in {"authorize", "finalize"} =>
          Cardinality(Alive(req[r].owner, req[r].at)) < StaffLimit[req[r].owner]

StaffInv ==
    /\ StaffWithinLimit /\ OneRequest /\ Past /\ Dated
    /\ \A r \in Portal : req[r].owner \in Users => Roomy(r)

LEMMA AliveFinite ==
    ASSUME WellFormed, NEW u, NEW t
    PROVE  IsFiniteSet(Alive(u, t)) /\ Cardinality(Alive(u, t)) \in Nat
  <1>1. Alive(u, t) \subseteq DOMAIN auths
    BY DEF Alive, ActiveIds
  <1> QED
    BY <1>1, RowsFinite, FS_Subset, FS_CardinalityType

\* Fewer rows are no more.
LEMMA Fewer ==
    ASSUME NEW S, IsFiniteSet(S), NEW T, T \subseteq S
    PROVE  /\ IsFiniteSet(T) /\ Cardinality(T) <= Cardinality(S)
           /\ Cardinality(T) \in Nat /\ Cardinality(S) \in Nat
  BY FS_Subset, FS_CardinalityType

LEMMA AliveShrinks ==
    ASSUME ActivatesNone, NEW u, NEW t
    PROVE  Alive(u, t)' \subseteq Alive(u, t)
  <1>1. ASSUME NEW i \in DOMAIN auths', auths'[i].status = "ACTIVE"
        PROVE  i \in DOMAIN auths /\ auths'[i] = auths[i]
    BY <1>1 DEF ActivatesNone
  <1> QED
    BY <1>1 DEF Alive, ActiveIds

LEMMA LeastNatural ==
    ASSUME NEW T, T \subseteq Nat, T # {}
    PROVE  \E x \in T : \A y \in T : x <= y
  <1> DEFINE R == OpToRel(<, Nat)
  <1>1. IsWellFoundedOn(R, Nat)
    BY NatLessThanWellFounded
  <1>2. \A x, y \in Nat : x < y => <<x, y>> \in R
    BY DEF OpToRel
  <1> HIDE DEF R
  <1>3. PICK x \in T : \A y \in T : ~ (<<y, x>> \in R)
    BY <1>1, WFMin
  <1>4. \A y \in T : ~ (y < x)
    BY <1>2, <1>3
  <1>5. \A y \in T : x <= y
    BY <1>4
  <1> QED
    BY <1>5

\* A user with an ACTIVE row has an oldest one.
LEMMA OldestExists ==
    ASSUME NEW t, NEW u, NEW k \in DOMAIN t, t[k].owner = u, t[k].status = "ACTIVE",
           \A i \in DOMAIN t : t[i].status = "ACTIVE" => t[i].authorizedAt \in Nat
    PROVE  OldestActive(t, u) # {}
  <1> DEFINE active == {i \in DOMAIN t : t[i].owner = u /\ t[i].status = "ACTIVE"}
             times  == {t[i].authorizedAt : i \in active}
  <1>1. times \subseteq Nat /\ times # {}
    OBVIOUS
  <1> HIDE DEF times
  <1>2. PICK x \in times : \A y \in times : x <= y
    BY <1>1, LeastNatural
  <1>3. PICK i \in active : t[i].authorizedAt = x
    BY DEF times
  <1>4. \A j \in active : t[i].authorizedAt <= t[j].authorizedAt
    BY <1>2, <1>3 DEF times
  <1> QED
    BY <1>3, <1>4 DEF OldestActive

\* The INSERT of authorize_staff leaves room, or picks a row whose going does.
LEMMA StaffMakesRoom ==
    ASSUME SeatInv, Dated, NEW r \in Portal, StaffReserve(r), Roomy(r)
    PROVE  /\ req'[r].owner = req[r].owner /\ req'[r].at = req[r].at
           /\ \/ /\ req'[r].pc = "authorize"
                 /\ Cardinality(Alive(req[r].owner, req[r].at)') < StaffLimit[req[r].owner]
              \/ /\ req'[r].pc = "replace"
                 /\ Cardinality(Alive(req[r].owner, req[r].at)' \ {req'[r].old})
                       < StaffLimit[req[r].owner]
  <1> USE DEF SeatInv
  <1>0. PICK u, at, ids, t :
            /\ u = req[r].owner /\ at = req[r].at
            /\ ids = ActiveIds(auths, u) \cap ExpiredIds(auths, at)
            /\ t = SetStatus(auths, ids, "REVOKED")
    OBVIOUS
  <1>1. /\ req[r].pc = "resolving" /\ u \in Users /\ at \in Nat
        /\ req \in [Portal -> Request] /\ auths \in Seq(Row) /\ StaffLimit[u] \in Nat \ {0}
    BY <1>0, TableAssumption DEF StaffReserve, WellFormed, TypeOK, RequestsWellFormed, Request
  <1>2. /\ DOMAIN t = DOMAIN auths
        /\ \A i \in DOMAIN auths :
              /\ t[i] = IF i \in ids THEN [auths[i] EXCEPT !.status = "REVOKED"] ELSE auths[i]
              /\ auths'[i] = t[i]
    BY <1>0, StaffRows
  <1>3. \A i \in DOMAIN auths : auths[i] \in Row /\ i # 0
    BY <1>1, RowsTyped, LenProperties
  <1>4. PICK old \in Victims(t, u, at) :
           req' = [req EXCEPT ![r].pc = IF old = 0 THEN "authorize" ELSE "replace",
                              ![r].row = Len(auths) + 1, ![r].old = old]
    BY <1>0 DEF StaffReserve
  <1>5. /\ req'[r].pc = IF old = 0 THEN "authorize" ELSE "replace"
        /\ req'[r].old = old /\ req'[r].owner = u /\ req'[r].at = at
    BY <1>0, <1>1, <1>4 DEF Request
  <1> DEFINE left == {i \in DOMAIN t : t[i].owner = u /\ t[i].status = "ACTIVE"}
  <1>6. \A i \in left : i \in DOMAIN auths /\ i \notin ids /\ t[i] = auths[i]
    BY <1>2, <1>3 DEF Row
  <1>7. \A i \in left : t[i].expires > at
    <2>1. \A i \in DOMAIN auths : auths[i].expires \in Nat
      BY <1>3 DEF Row
    <2> QED
      BY <1>0, <1>1, <1>6, <2>1 DEF ActiveIds, ExpiredIds
  <1>8. left \subseteq Alive(u, at)
    BY <1>6, <1>7 DEF Alive, ActiveIds
  <1>9. Alive(u, at)' \subseteq left
    <2>1. PICK n : Inserts(r, n)
      BY StaffInserts
    <2> QED
      BY <1>2, <2>1 DEF Alive, ActiveIds, Inserts
  <1>10. left \subseteq Held(t, u, at) /\ Held(t, u, at) \subseteq DOMAIN auths
    BY <1>2, <1>7 DEF Held, Occupies
  <1>11. /\ IsFiniteSet(Alive(u, at)) /\ Cardinality(Alive(u, at)) <= StaffLimit[u]
         /\ IsFiniteSet(Held(t, u, at))
    BY <1>0, <1>1, <1>10, AliveFinite, RowsFinite, FS_Subset DEF Roomy
  <1>12. IsFiniteSet(left) /\ Cardinality(left) <= Cardinality(Alive(u, at))
         /\ Cardinality(left) <= Cardinality(Held(t, u, at))
         /\ Cardinality(left) \in Nat /\ Cardinality(Alive(u, at)) \in Nat
         /\ Cardinality(Held(t, u, at)) \in Nat
    BY <1>8, <1>10, <1>11, Fewer
  <1>13. old \in left \/ old = 0
    <2> HIDE DEF left
    <2>1. old \in OldestActive(t, u) \/ old = 0
      BY <1>4 DEF Victims
    <2> QED
      BY <2>1 DEF OldestActive, left
  <1>14. CASE old = 0
    <2>1. Cardinality(left) < StaffLimit[u]
      <3>1. CASE ~StaffFull(t, u, at)
        BY <1>1, <1>12, <3>1 DEF StaffFull
      <3>2. CASE StaffFull(t, u, at)
        <4>1. OldestActive(t, u) = {}
          <5>1. 0 \notin OldestActive(t, u)
            BY <1>2, <1>3 DEF OldestActive
          <5> QED
            BY <1>4, <1>14, <3>2, <5>1 DEF Victims
        <4>2. left = {}
          <5>1. \A i \in DOMAIN t : t[i].status = "ACTIVE" => t[i].authorizedAt \in Nat
            BY <1>2, <1>3 DEF Row, Dated, Granted
          <5> QED
            BY <4>1, <5>1, OldestExists
        <4> HIDE DEF left
        <4>3. Cardinality(left) = 0
          BY <4>2, FS_EmptySet
        <4> QED
          BY <1>1, <4>3
      <3> QED
        BY <3>1, <3>2
    <2> HIDE DEF left
    <2>2. Cardinality(Alive(u, at)') <= Cardinality(left) /\ Cardinality(Alive(u, at)') \in Nat
      BY <1>9, <1>12, Fewer
    <2> QED
      BY <1>0, <1>1, <1>5, <1>12, <1>14, <2>1, <2>2
  <1>15. CASE old \in left /\ old # 0
    <2> HIDE DEF left
    <2>1. Cardinality(left \ {old}) = Cardinality(left) - 1
      BY <1>12, <1>15, FS_RemoveElement
    <2>2. Alive(u, at)' \ {old} \subseteq left \ {old} /\ IsFiniteSet(left \ {old})
      BY <1>9, <1>12, Fewer
    <2>3. Cardinality(Alive(u, at)' \ {old}) <= Cardinality(left \ {old})
          /\ Cardinality(Alive(u, at)' \ {old}) \in Nat
      BY <2>2, Fewer
    <2> QED
      BY <1>0, <1>1, <1>5, <1>11, <1>12, <1>15, <2>1, <2>3
  <1> QED
    BY <1>13, <1>14, <1>15

\* What a step does to a request that runs for a user after it.
LEMMA StaffMoves ==
    ASSUME SerialStaff, SeatInv, [Next]_vars, NEW q \in Portal, req'[q].owner \in Users
    PROVE  \/ req'[q] = req[q]
           \/ /\ req'[q].pc = "resolving" /\ req'[q].at = now /\ auths' = auths /\ now' = now
              /\ \A p \in Portal : req[p].owner # req'[q].owner
              /\ \A p \in Portal \ {q} : req'[p] = req[p]
           \/ StaffReserve(q)
           \/ /\ req'[q].owner = req[q].owner /\ req'[q].at = req[q].at
              /\ req'[q].old = req[q].old
              /\ \/ req'[q].pc = "fail"
                 \/ req[q].pc = "replace" /\ req'[q].pc = "retire"
                 \/ StaffRetire(q) /\ req'[q].pc = "authorize"
                 \/ req[q].pc = "authorize" /\ req'[q].pc = "finalize"
  <1> USE DEF SeatInv
  <1>0. /\ req \in [Portal -> Request] /\ None \notin Users /\ Coupons \cap Users = {}
        /\ \A p \in Portal : req[p].pc = "reading" => req[p].owner \in Coupons
    BY TableAssumption DEF WellFormed, TypeOK, RequestsWellFormed
  <1>2. ASSUME NEW r \in Portal, NEW d \in Devices, NEW u \in Users, StaffStart(r, u, d)
        PROVE  \/ req'[q] = req[q]
               \/ /\ req'[q].pc = "resolving" /\ req'[q].at = now /\ auths' = auths
                  /\ now' = now
                  /\ \A p \in Portal : req[p].owner # req'[q].owner
                  /\ \A p \in Portal \ {q} : req'[p] = req[p]
    BY <1>0, <1>2 DEF StaffStart, dbVars
  <1>3. ASSUME NEW r \in Portal, NEW d \in Devices, NEW c \in Coupons, RedeemRead(r, c, d)
        PROVE  req'[q] = req[q]
    BY <1>0, <1>3 DEF RedeemRead
  <1>4. ASSUME NEW r \in Portal, RedeemReserve(r)
        PROVE  req'[q] = req[q]
    BY <1>0, <1>4 DEF RedeemReserve, Request
  <1>5. ASSUME NEW r \in Portal, StaffReserve(r)
        PROVE  req'[q] = req[q] \/ StaffReserve(q)
    <2>1. PICK n : Inserts(r, n)
      BY <1>5, StaffInserts
    <2> QED
      BY <1>5, <2>1 DEF Inserts
  <1>6. ASSUME NEW r \in Portal, StaffReplace(r) \/ StaffRetire(r) \/ Authorize(r)
        PROVE  \/ req'[q] = req[q]
               \/ /\ req'[q].owner = req[q].owner /\ req'[q].at = req[q].at
                  /\ req'[q].old = req[q].old
                  /\ \/ req'[q].pc = "fail"
                     \/ req[q].pc = "replace" /\ req'[q].pc = "retire"
                     \/ StaffRetire(q) /\ req'[q].pc = "authorize"
                     \/ req[q].pc = "authorize" /\ req'[q].pc = "finalize"
    <2>1. /\ Moved(r)
          /\ \/ req'[r].pc = "fail"
             \/ req[r].pc = "replace" /\ req'[r].pc = "retire"
             \/ StaffRetire(r) /\ req'[r].pc = "authorize"
             \/ req[r].pc = "authorize" /\ req'[r].pc = "finalize"
      <3>1. CASE StaffReplace(r)
        <4>1. PICK ok \in BOOLEAN : req' = [req EXCEPT ![r].pc = IF ok THEN "retire" ELSE "fail"]
          BY <3>1 DEF StaffReplace, Goto
        <4> QED
          BY <1>0, <3>1, <4>1 DEF StaffReplace, Moved, Request
      <3>2. CASE StaffRetire(r)
        BY <1>0, <3>2 DEF StaffRetire, Goto, Moved, Request
      <3>3. CASE Authorize(r)
        BY <3>3, AuthorizeMoves DEF Authorize
      <3> QED
        BY <1>6, <3>1, <3>2, <3>3
    <2> QED
      BY <2>1 DEF Moved
  <1>7. ASSUME NEW r \in Portal, Finalize(r) \/ Fail(r) \/ GiveUp(r) \/ GiveUpSent(r)
        PROVE  req'[q] = req[q]
    BY <1>0, <1>7 DEF Finalize, Fail, GiveUp, GiveUpSent, End, NoRequest
  <1>8. ~Restart
    BY <1>0 DEF Restart, NoRequest
  <1>9. CASE \E a \in Admins : AdminStep(a)
    BY <1>9, RevocationSettles
  <1>10. CASE ReconStep
    BY <1>10, ReconSettles
  <1>11. CASE \E a \in Admins : \/ \E i \in DOMAIN auths : RevokeSelect(a, i)
                                \/ \E c \in Coupons : CouponRevoke(a, c)
    BY <1>11 DEF RevokeSelect, CouponRevoke
  <1>12. CASE Late \/ Tick \/ UNCHANGED vars
    BY <1>12 DEF Late, Tick, vars
  <1> QED
    BY <1>2, <1>3, <1>4, <1>5, <1>6, <1>7, <1>8, <1>9, <1>10, <1>11, <1>12
    DEF Next, Arrive, PortalStep

\* Every step settles rows, or is one of the INSERTs.
LEMMA NextShape ==
    ASSUME Prompt, SeatInv, [Next]_vars
    PROVE  \/ Settles
           \/ \E r \in Portal : \E n : Inserts(r, n)
  <1>1. ASSUME NEW r \in Portal, RedeemReserve(r) \/ StaffReserve(r)
        PROVE  \E n : Inserts(r, n)
    BY <1>1, RedeemInserts, StaffInserts DEF SeatInv
  <1>2. ASSUME NEW r \in Portal,
               \/ StaffReplace(r) \/ StaffRetire(r) \/ Authorize(r)
               \/ Finalize(r) \/ Fail(r) \/ GiveUp(r) \/ GiveUpSent(r)
        PROVE  Settles
    BY <1>2, RequestSettles
  <1>3. ASSUME NEW a \in Admins, AdminStep(a)
        PROVE  Settles
    BY <1>3, RevocationSettles
  <1>4. ASSUME ReconStep
        PROVE  Settles
    BY <1>4, ReconSettles
  <1>5. ASSUME Arrive
        PROVE  Settles
    BY <1>5, StartSettles, RevokeStarts DEF Arrive
  <1>6. ASSUME Restart \/ Late \/ Tick \/ UNCHANGED vars
        PROVE  Settles
    BY <1>6, WorldSettles
  <1> QED
    BY <1>1, <1>2, <1>3, <1>4, <1>5, <1>6 DEF Next, PortalStep

LEMMA TimePasses ==
    ASSUME WellFormed, [Next]_vars
    PROVE  now \in Nat /\ now' \in Nat /\ now <= now'
  <1>1. now \in Nat
    BY DEF WellFormed, TypeOK, ControllerTypeOK
  <1>2. now' = now \/ now' = now + 1
    <2>1. ASSUME NEW r \in Portal, PortalStep(r)
          PROVE  now' = now
      BY <2>1 DEF PortalStep, RedeemReserve, StaffReserve, StaffReplace, StaffRetire,
         Authorize, Finalize, Fail, GiveUp, GiveUpSent
    <2>2. ASSUME NEW a \in Admins, AdminStep(a)
          PROVE  now' = now
      BY <2>2 DEF AdminStep, RevokeUnauthorize, RevokeCommit, CouponSelect, CouponMark,
         CouponAudit, CouponUnauthorize, RevokeEnd, RevokeEndSent
    <2>3. ASSUME ReconStep
          PROVE  now' = now
      BY <2>3 DEF ReconStep, ReconTimeout, ReconTimeoutError, ReconSelect, ReconUnauthorize,
         ReconMark, ReconMarkError, ReconSleep
    <2>4. ASSUME Arrive \/ Restart \/ Late \/ UNCHANGED vars
          PROVE  now' = now
      BY <2>4 DEF Arrive, RedeemRead, StaffStart, RevokeSelect, CouponRevoke, Restart, Late,
         vars
    <2>5. ASSUME Tick
          PROVE  now' = now + 1
      BY <2>5 DEF Tick
    <2> QED
      BY <2>1, <2>2, <2>3, <2>4, <2>5 DEF Next
  <1> QED
    BY <1>1, <1>2

\* A request comes to "finalize" with the present time.
LEMMA StampedStep ==
    ASSUME WellFormed, [Next]_vars, NEW q \in Portal, req'[q].pc = "finalize"
    PROVE  \/ req'[q] = req[q]
           \/ req'[q].stamp = now
  <1>0. req \in [Portal -> Request]
    BY DEF WellFormed, TypeOK
  <1>1. ASSUME NEW r \in Portal, PortalStep(r)
        PROVE  req'[q] = req[q] \/ req'[q].stamp = now
    <2>1. CASE Authorize(r)
      BY <2>1, AuthorizeMoves DEF Moved
    <2>2. CASE RedeemReserve(r)
      BY <1>0, <2>2 DEF RedeemReserve, Request
    <2>3. CASE StaffReserve(r)
      <3>1. PICK old :
               req' = [req EXCEPT ![r].pc = IF old = 0 THEN "authorize" ELSE "replace",
                                  ![r].row = Len(auths) + 1, ![r].old = old]
        BY <2>3 DEF StaffReserve
      <3> QED
        BY <1>0, <3>1 DEF Request
    <2>4. CASE StaffReplace(r)
      <3>1. PICK ok \in BOOLEAN : req' = [req EXCEPT ![r].pc = IF ok THEN "retire" ELSE "fail"]
        BY <2>4 DEF StaffReplace, Goto
      <3> QED
        BY <1>0, <3>1 DEF Request
    <2>5. CASE StaffRetire(r)
      BY <1>0, <2>5 DEF StaffRetire, Goto, Request
    <2>6. CASE Finalize(r) \/ Fail(r) \/ GiveUp(r) \/ GiveUpSent(r)
      BY <1>0, <2>6 DEF Finalize, Fail, GiveUp, GiveUpSent, End, NoRequest
    <2> QED
      BY <1>1, <2>1, <2>2, <2>3, <2>4, <2>5, <2>6 DEF PortalStep
  <1>2. ASSUME NEW a \in Admins, AdminStep(a)
        PROVE  req' = req
    BY <1>2 DEF AdminStep, RevokeUnauthorize, RevokeCommit, CouponSelect, CouponMark,
       CouponAudit, CouponUnauthorize, RevokeEnd, RevokeEndSent
  <1>3. ASSUME ReconStep
        PROVE  req' = req
    BY <1>3 DEF ReconStep, ReconTimeout, ReconTimeoutError, ReconSelect, ReconUnauthorize,
       ReconMark, ReconMarkError, ReconSleep
  <1>4. ASSUME Arrive
        PROVE  req'[q] = req[q]
    <2>1. ASSUME NEW r \in Portal, NEW d \in Devices,
                 \/ \E c \in Coupons : RedeemRead(r, c, d)
                 \/ \E u \in Users : StaffStart(r, u, d)
          PROVE  req'[q] = req[q]
      BY <1>0, <2>1 DEF RedeemRead, StaffStart
    <2>2. ASSUME NEW a \in Admins,
                 \/ \E i \in DOMAIN auths : RevokeSelect(a, i)
                 \/ \E c \in Coupons : CouponRevoke(a, c)
          PROVE  req' = req
      BY <2>2 DEF RevokeSelect, CouponRevoke
    <2> QED
      BY <1>4, <2>1, <2>2 DEF Arrive
  <1>5. ASSUME Restart \/ Late \/ Tick \/ UNCHANGED vars
        PROVE  req'[q] = req[q]
    BY <1>0, <1>5 DEF Restart, NoRequest, Late, Tick, vars
  <1> QED
    BY <1>1, <1>2, <1>3, <1>4, <1>5 DEF Next

LEMMA PastStep ==
    ASSUME RowsInv, Past, [Next]_vars
    PROVE  Past'
  <1> SUFFICES ASSUME NEW q \in Portal, req'[q].pc # "idle"
               PROVE  /\ req'[q].at <= now'
                      /\ req'[q].pc = "finalize" =>
                            req'[q].at <= req'[q].stamp /\ req'[q].stamp <= now'
    BY DEF Past
  <1>1. now \in Nat /\ now' \in Nat /\ now <= now'
    BY TimePasses DEF RowsInv
  <1>2. req[q].at \in Nat /\ req[q].stamp \in Nat
    BY DEF RowsInv, WellFormed, TypeOK, Request
  <1>3. \/ req[q].pc # "idle" /\ req'[q].at = req[q].at
        \/ req'[q].at = now
    <2>1. CASE Onward(q)
      BY <2>1 DEF Onward, Holding, NoRequest
    <2>2. CASE RedeemReserve(q) \/ StaffReserve(q)
      <3>1. PICK n : Inserts(q, n)
        BY <2>2, RedeemInserts, StaffInserts DEF RowsInv
      <3> QED
        BY <3>1 DEF Inserts
    <2> QED
      BY <2>1, <2>2, RequestSteps DEF RowsInv
  <1>4. req'[q].at <= now
    BY <1>1, <1>3 DEF Past
  <1>5. req'[q].pc = "finalize" => req'[q].at <= req'[q].stamp /\ req'[q].stamp <= now
    <2>1. req'[q].pc = "finalize" => req'[q] = req[q] \/ req'[q].stamp = now
      BY StampedStep DEF RowsInv
    <2> QED
      BY <1>1, <1>4, <2>1 DEF Past
  <1>6. req'[q].at \in Nat /\ (req'[q].pc = "finalize" => req'[q].stamp \in Nat)
    BY <1>1, <1>2, <1>3, StampedStep DEF RowsInv
  <1> QED
    BY <1>1, <1>4, <1>5, <1>6

LEMMA OneRequestStep ==
    ASSUME SerialStaff, SeatInv, OneRequest, [Next]_vars
    PROVE  OneRequest'
  <1> SUFFICES ASSUME NEW r \in Portal, NEW q \in Portal, req'[r].owner \in Users,
                      req'[q].owner = req'[r].owner, q # r
               PROVE  FALSE
    BY DEF OneRequest
  <1>1. ASSUME NEW p \in Portal, req'[p].owner \in Users
        PROVE  \/ req'[p].owner = req[p].owner
               \/ /\ \A o \in Portal : req[o].owner # req'[p].owner
                  /\ \A o \in Portal \ {p} : req'[o] = req[o]
    <2>1. StaffReserve(p) => req'[p].owner = req[p].owner
      BY StaffInserts DEF SeatInv, Inserts, StaffReserve, WellFormed, TypeOK, Request
    <2> QED
      BY <1>1, <2>1, StaffMoves
  <1> QED
    BY <1>1 DEF OneRequest

LEMMA DatedStep ==
    ASSUME RowsInv, Past, Dated, [Next]_vars
    PROVE  Dated'
  <1>0. now \in Nat /\ now' \in Nat /\ now <= now'
    BY TimePasses DEF RowsInv
  <1> SUFFICES ASSUME NEW i \in DOMAIN auths', auths'[i].status \in {"ACTIVE", "REVOKED"}
               PROVE  auths'[i].authorizedAt \in Nat /\ auths'[i].authorizedAt <= now'
    BY DEF Dated, Granted
  <1>1. \/ auths'[i].authorizedAt \in Nat /\ auths'[i].authorizedAt <= now
        \/ Granted(i) /\ auths'[i].authorizedAt = auths[i].authorizedAt
    <2>1. CASE \E r \in Portal : Finalize(r)
      <3>1. PICK r \in Portal : Finalize(r)
        BY <2>1
      <3>2. req[r].stamp \in Nat /\ req[r].stamp <= now
        BY <3>1 DEF Finalize, Past, RowsInv, WellFormed, TypeOK, Request
      <3> QED
        BY <3>1, <3>2, FinalizeSteps DEF Granted
    <2>2. CASE \A r \in Portal : ~Finalize(r)
      BY <2>2, FinalizeOnly DEF ActivatesNone, Forward, Granted
    <2> QED
      BY <2>1, <2>2
  <1> QED
    BY <1>0, <1>1 DEF Dated, Granted

LEMMA AliveLater ==
    ASSUME WellFormed, NEW u, NEW s \in Nat, NEW t \in Nat, s <= t
    PROVE  Alive(u, t) \subseteq Alive(u, s)
  <1>1. \A i \in DOMAIN auths : auths[i].expires \in Nat
    BY RowsTyped DEF WellFormed, TypeOK, Row
  <1> QED
    BY <1>1 DEF Alive, ActiveIds

\* Finalize adds its row to those of its owner.
LEMMA FinalizeAlive ==
    ASSUME SeatInv, NEW r \in Portal, Finalize(r), NEW u, NEW t
    PROVE  /\ u # req[r].owner => Alive(u, t)' = Alive(u, t)
           /\ Alive(u, t)' \subseteq Alive(u, t) \cup {req[r].row}
  <1>1. LET k == req[r].row
        IN  /\ k \in DOMAIN auths /\ auths[k].status = "PENDING"
            /\ auths[k].owner = req[r].owner
            /\ DOMAIN auths' = DOMAIN auths
            /\ auths'[k].owner = auths[k].owner
            /\ \A i \in DOMAIN auths : i # k => auths'[i] = auths[i]
    BY FinalizeFacts
  <1> QED
    BY <1>1 DEF Alive, ActiveIds

LEMMA RoomyStep ==
    ASSUME Prompt, SerialStaff, SeatInv, StaffInv, [Next]_vars,
           NEW q \in Portal, req'[q].owner \in Users
    PROVE  Roomy(q)'
  <1> USE DEF StaffInv
  <1>1. \A u, t : IsFiniteSet(Alive(u, t)) /\ Cardinality(Alive(u, t)) \in Nat
    BY AliveFinite DEF SeatInv
  <1>2. ~Finalize(q)
    <2>1. Finalize(q) => req'[q].owner = None
      BY DEF Finalize, End, NoRequest, SeatInv, WellFormed, TypeOK
    <2> QED
      BY <2>1, TableAssumption
  <1>3. ASSUME NEW u, NEW t, u = req[q].owner, req'[q].owner = u
        PROVE  Alive(u, t)' \subseteq Alive(u, t)
    <2>1. CASE \E r \in Portal : Finalize(r)
      <3>1. PICK r \in Portal : Finalize(r)
        BY <2>1
      <3>2. r # q /\ req[r].owner # u
        BY <1>2, <1>3, <3>1 DEF OneRequest
      <3> QED
        BY <3>1, <3>2, FinalizeAlive
    <2>2. CASE \A r \in Portal : ~Finalize(r)
      BY <2>2, FinalizeOnly, AliveShrinks, SeatInvRows
    <2> QED
      BY <2>1, <2>2
  <1>4. CASE StaffReserve(q)
    <2>1. req[q].pc = "resolving" /\ req[q].owner \in Users
      BY <1>4 DEF StaffReserve, SeatInv, WellFormed, RequestsWellFormed
    <2>2. PICK u, at : u = req[q].owner /\ at = req[q].at
      OBVIOUS
    <2>3. /\ req'[q].owner = u /\ req'[q].at = at
          /\ \/ req'[q].pc = "authorize" /\ Cardinality(Alive(u, at)') < StaffLimit[u]
             \/ /\ req'[q].pc = "replace"
                /\ Cardinality(Alive(u, at)' \ {req'[q].old}) < StaffLimit[u]
      BY <1>4, <2>1, <2>2, StaffMakesRoom
    <2> QED
      BY <2>3 DEF Roomy
  <1>5. CASE req'[q] = req[q]
    <2>1. PICK u, at, old, pc :
             u = req[q].owner /\ at = req[q].at /\ old = req[q].old /\ pc = req[q].pc
      OBVIOUS
    <2>2. Alive(u, at)' \subseteq Alive(u, at)
      BY <1>3, <1>5, <2>1
    <2>3. Alive(u, at)' \ {old} \subseteq Alive(u, at) \ {old} /\ IsFiniteSet(Alive(u, at) \ {old})
      BY <1>1, <2>2, Fewer
    <2>4. /\ Cardinality(Alive(u, at)') <= Cardinality(Alive(u, at))
          /\ Cardinality(Alive(u, at)' \ {old}) <= Cardinality(Alive(u, at) \ {old})
          /\ Cardinality(Alive(u, at)') \in Nat /\ Cardinality(Alive(u, at)' \ {old}) \in Nat
          /\ Cardinality(Alive(u, at)) \in Nat /\ Cardinality(Alive(u, at) \ {old}) \in Nat
      BY <1>1, <2>2, <2>3, Fewer
    <2>5. StaffLimit[u] \in Nat /\ u \in Users
      BY <1>5, <2>1, TableAssumption
    <2>6. /\ pc = "resolving" => Cardinality(Alive(u, at)) <= StaffLimit[u]
          /\ pc \in {"replace", "retire"} => Cardinality(Alive(u, at) \ {old}) < StaffLimit[u]
          /\ pc \in {"authorize", "finalize"} => Cardinality(Alive(u, at)) < StaffLimit[u]
      BY <2>1, <2>5 DEF Roomy
    <2>7. /\ pc = "resolving" => Cardinality(Alive(u, at)') <= StaffLimit[u]
          /\ pc \in {"replace", "retire"} => Cardinality(Alive(u, at)' \ {old}) < StaffLimit[u]
          /\ pc \in {"authorize", "finalize"} => Cardinality(Alive(u, at)') < StaffLimit[u]
      BY <2>4, <2>5, <2>6
    <2>8. req'[q].owner = u /\ req'[q].at = at /\ req'[q].old = old /\ req'[q].pc = pc
      BY <1>5, <2>1
    <2> QED
      BY <2>7, <2>8 DEF Roomy
  <1>6. CASE /\ req'[q].pc = "resolving" /\ req'[q].at = now /\ auths' = auths
    <2>1. PICK u, at : u = req'[q].owner /\ at = now
      OBVIOUS
    <2>2. Alive(u, at)' = Alive(u, at)
      BY <1>6 DEF Alive, ActiveIds
    <2>3. Cardinality(Alive(u, at)) <= StaffLimit[u]
      BY <2>1 DEF StaffWithinLimit, Alive
    <2> QED
      BY <1>6, <2>1, <2>2, <2>3 DEF Roomy
  <1>7. CASE /\ req'[q].owner = req[q].owner /\ req'[q].at = req[q].at
             /\ req'[q].old = req[q].old
             /\ \/ req'[q].pc = "fail"
                \/ req[q].pc = "replace" /\ req'[q].pc = "retire"
                \/ StaffRetire(q) /\ req'[q].pc = "authorize"
                \/ req[q].pc = "authorize" /\ req'[q].pc = "finalize"
    <2>1. PICK u, at, old : u = req[q].owner /\ at = req[q].at /\ old = req[q].old
      OBVIOUS
    <2>2. Alive(u, at)' \subseteq Alive(u, at)
      BY <1>3, <1>7, <2>1
    <2>3. StaffLimit[u] \in Nat /\ u \in Users
      BY <1>7, <2>1, TableAssumption
    <2>4. Alive(u, at)' \ {old} \subseteq Alive(u, at) \ {old} /\ IsFiniteSet(Alive(u, at) \ {old})
      BY <1>1, <2>2, Fewer
    <2>5. /\ Cardinality(Alive(u, at)') <= Cardinality(Alive(u, at))
          /\ Cardinality(Alive(u, at)' \ {old}) <= Cardinality(Alive(u, at) \ {old})
          /\ Cardinality(Alive(u, at)') \in Nat /\ Cardinality(Alive(u, at)' \ {old}) \in Nat
          /\ Cardinality(Alive(u, at)) \in Nat /\ Cardinality(Alive(u, at) \ {old}) \in Nat
      BY <1>1, <2>2, <2>4, Fewer
    <2>6. Roomy(q)
      BY <2>1, <2>3
    <2>7. CASE req'[q].pc = "fail"
      BY <2>7 DEF Roomy
    <2>8. CASE req[q].pc = "replace" /\ req'[q].pc = "retire"
      <3>1. Cardinality(Alive(u, at) \ {old}) < StaffLimit[u]
        BY <2>1, <2>6, <2>8 DEF Roomy
      <3>2. Cardinality(Alive(u, at)' \ {old}) < StaffLimit[u]
        BY <2>3, <2>5, <3>1
      <3> QED
        BY <1>7, <2>1, <2>8, <3>2 DEF Roomy
    <2>9. CASE StaffRetire(q) /\ req'[q].pc = "authorize"
      <3>1. Cardinality(Alive(u, at) \ {old}) < StaffLimit[u]
        BY <2>1, <2>6, <2>9 DEF Roomy, StaffRetire
      <3>2. old \notin Alive(u, at)'
        <4>1. auths' = SetStatus(auths, {old}, "REVOKED") /\ auths \in Seq(Row)
              /\ "REVOKED" \in Statuses
          BY <2>1, <2>9 DEF StaffRetire, SeatInv, WellFormed, TypeOK, Statuses
        <4>2. DOMAIN auths' = DOMAIN auths /\ \A i \in DOMAIN auths : auths[i] \in Row
          BY <4>1, SetStatusFacts, RowsTyped
        <4>3. old \in DOMAIN auths => auths'[old] = [auths[old] EXCEPT !.status = "REVOKED"]
          BY <4>1, SetStatusFacts
        <4> QED
          BY <4>2, <4>3 DEF Alive, ActiveIds, Row
      <3>3. Alive(u, at)' \ {old} = Alive(u, at)'
        BY <3>2
      <3>4. Cardinality(Alive(u, at)' \ {old}) < StaffLimit[u]
        BY <2>3, <2>5, <3>1
      <3> QED
        BY <1>7, <2>1, <2>9, <3>3, <3>4 DEF Roomy
    <2>10. CASE req[q].pc = "authorize" /\ req'[q].pc = "finalize"
      <3>1. Cardinality(Alive(u, at)) < StaffLimit[u]
        BY <2>1, <2>6, <2>10 DEF Roomy
      <3>2. Cardinality(Alive(u, at)') < StaffLimit[u]
        BY <2>3, <2>5, <3>1
      <3> QED
        BY <1>7, <2>1, <2>10, <3>2 DEF Roomy
    <2> QED
      BY <1>7, <2>7, <2>8, <2>9, <2>10
  <1> QED
    BY <1>4, <1>5, <1>6, <1>7, StaffMoves

LEMMA LimitStep ==
    ASSUME Prompt, SeatInv, StaffInv, [Next]_vars
    PROVE  StaffWithinLimit'
  <1> SUFFICES ASSUME NEW u \in Users, NEW t, t = now'
               PROVE  Cardinality(Alive(u, t)') <= StaffLimit[u]
    BY DEF StaffWithinLimit, Alive
  <1> USE DEF StaffInv
  <1>1. now \in Nat /\ t \in Nat /\ now <= t /\ StaffLimit[u] \in Nat
    BY TimePasses, TableAssumption DEF SeatInv
  <1>2. IsFiniteSet(Alive(u, now)) /\ Cardinality(Alive(u, now)) <= StaffLimit[u]
        /\ Alive(u, t) \subseteq Alive(u, now)
    BY <1>1, AliveFinite, AliveLater DEF StaffWithinLimit, Alive, SeatInv
  <1>3. CASE \E r \in Portal : Finalize(r) /\ req[r].owner = u
    <2>1. PICK r \in Portal : Finalize(r) /\ req[r].owner = u
      BY <1>3
    <2>2. PICK at, k : at = req[r].at /\ k = req[r].row
      OBVIOUS
    <2>3. at \in Nat /\ at <= now /\ req[r].pc = "finalize"
      BY <2>1, <2>2 DEF Finalize, SeatInv, WellFormed, TypeOK, Request, Past
    <2>4. Cardinality(Alive(u, at)) < StaffLimit[u] /\ IsFiniteSet(Alive(u, at))
          /\ Cardinality(Alive(u, at)) \in Nat
      BY <2>1, <2>2, <2>3, AliveFinite DEF Roomy, SeatInv
    <2>5. Alive(u, t) \subseteq Alive(u, at)
      BY <1>1, <2>3, AliveLater DEF SeatInv
    <2>6. Alive(u, t)' \subseteq Alive(u, at) \cup {k}
      BY <2>1, <2>2, <2>5, FinalizeAlive
    <2>7. /\ IsFiniteSet(Alive(u, at) \cup {k})
          /\ Cardinality(Alive(u, at) \cup {k}) <= Cardinality(Alive(u, at)) + 1
          /\ Cardinality(Alive(u, at) \cup {k}) \in Nat
      <3> DEFINE S == Alive(u, at)
      <3>1. IsFiniteSet(S) /\ Cardinality(S) \in Nat
        BY <2>4
      <3> HIDE DEF S
      <3>2. /\ IsFiniteSet(S \cup {k})
            /\ Cardinality(S \cup {k}) = IF k \in S THEN Cardinality(S) ELSE Cardinality(S) + 1
        BY <3>1, FS_AddElement
      <3> QED
        BY <3>1, <3>2 DEF S
    <2>8. Cardinality(Alive(u, t)') <= Cardinality(Alive(u, at) \cup {k})
          /\ Cardinality(Alive(u, t)') \in Nat
      BY <2>6, <2>7, Fewer
    <2> QED
      BY <1>1, <2>4, <2>7, <2>8
  <1>4. CASE ~ \E r \in Portal : Finalize(r) /\ req[r].owner = u
    <2>1. Alive(u, t)' \subseteq Alive(u, t)
      <3>1. CASE \E r \in Portal : Finalize(r)
        BY <1>4, <3>1, FinalizeAlive
      <3>2. CASE \A r \in Portal : ~Finalize(r)
        BY <3>2, FinalizeOnly, AliveShrinks, SeatInvRows
      <3> QED
        BY <3>1, <3>2
    <2>2. Cardinality(Alive(u, t)') <= Cardinality(Alive(u, now))
          /\ Cardinality(Alive(u, t)') \in Nat /\ Cardinality(Alive(u, now)) \in Nat
      BY <1>2, <2>1, Fewer
    <2> QED
      BY <1>1, <1>2, <2>2
  <1> QED
    BY <1>3, <1>4

LEMMA InitStaffInv == Init => StaffInv
  <1> SUFFICES ASSUME Init PROVE StaffInv
    OBVIOUS
  <1>1. DOMAIN auths = {} /\ \A r \in Portal : req[r] = NoRequest
    BY DEF Init
  <1>2. OneRequest /\ Past /\ Dated /\ \A r \in Portal : req[r].owner \in Users => Roomy(r)
    BY <1>1, TableAssumption DEF OneRequest, Past, Dated, Roomy, NoRequest
  <1>3. StaffWithinLimit
    <2> SUFFICES ASSUME NEW u \in Users
                 PROVE  Cardinality(Alive(u, now)) <= StaffLimit[u]
      BY DEF StaffWithinLimit, Alive
    <2>1. Alive(u, now) = {}
      BY <1>1 DEF Alive, ActiveIds
    <2> QED
      BY <2>1, FS_EmptySet, TableAssumption
  <1> QED
    BY <1>2, <1>3 DEF StaffInv

\* A user whose requests come one at a time has at most device_limit devices
\* with unexpired access (access.rs, authorize_staff), although the replacement
\* is three steps over two systems that fail, and race with revocations and the
\* reconciler.
THEOREM StaffBounded ==
    ASSUME Prompt, SerialStaff
    PROVE  Spec => []StaffWithinLimit
  <1>1. SeatInv /\ StaffInv /\ [Next]_vars => StaffInv'
    BY SeatInvRows, PastStep, OneRequestStep, DatedStep, RoomyStep, LimitStep DEF StaffInv
  <1>2. StaffInv => StaffWithinLimit
    BY DEF StaffInv
  <1> QED
    BY <1>1, <1>2, InitStaffInv, SeatInvHolds, PTL DEF Spec

-----------------------------------------------------------------------------
(* The device that is replaced *)

\* The row a request is about to retire was authorized before every other ACTIVE
\* row of its user, or later by no more than another request may have run.
OldestFirst(r) ==
    req[r].pc \in {"replace", "retire"} =>
        \A j \in ActiveIds(auths, req[r].owner) :
            auths[req[r].old].authorizedAt <= auths[j].authorizedAt + ReservationTTL

\* The choice, over the rows as the INSERT leaves them.
LEMMA StaffPicksOldest ==
    ASSUME RowsInv, Dated, NEW r \in Portal, StaffReserve(r)
    PROVE  OldestFirst(r)'
  <1> USE DEF RowsInv
  <1>0. PICK u, at, ids, t :
            /\ u = req[r].owner /\ at = req[r].at
            /\ ids = ActiveIds(auths, u) \cap ExpiredIds(auths, at)
            /\ t = SetStatus(auths, ids, "REVOKED")
    OBVIOUS
  <1>1. req \in [Portal -> Request] /\ u \in Users
    BY <1>0 DEF StaffReserve, WellFormed, TypeOK, RequestsWellFormed
  <1>2. /\ DOMAIN t = DOMAIN auths
        /\ \A i \in DOMAIN auths : auths'[i] = t[i]
    BY <1>0, StaffRows
  <1>3. PICK old \in Victims(t, u, at) :
           req' = [req EXCEPT ![r].pc = IF old = 0 THEN "authorize" ELSE "replace",
                              ![r].row = Len(auths) + 1, ![r].old = old]
    BY <1>0 DEF StaffReserve
  <1>4. /\ req'[r].pc = IF old = 0 THEN "authorize" ELSE "replace"
        /\ req'[r].old = old /\ req'[r].owner = u
    BY <1>0, <1>1, <1>3 DEF Request
  <1>5. ASSUME old # 0, NEW j \in ActiveIds(auths, u)'
        PROVE  auths'[old].authorizedAt <= auths'[j].authorizedAt + ReservationTTL
    <2>1. old \in OldestActive(t, u)
      BY <1>3, <1>5 DEF Victims
    <2>2. j \in DOMAIN auths
      <3>1. PICK n : Inserts(r, n)
        BY StaffInserts
      <3> QED
        BY <1>5, <3>1 DEF ActiveIds, Inserts
    <2>3. j \in DOMAIN t /\ t[j].owner = u /\ t[j].status = "ACTIVE"
      BY <1>2, <1>5, <2>2 DEF ActiveIds
    <2>4. /\ old \in DOMAIN t /\ t[old].authorizedAt <= t[j].authorizedAt
          /\ t[old].status = "ACTIVE"
      BY <2>1, <2>3 DEF OldestActive
    <2>5. t[old].authorizedAt \in Nat /\ t[j].authorizedAt \in Nat
      <3>1. \A i \in DOMAIN auths : t[i].status = "ACTIVE" => Granted(i) /\ t[i] = auths[i]
        <4>1. \A i \in DOMAIN auths :
                 t[i] = IF i \in ids THEN [auths[i] EXCEPT !.status = "REVOKED"] ELSE auths[i]
          BY <1>0, StaffRows
        <4>2. \A i \in DOMAIN auths : auths[i] \in Row
          BY RowsTyped DEF WellFormed, TypeOK
        <4> QED
          BY <4>1, <4>2 DEF Row, Granted
      <3> QED
        BY <1>2, <2>3, <2>4, <3>1 DEF Dated
    <2> QED
      BY <1>2, <2>2, <2>4, <2>5, AccessAssumption
  <1> SUFFICES ASSUME req'[r].pc \in {"replace", "retire"},
                      NEW j \in ActiveIds(auths, req[r].owner)'
               PROVE  auths'[req'[r].old].authorizedAt <= auths'[j].authorizedAt + ReservationTTL
    BY DEF OldestFirst
  <1> QED
    BY <1>4, <1>5

LEMMA OldestStep ==
    ASSUME Prompt, SeatInv, Past, Dated, [Next]_vars, NEW r \in Portal, OldestFirst(r)
    PROVE  OldestFirst(r)'
  <1>0. RowsInv
    BY SeatInvRows
  <1>1. CASE RedeemReserve(r) \/ StaffReserve(r)
    <2>1. RedeemReserve(r) => req'[r].pc = "authorize"
      BY DEF RedeemReserve, SeatInv, WellFormed, TypeOK, Request
    <2> QED
      BY <1>0, <1>1, <2>1, StaffPicksOldest DEF OldestFirst
  <1>2. CASE Onward(r)
    <2> SUFFICES ASSUME req'[r].pc \in {"replace", "retire"},
                        NEW u, u = req'[r].owner, NEW k, k = req'[r].old,
                        NEW j \in DOMAIN auths',
                        auths'[j].owner = u, auths'[j].status = "ACTIVE"
                 PROVE  auths'[k].authorizedAt <= auths'[j].authorizedAt + ReservationTTL
      BY DEF OldestFirst, ActiveIds
    <2>1. req[r].pc \in {"replace", "retire"} /\ req[r].old = k /\ req[r].owner = u
      BY <1>2 DEF Onward, NoRequest
    <2>2. Granted(k) /\ auths[k].authorizedAt \in Nat /\ auths[k].authorizedAt <= now
      <3>1. Granted(k)
        BY <2>1 DEF SeatInv, TargetsGranted, ReplacedGranted
      <3>2. k \in DOMAIN auths
        BY <3>1 DEF Granted
      <3> QED
        BY <3>1, <3>2 DEF Dated
    <2>3. CASE \E q \in Portal : Finalize(q)
      <3>1. PICK q \in Portal : Finalize(q)
        BY <2>3
      <3>2. PICK n : n = req[q].row
        OBVIOUS
      <3>3. /\ auths[n].status \in {"PENDING", "FAILED"}
            /\ auths'[n].authorizedAt = req[q].stamp
            /\ DOMAIN auths' = DOMAIN auths
            /\ \A i \in DOMAIN auths : i # n => auths'[i] = auths[i]
        BY <1>0, <3>1, <3>2, FinalizeSteps
      <3>4. auths[k].authorizedAt <= req[q].stamp + ReservationTTL
        <4>1. /\ req[q].pc = "finalize" /\ req[q].at \in Nat /\ req[q].stamp \in Nat
              /\ now \in Nat /\ ReservationTTL \in Nat
          BY <3>1, AccessAssumption
          DEF Finalize, SeatInv, WellFormed, TypeOK, ControllerTypeOK, Request
        <4>2. req[q].at <= req[q].stamp /\ now <= req[q].at + ReservationTTL
          BY <4>1 DEF Past, SeatInv, Timely
        <4> QED
          BY <2>2, <4>1, <4>2
      <3>5. auths'[k] = auths[k]
        BY <2>2, <3>3 DEF Granted
      <3>6. j # n => j \in ActiveIds(auths, u) /\ auths'[j] = auths[j]
        BY <3>3 DEF ActiveIds
      <3> QED
        BY <2>1, <3>3, <3>4, <3>5, <3>6 DEF OldestFirst
    <2>4. CASE \A q \in Portal : ~Finalize(q)
      <3>1. ActivatesNone
        BY <1>0, <2>4, FinalizeOnly
      <3>2. auths'[k].authorizedAt = auths[k].authorizedAt
        BY <2>2, <3>1 DEF ActivatesNone, Granted
      <3>3. j \in ActiveIds(auths, u) /\ auths'[j] = auths[j]
        BY <3>1 DEF ActivatesNone, ActiveIds
      <3> QED
        BY <2>1, <3>2, <3>3 DEF OldestFirst
    <2> QED
      BY <2>3, <2>4
  <1> QED
    BY <1>1, <1>2, RequestSteps DEF SeatInv

\* The device a user loses to a new one is the one authorized longest ago, in
\* the state in which its row is retired and not only in the one the choice was
\* made in (access.rs, authorize_staff: ORDER BY authorized_at LIMIT 1), however
\* many requests the user runs at a time, up to the time a request may run: the
\* rows that became ACTIVE since may be older by that, as finalize writes a time
\* read before its transaction.
THEOREM NearlyOldestIsReplaced ==
    ASSUME Prompt
    PROVE  Spec => ReplacesNearlyOldest
  <1> DEFINE Choices == Past /\ Dated /\ \A r \in Portal : OldestFirst(r)
  <1>1. Init => Choices
    BY DEF Init, Past, Dated, Granted, OldestFirst, NoRequest
  <1>2. SeatInv /\ Choices /\ [Next]_vars => Choices'
    BY SeatInvRows, PastStep, DatedStep, OldestStep
  <1>3. Choices => \A r \in Portal : req[r].pc = "retire" =>
            \A j \in ActiveIds(auths, req[r].owner) :
                auths[req[r].old].authorizedAt <= auths[j].authorizedAt + ReservationTTL
    BY DEF OldestFirst
  <1>4. Choices => [\A r \in Portal : req[r].pc = "retire" /\ req'[r].pc = "authorize" =>
                       \A j \in ActiveIds(auths, req[r].owner) :
                           auths[req[r].old].authorizedAt
                               <= auths[j].authorizedAt + ReservationTTL]_vars
    BY <1>3
  <1> HIDE DEF Choices
  <1> QED
    BY <1>1, <1>2, <1>4, SeatInvHolds, PTL DEF Spec, ReplacesNearlyOldest
=============================================================================
