---------------------------- MODULE AccessProofs ----------------------------
(***************************************************************************)
(* Proofs about Access for every value of its constants.                   *)
(***************************************************************************)
EXTENDS Access, TLAPS, FiniteSetTheorems, SequenceTheorems

(* The table *)

\* A function on 1..n is a sequence of length n.
LEMMA FunctionIsSeq ==
    ASSUME NEW S, NEW n \in Nat, NEW f \in [1..n -> S]
    PROVE  f \in Seq(S) /\ Len(f) = n /\ DOMAIN f = 1..n
  <1>1. f \in Seq(S)
    BY SeqDef
  <1> QED
    BY <1>1, LenProperties

\* An UPDATE keeps the rows in place and changes nothing but the status.
LEMMA SetStatusFacts ==
    ASSUME NEW t \in Seq(Row), NEW ids, NEW s \in Statuses
    PROVE  /\ SetStatus(t, ids, s) \in Seq(Row)
           /\ DOMAIN SetStatus(t, ids, s) = DOMAIN t
           /\ Len(SetStatus(t, ids, s)) = Len(t)
           /\ \A i \in DOMAIN t :
                 SetStatus(t, ids, s)[i] =
                     IF i \in ids THEN [t[i] EXCEPT !.status = s] ELSE t[i]
  <1> DEFINE u == SetStatus(t, ids, s)
  <1>1. DOMAIN t = 1..Len(t) /\ Len(t) \in Nat /\ \A i \in DOMAIN t : t[i] \in Row
    BY LenProperties, ElementOfSeq
  <1>2. \A i \in DOMAIN t : [t[i] EXCEPT !.status = s] \in Row
    BY <1>1 DEF Row
  <1>3. u \in [1..Len(t) -> Row]
    BY <1>1, <1>2 DEF SetStatus
  <1>4. u \in Seq(Row) /\ Len(u) = Len(t) /\ DOMAIN u = DOMAIN t
    BY <1>1, <1>3, FunctionIsSeq
  <1> QED
    BY <1>4 DEF SetStatus

\* An INSERT adds one row at the end.
LEMMA InsertFacts ==
    ASSUME NEW t \in Seq(Row), NEW row \in Row
    PROVE  /\ Append(t, row) \in Seq(Row)
           /\ DOMAIN Append(t, row) = DOMAIN t \cup {Len(t) + 1}
           /\ Len(t) + 1 \notin DOMAIN t
           /\ Append(t, row)[Len(t) + 1] = row
           /\ \A i \in DOMAIN t : Append(t, row)[i] = t[i]
  BY AppendProperties, LenProperties

\* finalize changes one row.
LEMMA ActivateFacts ==
    ASSUME NEW t \in Seq(Row), NEW k \in DOMAIN t, NEW at \in Nat
    PROVE  LET u == [t EXCEPT ![k].status = "ACTIVE", ![k].authorizedAt = at]
           IN  /\ u \in Seq(Row)
               /\ DOMAIN u = DOMAIN t
               /\ u[k] = [t[k] EXCEPT !.status = "ACTIVE", !.authorizedAt = at]
               /\ \A i \in DOMAIN t : i # k => u[i] = t[i]
  <1> DEFINE u == [t EXCEPT ![k].status = "ACTIVE", ![k].authorizedAt = at]
  <1>1. DOMAIN t = 1..Len(t) /\ Len(t) \in Nat /\ \A i \in DOMAIN t : t[i] \in Row
    BY LenProperties, ElementOfSeq
  <1>2. [t[k] EXCEPT !.status = "ACTIVE", !.authorizedAt = at] \in Row
    BY <1>1 DEF Row, Statuses
  <1>3. u \in [1..Len(t) -> Row]
    BY <1>1, <1>2
  <1>4. u \in Seq(Row) /\ DOMAIN u = DOMAIN t
    <2> HIDE DEF u
    <2> QED BY <1>1, <1>3, FunctionIsSeq
  <1> QED
    BY <1>1, <1>4

-----------------------------------------------------------------------------
(* The controller *)

LEMMA GrantTyped ==
    ASSUME ControllerTypeOK, NEW cmd \in Command
    PROVE  GrantOf(cmd) \in Grants
  <1>1. GrantEnd(cmd) \in Nat
    BY ControllerAssumption DEF GrantEnd, Command, ControllerTypeOK
  <1> QED
    BY <1>1 DEF GrantOf, NoAccess, Grants, Command

\* A call leaves the controller's state well typed, whatever its outcome.
LEMMA CallTypeOK ==
    ASSUME ControllerTypeOK, NEW cmd \in Command, NEW ok \in BOOLEAN,
           Call(cmd, ok), now' = now
    PROVE  ControllerTypeOK'
  <1>1. GrantOf(cmd) \in Grants
    BY GrantTyped
  <1> QED
    BY <1>1 DEF Call, Execute, Outlive, controllerVars, ControllerTypeOK, Command

LEMMA OutliveTypeOK ==
    ASSUME ControllerTypeOK, NEW cmd \in Command, Outlive(cmd), now' = now
    PROVE  ControllerTypeOK'
  BY DEF Outlive, ControllerTypeOK

\* Commands are built from devices and whole minutes.
LEMMA CommandTypes ==
    ASSUME ControllerTypeOK, NEW d \in Devices, NEW m \in Nat, NEW i \in Nat
    PROVE  AuthorizeCmd(d, m, i) \in Command /\ UnauthorizeCmd(d) \in Command
  BY ControllerAssumption DEF AuthorizeCmd, UnauthorizeCmd, Command, ControllerTypeOK

-----------------------------------------------------------------------------
(* WellFormed *)

LEMMA RowsTyped ==
    ASSUME NEW t \in Seq(Row)
    PROVE  /\ DOMAIN t = 1..Len(t) /\ Len(t) \in Nat
           /\ \A i \in DOMAIN t : t[i] \in Row /\ t[i].dev \in Devices
  <1>1. DOMAIN t = 1..Len(t) /\ Len(t) \in Nat
    BY LenProperties
  <1>2. \A i \in DOMAIN t : t[i] \in Row
    BY <1>1, ElementOfSeq
  <1> QED
    BY <1>1, <1>2 DEF Row

LEMMA InitWellFormed == Init => WellFormed
  <1> SUFFICES ASSUME Init PROVE WellFormed
    OBVIOUS
  <1>1. ControllerTypeOK
    BY ControllerAssumption DEF Init, ControllerInit, ControllerTypeOK, NoAccess, Grants
  <1>2. auths \in Seq(Row) /\ DOMAIN auths = {}
    BY EmptySeq DEF Init
  <1>3. TypeOK
    BY <1>1, <1>2
    DEF Init, TypeOK, NoRequest, Request, NoRevocation, Revocation, NoSweep, Sweep
  <1>4. RequestsWellFormed
    BY TableAssumption DEF Init, RequestsWellFormed, NoRequest, Holding
  <1>5. RevocationsWellFormed /\ SweepWellFormed
    BY DEF Init, RevocationsWellFormed, SweepWellFormed, NoRevocation, NoSweep
  <1> QED
    BY <1>3, <1>4, <1>5 DEF WellFormed

\* Rows are never removed, so what an untouched handler holds stays in place.
LEMMA UntouchedWellFormed ==
    ASSUME WellFormed, DOMAIN auths \subseteq DOMAIN auths'
    PROVE  /\ req' = req => RequestsWellFormed'
           /\ adm' = adm => RevocationsWellFormed'
           /\ recon' = recon => SweepWellFormed'
  BY DEF WellFormed, RequestsWellFormed, RevocationsWellFormed, SweepWellFormed, Holding

\* A request that ends leaves the others as they are.
LEMMA EndWellFormed ==
    ASSUME WellFormed, NEW r \in Portal, End(r), DOMAIN auths \subseteq DOMAIN auths'
    PROVE  req' \in [Portal -> Request] /\ RequestsWellFormed'
  <1>1. req \in [Portal -> Request] /\ req' = [req EXCEPT ![r] = NoRequest]
    BY DEF WellFormed, TypeOK, End
  <1>2. NoRequest \in Request
    BY DEF NoRequest, Request
  <1>3. \A q \in Portal : req'[q] = req[q] \/ req'[q] = NoRequest
    BY <1>1
  <1> QED
    BY <1>1, <1>2, <1>3, TableAssumption
    DEF WellFormed, RequestsWellFormed, NoRequest, Holding

\* What rounding up adds: less than a minute, and nothing is lost.
LEMMA WholeMinutesBounds ==
    ASSUME NEW time \in Nat \ {0}
    PROVE  /\ WholeMinutes(time) \in Nat
           /\ WholeMinutes(time) <= time
           /\ WholeMinutes(time) * Minute \in Nat
           /\ time <= WholeMinutes(time) * Minute
           /\ WholeMinutes(time) * Minute <= time + Minute - 1
  <1> DEFINE up == (time + Minute - 1) \div Minute
  <1>1. Minute \in Nat /\ Minute >= 1 /\ time >= 1
    BY ControllerAssumption
  <1>2. up \in Nat /\ Minute * up <= time + Minute - 1 /\ time + Minute - 1 < Minute * up + Minute
    BY <1>1
  <1> HIDE DEF up
  <1>3. up >= 1
    BY <1>1, <1>2
  <1>4. WholeMinutes(time) = up
    BY <1>2, <1>3 DEF WholeMinutes, up
  <1>5. up <= time
    BY <1>1, <1>2, <1>3
  <1>6. up * Minute = Minute * up /\ Minute * up \in Nat
    BY <1>1, <1>2
  <1> QED
    BY <1>1, <1>2, <1>3, <1>4, <1>5, <1>6

LEMMA SessionTime == StaffMinutes * Minute \in Nat
  BY TableAssumption, ControllerAssumption

\* The minutes argument is a whole number of minutes: a coupon has time left at
\* the start of its request.
LEMMA MinutesType ==
    ASSUME WellFormed, NEW r \in Portal, req[r].pc # "idle"
    PROVE  Minutes(req[r]) \in Nat
  <1>1. /\ req[r].owner \in Owners /\ req[r].at \in Nat
        /\ req[r].owner \in Coupons => req[r].at < CouponExpiry[req[r].owner]
    BY DEF WellFormed, TypeOK, RequestsWellFormed, Request
  <1>2. CASE req[r].owner \in Users
    BY <1>2, TableAssumption DEF Minutes
  <1>3. CASE req[r].owner \in Coupons
    <2>1. CouponExpiry[req[r].owner] \in Nat
      BY <1>3, TableAssumption, ControllerAssumption
    <2>2. WholeMinutes(CouponExpiry[req[r].owner] - req[r].at) \in Nat
      BY <1>1, <1>3, <2>1, WholeMinutesBounds
    <2> QED
      BY <1>1, <1>3, <2>1, <2>2, TableAssumption, ControllerAssumption DEF Minutes
  <1> QED
    BY <1>1, <1>2, <1>3 DEF Owners

\* What every request step has to show: nothing but the request, the rows and
\* the controller changes type.
LEMMA PortalWellFormed ==
    ASSUME WellFormed, NEW r \in Portal, PortalStep(r)
    PROVE  WellFormed'
  <1>1. CASE RedeemReserve(r)
    <2> DEFINE row == NewRow(req[r].owner, req[r].dev, CouponExpiry[req[r].owner],
                             req[r].at)
    <2>1. row \in Row
      BY <1>1, TableAssumption
      DEF RedeemReserve, WellFormed, TypeOK, RequestsWellFormed, Request, NewRow, Row,
          Statuses, Owners
    <2>2. /\ auths' \in Seq(Row) /\ Len(auths) \in Nat
          /\ DOMAIN auths' = DOMAIN auths \cup {Len(auths) + 1}
      BY <1>1, <2>1, InsertFacts, RowsTyped DEF RedeemReserve, WellFormed, TypeOK
    <2>3. PICK n \in Nat : n = Len(auths) + 1
      BY <2>2
    <2>4. req \in [Portal -> Request] /\ req' = [req EXCEPT ![r].pc = "authorize", ![r].row = n]
      BY <1>1, <2>3 DEF RedeemReserve, WellFormed, TypeOK
    <2>5. req' \in [Portal -> Request]
      <3>1. [req[r] EXCEPT !.pc = "authorize", !.row = n] \in Request
        BY <2>4 DEF Request
      <3> QED
        BY <2>4, <3>1
    <2>6. TypeOK'
      BY <1>1, <2>2, <2>5 DEF RedeemReserve, WellFormed, TypeOK, ControllerTypeOK
    <2>7. RequestsWellFormed'
      BY <1>1, <2>2, <2>3
      DEF RedeemReserve, WellFormed, TypeOK, RequestsWellFormed, Request, Holding
    <2> QED
      BY <1>1, <2>2, <2>6, <2>7, UntouchedWellFormed DEF RedeemReserve, WellFormed
  <1>2. CASE StaffReserve(r)
    <2> DEFINE u   == req[r].owner
               at  == req[r].at
               ids == ActiveIds(auths, u) \cap ExpiredIds(auths, at)
               t   == SetStatus(auths, ids, "REVOKED")
               row == NewRow(u, req[r].dev, at + StaffMinutes * Minute, at)
    <2>1. t \in Seq(Row) /\ DOMAIN t = DOMAIN auths /\ Len(t) = Len(auths)
      BY SetStatusFacts DEF WellFormed, TypeOK, Statuses
    <2>2. row \in Row
      BY <1>2, SessionTime, TableAssumption
      DEF StaffReserve, WellFormed, TypeOK, RequestsWellFormed, Request, NewRow, Row,
          Statuses, Owners
    <2>3. auths' = Append(t, row)
      BY <1>2 DEF StaffReserve
    <2>4. /\ auths' \in Seq(Row) /\ Len(auths) \in Nat
          /\ DOMAIN auths' = DOMAIN auths \cup {Len(auths) + 1}
      <3> HIDE DEF t, row
      <3> QED BY <2>1, <2>2, <2>3, InsertFacts, RowsTyped
    <2>5. PICK old \in Victims(t, u, at) :
             req' = [req EXCEPT ![r].pc = IF old = 0 THEN "authorize" ELSE "replace",
                                ![r].row = Len(auths) + 1, ![r].old = old]
      BY <1>2 DEF StaffReserve
    <2>6. old = 0 \/ old \in DOMAIN auths
      BY <2>1 DEF Victims, OldestActive
    <2>7. old \in Nat
      BY <2>6, RowsTyped DEF WellFormed, TypeOK
    <2> PICK n \in Nat : n = Len(auths) + 1
      BY <2>4
    <2>8. PICK pc \in {"authorize", "replace"} :
             /\ req' = [req EXCEPT ![r].pc = pc, ![r].row = n, ![r].old = old]
             /\ pc = "replace" => old # 0
      BY <2>5
    <2>9. req \in [Portal -> Request]
      BY DEF WellFormed, TypeOK
    <2>10. req' \in [Portal -> Request]
      <3>1. [req[r] EXCEPT !.pc = pc, !.row = n, !.old = old] \in Request
        BY <2>7, <2>9 DEF Request
      <3> QED BY <2>8, <2>9, <3>1
    <2>11. TypeOK'
      BY <1>2, <2>4, <2>10 DEF StaffReserve, WellFormed, TypeOK, ControllerTypeOK
    <2>12. req[r].pc = "resolving" /\ RequestsWellFormed
      BY <1>2 DEF StaffReserve, WellFormed
    <2>13. RequestsWellFormed'
      BY <2>4, <2>6, <2>8, <2>9, <2>12 DEF RequestsWellFormed, Request, Holding
    <2> QED
      BY <1>2, <2>4, <2>11, <2>13, UntouchedWellFormed DEF StaffReserve, WellFormed
  <1>3. CASE StaffReplace(r)
    <2>1. auths[req[r].old].dev \in Devices
      BY <1>3, RowsTyped DEF StaffReplace, WellFormed, TypeOK, RequestsWellFormed
    <2>2. ControllerTypeOK'
      BY <1>3, <2>1, CommandTypes, CallTypeOK DEF StaffReplace, WellFormed, TypeOK
    <2>3. PICK pc \in {"retire", "fail"} : req' = [req EXCEPT ![r].pc = pc]
      BY <1>3 DEF StaffReplace, Goto
    <2>4. req \in [Portal -> Request] /\ req[r].pc = "replace" /\ RequestsWellFormed
      BY <1>3 DEF StaffReplace, WellFormed, TypeOK
    <2>5. req' \in [Portal -> Request]
      BY <2>3, <2>4 DEF Request
    <2>6. TypeOK'
      BY <1>3, <2>2, <2>5 DEF StaffReplace, WellFormed, TypeOK, dbVars
    <2>7. RequestsWellFormed'
      BY <1>3, <2>3, <2>4 DEF StaffReplace, RequestsWellFormed, Request, Holding, dbVars
    <2> QED
      BY <1>3, <2>6, <2>7, UntouchedWellFormed DEF StaffReplace, WellFormed, dbVars
  <1>4. CASE StaffRetire(r)
    <2>1. auths' \in Seq(Row) /\ DOMAIN auths' = DOMAIN auths
      BY <1>4, SetStatusFacts DEF StaffRetire, WellFormed, TypeOK, Statuses
    <2>2. /\ req \in [Portal -> Request] /\ req[r].pc = "retire" /\ RequestsWellFormed
          /\ req' = [req EXCEPT ![r].pc = "authorize"]
      BY <1>4 DEF StaffRetire, Goto, WellFormed, TypeOK
    <2>3. req' \in [Portal -> Request]
      BY <2>2 DEF Request
    <2>4. audit' \in [Events -> Nat]
      BY <1>4 DEF StaffRetire, Audit, Events, WellFormed, TypeOK
    <2>5. TypeOK'
      BY <1>4, <2>1, <2>3, <2>4 DEF StaffRetire, WellFormed, TypeOK, ControllerTypeOK
    <2>6. RequestsWellFormed'
      BY <2>1, <2>2 DEF RequestsWellFormed, Request, Holding
    <2> QED
      BY <1>4, <2>1, <2>5, <2>6, UntouchedWellFormed DEF StaffRetire, WellFormed
  <1>5. CASE Authorize(r)
    <2>1. /\ req \in [Portal -> Request] /\ req[r].pc = "authorize" /\ RequestsWellFormed
          /\ req[r].dev \in Devices /\ ControllerTypeOK
      BY <1>5 DEF Authorize, WellFormed, TypeOK, RequestsWellFormed
    <2>2. Minutes(req[r]) \in Nat
      BY <2>1, MinutesType
    <2>3. ControllerTypeOK'
      <3>1. req[r].row \in Nat
        BY <2>1 DEF Request
      <3>2. Authorization(req[r]) \in Command
        BY <2>1, <2>2, <3>1, CommandTypes DEF Authorization
      <3> QED
        BY <1>5, <2>1, <3>2, CallTypeOK DEF Authorize
    <2>4. PICK pc \in {"finalize", "fail"}, stamp \in Nat :
             req' = [req EXCEPT ![r].pc = pc, ![r].stamp = stamp]
      <3>1. now \in Nat
        BY <2>1, ControllerAssumption DEF ControllerTypeOK
      <3> QED
        BY <1>5, <3>1 DEF Authorize
    <2>5. req' \in [Portal -> Request]
      <3>1. [req[r] EXCEPT !.pc = pc, !.stamp = stamp] \in Request
        BY <2>1 DEF Request
      <3> QED
        BY <2>1, <2>4, <3>1
    <2>6. TypeOK'
      BY <1>5, <2>3, <2>5 DEF Authorize, WellFormed, TypeOK, dbVars
    <2>7. RequestsWellFormed'
      BY <1>5, <2>1, <2>4 DEF Authorize, RequestsWellFormed, Request, Holding, dbVars
    <2> QED
      BY <1>5, <2>6, <2>7, UntouchedWellFormed DEF Authorize, WellFormed, dbVars
  <1>6. CASE Finalize(r)
    <2>1. /\ auths \in Seq(Row) /\ req[r].row \in DOMAIN auths /\ req[r].stamp \in Nat
          /\ req \in [Portal -> Request] /\ req[r].owner \in Owners
      BY <1>6 DEF Finalize, WellFormed, TypeOK, Request, RequestsWellFormed, Holding
    <2>2. auths' \in Seq(Row) /\ DOMAIN auths' = DOMAIN auths
      BY <1>6, <2>1, ActivateFacts DEF Finalize
    <2>3. audit' \in [Events -> Nat]
      BY <1>6, <2>1 DEF Finalize, Audit, Events, RedeemedEvent, WellFormed, TypeOK
    <2>4. req' \in [Portal -> Request] /\ RequestsWellFormed'
      BY <1>6, <2>2, EndWellFormed DEF Finalize
    <2>5. TypeOK'
      BY <1>6, <2>2, <2>3, <2>4 DEF Finalize, WellFormed, TypeOK, ControllerTypeOK
    <2> QED
      BY <1>6, <2>2, <2>4, <2>5, UntouchedWellFormed DEF Finalize, WellFormed
  <1>7. CASE Fail(r)
    <2>1. auths' \in Seq(Row) /\ DOMAIN auths' = DOMAIN auths
      BY <1>7, SetStatusFacts DEF Fail, WellFormed, TypeOK, Statuses
    <2>2. req' \in [Portal -> Request] /\ RequestsWellFormed'
      BY <1>7, <2>1, EndWellFormed DEF Fail
    <2>3. TypeOK'
      BY <1>7, <2>1, <2>2 DEF Fail, WellFormed, TypeOK, ControllerTypeOK
    <2> QED
      BY <1>7, <2>1, <2>2, <2>3, UntouchedWellFormed DEF Fail, WellFormed
  <1>8. CASE GiveUp(r)
    <2>1. req' \in [Portal -> Request] /\ RequestsWellFormed'
      BY <1>8, EndWellFormed DEF GiveUp, dbVars
    <2>2. TypeOK'
      BY <1>8, <2>1 DEF GiveUp, WellFormed, TypeOK, ControllerTypeOK, dbVars
    <2> QED
      BY <1>8, <2>1, <2>2, UntouchedWellFormed DEF GiveUp, WellFormed, dbVars
  <1>9. CASE GiveUpSent(r)
    <2>1. /\ ControllerTypeOK /\ req[r].pc \in {"authorize", "replace"} /\ now' = now
          /\ req[r].dev \in Devices
          /\ req[r].pc = "replace" => auths[req[r].old].dev \in Devices
      BY <1>9, RowsTyped DEF GiveUpSent, WellFormed, TypeOK, RequestsWellFormed
    <2>2. ControllerTypeOK'
      <3>1. CASE req[r].pc = "authorize" /\ Outlive(Authorization(req[r]))
        <4>1. Minutes(req[r]) \in Nat /\ req[r].row \in Nat
          BY <3>1, MinutesType DEF WellFormed, TypeOK, Request
        <4>2. Authorization(req[r]) \in Command
          BY <2>1, <4>1, CommandTypes DEF Authorization
        <4> QED
          BY <2>1, <3>1, <4>2, OutliveTypeOK
      <3>2. CASE req[r].pc = "replace" /\ Outlive(UnauthorizeCmd(auths[req[r].old].dev))
        <4>1. UnauthorizeCmd(auths[req[r].old].dev) \in Command
          BY <2>1, <3>2, CommandTypes
        <4> QED
          BY <2>1, <3>2, <4>1, OutliveTypeOK
      <3> QED
        BY <1>9, <3>1, <3>2 DEF GiveUpSent
    <2>3. req' \in [Portal -> Request] /\ RequestsWellFormed'
      BY <1>9, EndWellFormed DEF GiveUpSent, dbVars
    <2>4. TypeOK'
      BY <1>9, <2>2, <2>3 DEF GiveUpSent, WellFormed, TypeOK, dbVars
    <2> QED
      BY <1>9, <2>3, <2>4, UntouchedWellFormed DEF GiveUpSent, WellFormed, dbVars
  <1> QED
    BY <1>1, <1>2, <1>3, <1>4, <1>5, <1>6, <1>7, <1>8, <1>9 DEF PortalStep

\* A controller call or timed-out command about row i keeps the controller typed.
LEMMA UnauthorizeTypeOK ==
    ASSUME WellFormed, NEW i \in DOMAIN auths, now' = now,
           \/ \E ok \in BOOLEAN : Call(UnauthorizeCmd(auths[i].dev), ok)
           \/ Outlive(UnauthorizeCmd(auths[i].dev))
    PROVE  ControllerTypeOK'
  <1>1. auths[i].dev \in Devices /\ ControllerTypeOK
    BY RowsTyped DEF WellFormed, TypeOK
  <1>2. UnauthorizeCmd(auths[i].dev) \in Command
    BY <1>1, CommandTypes
  <1> QED
    BY <1>1, <1>2, CallTypeOK, OutliveTypeOK

\* Replacing the state of one revocation by a well-formed one.
LEMMA RevocationUpdate ==
    ASSUME WellFormed, NEW a \in Admins, NEW v \in Revocation,
           DOMAIN auths \subseteq DOMAIN auths',
           adm' = [adm EXCEPT ![a] = v],
           v.pc \in {"unauthorize", "revoke", "mark"} => v.row \in DOMAIN auths',
           v.queue \subseteq DOMAIN auths',
           v.pc = "select" => v.coupon \in Coupons
    PROVE  adm' \in [Admins -> Revocation] /\ RevocationsWellFormed'
  <1>1. adm \in [Admins -> Revocation]
    BY DEF WellFormed, TypeOK
  <1> QED
    BY <1>1 DEF WellFormed, RevocationsWellFormed

LEMMA AdminWellFormed ==
    ASSUME WellFormed, NEW a \in Admins, AdminStep(a)
    PROVE  WellFormed'
  <1> DEFINE v == adm[a]
  <1>0. /\ v \in Revocation /\ adm \in [Admins -> Revocation] /\ auths \in Seq(Row)
        /\ v.pc \in {"unauthorize", "revoke", "mark"} => v.row \in DOMAIN auths
        /\ v.queue \subseteq DOMAIN auths
        /\ v.pc = "select" => v.coupon \in Coupons
        /\ DOMAIN auths \subseteq Nat
    BY RowsTyped DEF WellFormed, TypeOK, RevocationsWellFormed
  <1>1. CASE RevokeUnauthorize(a)
    <2>1. ControllerTypeOK'
      BY <1>0, <1>1, UnauthorizeTypeOK DEF RevokeUnauthorize
    <2>2. PICK w \in {[v EXCEPT !.pc = "revoke"], NoRevocation} :
             adm' = [adm EXCEPT ![a] = w]
      BY <1>1 DEF RevokeUnauthorize
    <2>3. w \in Revocation /\ (w.pc = "revoke" => w.row \in DOMAIN auths)
          /\ w.queue \subseteq DOMAIN auths /\ w.pc \notin {"unauthorize", "mark", "select"}
      <3>1. CASE w = NoRevocation
        BY <3>1 DEF Revocation, NoRevocation
      <3>2. CASE w = [v EXCEPT !.pc = "revoke"]
        BY <1>0, <1>1, <3>2 DEF RevokeUnauthorize, Revocation
      <3> QED BY <2>2, <3>1, <3>2
    <2>4. auths' = auths
      BY <1>1 DEF RevokeUnauthorize, dbVars
    <2>5. adm' \in [Admins -> Revocation] /\ RevocationsWellFormed'
      BY <2>2, <2>3, <2>4, RevocationUpdate
    <2>6. TypeOK'
      BY <1>1, <2>1, <2>5 DEF RevokeUnauthorize, WellFormed, TypeOK, dbVars
    <2> QED
      BY <1>1, <2>4, <2>5, <2>6, UntouchedWellFormed DEF RevokeUnauthorize, WellFormed
  <1>2. CASE RevokeCommit(a)
    <2>1. auths' \in Seq(Row) /\ DOMAIN auths' = DOMAIN auths
      BY <1>0, <1>2, SetStatusFacts DEF RevokeCommit, Statuses
    <2>2. adm' = [adm EXCEPT ![a] = [v EXCEPT !.pc = "replied"]]
      BY <1>2 DEF RevokeCommit, AdmGoto
    <2>3. [v EXCEPT !.pc = "replied"] \in Revocation
      BY <1>0 DEF Revocation
    <2>4. adm' \in [Admins -> Revocation] /\ RevocationsWellFormed'
      BY <1>0, <2>1, <2>2, <2>3, RevocationUpdate DEF Revocation
    <2>5. audit' \in [Events -> Nat]
      BY <1>2 DEF RevokeCommit, Audit, Events, WellFormed, TypeOK
    <2>6. TypeOK'
      BY <1>2, <2>1, <2>4, <2>5 DEF RevokeCommit, WellFormed, TypeOK, ControllerTypeOK
    <2> QED
      BY <1>2, <2>1, <2>4, <2>6, UntouchedWellFormed DEF RevokeCommit, WellFormed
  <1>3. CASE CouponSelect(a)
    <2> DEFINE w == [v EXCEPT !.pc = "loop", !.queue = ActiveIds(auths, v.coupon)]
    <2>1. ActiveIds(auths, v.coupon) \subseteq DOMAIN auths
      BY DEF ActiveIds
    <2>2. w \in Revocation /\ w.pc = "loop" /\ w.queue \subseteq DOMAIN auths
      BY <1>0, <2>1 DEF Revocation
    <2>3. adm' = [adm EXCEPT ![a] = w] /\ auths' = auths
      BY <1>3 DEF CouponSelect, dbVars
    <2>4. adm' \in [Admins -> Revocation] /\ RevocationsWellFormed'
      <3> HIDE DEF w
      <3> QED BY <2>2, <2>3, RevocationUpdate
    <2>5. TypeOK'
      BY <1>3, <2>4 DEF CouponSelect, WellFormed, TypeOK, ControllerTypeOK, dbVars
    <2> QED
      BY <1>3, <2>3, <2>4, <2>5, UntouchedWellFormed DEF CouponSelect, WellFormed
  <1>4. CASE CouponMark(a)
    <2> DEFINE w == [v EXCEPT !.pc = "loop", !.row = 0]
    <2>1. auths' \in Seq(Row) /\ DOMAIN auths' = DOMAIN auths
      BY <1>0, <1>4, SetStatusFacts DEF CouponMark, Statuses
    <2>2. w \in Revocation /\ w.pc = "loop" /\ w.queue \subseteq DOMAIN auths
      BY <1>0 DEF Revocation
    <2>3. adm' = [adm EXCEPT ![a] = w]
      BY <1>4 DEF CouponMark
    <2>4. adm' \in [Admins -> Revocation] /\ RevocationsWellFormed'
      <3> HIDE DEF w
      <3> QED BY <2>1, <2>2, <2>3, RevocationUpdate
    <2>5. TypeOK'
      BY <1>4, <2>1, <2>4 DEF CouponMark, WellFormed, TypeOK, ControllerTypeOK
    <2> QED
      BY <1>4, <2>1, <2>4, <2>5, UntouchedWellFormed DEF CouponMark, WellFormed
  <1>5. CASE CouponAudit(a)
    <2>1. PICK w \in {[v EXCEPT !.pc = "replied"], NoRevocation} :
             adm' = [adm EXCEPT ![a] = w]
      BY <1>5 DEF CouponAudit
    <2>2. /\ w \in Revocation /\ w.pc \in {"replied", "idle"}
          /\ w.queue \subseteq DOMAIN auths
      <3>1. CASE w = NoRevocation
        BY <3>1 DEF Revocation, NoRevocation
      <3>2. CASE w = [v EXCEPT !.pc = "replied"]
        BY <1>0, <3>2 DEF Revocation
      <3> QED BY <2>1, <3>1, <3>2
    <2>3. auths' = auths
      BY <1>5 DEF CouponAudit
    <2>4. adm' \in [Admins -> Revocation] /\ RevocationsWellFormed'
      BY <2>1, <2>2, <2>3, RevocationUpdate
    <2>5. audit' \in [Events -> Nat]
      BY <1>5 DEF CouponAudit, Audit, Events, WellFormed, TypeOK
    <2>6. TypeOK'
      BY <1>5, <2>4, <2>5 DEF CouponAudit, WellFormed, TypeOK, ControllerTypeOK
    <2> QED
      BY <1>5, <2>3, <2>4, <2>6, UntouchedWellFormed DEF CouponAudit, WellFormed
  <1>6. ASSUME NEW i \in v.queue, CouponUnauthorize(a, i) PROVE WellFormed'
    <2>1. ControllerTypeOK'
      BY <1>0, <1>6, UnauthorizeTypeOK DEF CouponUnauthorize
    <2>2. PICK ok \in BOOLEAN :
             adm' = [adm EXCEPT ![a].queue = @ \ {i},
                                ![a].pc = IF ok THEN "mark" ELSE "loop",
                                ![a].row = IF ok THEN i ELSE 0,
                                ![a].failed = @ \/ ~ok]
      BY <1>6 DEF CouponUnauthorize
    <2> DEFINE w == [v EXCEPT !.queue = @ \ {i},
                              !.pc = IF ok THEN "mark" ELSE "loop",
                              !.row = IF ok THEN i ELSE 0,
                              !.failed = @ \/ ~ok]
    <2>3. adm' = [adm EXCEPT ![a] = w]
      BY <1>0, <2>2
    <2>4. w \in Revocation
      BY <1>0, <1>6 DEF Revocation
    <2>5. /\ w.pc = "mark" => w.row \in DOMAIN auths
          /\ w.queue \subseteq DOMAIN auths
          /\ w.pc \notin {"unauthorize", "revoke", "select"}
      BY <1>0, <1>6 DEF Revocation
    <2>6. auths' = auths
      BY <1>6 DEF CouponUnauthorize, dbVars
    <2>7. adm' \in [Admins -> Revocation] /\ RevocationsWellFormed'
      <3> HIDE DEF w
      <3> QED BY <2>3, <2>4, <2>5, <2>6, RevocationUpdate
    <2>8. TypeOK'
      BY <1>6, <2>1, <2>7 DEF CouponUnauthorize, WellFormed, TypeOK, dbVars
    <2> QED
      BY <1>6, <2>6, <2>7, <2>8, UntouchedWellFormed DEF CouponUnauthorize, WellFormed
  <1>7. NoRevocation \in Revocation /\ NoRevocation.pc = "idle" /\ NoRevocation.queue = {}
    BY DEF NoRevocation, Revocation
  <1>8. CASE RevokeEnd(a)
    <2>1. adm' \in [Admins -> Revocation] /\ RevocationsWellFormed' /\ auths' = auths
      BY <1>7, <1>8, RevocationUpdate DEF RevokeEnd, dbVars
    <2>2. TypeOK'
      BY <1>8, <2>1 DEF RevokeEnd, WellFormed, TypeOK, ControllerTypeOK, dbVars
    <2> QED
      BY <1>8, <2>1, <2>2, UntouchedWellFormed DEF RevokeEnd, WellFormed
  <1>9. CASE RevokeEndSent(a)
    <2>1. ControllerTypeOK'
      BY <1>0, <1>9, UnauthorizeTypeOK DEF RevokeEndSent
    <2>2. adm' \in [Admins -> Revocation] /\ RevocationsWellFormed' /\ auths' = auths
      BY <1>7, <1>9, RevocationUpdate DEF RevokeEndSent, dbVars
    <2>3. TypeOK'
      BY <1>9, <2>1, <2>2 DEF RevokeEndSent, WellFormed, TypeOK, dbVars
    <2> QED
      BY <1>9, <2>2, <2>3, UntouchedWellFormed DEF RevokeEndSent, WellFormed
  <1> QED
    BY <1>1, <1>2, <1>3, <1>4, <1>5, <1>6, <1>8, <1>9 DEF AdminStep

LEMMA ReconWellFormed ==
    ASSUME WellFormed, ReconStep
    PROVE  WellFormed'
  <1>0. /\ recon \in Sweep /\ recon.queue \subseteq DOMAIN auths /\ auths \in Seq(Row)
        /\ recon.pc = "mark" => recon.row \in DOMAIN auths
        /\ now \in Nat /\ DOMAIN auths \subseteq Nat
    BY RowsTyped DEF WellFormed, TypeOK, ControllerTypeOK, SweepWellFormed
  <1>1. CASE ReconTimeout
    <2>1. auths' \in Seq(Row) /\ DOMAIN auths' = DOMAIN auths
      BY <1>0, <1>1, SetStatusFacts DEF ReconTimeout, Statuses
    <2>2. recon' \in Sweep /\ SweepWellFormed'
      BY <1>0, <1>1, <2>1 DEF ReconTimeout, Sweep, SweepWellFormed
    <2>3. TypeOK'
      BY <1>1, <2>1, <2>2 DEF ReconTimeout, WellFormed, TypeOK, ControllerTypeOK
    <2> QED
      BY <1>1, <2>1, <2>2, <2>3, UntouchedWellFormed DEF ReconTimeout, WellFormed
  <1>2. CASE ReconTimeoutError
    <2>1. recon' \in Sweep /\ SweepWellFormed'
      BY <1>0, <1>2 DEF ReconTimeoutError, Sweep, SweepWellFormed, dbVars
    <2>2. TypeOK'
      BY <1>2, <2>1 DEF ReconTimeoutError, WellFormed, TypeOK, ControllerTypeOK, dbVars
    <2> QED
      BY <1>2, <2>1, <2>2, UntouchedWellFormed DEF ReconTimeoutError, WellFormed, dbVars
  <1>3. CASE ReconSelect
    <2>1. ExpiredIds(auths, recon.at) \subseteq DOMAIN auths
      BY DEF ExpiredIds
    <2>2. recon' \in Sweep /\ SweepWellFormed'
      BY <1>0, <1>3, <2>1 DEF ReconSelect, Sweep, SweepWellFormed, dbVars
    <2>3. TypeOK'
      BY <1>3, <2>2 DEF ReconSelect, WellFormed, TypeOK, ControllerTypeOK, dbVars
    <2> QED
      BY <1>3, <2>2, <2>3, UntouchedWellFormed DEF ReconSelect, WellFormed, dbVars
  <1>4. ASSUME NEW i \in recon.queue, ReconUnauthorize(i) PROVE WellFormed'
    <2>1. ControllerTypeOK'
      BY <1>0, <1>4, UnauthorizeTypeOK DEF ReconUnauthorize
    <2>2. recon' \in Sweep /\ SweepWellFormed'
      <3>1. PICK ok \in BOOLEAN :
               recon' = [recon EXCEPT !.queue = @ \ {i},
                                      !.pc = IF ok THEN "mark" ELSE "loop",
                                      !.row = IF ok THEN i ELSE 0]
        BY <1>4 DEF ReconUnauthorize
      <3>2. auths' = auths /\ i \in Nat
        BY <1>0, <1>4 DEF ReconUnauthorize, dbVars
      <3>3. CASE ok
        BY <1>0, <3>1, <3>2, <3>3 DEF Sweep, SweepWellFormed
      <3>4. CASE ~ok
        BY <1>0, <3>1, <3>2, <3>4 DEF Sweep, SweepWellFormed
      <3> QED BY <3>3, <3>4
    <2>3. TypeOK'
      BY <1>4, <2>1, <2>2 DEF ReconUnauthorize, WellFormed, TypeOK, dbVars
    <2> QED
      BY <1>4, <2>2, <2>3, UntouchedWellFormed DEF ReconUnauthorize, WellFormed, dbVars
  <1>5. CASE ReconMark
    <2>1. auths' \in Seq(Row) /\ DOMAIN auths' = DOMAIN auths
      BY <1>0, <1>5, SetStatusFacts DEF ReconMark, Statuses
    <2>2. recon' \in Sweep /\ SweepWellFormed'
      BY <1>0, <1>5, <2>1 DEF ReconMark, Sweep, SweepWellFormed
    <2>3. TypeOK'
      BY <1>5, <2>1, <2>2 DEF ReconMark, WellFormed, TypeOK, ControllerTypeOK
    <2> QED
      BY <1>5, <2>1, <2>2, <2>3, UntouchedWellFormed DEF ReconMark, WellFormed
  <1>6. CASE ReconMarkError
    <2>1. recon' \in Sweep /\ SweepWellFormed'
      BY <1>0, <1>6 DEF ReconMarkError, Sweep, SweepWellFormed, dbVars
    <2>2. TypeOK'
      BY <1>6, <2>1 DEF ReconMarkError, WellFormed, TypeOK, ControllerTypeOK, dbVars
    <2> QED
      BY <1>6, <2>1, <2>2, UntouchedWellFormed DEF ReconMarkError, WellFormed, dbVars
  <1>7. CASE ReconSleep
    <2>1. recon' \in Sweep /\ SweepWellFormed'
      BY <1>7 DEF ReconSleep, NoSweep, Sweep, SweepWellFormed
    <2>2. TypeOK'
      BY <1>7, <2>1 DEF ReconSleep, WellFormed, TypeOK, ControllerTypeOK, dbVars
    <2> QED
      BY <1>7, <2>1, <2>2, UntouchedWellFormed DEF ReconSleep, WellFormed, dbVars
  <1> QED
    BY <1>1, <1>2, <1>3, <1>4, <1>5, <1>6, <1>7 DEF ReconStep

LEMMA ArriveWellFormed ==
    ASSUME WellFormed, Arrive
    PROVE  WellFormed'
  <1>0. /\ req \in [Portal -> Request] /\ RequestsWellFormed /\ now \in Nat
        /\ adm \in [Admins -> Revocation] /\ RevocationsWellFormed
        /\ auths \in Seq(Row) /\ DOMAIN auths \subseteq Nat
    BY RowsTyped DEF WellFormed, TypeOK, ControllerTypeOK
  <1>1. ASSUME NEW r \in Portal, NEW d \in Devices, NEW c \in Coupons, RedeemRead(r, c, d)
        PROVE  WellFormed'
    <2> DEFINE q == [pc |-> "reading", owner |-> c, dev |-> d,
                     at |-> now, row |-> 0, old |-> 0, stamp |-> 0]
    <2>1. q \in Request
      BY <1>0 DEF Request, Owners
    <2>2. req' = [req EXCEPT ![r] = q] /\ auths' = auths
      BY <1>1 DEF RedeemRead, dbVars
    <2>3. req' \in [Portal -> Request]
      BY <1>0, <2>1, <2>2
    <2>4. RequestsWellFormed'
      BY <1>0, <1>1, <2>2, TableAssumption
      DEF RedeemRead, RequestsWellFormed, Holding, Owners
    <2>5. TypeOK'
      BY <1>1, <2>3 DEF RedeemRead, WellFormed, TypeOK, ControllerTypeOK, dbVars
    <2> QED
      BY <1>1, <2>2, <2>4, <2>5, UntouchedWellFormed DEF RedeemRead, WellFormed
  <1>2. ASSUME NEW r \in Portal, NEW d \in Devices, NEW u \in Users, StaffStart(r, u, d)
        PROVE  WellFormed'
    <2> DEFINE q == [pc |-> "resolving", owner |-> u, dev |-> d,
                     at |-> now, row |-> 0, old |-> 0, stamp |-> 0]
    <2>1. q \in Request
      BY <1>0 DEF Request, Owners
    <2>2. req' = [req EXCEPT ![r] = q] /\ auths' = auths
      BY <1>2 DEF StaffStart, dbVars
    <2>3. req' \in [Portal -> Request]
      BY <1>0, <2>1, <2>2
    <2>4. RequestsWellFormed'
      BY <1>0, <2>2, TableAssumption DEF RequestsWellFormed, Holding, Owners
    <2>5. TypeOK'
      BY <1>2, <2>3 DEF StaffStart, WellFormed, TypeOK, ControllerTypeOK, dbVars
    <2> QED
      BY <1>2, <2>2, <2>4, <2>5, UntouchedWellFormed DEF StaffStart, WellFormed
  <1>3. ASSUME NEW a \in Admins, NEW i \in DOMAIN auths, RevokeSelect(a, i)
        PROVE  WellFormed'
    <2> DEFINE w == [adm[a] EXCEPT !.pc = "unauthorize", !.row = i]
    <2>1. w \in Revocation /\ w.pc = "unauthorize" /\ w.row = i
          /\ w.queue \subseteq DOMAIN auths
      BY <1>0 DEF Revocation, RevocationsWellFormed
    <2>2. adm' = [adm EXCEPT ![a] = w] /\ auths' = auths
      BY <1>3 DEF RevokeSelect, dbVars
    <2>3. adm' \in [Admins -> Revocation] /\ RevocationsWellFormed'
      <3> HIDE DEF w
      <3> QED BY <2>1, <2>2, RevocationUpdate
    <2>4. TypeOK'
      BY <1>3, <2>3 DEF RevokeSelect, WellFormed, TypeOK, ControllerTypeOK, dbVars
    <2> QED
      BY <1>3, <2>2, <2>3, <2>4, UntouchedWellFormed DEF RevokeSelect, WellFormed
  <1>4. ASSUME NEW a \in Admins, NEW c \in Coupons, CouponRevoke(a, c)
        PROVE  WellFormed'
    <2> DEFINE w == [adm[a] EXCEPT !.pc = "select", !.coupon = c]
    <2>1. w \in Revocation /\ w.pc = "select" /\ w.coupon = c
          /\ w.queue \subseteq DOMAIN auths
      BY <1>0 DEF Revocation, RevocationsWellFormed
    <2>2. adm' = [adm EXCEPT ![a] = w] /\ auths' = auths
      BY <1>4 DEF CouponRevoke
    <2>3. adm' \in [Admins -> Revocation] /\ RevocationsWellFormed'
      <3> HIDE DEF w
      <3> QED BY <2>1, <2>2, RevocationUpdate
    <2>4. TypeOK'
      BY <1>4, <2>3 DEF CouponRevoke, WellFormed, TypeOK, ControllerTypeOK
    <2> QED
      BY <1>4, <2>2, <2>3, <2>4, UntouchedWellFormed DEF CouponRevoke, WellFormed
  <1> QED
    BY <1>1, <1>2, <1>3, <1>4 DEF Arrive

LEMMA WorldWellFormed ==
    ASSUME WellFormed, Restart \/ Late \/ Tick \/ UNCHANGED vars
    PROVE  WellFormed'
  <1>1. CASE Restart
    <2>1. /\ req' \in [Portal -> Request]
          /\ adm' \in [Admins -> Revocation]
          /\ recon' \in Sweep
      BY <1>1
      DEF Restart, NoRequest, Request, NoRevocation, Revocation, NoSweep, Sweep
    <2>2. RequestsWellFormed' /\ RevocationsWellFormed' /\ SweepWellFormed'
      BY <1>1, TableAssumption
      DEF Restart, NoRequest, NoRevocation, NoSweep, RequestsWellFormed,
          RevocationsWellFormed, SweepWellFormed, Holding
    <2> QED
      BY <1>1, <2>1, <2>2 DEF Restart, WellFormed, TypeOK, ControllerTypeOK, dbVars
  <1>2. CASE Late
    <2>1. PICK cmd \in late : Deliver(cmd) \/ Lose(cmd)
      BY <1>2 DEF Late
    <2>2. cmd \in Command /\ now' = now /\ ControllerTypeOK
      BY <1>2, <2>1 DEF Late, WellFormed, TypeOK, ControllerTypeOK
    <2>3. GrantOf(cmd) \in Grants
      BY <2>2, GrantTyped
    <2>4. ControllerTypeOK'
      BY <2>1, <2>2, <2>3 DEF Deliver, Lose, Execute, ControllerTypeOK, Command
    <2> QED
      BY <1>2, <2>4, UntouchedWellFormed DEF Late, WellFormed, TypeOK, dbVars
  <1>3. CASE Tick
    <2>1. TypeOK'
      BY <1>3, ControllerAssumption DEF Tick, WellFormed, TypeOK, ControllerTypeOK, dbVars
    <2> QED
      BY <1>3, <2>1, UntouchedWellFormed DEF Tick, WellFormed, dbVars
  <1>4. CASE UNCHANGED vars
    BY <1>4, UntouchedWellFormed
    DEF vars, dbVars, WellFormed, TypeOK, ControllerTypeOK
  <1> QED
    BY <1>1, <1>2, <1>3, <1>4

LEMMA NextWellFormed == WellFormed /\ [Next]_vars => WellFormed'
  BY PortalWellFormed, AdminWellFormed, ReconWellFormed, ArriveWellFormed,
     WorldWellFormed
  DEF Next

\* Whatever arrives, fails or restarts, and in any order, the state stays typed;
\* in particular every controller call names a known device and a whole number
\* of minutes, and every id a handler kept across an await is that of a row.
THEOREM TypeCorrect == Spec => []TypeOK
  <1>1. Spec => []WellFormed
    BY InitWellFormed, NextWellFormed, PTL DEF Spec
  <1>2. WellFormed => TypeOK
    BY DEF WellFormed
  <1> QED
    BY <1>1, <1>2, PTL
=============================================================================
