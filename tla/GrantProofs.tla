----------------------------- MODULE GrantProofs -----------------------------
(***************************************************************************)
(* Who is online, for every value of the constants with Prompt: the row    *)
(* whose command gave a device its access is not revoked while the device  *)
(* has it (OnlineIsAccounted), and sets the time the access ends, up to    *)
(* what waiting and whole minutes add (AccessEnds).                        *)
(*                                                                         *)
(* The inductive invariant says it of that row (Vouches): it may not be    *)
(* revoked, nor about to be by a handler that has already disconnected its *)
(* device (Clearing); what such a handler marks was offline since, or is   *)
(* online through another row.  A command that outlived its sender belongs *)
(* to a row that will never be ACTIVE, hence never REVOKED (Abandoned).    *)
(***************************************************************************)
EXTENDS FinalizeProofs

\* A handler has disconnected the device of row i and is about to revoke it.
Clearing(i) ==
    \/ \E r \in Portal : req[r].pc = "retire" /\ req[r].old = i
    \/ \E a \in Admins : adm[a].pc \in {"revoke", "mark"} /\ adm[a].row = i
    \/ recon.pc = "mark" /\ recon.row = i

\* Row i still accounts for its device.
StillCounts(i) ==
    \/ auths[i].status # "REVOKED" /\ ~Clearing(i)
    \/ auths[i].owner \in Users /\ auths[i].expires <= now

\* Row i of device d allows an access that ends between these times.
Allows(i, d, early, end) ==
    /\ i \in DOMAIN auths /\ auths[i].dev = d
    /\ auths[i].expires <= early /\ end <= LatestEnd(i)

\* The row that gave device d its access accounts for it.
Vouches(d) ==
    /\ Allows(grant[d].by, d, grant[d].until, grant[d].until)
    /\ StillCounts(grant[d].by)

GrantsVouched == \A d \in Devices : Online(d) => Vouches(d)

\* No request will make row i ACTIVE.
Abandoned(i) ==
    /\ auths[i].status \in {"PENDING", "FAILED"}
    /\ \A r \in Portal : Holding(r) /\ req[r].row = i => req[r].pc = "fail"

\* The earliest and the latest time at which a command can let the access it
\* gives end.
EarlyEnd(cmd) ==
    IF cmd.minutes = Forever THEN Forever ELSE cmd.sent + cmd.minutes * Minute

LateEnd(cmd) ==
    IF cmd.minutes = Forever THEN Forever ELSE cmd.sent + MaxDelay + cmd.minutes * Minute

AllowsCommand(cmd) == Allows(cmd.row, cmd.dev, EarlyEnd(cmd), LateEnd(cmd))

LateVouched ==
    \A cmd \in late : cmd.op = "AUTHORIZE" =>
        AllowsCommand(cmd) /\ Abandoned(cmd.row) /\ cmd.sent <= now

\* A reservation is for the device of its request, and of the length asked for.
Matching ==
    \A r \in Portal : Holding(r) =>
        /\ auths[req[r].row].dev = req[r].dev
        /\ req[r].owner \in Users =>
              auths[req[r].row].expires = req[r].at + StaffMinutes * Minute

\* Handlers revoke rows that were granted.
ClearingGranted ==
    /\ \A a \in Admins : adm[a].pc \in {"unauthorize", "revoke"} => Granted(adm[a].row)
    /\ recon.pc = "mark" => Granted(recon.row)
    /\ \A i \in recon.queue : Granted(i)

VouchInv == Past /\ Matching /\ ClearingGranted /\ GrantsVouched /\ LateVouched

-----------------------------------------------------------------------------
(* What a step does to the parts of the state the invariant is about *)

LEMMA RowFields ==
    ASSUME WellFormed, NEW i \in DOMAIN auths
    PROVE  /\ auths[i].expires \in Nat /\ auths[i].dev \in Devices
           /\ auths[i].owner \in Owners
  BY RowsTyped DEF WellFormed, TypeOK, Row

\* A row goes on to allow what it allowed.
LEMMA AllowsStays ==
    ASSUME \A j \in DOMAIN auths : Forward(j),
           NEW i, NEW d, NEW early, NEW end, Allows(i, d, early, end)
    PROVE  Allows(i, d, early, end)'
  BY DEF Allows, LatestEnd, Forward

LEMMA LatestEndType ==
    ASSUME WellFormed, NEW i \in DOMAIN auths
    PROVE  LatestEnd(i) \in Nat
  BY RowFields, AccessAssumption, ControllerAssumption DEF LatestEnd

\* "fail" is the last thing a request does.
LEMMA FailStays ==
    ASSUME SeatInv, [Next]_vars, NEW q \in Portal, req[q].pc = "fail"
    PROVE  req'[q].pc = "idle" \/ req'[q] = req[q]
  <1>0. req \in [Portal -> Request]
    BY DEF SeatInv, WellFormed, TypeOK
  <1>1. ASSUME NEW r \in Portal, PortalStep(r)
        PROVE  req'[q].pc = "idle" \/ req'[q] = req[q]
    <2>1. CASE r # q
      BY <1>0, <1>1, <2>1 DEF PortalStep, RedeemReserve, StaffReserve, StaffReplace,
         StaffRetire, Authorize, Finalize, Fail, GiveUp, GiveUpSent, Goto, End
    <2>2. CASE r = q
      <3>1. Fail(q) \/ GiveUp(q) \/ GiveUpSent(q)
        BY <1>1, <2>2 DEF PortalStep, RedeemReserve, StaffReserve, StaffReplace, StaffRetire,
           Authorize, Finalize
      <3> QED
        BY <1>0, <3>1 DEF Fail, GiveUp, GiveUpSent, End, NoRequest
    <2> QED
      BY <2>1, <2>2
  <1>2. ASSUME NEW r \in Portal, NEW d \in Devices,
               \/ \E c \in Coupons : RedeemRead(r, c, d)
               \/ \E u \in Users : StaffStart(r, u, d)
        PROVE  req'[q] = req[q]
    BY <1>0, <1>2 DEF RedeemRead, StaffStart
  <1>3. CASE \E a \in Admins : AdminStep(a)
    BY <1>3, RevocationSettles
  <1>4. CASE ReconStep
    BY <1>4, ReconSettles
  <1>5. CASE \E a \in Admins : \/ \E i \in DOMAIN auths : RevokeSelect(a, i)
                               \/ \E c \in Coupons : CouponRevoke(a, c)
    BY <1>5 DEF RevokeSelect, CouponRevoke
  <1>6. CASE Restart
    BY <1>6 DEF Restart, NoRequest
  <1>7. CASE Late \/ Tick \/ UNCHANGED vars
    BY <1>7 DEF Late, Tick, vars
  <1> QED
    BY <1>1, <1>2, <1>3, <1>4, <1>5, <1>6, <1>7 DEF Next, Arrive

LEMMA AbandonedStays ==
    ASSUME Prompt, SeatInv, [Next]_vars, NEW i \in DOMAIN auths, Abandoned(i)
    PROVE  Abandoned(i)'
  <1>1. Forward(i)
    BY NextForward
  <1>2. auths'[i].status # "ACTIVE"
    <2>1. CASE \E r \in Portal : Finalize(r)
      <3>1. PICK r \in Portal : Finalize(r)
        BY <2>1
      <3>2. req[r].row # i
        BY <3>1 DEF Finalize, Abandoned, Holding
      <3> QED
        BY <3>1, <3>2, FinalizeFacts DEF Abandoned
    <2>2. CASE \A r \in Portal : ~Finalize(r)
      BY <2>2, FinalizeOnly, SeatInvRows DEF ActivatesNone, Abandoned
    <2> QED
      BY <2>1, <2>2
  <1>3. ASSUME NEW q \in Portal, Holding(q)', req'[q].row = i
        PROVE  req'[q].pc = "fail"
    <2>1. Holding(q) /\ req[q].row = i
      <3>1. CASE Settles
        BY <1>3, <3>1 DEF Settles, Onward, Holding, NoRequest
      <3>2. CASE \E r \in Portal : \E n : Inserts(r, n)
        BY <1>3, <3>2 DEF Inserts, Holding
      <3> QED
        BY <3>1, <3>2, NextShape
    <2>2. req[q].pc = "fail"
      BY <2>1 DEF Abandoned
    <2> QED
      BY <1>3, <2>2, FailStays DEF Holding
  <1> QED
    BY <1>1, <1>2, <1>3 DEF Abandoned, Forward

-----------------------------------------------------------------------------
(* Reservations match their requests *)

\* A request that holds a reservation has kept it, or inserted it in this step.
LEMMA HoldingMoves ==
    ASSUME SeatInv, [Next]_vars, NEW q \in Portal, Holding(q)'
    PROVE  /\ req'[q].dev = req[q].dev /\ req'[q].owner = req[q].owner
           /\ req'[q].at = req[q].at
           /\ \/ Holding(q) /\ req'[q].row = req[q].row
              \/ RedeemReserve(q) \/ StaffReserve(q)
  <1>0. req \in [Portal -> Request]
    BY DEF SeatInv, WellFormed, TypeOK
  <1> DEFINE Kin == /\ req'[q].dev = req[q].dev /\ req'[q].owner = req[q].owner
                    /\ req'[q].at = req[q].at
  <1>1. CASE req'[q] = req[q]
    BY <1>1 DEF Holding
  <1>2. ASSUME NEW r \in Portal, RedeemReserve(r) \/ StaffReserve(r)
        PROVE  req'[q] = req[q] \/ (q = r /\ Kin)
    <2>1. PICK pc, row, old :
             req' = [req EXCEPT ![r].pc = pc, ![r].row = row, ![r].old = old]
      <3>1. CASE RedeemReserve(r)
        <4>1. req' = [req EXCEPT ![r].pc = "authorize", ![r].row = Len(auths) + 1,
                                 ![r].old = req[r].old]
          BY <1>0, <3>1 DEF RedeemReserve, Request
        <4> QED
          BY <4>1
      <3>2. CASE StaffReserve(r)
        <4>1. PICK old :
                 req' = [req EXCEPT ![r].pc = IF old = 0 THEN "authorize" ELSE "replace",
                                    ![r].row = Len(auths) + 1, ![r].old = old]
          BY <3>2 DEF StaffReserve
        <4> QED
          BY <4>1
      <3> QED
        BY <1>2, <3>1, <3>2
    <2> QED
      BY <1>0, <2>1 DEF Request
  <1>3. ASSUME NEW r \in Portal, StaffReplace(r) \/ StaffRetire(r) \/ Authorize(r)
        PROVE  req'[q] = req[q] \/ (Holding(q) /\ req'[q].row = req[q].row /\ Kin)
    <2>1. Moved(r)
      <3>1. CASE StaffReplace(r) \/ StaffRetire(r)
        <4>1. PICK pc : req' = [req EXCEPT ![r].pc = pc]
          BY <3>1 DEF StaffReplace, StaffRetire, Goto
        <4> QED
          BY <1>0, <4>1 DEF Moved, Request
      <3>2. CASE Authorize(r)
        BY <3>2, AuthorizeMoves DEF SeatInv
      <3> QED
        BY <1>3, <3>1, <3>2
    <2>2. Holding(r)
      BY <1>3 DEF StaffReplace, StaffRetire, Authorize, Holding
    <2> QED
      BY <2>1, <2>2 DEF Moved
  <1>4. ASSUME NEW r \in Portal, Finalize(r) \/ Fail(r) \/ GiveUp(r) \/ GiveUpSent(r)
        PROVE  req'[q] = req[q]
    BY <1>0, <1>4 DEF Finalize, Fail, GiveUp, GiveUpSent, End, NoRequest, Holding
  <1>5. ASSUME NEW r \in Portal, NEW d \in Devices,
               \/ \E c \in Coupons : RedeemRead(r, c, d)
               \/ \E u \in Users : StaffStart(r, u, d)
        PROVE  req'[q] = req[q]
    BY <1>0, <1>5 DEF RedeemRead, StaffStart, Holding
  <1>6. CASE \E a \in Admins : AdminStep(a)
    BY <1>1, <1>6, RevocationSettles
  <1>7. CASE ReconStep
    BY <1>1, <1>7, ReconSettles
  <1>8. CASE \E a \in Admins : \/ \E i \in DOMAIN auths : RevokeSelect(a, i)
                               \/ \E c \in Coupons : CouponRevoke(a, c)
    BY <1>1, <1>8 DEF RevokeSelect, CouponRevoke
  <1>9. CASE Late \/ Tick \/ UNCHANGED vars
    BY <1>1, <1>9 DEF Late, Tick, vars
  <1>10. ~Restart
    BY DEF Restart, NoRequest, Holding
  <1> QED
    BY <1>1, <1>2, <1>3, <1>4, <1>5, <1>6, <1>7, <1>8, <1>9, <1>10
    DEF Next, Arrive, PortalStep

\* The row authorize_staff inserts.
LEMMA NewStaffRow ==
    ASSUME WellFormed, NEW r \in Portal, StaffReserve(r)
    PROVE  auths'[req'[r].row].expires = req[r].at + StaffMinutes * Minute
  <1> DEFINE ids == ActiveIds(auths, req[r].owner) \cap ExpiredIds(auths, req[r].at)
             t   == SetStatus(auths, ids, "REVOKED")
             row == NewRow(req[r].owner, req[r].dev, req[r].at + StaffMinutes * Minute, req[r].at)
  <1>1. /\ auths \in Seq(Row) /\ req[r].owner \in Users /\ req[r].dev \in Devices
        /\ req[r].at \in Nat /\ "REVOKED" \in Statuses /\ req \in [Portal -> Request]
    BY DEF StaffReserve, WellFormed, TypeOK, RequestsWellFormed, Request, Statuses
  <1>2. row \in Row /\ row.expires = req[r].at + StaffMinutes * Minute
    BY <1>1, SessionTime DEF NewRow, Row, Statuses, Owners
  <1>3. auths' = Append(t, row)
    BY DEF StaffReserve
  <1>4. PICK old :
           req' = [req EXCEPT ![r].pc = IF old = 0 THEN "authorize" ELSE "replace",
                              ![r].row = Len(auths) + 1, ![r].old = old]
    BY DEF StaffReserve
  <1>5. req'[r].row = Len(auths) + 1
    BY <1>1, <1>4 DEF Request
  <1> HIDE DEF ids, row
  <1>6. t \in Seq(Row) /\ Len(t) = Len(auths)
    BY <1>1, SetStatusFacts
  <1> HIDE DEF t
  <1>7. auths'[Len(t) + 1] = row
    BY <1>2, <1>3, <1>6, InsertFacts
  <1> QED
    BY <1>2, <1>5, <1>6, <1>7

LEMMA MatchingStep ==
    ASSUME Prompt, SeatInv, Matching, [Next]_vars
    PROVE  Matching'
  <1> SUFFICES ASSUME NEW q \in Portal, Holding(q)'
               PROVE  /\ auths'[req'[q].row].dev = req'[q].dev
                      /\ req'[q].owner \in Users =>
                            auths'[req'[q].row].expires = req'[q].at + StaffMinutes * Minute
    BY DEF Matching
  <1> USE DEF SeatInv
  <1>1. /\ req'[q].dev = req[q].dev /\ req'[q].owner = req[q].owner
        /\ req'[q].at = req[q].at
    BY HoldingMoves
  <1>2. CASE Holding(q) /\ req'[q].row = req[q].row
    <2>1. Forward(req[q].row)
      BY <1>2, NextForward DEF WellFormed, RequestsWellFormed
    <2> QED
      BY <1>1, <1>2, <2>1 DEF Matching, Forward
  <1>3. ASSUME NEW n, Inserts(q, n)
        PROVE  auths'[req'[q].row].dev = req'[q].dev
    BY <1>1, <1>3 DEF Inserts
  <1>4. CASE RedeemReserve(q)
    <2>1. req[q].owner \notin Users
      BY <1>4, TableAssumption DEF RedeemReserve, WellFormed, RequestsWellFormed
    <2> QED
      BY <1>1, <1>3, <1>4, <2>1, RedeemInserts
  <1>5. CASE StaffReserve(q)
    BY <1>1, <1>3, <1>5, StaffInserts, NewStaffRow
  <1> QED
    BY <1>2, <1>4, <1>5, HoldingMoves

-----------------------------------------------------------------------------
(* Handlers that clear a row *)

LEMMA ClearingIsGranted ==
    ASSUME TargetsGranted, ClearingGranted, NEW i, Clearing(i)
    PROVE  Granted(i)
  BY DEF Clearing, TargetsGranted, ReplacedGranted, RevokedGranted, ClearingGranted

LEMMA ClearingGrantedStep ==
    ASSUME Prompt, SeatInv, ClearingGranted, [Next]_vars
    PROVE  ClearingGranted'
  <1> USE DEF SeatInv
  <1>0. adm \in [Admins -> Revocation] /\ recon \in Sweep
    BY DEF WellFormed, TypeOK
  <1>1. \A i : Granted(i) => Granted(i)'
    BY NextForward, GrantedStays
  <1>2. ASSUME NEW a \in Admins, adm'[a].pc \in {"unauthorize", "revoke"}
        PROVE  Granted(adm'[a].row)
    <2>1. CASE adm'[a] = adm[a]
      BY <1>2, <2>1 DEF ClearingGranted
    <2>2. ASSUME NEW b \in Admins, AdminStep(b)
          PROVE  adm'[a] = adm[a] \/ (adm[a].pc = "unauthorize" /\ adm'[a].row = adm[a].row)
      <3>1. b # a => adm'[a] = adm[a]
        BY <1>0, <2>2 DEF AdminStep, RevokeUnauthorize, RevokeCommit, CouponSelect,
           CouponMark, CouponAudit, CouponUnauthorize, RevokeEnd, RevokeEndSent, AdmGoto
      <3>2. CASE b = a /\ RevokeUnauthorize(a)
        <4>1. PICK w \in {[adm[a] EXCEPT !.pc = "revoke"], NoRevocation} :
                 adm' = [adm EXCEPT ![a] = w]
          BY <3>2 DEF RevokeUnauthorize
        <4> QED
          BY <1>0, <1>2, <3>2, <4>1 DEF RevokeUnauthorize, NoRevocation, Revocation
      <3>3. CASE b = a /\ (RevokeCommit(a) \/ CouponSelect(a) \/ CouponMark(a))
        BY <1>0, <1>2, <3>3 DEF RevokeCommit, CouponSelect, CouponMark, AdmGoto, Revocation
      <3>4. CASE b = a /\ (CouponAudit(a) \/ RevokeEnd(a) \/ RevokeEndSent(a))
        BY <1>0, <1>2, <3>4
        DEF CouponAudit, RevokeEnd, RevokeEndSent, NoRevocation, Revocation
      <3>5. CASE b = a /\ \E i \in adm[a].queue : CouponUnauthorize(a, i)
        <4>1. PICK i \in adm[a].queue, ok \in BOOLEAN :
                 adm' = [adm EXCEPT ![a].queue = @ \ {i},
                                    ![a].pc = IF ok THEN "mark" ELSE "loop",
                                    ![a].row = IF ok THEN i ELSE 0,
                                    ![a].failed = @ \/ ~ok]
          BY <3>5 DEF CouponUnauthorize
        <4>2. adm'[a].pc \in {"mark", "loop"}
          BY <1>0, <4>1 DEF Revocation
        <4> QED
          BY <1>2, <4>2
      <3> QED
        BY <2>2, <3>1, <3>2, <3>3, <3>4, <3>5 DEF AdminStep
    <2>3. ASSUME NEW b \in Admins, NEW i \in DOMAIN auths, RevokeSelect(b, i)
          PROVE  adm'[a] = adm[a] \/ Granted(adm'[a].row)
      BY <1>0, <2>3 DEF RevokeSelect, Revocation, Granted
    <2>4. ASSUME NEW b \in Admins, NEW c \in Coupons, CouponRevoke(b, c)
          PROVE  adm'[a] = adm[a]
      BY <1>0, <1>2, <2>4 DEF CouponRevoke, Revocation
    <2>5. ASSUME NEW r \in Portal,
                 \/ PortalStep(r)
                 \/ \E d \in Devices : \/ \E c \in Coupons : RedeemRead(r, c, d)
                                       \/ \E u \in Users : StaffStart(r, u, d)
          PROVE  adm' = adm
      BY <2>5 DEF PortalStep, RedeemReserve, StaffReserve, StaffReplace, StaffRetire,
         Authorize, Finalize, Fail, GiveUp, GiveUpSent, RedeemRead, StaffStart
    <2>6. CASE ReconStep
      BY <2>1, <2>6, ReconSettles
    <2>7. CASE Late \/ Tick \/ UNCHANGED vars
      BY <2>1, <2>7 DEF Late, Tick, vars
    <2>8. ~Restart
      BY <1>2 DEF Restart, NoRevocation
    <2> QED
      BY <2>1, <2>2, <2>3, <2>4, <2>5, <2>6, <2>7, <2>8 DEF ClearingGranted, Next, Arrive
  <1>3. /\ recon'.pc = "mark" => Granted(recon'.row)
        /\ \A i \in recon'.queue : Granted(i)
    <2>1. CASE recon' = recon
      BY <2>1 DEF ClearingGranted
    <2>2. CASE ReconTimeout \/ ReconTimeoutError \/ ReconMark \/ ReconMarkError \/ ReconSleep
      <3>1. recon'.pc # "mark" /\ recon'.queue \subseteq recon.queue
        <4>1. CASE ReconTimeout \/ ReconTimeoutError
          BY <1>0, <4>1 DEF ReconTimeout, ReconTimeoutError, Sweep
        <4>2. CASE ReconMark \/ ReconMarkError
          <5>1. recon' = [recon EXCEPT !.pc = "loop", !.row = 0]
            BY <4>2 DEF ReconMark, ReconMarkError
          <5> QED
            BY <1>0, <5>1 DEF Sweep
        <4>3. CASE ReconSleep
          BY <4>3 DEF ReconSleep, NoSweep
        <4> QED
          BY <2>2, <4>1, <4>2, <4>3
      <3> QED
        BY <3>1 DEF ClearingGranted
    <2>3. CASE ReconSelect
      <3>1. recon'.pc = "loop" /\ recon'.queue = ExpiredIds(auths, recon.at)
        BY <1>0, <2>3 DEF ReconSelect, Sweep
      <3> QED
        BY <3>1 DEF ExpiredIds, Granted
    <2>4. CASE \E i \in recon.queue : ReconUnauthorize(i)
      <3>1. PICK i \in recon.queue, ok \in BOOLEAN :
               recon' = [recon EXCEPT !.queue = @ \ {i},
                                      !.pc = IF ok THEN "mark" ELSE "loop",
                                      !.row = IF ok THEN i ELSE 0]
        BY <2>4 DEF ReconUnauthorize
      <3>2. recon'.queue \subseteq recon.queue /\ (recon'.pc = "mark" => recon'.row = i)
        BY <1>0, <3>1 DEF Sweep
      <3> QED
        BY <3>1, <3>2 DEF ClearingGranted
    <2>5. ASSUME NEW r \in Portal, PortalStep(r)
          PROVE  recon' = recon
      BY <2>5 DEF PortalStep, RedeemReserve, StaffReserve, StaffReplace, StaffRetire,
         Authorize, Finalize, Fail, GiveUp, GiveUpSent
    <2>6. ASSUME NEW a \in Admins, AdminStep(a)
          PROVE  recon' = recon
      BY <2>6 DEF AdminStep, RevokeUnauthorize, RevokeCommit, CouponSelect, CouponMark,
         CouponAudit, CouponUnauthorize, RevokeEnd, RevokeEndSent
    <2>7. CASE Arrive \/ Late \/ Tick \/ UNCHANGED vars
      <3>1. recon' = recon
        BY <2>7 DEF Arrive, RedeemRead, StaffStart, RevokeSelect, CouponRevoke, Late, Tick, vars
      <3> QED
        BY <2>1, <3>1
    <2>8. CASE Restart
      BY <2>8 DEF Restart, NoSweep
    <2> QED
      BY <2>1, <2>2, <2>3, <2>4, <2>5, <2>6, <2>7, <2>8 DEF Next, ReconStep
  <1> SUFFICES ASSUME NEW i,
                      \/ \E a \in Admins : /\ adm'[a].pc \in {"unauthorize", "revoke"}
                                           /\ i = adm'[a].row
                      \/ recon'.pc = "mark" /\ i = recon'.row
                      \/ i \in recon'.queue
               PROVE  Granted(i)'
    BY DEF ClearingGranted
  <1> QED
    BY <1>1, <1>2, <1>3

\* Where a handler that clears a row comes from.
LEMMA RetireComes ==
    ASSUME SeatInv, [Next]_vars, NEW q \in Portal, req'[q].pc = "retire",
           ~(req[q].pc = "retire" /\ req[q].old = req'[q].old)
    PROVE  StaffReplace(q) /\ req[q].old = req'[q].old
  <1>0. req \in [Portal -> Request]
    BY DEF SeatInv, WellFormed, TypeOK
  <1>1. req'[q] # req[q]
    OBVIOUS
  <1>2. ASSUME NEW r \in Portal, StaffReplace(r) \/ StaffRetire(r) \/ Authorize(r)
        PROVE  StaffReplace(q) /\ req[q].old = req'[q].old
    <2>1. CASE StaffReplace(r) \/ StaffRetire(r)
      <3>1. PICK pc : req' = [req EXCEPT ![r].pc = pc]
        BY <2>1 DEF StaffReplace, StaffRetire, Goto
      <3>2. q = r /\ req'[q].old = req[q].old /\ pc = "retire"
        BY <1>0, <1>1, <3>1 DEF Request
      <3>3. ~StaffRetire(r)
        BY <1>0, <3>2 DEF StaffRetire, Goto, Request
      <3> QED
        BY <2>1, <3>2, <3>3
    <2>2. CASE Authorize(r)
      BY <1>1, <2>2, AuthorizeMoves DEF SeatInv, Moved
    <2> QED
      BY <1>2, <2>1, <2>2
  <1>3. ASSUME NEW r \in Portal, RedeemReserve(r) \/ StaffReserve(r)
        PROVE  FALSE
    <2>1. PICK n : Inserts(r, n)
      BY <1>3, RedeemInserts, StaffInserts DEF SeatInv
    <2> QED
      BY <1>1, <2>1 DEF Inserts
  <1>4. ASSUME NEW r \in Portal, Finalize(r) \/ Fail(r) \/ GiveUp(r) \/ GiveUpSent(r)
        PROVE  FALSE
    BY <1>0, <1>1, <1>4 DEF Finalize, Fail, GiveUp, GiveUpSent, End, NoRequest
  <1>5. ASSUME NEW r \in Portal, NEW d \in Devices,
               \/ \E c \in Coupons : RedeemRead(r, c, d)
               \/ \E u \in Users : StaffStart(r, u, d)
        PROVE  FALSE
    BY <1>0, <1>1, <1>5 DEF RedeemRead, StaffStart
  <1>6. ASSUME NEW a \in Admins, AdminStep(a)
        PROVE  FALSE
    BY <1>1, <1>6, RevocationSettles
  <1>7. ~ReconStep
    BY <1>1, ReconSettles
  <1>8. ASSUME NEW a \in Admins, \/ \E i \in DOMAIN auths : RevokeSelect(a, i)
                                 \/ \E c \in Coupons : CouponRevoke(a, c)
        PROVE  FALSE
    BY <1>1, <1>8 DEF RevokeSelect, CouponRevoke
  <1>9. ~(Restart \/ Late \/ Tick \/ UNCHANGED vars)
    BY <1>1 DEF Restart, NoRequest, Late, Tick, vars
  <1> QED
    BY <1>2, <1>3, <1>4, <1>5, <1>6, <1>7, <1>8, <1>9 DEF Next, Arrive, PortalStep

LEMMA MarkComes ==
    ASSUME SeatInv, [Next]_vars, NEW a \in Admins, adm'[a].pc \in {"revoke", "mark"},
           ~(adm[a].pc \in {"revoke", "mark"} /\ adm[a].row = adm'[a].row)
    PROVE  \/ RevokeUnauthorize(a)
           \/ \E j \in adm[a].queue : CouponUnauthorize(a, j)
  <1>0. adm \in [Admins -> Revocation]
    BY DEF SeatInv, WellFormed, TypeOK
  <1>1. adm'[a] # adm[a]
    OBVIOUS
  <1>2. ASSUME NEW b \in Admins, AdminStep(b)
        PROVE  b = a
    BY <1>0, <1>1, <1>2 DEF AdminStep, RevokeUnauthorize, RevokeCommit, CouponSelect,
       CouponMark, CouponAudit, CouponUnauthorize, RevokeEnd, RevokeEndSent, AdmGoto
  <1>3. ~(RevokeCommit(a) \/ CouponSelect(a) \/ CouponMark(a))
    BY <1>0 DEF RevokeCommit, CouponSelect, CouponMark, AdmGoto, Revocation
  <1>4. ~(CouponAudit(a) \/ RevokeEnd(a) \/ RevokeEndSent(a))
    BY <1>0 DEF CouponAudit, RevokeEnd, RevokeEndSent, NoRevocation, Revocation
  <1>5. ASSUME NEW b \in Admins, \/ \E i \in DOMAIN auths : RevokeSelect(b, i)
                                 \/ \E c \in Coupons : CouponRevoke(b, c)
        PROVE  FALSE
    BY <1>0, <1>1, <1>5 DEF RevokeSelect, CouponRevoke, Revocation
  <1>6. ASSUME NEW r \in Portal,
               \/ PortalStep(r)
               \/ \E d \in Devices : \/ \E c \in Coupons : RedeemRead(r, c, d)
                                     \/ \E u \in Users : StaffStart(r, u, d)
        PROVE  FALSE
    BY <1>1, <1>6 DEF PortalStep, RedeemReserve, StaffReserve, StaffReplace, StaffRetire,
       Authorize, Finalize, Fail, GiveUp, GiveUpSent, RedeemRead, StaffStart
  <1>7. ~ReconStep
    BY <1>1, ReconSettles
  <1>8. ~(Restart \/ Late \/ Tick \/ UNCHANGED vars)
    BY <1>1 DEF Restart, NoRevocation, Late, Tick, vars
  <1> QED
    BY <1>2, <1>3, <1>4, <1>5, <1>6, <1>7, <1>8 DEF Next, Arrive, AdminStep

LEMMA SweepComes ==
    ASSUME SeatInv, [Next]_vars, recon'.pc = "mark",
           ~(recon.pc = "mark" /\ recon.row = recon'.row)
    PROVE  \E j \in recon.queue : ReconUnauthorize(j)
  <1>0. recon \in Sweep
    BY DEF SeatInv, WellFormed, TypeOK
  <1>1. recon' # recon
    OBVIOUS
  <1>2. ~(ReconTimeout \/ ReconTimeoutError \/ ReconSelect)
    BY <1>0 DEF ReconTimeout, ReconTimeoutError, ReconSelect, Sweep
  <1>3. ~(ReconMark \/ ReconMarkError)
    <2>1. ReconMark \/ ReconMarkError => recon' = [recon EXCEPT !.pc = "loop", !.row = 0]
      BY DEF ReconMark, ReconMarkError
    <2> QED
      BY <1>0, <2>1 DEF Sweep
  <1>4. ~(ReconSleep \/ Restart)
    BY DEF ReconSleep, Restart, NoSweep
  <1>5. ASSUME NEW r \in Portal, PortalStep(r)
        PROVE  FALSE
    BY <1>1, <1>5 DEF PortalStep, RedeemReserve, StaffReserve, StaffReplace, StaffRetire,
       Authorize, Finalize, Fail, GiveUp, GiveUpSent
  <1>6. ASSUME NEW a \in Admins, AdminStep(a)
        PROVE  FALSE
    BY <1>1, <1>6 DEF AdminStep, RevokeUnauthorize, RevokeCommit, CouponSelect, CouponMark,
       CouponAudit, CouponUnauthorize, RevokeEnd, RevokeEndSent
  <1>7. ~(Arrive \/ Late \/ Tick \/ UNCHANGED vars)
    BY <1>1 DEF Arrive, RedeemRead, StaffStart, RevokeSelect, CouponRevoke, Late, Tick, vars
  <1> QED
    BY <1>2, <1>3, <1>4, <1>5, <1>6, <1>7 DEF Next, ReconStep

\* A handler starts to clear a row when the controller has just disconnected
\* the row's device.
LEMMA ClearingStarts ==
    ASSUME Prompt, SeatInv, ClearingGranted, [Next]_vars, NEW i, Clearing(i)', ~Clearing(i)
    PROVE  grant'[auths[i].dev] = NoAccess /\ auths' = auths
  <1> USE DEF SeatInv
  <1>0. /\ adm \in [Admins -> Revocation] /\ recon \in Sweep /\ req \in [Portal -> Request]
        /\ grant \in [Devices -> Grants]
    BY DEF WellFormed, TypeOK, ControllerTypeOK
  <1>1. ASSUME NEW j, Granted(j), Call(UnauthorizeCmd(auths[j].dev), TRUE)
        PROVE  grant'[auths[j].dev] = NoAccess
    <2>1. auths[j].dev \in Devices
      BY <1>1, RowFields DEF Granted
    <2> QED
      BY <1>0, <1>1, <2>1 DEF Call, Execute, UnauthorizeCmd, GrantOf
  <1>2. CASE \E r \in Portal : req'[r].pc = "retire" /\ req'[r].old = i
    <2>1. PICK q \in Portal : req'[q].pc = "retire" /\ req'[q].old = i
      BY <1>2
    <2>2. ~(req[q].pc = "retire" /\ req[q].old = i)
      BY DEF Clearing
    <2>3. StaffReplace(q) /\ req[q].old = i /\ req'[q].pc = "retire"
      BY <2>1, <2>2, RetireComes
    <2>4. PICK ok \in BOOLEAN : /\ Call(UnauthorizeCmd(auths[i].dev), ok)
                                /\ Goto(q, IF ok THEN "retire" ELSE "fail")
      BY <2>3 DEF StaffReplace
    <2>5. ok
      BY <1>0, <2>3, <2>4 DEF Goto, Request
    <2>6. Granted(i)
      BY <2>3 DEF StaffReplace, TargetsGranted, ReplacedGranted
    <2> QED
      BY <1>1, <2>3, <2>4, <2>5, <2>6 DEF StaffReplace, dbVars
  <1>3. CASE \E a \in Admins : adm'[a].pc \in {"revoke", "mark"} /\ adm'[a].row = i
    <2>1. PICK a \in Admins : adm'[a].pc \in {"revoke", "mark"} /\ adm'[a].row = i
      BY <1>3
    <2>2. ~(adm[a].pc \in {"revoke", "mark"} /\ adm[a].row = i)
      BY DEF Clearing
    <2>3. \/ RevokeUnauthorize(a)
          \/ \E j \in adm[a].queue : CouponUnauthorize(a, j)
      BY <2>1, <2>2, MarkComes
    <2>4. CASE RevokeUnauthorize(a)
      <3>1. PICK ok \in BOOLEAN :
               /\ Call(UnauthorizeCmd(auths[adm[a].row].dev), ok)
               /\ adm' = [adm EXCEPT ![a] = IF ok THEN [@ EXCEPT !.pc = "revoke"]
                                            ELSE NoRevocation]
        BY <2>4 DEF RevokeUnauthorize
      <3>2. ok /\ adm[a].row = i
        BY <1>0, <2>1, <3>1 DEF Revocation, NoRevocation
      <3>3. Granted(i)
        BY <2>4, <3>2 DEF RevokeUnauthorize, ClearingGranted
      <3> QED
        BY <1>1, <2>4, <3>1, <3>2, <3>3 DEF RevokeUnauthorize, dbVars
    <2>5. ASSUME NEW j \in adm[a].queue, CouponUnauthorize(a, j)
          PROVE  grant'[auths[i].dev] = NoAccess /\ auths' = auths
      <3>1. PICK ok \in BOOLEAN :
               /\ Call(UnauthorizeCmd(auths[j].dev), ok)
               /\ adm' = [adm EXCEPT ![a].queue = @ \ {j},
                                     ![a].pc = IF ok THEN "mark" ELSE "loop",
                                     ![a].row = IF ok THEN j ELSE 0,
                                     ![a].failed = @ \/ ~ok]
        BY <2>5 DEF CouponUnauthorize
      <3>2. ok /\ j = i
        BY <1>0, <2>1, <3>1 DEF Revocation
      <3>3. Granted(i)
        BY <2>5, <3>2 DEF TargetsGranted, RevokedGranted
      <3> QED
        BY <1>1, <2>5, <3>1, <3>2, <3>3 DEF CouponUnauthorize, dbVars
    <2> QED
      BY <2>3, <2>4, <2>5
  <1>4. CASE recon'.pc = "mark" /\ recon'.row = i
    <2>1. PICK j \in recon.queue : ReconUnauthorize(j)
      BY <1>4, SweepComes DEF Clearing
    <2>2. PICK ok \in BOOLEAN :
             /\ Call(UnauthorizeCmd(auths[j].dev), ok)
             /\ recon' = [recon EXCEPT !.queue = @ \ {j},
                                       !.pc = IF ok THEN "mark" ELSE "loop",
                                       !.row = IF ok THEN j ELSE 0]
      BY <2>1 DEF ReconUnauthorize
    <2>3. ok /\ j = i
      BY <1>0, <1>4, <2>2 DEF Sweep
    <2>4. Granted(i)
      BY <2>3 DEF ClearingGranted
    <2> QED
      BY <1>1, <2>1, <2>2, <2>3, <2>4 DEF ReconUnauthorize, dbVars
  <1> QED
    BY <1>2, <1>3, <1>4 DEF Clearing

-----------------------------------------------------------------------------
(* Rows that go on accounting for their device *)

LEMMA UpdateRevokes ==
    ASSUME WellFormed, NEW ids, NEW s \in {"REVOKED", "FAILED"},
           auths' = SetStatus(auths, ids, s), NEW i \in DOMAIN auths,
           auths[i].status # "REVOKED", auths'[i].status = "REVOKED"
    PROVE  i \in ids /\ s = "REVOKED"
  <1>1. s \in Statuses /\ auths \in Seq(Row) /\ auths[i] \in Row
    BY RowsTyped DEF Statuses, WellFormed, TypeOK
  <1>2. auths'[i] = IF i \in ids THEN [auths[i] EXCEPT !.status = s] ELSE auths[i]
    BY <1>1, SetStatusFacts
  <1> QED
    BY <1>1, <1>2 DEF Row

\* A row is revoked by a handler that cleared it, or as an expired staff row.
LEMMA RevokedHow ==
    ASSUME SeatInv, Past, [Next]_vars, NEW i \in DOMAIN auths,
           auths[i].status # "REVOKED", auths'[i].status = "REVOKED"
    PROVE  Clearing(i) \/ (auths[i].owner \in Users /\ auths[i].expires <= now)
  <1> USE DEF SeatInv
  <1>0. auths[i] \in Row /\ auths \in Seq(Row) /\ auths' # auths
    BY RowsTyped DEF WellFormed, TypeOK
  <1>1. ASSUME NEW r \in Portal, StaffReserve(r)
        PROVE  auths[i].owner \in Users /\ auths[i].expires <= now
    <2> DEFINE ids == ActiveIds(auths, req[r].owner) \cap ExpiredIds(auths, req[r].at)
    <2>1. auths'[i] = IF i \in ids THEN [auths[i] EXCEPT !.status = "REVOKED"] ELSE auths[i]
      BY <1>1, StaffRows
    <2>2. auths[i].owner = req[r].owner /\ auths[i].expires <= req[r].at
      BY <2>1 DEF ActiveIds, ExpiredIds
    <2>3. req[r].owner \in Users /\ req[r].at <= now
      BY <1>1 DEF StaffReserve, WellFormed, RequestsWellFormed, Past
    <2>4. auths[i].expires \in Nat /\ req[r].at \in Nat /\ now \in Nat
      BY <1>0 DEF Row, WellFormed, TypeOK, ControllerTypeOK, Request
    <2> QED
      BY <2>2, <2>3, <2>4
  <1>2. ASSUME NEW r \in Portal, RedeemReserve(r)
        PROVE  FALSE
    <2> DEFINE row == NewRow(req[r].owner, req[r].dev, CouponExpiry[req[r].owner], req[r].at)
    <2>1. /\ req[r].owner \in Coupons /\ req[r].dev \in Devices /\ req[r].at \in Nat
      BY <1>2 DEF RedeemReserve, WellFormed, TypeOK, RequestsWellFormed, Request
    <2>2. row \in Row
      BY <2>1, TableAssumption DEF NewRow, Row, Statuses, Owners
    <2>3. auths' = Append(auths, row)
      BY <1>2 DEF RedeemReserve
    <2> HIDE DEF row
    <2> QED
      BY <1>0, <2>2, <2>3, InsertFacts
  <1>3. ASSUME NEW r \in Portal, Finalize(r)
        PROVE  FALSE
    BY <1>3, FinalizeFacts
  <1>4. ASSUME NEW r \in Portal, StaffRetire(r)
        PROVE  Clearing(i)
    <2>1. auths' = SetStatus(auths, {req[r].old}, "REVOKED") /\ req[r].pc = "retire"
      BY <1>4 DEF StaffRetire
    <2>2. i \in {req[r].old}
      BY <2>1, UpdateRevokes
    <2> QED
      BY <2>1, <2>2 DEF Clearing
  <1>5. ASSUME NEW r \in Portal, Fail(r)
        PROVE  FALSE
    <2>1. auths' = SetStatus(auths, {req[r].row}, "FAILED")
      BY <1>5 DEF Fail
    <2> QED
      BY <2>1, UpdateRevokes
  <1>6. ASSUME NEW a \in Admins, AdminStep(a)
        PROVE  Clearing(i)
    <2>1. /\ auths' = SetStatus(auths, {adm[a].row}, "REVOKED")
          /\ adm[a].pc \in {"revoke", "mark"}
      BY <1>0, <1>6 DEF AdminStep, RevokeUnauthorize, RevokeCommit, CouponSelect, CouponMark,
         CouponAudit, CouponUnauthorize, RevokeEnd, RevokeEndSent, dbVars
    <2>2. i \in {adm[a].row}
      BY <2>1, UpdateRevokes
    <2> QED
      BY <2>1, <2>2 DEF Clearing
  <1>7. ASSUME ReconStep
        PROVE  Clearing(i)
    <2>1. \/ \E ids : auths' = SetStatus(auths, ids, "FAILED")
          \/ auths' = SetStatus(auths, {recon.row}, "REVOKED") /\ recon.pc = "mark"
      BY <1>0, <1>7 DEF ReconStep, ReconTimeout, ReconTimeoutError, ReconSelect,
         ReconUnauthorize, ReconMark, ReconMarkError, ReconSleep, dbVars
    <2>2. ~\E ids : auths' = SetStatus(auths, ids, "FAILED")
      BY UpdateRevokes
    <2> QED
      BY <2>1, <2>2, UpdateRevokes DEF Clearing
  <1>8. ASSUME NEW r \in Portal, \/ StaffReplace(r) \/ Authorize(r)
                                 \/ GiveUp(r) \/ GiveUpSent(r)
        PROVE  FALSE
    BY <1>0, <1>8 DEF StaffReplace, Authorize, GiveUp, GiveUpSent, dbVars
  <1>9. ~(Arrive \/ Restart \/ Late \/ Tick \/ UNCHANGED vars)
    BY <1>0 DEF Arrive, RedeemRead, StaffStart, RevokeSelect, CouponRevoke, Restart, Late,
       Tick, vars, dbVars
  <1> QED
    BY <1>1, <1>2, <1>3, <1>4, <1>5, <1>6, <1>7, <1>8, <1>9 DEF Next, PortalStep

\* A row accounts for its device until the device is offline.
LEMMA StillCountsStays ==
    ASSUME Prompt, SeatInv, Past, ClearingGranted, [Next]_vars,
           NEW i \in DOMAIN auths, StillCounts(i)
    PROVE  StillCounts(i)' \/ grant'[auths[i].dev] = NoAccess
  <1>1. Forward(i)
    BY NextForward
  <1>2. now \in Nat /\ now' \in Nat /\ now <= now' /\ auths[i].expires \in Nat
    BY TimePasses, RowFields DEF SeatInv
  <1>3. CASE auths[i].owner \in Users /\ auths[i].expires <= now
    <2>1. auths'[i].owner \in Users /\ auths'[i].expires <= now'
      BY <1>1, <1>2, <1>3 DEF Forward
    <2> QED
      BY <2>1 DEF StillCounts
  <1>4. CASE auths[i].status # "REVOKED" /\ ~Clearing(i)
    <2>1. CASE auths'[i].status = "REVOKED"
      BY <1>3, <1>4, <2>1, RevokedHow
    <2>2. CASE Clearing(i)'
      BY <1>4, <2>2, ClearingStarts
    <2> QED
      BY <2>1, <2>2 DEF StillCounts
  <1> QED
    BY <1>3, <1>4 DEF StillCounts

-----------------------------------------------------------------------------
(* What a reservation allows *)

\* The minutes asked for last until the row ends, counted from the request's
\* start, and less than one minute more.
LEMMA MinutesMatch ==
    ASSUME SeatInv, Matching, NEW r \in Portal, Holding(r)
    PROVE  LET k == req[r].row
               m == Minutes(req[r])
           IN  /\ k \in DOMAIN auths /\ auths[k].dev = req[r].dev
               /\ m \in Nat /\ m * Minute \in Nat
               /\ IF m = Forever THEN auths[k].expires = Forever
                  ELSE /\ auths[k].expires <= req[r].at + m * Minute
                       /\ req[r].at + m * Minute
                              <= auths[k].expires
                                     + IF auths[k].owner \in Coupons THEN Minute - 1 ELSE 0
  <1> USE DEF SeatInv
  <1>0. PICK k, m, at, o, p :
           /\ k = req[r].row /\ m = Minutes(req[r]) /\ at = req[r].at /\ o = req[r].owner
           /\ p = m * Minute
    OBVIOUS
  <1>1. /\ k \in DOMAIN auths /\ auths[k].owner = o /\ req[r].pc # "idle"
        /\ o \in Owners /\ at \in Nat
        /\ o \in Coupons => at < CouponExpiry[o]
    BY <1>0
    DEF WellFormed, TypeOK, RequestsWellFormed, ReservationsOwned, Request, Holding
  <1>2. m \in Nat /\ auths[k].dev = req[r].dev
    BY <1>0, <1>1, MinutesType DEF Matching
  <1>3. Minute \in Nat \ {0} /\ Forever \in Nat
    BY ControllerAssumption
  <1>4. CASE o \in Users
    <2>1. m = StaffMinutes /\ p \in Nat /\ o \notin Coupons
      BY <1>0, <1>4, SessionTime, TableAssumption DEF Minutes
    <2>2. auths[k].expires = at + p
      BY <1>0, <1>4, <2>1 DEF Matching
    <2>3. m # Forever
      BY <1>3, <2>1, TableAssumption
    <2>4. /\ auths[k].expires <= at + p
          /\ at + p <= auths[k].expires + IF auths[k].owner \in Coupons THEN Minute - 1 ELSE 0
      BY <1>1, <2>1, <2>2
    <2> QED
      BY <1>0, <1>1, <1>2, <2>1, <2>3, <2>4
  <1>5. CASE o \in Coupons
    <2>1. PICK e : e = CouponExpiry[o]
      OBVIOUS
    <2>2. auths[k].expires = e /\ e \in 0..Forever /\ o \notin Users
      BY <1>1, <1>5, <2>1, TableAssumption DEF ExpiryCopied
    <2>3. CASE e = Forever
      <3>1. m = Forever
        BY <1>0, <2>1, <2>2, <2>3 DEF Minutes
      <3>2. p \in Nat
        BY <1>0, <1>2, <1>3
      <3> QED
        BY <1>0, <1>1, <1>2, <2>2, <2>3, <3>1, <3>2
    <2>4. CASE e # Forever
      <3>1. m = WholeMinutes(e - at)
        BY <1>0, <2>1, <2>2, <2>4 DEF Minutes
      <3>2. e - at \in Nat \ {0} /\ e \in Nat /\ e < Forever
        BY <1>1, <1>3, <1>5, <2>1, <2>2, <2>4
      <3>3. p \in Nat /\ m <= e - at /\ e - at <= p /\ p <= e - at + Minute - 1
        BY <1>0, <3>1, <3>2, WholeMinutesBounds
      <3>4. m # Forever /\ e <= at + p /\ at + p <= e + (Minute - 1)
        BY <1>1, <1>2, <1>3, <3>2, <3>3
      <3> QED
        BY <1>0, <1>1, <1>2, <1>5, <2>2, <3>3, <3>4
    <2> QED
      BY <2>3, <2>4
  <1> QED
    BY <1>1, <1>4, <1>5 DEF Owners

LEMMA CommandEnds ==
    ASSUME NEW cmd \in Command
    PROVE  EarlyEnd(cmd) \in Nat /\ LateEnd(cmd) \in Nat
  <1>1. /\ cmd.sent \in Nat /\ cmd.minutes \in Nat
        /\ Minute \in Nat /\ Forever \in Nat /\ MaxDelay \in Nat
    BY ControllerAssumption DEF Command
  <1>2. cmd.minutes * Minute \in Nat
    BY <1>1
  <1> QED
    BY <1>1, <1>2 DEF EarlyEnd, LateEnd

\* An authorization sent now for a row gives what the row allows.
LEMMA EndsInTime ==
    ASSUME SeatInv, Past, Matching, NEW r \in Portal, Holding(r),
           NEW cmd, cmd = Authorization(req[r])
    PROVE  /\ cmd \in Command /\ cmd.op = "AUTHORIZE" /\ cmd.sent = now
           /\ cmd.row = req[r].row /\ cmd.dev = req[r].dev
           /\ AllowsCommand(cmd)
  <1>0. PICK k, m, p, at : /\ k = req[r].row /\ m = Minutes(req[r]) /\ p = m * Minute
                           /\ at = req[r].at
    OBVIOUS
  <1>1. /\ m \in Nat /\ p \in Nat /\ k \in DOMAIN auths /\ auths[k].dev = req[r].dev
        /\ IF m = Forever THEN auths[k].expires = Forever
           ELSE /\ auths[k].expires <= at + p
                /\ at + p <= auths[k].expires
                                 + IF auths[k].owner \in Coupons THEN Minute - 1 ELSE 0
    BY <1>0, MinutesMatch
  <1>2. /\ now \in Nat /\ at \in Nat /\ at <= now /\ now <= at + ReservationTTL
        /\ k \in Nat /\ req[r].dev \in Devices
    BY <1>0
    DEF SeatInv, WellFormed, TypeOK, ControllerTypeOK, RequestsWellFormed, Request, Timely,
        Past, Holding
  <1>3. /\ auths[k].expires \in Nat /\ ReservationTTL \in Nat /\ MaxDelay \in Nat
        /\ Forever \in Nat /\ Minute \in Nat \ {0}
    BY <1>1, RowFields, AccessAssumption, ControllerAssumption DEF SeatInv
  <1>4. cmd = [op |-> "AUTHORIZE", dev |-> req[r].dev, minutes |-> m, sent |-> now, row |-> k]
    BY <1>0 DEF Authorization, AuthorizeCmd
  <1>5. cmd \in Command /\ cmd.op = "AUTHORIZE" /\ cmd.sent = now /\ cmd.row = k
        /\ cmd.dev = req[r].dev /\ cmd.minutes = m
    BY <1>1, <1>2, <1>4 DEF Command
  <1>6. EarlyEnd(cmd) = IF m = Forever THEN Forever ELSE now + p
    BY <1>0, <1>5 DEF EarlyEnd
  <1>7. LateEnd(cmd) = IF m = Forever THEN Forever ELSE now + MaxDelay + p
    BY <1>0, <1>5 DEF LateEnd
  <1>8. auths[k].expires <= EarlyEnd(cmd)
    <2>1. CASE m = Forever
      BY <1>1, <1>3, <1>6, <2>1
    <2>2. CASE m # Forever
      BY <1>1, <1>2, <1>3, <1>6, <2>2
    <2> QED
      BY <2>1, <2>2
  <1>9. LateEnd(cmd) <= LatestEnd(k)
    <2>1. PICK w \in Nat : w = IF auths[k].owner \in Coupons THEN Minute - 1 ELSE 0
      BY <1>3
    <2>2. LatestEnd(k) = auths[k].expires + ReservationTTL + MaxDelay + w
      BY <2>1 DEF LatestEnd
    <2>3. CASE m = Forever
      BY <1>1, <1>3, <1>7, <2>1, <2>2, <2>3
    <2>4. CASE m # Forever
      BY <1>1, <1>2, <1>3, <1>7, <2>1, <2>2, <2>4
    <2> QED
      BY <2>3, <2>4
  <1> QED
    BY <1>0, <1>1, <1>5, <1>8, <1>9 DEF AllowsCommand, Allows

-----------------------------------------------------------------------------
(* How access and late commands change *)

\* Every command to the controller stems from one of these.
LEMMA CallsMade ==
    ASSUME SeatInv, [Next]_vars
    PROVE  \/ UNCHANGED controllerVars
           \/ \E i \in DOMAIN auths : LET cmd == UnauthorizeCmd(auths[i].dev)
                                      IN  (\E ok \in BOOLEAN : Call(cmd, ok)) \/ Outlive(cmd)
           \/ \E r \in Portal : Authorize(r) \/ (req[r].pc = "authorize" /\ GiveUpSent(r))
           \/ Late
  <1> USE DEF SeatInv
  <1>1. ASSUME NEW r \in Portal, PortalStep(r)
        PROVE  \/ UNCHANGED controllerVars
               \/ \E i \in DOMAIN auths : LET cmd == UnauthorizeCmd(auths[i].dev)
                                          IN  (\E ok \in BOOLEAN : Call(cmd, ok)) \/ Outlive(cmd)
               \/ Authorize(r) \/ (req[r].pc = "authorize" /\ GiveUpSent(r))
    <2>1. req[r].pc = "replace" => req[r].old \in DOMAIN auths
      BY DEF WellFormed, RequestsWellFormed
    <2>2. CASE StaffReplace(r) \/ (GiveUpSent(r) /\ req[r].pc # "authorize")
      BY <2>1, <2>2 DEF StaffReplace, GiveUpSent
    <2>3. CASE RedeemReserve(r) \/ StaffReserve(r) \/ StaffRetire(r) \/ Finalize(r)
               \/ Fail(r) \/ GiveUp(r)
      BY <2>3 DEF RedeemReserve, StaffReserve, StaffRetire, Finalize, Fail, GiveUp,
         controllerVars
    <2> QED
      BY <1>1, <2>2, <2>3 DEF PortalStep
  <1>2. ASSUME NEW a \in Admins, AdminStep(a)
        PROVE  \/ UNCHANGED controllerVars
               \/ \E i \in DOMAIN auths : LET cmd == UnauthorizeCmd(auths[i].dev)
                                          IN  (\E ok \in BOOLEAN : Call(cmd, ok)) \/ Outlive(cmd)
    <2>1. /\ adm[a].pc = "unauthorize" => adm[a].row \in DOMAIN auths
          /\ adm[a].queue \subseteq DOMAIN auths
      BY DEF WellFormed, RevocationsWellFormed
    <2>2. CASE RevokeUnauthorize(a)
      BY <2>1, <2>2 DEF RevokeUnauthorize
    <2>3. CASE \E i \in adm[a].queue : CouponUnauthorize(a, i)
      BY <2>1, <2>3 DEF CouponUnauthorize
    <2>4. CASE RevokeEndSent(a)
      BY <2>1, <2>4 DEF RevokeEndSent
    <2>5. CASE RevokeCommit(a) \/ CouponSelect(a) \/ CouponMark(a) \/ CouponAudit(a)
               \/ RevokeEnd(a)
      BY <2>5 DEF RevokeCommit, CouponSelect, CouponMark, CouponAudit, RevokeEnd,
         controllerVars
    <2> QED
      BY <1>2, <2>2, <2>3, <2>4, <2>5 DEF AdminStep
  <1>3. ASSUME ReconStep
        PROVE  \/ UNCHANGED controllerVars
               \/ \E i \in DOMAIN auths : \E ok \in BOOLEAN : Call(UnauthorizeCmd(auths[i].dev), ok)
    <2>1. recon.queue \subseteq DOMAIN auths
      BY DEF WellFormed, SweepWellFormed
    <2>2. CASE \E i \in recon.queue : ReconUnauthorize(i)
      BY <2>1, <2>2 DEF ReconUnauthorize
    <2> QED
      BY <1>3, <2>2 DEF ReconStep, ReconTimeout, ReconTimeoutError, ReconSelect, ReconMark,
         ReconMarkError, ReconSleep, controllerVars
  <1>4. ASSUME Arrive \/ Restart \/ Tick \/ UNCHANGED vars
        PROVE  UNCHANGED controllerVars
    BY <1>4 DEF Arrive, RedeemRead, StaffStart, RevokeSelect, CouponRevoke, Restart, Tick,
       vars, controllerVars
  <1> QED
    BY <1>1, <1>2, <1>3, <1>4 DEF Next

\* An authorization leaves the rows and everyone else alone.
LEMMA AuthorizeFacts ==
    ASSUME SeatInv, NEW r \in Portal, Authorize(r) \/ (req[r].pc = "authorize" /\ GiveUpSent(r)),
           NEW cmd, cmd = Authorization(req[r])
    PROVE  /\ Holding(r) /\ req[r].pc = "authorize"
           /\ auths' = auths /\ now' = now
           /\ \A q \in Portal \ {r} : req'[q] = req[q]
           /\ \/ Authorize(r) /\ Execute(cmd) /\ late' = late
              \/ /\ grant' = grant /\ late' \subseteq late \cup {cmd}
                 /\ req'[r].pc \in {"fail", "idle"}
  <1>0. req \in [Portal -> Request]
    BY DEF SeatInv, WellFormed, TypeOK
  <1>1. CASE Authorize(r)
    <2>1. PICK ok \in BOOLEAN :
             /\ Call(cmd, ok)
             /\ req' = [req EXCEPT ![r].pc = IF ok THEN "finalize" ELSE "fail",
                                   ![r].stamp = IF ok THEN now ELSE 0]
      BY <1>1 DEF Authorize
    <2>2. /\ \A q \in Portal \ {r} : req'[q] = req[q]
          /\ ~ok => req'[r].pc = "fail"
      BY <1>0, <2>1 DEF Request
    <2>3. \/ ok /\ Execute(cmd) /\ late' = late
          \/ ~ok /\ grant' = grant /\ late' \subseteq late \cup {cmd}
      BY <2>1 DEF Call, Outlive, controllerVars
    <2>4. /\ req[r].pc = "authorize" /\ auths' = auths /\ now' = now /\ Holding(r)
      BY <1>1 DEF Authorize, Holding, dbVars
    <2> QED
      BY <1>1, <2>2, <2>3, <2>4
  <1>2. CASE req[r].pc = "authorize" /\ GiveUpSent(r)
    <2>1. Outlive(cmd) /\ End(r) /\ auths' = auths /\ now' = now
      BY <1>2 DEF GiveUpSent, dbVars
    <2>2. req'[r].pc = "idle" /\ \A q \in Portal \ {r} : req'[q] = req[q]
      BY <1>0, <2>1 DEF End, NoRequest
    <2> QED
      BY <1>2, <2>1, <2>2 DEF Outlive, Holding
  <1> QED
    BY <1>1, <1>2

\* What may still be authorized late was so before, or its sender gives up now.
LEMMA LateComes ==
    ASSUME SeatInv, [Next]_vars, NEW cmd \in late', cmd.op = "AUTHORIZE", cmd \notin late
    PROVE  \E r \in Portal : /\ Authorize(r) \/ (req[r].pc = "authorize" /\ GiveUpSent(r))
                             /\ cmd = Authorization(req[r])
                             /\ req'[r].pc \in {"fail", "idle"}
  <1>1. ASSUME NEW i \in DOMAIN auths, NEW c, c = UnauthorizeCmd(auths[i].dev),
               (\E ok \in BOOLEAN : Call(c, ok)) \/ Outlive(c)
        PROVE  FALSE
    BY <1>1 DEF Call, Outlive, UnauthorizeCmd, controllerVars
  <1>2. ~Late
    BY DEF Late, Deliver, Lose
  <1>3. ~UNCHANGED controllerVars
    BY DEF controllerVars
  <1>4. PICK r \in Portal : Authorize(r) \/ (req[r].pc = "authorize" /\ GiveUpSent(r))
    BY <1>1, <1>2, <1>3, CallsMade
  <1>5. PICK c : c = Authorization(req[r])
    OBVIOUS
  <1>6. late' \subseteq late \cup {c} /\ req'[r].pc \in {"fail", "idle"}
    BY <1>4, <1>5, AuthorizeFacts
  <1> QED
    BY <1>4, <1>5, <1>6

LEMMA LateVouchedStep ==
    ASSUME Prompt, SeatInv, Past, Matching, LateVouched, [Next]_vars
    PROVE  LateVouched'
  <1> SUFFICES ASSUME NEW cmd \in late', cmd.op = "AUTHORIZE"
               PROVE  AllowsCommand(cmd)' /\ Abandoned(cmd.row)' /\ cmd.sent <= now'
    BY DEF LateVouched, AllowsCommand, EarlyEnd, LateEnd
  <1>0. PICK k, early, end : k = cmd.row /\ early = EarlyEnd(cmd) /\ end = LateEnd(cmd)
    OBVIOUS
  <1> SUFFICES Allows(k, cmd.dev, early, end)' /\ Abandoned(k)' /\ cmd.sent <= now'
    BY <1>0 DEF AllowsCommand, EarlyEnd, LateEnd
  <1>3. now \in Nat /\ now' \in Nat /\ now <= now'
    BY TimePasses DEF SeatInv
  <1>1. CASE cmd \in late
    <2>1. Allows(k, cmd.dev, early, end) /\ Abandoned(k) /\ cmd.sent <= now
      BY <1>0, <1>1 DEF LateVouched, AllowsCommand
    <2>2. k \in DOMAIN auths
      BY <2>1 DEF Allows
    <2>3. cmd.sent <= now'
      <3>1. cmd.sent \in Nat
        BY <1>1 DEF SeatInv, WellFormed, TypeOK, ControllerTypeOK, Command
      <3> QED
        BY <1>3, <2>1, <3>1
    <2> QED
      BY <2>1, <2>2, <2>3, AbandonedStays, AllowsStays, NextForward
  <1>2. CASE cmd \notin late
    <2>1. PICK r \in Portal : /\ Authorize(r) \/ (req[r].pc = "authorize" /\ GiveUpSent(r))
                              /\ cmd = Authorization(req[r])
                              /\ req'[r].pc \in {"fail", "idle"}
      BY <1>2, LateComes
    <2>2. /\ Holding(r) /\ auths' = auths /\ \A q \in Portal \ {r} : req'[q] = req[q]
      BY <2>1, AuthorizeFacts
    <2>3. Allows(k, cmd.dev, early, end) /\ k = req[r].row /\ cmd.sent = now
      BY <1>0, <2>1, <2>2, EndsInTime DEF AllowsCommand
    <2>4. Allows(k, cmd.dev, early, end)'
      BY <2>3, AllowsStays, NextForward
    <2>5. Abandoned(k)'
      <3>1. auths[k].status = "PENDING"
            /\ \A q \in Portal \ {r} : Holding(q) => req[q].row # k
        BY <2>2, <2>3 DEF SeatInv, ReservationsOwned
      <3>2. ASSUME NEW q \in Portal, Holding(q)', req'[q].row = k
            PROVE  req'[q].pc = "fail"
        <4>1. q = r
          BY <2>2, <3>1, <3>2 DEF Holding
        <4> QED
          BY <2>1, <3>2, <4>1 DEF Holding
      <3> QED
        BY <2>2, <3>1, <3>2 DEF Abandoned
    <2> QED
      BY <1>3, <2>3, <2>4, <2>5
  <1> QED
    BY <1>1, <1>2

\* The access a command gives when it is executed now.
Gives(cmd, d) ==
    /\ cmd.op = "AUTHORIZE" /\ cmd.dev = d /\ grant'[d].by = cmd.row
    /\ EarlyEnd(cmd) <= grant'[d].until /\ grant'[d].until <= LateEnd(cmd)

\* How the access of a device changes.
LEMMA GrantComes ==
    ASSUME SeatInv, Past, Matching, LateVouched, [Next]_vars,
           NEW d \in Devices, grant'[d] # grant[d], grant'[d].until # 0
    PROVE  \E cmd \in Command :
              /\ Gives(cmd, d)
              /\ \/ cmd \in late /\ UNCHANGED <<now, auths, req, adm, recon>>
                 \/ \E r \in Portal : Authorize(r) /\ cmd = Authorization(req[r])
  <1> USE DEF SeatInv
  <1>0. /\ grant \in [Devices -> Grants] /\ now \in Nat /\ late \subseteq Command
        /\ MaxDelay \in Nat /\ Forever \in Nat /\ Minute \in Nat
    BY ControllerAssumption DEF WellFormed, TypeOK, ControllerTypeOK
  <1>1. ASSUME NEW c \in Command, Execute(c)
        PROVE  d = c.dev /\ c.op = "AUTHORIZE" /\ grant'[d] = [until |-> GrantEnd(c), by |-> c.row]
    <2>1. grant' = [grant EXCEPT ![c.dev] = GrantOf(c)] /\ c.dev \in Devices
      BY <1>1 DEF Execute, Command
    <2>2. d = c.dev /\ grant'[d] = GrantOf(c)
      BY <1>0, <2>1
    <2>3. c.op # "UNAUTHORIZE"
      BY <2>2 DEF GrantOf, NoAccess
    <2> QED
      BY <2>2, <2>3 DEF GrantOf, Command
  <1>2. ASSUME NEW c \in Command, Execute(c), c.sent <= now, now <= c.sent + MaxDelay
        PROVE  Gives(c, d)
    <2>1. PICK p : p = c.minutes * Minute
      OBVIOUS
    <2>2. grant'[d].by = c.row /\ grant'[d].until = GrantEnd(c) /\ d = c.dev /\ c.op = "AUTHORIZE"
      <3>1. /\ d = c.dev /\ c.op = "AUTHORIZE"
            /\ grant'[d] = [until |-> GrantEnd(c), by |-> c.row]
        BY <1>1, <1>2
      <3> QED
        BY <3>1
    <2>3. c.minutes \in Nat /\ c.sent \in Nat /\ p \in Nat
      BY <1>0, <2>1 DEF Command
    <2>4. /\ GrantEnd(c) = IF c.minutes = Forever THEN Forever ELSE now + p
          /\ EarlyEnd(c) = IF c.minutes = Forever THEN Forever ELSE c.sent + p
          /\ LateEnd(c) = IF c.minutes = Forever THEN Forever ELSE c.sent + MaxDelay + p
      BY <2>1 DEF GrantEnd, EarlyEnd, LateEnd
    <2>5. EarlyEnd(c) <= GrantEnd(c) /\ GrantEnd(c) <= LateEnd(c)
      BY <1>0, <1>2, <2>3, <2>4
    <2> QED
      BY <2>2, <2>5 DEF Gives
  <1>3. ASSUME NEW i \in DOMAIN auths, NEW c, c = UnauthorizeCmd(auths[i].dev),
               (\E ok \in BOOLEAN : Call(c, ok)) \/ Outlive(c)
        PROVE  FALSE
    <2>1. auths[i].dev \in Devices
      BY RowFields
    <2>2. c \in Command /\ c.op = "UNAUTHORIZE"
      BY <1>0, <1>3, <2>1 DEF UnauthorizeCmd, Command
    <2>3. ~Execute(c)
      BY <1>1, <2>2
    <2> QED
      BY <1>3, <2>3 DEF Call, Outlive, controllerVars
  <1>4. ~UNCHANGED controllerVars
    BY DEF controllerVars
  <1>5. ASSUME NEW r \in Portal, Authorize(r) \/ (req[r].pc = "authorize" /\ GiveUpSent(r)),
               NEW c, c = Authorization(req[r])
        PROVE  Authorize(r) /\ c \in Command /\ Gives(c, d)
    <2>1. Holding(r) /\ Authorize(r) /\ Execute(c)
      BY <1>5, AuthorizeFacts
    <2>2. c \in Command /\ c.sent = now
      BY <1>5, <2>1, EndsInTime
    <2> QED
      BY <1>0, <1>2, <2>1, <2>2
  <1>6. ASSUME Late
        PROVE  \E cmd \in late : /\ cmd \in Command /\ Gives(cmd, d)
                                 /\ UNCHANGED <<now, auths, req, adm, recon>>
    <2>1. PICK cmd \in late : Deliver(cmd) \/ Lose(cmd)
      BY <1>6 DEF Late
    <2>2. Execute(cmd) /\ now <= cmd.sent + MaxDelay /\ cmd \in Command
      BY <1>0, <2>1 DEF Deliver, Lose
    <2>3. cmd.sent <= now
      BY <1>1, <2>2 DEF LateVouched
    <2> QED
      BY <1>2, <1>6, <2>2, <2>3 DEF Late, dbVars
  <1> QED
    BY <1>3, <1>4, <1>5, <1>6, CallsMade

LEMMA GrantsVouchedStep ==
    ASSUME Prompt, SeatInv, VouchInv, TargetsGranted', ClearingGranted', [Next]_vars
    PROVE  GrantsVouched'
  <1> USE DEF VouchInv
  <1> SUFFICES ASSUME NEW d \in Devices, grant'[d].until > now'
               PROVE  Vouches(d)'
    BY DEF GrantsVouched, Online
  <1>0. /\ now \in Nat /\ now' \in Nat /\ now <= now'
        /\ grant[d] \in Grants /\ grant'[d] \in Grants
    BY TimePasses, NextWellFormed DEF SeatInv, WellFormed, TypeOK, ControllerTypeOK
  <1>1. \A i : Clearing(i)' => Granted(i)'
    BY DEF Clearing, TargetsGranted, ReplacedGranted, RevokedGranted, ClearingGranted
  <1>2. grant'[d].until # 0 /\ grant'[d].until \in Nat
    BY <1>0 DEF Grants
  <1>3. CASE grant'[d] = grant[d]
    <2>1. PICK i, u : i = grant[d].by /\ u = grant[d].until
      OBVIOUS
    <2>2. Vouches(d)
      <3>1. u \in Nat /\ u > now
        BY <1>0, <1>2, <1>3, <2>1
      <3> QED
        BY <2>1, <3>1 DEF GrantsVouched, Online
    <2>3. Allows(i, d, u, u) /\ StillCounts(i)
      BY <2>1, <2>2 DEF Vouches
    <2>4. i \in DOMAIN auths /\ auths[i].dev = d
      BY <2>3 DEF Allows
    <2>5. grant'[d] # NoAccess
      BY <1>2 DEF NoAccess
    <2>6. StillCounts(i)'
      BY <2>3, <2>4, <2>5, StillCountsStays
    <2>7. Allows(i, d, u, u)'
      BY <2>3, AllowsStays, NextForward
    <2> QED
      BY <1>3, <2>1, <2>6, <2>7 DEF Vouches
  <1>4. CASE grant'[d] # grant[d]
    <2>1. PICK cmd \in Command :
             /\ Gives(cmd, d)
             /\ \/ cmd \in late /\ UNCHANGED <<now, auths, req, adm, recon>>
                \/ \E r \in Portal : Authorize(r) /\ cmd = Authorization(req[r])
      BY <1>2, <1>4, GrantComes
    <2>2. PICK i, u, early, end :
             i = cmd.row /\ u = grant'[d].until /\ early = EarlyEnd(cmd) /\ end = LateEnd(cmd)
      OBVIOUS
    <2>3. /\ cmd.op = "AUTHORIZE" /\ cmd.dev = d /\ grant'[d].by = i
          /\ early <= u /\ u <= end /\ early \in Nat /\ end \in Nat /\ u \in Nat
      BY <1>2, <2>1, <2>2, CommandEnds DEF Gives
    <2>4. /\ auths' = auths /\ Allows(i, d, early, end)
          /\ auths[i].status \in {"PENDING", "FAILED"}
      <3>1. CASE cmd \in late /\ UNCHANGED <<now, auths, req, adm, recon>>
        BY <2>2, <2>3, <3>1 DEF LateVouched, AllowsCommand, Abandoned
      <3>2. ASSUME NEW r \in Portal, Authorize(r), cmd = Authorization(req[r])
            PROVE  /\ auths' = auths /\ Allows(i, d, early, end)
                   /\ auths[i].status \in {"PENDING", "FAILED"}
        <4>1. Holding(r) /\ auths' = auths
          BY <3>2, AuthorizeFacts
        <4>2. AllowsCommand(cmd) /\ i = req[r].row
          BY <2>2, <3>2, <4>1, EndsInTime
        <4>3. auths[i].status = "PENDING"
          BY <4>1, <4>2 DEF SeatInv, ReservationsOwned
        <4> QED
          BY <2>2, <2>3, <4>1, <4>2, <4>3 DEF AllowsCommand
      <3> QED
        BY <2>1, <3>1, <3>2
    <2>5. i \in DOMAIN auths /\ auths[i].expires \in Nat /\ LatestEnd(i) \in Nat
      BY <2>4, RowFields, LatestEndType DEF Allows, SeatInv
    <2>6. Allows(i, d, u, u)
      <3>1. /\ auths[i].dev = d /\ auths[i].expires <= early /\ end <= LatestEnd(i)
        BY <2>4 DEF Allows
      <3>2. auths[i].expires <= u /\ u <= LatestEnd(i)
        BY <2>3, <2>5, <3>1
      <3> QED
        BY <2>5, <3>1, <3>2 DEF Allows
    <2>7. Allows(i, d, u, u)'
      BY <2>6, AllowsStays, NextForward
    <2>8. StillCounts(i)'
      <3>1. ~Clearing(i)'
        BY <1>1, <2>4 DEF Granted
      <3> QED
        BY <2>4, <3>1 DEF StillCounts
    <2> QED
      BY <2>2, <2>3, <2>7, <2>8 DEF Vouches
  <1> QED
    BY <1>3, <1>4

-----------------------------------------------------------------------------
(* The theorems *)

LEMMA InitVouchInv == Init => VouchInv
  <1> SUFFICES ASSUME Init
               PROVE  VouchInv
    OBVIOUS
  <1>1. \A r \in Portal : req[r] = NoRequest
    BY DEF Init
  <1>2. Past /\ Matching
    BY <1>1 DEF Past, Matching, NoRequest, Holding
  <1>3. ClearingGranted
    BY DEF Init, ClearingGranted, NoRevocation, NoSweep
  <1>4. GrantsVouched /\ LateVouched
    BY ControllerAssumption
    DEF Init, ControllerInit, NoAccess, GrantsVouched, LateVouched, Online
  <1> QED
    BY <1>2, <1>3, <1>4 DEF VouchInv

LEMMA NextVouchInv ==
    ASSUME Prompt, SeatInv, VouchInv, [Next]_vars
    PROVE  VouchInv'
  <1>1. Past' /\ Matching' /\ ClearingGranted' /\ LateVouched'
    BY SeatInvRows, PastStep, MatchingStep, ClearingGrantedStep, LateVouchedStep DEF VouchInv
  <1>2. TargetsGranted'
    BY NextSeatInv DEF SeatInv
  <1> QED
    BY <1>1, <1>2, GrantsVouchedStep DEF VouchInv

LEMMA VouchInvHolds ==
    ASSUME Prompt
    PROVE  Spec => []VouchInv
  BY InitVouchInv, NextVouchInv, SeatInvHolds, PTL DEF Spec

\* A device is online only on the authorization of a row of its own that is not
\* revoked, or of an expired staff row whose access is about to end, however
\* handlers, the reconciler, late commands and restarts interleave.
THEOREM OnlineAreAccounted ==
    ASSUME Prompt
    PROVE  Spec => []OnlineIsAccounted
  <1>1. SeatInv /\ VouchInv => OnlineIsAccounted
    BY DEF VouchInv, GrantsVouched, Vouches, Allows, StillCounts, OnlineIsAccounted
  <1> QED
    BY <1>1, SeatInvHolds, VouchInvHolds, PTL

\* Every access ends by itself, even if the gateway never comes back: not before
\* the row it was asked for, and later by at most ReservationTTL, the delay of a
\* late command and the minute a coupon's time is rounded up to.
THEOREM AccessIsLimited ==
    ASSUME Prompt
    PROVE  Spec => []AccessEnds
  <1>1. VouchInv => AccessEnds
    BY DEF VouchInv, GrantsVouched, Vouches, Allows, AccessEnds
  <1> QED
    BY <1>1, VouchInvHolds, PTL
=============================================================================
