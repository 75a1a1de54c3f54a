------------------------------- MODULE Access -------------------------------
(***************************************************************************)
(* Who may be online: the handlers that redeem a coupon (access.rs,        *)
(* redeem_coupon), authorize a staff device (authorize_staff), revoke an   *)
(* authorization or a coupon (revoke.rs), and the background reconciler    *)
(* (main.rs), over one SQLite database and one UniFi controller.           *)
(*                                                                         *)
(* Every await is a point where other handlers run.  A database statement  *)
(* or transaction without a network call inside it is one step.  The       *)
(* redeem transaction has one: it reads, asks the controller for the       *)
(* client (resolve_mac) and only then writes.  Under SQLite's rollback     *)
(* journal its read lock makes every other commit wait or fail, so a       *)
(* commit is guarded by DbFree.                                            *)
(***************************************************************************)
EXTENDS DeviceTable

CONSTANTS
    Portal,         \* slots of concurrently running portal requests
    Admins,         \* slots of concurrently running revoke requests
    ReservationTTL, \* age after which a PENDING row is failed (120 s)
    MaxRows,        \* bound: rows the table may hold
    MaxRevokes,     \* bound: coupon revocations run to their audit record
    Prompt,         \* a request ends within ReservationTTL of its start
    SerialStaff     \* a user has at most one request running

ASSUME AccessAssumption ==
    /\ ReservationTTL \in Nat /\ MaxRows \in Nat /\ MaxRevokes \in Nat
    /\ Prompt \in BOOLEAN /\ SerialStaff \in BOOLEAN

VARIABLES
    auths,      \* table device_authorizations
    revoked,    \* coupons with revoked_at set
    audit,      \* number of audit_events by event_type
    req,        \* portal requests
    adm,        \* revoke requests
    recon       \* the reconciler task

dbVars == <<auths, revoked, audit>>
vars == <<now, grant, late, auths, revoked, audit, req, adm, recon>>

-----------------------------------------------------------------------------
Events == {"COUPON_REDEEMED", "STAFF_DEVICE_AUTHORIZED", "DEVICE_LIMIT_REPLACED",
           "AUTHORIZATION_REVOKED", "COUPON_REVOKED"}

\* The awaits of redeem_coupon and authorize_staff.  "reading" is resolve_mac
\* inside the open transaction, "resolving" the one before it.  at is the time
\* read at the start, stamp the one finalize reads.
Request == [pc : {"idle", "reading", "resolving", "replace", "retire",
                  "authorize", "finalize", "fail"},
            owner : Owners \cup {None}, dev : Devices \cup {None},
            at : Nat, row : Nat, old : Nat, stamp : Nat]

NoRequest == [pc |-> "idle", owner |-> None, dev |-> None,
              at |-> 0, row |-> 0, old |-> 0, stamp |-> 0]

\* The awaits of revoke::authorization ("unauthorize", "revoke") and of
\* revoke::coupon ("select", "loop", "mark"); "replied" has sent its redirect.
Revocation == [pc : {"idle", "unauthorize", "revoke", "select", "loop", "mark",
                     "replied"},
               coupon : Coupons \cup {None}, queue : SUBSET Nat, row : Nat,
               failed : BOOLEAN]

NoRevocation == [pc |-> "idle", coupon |-> None, queue |-> {}, row |-> 0,
                 failed |-> FALSE]

Sweep == [pc : {"sleep", "select", "loop", "mark"}, at : Nat,
          queue : SUBSET Nat, row : Nat]

NoSweep == [pc |-> "sleep", at |-> 0, queue |-> {}, row |-> 0]

\* Type invariant.
TypeOK ==
    /\ ControllerTypeOK
    /\ auths \in Seq(Row)
    /\ revoked \in SUBSET Coupons
    /\ audit \in [Events -> Nat]
    /\ req \in [Portal -> Request]
    /\ adm \in [Admins -> Revocation]
    /\ recon \in Sweep

Init ==
    /\ ControllerInit
    /\ auths = <<>>
    /\ revoked = {}
    /\ audit = [e \in Events |-> 0]
    /\ req = [r \in Portal |-> NoRequest]
    /\ adm = [a \in Admins |-> NoRevocation]
    /\ recon = NoSweep

-----------------------------------------------------------------------------
(* Shared pieces *)

\* Mutant: commits do not wait for the readers of an open transaction.
DbFreeAlways(me) == TRUE

\* No open redeem transaction but the committer's own holds its read lock.
DbFree(me) == \A r \in Portal \ me : req[r].pc # "reading"

Audit(e) == audit' = [audit EXCEPT ![e] = @ + 1]

Goto(r, pc) == req' = [req EXCEPT ![r].pc = pc]

\* The request ends: its reply is sent or its future dropped.
End(r) == req' = [req EXCEPT ![r] = NoRequest]

AdmGoto(a, pc) == adm' = [adm EXCEPT ![a].pc = pc]

-----------------------------------------------------------------------------
(* redeem_coupon *)

\* Up to resolve_mac.  A coupon unknown, expired, revoked or full, or a device
\* that already has access, is answered at once and leaves no trace.
RedeemRead(r, c, d) ==
    /\ req[r].pc = "idle"
    /\ CouponExpiry[c] > now
    /\ c \notin revoked
    /\ ~ActiveOn(auths, c, d, now)
    /\ ~CouponFull(auths, c, now)
    /\ req' = [req EXCEPT ![r] = [pc |-> "reading", owner |-> c, dev |-> d,
                                  at |-> now, row |-> 0, old |-> 0, stamp |-> 0]]
    /\ UNCHANGED <<now, grant, late, dbVars, adm, recon>>

\* resolve_mac answered: INSERT and COMMIT.
RedeemReserve(r) ==
    /\ req[r].pc = "reading"
    /\ DbFree({r})
    /\ Len(auths) < MaxRows
    /\ ~IndexTaken(auths, req[r].owner, req[r].dev)
    /\ auths' = Append(auths, NewRow(req[r].owner, req[r].dev,
                                     CouponExpiry[req[r].owner], req[r].at))
    /\ req' = [req EXCEPT ![r].pc = "authorize", ![r].row = Len(auths) + 1]
    /\ UNCHANGED <<now, grant, late, revoked, audit, adm, recon>>

-----------------------------------------------------------------------------
(* authorize_staff *)

StaffStart(r, u, d) ==
    /\ req[r].pc = "idle"
    /\ SerialStaff => \A q \in Portal : req[q].owner # u
    /\ req' = [req EXCEPT ![r] = [pc |-> "resolving", owner |-> u, dev |-> d,
                                  at |-> now, row |-> 0, old |-> 0, stamp |-> 0]]
    /\ UNCHANGED <<now, grant, late, dbVars, adm, recon>>

\* Mutant: the device to make room for is not looked up.
VictimsNone(t, u, at) == {0}

\* The row to replace, 0 for none.  A full user whose rows are all PENDING has
\* none, and the reservation goes ahead.
Victims(t, u, at) ==
    IF StaffFull(t, u, at) /\ OldestActive(t, u) # {} THEN OldestActive(t, u) ELSE {0}

\* The whole transaction: retire the user's expired rows, refuse a device that
\* already has access (which rolls the retirement back: GiveUp), pick the
\* oldest device if the user is at the limit, INSERT, COMMIT.
StaffReserve(r) ==
    LET u  == req[r].owner
        at == req[r].at
        t  == SetStatus(auths, ActiveIds(auths, u) \cap ExpiredIds(auths, at), "REVOKED")
    IN  /\ req[r].pc = "resolving"
        /\ DbFree({r})
        /\ Len(auths) < MaxRows
        /\ ~ActiveOn(t, u, req[r].dev, at)
        /\ ~IndexTaken(t, u, req[r].dev)
        /\ \E old \in Victims(t, u, at) :
              req' = [req EXCEPT ![r].pc = IF old = 0 THEN "authorize" ELSE "replace",
                                 ![r].row = Len(auths) + 1, ![r].old = old]
        /\ auths' = Append(t, NewRow(u, req[r].dev, at + StaffMinutes * Minute, at))
        /\ UNCHANGED <<now, grant, late, revoked, audit, adm, recon>>

\* Mutant: the old device is retired whether or not it went offline.
StaffReplaceIgnored(r) ==
    /\ req[r].pc = "replace"
    /\ \E ok \in BOOLEAN : Call(UnauthorizeCmd(auths[req[r].old].dev), ok)
    /\ Goto(r, "retire")
    /\ UNCHANGED <<now, dbVars, adm, recon>>

\* unauthorize(old): on failure the new reservation is failed.
StaffReplace(r) ==
    /\ req[r].pc = "replace"
    /\ \E ok \in BOOLEAN :
          /\ Call(UnauthorizeCmd(auths[req[r].old].dev), ok)
          /\ Goto(r, IF ok THEN "retire" ELSE "fail")
    /\ UNCHANGED <<now, dbVars, adm, recon>>

StaffRetire(r) ==
    /\ req[r].pc = "retire"
    /\ DbFree({r})
    /\ auths' = SetStatus(auths, {req[r].old}, "REVOKED")
    /\ Audit("DEVICE_LIMIT_REPLACED")
    /\ Goto(r, "authorize")
    /\ UNCHANGED <<now, grant, late, revoked, adm, recon>>

-----------------------------------------------------------------------------
(* Both: authorize, finalize, fail *)

\* Mutant: a minute too many where the time divides into minutes.
WholeMinutesOver(time) == (time + Minute) \div Minute

\* Rounded up, and at least one.
WholeMinutes(time) ==
    LET up == (time + Minute - 1) \div Minute IN IF up > 1 THEN up ELSE 1

\* Mutant: an authorization that is not cut to the time the coupon has left.
MinutesUncut(q) == Forever

\* The minutes argument of authorize: the rest of the coupon's time when the
\* request started, in whole minutes, or no limit; the staff session length.
Minutes(q) ==
    IF q.owner \in Users THEN StaffMinutes
    ELSE IF CouponExpiry[q.owner] = Forever THEN Forever
    ELSE WholeMinutes(CouponExpiry[q.owner] - q.at)

\* The command a request sends for its row.
Authorization(q) == AuthorizeCmd(q.dev, Minutes(q), q.row)

\* Mutant: a call that failed counts as granted.
AuthorizeIgnored(r) ==
    /\ req[r].pc = "authorize"
    /\ \E ok \in BOOLEAN : Call(Authorization(req[r]), ok)
    /\ req' = [req EXCEPT ![r].pc = "finalize", ![r].stamp = now]
    /\ UNCHANGED <<now, dbVars, adm, recon>>

\* finalize reads the time as soon as the controller has answered.
Authorize(r) ==
    /\ req[r].pc = "authorize"
    /\ \E ok \in BOOLEAN :
          /\ Call(Authorization(req[r]), ok)
          /\ req' = [req EXCEPT ![r].pc = IF ok THEN "finalize" ELSE "fail",
                                ![r].stamp = IF ok THEN now ELSE 0]
    /\ UNCHANGED <<now, dbVars, adm, recon>>

RedeemedEvent(o) ==
    IF o \in Coupons THEN "COUPON_REDEEMED" ELSE "STAFF_DEVICE_AUTHORIZED"

\* Mutant: the audit record is written outside the transaction and gets lost.
FinalizeUnaudited(r) ==
    /\ req[r].pc = "finalize"
    /\ DbFree({r})
    /\ auths' = [auths EXCEPT ![req[r].row].status = "ACTIVE",
                              ![req[r].row].authorizedAt = req[r].stamp]
    /\ End(r)
    /\ UNCHANGED <<now, grant, late, revoked, audit, adm, recon>>

\* UPDATE ... SET status='ACTIVE' WHERE id, whatever the status is, with the
\* time read before the transaction began, and its audit record.  The unique
\* index still applies: the update fails if a row that was failed meanwhile has
\* been superseded by another reservation.
Finalize(r) ==
    /\ req[r].pc = "finalize"
    /\ DbFree({r})
    /\ \/ Occupies(auths[req[r].row])
       \/ ~IndexTaken(auths, req[r].owner, req[r].dev)
    /\ auths' = [auths EXCEPT ![req[r].row].status = "ACTIVE",
                              ![req[r].row].authorizedAt = req[r].stamp]
    /\ Audit(RedeemedEvent(req[r].owner))
    /\ End(r)
    /\ UNCHANGED <<now, grant, late, revoked, adm, recon>>

Fail(r) ==
    /\ req[r].pc = "fail"
    /\ DbFree({r})
    /\ auths' = SetStatus(auths, {req[r].row}, "FAILED")
    /\ End(r)
    /\ UNCHANGED <<now, grant, late, revoked, audit, adm, recon>>

\* The request ends and leaves everything else as it is.  Until its commit:
\* resolve_mac failed, the row exists already, the database was busy; after
\* it: a database error in "retire" or "finalize", or the ignored one in
\* "fail"; anywhere: the guest's connection closed and the handler's future
\* was dropped, which rolls an open transaction back.
GiveUp(r) ==
    /\ req[r].pc # "idle"
    /\ End(r)
    /\ UNCHANGED <<now, grant, late, dbVars, adm, recon>>

\* The same, with a controller command already sent.
GiveUpSent(r) ==
    /\ \/ req[r].pc = "authorize" /\ Outlive(Authorization(req[r]))
       \/ req[r].pc = "replace" /\ Outlive(UnauthorizeCmd(auths[req[r].old].dev))
    /\ End(r)
    /\ UNCHANGED <<now, dbVars, adm, recon>>

-----------------------------------------------------------------------------
(* revoke::authorization *)

RevokeSelect(a, i) ==
    /\ adm[a].pc = "idle"
    /\ auths[i].status = "ACTIVE"
    /\ adm' = [adm EXCEPT ![a].pc = "unauthorize", ![a].row = i]
    /\ UNCHANGED <<now, grant, late, dbVars, req, recon>>

\* "UniFi revoke failed; authorization remains active".
RevokeUnauthorize(a) ==
    /\ adm[a].pc = "unauthorize"
    /\ \E ok \in BOOLEAN :
          /\ Call(UnauthorizeCmd(auths[adm[a].row].dev), ok)
          /\ adm' = [adm EXCEPT ![a] = IF ok THEN [@ EXCEPT !.pc = "revoke"]
                                       ELSE NoRevocation]
    /\ UNCHANGED <<now, dbVars, req, recon>>

\* UPDATE ... WHERE status='ACTIVE' with its audit record, which is written
\* even if another handler has revoked the row meanwhile.
RevokeCommit(a) ==
    /\ adm[a].pc = "revoke"
    /\ DbFree({})
    /\ auths' = IF auths[adm[a].row].status = "ACTIVE"
                THEN SetStatus(auths, {adm[a].row}, "REVOKED") ELSE auths
    /\ Audit("AUTHORIZATION_REVOKED")
    /\ AdmGoto(a, "replied")
    /\ UNCHANGED <<now, grant, late, revoked, req, recon>>

-----------------------------------------------------------------------------
(* revoke::coupon *)

\* UPDATE coupons SET revoked_at=COALESCE(revoked_at, now), on its own.
CouponRevoke(a, c) ==
    /\ adm[a].pc = "idle"
    /\ audit["COUPON_REVOKED"] < MaxRevokes
    /\ DbFree({})
    /\ revoked' = revoked \cup {c}
    /\ adm' = [adm EXCEPT ![a].pc = "select", ![a].coupon = c]
    /\ UNCHANGED <<now, grant, late, auths, audit, req, recon>>

CouponSelect(a) ==
    /\ adm[a].pc = "select"
    /\ adm' = [adm EXCEPT ![a].pc = "loop", ![a].queue = ActiveIds(auths, adm[a].coupon)]
    /\ UNCHANGED <<now, grant, late, dbVars, req, recon>>

CouponUnauthorize(a, i) ==
    /\ adm[a].pc = "loop"
    /\ i \in adm[a].queue
    /\ \E ok \in BOOLEAN :
          /\ Call(UnauthorizeCmd(auths[i].dev), ok)
          /\ adm' = [adm EXCEPT ![a].queue = @ \ {i},
                                ![a].pc = IF ok THEN "mark" ELSE "loop",
                                ![a].row = IF ok THEN i ELSE 0,
                                ![a].failed = @ \/ ~ok]
    /\ UNCHANGED <<now, dbVars, req, recon>>

\* UPDATE ... SET status='REVOKED' WHERE id, on its own.
CouponMark(a) ==
    /\ adm[a].pc = "mark"
    /\ DbFree({})
    /\ auths' = SetStatus(auths, {adm[a].row}, "REVOKED")
    /\ adm' = [adm EXCEPT ![a].pc = "loop", ![a].row = 0]
    /\ UNCHANGED <<now, grant, late, revoked, audit, req, recon>>

\* The audit record, and the reply: a redirect if nothing failed.
CouponAudit(a) ==
    /\ adm[a].pc = "loop"
    /\ adm[a].queue = {}
    /\ DbFree({})
    /\ Audit("COUPON_REVOKED")
    /\ adm' = [adm EXCEPT ![a] = IF adm[a].failed THEN NoRevocation
                                 ELSE [@ EXCEPT !.pc = "replied"]]
    /\ UNCHANGED <<now, grant, late, auths, revoked, req, recon>>

\* The handler ends: settings unreadable, a database error, the connection
\* closed, or its redirect received.
RevokeEnd(a) ==
    /\ adm[a].pc # "idle"
    /\ adm' = [adm EXCEPT ![a] = NoRevocation]
    /\ UNCHANGED <<now, grant, late, dbVars, req, recon>>

\* The connection closed with the unauthorize command sent.
RevokeEndSent(a) ==
    /\ \/ adm[a].pc = "unauthorize" /\ Outlive(UnauthorizeCmd(auths[adm[a].row].dev))
       \/ /\ adm[a].pc = "loop"
          /\ \E i \in adm[a].queue : Outlive(UnauthorizeCmd(auths[i].dev))
    /\ adm' = [adm EXCEPT ![a] = NoRevocation]
    /\ UNCHANGED <<now, dbVars, req, recon>>

-----------------------------------------------------------------------------
(* reconcile *)

\* Mutants: a reservation is failed one tick early, or while it is young; every
\* old row is.
OverdueEarly(row, at) == row.status = "PENDING" /\ row.created + ReservationTTL <= at

OverdueSwapped(row, at) == row.status = "PENDING" /\ row.created > at + ReservationTTL

OverdueAnyStatus(row, at) == row.created + ReservationTTL < at

Overdue(row, at) == row.status = "PENDING" /\ row.created + ReservationTTL < at

\* The tick: fail the reservations nobody finished.
ReconTimeout ==
    /\ recon.pc = "sleep"
    /\ DbFree({})
    /\ auths' = SetStatus(auths, {i \in DOMAIN auths : Overdue(auths[i], now)}, "FAILED")
    /\ recon' = [recon EXCEPT !.pc = "select", !.at = now]
    /\ UNCHANGED <<now, grant, late, revoked, audit, req, adm>>

\* The same statement failing, which is only logged.
ReconTimeoutError ==
    /\ recon.pc = "sleep"
    /\ recon' = [recon EXCEPT !.pc = "select", !.at = now]
    /\ UNCHANGED <<now, grant, late, dbVars, req, adm>>

ReconSelect ==
    /\ recon.pc = "select"
    /\ recon' = [recon EXCEPT !.pc = "loop", !.queue = ExpiredIds(auths, recon.at)]
    /\ UNCHANGED <<now, grant, late, dbVars, req, adm>>

\* Mutant: the row stays ACTIVE although the device was disconnected.
ReconUnauthorizeUnmarked(i) ==
    /\ recon.pc = "loop"
    /\ i \in recon.queue
    /\ \E ok \in BOOLEAN : Call(UnauthorizeCmd(auths[i].dev), ok)
    /\ recon' = [recon EXCEPT !.queue = @ \ {i}]
    /\ UNCHANGED <<now, dbVars, req, adm>>

ReconUnauthorize(i) ==
    /\ recon.pc = "loop"
    /\ i \in recon.queue
    /\ \E ok \in BOOLEAN :
          /\ Call(UnauthorizeCmd(auths[i].dev), ok)
          /\ recon' = [recon EXCEPT !.queue = @ \ {i},
                                    !.pc = IF ok THEN "mark" ELSE "loop",
                                    !.row = IF ok THEN i ELSE 0]
    /\ UNCHANGED <<now, dbVars, req, adm>>

\* UPDATE ... WHERE id AND status='ACTIVE'.
ReconMark ==
    /\ recon.pc = "mark"
    /\ DbFree({})
    /\ auths' = IF auths[recon.row].status = "ACTIVE"
                THEN SetStatus(auths, {recon.row}, "REVOKED") ELSE auths
    /\ recon' = [recon EXCEPT !.pc = "loop", !.row = 0]
    /\ UNCHANGED <<now, grant, late, revoked, audit, req, adm>>

ReconMarkError ==
    /\ recon.pc = "mark"
    /\ recon' = [recon EXCEPT !.pc = "loop", !.row = 0]
    /\ UNCHANGED <<now, grant, late, dbVars, req, adm>>

\* Nothing left to unauthorize, or the settings or rows could not be read.
ReconSleep ==
    /\ \/ recon.pc = "select"
       \/ recon.pc = "loop" /\ recon.queue = {}
    /\ recon' = NoSweep
    /\ UNCHANGED <<now, grant, late, dbVars, req, adm>>

-----------------------------------------------------------------------------
(* The world *)

\* The process ends and starts again; the database and the controller stay.
Restart ==
    /\ req' = [r \in Portal |-> NoRequest]
    /\ adm' = [a \in Admins |-> NoRevocation]
    /\ recon' = NoSweep
    /\ UNCHANGED <<now, grant, late, dbVars>>

Late ==
    /\ \E cmd \in late : Deliver(cmd) \/ Lose(cmd)
    /\ UNCHANGED <<now, dbVars, req, adm, recon>>

Tick ==
    /\ now < MaxTime
    /\ Prompt => \A r \in Portal : req[r].pc # "idle" => now < req[r].at + ReservationTTL
    /\ now' = now + 1
    /\ UNCHANGED <<grant, late, dbVars, req, adm, recon>>

-----------------------------------------------------------------------------
PortalStep(r) ==
    \/ RedeemReserve(r)
    \/ StaffReserve(r) \/ StaffReplace(r) \/ StaffRetire(r)
    \/ Authorize(r) \/ Finalize(r) \/ Fail(r)
    \/ GiveUp(r) \/ GiveUpSent(r)

AdminStep(a) ==
    \/ RevokeUnauthorize(a) \/ RevokeCommit(a)
    \/ CouponSelect(a) \/ CouponMark(a) \/ CouponAudit(a)
    \/ \E i \in adm[a].queue : CouponUnauthorize(a, i)
    \/ RevokeEnd(a) \/ RevokeEndSent(a)

ReconStep ==
    \/ ReconTimeout \/ ReconTimeoutError \/ ReconSelect
    \/ \E i \in recon.queue : ReconUnauthorize(i)
    \/ ReconMark \/ ReconMarkError \/ ReconSleep

Arrive ==
    \/ \E r \in Portal, d \in Devices :
          \/ \E c \in Coupons : RedeemRead(r, c, d)
          \/ \E u \in Users : StaffStart(r, u, d)
    \/ \E a \in Admins :
          \/ \E i \in DOMAIN auths : RevokeSelect(a, i)
          \/ \E c \in Coupons : CouponRevoke(a, c)

Next ==
    \/ Arrive
    \/ \E r \in Portal : PortalStep(r)
    \/ \E a \in Admins : AdminStep(a)
    \/ ReconStep
    \/ Restart
    \/ Late
    \/ Tick

Spec == Init /\ [][Next]_vars

\* Handlers and the reconciler are scheduled, and time passes.  Calls bounded
\* by the client's timeouts end, but may fail any number of times; the
\* reconciler's next tick retries, and neither its statements nor its calls for
\* one device fail for ever.
Fairness ==
    /\ WF_vars(Tick)
    /\ \A r \in Portal : WF_vars(PortalStep(r))
    /\ \A a \in Admins : WF_vars(AdminStep(a))
    /\ WF_vars(ReconStep)
    /\ SF_vars(ReconTimeout)
    /\ SF_vars(ReconSelect)
    /\ \A i \in 1..MaxRows : SF_vars(ReconUnauthorize(i) /\ recon'.pc = "mark")
    /\ SF_vars(ReconMark)

FairSpec == Spec /\ Fairness

-----------------------------------------------------------------------------
(* What the handlers rely on between their awaits; the proofs in            *)
(* AccessProofs show that it holds, and is inductive.                       *)

\* The request has inserted its row and not yet settled it.
Holding(r) == req[r].pc \in {"replace", "retire", "authorize", "finalize", "fail"}

\* Rows that were ACTIVE once: they can only be ACTIVE or REVOKED.
Granted(i) == i \in DOMAIN auths /\ auths[i].status \in {"ACTIVE", "REVOKED"}

RequestsWellFormed ==
    \A r \in Portal :
        /\ req[r].pc # "idle" => req[r].owner \in Owners /\ req[r].dev \in Devices
        /\ req[r].pc = "reading" => req[r].owner \in Coupons
        /\ req[r].pc = "resolving" => req[r].owner \in Users
        /\ req[r].owner \in Coupons => req[r].at < CouponExpiry[req[r].owner]
        /\ Holding(r) => req[r].row \in DOMAIN auths
        /\ req[r].pc \in {"replace", "retire"} => req[r].old \in DOMAIN auths

RevocationsWellFormed ==
    \A a \in Admins :
        /\ adm[a].pc \in {"unauthorize", "revoke", "mark"} => adm[a].row \in DOMAIN auths
        /\ adm[a].queue \subseteq DOMAIN auths
        /\ adm[a].pc = "select" => adm[a].coupon \in Coupons

SweepWellFormed ==
    /\ recon.pc = "mark" => recon.row \in DOMAIN auths
    /\ recon.queue \subseteq DOMAIN auths

WellFormed ==
    TypeOK /\ RequestsWellFormed /\ RevocationsWellFormed /\ SweepWellFormed

\* A request in flight owns its reservation: nobody else settles it.
ReservationsOwned ==
    \A r \in Portal : Holding(r) =>
        /\ auths[req[r].row].status = "PENDING"
        /\ auths[req[r].row].owner = req[r].owner
        /\ auths[req[r].row].created = req[r].at
        /\ \A q \in Portal \ {r} : Holding(q) => req[q].row # req[r].row

\* What an UPDATE by id alone hits.
ReplacedGranted ==
    \A r \in Portal : req[r].pc \in {"replace", "retire"} => Granted(req[r].old)

RevokedGranted ==
    \A a \in Admins : /\ adm[a].pc = "mark" => Granted(adm[a].row)
                      /\ \A i \in adm[a].queue : Granted(i)

TargetsGranted == ReplacedGranted /\ RevokedGranted

\* No request outlives ReservationTTL.
Timely == \A r \in Portal : req[r].pc # "idle" => now <= req[r].at + ReservationTTL

\* Rows of a coupon expire with it.
ExpiryCopied ==
    \A i \in DOMAIN auths : auths[i].owner \in Coupons =>
        auths[i].expires = CouponExpiry[auths[i].owner]

HeldDevices(c) ==
    DevicesOf(auths, {i \in DOMAIN auths : auths[i].owner = c /\ Occupies(auths[i])})

\* However redemptions, revocations, the reconciler, abandoned requests and
\* restarts interleave, no more devices hold a coupon (reserved or active)
\* than its device_limit.
CouponWithinLimit ==
    \A c \in Coupons \ Unlimited : Cardinality(HeldDevices(c)) <= CouponLimit[c]

\* What a redemption read under its lock stays true until it commits.
ReadStillTrue ==
    \A r \in Portal : req[r].pc = "reading" =>
        /\ req[r].owner \notin revoked
        /\ req[r].owner \notin Unlimited =>
              Cardinality(HeldDevices(req[r].owner)) < CouponLimit[req[r].owner]

\* However long it takes, a request's reservation stays its own: it may be
\* failed under it, never granted or revoked.
ReservationsUnsettled ==
    \A r \in Portal : Holding(r) =>
        /\ auths[req[r].row].status \in {"PENDING", "FAILED"}
        /\ auths[req[r].row].owner = req[r].owner
        /\ \A q \in Portal \ {r} : Holding(q) => req[q].row # req[r].row

\* What needs no Prompt.
RowsInv ==
    /\ WellFormed /\ ReservationsUnsettled /\ TargetsGranted
    /\ ExpiryCopied /\ ReadStillTrue

SeatInv ==
    /\ WellFormed /\ ReservationsOwned /\ TargetsGranted /\ Timely
    /\ ExpiryCopied /\ ReadStillTrue /\ CouponWithinLimit

-----------------------------------------------------------------------------
(* Properties *)

\* Taken together the handlers implement SeatLedger, a device holding a seat
\* while its row is PENDING or ACTIVE: also, no seat is taken once a coupon's
\* revocation has committed, not even by a redemption that read it before.
Ledger == INSTANCE SeatLedger WITH seats  <- [c \in Coupons |-> HeldDevices(c)],
                                   closed <- revoked

ImplementsLedger == Ledger!Spec

\* A row only moves forward: PENDING to ACTIVE or FAILED, ACTIVE to REVOKED,
\* although finalize, fail, the replacement and the coupon loop update it by
\* id alone, long after they looked at it.
StatusMovesForward ==
    [][\A i \in DOMAIN auths :
          \/ auths'[i].status = auths[i].status
          \/ auths[i].status = "PENDING" /\ auths'[i].status \in {"ACTIVE", "FAILED"}
          \/ auths[i].status = "ACTIVE" /\ auths'[i].status = "REVOKED"]_vars

\* What is revoked stays revoked, even by a request that took so long that its
\* reservation was failed under it (finalize sets its row ACTIVE by id alone).
RevokedStays ==
    [][\A i \in DOMAIN auths :
          auths[i].status = "REVOKED" => auths'[i].status = "REVOKED"]_vars

\* A coupon's row is inserted only while the coupon is not revoked and has room.
RoomWhenReserved ==
    [][\A i \in DOMAIN auths' \ DOMAIN auths : auths'[i].owner \in Coupons =>
          /\ auths'[i].owner \notin revoked
          /\ auths'[i].owner \in Unlimited
             \/ Cardinality(HeldDevices(auths'[i].owner)) < CouponLimit[auths'[i].owner]]_vars

\* The device that goes offline to make room is the one authorized longest ago,
\* give or take the time a request may run, although the choice is two calls
\* old when it is carried out, and another request of the user may have read
\* the time it writes before that (README: "second staff device replaces oldest
\* device").
ReplacesNearlyOldest ==
    [][\A r \in Portal : req[r].pc = "retire" /\ req'[r].pc = "authorize" =>
          \A j \in ActiveIds(auths, req[r].owner) :
              auths[req[r].old].authorizedAt <= auths[j].authorizedAt + ReservationTTL]_vars

\* The latest end of an access asked for on behalf of row i: the request, and
\* then the controller, may take their time, and minutes are whole.
LatestEnd(i) ==
    auths[i].expires + ReservationTTL + MaxDelay
        + IF auths[i].owner \in Coupons THEN Minute - 1 ELSE 0

\* A device is online on the authorization of a row of its own which is not
\* revoked, wherever it was revoked from, or is an expired staff row
\* (authorize_staff retires those locally) whose access the controller is about
\* to end.  The row may be FAILED: its command was executed although its
\* request came to nothing, perhaps long after another row of the device was
\* revoked, and only the controller's limit ends what it gave.
OnlineIsAccounted ==
    \A d \in Devices : Online(d) =>
        LET i == grant[d].by
        IN  /\ i \in DOMAIN auths /\ auths[i].dev = d
            /\ \/ auths[i].status # "REVOKED"
               \/ /\ auths[i].owner \in Users /\ auths[i].expires <= now
                  /\ grant[d].until <= LatestEnd(i)

\* The controller ends every access by itself, not before the row it was asked
\* for expires, and at most LatestEnd: a gateway that never comes back leaves
\* nobody online for good, and cuts nobody's time short (redeem_coupon rounds
\* up).
AccessEnds ==
    \A d \in Devices : Online(d) =>
        LET i == grant[d].by
        IN  /\ i \in DOMAIN auths /\ auths[i].dev = d
            /\ auths[i].expires <= grant[d].until
            /\ grant[d].until <= LatestEnd(i)

\* Every row that ever became ACTIVE has its one audit record.
AuditCountsGrants ==
    /\ audit["COUPON_REDEEMED"] =
         Cardinality({i \in DOMAIN auths : /\ auths[i].owner \in Coupons
                                           /\ auths[i].status \in {"ACTIVE", "REVOKED"}})
    /\ audit["STAFF_DEVICE_AUTHORIZED"] =
         Cardinality({i \in DOMAIN auths : /\ auths[i].owner \in Users
                                           /\ auths[i].status \in {"ACTIVE", "REVOKED"}})

\* A user has at most device_limit devices with unexpired access: the oldest
\* is replaced (README: "second staff device replaces oldest device").
StaffWithinLimit ==
    \A u \in Users :
        Cardinality({i \in ActiveIds(auths, u) : auths[i].expires > now}) <= StaffLimit[u]

\* Once the revocation of a coupon has answered with its redirect, and until
\* the browser has it, no device has access through the coupon.
CouponRevokeDisconnects ==
    \A a \in Admins : adm[a].pc = "replied" /\ adm[a].coupon # None =>
        ActiveIds(auths, adm[a].coupon) = {}

\* Redeem transactions do not keep the database read-locked for ever.
QuietAtLast == <>[](\A r \in Portal : req[r].pc # "reading")

\* A reservation nobody finishes (its guest left, the process died, the
\* database failed in the last step) does not stay PENDING and keep its seat.
ReservationsSettle ==
    QuietAtLast => \A i \in 1..MaxRows :
        (i \in DOMAIN auths /\ auths[i].status = "PENDING"
                            /\ auths[i].created + ReservationTTL < MaxTime)
            ~> (i \in DOMAIN auths /\ auths[i].status # "PENDING")

\* A row whose time is over is revoked at last, however often the controller
\* fails and the process restarts.
ExpiredAreRevoked ==
    QuietAtLast => \A i \in 1..MaxRows :
        (i \in DOMAIN auths /\ auths[i].status = "ACTIVE" /\ auths[i].expires <= MaxTime)
            ~> (i \in DOMAIN auths /\ auths[i].status = "REVOKED")
=============================================================================
