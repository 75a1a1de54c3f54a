# A verification project for SenGateway

SenGateway is a captive portal for UniFi guest networks. A guest types a coupon
code, or a member of staff signs in with Google; the gateway asks the UniFi
controller to let the device through and keeps a row about it in SQLite.
Administrators issue and revoke coupons and disconnect devices; a background
task ends what has expired. This directory holds TLA+ models of that program,
TLC configurations that check them on small instances, and TLAPS proofs that
hold for every instance.

## 1. Inventory

The program is one process: axum handlers and one background task on a tokio
runtime, a pool of ten SQLite connections, and one HTTP client per use of the
controller. Handlers interact through the database, through a few shared cells
of `AppState` (`setup_done`, `attempts`) and through the controller; an `await`
is a point where any other handler may run.

| Part | Source | State | Operations | What is hard | What must hold |
|---|---|---|---|---|---|
| Coupon redemption | `src/access.rs` `redeem_coupon`, `finalize`, `fail` | rows of `device_authorizations` | read and check, resolve the client, reserve (PENDING), authorize, finalize (ACTIVE) or fail (FAILED) | a controller call inside an open transaction; a call that times out; a guest who leaves; updates by id alone | never more devices than the coupon's limit; no seat on a revoked coupon; rows only move forward |
| Staff authorization | `authorize_staff` | the same rows | retire expired rows, replace the oldest device, reserve, authorize | replacement is three steps over two systems; concurrent requests of one user | at most `device_limit` devices; a replaced device is offline |
| Revocation | `src/revoke.rs` | rows, `coupons.revoked_at` | `authorization`, `coupon` | races with redemptions and the reconciler; partial failure | a completed revocation stays completed |
| Reconciler | `main.rs` `reconcile` | rows | every 60 s: fail overdue reservations, unauthorize and revoke expired rows | crashes, unreachable controller, statements that fail | reservations settle; expired rows are revoked |
| UniFi client | `src/unifi.rs` | none (a time of last success) | `resolve_mac`, `authorize`, `unauthorize`, `sites`, certificate capture | timeouts, retries, 404/409 answers, pagination | an answer Ok means the device has, or has not, access |
| Portal and sessions | `src/portal.rs`, `main.rs`, tower-sessions | session rows | start, consume the portal context | read-modify-write over awaits | a context is used once |
| Login | `src/auth.rs` | `oauth_attempts`, sessions, `users.google_sub` | `start`, `callback`, `logout` | one-time state; binding of accounts; session cycling | an attempt is used once; one account per Google identity |
| Accounts and coupons | `src/manage.rs` | `users`, `coupon_templates`, `coupons` | `save_user`, `delete_user`, `issue`, templates, branding | concurrent administrators; roles cached in sessions | an approved administrator always remains |
| Setup | `main.rs` `setup_*`, `check_passcode` | `settings`, `setup_done`, `attempts` | verify, reset, save | flag and transaction out of step; reset under running handlers | nothing of the old installation survives a reset |
| Configuration | `src/config.rs` | secret files | `persistent_secret` | crash between create and write; two first starts | a secret, once read, never changes |
| Pure functions | `src/model.rs` | none | MAC, coupon code, validity | boundaries | normal forms are idempotent |
| Encryption, proxy gate, health, pages | `src/crypto.rs`, `main.rs`, `src/manage.rs`, `static/` | none | | sequential | |

`PROJECT.json` lists the same parts with what is modelled of each, and every
hazard of the code at its line.

## 2. What is modelled

    Controller      the UniFi controller and its client
      DeviceTable   rows of device_authorizations, queries, updates
        Access      the handlers and the reconciler
          MCCoupon, MCStaff, MCMixed, MCLive     instances for TLC
          AccessProofs, SeatProofs,
          FinalizeProofs, GrantProofs            theorems
    SeatLedger      what coupons promise (abstract)

    Accounts        logins, sessions, administration of users, setup and reset
      MCAccounts, AccountsProofs
    PortalSession   the portal context through sessions, logins and redemptions
      MCPortal, PortalProofs
    Setup           passcode limiter, check of the controller, saved settings
      MCSetup, SetupProofs
    SecretFile      a generated secret over many starts of the process
      MCSecret, SecretProofs
    SecretRegister  what that file promises (abstract)

**Controller** keeps `grant[d]`: `until`, the time at which the controller ends device
`d`'s access by itself, and the ghost `by`, the row whose authorization gave it (a command
carries that row's id, `row`, along for this); and `late`, commands whose sender has given up but which
may still be executed: the client's timeout is 10 s (`unifi.rs:77`), and a guest
who closes the connection drops the handler in the middle of its call. A `Call`
is executed and answered Ok, not executed and answered with an error, or answered
with an error and left in `late`. The 404/409 case of `unauthorize`
(`unifi.rs:255`) is Ok only if the device is found to have no access, so it is
the first of the three. The controller itself is outside the repository; those
definitions are marked external in `PROJECT.json`.

**DeviceTable** is the table as a sequence of rows. A row keeps owner (the coupon
or the user), device, status, `expires_at`, `created_at` and `authorized_at`;
reasons and messages are left out. The two COUNT queries, the EXISTS query, the
partial unique indices and the choice of the oldest device are operators, one
for each SQL statement.

**Access** has one action per stretch of code between two awaits that matter.
`req[r]` is a portal request, `adm[a]` a revoke request, `recon` the reconciler;
`pc` names the await at which each stands.

| Code | Actions |
|---|---|
| `redeem_coupon` up to `resolve_mac` | `RedeemRead` |
| its INSERT and COMMIT | `RedeemReserve` |
| `authorize_staff`: start, transaction, `unauthorize(old)`, second transaction | `StaffStart`, `StaffReserve`, `StaffReplace`, `StaffRetire` |
| `unifi.authorize`, `finalize`, `fail` | `Authorize`, `Finalize`, `Fail` |
| any error return, or the handler's future dropped | `GiveUp`, `GiveUpSent` |
| `revoke::authorization` | `RevokeSelect`, `RevokeUnauthorize`, `RevokeCommit` |
| `revoke::coupon` | `CouponRevoke`, `CouponSelect`, `CouponUnauthorize`, `CouponMark`, `CouponAudit` |
| an error or dropped future of either | `RevokeEnd`, `RevokeEndSent` |
| `reconcile` | `ReconTimeout`, `ReconSelect`, `ReconUnauthorize`, `ReconMark`, `ReconSleep`, and `...Error` for statements whose failure is logged |
| process, controller, clock | `Restart`, `Late`, `Tick` |

Requests answered from what they read (an unknown or full coupon, a device that
has access already) change nothing and have no action.

*The transaction of a redemption.* `begin_immediate` (`access.rs:150`) does not
begin an immediate transaction: it sets the busy timeout. The transaction is a
deferred one that reads, waits for `resolve_mac`, and writes. What keeps two
redemptions apart is SQLite's rollback journal (the URL asks for no other mode):
the reader's shared lock makes every other commit wait or fail. Hence `DbFree`:
no step commits while another request is `reading`. The mutant `DbFreeAlways`
removes it and breaks the refinement.

*Abstractions.* A device stands for its MAC address and its controller id. Time
counts the seconds of the database's timestamps. A call to the controller names whole minutes
of `Minute` seconds, and `Minutes` computes them as the code does: `WholeMinutes` rounds up what
a coupon has left, to at least one (`access.rs:44`). `Minute` is 60 in the program and 1 or 2 in
the runs; the theorems hold for any. `finalize` reads the time as soon as the controller has
answered, before its transaction begins (`access.rs:117`); `Authorize` keeps it in the
request's `stamp`, and `Finalize` writes it, perhaps after a younger one. The limits of users and the
session length are constants (the code reads them just before
`authorize_staff`). The reconciler's check of `setup_done` is left out: coupons
and users exist only after setup. Rows are deleted only by a reconfiguration,
which is outside this model.

*Two named assumptions* are constants, so that a run can drop them:

- `Prompt`: a request ends within `ReservationTTL` (120 s) of its start. Its
  parts are bounded: four attempts of 10 s with 3.5 s of pauses, two calls of
  `unauthorize`, one of `authorize`, busy timeouts of 5 s. Starvation of the
  connection pool can exceed the sum; see the hazards.
- `SerialStaff`: a user has one request running at a time. The code does not
  ensure it, and `staff_concurrent` shows what happens without it.

**SeatLedger** says what coupons promise without rows or controllers: `Take` a
free seat of a coupon that is not revoked, in one atomic step; `Close` a coupon;
`Release` seats. Under `Ledger`, a device has a seat while it has a PENDING or
ACTIVE row of the coupon.

**Accounts** models everyone who can change a row of `users` or a session:
logins, administrators, setup. A transaction without a network call is one step
(SQLite serializes them; one that read an outdated snapshot fails, which is
`GiveUp`); each await between two of them is a point where others run.

| Code | Actions |
|---|---|
| `auth::start`, an attempt's ten minutes | `StartLogin`, `ExpireAttempt` |
| `auth::callback`: DELETE ... RETURNING; Google's answer and the lookup; the transaction; `cycle_id`; the session saved with the reply | `CallbackTake`, `CallbackLookup`, `CallbackBind`, `CallbackCycle`, `CallbackSave` |
| `deny` | `CallbackDeny` |
| `logout` | `Logout` |
| `manage::guard` at the start of any management request | `Manage` |
| `save_user`, `delete_user`, `issue` | `InsertUser`, `UpdateUser`, `DeleteUser`, `Issue` |
| a request that changes something else in its session (`portal_get`, `home`, a CSRF token) | `TouchLoad`, `TouchSave` |
| `setup_post` up to its transaction; the transaction with `reset_application_data`; the flag | `SetupRead`, `SetupCommit` (`SetupFirst`, `SetupReset`), `SetupFlag` |
| an error return, a dropped future; the process restarted | `GiveUp`, `Restart` |

*Sessions are copies.* tower-sessions loads a record on first use, and after the
reply writes the whole record back by an upsert if the handler changed it. So a
request that loaded its session before a logout, a login or a reset can put the
old record back afterwards; `TouchSave` does just that. `cycle_id` deletes the
old record at once, and the new one appears only with the reply. A session is its
`user_id` and `role`; a record with neither is left to PortalSession.

*Ghosts.* `era` counts the resets; rows and sessions carry the era of the request
that last wrote them. `taken` counts the callbacks that went on with an
attempt. Nothing in the model depends on them, except `MaxResets`.

*Abstractions.* An identity is a Google subject claim with one verified address.
The set `actors` stands for the rows of `coupons`, `device_authorizations` and
`audit_events` that name a user; `ForeignKey` and the count in `delete_user` look
at nothing else. Whether Google, the passcode and the controller accept a setup is
the choice of taking `SetupRead` or not; `CallbackTake` without a following
`CallbackLookup` is a code exchange that failed.

**PortalSession** follows the portal context: the device a browser was sent with,
for ten minutes and one use. It lives in the browser's session, and a login carries a
copy of it through `oauth_attempts`.

| Code | Actions |
|---|---|
| `portal_get`, `home` with an id; `normalize_mac` | `PortalGet`; `NormalizeMac` |
| `manage::guard` adding a CSRF token to the session | `ManagePage` |
| `coupon_redeem`, `staff_authorize` up to `consume` | `CouponRedeem`, `StaffAuthorize` |
| their replies below 500 | `Used` |
| `auth::start` with and without the portal | `StartPortalLogin`, `StartLogin` |
| `callback`: DELETE ... RETURNING; `cycle_id` and what is put into the session | `Callback`, `CallbackCycle` |
| a page answered; `logout` | `Answer`, `Logout` |
| a 5xx, or a dropped future; the process restarted | `GiveUp`, `Restart` |

As in Accounts a request works on a copy of the session and the whole copy is
written back, here with the rule that a reply of 5xx saves nothing: a coupon that
is refused answers 403 and uses the context up, a staff device the controller
refuses answers 502 and does not (`GiveUp`). The session of a browser is the
record its cookie names; a record's eight idle hours only remove it, like a logout.
A visit and each login that carries the context away make a *copy*, which may be used once.
`copy`, `visits`, `made`, `answered` and `overlapped` are ghosts for saying so.

**Setup** is the three requests behind the passcode.

| Code | Actions |
|---|---|
| `check_passcode`: a wrong guess, a right one | `WrongPasscode`, `RightPasscode`; `Opened`, `Locked` |
| `verify_google` | `VerifyGoogle` |
| `unifi_certificate`, first and second time | `Capture`, `Recapture` |
| `sites`: one page of its loop; no trusted connection | `FetchPage`, `Untrusted` |
| the answer of `setup_verify_unifi`; `site_check` in `setup_post` | `Listed` |
| the settings written | `Commit` |
| a failed check, a dropped future; the process; the controller | `GiveUp`; `Restart`; `ControllerChanges` |

The limiter has one peer, since only the trusted proxy gets past `trusted`; it is in memory, and a
restart empties it. The clock is assumed not to go back. The certificates that need
no pin, through the system's roots or `UNIFI_CA_CERT_PATH`, are the constant
`Public`. The site id is trimmed in the code; a padded one is refused by
`site_check`, so what passes is unchanged. The controller may cut pages where it
likes, and report a total that is right, one too high, or none; it is assumed to list no site
twice and to answer with an empty page only at the end. The HTTP client keeps its connection
over the pages of one call, so the certificate is judged at the first. What a save deletes,
and the flag `setup_done`, are in Accounts.

**SecretFile** is `persistent_secret` for one file: read; create with
`create_new`; write; `sync_all`; or read again if another start was faster. Starts
overlap (a redeployment may start a container before the old one has ended), are
killed anywhere, meet I/O errors, and lose what was not synced in a power
failure. A start stands for the random value it draws.

**SecretRegister** says what that amounts to, without a file: a register that is
written once, by one of the starts (`Choose`), and serves that value to all (`Serve`).
Until the value is durable it may be forgotten (`Forget`), and the start that chose it does not
return it before it is. Under `Register` the value is the one written into the file,
and it is durable when the file is synced.

## 3. Properties and runs

| Property | Says |
|---|---|
| `CouponWithinLimit` | no interleaving lets more devices hold a coupon than its limit |
| `ImplementsLedger` | the handlers implement `SeatLedger`; in particular no seat is taken on a coupon whose revocation has committed |
| `StatusMovesForward` | the updates by id never revive a row or free its seat twice |
| `RevokedStays` | even where a request outlives its reservation, and `finalize` revives the failed row, nothing revives a revoked one |
| `OnlineIsAccounted` | a device is online only if a row accounts for it: the authorization that gave the access was for a row of the device, and that row is not revoked, wherever it was revoked from (or it is an expired staff row, retired locally, whose access is about to end) |
| `AccessEnds` | the controller ends every access by itself, not before the row it was asked for expires and at most the reservation's time, the delay of a late command and, for a coupon, the rest of a minute after, even if the gateway never comes back |
| `AuditCountsGrants` | every row that ever became ACTIVE has one audit record |
| `StaffWithinLimit` | a user has at most `device_limit` unexpired ACTIVE devices |
| `ReservationsSettle` | an abandoned reservation is settled |
| `ExpiredAreRevoked` | an expired authorization is revoked |
| `AdminRemains` | concurrent edits, deletions and setups never leave an installed gateway without an approved administrator |
| `BindingPermanent` | a row bound to a Google identity stays bound to it, whichever logins and edits race |
| `SessionsHaveUsers` | the user of a session of this installation exists and cannot be deleted any more, even for a session that was written back late |
| `HistoryIsKept` | coupons and audit records name users that exist |
| `AttemptOnce` | no attempt serves two callbacks |
| `OneSecret` | starts that return a secret return the same one, unless a power failure took an unsynced file |
| `CreatedSecretStays` | a secret its creator has returned stays in the file, power failures included |
| `RefusesOnlyUnfinished` | a start refuses a file only because its creator has not finished, or never did |
| `ImplementsRegister` | the file implements `SecretRegister`: one value, chosen once, lost only before its creator has returned it |
| `UsedOnce` | a context answers one request, and so does each copy a login carries away, unless two requests of the session ran at once |
| `PresentedInTime` | the device for which a request asks for access is one that was sent to the portal less than ten minutes before, whatever sessions, logins and late write-backs lie between |
| `OneNamePerDevice` | two ids get one name exactly if they spell the same numbers, and neither a group's address nor zero gets one |
| `GuessesBounded` | no second has more than twice the limit of wrong guesses in the window that follows it, however guesses straddle windows |
| `RefusalsJustified` | a lock follows a full count of wrong guesses in the last window, so it ends by itself |
| `SettingsWork` | unless the controller has changed since, saved settings can connect to it and their site exists, although the certificate is captured twice |
| `DiscoveryComplete` | the list of sites is complete, without gaps or repetitions, whatever the sizes of the pages and however much too large the total; without a total it is the list's beginning |

*What `OnlineIsAccounted` does not say.* The row may be FAILED: an AUTHORIZE that timed out, or
whose guest had left, can be executed after its reservation was failed, and even after another
row of the same device was revoked. The device is then online on the failed row, nobody will
unauthorize it, and only the controller's own limit (`AccessEnds`) ends it. The code does
nothing about it; section 4 says what it costs.

| Run | Instance | Shows |
|---|---|---|
| `coupon` | one coupon for one of two devices, expiring after 3 seconds; minutes of 2 seconds; two requests, one administrator; 3 rows, times 0 to 4 | the seat properties and the refinement (late commands, which touch no row, are left to `mixed`), and the end of access where the coupon's time is, and is not, a multiple of a minute; a second row of the same device and a seat taken over from a failed one both occur within 3 rows |
| `staff` | one user with limit two, three devices, one request at a time, an administrator; sessions of two minutes of one second, 3 rows, times 0 to 2 | replacement, including its failures and races with revocation and the reconciler; the third row is the first to replace one, and the two it chooses from may expire together and have been authorized one after the other |
| `mixed` | one device that holds a never-expiring coupon and belongs to a user; minutes of 2 seconds, times 0 to 2; two concurrent requests, a late command | the properties about the controller when two owners share a device |
| `live` | one device, a coupon and a user, one request at a time, times 0 to 3, under `FairSpec`, `Prompt` FALSE | the two liveness properties and `RevokedStays`, with requests that find their reservation failed |
| `accounts` | two browsers, two identities with their addresses, two handlers, two user ids, two attempts, two session ids, one reset | the five properties of accounts and sessions; a login racing a deletion, two logins for one row, two administrators demoting each other, a session written back after a logout or a reset all occur |
| `secret` | four starts | the properties of the secret file and its refinement; four are a creator, one that comes second, one that finds an unwritten file and a later one |
| `portal` | two browsers, two handlers, six spellings of addresses of one byte, two visits, two copies, one login, one tick of lifetime | the three properties of the context; a login that carries it away, a context put back by a 5xx, and two requests of one session at once all occur |
| `setup` | one handler, up to two sites, a public and a private certificate, pages of up to two sites, two guesses in a window of one second, five guesses, one change at the controller, times 0 to 4 | the four properties of setup; guesses on both sides of a window's end, short and empty pages, a certificate renewed between the two captures |
| `reset_inflight` | as `accounts` | finding 4 |
| `coupon_overshoot` | as `coupon`, with a late command | finding 1 |
| `coupon_revoke` | as `coupon`, with a late command | finding 2 |
| `staff_concurrent` | as `staff`, with limit one, two requests and `SerialStaff` FALSE | finding 3 |

*Bounds.* `MaxRows` bounds the INSERTs, `MaxTime` the clock, `MaxLate` the
commands outstanding at once, `MaxRevokes` the coupon revocations that reach
their audit record. `ReservationTTL` is one second: a request may then see the
clock advance once, which is what separates the time it read from the time it
writes. `Minute` is 2 where coupons end, so that rounding up matters, and 1 elsewhere. Devices and requests are symmetric where they are model values; the
checked formulas treat them alike. In Accounts, `MaxUsers` is 2: an administrator
and one more, which is what every race between rows needs, since a second bound
or deleted row behaves like the first; `MaxSessions` bounds the session ids in use at
once (an id is taken again only when no record, cookie or request has it);
`MaxAttempts` and `MaxResets` bound the logins and reconfigurations. In
PortalSession, `MaxCopies` of 2 lets a visit's context and the copy of a login both
be live; two browsers are needed for a login that ends in another browser than it
began in. In Setup, requests meet only in the limiter and in the row of settings, which
they replace whole, so one handler shows what TLC can; `MaxGuesses` of 5 is one more than the
four that `GuessesBounded` lets into two windows. The proofs have no such bounds.

*Fairness* (`Fairness` in Access, used only by `live`). Weak fairness of each
handler, of the reconciler's loop and of the clock: the runtime schedules ready
tasks, and each call is bounded by the client's timeouts. Strong fairness of the
reconciler's three statements and of a successful `unauthorize` of each row: the
interval ticks for ever, and neither the database nor the controller refuses
one of them for ever. This is an assumption about the environment; a controller
that has forgotten the client (404 to both calls) violates it and is listed as
a hazard. Both properties are also under `QuietAtLast`, since redemptions that
keep the read lock without a pause would starve the reconciler's updates. Restarts,
failed calls and failed statements stay unbounded. `ReservationsSettle` speaks of reservations
that become overdue within `MaxTime`, `ExpiredAreRevoked` of rows that expire within it.

Every checked property has a mutant in `PROJECT.json`: a plausible slip in one
mapped definition (a limit test off by one, a missing lock, an ignored error, a
timeout one tick early) that the run then refutes.

## 4. Findings

1. *A timed-out authorize frees the seat* (`access.rs:137`, `coupon_overshoot`).
   `finalize` fails the row on any error, the timeout included. If the controller
   executes the command after all, the device is online with a FAILED row, the
   seat goes to the next guest, and a coupon for one device has two online. The same late
   command may also come after the revocation of another row of its device: the administrator
   has been told that the device is disconnected, and it is online again until the
   controller's limit.
2. *Revoking a coupon misses redemptions in flight* (`revoke.rs:96`,
   `coupon_revoke`). Only ACTIVE rows are selected. A PENDING one becomes ACTIVE
   after the administrator has been told that all went well, and the form that
   would revoke it is gone (`manage.rs:596`); its row can still be revoked singly.
3. *Concurrent staff requests exceed the limit* (`access.rs:76`,
   `staff_concurrent`). PENDING rows count against the limit but are never the
   ones replaced.
4. *A login across a reconfiguration* (`auth.rs:188`, `reset_inflight`). The
   callback updates by the id it looked up; the reset restarts the ids. A user of the
   old installation who was logging in ends up bound to the new administrator's
   row, with his address in it, and with a session of the role he had.

Read while modelling, and not run, since the documents disagree among themselves
or the code says what it does:

- `Technical Setup.md:313` says that a reconfiguration preserves users, coupons, sessions and
  history; the code deletes them all (`main.rs:414`), as `README.md:205` and the setup page say.
- A start that dies between creating a secret file and writing it leaves an empty file that
  every later start refuses (`config.rs:75`); `README.md:168` says secrets are created on
  first start. `RefusesOnlyUnfinished` says that nothing else is refused.
- `Technical Setup.md:367` says the pin is saved after its verification; the pin saved is
  captured again after it (`main.rs:395`). `SettingsWork` says when that is harmless.

- `sites` ends after page one if the controller reports no total (`unifi.rs:164`), so the list
  may be incomplete, and has no bound on its pages if a controller answers every offset with
  some site under a total that is never reached. `DiscoveryComplete` says
  of the first only that the list is a beginning, and nothing of the second, which is not modelled.

## 5. Proofs

`tlapm` checks eight modules to the last leaf.

- `AccessProofs`: `TypeCorrect == Spec => []TypeOK`. The type invariant is not
  inductive: that a row index stays valid depends on where each handler stands.
  The inductive invariant is `WellFormed`: `TypeOK`, and every row, device and
  owner a handler refers to exists. Lemmas give what an INSERT and an UPDATE do to
  a sequence of rows; one lemma per group of actions shows that it preserves
  `WellFormed`.
- `SeatProofs`: with `Prompt`, `CouponsBounded == Spec => []CouponWithinLimit`,
  `RowsMoveForward == Spec => StatusMovesForward`, and
  `LedgerImplemented == Spec => ImplementsLedger`. The inductive invariant is
  `SeatInv`. `CouponWithinLimit` alone is not inductive: the INSERT of a redemption does not
  look at the limit any more, so one needs that what it read is still true
  (`ReadStillTrue`), hence that nobody commits a seat meanwhile (`DbFree`) and that a
  row's expiry is its coupon's, so that the query counts every seat
  (`ExpiryCopied`). `Finalize` sets its row ACTIVE whatever it was: one needs that
  it is still PENDING (`ReservationsOwned`), which holds because the reconciler
  only fails rows older than any running request (`Timely`, from `Prompt`) and
  because the other updates by id hit rows that were once ACTIVE
  (`TargetsGranted`). Every step but the two INSERTs then has one shape
  (`Settles`), from which the parts of `SeatInv` follow once.

  Without `Prompt`, `RevokedIsFinal == Spec => RevokedStays` and `RoomIsThere == Spec =>
  RoomWhenReserved`. A request that outlives `ReservationTTL` finds its row FAILED and
  `Finalize` revives it, so `SeatInv` is not invariant, and neither is the limit of a coupon
  whose seat was given away meanwhile. What remains is `RowsInv`: a request's row is its own, and
  PENDING or FAILED (`ReservationsUnsettled`), because rows are revoked only once they were
  granted. A step inserts one row, or makes one ACTIVE, or only lowers rows (`StepKinds`); hence
  revoked rows stay revoked. And what a redemption reads under its lock
  stays true until its INSERT without any clock: a revived row commits under the
  same lock. `RoomWhenReserved` says so: a coupon's row is inserted only while the coupon is
  open and has a free seat. (It is proved only; `ImplementsLedger` makes TLC look at the same
  step.)
- `FinalizeProofs`: `GrantsAreAudited == Spec => []AuditCountsGrants`, with neither `Prompt` nor
  `SerialStaff`; `NearlyOldestIsReplaced == Spec => ReplacesNearlyOldest`, with `Prompt`; and
  `StaffBounded == Spec => []StaffWithinLimit`, with both. They rest
  on one fact: `Finalize` alone makes a row ACTIVE, and only one that never was before
  (`ActivatesNone` is the shape of every other step). So it adds one grant and one record. It
  gives its row a time its request has read: not after now, and at most `ReservationTTL` old
  (`Past`). The row a request has chosen as the oldest is therefore older than any row granted
  since, up to `ReservationTTL`, whoever is granted access or loses it while the controller is
  called, and whoever else of the same user's requests has chosen the same row. That it is
  exactly the oldest is not true of the code: a request may write an older time than one
  that committed before it. The limit of a user is not
  inductive: between the look at the rows and `Finalize` lie two controller calls and two
  transactions. `StaffInv` says what the user's one running request may rely on, counted
  at the time it started (`Roomy`): before its INSERT that the limit holds, while it
  replaces a row that there is room without that row, after that that there is room. To
  know that a full user has a row to replace one needs again that ACTIVE rows have an
  `authorizedAt` to order them by, and that a request's clock is not ahead
  (`Past`). Without `SerialStaff` the property is false: that is the run
  `staff_concurrent`.
- `GrantProofs`: `OnlineAreAccounted == Spec => []OnlineIsAccounted` and
  `AccessIsLimited == Spec => []AccessEnds`, with `Prompt`. The invariant is `VouchInv`: the
  row whose command gave a device its access `Vouches` for it. That row may not be revoked, nor
  about to be by a handler that has already disconnected the device (`Clearing`), or the
  revocation would leave the device online on it; and since clearing starts with an
  Ok answer to `unauthorize`, a row that begins to be cleared has an offline device. A late
  AUTHORIZE belongs to a row that will never be ACTIVE (`Abandoned`), so nobody will ever
  revoke it (`ClearingGranted`: handlers revoke rows that were granted), and it can still
  account for the device when the command is executed (`LateVouched`). `Matching` relates a
  request to its row; with `Timely`, and the bounds of `WholeMinutes` (`MinutesMatch`), it
  bounds when the access of its command can end, from both sides (`EarlyEnd`, `LateEnd`).

- `AccountsProofs`: `AdministratorRemains`, `HistoryNamesUsers`,
  `SessionsNameUsers`, `AttemptServesOnce` (each `Spec => []...`) and
  `BindingIsPermanent == Spec => BindingPermanent`. The inductive invariant is
  `AccountsInv`; `AccountsTyped` gives its types. `SessionsHaveUsers` depends on what handlers still hold: a copy of a
  session may be written back long after it was loaded, so every request that will save
  one (`RequestsSound`) must hold a session whose user is in the history, and
  history only grows within an installation. `AttemptOnce` needs that a row still
  there has not been used (`AttemptsSound`), and `BindingPermanent` and
  `HistoryIsKept` need that ids not yet given out have no row (`RowsSound`). Three
  lemmas say what any step does to the requests (`RequestMoves`, `RequestEnds`,
  `RequestGoesOn`), one what a write of a session does, one what a management
  transaction does; then there is one lemma per action.
- `SecretProofs`: `StartsTyped == Spec => []TypeOK`, `StartsAgree == Spec =>
  []OneSecret`, `CreatedIsDurable == Spec => []CreatedSecretStays`,
  `RefusalsExplained == Spec => []RefusesOnlyUnfinished`, and the refinement
  `RegisterImplemented == Spec => ImplementsRegister`: `Write` chooses the value, a read serves
  it, `Sync` serves it and makes it durable, a power failure makes it durable or forgets
  it, and every other step leaves the register alone. A start serves itself only by its
  `Sync` since it has returned nothing before and writes after its read (`Unserved`).
- `PortalProofs`: `PortalTyped`, `AccessIsForPresented == Spec => []PresentedInTime`,
  `ContextsAreUsedOnce == Spec => []UsedOnce` and `DevicesHaveOneName == Spec =>
  []OneNamePerDevice`. For the first two the invariant is
  `ContextInv`: every context anywhere (in a session, in a request's copy of one, in an
  attempt's row) is `Genuine`, that is, stems from a visit, names its device and ends with its ten
  minutes; `Genuine` only grows, so the contexts a step leaves alone need no argument. For
  `UsedOnce` it is `OnceInv`: as long as two requests have not held copy `t` together,
  it is in one place only (`Alone(t)`: with one request, in one session that offers it, or
  away in an attempt), and an answered copy is in none. The last is about `NormalizeMac`
  alone: digit by digit, upper case keeps the number and has one digit for each
  (`NumeralFacts`), so that names are equal exactly where the numbers are
  (`NormalizeMacFacts`), for any ids and any length of address.
- `SetupProofs`: `SetupTyped`, `GuessingIsSlow`, `LocksAreJustified`,
  `SavedSettingsWork` and `DiscoveryIsComplete`. The guesses need
  `WindowsSound` (a guess lies in the window it names, windows do not overlap) and
  `WindowsSmall` (a window has at most the limit), from which two limits and one guess
  span more than a window. The rest is `SetupInv`: `Prefix` (what has been read of an
  unchanged controller is a prefix of its list) and `Vouched` (a
  request past its check has a listed site and, while nothing changes, captures a certificate
  the controller presents).

The assumptions of the four modules about Access are those on the constants (`ControllerAssumption`,
`TableAssumption`, `AccessAssumption`). `CouponsBounded`, `RowsMoveForward`,
`LedgerImplemented`, `OnlineAreAccounted`, `AccessIsLimited` and `StaffBounded` need
`Prompt`, as does `NearlyOldestIsReplaced`, and `StaffBounded` also `SerialStaff`;
`TypeCorrect`, `RevokedIsFinal`, `RoomIsThere` and `GrantsAreAudited` need neither. Nothing bounds the number of
devices, coupons, users, requests, administrators, rows or late commands, nor
the times, beyond the bounds being naturals. TLC has checked `SeatInv` as an
invariant of the instances `MCCoupon` and `MCMixed`, `RowsInv` of the same with `Prompt`
FALSE, `StaffInv` of `MCStaff` and `VouchInv`
of `MCStaff` and `MCMixed`. The other four assume
only the assumption on their constants (`AccountsAssumption`, `StartsAssumption`,
`PortalAssumption`, `SetupAssumption`).

Every safety invariant and action property that a passing run checks is stated by a theorem.
Two theorems state what no run does, `RoomIsThere` and `NearlyOldestIsReplaced`; the instance
`MCStaffConcurrent` without its administrator satisfies `ReplacesNearlyOldest` (8.3 million
states, too many for a run kept here), and violates it with the bound `ReservationTTL` taken as 0.
Only model-checked: the liveness properties (`ReservationsSettle`, `ExpiredAreRevoked`),
which are out of the prover's reach.

## 6. Plan

1. *Done:* Controller, DeviceTable, Access, SeatLedger; Accounts; SecretFile;
   PortalSession; Setup; their runs, and the proofs above.
2. The connection pool and the liveness of the reconciler when `Prompt` or
   `QuietAtLast` fails.
3. The reset composed with the rows that redemptions, revocations and the reconciler
   still hold, on a small instance of Access.
4. Proofs: by how much a coupon's limit can be exceeded without `Prompt`, namely by the
   reservations that were failed under a running request and revived by it.

## 7. Not modelled

Encryption (a library call without state), the proxy gate and the health page
(one request, one read), rendering, the browser script, the deployment script and
the container images: no state of theirs outlives a step. Coupon templates and
branding are single statements on rows nobody else writes. Coupon codes are a random
draw and a digest. The effect of a reset on the requests of Access is left out: a row's id is
its position there, and the reset makes ids start again.

## 8. Running

    tlc -workers 2 -config MCCoupon.cfg MCCoupon
    tlapm GrantProofs.tla

The longest runs (`mixed`, `staff`, `accounts`, `setup` and `portal`) take one to two minutes each, the
others up to one.
