------------------------------ MODULE Accounts ------------------------------
(***************************************************************************)
(* Accounts, logins, sessions and setup: auth.rs (start, callback,         *)
(* logout), manage.rs (guard, save_user, delete_user, issue), main.rs      *)
(* (setup_post, reset_application_data).  A transaction without a network  *)
(* call inside it is one step, every await between two of them a point     *)
(* where other handlers run.  A handler works on the copy of the session   *)
(* it loaded, and the copy is written back after its reply is made.        *)
(***************************************************************************)
EXTENDS Naturals, FiniteSets

CONSTANTS
    Browsers,
    Handlers,       \* slots of concurrently running requests
    Identities,     \* Google accounts of the workspace (the subject claim)
    Emails,
    EmailOf,        \* the verified address of an identity
    None,
    MaxUsers,       \* bound: user ids given out by one installation
    MaxAttempts,    \* bound: logins started
    MaxSessions,    \* bound: session ids
    MaxResets       \* bound: reconfigurations

ASSUME AccountsAssumption ==
    /\ EmailOf \in [Identities -> Emails]
    /\ None \notin Emails \cup Identities \cup Browsers
    /\ MaxUsers \in Nat \ {0}
    /\ MaxAttempts \in Nat /\ MaxSessions \in Nat /\ MaxResets \in Nat

VARIABLES
    users,          \* table users
    nextUser,       \* its AUTOINCREMENT sequence
    actors,         \* users that coupons, authorizations or audit events refer to
    attempts,       \* table oauth_attempts
    taken,          \* ghost: how many callbacks went on with an attempt
    store,          \* table tower_sessions
    cookie,         \* the session id each browser sends, 0 for none
    installed,      \* the settings row exists
    setupDone,      \* AppState.setup_done
    era,            \* ghost: number of resets
    req

tables == <<users, nextUser, actors, attempts, taken, installed, era>>
vars == <<users, nextUser, actors, attempts, taken, store, cookie, installed,
          setupDone, era, req>>

-----------------------------------------------------------------------------
Roles == {"ADMIN", "FRONT_DESK", "STAFF"}
Intents == {"PORTAL", "MANAGEMENT"}
UserIds == 1..MaxUsers
SessionIds == 1..MaxSessions

\* era is a ghost: the installation of the request that last wrote the row.
User == [email : Emails \cup {None}, sub : Identities \cup {None}, role : Roles,
         approved : BOOLEAN, era : Nat]

NoUser == [email |-> None, sub |-> None, role |-> "STAFF", approved |-> FALSE,
           era |-> 0]

\* user = 0: nobody is logged in.  A stored record without a user carries the
\* portal context only and is left out, like an absent one.
Session == [user : UserIds \cup {0}, role : Roles, era : Nat]

NoSession == [user |-> 0, role |-> "STAFF", era |-> 0]

\* The awaits of callback (exchange, deny, bind, cycle, save), of the management
\* handlers between guard and transaction (edit, remove, issue), of any request
\* that changes something else in its session (touch), and of setup_post.
Request == [pc : {"idle", "exchange", "deny", "bind", "cycle", "save",
                  "edit", "remove", "issue", "touch", "setup", "flag"},
            browser : Browsers \cup {None}, sid : SessionIds \cup {0},
            session : Session, intent : Intents, sub : Identities \cup {None},
            bound : BOOLEAN, reset : BOOLEAN, era : Nat]

NoRequest == [pc |-> "idle", browser |-> None, sid |-> 0, session |-> NoSession,
              intent |-> "PORTAL", sub |-> None, bound |-> FALSE,
              reset |-> FALSE, era |-> 0]

\* Type invariant.
TypeOK ==
    /\ users \in [UserIds -> User]
    /\ nextUser \in 1..MaxUsers + 1
    /\ actors \subseteq UserIds
    /\ attempts \in [1..MaxAttempts -> Intents \cup {"unused", "gone"}]
    /\ taken \in [1..MaxAttempts -> Nat]
    /\ store \in [SessionIds -> Session]
    /\ cookie \in [Browsers -> SessionIds \cup {0}]
    /\ installed \in BOOLEAN /\ setupDone \in BOOLEAN
    /\ era \in 0..MaxResets
    /\ req \in [Handlers -> Request]

Init ==
    /\ users = [i \in UserIds |-> NoUser]
    /\ nextUser = 1
    /\ actors = {}
    /\ attempts = [a \in 1..MaxAttempts |-> "unused"]
    /\ taken = [a \in 1..MaxAttempts |-> 0]
    /\ store = [s \in SessionIds |-> NoSession]
    /\ cookie = [b \in Browsers |-> 0]
    /\ installed = FALSE /\ setupDone = FALSE
    /\ era = 0
    /\ req = [r \in Handlers |-> NoRequest]

-----------------------------------------------------------------------------
(* Shared pieces *)

Exists(t, i) == i \in UserIds /\ t[i].email # None

\* Mutant: the foreign keys are not enforced.
ForeignKeyOff(t, i) == TRUE

\* An INSERT that refers to user i (audit_events, coupons) succeeds.
ForeignKey(t, i) == Exists(t, i)

\* UNIQUE email, UNIQUE google_sub.
EmailFree(t, i, e) == \A j \in UserIds \ {i} : t[j].email # e
SubFree(t, i, g) == \A j \in UserIds \ {i} : t[j].sub # g

IsAdmin(row) == row.role = "ADMIN" /\ row.approved

\* Mutant: the administrators are counted before the change.
EnsureAdminBefore(t) == \E i \in UserIds : IsAdmin(users[i])

\* ensure_admin_exists, inside the transaction that makes the table t.
EnsureAdmin(t) == \E i \in UserIds : IsAdmin(t[i])

Goto(r, pc) == req' = [req EXCEPT ![r].pc = pc]

End(r) == req' = [req EXCEPT ![r] = NoRequest]

\* A request of browser b arrives, with what its session holds.
Begin(r, pc, b) ==
    req' = [req EXCEPT ![r] = [NoRequest EXCEPT !.pc = pc, !.browser = b,
                !.sid = cookie[b], !.era = era,
                !.session = IF cookie[b] = 0 THEN NoSession ELSE store[cookie[b]]]]

-----------------------------------------------------------------------------
(* Login *)

\* auth::start: the attempt is recorded; the rest is a redirect.
StartLogin(a, intent) ==
    /\ installed
    /\ attempts[a] = "unused"
    /\ \A b \in 1..(a - 1) : attempts[b] # "unused"
    /\ attempts' = [attempts EXCEPT ![a] = intent]
    /\ UNCHANGED <<users, nextUser, actors, taken, store, cookie, installed,
                   setupDone, era, req>>

\* Ten minutes have passed: callback no longer finds it, start deletes it.
ExpireAttempt(a) ==
    /\ attempts[a] \in Intents
    /\ attempts' = [attempts EXCEPT ![a] = "gone"]
    /\ UNCHANGED <<users, nextUser, actors, taken, store, cookie, installed,
                   setupDone, era, req>>

\* Mutant: SELECT for DELETE ... RETURNING.
TakeSelect(t, a) == t

\* DELETE ... RETURNING.
Take(t, a) == [t EXCEPT ![a] = "gone"]

CallbackTake(r, b, a) ==
    /\ req[r].pc = "idle"
    /\ attempts[a] \in Intents
    /\ attempts' = Take(attempts, a)
    /\ taken' = [taken EXCEPT ![a] = @ + 1]
    /\ req' = [req EXCEPT ![r] = [NoRequest EXCEPT !.pc = "exchange", !.browser = b,
                   !.sid = cookie[b], !.intent = attempts[a], !.era = era]]
    /\ UNCHANGED <<users, nextUser, actors, store, cookie, installed, setupDone, era>>

\* The row of an identity: the one bound to it, else the unbound one with its
\* address.
Match(g) ==
    LET own == {i \in UserIds : Exists(users, i) /\ users[i].sub = g}
    IN  IF own # {} THEN own
        ELSE {i \in UserIds : Exists(users, i) /\ users[i].sub = None
                                 /\ users[i].email = EmailOf[g]}

RoleFits(intent, role) == intent = "MANAGEMENT" => role # "STAFF"

\* Google answers that identity g has logged in, and its row is looked up.
\* Without one the denial is recorded without an actor, which changes nothing here.
CallbackLookup(r, g) ==
    /\ req[r].pc = "exchange"
    /\ \/ /\ Match(g) = {}
          /\ End(r)
       \/ \E i \in Match(g) :
             req' = [req EXCEPT
                 ![r].pc = IF users[i].approved /\ RoleFits(req[r].intent, users[i].role)
                           THEN "bind" ELSE "deny",
                 ![r].sub = g,
                 ![r].bound = users[i].sub # None,
                 ![r].session = [user |-> i, role |-> users[i].role, era |-> req[r].era]]
    /\ UNCHANGED <<tables, store, cookie, setupDone>>

\* deny: an audit record that names the user.
CallbackDeny(r) ==
    LET u == req[r].session.user
    IN  /\ req[r].pc = "deny"
        /\ ForeignKey(users, u)
        /\ actors' = actors \cup {u}
        /\ End(r)
        /\ UNCHANGED <<users, nextUser, attempts, taken, store, cookie, installed,
                       setupDone, era>>

\* Mutant: the address is bound to the parameter of google_sub.
BindSwapped(sub, g) == IF sub = None THEN EmailOf[g] ELSE sub

\* Mutant: SET google_sub=?.
BindOver(sub, g) == g

\* COALESCE(google_sub,?).
Bind(sub, g) == IF sub = None THEN g ELSE sub

\* The transaction that binds the identity and records the login.
CallbackBind(r) ==
    LET u == req[r].session.user
        g == req[r].sub
        conflict == ~req[r].bound /\ ~SubFree(users, u, g)
    IN  /\ req[r].pc = "bind"
        /\ \/ /\ conflict
              /\ Goto(r, "deny")
              /\ UNCHANGED <<users, actors>>
           \/ /\ ~conflict
              /\ EmailFree(users, u, EmailOf[g])
              /\ SubFree(users, u, Bind(users[u].sub, g))
              /\ ForeignKey(users, u)
              /\ users' = IF Exists(users, u)
                          THEN [users EXCEPT ![u].sub = Bind(@, g),
                                             ![u].email = EmailOf[g],
                                             ![u].era = req[r].era]
                          ELSE users
              /\ actors' = actors \cup {u}
              /\ Goto(r, "cycle")
        /\ UNCHANGED <<nextUser, attempts, taken, store, cookie, installed,
                       setupDone, era>>

\* cycle_id: the record of the session the browser sent is deleted.
CallbackCycle(r) ==
    /\ req[r].pc = "cycle"
    /\ store' = IF req[r].sid = 0 THEN store
                ELSE [store EXCEPT ![req[r].sid] = NoSession]
    /\ Goto(r, "save")
    /\ UNCHANGED <<tables, cookie, setupDone>>

\* Ids are random: one that no record, cookie or request has.
Fresh(s) ==
    /\ store[s].user = 0
    /\ \A b \in Browsers : cookie[b] # s
    /\ \A r \in Handlers : req[r].sid # s

\* user_id and role are written under a new id, which the reply carries.
CallbackSave(r) ==
    /\ req[r].pc = "save"
    /\ \E s \in SessionIds :
          /\ Fresh(s)
          /\ \A q \in 1..(s - 1) : ~Fresh(q)
          /\ store' = [store EXCEPT ![s] = req[r].session]
          /\ cookie' = [cookie EXCEPT ![req[r].browser] = s]
    /\ End(r)
    /\ UNCHANGED <<tables, setupDone>>

\* flush.
Logout(b) ==
    /\ cookie[b] # 0
    /\ store' = [store EXCEPT ![cookie[b]] = NoSession]
    /\ cookie' = [cookie EXCEPT ![b] = 0]
    /\ UNCHANGED <<tables, setupDone, req>>

-----------------------------------------------------------------------------
(* Other requests of a session *)

\* A request that puts a portal context or a CSRF token into its session loads
\* the record first ...
TouchLoad(r, b) ==
    /\ req[r].pc = "idle"
    /\ setupDone
    /\ cookie[b] # 0
    /\ store[cookie[b]].user # 0
    /\ Begin(r, "touch", b)
    /\ UNCHANGED <<tables, store, cookie, setupDone>>

\* ... and writes it back whole when it has been answered, whatever has become
\* of the record.
TouchSave(r) ==
    /\ req[r].pc = "touch"
    /\ store' = [store EXCEPT ![req[r].sid] = req[r].session]
    /\ cookie' = [cookie EXCEPT ![req[r].browser] = req[r].sid]
    /\ End(r)
    /\ UNCHANGED <<tables, setupDone>>

\* guard: who may do what is read from the session.
Manage(r, b, op) ==
    /\ req[r].pc = "idle"
    /\ cookie[b] # 0
    /\ store[cookie[b]].user # 0
    /\ store[cookie[b]].role \in IF op = "issue" THEN {"ADMIN", "FRONT_DESK"} ELSE {"ADMIN"}
    /\ Begin(r, op, b)
    /\ UNCHANGED <<tables, store, cookie, setupDone>>

\* A management transaction: the new table of users, the administrators
\* counted, the actor's audit record.
Commit(r, t) ==
    /\ EnsureAdmin(t)
    /\ ForeignKey(t, req[r].session.user)
    /\ users' = t
    /\ actors' = actors \cup {req[r].session.user}
    /\ End(r)
    /\ UNCHANGED <<attempts, taken, store, cookie, installed, setupDone, era>>

InsertUser(r, e, role, ok) ==
    /\ req[r].pc = "edit"
    /\ nextUser <= MaxUsers
    /\ EmailFree(users, nextUser, e)
    /\ Commit(r, [users EXCEPT ![nextUser] =
                    [email |-> e, sub |-> None, role |-> role, approved |-> ok,
                     era |-> req[r].era]])
    /\ nextUser' = nextUser + 1

UpdateUser(r, i, e, role, ok) ==
    /\ req[r].pc = "edit"
    /\ Exists(users, i)
    /\ EmailFree(users, i, e)
    /\ Commit(r, [users EXCEPT ![i].email = e, ![i].role = role, ![i].approved = ok,
                               ![i].era = req[r].era])
    /\ UNCHANGED nextUser

\* The history is counted first; the foreign keys would refuse as well.
DeleteUser(r, i) ==
    /\ req[r].pc = "remove"
    /\ i # req[r].session.user
    /\ i \notin actors
    /\ Exists(users, i)
    /\ Commit(r, [users EXCEPT ![i] = NoUser])
    /\ UNCHANGED nextUser

\* issue: coupons and audit records that name the actor.
Issue(r) ==
    /\ req[r].pc = "issue"
    /\ ForeignKey(users, req[r].session.user)
    /\ actors' = actors \cup {req[r].session.user}
    /\ End(r)
    /\ UNCHANGED <<users, nextUser, attempts, taken, store, cookie, installed,
                   setupDone, era>>

-----------------------------------------------------------------------------
(* Setup *)

\* setup_post up to its transaction's first statement: the passcode and the
\* providers are verified, and the flag decides whether there is data to reset.
SetupRead(r) ==
    /\ req[r].pc = "idle"
    /\ req' = [req EXCEPT ![r] = [NoRequest EXCEPT !.pc = "setup",
                                    !.reset = setupDone, !.era = era]]
    /\ UNCHANGED <<tables, store, cookie, setupDone>>

Administrator(e, n) ==
    [email |-> e, sub |-> None, role |-> "ADMIN", approved |-> TRUE, era |-> n]

\* The initial administrator is inserted, or the row with that address becomes one.
SetupFirst(e) ==
    /\ \/ \E i \in UserIds :
             /\ users[i].email = e
             /\ users' = [users EXCEPT ![i].role = "ADMIN", ![i].approved = TRUE]
             /\ UNCHANGED nextUser
       \/ /\ \A i \in UserIds : users[i].email # e
          /\ nextUser <= MaxUsers
          /\ users' = [users EXCEPT ![nextUser] = Administrator(e, era)]
          /\ nextUser' = nextUser + 1
    /\ UNCHANGED <<actors, attempts, store, era>>

\* reset_application_data: every table is emptied and the ids start again.
SetupReset(e) ==
    /\ era < MaxResets
    /\ era' = era + 1
    /\ users' = [i \in UserIds |-> IF i = 1 THEN Administrator(e, era + 1) ELSE NoUser]
    /\ nextUser' = 2
    /\ actors' = {}
    /\ attempts' = [a \in 1..MaxAttempts |->
                      IF attempts[a] \in Intents THEN "gone" ELSE attempts[a]]
    /\ store' = [s \in SessionIds |-> NoSession]

SetupCommit(r, e) ==
    /\ req[r].pc = "setup"
    /\ IF req[r].reset THEN SetupReset(e) ELSE SetupFirst(e)
    /\ installed' = TRUE
    /\ Goto(r, "flag")
    /\ UNCHANGED <<taken, cookie, setupDone>>

\* Only now do the other handlers learn of it.
SetupFlag(r) ==
    /\ req[r].pc = "flag"
    /\ setupDone' = TRUE
    /\ End(r)
    /\ UNCHANGED <<tables, store, cookie>>

-----------------------------------------------------------------------------
\* An error is returned, or the handler's future dropped: no session is saved.
GiveUp(r) ==
    /\ req[r].pc # "idle"
    /\ End(r)
    /\ UNCHANGED <<tables, store, cookie, setupDone>>

\* The process dies and starts again.
Restart ==
    /\ req' = [r \in Handlers |-> NoRequest]
    /\ setupDone' = installed
    /\ UNCHANGED <<tables, store, cookie>>

LoginStep(r) ==
    \/ \E b \in Browsers, a \in 1..MaxAttempts : CallbackTake(r, b, a)
    \/ \E g \in Identities : CallbackLookup(r, g)
    \/ CallbackDeny(r) \/ CallbackBind(r) \/ CallbackCycle(r) \/ CallbackSave(r)

ManageStep(r) ==
    \/ \E b \in Browsers, op \in {"edit", "remove", "issue"} : Manage(r, b, op)
    \/ \E e \in Emails, role \in Roles, ok \in BOOLEAN :
          \/ InsertUser(r, e, role, ok)
          \/ \E i \in UserIds : UpdateUser(r, i, e, role, ok)
    \/ \E i \in UserIds : DeleteUser(r, i)
    \/ Issue(r)

SessionStep(r) == TouchSave(r) \/ \E b \in Browsers : TouchLoad(r, b)

SetupStep(r) == SetupRead(r) \/ SetupFlag(r) \/ \E e \in Emails : SetupCommit(r, e)

Next ==
    \/ \E a \in 1..MaxAttempts :
          ExpireAttempt(a) \/ \E intent \in Intents : StartLogin(a, intent)
    \/ \E b \in Browsers : Logout(b)
    \/ \E r \in Handlers :
          LoginStep(r) \/ ManageStep(r) \/ SessionStep(r) \/ SetupStep(r) \/ GiveUp(r)
    \/ Restart

Spec == Init /\ [][Next]_vars

-----------------------------------------------------------------------------
(* Properties *)

\* Concurrent edits, deletions and setups never leave the gateway without an
\* approved administrator (ensure_admin_exists).
AdminRemains == installed => \E i \in UserIds : IsAdmin(users[i])

\* A row once bound to a Google identity stays bound to it as long as it exists
\* and the installation lasts, whichever logins and edits race (callback).
BindingPermanent ==
    [][era' = era => \A i \in UserIds :
          Exists(users, i) /\ users[i].sub # None /\ Exists(users', i)
             => users'[i].sub = users[i].sub]_vars

\* A session of this installation belongs to a user who exists and cannot be
\* deleted: the login left an audit record (callback, delete_user).
SessionsHaveUsers ==
    \A s \in SessionIds : store[s].user # 0 /\ store[s].era = era =>
        Exists(users, store[s].user) /\ store[s].user \in actors

\* Coupons and audit records name users that exist (delete_user, deny, issue).
HistoryIsKept == \A i \in actors : Exists(users, i)

\* At most one callback goes on with an attempt (callback).
AttemptOnce == \A a \in 1..MaxAttempts : taken[a] <= 1

\* The warning on the setup page, "New setup values and administrator become
\* only retained application data": nothing of an earlier installation is left.
ResetForgets ==
    /\ \A s \in SessionIds : store[s].user # 0 => store[s].era = era
    /\ \A i \in UserIds : Exists(users, i) => users[i].era = era
=============================================================================
