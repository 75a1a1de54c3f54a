--------------------------- MODULE AccountsProofs ---------------------------
(* Proofs about Accounts for every value of its constants. *)
EXTENDS Accounts, TLAPS

(* The inductive invariant *)

\* Ids not yet given out have no row, history names rows that exist, and an
\* installed gateway has an administrator.
RowsSound ==
    /\ \A i \in UserIds : i >= nextUser => users[i] = NoUser
    /\ HistoryIsKept
    /\ AdminRemains

\* A login of this installation has left a record.
Recorded(y, names, n) == y.user # 0 /\ y.era = n => y.user \in names

\* What a request may hold, given the users named in the history and the
\* current installation: nothing from the future, and a session that is about
\* to be saved is that of a recorded login.
Sound(x, names, n) ==
    /\ x \in Request
    /\ x.era <= n /\ x.session.era <= n
    /\ x.pc \in {"cycle", "save", "touch"} => Recorded(x.session, names, n)
    /\ x.pc = "bind" => x.sub # None

SessionsSound ==
    \A s \in SessionIds : store[s].era <= era /\ Recorded(store[s], actors, era)

RequestsSound == \A r \in Handlers : Sound(req[r], actors, era)

AttemptsSound ==
    \A a \in 1..MaxAttempts : /\ taken[a] <= 1
                              /\ attempts[a] # "gone" => taken[a] = 0

AccountsInv ==
    TypeOK /\ RowsSound /\ SessionsSound /\ RequestsSound /\ AttemptsSound

-----------------------------------------------------------------------------
(* What steps have in common *)

LEMMA RecordsTyped ==
    NoSession \in Session /\ NoRequest \in Request /\ NoUser \in User
  BY DEF NoSession, NoRequest, NoUser, Session, Request, User, Roles, Intents

LEMMA InitAccountsInv == Init => AccountsInv
  <1> SUFFICES ASSUME Init PROVE AccountsInv
    OBVIOUS
  <1>1. TypeOK
    <2>1. users \in [UserIds -> User] /\ store \in [SessionIds -> Session]
      BY RecordsTyped DEF Init
    <2>2. attempts \in [1..MaxAttempts -> Intents \cup {"unused", "gone"}]
      BY DEF Init
    <2>3. taken \in [1..MaxAttempts -> Nat]
      BY DEF Init
    <2>4. cookie \in [Browsers -> SessionIds \cup {0}]
      BY DEF Init
    <2>5. req \in [Handlers -> Request]
      BY RecordsTyped DEF Init
    <2>6. nextUser \in 1..MaxUsers + 1 /\ actors \subseteq UserIds /\ era \in 0..MaxResets
      BY AccountsAssumption DEF Init
    <2>7. installed \in BOOLEAN /\ setupDone \in BOOLEAN
      BY DEF Init
    <2> QED
      BY <2>1, <2>2, <2>3, <2>4, <2>5, <2>6, <2>7 DEF TypeOK
  <1>2. RowsSound
    BY DEF Init, RowsSound, HistoryIsKept, AdminRemains
  <1>3. SessionsSound
    BY AccountsAssumption DEF Init, SessionsSound, Recorded, NoSession
  <1>4. RequestsSound
    BY RecordsTyped DEF Init, RequestsSound, Sound, NoRequest, NoSession
  <1>5. AttemptsSound
    BY DEF Init, AttemptsSound
  <1> QED
    BY <1>1, <1>2, <1>3, <1>4, <1>5 DEF AccountsInv

\* A request that moves on or ends, in the same installation.
LEMMA RequestMoves ==
    ASSUME AccountsInv, NEW r \in Handlers, NEW x, Sound(x, actors', era),
           req' = [req EXCEPT ![r] = x], UNCHANGED era, actors \subseteq actors'
    PROVE  req' \in [Handlers -> Request] /\ RequestsSound'
  BY DEF AccountsInv, TypeOK, RequestsSound, Sound, Recorded

\* A request that ends.
LEMMA RequestEnds ==
    ASSUME AccountsInv, NEW r \in Handlers, End(r), UNCHANGED era,
           actors \subseteq actors'
    PROVE  req' \in [Handlers -> Request] /\ RequestsSound'
  <1>1. Sound(NoRequest, actors', era)
    BY RecordsTyped, AccountsAssumption
    DEF AccountsInv, TypeOK, Sound, NoRequest, NoSession
  <1> QED
    BY <1>1, RequestMoves DEF End

\* A request that only goes on to another await, where no session is saved or
\* where its session is known to be recorded.
LEMMA RequestGoesOn ==
    ASSUME AccountsInv, NEW r \in Handlers, NEW pc, Goto(r, pc), UNCHANGED era,
           actors \subseteq actors',
           pc \in {"deny", "flag", "cycle", "save"},
           pc \in {"cycle", "save"} => Recorded(req[r].session, actors', era)
    PROVE  req' \in [Handlers -> Request] /\ RequestsSound'
  <1> DEFINE x == [req[r] EXCEPT !.pc = pc]
  <1>1. req[r] \in Request /\ Sound(req[r], actors, era)
    BY DEF AccountsInv, TypeOK, RequestsSound
  <1>2. /\ x \in Request /\ x.pc = pc
        /\ x.era = req[r].era /\ x.session = req[r].session
    BY <1>1 DEF Request
  <1>3. Sound(x, actors', era)
    BY <1>1, <1>2 DEF Sound
  <1>4. req' = [req EXCEPT ![r] = x]
    BY DEF Goto
  <1> QED
    BY <1>3, <1>4, RequestMoves

\* Sessions are not touched, and history only grows.
LEMMA SessionsKept ==
    ASSUME AccountsInv, UNCHANGED <<store, era>>, actors \subseteq actors'
    PROVE  SessionsSound'
  BY DEF AccountsInv, SessionsSound, Recorded

\* One record is written or deleted.
LEMMA SessionWritten ==
    ASSUME AccountsInv, NEW s \in SessionIds, NEW y \in Session,
           y.era <= era, Recorded(y, actors, era),
           store' = [store EXCEPT ![s] = y], UNCHANGED <<actors, era>>
    PROVE  store' \in [SessionIds -> Session] /\ SessionsSound'
  BY DEF AccountsInv, TypeOK, SessionsSound, Recorded

LEMMA RowsKept ==
    ASSUME AccountsInv, UNCHANGED <<users, nextUser, actors, installed>>
    PROVE  RowsSound'
  BY DEF AccountsInv, RowsSound, HistoryIsKept, AdminRemains, Exists, IsAdmin

LEMMA AttemptsKept ==
    ASSUME AccountsInv, UNCHANGED <<attempts, taken>>
    PROVE  AttemptsSound'
  BY DEF AccountsInv, AttemptsSound

-----------------------------------------------------------------------------
(* Login *)

LEMMA StartInv ==
    ASSUME AccountsInv, NEW a \in 1..MaxAttempts,
           ExpireAttempt(a) \/ \E intent \in Intents : StartLogin(a, intent)
    PROVE  AccountsInv'
  <1>1. PICK v \in Intents \cup {"gone"} :
            /\ attempts' = [attempts EXCEPT ![a] = v]
            /\ attempts[a] # "gone"
    BY DEF ExpireAttempt, StartLogin, Intents
  <1>2. UNCHANGED <<users, nextUser, actors, taken, store, cookie, installed,
                    setupDone, era, req>>
    BY DEF ExpireAttempt, StartLogin
  <1>3. TypeOK'
    BY <1>1, <1>2 DEF AccountsInv, TypeOK
  <1>4. RowsSound' /\ SessionsSound'
    BY <1>2, RowsKept, SessionsKept
  <1>5. RequestsSound'
    BY <1>2 DEF AccountsInv, RequestsSound
  <1>6. AttemptsSound'
    BY <1>1, <1>2 DEF AccountsInv, TypeOK, AttemptsSound
  <1> QED
    BY <1>3, <1>4, <1>5, <1>6 DEF AccountsInv

LEMMA TakeInv ==
    ASSUME AccountsInv, NEW r \in Handlers, NEW b \in Browsers,
           NEW a \in 1..MaxAttempts, CallbackTake(r, b, a)
    PROVE  AccountsInv'
  <1> DEFINE x == [NoRequest EXCEPT !.pc = "exchange", !.browser = b,
                      !.sid = cookie[b], !.intent = attempts[a], !.era = era]
  <1>1. /\ attempts' = [attempts EXCEPT ![a] = "gone"] /\ attempts[a] \in Intents
        /\ taken' = [taken EXCEPT ![a] = @ + 1]
        /\ req' = [req EXCEPT ![r] = x]
        /\ UNCHANGED <<users, nextUser, actors, store, cookie, installed,
                       setupDone, era>>
    BY DEF CallbackTake, Take
  <1>2. cookie[b] \in SessionIds \cup {0} /\ era \in Nat
    BY DEF AccountsInv, TypeOK
  <1>3. Sound(x, actors, era)
    <2>1. x \in Request /\ x.pc = "exchange" /\ x.era = era /\ x.session = NoSession
      BY <1>1, <1>2, RecordsTyped DEF NoRequest, Request
    <2>2. NoSession.era <= era
      BY <1>2 DEF NoSession
    <2> HIDE DEF x
    <2> QED
      BY <1>2, <2>1, <2>2 DEF Sound
  <1>4. req' \in [Handlers -> Request] /\ RequestsSound'
    BY <1>1, <1>3, RequestMoves
  <1>5. taken[a] = 0 /\ taken' \in [1..MaxAttempts -> Nat]
    BY <1>1 DEF AccountsInv, TypeOK, AttemptsSound, Intents
  <1>6. attempts' \in [1..MaxAttempts -> Intents \cup {"unused", "gone"}]
    BY <1>1 DEF AccountsInv, TypeOK
  <1>7. AttemptsSound'
    BY <1>1, <1>5 DEF AccountsInv, TypeOK, AttemptsSound
  <1>8. RowsSound' /\ SessionsSound'
    BY <1>1, RowsKept, SessionsKept
  <1> QED
    BY <1>1, <1>4, <1>5, <1>6, <1>7, <1>8 DEF AccountsInv, TypeOK

LEMMA LookupInv ==
    ASSUME AccountsInv, NEW r \in Handlers, NEW g \in Identities, CallbackLookup(r, g)
    PROVE  AccountsInv'
  <1>1. UNCHANGED <<tables, store, cookie, setupDone>>
    BY DEF CallbackLookup
  <1>2. req' \in [Handlers -> Request] /\ RequestsSound'
    <2>1. CASE End(r)
      BY <1>1, <2>1, RequestEnds DEF tables
    <2>2. CASE ~End(r)
      <3>1. PICK i \in Match(g), pc \in {"bind", "deny"}, bound \in BOOLEAN :
               req' = [req EXCEPT ![r].pc = pc, ![r].sub = g, ![r].bound = bound,
                         ![r].session = [user |-> i, role |-> users[i].role,
                                         era |-> req[r].era]]
        BY <2>2 DEF CallbackLookup
      <3> DEFINE y == [user |-> i, role |-> users[i].role, era |-> req[r].era]
                 x == [req[r] EXCEPT !.pc = pc, !.sub = g, !.bound = bound, !.session = y]
      <3>2. i \in UserIds /\ users[i] \in User /\ Sound(req[r], actors, era)
        BY <3>1 DEF Match, AccountsInv, TypeOK, RequestsSound
      <3>3. y \in Session /\ y.era = req[r].era
        BY <3>2 DEF Session, User, Sound, Request
      <3>5. x \in Request /\ x.pc = pc /\ x.session = y /\ x.era = req[r].era
        BY <3>2, <3>3 DEF Request, Sound
      <3>6. Sound(x, actors, era)
        <4>1. pc \notin {"cycle", "save", "touch"}
          BY <3>1
        <4>2. x.sub # None
          BY <3>2, <3>1, AccountsAssumption DEF Sound, Request
        <4> HIDE DEF x, y
        <4> QED
          BY <3>2, <3>3, <3>5, <4>1, <4>2 DEF Sound
      <3>4. req' = [req EXCEPT ![r] = x]
        BY <3>1
      <3> QED
        BY <1>1, <3>4, <3>6, RequestMoves DEF tables
    <2> QED
      BY <2>1, <2>2
  <1>3. RowsSound' /\ SessionsSound' /\ AttemptsSound'
    BY <1>1, RowsKept, SessionsKept, AttemptsKept DEF tables
  <1> QED
    BY <1>1, <1>2, <1>3 DEF AccountsInv, TypeOK, tables

\* A row that exists gets into the history; nothing else about the rows changes.
LEMMA HistoryGrows ==
    ASSUME AccountsInv, NEW u, Exists(users, u), actors' = actors \cup {u},
           UNCHANGED <<users, nextUser, installed>>
    PROVE  RowsSound' /\ actors' \subseteq UserIds /\ actors \subseteq actors'
  BY DEF AccountsInv, TypeOK, RowsSound, HistoryIsKept, AdminRemains, Exists, IsAdmin

LEMMA DenyInv ==
    ASSUME AccountsInv, NEW r \in Handlers, CallbackDeny(r) \/ Issue(r)
    PROVE  AccountsInv'
  <1> DEFINE u == req[r].session.user
  <1>1. /\ Exists(users, u) /\ actors' = actors \cup {u} /\ End(r)
        /\ UNCHANGED <<users, nextUser, attempts, taken, store, cookie, installed,
                       setupDone, era>>
    BY DEF CallbackDeny, Issue, ForeignKey
  <1>2. RowsSound' /\ actors' \subseteq UserIds /\ actors \subseteq actors'
    BY <1>1, HistoryGrows
  <1>3. req' \in [Handlers -> Request] /\ RequestsSound'
    BY <1>1, <1>2, RequestEnds
  <1>4. SessionsSound' /\ AttemptsSound'
    BY <1>1, <1>2, SessionsKept, AttemptsKept
  <1> QED
    BY <1>1, <1>2, <1>3, <1>4 DEF AccountsInv, TypeOK

LEMMA BindInv ==
    ASSUME AccountsInv, NEW r \in Handlers, CallbackBind(r)
    PROVE  AccountsInv'
  <1> DEFINE u == req[r].session.user
             g == req[r].sub
  <1>1. /\ req[r].pc = "bind"
        /\ UNCHANGED <<nextUser, attempts, taken, store, cookie, installed,
                       setupDone, era>>
    BY DEF CallbackBind
  <1>2. req[r] \in Request /\ Sound(req[r], actors, era)
    BY DEF AccountsInv, TypeOK, RequestsSound
  <1>3. AttemptsSound'
    BY <1>1, AttemptsKept
  <1>4. CASE Goto(r, "deny") /\ UNCHANGED <<users, actors>>
    <2>1. req' \in [Handlers -> Request] /\ RequestsSound'
      BY <1>1, <1>4, RequestGoesOn
    <2>2. RowsSound' /\ SessionsSound'
      BY <1>1, <1>4, RowsKept, SessionsKept
    <2> QED
      BY <1>1, <1>3, <1>4, <2>1, <2>2 DEF AccountsInv, TypeOK
  <1>5. CASE ~(Goto(r, "deny") /\ UNCHANGED <<users, actors>>)
    <2>1. /\ Exists(users, u)
          /\ users' = [users EXCEPT ![u].sub = Bind(@, g), ![u].email = EmailOf[g],
                                    ![u].era = req[r].era]
          /\ actors' = actors \cup {u}
          /\ Goto(r, "cycle")
      BY <1>5 DEF CallbackBind, ForeignKey
    <2>2. u \in UserIds /\ users[u] \in User
      BY <2>1 DEF Exists, AccountsInv, TypeOK
    <2>3. g \in Identities /\ EmailOf[g] \in Emails
      BY <1>1, <1>2, AccountsAssumption DEF Sound, Request
    <2>4. req[r].era \in Nat
      BY <1>2 DEF Request
    <2>5. PICK w \in User : users' = [users EXCEPT ![u] = w] /\ w.email # None
                            /\ w.role = users[u].role /\ w.approved = users[u].approved
      <3> DEFINE w == [users[u] EXCEPT !.sub = Bind(@, g), !.email = EmailOf[g],
                                       !.era = req[r].era]
      <3>1. w \in User /\ w.email # None
        BY <2>2, <2>3, <2>4, AccountsAssumption DEF User, Bind
      <3>2. w.role = users[u].role /\ w.approved = users[u].approved
        BY <2>2 DEF User
      <3>3. users' = [users EXCEPT ![u] = w]
        BY <2>1, <2>2 DEF AccountsInv, TypeOK
      <3> QED
        BY <3>1, <3>2, <3>3
    <2>6. users' \in [UserIds -> User] /\ actors' \subseteq UserIds
      BY <2>1, <2>2, <2>5 DEF AccountsInv, TypeOK
    <2>7. HistoryIsKept'
      BY <2>1, <2>2, <2>5 DEF AccountsInv, TypeOK, RowsSound, HistoryIsKept, Exists
    <2>8. AdminRemains'
      BY <1>1, <2>2, <2>5 DEF AccountsInv, TypeOK, RowsSound, AdminRemains, IsAdmin
    <2>9. \A i \in UserIds : i >= nextUser' => users'[i] = NoUser
      <3>1. users[u] # NoUser
        BY <2>1 DEF Exists, NoUser
      <3> QED
        BY <1>1, <2>2, <2>5, <3>1 DEF AccountsInv, TypeOK, RowsSound
    <2>10. Recorded(req[r].session, actors', era)
      BY <2>1 DEF Recorded
    <2>11. req' \in [Handlers -> Request] /\ RequestsSound'
      BY <1>1, <2>1, <2>10, RequestGoesOn
    <2>12. SessionsSound'
      BY <1>1, <2>1, SessionsKept
    <2> QED
      BY <1>1, <1>3, <2>6, <2>7, <2>8, <2>9, <2>11, <2>12
      DEF AccountsInv, TypeOK, RowsSound
  <1> QED
    BY <1>4, <1>5

LEMMA CycleInv ==
    ASSUME AccountsInv, NEW r \in Handlers, CallbackCycle(r)
    PROVE  AccountsInv'
  <1>1. req[r].pc = "cycle" /\ Goto(r, "save") /\ UNCHANGED <<tables, cookie, setupDone>>
    BY DEF CallbackCycle
  <1>2. Sound(req[r], actors, era)
    BY DEF AccountsInv, RequestsSound
  <1>3. req' \in [Handlers -> Request] /\ RequestsSound'
    <2>1. Recorded(req[r].session, actors', era)
      BY <1>1, <1>2 DEF Sound, tables
    <2> QED
      BY <1>1, <2>1, RequestGoesOn DEF tables
  <1>4. store' \in [SessionIds -> Session] /\ SessionsSound'
    <2>1. CASE req[r].sid = 0
      BY <1>1, <2>1, SessionsKept DEF CallbackCycle, tables, AccountsInv, TypeOK
    <2>2. CASE req[r].sid # 0
      <3>1. req[r].sid \in SessionIds
        BY <1>2, <2>2 DEF Sound, Request
      <3>2. NoSession.era <= era /\ Recorded(NoSession, actors, era)
        BY DEF NoSession, Recorded, AccountsInv, TypeOK
      <3> QED
        BY <1>1, <2>2, <3>1, <3>2, RecordsTyped, SessionWritten DEF CallbackCycle, tables
    <2> QED
      BY <2>1, <2>2
  <1>5. RowsSound' /\ AttemptsSound'
    BY <1>1, RowsKept, AttemptsKept DEF tables
  <1> QED
    BY <1>1, <1>3, <1>4, <1>5 DEF AccountsInv, TypeOK, tables

\* What the two steps that end a request by saving its session have in common.
LEMMA SavedInv ==
    ASSUME AccountsInv, NEW r \in Handlers, req[r].pc \in {"save", "touch"},
           NEW s \in SessionIds \cup {0},
           s # 0 => store' = [store EXCEPT ![s] = req[r].session],
           s = 0 => store' = store,
           cookie' = [cookie EXCEPT ![req[r].browser] = s],
           End(r), UNCHANGED <<tables, setupDone>>
    PROVE  AccountsInv'
  <1>1. Sound(req[r], actors, era)
    BY DEF AccountsInv, RequestsSound
  <1>2. store' \in [SessionIds -> Session] /\ SessionsSound'
    <2>1. CASE s = 0
      BY <2>1, SessionsKept DEF tables, AccountsInv, TypeOK
    <2>2. CASE s # 0
      <3>1. req[r].session \in Session /\ req[r].session.era <= era
              /\ Recorded(req[r].session, actors, era)
        BY <1>1 DEF Sound, Request
      <3> QED
        BY <2>2, <3>1, SessionWritten DEF tables
    <2> QED
      BY <2>1, <2>2
  <1>3. cookie' \in [Browsers -> SessionIds \cup {0}]
    BY DEF AccountsInv, TypeOK
  <1>4. req' \in [Handlers -> Request] /\ RequestsSound'
    BY RequestEnds DEF tables
  <1>5. RowsSound' /\ AttemptsSound'
    BY RowsKept, AttemptsKept DEF tables
  <1> QED
    BY <1>2, <1>3, <1>4, <1>5 DEF AccountsInv, TypeOK, tables

LEMMA SaveInv ==
    ASSUME AccountsInv, NEW r \in Handlers, CallbackSave(r)
    PROVE  AccountsInv'
  <1>1. PICK s \in SessionIds :
            /\ store' = [store EXCEPT ![s] = req[r].session]
            /\ cookie' = [cookie EXCEPT ![req[r].browser] = s]
    BY DEF CallbackSave
  <1>2. s # 0
    BY DEF SessionIds
  <1> QED
    BY <1>1, <1>2, SavedInv DEF CallbackSave

LEMMA TouchSaveInv ==
    ASSUME AccountsInv, NEW r \in Handlers, TouchSave(r)
    PROVE  AccountsInv'
  <1>1. req[r].sid \in SessionIds \cup {0}
    BY DEF AccountsInv, TypeOK, Request
  <1>2. req[r].sid = 0 => store' = store
    BY DEF TouchSave, AccountsInv, TypeOK, SessionIds
  <1> QED
    BY <1>1, <1>2, SavedInv DEF TouchSave

LEMMA LogoutInv ==
    ASSUME AccountsInv, NEW b \in Browsers, Logout(b)
    PROVE  AccountsInv'
  <1>1. /\ store' = [store EXCEPT ![cookie[b]] = NoSession]
        /\ cookie' = [cookie EXCEPT ![b] = 0] /\ cookie[b] \in SessionIds
        /\ UNCHANGED <<tables, setupDone, req>>
    BY DEF Logout, AccountsInv, TypeOK
  <1>2. NoSession.era <= era /\ Recorded(NoSession, actors, era)
    BY DEF NoSession, Recorded, AccountsInv, TypeOK
  <1>3. store' \in [SessionIds -> Session] /\ SessionsSound'
    BY <1>1, <1>2, RecordsTyped, SessionWritten DEF tables
  <1>4. cookie' \in [Browsers -> SessionIds \cup {0}]
    BY <1>1 DEF AccountsInv, TypeOK
  <1>5. RequestsSound'
    BY <1>1 DEF AccountsInv, RequestsSound, tables
  <1>6. RowsSound' /\ AttemptsSound'
    BY <1>1, RowsKept, AttemptsKept DEF tables
  <1> QED
    BY <1>1, <1>3, <1>4, <1>5, <1>6 DEF AccountsInv, TypeOK, tables

-----------------------------------------------------------------------------
(* Management and setup *)

LEMMA BeginInv ==
    ASSUME AccountsInv, NEW r \in Handlers, NEW b \in Browsers,
           TouchLoad(r, b) \/ \E op \in {"edit", "remove", "issue"} : Manage(r, b, op)
    PROVE  AccountsInv'
  <1>1. PICK pc \in {"touch", "edit", "remove", "issue"} : Begin(r, pc, b)
    BY DEF TouchLoad, Manage
  <1>2. UNCHANGED <<tables, store, cookie, setupDone>>
    BY DEF TouchLoad, Manage
  <1> DEFINE y == IF cookie[b] = 0 THEN NoSession ELSE store[cookie[b]]
             x == [NoRequest EXCEPT !.pc = pc, !.browser = b, !.sid = cookie[b],
                                    !.era = era, !.session = y]
  <1>3. y \in Session /\ y.era <= era /\ Recorded(y, actors, era)
    <2>1. CASE cookie[b] = 0
      BY <2>1, RecordsTyped DEF NoSession, Recorded, AccountsInv, TypeOK
    <2>2. CASE cookie[b] # 0
      BY <2>2 DEF AccountsInv, TypeOK, SessionsSound
    <2> QED
      BY <2>1, <2>2
  <1>4. cookie[b] \in SessionIds \cup {0} /\ era \in Nat
    BY DEF AccountsInv, TypeOK
  <1>5. Sound(x, actors, era)
    <2> HIDE DEF y
    <2>1. /\ x \in Request /\ x.pc = pc /\ x.era = era /\ x.session = y
      BY <1>3, <1>4, RecordsTyped DEF NoRequest, Request
    <2> HIDE DEF x
    <2> QED
      BY <1>3, <1>4, <2>1 DEF Sound
  <1>6. req' = [req EXCEPT ![r] = x]
    BY <1>1 DEF Begin
  <1>7. req' \in [Handlers -> Request] /\ RequestsSound'
    <2> HIDE DEF x
    <2> QED
      BY <1>2, <1>5, <1>6, RequestMoves DEF tables
  <1>8. RowsSound' /\ SessionsSound' /\ AttemptsSound'
    BY <1>2, RowsKept, SessionsKept, AttemptsKept DEF tables
  <1> QED
    BY <1>2, <1>7, <1>8 DEF AccountsInv, TypeOK, tables

\* A management transaction whose new table t keeps the rows of everyone the
\* history names.
LEMMA CommitInv ==
    ASSUME AccountsInv, NEW r \in Handlers, NEW t \in [UserIds -> User],
           Commit(r, t), nextUser' \in 1..MaxUsers + 1,
           \A i \in actors : Exists(t, i),
           \A i \in UserIds : i >= nextUser' => t[i] = NoUser
    PROVE  AccountsInv'
  <1> DEFINE u == req[r].session.user
  <1>1. /\ users' = t /\ actors' = actors \cup {u} /\ End(r)
        /\ EnsureAdmin(t) /\ Exists(t, u)
        /\ UNCHANGED <<attempts, taken, store, cookie, installed, setupDone, era>>
    BY DEF Commit, ForeignKey
  <1>2. actors' \subseteq UserIds /\ actors \subseteq actors'
    BY <1>1 DEF Exists, AccountsInv, TypeOK
  <1>3. HistoryIsKept' /\ AdminRemains'
    BY <1>1 DEF HistoryIsKept, AdminRemains, EnsureAdmin, Exists
  <1>4. RowsSound'
    BY <1>1, <1>3 DEF RowsSound
  <1>5. req' \in [Handlers -> Request] /\ RequestsSound'
    BY <1>1, <1>2, RequestEnds
  <1>6. SessionsSound' /\ AttemptsSound'
    BY <1>1, <1>2, SessionsKept, AttemptsKept
  <1> QED
    BY <1>1, <1>2, <1>4, <1>5, <1>6 DEF AccountsInv, TypeOK

LEMMA InsertInv ==
    ASSUME AccountsInv, NEW r \in Handlers, NEW e \in Emails, NEW role \in Roles,
           NEW ok \in BOOLEAN, InsertUser(r, e, role, ok)
    PROVE  AccountsInv'
  <1> DEFINE w == [email |-> e, sub |-> None, role |-> role, approved |-> ok,
                   era |-> req[r].era]
             t == [users EXCEPT ![nextUser] = w]
  <1>1. nextUser <= MaxUsers /\ nextUser' = nextUser + 1 /\ Commit(r, t)
    BY DEF InsertUser
  <1>2. w \in User /\ w.email # None
    <2>1. req[r].era \in Nat
      BY DEF AccountsInv, TypeOK, Request
    <2>2. users \in [UserIds -> User]
      BY DEF AccountsInv, TypeOK
    <2> QED
      BY <2>1, <2>2, AccountsAssumption DEF User
  <1>3. nextUser \in UserIds /\ nextUser' \in 1..MaxUsers + 1
    BY <1>1, AccountsAssumption DEF AccountsInv, TypeOK, UserIds
  <1> HIDE DEF w
  <1>4. t \in [UserIds -> User]
    BY <1>2 DEF AccountsInv, TypeOK
  <1>5. \A i \in actors : Exists(t, i)
    BY <1>2, <1>3 DEF AccountsInv, TypeOK, RowsSound, HistoryIsKept, Exists
  <1>6. \A i \in UserIds : i >= nextUser' => t[i] = NoUser
    BY <1>1, <1>3 DEF AccountsInv, TypeOK, RowsSound, UserIds
  <1> QED
    BY <1>1, <1>3, <1>4, <1>5, <1>6, CommitInv

LEMMA UpdateInv ==
    ASSUME AccountsInv, NEW r \in Handlers, NEW i \in UserIds, NEW e \in Emails,
           NEW role \in Roles, NEW ok \in BOOLEAN, UpdateUser(r, i, e, role, ok)
    PROVE  AccountsInv'
  <1> DEFINE w == [users[i] EXCEPT !.email = e, !.role = role, !.approved = ok,
                                   !.era = req[r].era]
             t == [users EXCEPT ![i] = w]
  <1>1. /\ nextUser' = nextUser /\ Exists(users, i)
        /\ Commit(r, [users EXCEPT ![i].email = e, ![i].role = role,
                                   ![i].approved = ok, ![i].era = req[r].era])
    BY DEF UpdateUser
  <1>2. w \in User /\ w.email # None
    <2>1. req[r].era \in Nat
      BY DEF AccountsInv, TypeOK, Request
    <2>2. users \in [UserIds -> User]
      BY DEF AccountsInv, TypeOK
    <2> QED
      BY <2>1, <2>2, AccountsAssumption DEF User
  <1>3. t = [users EXCEPT ![i].email = e, ![i].role = role,
                          ![i].approved = ok, ![i].era = req[r].era]
    BY DEF AccountsInv, TypeOK
  <1>4. Commit(r, t)
    BY <1>1, <1>3
  <1> HIDE DEF w
  <1>5. t \in [UserIds -> User]
    BY <1>2 DEF AccountsInv, TypeOK
  <1>6. \A j \in actors : Exists(t, j)
    BY <1>2 DEF AccountsInv, TypeOK, RowsSound, HistoryIsKept, Exists
  <1>7. \A j \in UserIds : j >= nextUser' => t[j] = NoUser
    <2>1. users[i] # NoUser
      BY <1>1 DEF Exists, NoUser
    <2> QED
      BY <1>1, <2>1 DEF AccountsInv, TypeOK, RowsSound
  <1>8. nextUser' \in 1..MaxUsers + 1
    BY <1>1 DEF AccountsInv, TypeOK
  <1> HIDE DEF t
  <1> QED
    BY <1>4, <1>5, <1>6, <1>7, <1>8, CommitInv

LEMMA DeleteInv ==
    ASSUME AccountsInv, NEW r \in Handlers, NEW i \in UserIds, DeleteUser(r, i)
    PROVE  AccountsInv'
  <1> DEFINE t == [users EXCEPT ![i] = NoUser]
  <1>1. i \notin actors /\ nextUser' = nextUser /\ Commit(r, t)
    BY DEF DeleteUser
  <1>2. t \in [UserIds -> User]
    BY RecordsTyped DEF AccountsInv, TypeOK
  <1>3. \A j \in actors : Exists(t, j)
    BY <1>1 DEF AccountsInv, TypeOK, RowsSound, HistoryIsKept, Exists
  <1>4. \A j \in UserIds : j >= nextUser' => t[j] = NoUser
    BY <1>1 DEF AccountsInv, TypeOK, RowsSound
  <1>5. nextUser' \in 1..MaxUsers + 1
    BY <1>1 DEF AccountsInv, TypeOK
  <1> HIDE DEF t
  <1> QED
    BY <1>1, <1>2, <1>3, <1>4, <1>5, CommitInv

LEMMA SetupReadInv ==
    ASSUME AccountsInv, NEW r \in Handlers, SetupRead(r)
    PROVE  AccountsInv'
  <1> DEFINE x == [NoRequest EXCEPT !.pc = "setup", !.reset = setupDone, !.era = era]
  <1>1. UNCHANGED <<tables, store, cookie, setupDone>> /\ req' = [req EXCEPT ![r] = x]
    BY DEF SetupRead
  <1>2. era \in Nat /\ setupDone \in BOOLEAN
    BY DEF AccountsInv, TypeOK
  <1>3. x \in Request /\ x.pc = "setup" /\ x.era = era /\ x.session = NoSession
    BY <1>2, RecordsTyped DEF NoRequest, Request
  <1>4. NoSession.era <= era
    BY <1>2 DEF NoSession
  <1> HIDE DEF x
  <1>5. Sound(x, actors, era)
    BY <1>2, <1>3, <1>4 DEF Sound
  <1>6. req' \in [Handlers -> Request] /\ RequestsSound'
    BY <1>1, <1>5, RequestMoves DEF tables
  <1>7. RowsSound' /\ SessionsSound' /\ AttemptsSound'
    BY <1>1, RowsKept, SessionsKept, AttemptsKept DEF tables
  <1> QED
    BY <1>1, <1>6, <1>7 DEF AccountsInv, TypeOK, tables

LEMMA AdministratorTyped ==
    ASSUME NEW e \in Emails, NEW n \in Nat
    PROVE  /\ Administrator(e, n) \in User /\ Administrator(e, n).email # None
           /\ IsAdmin(Administrator(e, n))
  BY AccountsAssumption DEF Administrator, User, Roles, IsAdmin

\* The rows after the first setup.
LEMMA FirstRows ==
    ASSUME AccountsInv, NEW e \in Emails, SetupFirst(e)
    PROVE  /\ users' \in [UserIds -> User] /\ nextUser' \in 1..MaxUsers + 1
           /\ RowsSound'
  <1>1. UNCHANGED <<actors, attempts, store, era>> /\ era \in Nat
    BY DEF SetupFirst, AccountsInv, TypeOK
  <1>2. PICK i \in UserIds, w \in User :
            /\ users' = [users EXCEPT ![i] = w]
            /\ w.email # None /\ IsAdmin(w)
            /\ i < nextUser'
            /\ nextUser' \in nextUser..MaxUsers + 1
    <2>1. CASE \E i \in UserIds : users[i].email = e
                 /\ users' = [users EXCEPT ![i].role = "ADMIN", ![i].approved = TRUE]
                 /\ UNCHANGED nextUser
      <3>1. PICK i \in UserIds : users[i].email = e
                 /\ users' = [users EXCEPT ![i].role = "ADMIN", ![i].approved = TRUE]
                 /\ UNCHANGED nextUser
        BY <2>1
      <3> DEFINE w == [users[i] EXCEPT !.role = "ADMIN", !.approved = TRUE]
      <3>2. w \in User /\ w.email = e /\ IsAdmin(w)
        BY <3>1 DEF User, Roles, IsAdmin, AccountsInv, TypeOK
      <3>3. users' = [users EXCEPT ![i] = w]
        BY <3>1 DEF AccountsInv, TypeOK
      <3>4. users[i] # NoUser
        BY <3>1, AccountsAssumption DEF NoUser
      <3>5. i < nextUser /\ nextUser' \in nextUser..MaxUsers + 1
        BY <3>1, <3>4, AccountsAssumption DEF AccountsInv, TypeOK, RowsSound, UserIds
      <3> HIDE DEF w
      <3> QED
        BY <3>1, <3>2, <3>3, <3>5, AccountsAssumption
    <2>2. CASE /\ nextUser <= MaxUsers
               /\ users' = [users EXCEPT ![nextUser] = Administrator(e, era)]
               /\ nextUser' = nextUser + 1
      <3>1. nextUser \in UserIds /\ nextUser < nextUser'
              /\ nextUser' \in nextUser..MaxUsers + 1
        BY <2>2, AccountsAssumption DEF AccountsInv, TypeOK, UserIds
      <3> QED
        BY <1>1, <2>2, <3>1, AdministratorTyped
    <2> QED
      BY <2>1, <2>2 DEF SetupFirst
  <1>3. users' \in [UserIds -> User]
    BY <1>2 DEF AccountsInv, TypeOK
  <1>4. nextUser' \in 1..MaxUsers + 1
    BY <1>2, AccountsAssumption DEF AccountsInv, TypeOK
  <1>5. \A j \in UserIds : j >= nextUser' => users'[j] = NoUser
    BY <1>2, <1>4 DEF AccountsInv, TypeOK, RowsSound, UserIds
  <1>6. HistoryIsKept'
    BY <1>1, <1>2 DEF AccountsInv, TypeOK, RowsSound, HistoryIsKept, Exists
  <1>7. AdminRemains'
    BY <1>2 DEF AccountsInv, TypeOK, AdminRemains
  <1> QED
    BY <1>3, <1>4, <1>5, <1>6, <1>7 DEF RowsSound

LEMMA FirstInv ==
    ASSUME AccountsInv, NEW r \in Handlers, NEW e \in Emails,
           SetupCommit(r, e), SetupFirst(e)
    PROVE  AccountsInv'
  <1>1. /\ UNCHANGED <<taken, cookie, setupDone, actors, attempts, store, era>>
        /\ installed' = TRUE /\ Goto(r, "flag")
    BY DEF SetupCommit, SetupFirst
  <1>2. req' \in [Handlers -> Request] /\ RequestsSound'
    BY <1>1, RequestGoesOn
  <1>3. SessionsSound' /\ AttemptsSound'
    BY <1>1, SessionsKept, AttemptsKept
  <1> QED
    BY <1>1, <1>2, <1>3, FirstRows DEF AccountsInv, TypeOK

LEMMA ResetInv ==
    ASSUME AccountsInv, NEW r \in Handlers, NEW e \in Emails,
           SetupCommit(r, e), SetupReset(e)
    PROVE  AccountsInv'
  <1>1. /\ UNCHANGED <<taken, cookie, setupDone>>
        /\ installed' = TRUE /\ Goto(r, "flag") /\ req[r].pc = "setup"
        /\ era < MaxResets /\ era' = era + 1
        /\ users' = [i \in UserIds |-> IF i = 1 THEN Administrator(e, era + 1) ELSE NoUser]
        /\ nextUser' = 2 /\ actors' = {}
        /\ store' = [s \in SessionIds |-> NoSession]
    BY DEF SetupCommit, SetupReset
  <1>2. era \in Nat /\ era + 1 \in 0..MaxResets /\ 1 \in UserIds
    BY <1>1, AccountsAssumption DEF AccountsInv, TypeOK, UserIds
  <1>3. users' \in [UserIds -> User] /\ nextUser' \in 1..MaxUsers + 1
    <2>1. Administrator(e, era + 1) \in User
      BY <1>2, AdministratorTyped
    <2>2. nextUser' \in 1..MaxUsers + 1
      BY <1>1, AccountsAssumption
    <2> QED
      BY <1>1, <2>1, <2>2, RecordsTyped
  <1>4. RowsSound'
    <2>1. \A i \in UserIds : i >= nextUser' => users'[i] = NoUser
      BY <1>1
    <2>2. IsAdmin(users'[1])
      BY <1>1, <1>2, AdministratorTyped
    <2> QED
      BY <1>1, <1>2, <2>1, <2>2 DEF RowsSound, HistoryIsKept, AdminRemains
  <1>5. store' \in [SessionIds -> Session] /\ SessionsSound'
    BY <1>1, <1>2, RecordsTyped DEF SessionsSound, Recorded, NoSession
  <1>6. attempts' \in [1..MaxAttempts -> Intents \cup {"unused", "gone"}]
    BY DEF SetupReset, AccountsInv, TypeOK
  <1>7. AttemptsSound'
    BY <1>1 DEF SetupReset, AttemptsSound, AccountsInv, TypeOK, Intents
  <1>8. req' \in [Handlers -> Request] /\ RequestsSound'
    <2>1. \A q \in Handlers : req[q] \in Request /\ Sound(req[q], actors, era)
      BY DEF AccountsInv, TypeOK, RequestsSound
    <2>2. \A q \in Handlers : Sound(req[q], {}, era + 1)
      BY <1>2, <2>1 DEF Sound, Recorded, Request, Session
    <2> DEFINE x == [req[r] EXCEPT !.pc = "flag"]
    <2>3. /\ x \in Request /\ x.pc = "flag"
          /\ x.era = req[r].era /\ x.session = req[r].session
      BY <2>1 DEF Request
    <2>4. req' = [req EXCEPT ![r] = x]
      BY <1>1 DEF Goto
    <2> HIDE DEF x
    <2>5. Sound(x, {}, era + 1)
      BY <2>2, <2>3 DEF Sound
    <2> QED
      BY <1>1, <2>2, <2>3, <2>4, <2>5 DEF AccountsInv, TypeOK, RequestsSound
  <1> QED
    BY <1>1, <1>2, <1>3, <1>4, <1>5, <1>6, <1>7, <1>8 DEF AccountsInv, TypeOK

\* Steps that end requests and change no table.
LEMMA OthersInv ==
    ASSUME AccountsInv,
           Restart \/ \E r \in Handlers : SetupFlag(r) \/ GiveUp(r)
    PROVE  AccountsInv'
  <1>1. UNCHANGED <<tables, store, cookie>> /\ setupDone' \in BOOLEAN
    BY DEF Restart, SetupFlag, GiveUp, AccountsInv, TypeOK
  <1>2. req' \in [Handlers -> Request] /\ RequestsSound'
    <2>1. CASE Restart
      <3>1. NoSession.era <= era /\ era \in Nat
        BY DEF NoSession, AccountsInv, TypeOK
      <3>2. Sound(NoRequest, actors, era)
        BY <3>1, RecordsTyped DEF Sound, NoRequest
      <3> QED
        BY <1>1, <2>1, <3>2, RecordsTyped DEF Restart, RequestsSound, tables
    <2>2. CASE \E r \in Handlers : End(r)
      BY <1>1, <2>2, RequestEnds DEF tables
    <2> QED
      BY <2>1, <2>2 DEF SetupFlag, GiveUp
  <1>3. RowsSound' /\ SessionsSound' /\ AttemptsSound'
    BY <1>1, RowsKept, SessionsKept, AttemptsKept DEF tables
  <1> QED
    BY <1>1, <1>2, <1>3 DEF AccountsInv, TypeOK, tables

-----------------------------------------------------------------------------
(* The theorems *)

LEMMA NextAccountsInv == AccountsInv /\ [Next]_vars => AccountsInv'
  <1> SUFFICES ASSUME AccountsInv, [Next]_vars PROVE AccountsInv'
    OBVIOUS
  <1>1. CASE UNCHANGED vars
    <2>1. UNCHANGED <<tables, store, cookie, setupDone, req>>
      BY <1>1 DEF vars, tables
    <2>2. RowsSound' /\ SessionsSound' /\ AttemptsSound'
      BY <2>1, RowsKept, SessionsKept, AttemptsKept DEF tables
    <2>3. RequestsSound'
      BY <2>1 DEF AccountsInv, RequestsSound, tables
    <2> QED
      BY <2>1, <2>2, <2>3 DEF AccountsInv, TypeOK, tables
  <1>2. CASE \E a \in 1..MaxAttempts :
                ExpireAttempt(a) \/ \E intent \in Intents : StartLogin(a, intent)
    BY <1>2, StartInv
  <1>3. CASE \E b \in Browsers : Logout(b)
    BY <1>3, LogoutInv
  <1>4. ASSUME NEW r \in Handlers, LoginStep(r) PROVE AccountsInv'
    BY <1>4, TakeInv, LookupInv, DenyInv, BindInv, CycleInv, SaveInv DEF LoginStep
  <1>5. ASSUME NEW r \in Handlers, ManageStep(r) PROVE AccountsInv'
    BY <1>5, BeginInv, InsertInv, UpdateInv, DeleteInv, DenyInv DEF ManageStep
  <1>6. ASSUME NEW r \in Handlers, SessionStep(r) PROVE AccountsInv'
    BY <1>6, BeginInv, TouchSaveInv DEF SessionStep
  <1>7. ASSUME NEW r \in Handlers, SetupStep(r) PROVE AccountsInv'
    BY <1>7, SetupReadInv, FirstInv, ResetInv, OthersInv DEF SetupStep, SetupCommit
  <1>8. CASE Restart \/ \E r \in Handlers : GiveUp(r)
    BY <1>8, OthersInv
  <1> QED
    BY <1>1, <1>2, <1>3, <1>4, <1>5, <1>6, <1>7, <1>8 DEF Next

LEMMA AccountsInvariant == Spec => []AccountsInv
  BY InitAccountsInv, NextAccountsInv, PTL DEF Spec

\* Accounts, sessions and requests are typed, for any number of them.
THEOREM AccountsTyped == Spec => []TypeOK
  <1>1. AccountsInv => TypeOK
    BY DEF AccountsInv
  <1> QED
    BY AccountsInvariant, <1>1, PTL

\* An installed gateway always has an approved administrator, whichever edits,
\* deletions, logins, setups and restarts overlap (ensure_admin_exists).
THEOREM AdministratorRemains == Spec => []AdminRemains
  <1>1. AccountsInv => AdminRemains
    BY DEF AccountsInv, RowsSound
  <1> QED
    BY <1>1, AccountsInvariant, PTL

\* What coupons and audit records name exists (delete_user, deny, issue, callback).
THEOREM HistoryNamesUsers == Spec => []HistoryIsKept
  <1>1. AccountsInv => HistoryIsKept
    BY DEF AccountsInv, RowsSound
  <1> QED
    BY <1>1, AccountsInvariant, PTL

\* The user of a session of the current installation exists, and the audit
\* record of the login keeps him from being deleted (callback, delete_user).
THEOREM SessionsNameUsers == Spec => []SessionsHaveUsers
  <1>1. AccountsInv => SessionsHaveUsers
    BY DEF AccountsInv, RowsSound, HistoryIsKept, SessionsSound, Recorded,
           SessionsHaveUsers
  <1> QED
    BY <1>1, AccountsInvariant, PTL

\* No attempt serves two callbacks (DELETE ... RETURNING in callback).
THEOREM AttemptServesOnce == Spec => []AttemptOnce
  <1>1. AccountsInv => AttemptOnce
    BY DEF AccountsInv, AttemptsSound, AttemptOnce
  <1> QED
    BY <1>1, AccountsInvariant, PTL

\* A bound row keeps its identity while it exists (COALESCE in callback,
\* save_user leaves google_sub alone).
THEOREM BindingIsPermanent == Spec => BindingPermanent
  <1> DEFINE Kept == era' = era => \A i \in UserIds :
                        Exists(users, i) /\ users[i].sub # None /\ Exists(users', i)
                           => users'[i].sub = users[i].sub
  <1>1. AccountsInv /\ [Next]_vars => [Kept]_vars
    <2> SUFFICES ASSUME AccountsInv, [Next]_vars, era' = era, NEW i \in UserIds,
                        users[i].email # None, users[i].sub # None, Exists(users', i)
                 PROVE  users'[i].sub = users[i].sub
      BY DEF Exists
    <2>1. users[i] \in User /\ users \in [UserIds -> User]
      BY DEF AccountsInv, TypeOK
    <2>2. ASSUME NEW r \in Handlers, CallbackBind(r) PROVE users'[i].sub = users[i].sub
      <3>1. Bind(users[i].sub, req[r].sub) = users[i].sub
        BY DEF Bind
      <3> DEFINE u == req[r].session.user
      <3>2. \/ users' = users
            \/ users' = [users EXCEPT ![u].sub = Bind(@, req[r].sub),
                                      ![u].email = EmailOf[req[r].sub],
                                      ![u].era = req[r].era]
        BY <2>2 DEF CallbackBind
      <3>3. CASE i # u
        BY <2>1, <3>2, <3>3
      <3>4. CASE i = u
        <4> DEFINE w == [users[i] EXCEPT !.sub = Bind(@, req[r].sub),
                                         !.email = EmailOf[req[r].sub],
                                         !.era = req[r].era]
        <4>1. w.sub = users[i].sub
          BY <2>1, <3>1 DEF User
        <4>2. users' = users \/ users' = [users EXCEPT ![i] = w]
          BY <2>1, <3>2, <3>4
        <4> HIDE DEF w
        <4> QED
          BY <2>1, <4>1, <4>2
      <3> QED
        BY <3>3, <3>4
    <2>3. ASSUME NEW r \in Handlers, NEW e, NEW role, NEW ok, InsertUser(r, e, role, ok)
          PROVE  users'[i].sub = users[i].sub
      <3>1. i # nextUser
        BY AccountsAssumption DEF AccountsInv, TypeOK, RowsSound, NoUser, UserIds
      <3> QED
        BY <2>1, <2>3, <3>1 DEF InsertUser, Commit
    <2>4. ASSUME NEW r \in Handlers, NEW j \in UserIds, NEW e, NEW role, NEW ok,
                 UpdateUser(r, j, e, role, ok)
          PROVE  users'[i].sub = users[i].sub
      BY <2>1, <2>4 DEF UpdateUser, Commit, User
    <2>5. ASSUME NEW r \in Handlers, NEW j \in UserIds, DeleteUser(r, j)
          PROVE  users'[i].sub = users[i].sub
      BY <2>1, <2>5 DEF DeleteUser, Commit, Exists, NoUser
    <2>6. ASSUME NEW r \in Handlers, NEW e, SetupCommit(r, e)
          PROVE  users'[i].sub = users[i].sub
      <3>1. SetupFirst(e)
        BY <2>6 DEF SetupCommit, SetupReset, AccountsInv, TypeOK
      <3>2. i # nextUser
        BY AccountsAssumption DEF AccountsInv, TypeOK, RowsSound, NoUser, UserIds
      <3>3. CASE \E j \in UserIds :
                    users' = [users EXCEPT ![j].role = "ADMIN", ![j].approved = TRUE]
        <4>1. PICK j \in UserIds :
                    users' = [users EXCEPT ![j].role = "ADMIN", ![j].approved = TRUE]
          BY <3>3
        <4>2. CASE i = j
          BY <2>1, <4>1, <4>2 DEF User
        <4>3. CASE i # j
          BY <2>1, <4>1, <4>3
        <4> QED
          BY <4>2, <4>3
      <3>4. CASE users' = [users EXCEPT ![nextUser] = Administrator(e, era)]
        BY <2>1, <3>2, <3>4
      <3> QED
        BY <3>1, <3>3, <3>4 DEF SetupFirst
    <2>7. CASE users' = users
      BY <2>7
    <2>8. CASE \E r \in Handlers : LoginStep(r)
      BY <2>2, <2>7, <2>8
      DEF LoginStep, CallbackTake, CallbackLookup, CallbackDeny, CallbackCycle,
          CallbackSave, tables
    <2>9. CASE \E r \in Handlers : ManageStep(r)
      BY <2>3, <2>4, <2>5, <2>7, <2>9 DEF ManageStep, Manage, Issue, tables
    <2>10. CASE \E r \in Handlers : SetupStep(r)
      BY <2>6, <2>7, <2>10 DEF SetupStep, SetupRead, SetupFlag, tables
    <2>11. CASE \/ \E a \in 1..MaxAttempts :
                     ExpireAttempt(a) \/ \E intent \in Intents : StartLogin(a, intent)
                \/ \E b \in Browsers : Logout(b)
                \/ \E r \in Handlers : SessionStep(r) \/ GiveUp(r)
                \/ Restart
      BY <2>7, <2>11
      DEF ExpireAttempt, StartLogin, Logout, SessionStep, TouchLoad, TouchSave,
          GiveUp, Restart, tables
    <2>12. CASE UNCHANGED vars
      BY <2>7, <2>12 DEF vars
    <2> QED
      BY <2>8, <2>9, <2>10, <2>11, <2>12 DEF Next
  <1> QED
    BY <1>1, AccountsInvariant, PTL DEF Spec, BindingPermanent
=============================================================================
