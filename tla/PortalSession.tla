----------------------------- MODULE PortalSession -----------------------------
(***************************************************************************)
(* The portal context (portal.rs): the device a browser was sent with, for *)
(* ten minutes and one use.  It lives in the browser's session, and a      *)
(* login carries a copy of it through oauth_attempts (auth.rs).  A request *)
(* works on the copy of the session it loaded, and the whole copy is       *)
(* written back after the reply, unless that is a 5xx.  The session of a   *)
(* browser is the record its cookie names; setup has been done.            *)
(***************************************************************************)
EXTENDS Naturals, Sequences

CONSTANTS
    Browsers,
    Handlers,       \* slots of concurrently running requests
    Ids,            \* what the id parameter may hold, as sequences of characters
    MacDigits,      \* hexadecimal digits of a MAC address (12)
    Lifetime,       \* of a context, and of a login attempt (10 minutes)
    None,
    MaxVisits,      \* bound: visits of the portal
    MaxCopies,      \* bound: contexts made by visits and copied by logins
    MaxAttempts,    \* bound: logins started
    MaxTime         \* bound: the clock stops here

ASSUME PortalAssumption ==
    /\ MacDigits \in Nat /\ Lifetime \in Nat \ {0} /\ MaxTime \in Nat
    /\ MaxVisits \in Nat /\ MaxCopies \in Nat /\ MaxAttempts \in Nat
    /\ None \notin Browsers

VARIABLES
    now,
    store,          \* the session of each browser
    attempts,       \* the logins started, in order
    req,
    visits,         \* ghost: the visits, in order
    made,           \* ghost: the visit each copy of a context stems from
    answered,       \* ghost: requests answered below 500 that used the copy
    overlapped      \* ghost: copies that two running requests held

vars == <<now, store, attempts, req, visits, made, answered, overlapped>>

-----------------------------------------------------------------------------
(* normalize_mac *)

Upper == [c \in {"a", "b", "c", "d", "e", "f"} |->
            CASE c = "a" -> "A" [] c = "b" -> "B" [] c = "c" -> "C"
              [] c = "d" -> "D" [] c = "e" -> "E" [] c = "f" -> "F"]

Hex == {"0", "1", "2", "3", "4", "5", "6", "7", "8", "9",
        "A", "B", "C", "D", "E", "F"}
OddHex == {"1", "3", "5", "7", "9", "B", "D", "F"}

Separated(c) == c \in {":", "-"}

\* Mutant: the letters keep their case.
UpperCaseKept(c) == c

UpperCase(c) == IF c \in DOMAIN Upper THEN Upper[c] ELSE c

\* The id without its separators.
Raw(id) == SelectSeq(id, LAMBDA c : ~Separated(c))

\* The address in its one spelling, None if it is not that of a single device:
\* the low bit of the first byte marks a group.
NormalizeMac(id) ==
    LET raw    == Raw(id)
        digits == [i \in DOMAIN raw |-> UpperCase(raw[i])]
        single == /\ Len(raw) = MacDigits
                  /\ \A i \in DOMAIN raw : raw[i] \in Hex \cup DOMAIN Upper
                  /\ UpperCase(raw[2]) \notin OddHex
                  /\ \E i \in DOMAIN raw : raw[i] # "0"
    IN  IF single THEN digits ELSE None

Macs == {NormalizeMac(id) : id \in Ids} \ {None}

-----------------------------------------------------------------------------
Copies == 1..MaxCopies

\* copy is a ghost: which of the copies this is.  NoContext stands for a
\* session without one.
Context == [copy : Copies \cup {0}, mac : Macs \cup {None}, until : Nat,
            used : BOOLEAN]

NoContext == [copy |-> 0, mac |-> None, until |-> 0, used |-> TRUE]

Session == [ctx : Context, user : BOOLEAN, csrf : BOOLEAN]

NoSession == [ctx |-> NoContext, user |-> FALSE, csrf |-> FALSE]

\* pc: "page" has a page to answer, "redeem" and "staff" have used the context
\* and run redeem_coupon or authorize_staff, "login" waits for Google, "landed"
\* has cycled the session.  copy is the one the request will use or write back.
Request == [pc : {"idle", "page", "redeem", "staff", "login", "landed"},
            browser : Browsers \cup {None}, session : Session,
            ctx : Context, copy : Copies \cup {0}, at : Nat]

NoRequest == [pc |-> "idle", browser |-> None, session |-> NoSession,
              ctx |-> NoContext, copy |-> 0, at |-> 0]

Attempt == [open : BOOLEAN, ctx : Context, until : Nat]

\* Type invariant.
TypeOK ==
    /\ now \in 0..MaxTime
    /\ store \in [Browsers -> Session]
    /\ attempts \in Seq(Attempt) /\ Len(attempts) <= MaxAttempts
    /\ req \in [Handlers -> Request]
    /\ visits \in Seq([id : Ids, mac : Macs, at : Nat]) /\ Len(visits) <= MaxVisits
    /\ made \in Seq(Nat) /\ Len(made) <= MaxCopies
    /\ answered \in [Copies -> Nat]
    /\ overlapped \subseteq Copies

Init ==
    /\ now = 0
    /\ store = [b \in Browsers |-> NoSession]
    /\ attempts = <<>>
    /\ req = [r \in Handlers |-> NoRequest]
    /\ visits = <<>>
    /\ made = <<>>
    /\ answered = [t \in Copies |-> 0]
    /\ overlapped = {}

-----------------------------------------------------------------------------
(* Shared pieces *)

\* A request of browser b runs on the session it has loaded or made of it.
Begin(r, b, pc, session, copy) ==
    /\ req[r].pc = "idle"
    /\ req' = [req EXCEPT ![r] = [pc |-> pc, browser |-> b, session |-> session,
                   ctx |-> NoContext, copy |-> copy,
                   at |-> IF pc \in {"redeem", "staff"} THEN now ELSE 0]]

\* The copy a session offers for use, 0 for none.
Offered(session) == IF session.ctx.used THEN 0 ELSE session.ctx.copy

\* Ghost: browser b's context is loaded while another request holds it.
MarkOverlap(r, b) ==
    overlapped' = overlapped \cup
        {t \in Copies : /\ Offered(store[b]) = t
                        /\ \E q \in Handlers \ {r} : req[q].copy = t}

\* Mutant: the record becomes the context alone.
WriteContext(r) == store' = [store EXCEPT ![req[r].browser] = req[r].session.ctx]

\* The reply is below 500: the copy of the session replaces the record.
WriteBack(r) == store' = [store EXCEPT ![req[r].browser] = req[r].session]

-----------------------------------------------------------------------------
(* The portal *)

\* portal_get, or home with an id: the context is put into the session.
PortalGet(r, b, id) ==
    LET t == Len(made) + 1
    IN  /\ NormalizeMac(id) # None
        /\ Len(visits) < MaxVisits /\ t <= MaxCopies
        /\ Begin(r, b, "page",
                 [store[b] EXCEPT !.ctx = [copy |-> t, mac |-> NormalizeMac(id),
                                           until |-> now + Lifetime, used |-> FALSE]], t)
        /\ visits' = Append(visits, [id |-> id, mac |-> NormalizeMac(id), at |-> now])
        /\ made' = Append(made, Len(visits) + 1)
        /\ UNCHANGED <<now, store, attempts, answered, overlapped>>

\* guard on the first management page of a session adds a CSRF token to it.
ManagePage(r, b) ==
    /\ store[b].user /\ ~store[b].csrf
    /\ Begin(r, b, "page", [store[b] EXCEPT !.csrf = TRUE], Offered(store[b]))
    /\ MarkOverlap(r, b)
    /\ UNCHANGED <<now, store, attempts, visits, made, answered>>

\* A page is answered.
Answer(r) ==
    /\ req[r].pc \in {"page", "landed"}
    /\ WriteBack(r)
    /\ req' = [req EXCEPT ![r] = NoRequest]
    /\ UNCHANGED <<now, attempts, visits, made, answered, overlapped>>

\* Mutant: the mark is not looked at.
ConsumableAgain(ctx) == ctx.until > now

\* PortalContext::consume succeeds.
Consumable(ctx) == ~ctx.used /\ ctx.until > now

\* The context is taken from the session, used, and put back into the copy.
Use(r, b, pc) ==
    /\ Consumable(store[b].ctx)
    /\ Begin(r, b, pc, [store[b] EXCEPT !.ctx.used = TRUE], store[b].ctx.copy)
    /\ MarkOverlap(r, b)
    /\ UNCHANGED <<now, store, attempts, visits, made, answered>>

CouponRedeem(r, b) == Use(r, b, "redeem")

StaffAuthorize(r, b) == store[b].user /\ Use(r, b, "staff")

\* redeem_coupon or authorize_staff has returned, and the reply is below 500:
\* for a coupon also when it was refused.
Used(r) ==
    /\ req[r].pc \in {"redeem", "staff"}
    /\ WriteBack(r)
    /\ answered' = [answered EXCEPT ![req[r].copy] = @ + 1]
    /\ req' = [req EXCEPT ![r] = NoRequest]
    /\ UNCHANGED <<now, attempts, visits, made, overlapped>>

-----------------------------------------------------------------------------
(* Login *)

\* Mutant: a login starts the ten minutes again.
CarriedFresh(ctx) == [ctx EXCEPT !.until = now + Lifetime]

\* What an attempt's row keeps of a context, and a callback takes from it.
Carried(ctx) == ctx

\* auth::start with intent PORTAL: an attempt with a copy of the context.
StartPortalLogin(b) ==
    LET ctx  == store[b].ctx
        t    == Len(made) + 1
        copy == IF ctx.used THEN ctx ELSE [Carried(ctx) EXCEPT !.copy = t]
    IN  /\ Len(attempts) < MaxAttempts
        /\ ~ctx.used => t <= MaxCopies
        /\ attempts' = Append(attempts, [open |-> TRUE, ctx |-> copy,
                                         until |-> now + Lifetime])
        /\ made' = IF ctx.used THEN made ELSE Append(made, made[ctx.copy])
        /\ UNCHANGED <<now, store, req, visits, answered, overlapped>>

\* The same with intent MANAGEMENT: no context.
StartLogin ==
    /\ Len(attempts) < MaxAttempts
    /\ attempts' = Append(attempts, [open |-> TRUE, ctx |-> NoContext,
                                     until |-> now + Lifetime])
    /\ UNCHANGED <<now, store, req, visits, made, answered, overlapped>>

\* callback: DELETE ... RETURNING, then Google is asked.
Callback(r, b, a) ==
    LET row == attempts[a]
    IN  /\ req[r].pc = "idle"
        /\ row.open /\ row.until > now
        /\ attempts' = [attempts EXCEPT ![a].open = FALSE]
        /\ req' = [req EXCEPT ![r] =
                     [NoRequest EXCEPT !.pc = "login", !.browser = b, !.ctx = row.ctx,
                          !.copy = IF row.ctx.used THEN 0 ELSE row.ctx.copy]]
        /\ UNCHANGED <<now, store, visits, made, answered, overlapped>>

\* The user is approved.  cycle_id loads the session and deletes the record;
\* user, role and the attempt's context go into the copy.
CallbackCycle(r) ==
    LET b    == req[r].browser
        none == req[r].ctx = NoContext
    IN  /\ req[r].pc = "login"
        /\ req' = [req EXCEPT
               ![r].pc = "landed",
               ![r].session = [ctx |-> IF none THEN store[b].ctx ELSE req[r].ctx,
                               user |-> TRUE, csrf |-> store[b].csrf],
               ![r].copy = IF none THEN Offered(store[b]) ELSE @]
        /\ store' = [store EXCEPT ![b] = NoSession]
        /\ IF none THEN MarkOverlap(r, b) ELSE UNCHANGED overlapped
        /\ UNCHANGED <<now, attempts, visits, made, answered>>

\* flush.
Logout(b) ==
    /\ store' = [store EXCEPT ![b] = NoSession]
    /\ UNCHANGED <<now, attempts, req, visits, made, answered, overlapped>>

-----------------------------------------------------------------------------
\* A 5xx, or the handler's future dropped: the session is not saved, so a
\* context the request had used may be used again.
GiveUp(r) ==
    /\ req[r].pc # "idle"
    /\ req' = [req EXCEPT ![r] = NoRequest]
    /\ UNCHANGED <<now, store, attempts, visits, made, answered, overlapped>>

Restart ==
    /\ req' = [r \in Handlers |-> NoRequest]
    /\ UNCHANGED <<now, store, attempts, visits, made, answered, overlapped>>

Tick ==
    /\ now < MaxTime
    /\ now' = now + 1
    /\ UNCHANGED <<store, attempts, req, visits, made, answered, overlapped>>

Arrive(r, b) ==
    \/ \E id \in Ids : PortalGet(r, b, id)
    \/ ManagePage(r, b) \/ CouponRedeem(r, b) \/ StaffAuthorize(r, b)
    \/ \E a \in DOMAIN attempts : Callback(r, b, a)

Next ==
    \/ \E r \in Handlers :
          \/ \E b \in Browsers : Arrive(r, b)
          \/ Answer(r) \/ Used(r) \/ CallbackCycle(r) \/ GiveUp(r)
    \/ \E b \in Browsers : StartPortalLogin(b) \/ Logout(b)
    \/ StartLogin \/ Restart \/ Tick

Spec == Init /\ [][Next]_vars

-----------------------------------------------------------------------------
(* Properties *)

\* A context answers one request (consume), and so does each copy a login
\* carries away, unless two running requests of the session held it at once.
UsedOnce == \A t \in Copies : t \notin overlapped => answered[t] <= 1

\* Whatever sessions, logins and late write-backs it went through, the device
\* for which a request goes on to ask for access is one that was sent to the
\* portal, and within ten minutes of that (consume, start, callback).
PresentedInTime ==
    \A r \in Handlers : req[r].pc \in {"redeem", "staff"} =>
        LET visit == visits[made[req[r].copy]]
        IN  req[r].session.ctx.mac = visit.mac /\ req[r].at < visit.at + Lifetime

\* The number each character of an address stands for.
Numeral ==
    [c \in Hex \cup DOMAIN Upper |->
        CASE c = "0" -> 0 [] c = "1" -> 1 [] c = "2" -> 2 [] c = "3" -> 3
          [] c = "4" -> 4 [] c = "5" -> 5 [] c = "6" -> 6 [] c = "7" -> 7
          [] c = "8" -> 8 [] c = "9" -> 9
          [] c \in {"a", "A"} -> 10 [] c \in {"b", "B"} -> 11 [] c \in {"c", "C"} -> 12
          [] c \in {"d", "D"} -> 13 [] c \in {"e", "E"} -> 14 [] c \in {"f", "F"} -> 15]

\* The address an id spells, digit by digit.
Address(id) == [i \in DOMAIN Raw(id) |-> Numeral[Raw(id)[i]]]

\* Every visit is that of a single device, and the session names it in one way,
\* however its address is spelled, so that the unique indices on client_mac see
\* one device as one and two as two (normalize_mac).
OneNamePerDevice ==
    \A i, j \in DOMAIN visits :
        LET address == Address(visits[i].id)
        IN  /\ 2 \in DOMAIN address => address[2] % 2 = 0
            /\ \E k \in DOMAIN address : address[k] # 0
            /\ visits[i].mac = visits[j].mac <=> address = Address(visits[j].id)
=============================================================================
