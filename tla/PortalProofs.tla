------------------------------ MODULE PortalProofs ------------------------------
(* Proofs about PortalSession: any browsers, requests, visits and logins.      *)
EXTENDS PortalSession, SequenceTheorems, TLAPS

\* The contexts that a visit made, with its device and its time.
Genuine ==
    {x \in Context :
        /\ x.copy = 0 => x.used
        /\ x.copy # 0 =>
              /\ x.copy \in 1..Len(made) /\ made[x.copy] \in 1..Len(visits)
              /\ x.mac = visits[made[x.copy]].mac
              /\ x.until = visits[made[x.copy]].at + Lifetime}

\* What the copy of a request is.
Holding(q) ==
    /\ q.pc = "idle" => q.copy = 0
    /\ q.pc # "idle" => q.browser \in Browsers
    /\ q.pc \in {"page", "landed"} => q.copy = Offered(q.session)
    /\ q.pc = "login" => q.copy = IF q.ctx.used THEN 0 ELSE q.ctx.copy
    /\ q.pc \in {"redeem", "staff"} =>
          /\ q.session.ctx.used /\ q.copy = q.session.ctx.copy /\ q.copy # 0
          /\ q.at < q.session.ctx.until

GenuineSessions == {s \in Session : s.ctx \in Genuine}
GenuineAttempts == {a \in Attempt : a.ctx \in Genuine}
GenuineRequests ==
    {q \in Request : q.ctx \in Genuine /\ q.session \in GenuineSessions /\ Holding(q)}

ContextInv ==
    /\ TypeOK
    /\ made \in Seq(1..Len(visits))
    /\ store \in [Browsers -> GenuineSessions]
    /\ attempts \in Seq(GenuineAttempts)
    /\ req \in [Handlers -> GenuineRequests]

-----------------------------------------------------------------------------
(* Every context stems from a visit *)

LEMMA IdleGenuine ==
    NoContext \in Genuine /\ NoSession \in GenuineSessions /\ NoRequest \in GenuineRequests
  <1>1. NoContext \in Genuine
    BY DEF NoContext, Genuine, Context
  <1>2. NoSession \in GenuineSessions
    BY <1>1 DEF NoSession, GenuineSessions, Session, Genuine
  <1>3. NoRequest \in Request /\ Holding(NoRequest)
    BY <1>1, <1>2 DEF NoRequest, Request, GenuineSessions, Genuine, Holding
  <1>4. NoRequest.ctx = NoContext /\ NoRequest.session = NoSession
    BY DEF NoRequest
  <1> QED
    BY <1>1, <1>2, <1>3, <1>4 DEF GenuineRequests

LEMMA InitContextInv == Init => ContextInv
  <1> SUFFICES ASSUME Init PROVE ContextInv
    OBVIOUS
  <1>1. /\ store \in [Browsers -> GenuineSessions] /\ req \in [Handlers -> GenuineRequests]
        /\ store \in [Browsers -> Session] /\ req \in [Handlers -> Request]
    BY IdleGenuine DEF Init, GenuineSessions, GenuineRequests
  <1>2. /\ attempts \in Seq(GenuineAttempts) /\ attempts \in Seq(Attempt)
        /\ Len(attempts) = 0 /\ Len(visits) = 0 /\ Len(made) = 0
        /\ visits \in Seq([id : Ids, mac : Macs, at : Nat])
        /\ made \in Seq(Nat) /\ made \in Seq(1..Len(visits))
    BY EmptySeq DEF Init
  <1>3. now \in 0..MaxTime /\ answered \in [Copies -> Nat] /\ overlapped \subseteq Copies
    BY PortalAssumption DEF Init
  <1> QED
    BY <1>1, <1>2, <1>3, PortalAssumption DEF ContextInv, TypeOK

\* Visits and copies are only added, so what was genuine remains so.
LEMMA GenuineKept ==
    ASSUME ContextInv,
           \/ UNCHANGED <<visits, made>>
           \/ UNCHANGED visits /\ \E n \in 1..Len(visits) : made' = Append(made, n)
           \/ /\ \E v \in [id : Ids, mac : Macs, at : Nat] : visits' = Append(visits, v)
              /\ made' = Append(made, Len(visits) + 1)
    PROVE  /\ Genuine \subseteq Genuine'
           /\ GenuineSessions \subseteq GenuineSessions'
           /\ GenuineAttempts \subseteq GenuineAttempts'
           /\ GenuineRequests \subseteq GenuineRequests'
           /\ made' \in Seq(1..Len(visits'))
           /\ visits' \in Seq([id : Ids, mac : Macs, at : Nat])
  <1> DEFINE V == [id : Ids, mac : Macs, at : Nat]
  <1>1. visits \in Seq(V) /\ made \in Seq(1..Len(visits))
    BY DEF ContextInv, TypeOK
  <1>2. Len(visits) \in Nat /\ Len(made) \in Nat
    BY <1>1, LenProperties
  <1> HIDE DEF V
  <1>3. /\ visits' \in Seq(V) /\ Len(visits') >= Len(visits) /\ Len(visits') \in Nat
        /\ \A i \in 1..Len(visits) : visits'[i] = visits[i]
    <2>1. CASE visits' = visits
      BY <1>1, <1>2, <2>1
    <2>2. CASE \E v \in V : visits' = Append(visits, v)
      BY <1>1, <1>2, <2>2
    <2> QED
      BY <2>1, <2>2 DEF V
  <1>4. made \in Seq(1..Len(visits'))
    BY <1>1, <1>2, <1>3, SeqMonotonic
  <1>5. /\ made' \in Seq(1..Len(visits')) /\ Len(made') >= Len(made) /\ Len(made') \in Nat
        /\ \A i \in 1..Len(made) : made'[i] = made[i]
    <2>1. CASE made' = made
      BY <1>2, <1>4, <2>1
    <2>2. CASE \E n \in 1..Len(visits') : made' = Append(made, n)
      BY <1>2, <1>4, <2>2
    <2>3. ASSUME NEW v \in V, visits' = Append(visits, v)
          PROVE  Len(visits) + 1 \in 1..Len(visits')
      BY <1>1, <1>2, <2>3
    <2> QED
      BY <1>2, <1>3, <2>1, <2>2, <2>3 DEF V
  <1>a. ASSUME NEW m \in Nat, NEW n \in Nat, m <= n
        PROVE  1..m \subseteq 1..n
    BY <1>a
  <1>b. 1..Len(made) \subseteq 1..Len(made') /\ 1..Len(visits) \subseteq 1..Len(visits')
    BY <1>2, <1>3, <1>5, <1>a
  <1>6. Genuine \subseteq Genuine'
    <2> SUFFICES ASSUME NEW x \in Genuine PROVE x \in Genuine'
      OBVIOUS
    <2>1. CASE x.copy = 0
      BY <2>1 DEF Genuine
    <2>2. CASE x.copy # 0
      <3>1. /\ x \in Context /\ x.copy \in 1..Len(made) /\ made[x.copy] \in 1..Len(visits)
            /\ x.mac = visits[made[x.copy]].mac
            /\ x.until = visits[made[x.copy]].at + Lifetime
        BY <2>2 DEF Genuine
      <3>2. x.copy \in 1..Len(made') /\ made'[x.copy] = made[x.copy]
        BY <1>5, <1>b, <3>1, Zenon
      <3>3. /\ made[x.copy] \in 1..Len(visits')
            /\ visits'[made[x.copy]] = visits[made[x.copy]]
        BY <1>3, <1>b, <3>1, Zenon
      <3> QED
        BY <2>2, <3>1, <3>2, <3>3 DEF Genuine
    <2> QED
      BY <2>1, <2>2
  <1>7. GenuineSessions \subseteq GenuineSessions' /\ GenuineAttempts \subseteq GenuineAttempts'
    BY <1>6 DEF GenuineSessions, GenuineAttempts
  <1>8. GenuineRequests \subseteq GenuineRequests'
    BY <1>6, <1>7 DEF GenuineRequests
  <1> QED
    BY <1>3, <1>5, <1>6, <1>7, <1>8 DEF V

LEMMA BeginGenuine ==
    ASSUME ContextInv, NEW r \in Handlers, NEW b \in Browsers,
           GenuineRequests \subseteq GenuineRequests', 
           GenuineSessions \subseteq GenuineSessions',
           NEW pc \in {"page", "redeem", "staff"},
           NEW session \in GenuineSessions', NEW copy, Begin(r, b, pc, session, copy),
           pc = "page" => copy = Offered(session),
           pc # "page" => /\ session.ctx.used /\ copy = session.ctx.copy /\ copy # 0
                          /\ now < session.ctx.until
    PROVE  req' \in [Handlers -> GenuineRequests']
  <1>1. NoContext \in Genuine'
    BY DEF NoContext, Genuine, Context
  <1>2. session \in Session /\ session.ctx \in Context /\ now \in Nat
    BY PortalAssumption DEF GenuineSessions, Session, ContextInv, TypeOK
  <1>3. copy \in Copies \cup {0}
    BY <1>2 DEF Offered, Context
  <1> DEFINE q == [pc |-> pc, browser |-> b, session |-> session, ctx |-> NoContext,
                   copy |-> copy, at |-> IF pc \in {"redeem", "staff"} THEN now ELSE 0]
  <1>4. q \in Request
    BY <1>1, <1>2, <1>3 DEF Request, Genuine
  <1>5. Holding(q)
    BY DEF Holding
  <1>6. q.ctx = NoContext /\ q.session = session
    OBVIOUS
  <1>7. req' = [req EXCEPT ![r] = q] /\ req \in [Handlers -> GenuineRequests]
    BY DEF Begin, ContextInv
  <1> HIDE DEF q
  <1>8. q \in GenuineRequests'
    BY <1>1, <1>4, <1>5, <1>6 DEF GenuineRequests
  <1> QED
    BY <1>7, <1>8

LEMMA SessionGenuine ==
    ASSUME ContextInv, NEW b \in Browsers
    PROVE  /\ store[b] \in GenuineSessions /\ store[b] \in Session /\ store[b].ctx \in Genuine
           /\ store[b].ctx \in Context /\ Offered(store[b]) \in Copies \cup {0}
  BY DEF ContextInv, GenuineSessions, Session, Offered, Genuine, Context

LEMMA RequestGenuine ==
    ASSUME ContextInv, NEW r \in Handlers
    PROVE  /\ req[r] \in GenuineRequests /\ req[r] \in Request /\ Holding(req[r])
           /\ req[r].ctx \in Genuine /\ req[r].ctx \in Context
           /\ req[r].session \in GenuineSessions /\ req[r].session \in Session
           /\ req[r].session.ctx \in Genuine
           /\ req[r].copy \in Copies \cup {0}
  BY DEF ContextInv, GenuineRequests, GenuineSessions, Request, Genuine

\* Steps that make no context.
LEMMA KeptContextInv ==
    ASSUME ContextInv, UNCHANGED <<visits, made>>,
           now' \in 0..MaxTime,
           store' \in [Browsers -> GenuineSessions],
           attempts' \in Seq(GenuineAttempts), Len(attempts') <= MaxAttempts,
           req' \in [Handlers -> GenuineRequests],
           answered' \in [Copies -> Nat], overlapped' \subseteq Copies
    PROVE  ContextInv'
  <1>1. /\ Genuine' = Genuine /\ GenuineSessions' = GenuineSessions
        /\ GenuineAttempts' = GenuineAttempts /\ GenuineRequests' = GenuineRequests
    BY DEF Genuine, GenuineSessions, GenuineAttempts, GenuineRequests
  <1>2. /\ store' \in [Browsers -> Session] /\ req' \in [Handlers -> Request]
    BY DEF GenuineSessions, GenuineRequests
  <1>3. attempts' \in Seq(Attempt)
    BY SeqMonotonic DEF GenuineAttempts
  <1> QED
    BY <1>1, <1>2, <1>3 DEF ContextInv, TypeOK

LEMMA PortalGetContextInv ==
    ASSUME ContextInv, NEW r \in Handlers, NEW b \in Browsers, NEW id \in Ids,
           PortalGet(r, b, id)
    PROVE  ContextInv'
  <1> DEFINE V == [id : Ids, mac : Macs, at : Nat]
             v == [id |-> id, mac |-> NormalizeMac(id), at |-> now]
             t == Len(made) + 1
             x == [copy |-> t, mac |-> NormalizeMac(id), until |-> now + Lifetime,
                   used |-> FALSE]
             s == [store[b] EXCEPT !.ctx = x]
  <1>1. /\ NormalizeMac(id) \in Macs /\ now \in Nat /\ Lifetime \in Nat /\ MaxCopies \in Nat
        /\ t <= MaxCopies /\ Len(visits) < MaxVisits
        /\ Begin(r, b, "page", s, t)
        /\ visits' = Append(visits, v) /\ made' = Append(made, Len(visits) + 1)
        /\ UNCHANGED <<now, store, attempts, answered, overlapped>>
    BY PortalAssumption DEF PortalGet, Macs, ContextInv, TypeOK
  <1>2. /\ visits \in Seq(V) /\ made \in Seq(1..Len(visits))
        /\ Len(visits) \in Nat /\ Len(made) \in Nat
    BY LenProperties DEF ContextInv, TypeOK
  <1>3. v \in V
    BY <1>1
  <1>4. /\ Genuine \subseteq Genuine'
        /\ GenuineSessions \subseteq GenuineSessions'
        /\ GenuineAttempts \subseteq GenuineAttempts'
        /\ GenuineRequests \subseteq GenuineRequests'
        /\ made' \in Seq(1..Len(visits')) /\ visits' \in Seq(V)
    BY <1>1, <1>3, GenuineKept
  <1> HIDE DEF v, V
  <1>5. /\ Len(visits') = Len(visits) + 1 /\ visits'[Len(visits) + 1] = v
        /\ Len(made') = t /\ made'[t] = Len(visits) + 1
    BY <1>1, <1>2
  <1>6. /\ x \in Context /\ x.copy = t /\ x.mac = NormalizeMac(id)
        /\ x.until = now + Lifetime /\ x.used = FALSE
    BY <1>1, <1>2 DEF Context, Copies
  <1>7. v.mac = NormalizeMac(id) /\ v.at = now
    BY DEF v
  <1> HIDE DEF x
  <1>8. x \in Genuine'
    BY <1>2, <1>5, <1>6, <1>7 DEF Genuine
  <1>9. s \in Session /\ s.ctx = x
    BY <1>6, SessionGenuine DEF Session
  <1>10. s \in GenuineSessions' /\ t = Offered(s)
    BY <1>6, <1>8, <1>9 DEF GenuineSessions, Offered
  <1> HIDE DEF s
  <1>11. req' \in [Handlers -> GenuineRequests']
    BY <1>1, <1>4, <1>10, BeginGenuine
  <1>12. store' \in [Browsers -> GenuineSessions'] /\ attempts' \in Seq(GenuineAttempts')
    BY <1>1, <1>4, SeqMonotonic DEF ContextInv
  <1>13. TypeOK'
    <2>1. req' \in [Handlers -> Request]
      BY <1>11 DEF GenuineRequests
    <2>2. made' \in Seq(Nat) /\ Len(made') <= MaxCopies /\ Len(visits') <= MaxVisits
      BY <1>1, <1>2, <1>4, <1>5, SeqMonotonic, PortalAssumption
    <2> QED
      BY <1>1, <1>4, <2>1, <2>2 DEF ContextInv, TypeOK, V
  <1> QED
    BY <1>4, <1>11, <1>12, <1>13 DEF ContextInv

LEMMA BrowserStepContextInv ==
    ASSUME ContextInv, NEW r \in Handlers, NEW b \in Browsers,
           ManagePage(r, b) \/ CouponRedeem(r, b) \/ StaffAuthorize(r, b)
    PROVE  ContextInv'
  <1>1. /\ UNCHANGED <<now, store, attempts, visits, made, answered>>
        /\ overlapped' \subseteq Copies
    BY DEF ManagePage, CouponRedeem, StaffAuthorize, Use, MarkOverlap, ContextInv, TypeOK
  <1>2. GenuineRequests' = GenuineRequests /\ GenuineSessions' = GenuineSessions
    BY <1>1 DEF GenuineRequests, GenuineSessions, Genuine
  <1>3. req' \in [Handlers -> GenuineRequests]
    <2>1. CASE ManagePage(r, b)
      <3> DEFINE s == [store[b] EXCEPT !.csrf = TRUE]
      <3>1. s \in GenuineSessions /\ Offered(s) = Offered(store[b])
        BY SessionGenuine DEF GenuineSessions, Session, Offered
      <3>2. Begin(r, b, "page", s, Offered(store[b]))
        BY <2>1 DEF ManagePage
      <3> HIDE DEF s
      <3> QED
        BY <1>2, <3>1, <3>2, BeginGenuine
    <2>2. ASSUME NEW pc \in {"redeem", "staff"}, Use(r, b, pc)
          PROVE  req' \in [Handlers -> GenuineRequests]
      <3> DEFINE s == [store[b] EXCEPT !.ctx.used = TRUE]
      <3>1. Begin(r, b, pc, s, store[b].ctx.copy) /\ Consumable(store[b].ctx)
        BY <2>2 DEF Use
      <3>2. /\ s.ctx = [store[b].ctx EXCEPT !.used = TRUE]
            /\ s.user = store[b].user /\ s.csrf = store[b].csrf
        BY SessionGenuine DEF Session
      <3>3. s.ctx \in Context /\ s \in Session
        BY SessionGenuine, <3>2 DEF Session, Context
      <3>4. /\ s.ctx.used = TRUE /\ s.ctx.copy = store[b].ctx.copy
            /\ s.ctx.mac = store[b].ctx.mac /\ s.ctx.until = store[b].ctx.until
        BY SessionGenuine, <3>2 DEF Context
      <3>5. s.ctx \in Genuine
        BY SessionGenuine, <3>3, <3>4 DEF Genuine
      <3>6. store[b].ctx.copy # 0 /\ now < store[b].ctx.until
        BY SessionGenuine, <3>1, PortalAssumption
        DEF Consumable, Genuine, Context, ContextInv, TypeOK
      <3>7. s \in GenuineSessions
        BY <3>3, <3>5 DEF GenuineSessions
      <3> HIDE DEF s
      <3> QED
        BY <1>2, <3>1, <3>4, <3>6, <3>7, BeginGenuine
    <2> QED
      BY <2>1, <2>2 DEF CouponRedeem, StaffAuthorize
  <1> QED
    BY <1>1, <1>3, KeptContextInv DEF ContextInv, TypeOK

LEMMA AnswerContextInv ==
    ASSUME ContextInv, NEW r \in Handlers, Answer(r) \/ Used(r)
    PROVE  ContextInv'
  <1>1. /\ UNCHANGED <<now, attempts, visits, made, overlapped>>
        /\ req' = [req EXCEPT ![r] = NoRequest]
        /\ store' = [store EXCEPT ![req[r].browser] = req[r].session]
    BY DEF Answer, Used, WriteBack
  <1>2. req' \in [Handlers -> GenuineRequests] /\ store' \in [Browsers -> GenuineSessions]
    BY <1>1, IdleGenuine, RequestGenuine DEF ContextInv
  <1>3. answered' \in [Copies -> Nat]
    <2>1. CASE Answer(r)
      BY <2>1 DEF Answer, ContextInv, TypeOK
    <2>2. CASE Used(r)
      <3>1. answered \in [Copies -> Nat] /\ answered' = [answered EXCEPT ![req[r].copy] = @ + 1]
        BY <2>2 DEF Used, ContextInv, TypeOK
      <3>2. \A t \in Copies : answered[t] + 1 \in Nat
        BY <3>1
      <3> QED
        BY <3>1, <3>2
    <2> QED
      BY <2>1, <2>2
  <1> QED
    BY <1>1, <1>2, <1>3, KeptContextInv DEF ContextInv, TypeOK

LEMMA AttemptContextInv ==
    ASSUME ContextInv, NEW ctx \in Genuine, UNCHANGED <<visits, made>>,
           UNCHANGED <<now, store, req, answered, overlapped>>,
           Len(attempts) < MaxAttempts,
           attempts' = Append(attempts, [open |-> TRUE, ctx |-> ctx, until |-> now + Lifetime])
    PROVE  ContextInv'
  <1> DEFINE a == [open |-> TRUE, ctx |-> ctx, until |-> now + Lifetime]
  <1>1. a \in GenuineAttempts
    BY PortalAssumption DEF GenuineAttempts, Attempt, Genuine, ContextInv, TypeOK
  <1>2. attempts \in Seq(GenuineAttempts) /\ Len(attempts) \in Nat /\ MaxAttempts \in Nat
    BY LenProperties, PortalAssumption DEF ContextInv
  <1> HIDE DEF a
  <1>3. attempts' = Append(attempts, a)
    BY DEF a
  <1>4. attempts' \in Seq(GenuineAttempts) /\ Len(attempts') <= MaxAttempts
    BY <1>1, <1>2, <1>3
  <1> QED
    BY <1>4, KeptContextInv DEF ContextInv, TypeOK

LEMMA StartPortalLoginContextInv ==
    ASSUME ContextInv, NEW b \in Browsers, StartPortalLogin(b)
    PROVE  ContextInv'
  <1>1. CASE store[b].ctx.used
    BY <1>1, SessionGenuine, AttemptContextInv DEF StartPortalLogin
  <1>2. CASE ~store[b].ctx.used
    <2>0. PICK y \in Context : y = store[b].ctx
      BY SessionGenuine
    <2>1. PICK n, x, a, t :
             /\ n = made[y.copy] /\ x = [y EXCEPT !.copy = t] /\ t = Len(made) + 1
             /\ a = [open |-> TRUE, ctx |-> x, until |-> now + Lifetime]
             /\ UNCHANGED <<now, store, req, visits, answered, overlapped>>
             /\ t <= MaxCopies /\ Len(attempts) < MaxAttempts
             /\ made' = Append(made, n) /\ attempts' = Append(attempts, a)
      BY <1>2, <2>0 DEF StartPortalLogin, Carried
    <2>2. /\ y.copy \in 1..Len(made) /\ n \in 1..Len(visits)
          /\ y.mac = visits[n].mac /\ y.until = visits[n].at + Lifetime
      BY <1>2, <2>0, <2>1, SessionGenuine DEF Genuine
    <2>3. /\ visits \in Seq([id : Ids, mac : Macs, at : Nat]) /\ made \in Seq(1..Len(visits))
          /\ Len(visits) \in Nat /\ Len(made) \in Nat
          /\ attempts \in Seq(GenuineAttempts) /\ Len(attempts) \in Nat
          /\ now \in Nat /\ Lifetime \in Nat /\ MaxCopies \in Nat /\ MaxAttempts \in Nat
      BY LenProperties, PortalAssumption DEF ContextInv, TypeOK
    <2>4. /\ x \in Context /\ x.copy = t /\ x.mac = y.mac
          /\ x.until = y.until /\ t # 0
      <3>1. t \in Copies /\ t # 0
        BY <2>1, <2>3 DEF Copies
      <3> QED
        BY <2>0, <2>1, <3>1 DEF Context
    <2>5. /\ Genuine \subseteq Genuine'
          /\ GenuineSessions \subseteq GenuineSessions'
          /\ GenuineAttempts \subseteq GenuineAttempts'
          /\ GenuineRequests \subseteq GenuineRequests'
          /\ made' \in Seq(1..Len(visits'))
      BY <2>1, <2>2, GenuineKept
    <2>6. Len(made') = t /\ made'[t] = n
      BY <2>1, <2>2, <2>3
    <2>7. x \in Genuine'
      <3>1. /\ x \in Context /\ x.copy = t /\ t # 0 /\ t \in 1..Len(made')
            /\ made'[t] = n /\ n \in 1..Len(visits') /\ visits' = visits
            /\ x.mac = visits[n].mac /\ x.until = visits[n].at + Lifetime
        <4>1. visits' = visits
          BY <2>1
        <4>2. t \in 1..Len(made')
          BY <2>1, <2>3, <2>6
        <4> QED
          BY <2>2, <2>4, <2>6, <4>1, <4>2
      <3> QED
        BY <3>1 DEF Genuine
    <2>8. a \in GenuineAttempts'
      <3>1. now + Lifetime \in Nat /\ a = [open |-> TRUE, ctx |-> x, until |-> now + Lifetime]
        BY <2>1, <2>3
      <3> QED
        BY <2>4, <2>7, <3>1 DEF GenuineAttempts, Attempt
    <2>9. attempts \in Seq(GenuineAttempts')
      BY <2>3, <2>5, SeqMonotonic
    <2>10. attempts' \in Seq(GenuineAttempts') /\ Len(attempts') <= MaxAttempts
      BY <2>1, <2>3, <2>8, <2>9
    <2>11. /\ store' \in [Browsers -> GenuineSessions'] /\ req' \in [Handlers -> GenuineRequests']
      BY <2>1, <2>5 DEF ContextInv
    <2>12. TypeOK'
      <3>1. attempts' \in Seq(Attempt)
        BY <2>10, SeqMonotonic DEF GenuineAttempts
      <3>2. made' \in Seq(Nat)
        BY <2>5, SeqMonotonic
      <3>3. Len(made') <= MaxCopies
        BY <2>1, <2>6
      <3> QED
        BY <3>3, <2>1, <2>10, <3>1, <3>2 DEF ContextInv, TypeOK
    <2> QED
      BY <2>5, <2>10, <2>11, <2>12 DEF ContextInv
  <1> QED
    BY <1>1, <1>2

LEMMA CallbackContextInv ==
    ASSUME ContextInv, NEW r \in Handlers, NEW b \in Browsers, NEW a \in DOMAIN attempts,
           Callback(r, b, a)
    PROVE  ContextInv'
  <1> DEFINE row == attempts[a]
             q == [NoRequest EXCEPT !.pc = "login", !.browser = b, !.ctx = row.ctx,
                      !.copy = IF row.ctx.used THEN 0 ELSE row.ctx.copy]
  <1>1. /\ UNCHANGED <<now, store, visits, made, answered, overlapped>>
        /\ attempts' = [attempts EXCEPT ![a].open = FALSE]
        /\ req' = [req EXCEPT ![r] = q]
    BY DEF Callback
  <1>2. /\ attempts \in Seq(GenuineAttempts) /\ a \in 1..Len(attempts)
        /\ row \in GenuineAttempts /\ row.ctx \in Genuine /\ row.ctx \in Context
    BY LenProperties, ElementOfSeq DEF ContextInv, GenuineAttempts, Genuine
  <1>3. q \in GenuineRequests
    <2>1. /\ q.pc = "login" /\ q.browser = b /\ q.ctx = row.ctx /\ q.session = NoSession
          /\ q.copy = (IF row.ctx.used THEN 0 ELSE row.ctx.copy)
          /\ NoSession \in Session
      BY IdleGenuine DEF NoRequest, GenuineSessions
    <2>2. q \in Request
      BY <1>2, <2>1 DEF NoRequest, Request, Context
    <2> HIDE DEF q
    <2> QED
      BY <1>2, <2>1, <2>2, IdleGenuine DEF GenuineRequests, Holding
  <1>4. [row EXCEPT !.open = FALSE] \in GenuineAttempts
    BY <1>2 DEF GenuineAttempts, Attempt
  <1>5. attempts' \in Seq(GenuineAttempts) /\ Len(attempts') = Len(attempts)
    BY <1>1, <1>2, <1>4, ExceptSeq
  <1> HIDE DEF q
  <1>6. req' \in [Handlers -> GenuineRequests]
    BY <1>1, <1>3 DEF ContextInv
  <1> QED
    BY <1>1, <1>5, <1>6, KeptContextInv DEF ContextInv, TypeOK

LEMMA CallbackCycleContextInv ==
    ASSUME ContextInv, NEW r \in Handlers, CallbackCycle(r)
    PROVE  ContextInv'
  <1> DEFINE b    == req[r].browser
             none == req[r].ctx = NoContext
  <1>0. b \in Browsers
    BY RequestGenuine DEF Holding, CallbackCycle
  <1>1. /\ UNCHANGED <<now, attempts, visits, made, answered>> /\ overlapped' \subseteq Copies
        /\ store' = [store EXCEPT ![b] = NoSession]
    BY DEF CallbackCycle, MarkOverlap, ContextInv, TypeOK
  <1>2. PICK s : s = [ctx |-> IF none THEN store[b].ctx ELSE req[r].ctx,
                      user |-> TRUE, csrf |-> store[b].csrf]
    OBVIOUS
  <1>3. PICK q : /\ q = [req[r] EXCEPT !.pc = "landed", !.session = s,
                             !.copy = IF none THEN Offered(store[b]) ELSE @]
                 /\ req' = [req EXCEPT ![r] = q]
    BY <1>2 DEF CallbackCycle
  <1>4. s \in GenuineSessions /\ Offered(s) \in Copies \cup {0}
    BY <1>0, <1>2, SessionGenuine, RequestGenuine
    DEF GenuineSessions, Session, Offered, Genuine, Context
  <1>5. /\ q.pc = "landed" /\ q.session = s /\ q.ctx = req[r].ctx
        /\ q.browser = req[r].browser /\ q.at = req[r].at
        /\ q.copy = IF none THEN Offered(store[b]) ELSE req[r].copy
    BY <1>3, RequestGenuine DEF Request
  <1>6. q.copy = Offered(s)
    <2>1. CASE none
      BY <1>2, <1>5, <2>1 DEF Offered
    <2>2. CASE ~none
      <3>1. req[r].copy = IF req[r].ctx.used THEN 0 ELSE req[r].ctx.copy
        BY RequestGenuine DEF CallbackCycle, Holding
      <3>2. s.ctx = req[r].ctx
        BY <1>2, <2>2
      <3> QED
        BY <1>5, <2>2, <3>1, <3>2 DEF Offered
    <2> QED
      BY <2>1, <2>2
  <1>7. q \in Request
    BY <1>0, <1>3, <1>4, <1>5, <1>6, RequestGenuine DEF Request, GenuineSessions
  <1>8. q \in GenuineRequests
    BY <1>0, <1>4, <1>5, <1>6, <1>7, RequestGenuine DEF GenuineRequests, Holding
  <1>9. /\ req' \in [Handlers -> GenuineRequests] /\ store' \in [Browsers -> GenuineSessions]
    BY <1>1, <1>3, <1>8, IdleGenuine DEF ContextInv
  <1> QED
    BY <1>1, <1>9, KeptContextInv DEF ContextInv, TypeOK

LEMMA NextContextInv == ContextInv /\ [Next]_vars => ContextInv'
  <1> SUFFICES ASSUME ContextInv, [Next]_vars PROVE ContextInv'
    OBVIOUS
  <1>1. /\ now \in 0..MaxTime /\ attempts \in Seq(GenuineAttempts)
        /\ Len(attempts) <= MaxAttempts /\ answered \in [Copies -> Nat]
        /\ store \in [Browsers -> GenuineSessions] /\ req \in [Handlers -> GenuineRequests]
        /\ overlapped \subseteq Copies
    BY DEF ContextInv, TypeOK
  <1>2. ASSUME NEW r \in Handlers, NEW b \in Browsers, Arrive(r, b) PROVE ContextInv'
    BY <1>2, PortalGetContextInv, BrowserStepContextInv, CallbackContextInv DEF Arrive
  <1>3. ASSUME NEW r \in Handlers, Answer(r) \/ Used(r) \/ CallbackCycle(r)
        PROVE  ContextInv'
    BY <1>3, AnswerContextInv, CallbackCycleContextInv
  <1>4. CASE \E b \in Browsers : StartPortalLogin(b)
    BY <1>4, StartPortalLoginContextInv
  <1>5. CASE StartLogin
    BY <1>5, IdleGenuine, AttemptContextInv DEF StartLogin
  <1>6. ASSUME UNCHANGED <<attempts, visits, made, answered, overlapped>>,
               now' \in 0..MaxTime,
               store' = store \/ \E b \in Browsers : store' = [store EXCEPT ![b] = NoSession],
               \/ req' = req
               \/ req' = [r \in Handlers |-> NoRequest]
               \/ \E r \in Handlers : req' = [req EXCEPT ![r] = NoRequest]
        PROVE  ContextInv'
    <2>1. store' \in [Browsers -> GenuineSessions] /\ req' \in [Handlers -> GenuineRequests]
      BY <1>1, <1>6, IdleGenuine
    <2> QED
      BY <1>1, <1>6, <2>1, KeptContextInv
  <1>7. CASE (\E r \in Handlers : GiveUp(r)) \/ (\E b \in Browsers : Logout(b))
    BY <1>1, <1>6, <1>7 DEF GiveUp, Logout
  <1>8. CASE Restart \/ UNCHANGED vars
    BY <1>1, <1>6, <1>8 DEF Restart, vars
  <1>9. CASE Tick
    <2>1. now' \in 0..MaxTime
      BY <1>1, <1>9, PortalAssumption DEF Tick
    <2> QED
      BY <1>6, <1>9, <2>1 DEF Tick
  <1> QED
    BY <1>2, <1>3, <1>4, <1>5, <1>7, <1>8, <1>9 DEF Next

LEMMA ContextInvariant == Spec => []ContextInv
  BY InitContextInv, NextContextInv, PTL DEF Spec

\* The states of the portal, whatever the numbers of browsers and requests.
THEOREM PortalTyped == Spec => []TypeOK
  <1>1. ContextInv => TypeOK
    BY DEF ContextInv
  <1> QED
    BY ContextInvariant, <1>1, PTL

\* No path through sessions, logins and late write-backs changes a context's
\* device or prolongs it.
THEOREM AccessIsForPresented == Spec => []PresentedInTime
  <1>1. ASSUME ContextInv, NEW r \in Handlers, req[r].pc \in {"redeem", "staff"}
        PROVE  LET visit == visits[made[req[r].copy]]
               IN  req[r].session.ctx.mac = visit.mac /\ req[r].at < visit.at + Lifetime
    BY <1>1, RequestGenuine DEF Holding, Genuine
  <1>2. ContextInv => PresentedInTime
    BY <1>1 DEF PresentedInTime
  <1> QED
    BY ContextInvariant, <1>2, PTL

-----------------------------------------------------------------------------
(* Every copy of a context answers one request *)

\* The requests that hold copy t, the browsers whose session offers it, and the
\* attempts that carry it.
Held(t) == {r \in Handlers : req[r].copy = t}
Kept(t) == {b \in Browsers : Offered(store[b]) = t}
Away(t) ==
    {a \in DOMAIN attempts :
        attempts[a].open /\ ~attempts[a].ctx.used /\ attempts[a].ctx.copy = t}

Single(S) == \A x, y \in S : x = y

\* A copy is in one session with its request, or in one attempt, until it has
\* answered a request.
Alone(t) ==
    /\ Single(Held(t)) /\ Single(Kept(t)) /\ Single(Away(t))
    /\ \A r \in Held(t), b \in Kept(t) : req[r].browser = b
    /\ Away(t) # {} => Held(t) = {} /\ Kept(t) = {}
    /\ answered[t] <= 1
    /\ answered[t] # 0 =>
          t <= Len(made) /\ Held(t) = {} /\ Kept(t) = {} /\ Away(t) = {}

OnceInv == ContextInv /\ \A t \in Copies \ overlapped : Alone(t)

\* What is not made yet is nowhere.
LEMMA FreshNowhere ==
    ASSUME ContextInv, NEW t \in Copies, t > Len(made)
    PROVE  Held(t) = {} /\ Kept(t) = {} /\ Away(t) = {}
  <1>1. t \in Nat /\ t # 0 /\ Len(made) \in Nat
    BY PortalAssumption, LenProperties DEF Copies, ContextInv, TypeOK
  <1>2. ASSUME NEW x \in Genuine PROVE x.copy # t
    BY <1>1, <1>2 DEF Genuine
  <1>3. ASSUME NEW r \in Handlers PROVE req[r].copy # t
    <2>1. \/ req[r].copy = 0 \/ req[r].copy = req[r].ctx.copy
          \/ req[r].copy = req[r].session.ctx.copy
      BY RequestGenuine DEF Holding, Offered, Request
    <2> QED
      BY <1>1, <1>2, <2>1, RequestGenuine
  <1>4. ASSUME NEW b \in Browsers PROVE Offered(store[b]) # t
    BY <1>1, <1>2, SessionGenuine DEF Offered
  <1>5. ASSUME NEW a \in DOMAIN attempts PROVE attempts[a].ctx.copy # t
    <2>1. attempts[a] \in GenuineAttempts
      BY LenProperties, ElementOfSeq DEF ContextInv
    <2> QED
      BY <1>2, <2>1 DEF GenuineAttempts
  <1> QED
    BY <1>3, <1>4, <1>5 DEF Held, Kept, Away

\* A copy that is found in no new place stays alone.
LEMMA NoNewPlace ==
    ASSUME NEW t \in Copies, Alone(t),
           Held(t)' \subseteq Held(t), Kept(t)' \subseteq Kept(t), Away(t)' \subseteq Away(t),
           \A r \in Held(t)' : req'[r].browser = req[r].browser,
           answered'[t] = answered[t], t <= Len(made) => t <= Len(made')
    PROVE  Alone(t)'
  <1>1. /\ Single(Held(t)) /\ Single(Kept(t)) /\ Single(Away(t))
        /\ \A r \in Held(t), b \in Kept(t) : req[r].browser = b
        /\ Away(t) # {} => Held(t) = {} /\ Kept(t) = {}
        /\ answered[t] <= 1
        /\ answered[t] # 0 =>
              t <= Len(made) /\ Held(t) = {} /\ Kept(t) = {} /\ Away(t) = {}
    BY DEF Alone
  <1>2. PICK h, k, w : h = Held(t)' /\ k = Kept(t)' /\ w = Away(t)'
    OBVIOUS
  <1>3. Single(h) /\ Single(k) /\ Single(w)
    BY <1>1, <1>2 DEF Single
  <1>4. /\ \A r \in h, b \in k : req'[r].browser = b
        /\ w # {} => h = {} /\ k = {}
        /\ answered'[t] <= 1
        /\ answered'[t] # 0 => t <= Len(made') /\ h = {} /\ k = {} /\ w = {}
    BY <1>1, <1>2
  <1> QED
    BY <1>2, <1>3, <1>4 DEF Alone, Single

\* A copy in one session is alone.
LEMMA InOneSession ==
    ASSUME NEW t \in Copies, NEW r, NEW b,
           Held(t)' \subseteq {r}, Kept(t)' \subseteq {b}, Away(t)' = {},
           r \in Held(t)' => req'[r].browser = b, answered'[t] = 0
    PROVE  Alone(t)'
  <1>1. PICK h, k, w : h = Held(t)' /\ k = Kept(t)' /\ w = Away(t)'
    OBVIOUS
  <1>2. Single(h) /\ Single(k) /\ Single(w)
    BY <1>1 DEF Single
  <1> QED
    BY <1>1, <1>2 DEF Alone, Single

LEMMA BeginHolds ==
    ASSUME NEW r, NEW b, NEW pc, NEW session, NEW copy, Begin(r, b, pc, session, copy)
    PROVE  /\ req[r].pc = "idle"
           /\ \E q : req' = [req EXCEPT ![r] = q] /\ q.copy = copy /\ q.browser = b
  <1>1. PICK q : q = [pc |-> pc, browser |-> b, session |-> session,
                     ctx |-> NoContext, copy |-> copy,
                     at |-> IF pc \in {"redeem", "staff"} THEN now ELSE 0]
    OBVIOUS
  <1>2. req' = [req EXCEPT ![r] = q] /\ q.copy = copy /\ q.browser = b
    BY <1>1 DEF Begin
  <1> QED
    BY <1>2 DEF Begin

LEMMA BrowserStepAlone ==
    ASSUME ContextInv, NEW t \in Copies, Alone(t), t \notin overlapped',
           NEW r \in Handlers, NEW b \in Browsers,
           ManagePage(r, b) \/ CouponRedeem(r, b) \/ StaffAuthorize(r, b)
    PROVE  Alone(t)'
  <1>1. PICK q :
           /\ req' = [req EXCEPT ![r] = q] /\ q.copy = Offered(store[b]) /\ q.browser = b
           /\ req[r].pc = "idle" /\ MarkOverlap(r, b)
           /\ UNCHANGED <<store, attempts, made, answered>>
    <2>1. CASE ManagePage(r, b)
      BY <2>1, BeginHolds DEF ManagePage
    <2>2. ASSUME NEW pc \in {"redeem", "staff"}, Use(r, b, pc)
          PROVE  /\ Begin(r, b, pc, [store[b] EXCEPT !.ctx.used = TRUE], Offered(store[b]))
                 /\ MarkOverlap(r, b) /\ UNCHANGED <<store, attempts, made, answered>>
      BY <2>2 DEF Use, Consumable, Offered
    <2>3. CASE CouponRedeem(r, b) \/ StaffAuthorize(r, b)
      BY <2>2, <2>3, BeginHolds DEF CouponRedeem, StaffAuthorize
    <2> QED
      BY <2>1, <2>3
  <1>2. req \in [Handlers -> GenuineRequests] /\ req[r].copy = 0 /\ t # 0
    BY <1>1, RequestGenuine DEF ContextInv, Holding, Copies
  <1>3. Kept(t)' = Kept(t) /\ Away(t)' = Away(t) /\ answered'[t] = answered[t]
    BY <1>1 DEF Kept, Away
  <1>4. CASE Offered(store[b]) # t
    <2>1. Held(t)' = Held(t) /\ \A p \in Held(t) : req'[p].browser = req[p].browser
      BY <1>1, <1>2, <1>4 DEF Held
    <2> QED
      BY <1>1, <1>3, <2>1, NoNewPlace
  <1>5. CASE Offered(store[b]) = t
    <2>1. \A p \in Handlers \ {r} : req[p].copy # t
      BY <1>1, <1>5 DEF MarkOverlap
    <2>2. Held(t)' \subseteq {r} /\ req'[r].browser = b
      BY <1>1, <1>2, <2>1 DEF Held
    <2>3. b \in Kept(t)
      BY <1>5 DEF Kept
    <2>4. Kept(t) \subseteq {b} /\ Away(t) = {} /\ answered[t] = 0
      BY <2>3, Zenon DEF Alone, Single
    <2>5. Kept(t)' \subseteq {b} /\ Away(t)' = {} /\ answered'[t] = 0
      BY <1>3, <2>4
    <2> QED
      BY <2>2, <2>5, InOneSession
  <1> QED
    BY <1>4, <1>5

LEMMA PortalGetAlone ==
    ASSUME ContextInv, NEW t \in Copies, Alone(t), t \notin overlapped',
           NEW r \in Handlers, NEW b \in Browsers, NEW id \in Ids, PortalGet(r, b, id)
    PROVE  Alone(t)'
  <1>1. PICK q :
           /\ req' = [req EXCEPT ![r] = q] /\ q.copy = Len(made) + 1 /\ q.browser = b
           /\ req[r].pc = "idle" /\ made' = Append(made, Len(visits) + 1)
           /\ UNCHANGED <<store, attempts, answered>>
    BY BeginHolds DEF PortalGet
  <1>2. /\ req \in [Handlers -> GenuineRequests] /\ req[r].copy = 0 /\ t # 0 /\ t \in Nat
        /\ Len(made) \in Nat /\ Len(visits) \in Nat /\ made \in Seq(Nat)
    <2>1. req[r].copy = 0
      BY <1>1, RequestGenuine DEF Holding
    <2>2. made \in Seq(Nat) /\ visits \in Seq([id : Ids, mac : Macs, at : Nat])
      BY DEF ContextInv, TypeOK
    <2>3. Len(made) \in Nat /\ Len(visits) \in Nat
      BY <2>2, LenProperties
    <2> QED
      BY <2>1, <2>2, <2>3, PortalAssumption DEF ContextInv, Copies
  <1>3. /\ Kept(t)' = Kept(t) /\ Away(t)' = Away(t) /\ answered'[t] = answered[t]
        /\ Len(made') = Len(made) + 1
    BY <1>1, <1>2 DEF Kept, Away
  <1>4. CASE t # Len(made) + 1
    <2>1. Held(t)' = Held(t) /\ \A p \in Held(t) : req'[p].browser = req[p].browser
      BY <1>1, <1>2, <1>4 DEF Held
    <2>2. t <= Len(made) => t <= Len(made')
      BY <1>2, <1>3
    <2> QED
      BY <1>3, <2>1, <2>2, NoNewPlace
  <1>5. CASE t = Len(made) + 1
    <2>1. Held(t) = {} /\ Kept(t) = {} /\ Away(t) = {}
      BY <1>2, <1>5, FreshNowhere
    <2>2. Held(t)' \subseteq {r} /\ req'[r].browser = b
      BY <1>1, <1>2, <2>1 DEF Held
    <2>3. answered[t] = 0
      BY <1>2, <1>5 DEF Alone
    <2>4. Kept(t)' \subseteq {b} /\ Away(t)' = {} /\ answered'[t] = 0
      BY <1>3, <2>1, <2>3
    <2> QED
      BY <2>2, <2>4, InOneSession
  <1> QED
    BY <1>4, <1>5

LEMMA AnswerAlone ==
    ASSUME ContextInv, NEW t \in Copies, Alone(t), t \notin overlapped',
           NEW r \in Handlers, Answer(r) \/ Used(r)
    PROVE  Alone(t)'
  <1> DEFINE b == req[r].browser
  <1>1. /\ req' = [req EXCEPT ![r] = NoRequest]
        /\ store' = [store EXCEPT ![b] = req[r].session]
        /\ UNCHANGED <<attempts, made>>
    BY DEF Answer, Used, WriteBack
  <1>2. /\ req \in [Handlers -> GenuineRequests] /\ t # 0 /\ NoRequest.copy = 0
        /\ store \in [Browsers -> GenuineSessions] /\ answered \in [Copies -> Nat]
        /\ b \in Browsers
    BY RequestGenuine DEF ContextInv, TypeOK, Holding, Copies, NoRequest, Answer, Used
  <1>3. /\ Away(t)' = Away(t) /\ Held(t)' = Held(t) \ {r}
        /\ \A p \in Held(t)' : req'[p].browser = req[p].browser
    BY <1>1, <1>2 DEF Held, Away
  <1>4. Kept(t)' = (Kept(t) \ {b}) \cup (IF Offered(req[r].session) = t THEN {b} ELSE {})
    BY <1>1, <1>2 DEF Kept
  <1>5. CASE Answer(r)
    <2>1. req[r].copy = Offered(req[r].session) /\ answered' = answered
      BY <1>5, RequestGenuine DEF Answer, Holding
    <2>2. CASE r \notin Held(t)
      <3>1. Kept(t)' \subseteq Kept(t)
        BY <1>4, <2>1, <2>2 DEF Held
      <3> QED
        BY <1>1, <1>3, <2>1, <3>1, NoNewPlace
    <2>3. CASE r \in Held(t)
      <3>1. /\ Held(t) \subseteq {r} /\ Kept(t) \subseteq {b}
            /\ Away(t) = {} /\ answered[t] = 0
        BY <2>3, Zenon DEF Alone, Single
      <3> QED
        BY <1>3, <1>4, <2>1, <3>1, InOneSession
    <2> QED
      BY <2>2, <2>3
  <1>6. CASE Used(r)
    <2>1. /\ Offered(req[r].session) = 0 /\ answered' = [answered EXCEPT ![req[r].copy] = @ + 1]
      BY <1>6, RequestGenuine DEF Used, Holding, Offered
    <2>2. Kept(t)' = Kept(t) \ {b}
      BY <1>2, <1>4, <2>1
    <2>3. CASE r \notin Held(t)
      <3>1. answered'[t] = answered[t]
        BY <1>2, <2>1, <2>3 DEF Held
      <3> QED
        BY <1>1, <1>3, <2>2, <3>1, NoNewPlace
    <2>4. CASE r \in Held(t)
      <3>1. /\ Held(t) \subseteq {r} /\ Kept(t) \subseteq {b}
            /\ Away(t) = {} /\ answered[t] = 0
        BY <2>4, Zenon DEF Alone, Single
      <3>2. Held(t)' = {} /\ Kept(t)' = {} /\ Away(t)' = {} /\ answered'[t] = 1
        BY <1>2, <1>3, <2>1, <2>2, <2>4, <3>1 DEF Held
      <3>3. ~(t > Len(made)) /\ t \in Nat /\ Len(made) \in Nat
        BY <2>4, FreshNowhere, LenProperties, PortalAssumption DEF Copies, ContextInv, TypeOK
      <3>4. Single({})
        BY DEF Single
      <3> QED
        BY <1>1, <3>2, <3>3, <3>4 DEF Alone, Single
    <2> QED
      BY <2>3, <2>4
  <1> QED
    BY <1>5, <1>6

LEMMA LoginAlone ==
    ASSUME ContextInv, NEW t \in Copies, Alone(t),
           StartLogin \/ \E b \in Browsers : StartPortalLogin(b)
    PROVE  Alone(t)'
  <1>1. /\ UNCHANGED <<store, req, answered>>
        /\ \E x : /\ attempts' = Append(attempts, x)
                  /\ x.ctx.used \/ x.ctx.copy = Len(made) + 1
        /\ made' = made \/ \E n : made' = Append(made, n)
    <2>1. CASE StartLogin
      <3>1. PICK x : x = [open |-> TRUE, ctx |-> NoContext, until |-> now + Lifetime]
        OBVIOUS
      <3>2. x.ctx.used
        BY <3>1 DEF NoContext
      <3> QED
        BY <2>1, <3>1, <3>2 DEF StartLogin
    <2>2. ASSUME NEW b \in Browsers, StartPortalLogin(b), store[b].ctx.used
          PROVE  /\ UNCHANGED <<store, req, answered, made>>
                 /\ \E x : attempts' = Append(attempts, x) /\ x.ctx.used
      <3>1. PICK x : x = [open |-> TRUE, ctx |-> store[b].ctx, until |-> now + Lifetime]
        OBVIOUS
      <3> QED
        BY <2>2, <3>1 DEF StartPortalLogin
    <2>3. ASSUME NEW b \in Browsers, StartPortalLogin(b), ~store[b].ctx.used
          PROVE  /\ UNCHANGED <<store, req, answered>>
                 /\ \E x : attempts' = Append(attempts, x) /\ x.ctx.copy = Len(made) + 1
                 /\ \E n : made' = Append(made, n)
      <3>1. PICK y \in Context : y = store[b].ctx
        BY SessionGenuine
      <3>2. PICK z : z = [y EXCEPT !.copy = Len(made) + 1]
        OBVIOUS
      <3>3. PICK x : x = [open |-> TRUE, ctx |-> z, until |-> now + Lifetime]
        OBVIOUS
      <3>4. x.ctx.copy = Len(made) + 1
        BY <3>1, <3>2, <3>3 DEF Context
      <3>5. attempts' = Append(attempts, x)
        BY <2>3, <3>1, <3>2, <3>3 DEF StartPortalLogin, Carried
      <3> QED
        BY <2>3, <3>4, <3>5 DEF StartPortalLogin
    <2> QED
      BY <2>1, <2>2, <2>3
  <1>2. PICK x : /\ attempts' = Append(attempts, x)
                 /\ x.ctx.used \/ x.ctx.copy = Len(made) + 1
    BY <1>1
  <1>3. /\ attempts \in Seq(Attempt) /\ Len(attempts) \in Nat /\ made \in Seq(Nat)
        /\ Len(made) \in Nat /\ t \in Nat /\ DOMAIN attempts = 1..Len(attempts)
    BY LenProperties, PortalAssumption DEF ContextInv, TypeOK, Copies
  <1>4. /\ Held(t)' = Held(t) /\ Kept(t)' = Kept(t)
        /\ \A p \in Held(t) : req'[p].browser = req[p].browser
        /\ answered'[t] = answered[t] /\ Len(made') >= Len(made) /\ Len(made') \in Nat
    BY <1>1, <1>3 DEF Held, Kept
  <1>5. /\ DOMAIN attempts' = 1..Len(attempts) + 1
        /\ attempts'[Len(attempts) + 1] = x
        /\ \A a \in DOMAIN attempts : attempts'[a] = attempts[a]
    BY <1>2, <1>3
  <1>6. CASE t # Len(made) + 1
    <2>1. x.ctx.used \/ x.ctx.copy # t
      BY <1>2, <1>6
    <2>2. Away(t)' \subseteq Away(t)
      BY <1>3, <1>5, <2>1 DEF Away
    <2>3. t <= Len(made) => t <= Len(made')
      BY <1>3, <1>4
    <2> QED
      BY <1>4, <2>2, <2>3, NoNewPlace
  <1>7. CASE t = Len(made) + 1
    <2>1. Held(t) = {} /\ Kept(t) = {} /\ Away(t) = {}
      BY <1>3, <1>7, FreshNowhere
    <2>2. Away(t)' \subseteq {Len(attempts) + 1}
      BY <1>3, <1>5, <2>1 DEF Away
    <2>3. answered[t] = 0
      BY <1>3, <1>7 DEF Alone
    <2>4. PICK h, k, w : h = Held(t)' /\ k = Kept(t)' /\ w = Away(t)'
      OBVIOUS
    <2>5. h = {} /\ k = {} /\ Single(w) /\ answered'[t] = 0
      BY <1>4, <2>1, <2>2, <2>3, <2>4 DEF Single
    <2> QED
      BY <2>4, <2>5 DEF Alone, Single
  <1> QED
    BY <1>6, <1>7

LEMMA CallbackAlone ==
    ASSUME ContextInv, NEW t \in Copies, Alone(t),
           NEW r \in Handlers, NEW b \in Browsers, NEW a \in DOMAIN attempts,
           Callback(r, b, a)
    PROVE  Alone(t)'
  <1>1. PICK q :
           /\ req' = [req EXCEPT ![r] = q] /\ q.browser = b
           /\ q.copy = IF attempts[a].ctx.used THEN 0 ELSE attempts[a].ctx.copy
           /\ req[r].pc = "idle" /\ attempts[a].open
           /\ attempts' = [attempts EXCEPT ![a].open = FALSE]
           /\ UNCHANGED <<store, made, answered>>
    <2>1. PICK q : q = [NoRequest EXCEPT !.pc = "login", !.browser = b, !.ctx = attempts[a].ctx,
                   !.copy = IF attempts[a].ctx.used THEN 0 ELSE attempts[a].ctx.copy]
      OBVIOUS
    <2>2. /\ q.browser = b
          /\ q.copy = IF attempts[a].ctx.used THEN 0 ELSE attempts[a].ctx.copy
      BY <2>1 DEF NoRequest
    <2> QED
      BY <2>1, <2>2 DEF Callback
  <1>2. /\ req \in [Handlers -> GenuineRequests] /\ req[r].copy = 0 /\ t # 0
        /\ attempts \in Seq(Attempt)
    BY <1>1, RequestGenuine DEF ContextInv, TypeOK, Holding, Copies
  <1>3. /\ DOMAIN attempts' = DOMAIN attempts
        /\ \A c \in DOMAIN attempts : c # a => attempts'[c] = attempts[c]
        /\ attempts'[a] = [attempts[a] EXCEPT !.open = FALSE] /\ attempts[a] \in Attempt
    BY <1>1, <1>2, LenProperties
  <1>4. Away(t)' = Away(t) \ {a}
    <2>1. attempts'[a].open = FALSE
      BY <1>3 DEF Attempt
    <2> QED
      BY <1>3, <2>1 DEF Away
  <1>5. Kept(t)' = Kept(t) /\ answered'[t] = answered[t]
    BY <1>1 DEF Kept
  <1>6. CASE a \notin Away(t)
    <2>1. q.copy # t
      BY <1>1, <1>2, <1>6 DEF Away
    <2>2. Held(t)' = Held(t) /\ \A p \in Held(t) : req'[p].browser = req[p].browser
      BY <1>1, <1>2, <2>1 DEF Held
    <2> QED
      BY <1>1, <1>4, <1>5, <2>2, NoNewPlace
  <1>7. CASE a \in Away(t)
    <2>1. Held(t) = {} /\ Kept(t) = {} /\ Away(t) \subseteq {a} /\ answered[t] = 0
      BY <1>7, Zenon DEF Alone, Single
    <2>2. Held(t)' \subseteq {r} /\ req'[r].browser = b
      BY <1>1, <1>2, <2>1 DEF Held
    <2> QED
      BY <1>4, <1>5, <2>1, <2>2, InOneSession
  <1> QED
    BY <1>6, <1>7

LEMMA CallbackCycleAlone ==
    ASSUME ContextInv, NEW t \in Copies, Alone(t), t \notin overlapped',
           NEW r \in Handlers, CallbackCycle(r)
    PROVE  Alone(t)'
  <1> DEFINE b    == req[r].browser
             none == req[r].ctx = NoContext
  <1>1. PICK q :
           /\ req' = [req EXCEPT ![r] = q] /\ q.browser = b
           /\ q.copy = IF none THEN Offered(store[b]) ELSE req[r].copy
           /\ store' = [store EXCEPT ![b] = NoSession]
           /\ none => MarkOverlap(r, b)
           /\ UNCHANGED <<attempts, made, answered>>
    <2>1. PICK s : s = [ctx |-> IF none THEN store[b].ctx ELSE req[r].ctx,
                        user |-> TRUE, csrf |-> store[b].csrf]
      OBVIOUS
    <2>2. PICK q : q = [req[r] EXCEPT !.pc = "landed", !.session = s,
                        !.copy = IF none THEN Offered(store[b]) ELSE @]
      OBVIOUS
    <2>3. /\ q.browser = b /\ q.copy = IF none THEN Offered(store[b]) ELSE req[r].copy
      BY <2>2, RequestGenuine DEF Request
    <2>4. req' = [req EXCEPT ![r] = q]
      BY <2>1, <2>2 DEF CallbackCycle
    <2> QED
      BY <2>3, <2>4 DEF CallbackCycle
  <1>2. /\ req \in [Handlers -> GenuineRequests] /\ t # 0 /\ b \in Browsers
        /\ store \in [Browsers -> GenuineSessions] /\ Offered(NoSession) = 0
        /\ none => req[r].copy = 0
    BY RequestGenuine
    DEF ContextInv, Holding, Copies, CallbackCycle, Offered, NoSession, NoContext
  <1>3. Kept(t)' = Kept(t) \ {b} /\ Away(t)' = Away(t) /\ answered'[t] = answered[t]
    BY <1>1, <1>2 DEF Kept, Away
  <1>4. CASE none /\ Offered(store[b]) = t
    <2>1. \A p \in Handlers \ {r} : req[p].copy # t
      BY <1>1, <1>4 DEF MarkOverlap
    <2>2. Held(t)' \subseteq {r} /\ req'[r].browser = b
      BY <1>1, <1>2, <2>1 DEF Held
    <2>3. b \in Kept(t)
      BY <1>2, <1>4 DEF Kept
    <2>4. Kept(t) \subseteq {b} /\ Away(t) = {} /\ answered[t] = 0
      BY <2>3, Zenon DEF Alone, Single
    <2>5. Kept(t)' \subseteq {b} /\ Away(t)' = {} /\ answered'[t] = 0
      BY <1>3, <2>4
    <2> QED
      BY <2>2, <2>5, InOneSession
  <1>5. CASE ~(none /\ Offered(store[b]) = t)
    <2>1. Held(t)' \subseteq Held(t) /\ \A p \in Held(t)' : req'[p].browser = req[p].browser
      BY <1>1, <1>2, <1>5 DEF Held
    <2> QED
      BY <1>1, <1>3, <2>1, NoNewPlace
  <1> QED
    BY <1>4, <1>5

LEMMA NextAlone ==
    ASSUME ContextInv, [Next]_vars, NEW t \in Copies, Alone(t), t \notin overlapped'
    PROVE  Alone(t)'
  <1>1. ASSUME NEW r \in Handlers, NEW b \in Browsers, Arrive(r, b) PROVE Alone(t)'
    BY <1>1, PortalGetAlone, BrowserStepAlone, CallbackAlone DEF Arrive
  <1>2. ASSUME NEW r \in Handlers, Answer(r) \/ Used(r) \/ CallbackCycle(r) PROVE Alone(t)'
    BY <1>2, AnswerAlone, CallbackCycleAlone
  <1>3. CASE StartLogin \/ \E b \in Browsers : StartPortalLogin(b)
    BY <1>3, LoginAlone
  <1>4. ASSUME UNCHANGED <<attempts, made, answered>>,
               store' = store \/ \E b \in Browsers : store' = [store EXCEPT ![b] = NoSession],
               \/ req' = req
               \/ req' = [r \in Handlers |-> NoRequest]
               \/ \E r \in Handlers : req' = [req EXCEPT ![r] = NoRequest]
        PROVE  Alone(t)'
    <2>1. /\ req \in [Handlers -> GenuineRequests] /\ store \in [Browsers -> GenuineSessions]
          /\ t # 0 /\ NoRequest.copy = 0 /\ Offered(NoSession) = 0
      BY DEF ContextInv, Copies, NoRequest, Offered, NoSession, NoContext
    <2>2. Held(t)' \subseteq Held(t) /\ \A p \in Held(t)' : req'[p].browser = req[p].browser
      BY <1>4, <2>1 DEF Held
    <2>3. Kept(t)' \subseteq Kept(t) /\ Away(t)' = Away(t)
      BY <1>4, <2>1 DEF Kept, Away
    <2> QED
      BY <1>4, <2>2, <2>3, NoNewPlace
  <1>5. CASE (\E r \in Handlers : GiveUp(r)) \/ (\E b \in Browsers : Logout(b))
    BY <1>4, <1>5 DEF GiveUp, Logout
  <1>6. CASE Restart \/ Tick \/ UNCHANGED vars
    BY <1>4, <1>6 DEF Restart, Tick, vars
  <1> QED
    BY <1>1, <1>2, <1>3, <1>5, <1>6 DEF Next

LEMMA NextOnceInv == OnceInv /\ ContextInv' /\ [Next]_vars => OnceInv'
  <1> SUFFICES ASSUME OnceInv, ContextInv', [Next]_vars, NEW t \in Copies \ overlapped'
               PROVE  Alone(t)'
    BY DEF OnceInv
  <1>1. ContextInv /\ overlapped \subseteq overlapped'
    BY DEF OnceInv, Next, Arrive, PortalGet, ManagePage, CouponRedeem, StaffAuthorize, Use,
           MarkOverlap, Callback, Answer, Used, CallbackCycle, GiveUp, StartPortalLogin,
           Logout, StartLogin, Restart, Tick, vars
  <1>2. Alone(t)
    BY <1>1 DEF OnceInv
  <1> QED
    BY <1>1, <1>2, NextAlone

LEMMA InitOnceInv == Init => OnceInv
  <1> SUFFICES ASSUME Init, NEW t \in Copies PROVE Alone(t)
    BY InitContextInv DEF OnceInv
  <1>1. ContextInv /\ t > Len(made) /\ answered[t] = 0
    BY InitContextInv, EmptySeq, PortalAssumption DEF Init, Copies
  <1>2. Held(t) = {} /\ Kept(t) = {} /\ Away(t) = {}
    BY <1>1, FreshNowhere
  <1>3. Single({})
    BY DEF Single
  <1> QED
    BY <1>1, <1>2, <1>3 DEF Alone

\* A context and each copy that a login carries away are used once, except by
\* requests of one session that run at once.
THEOREM ContextsAreUsedOnce == Spec => []UsedOnce
  <1>1. OnceInv => UsedOnce
    BY DEF OnceInv, UsedOnce, Alone
  <1> QED
    BY <1>1, InitOnceInv, NextOnceInv, ContextInvariant, PTL DEF Spec

-----------------------------------------------------------------------------
(* One name for one device *)

\* The upper case digits, by the number they stand for.
Digits == <<"0", "1", "2", "3", "4", "5", "6", "7", "8", "9", "A", "B", "C", "D", "E", "F">>

LEMMA Numerals ==
    /\ Numeral["0"] = 0 /\ Numeral["1"] = 1 /\ Numeral["2"] = 2
    /\ Numeral["3"] = 3 /\ Numeral["4"] = 4 /\ Numeral["5"] = 5
    /\ Numeral["6"] = 6 /\ Numeral["7"] = 7 /\ Numeral["8"] = 8
    /\ Numeral["9"] = 9 /\ Numeral["A"] = 10 /\ Numeral["B"] = 11
    /\ Numeral["C"] = 12 /\ Numeral["D"] = 13 /\ Numeral["E"] = 14
    /\ Numeral["F"] = 15 /\ Numeral["a"] = 10 /\ Numeral["b"] = 11
    /\ Numeral["c"] = 12 /\ Numeral["d"] = 13 /\ Numeral["e"] = 14
    /\ Numeral["f"] = 15
  BY DEF Numeral, Upper, Hex

LEMMA Uppers ==
    /\ \A c \in Hex : UpperCase(c) = c
    /\ UpperCase("a") = "A" /\ UpperCase("b") = "B" /\ UpperCase("c") = "C"
    /\ UpperCase("d") = "D" /\ UpperCase("e") = "E" /\ UpperCase("f") = "F"
  BY DEF UpperCase, Upper, Hex

\* A digit and its upper case stand for the same number, and that number has
\* one upper case digit.
LEMMA NumeralFacts ==
    ASSUME NEW c \in Hex \cup DOMAIN Upper
    PROVE  /\ Numeral[c] \in 0..15
           /\ UpperCase(c) \in Hex /\ UpperCase(c) = Digits[Numeral[c] + 1]
           /\ Numeral[UpperCase(c)] = Numeral[c]
           /\ UpperCase(c) \notin OddHex => Numeral[c] % 2 = 0
           /\ c # "0" => Numeral[c] # 0
  <1>1. \A d \in Hex : d \notin OddHex => Numeral[d] % 2 = 0
    BY Numerals DEF Hex, OddHex
  <1>2. \A d \in Hex : Numeral[d] \in 0..15 /\ d = Digits[Numeral[d] + 1]
    BY Numerals DEF Hex, Digits
  <1>3. \A d \in Hex : d # "0" => Numeral[d] # 0
    BY Numerals DEF Hex
  <1>4. UpperCase(c) \in Hex /\ Numeral[UpperCase(c)] = Numeral[c]
    <2>1. CASE c \in Hex
      BY <2>1, Uppers
    <2>2. CASE c \in {"a", "b", "c", "d", "e", "f"}
      BY <2>2, Numerals, Uppers DEF Hex
    <2> QED
      BY <2>1, <2>2 DEF Upper
  <1>5. c # "0" => Numeral[c] # 0
    <2>1. CASE c \in Hex
      BY <1>3, <2>1
    <2>2. CASE c \in {"a", "b", "c", "d", "e", "f"}
      BY <2>2, Numerals
    <2> QED
      BY <2>1, <2>2 DEF Upper
  <1> QED
    BY <1>1, <1>2, <1>4, <1>5

\* normalize_mac gives two ids one name exactly if they spell one address.
LEMMA NormalizeMacFacts ==
    ASSUME NEW s, NEW t, NormalizeMac(s) # None, NormalizeMac(t) # None
    PROVE  /\ 2 \in DOMAIN Address(s) => Address(s)[2] % 2 = 0
           /\ \E k \in DOMAIN Address(s) : Address(s)[k] # 0
           /\ NormalizeMac(s) = NormalizeMac(t) <=> Address(s) = Address(t)
  <1> DEFINE S == Raw(s)
             T == Raw(t)
  <1>1. /\ NormalizeMac(s) = [i \in DOMAIN S |-> UpperCase(S[i])]
        /\ \A i \in DOMAIN S : S[i] \in Hex \cup DOMAIN Upper
        /\ UpperCase(S[2]) \notin OddHex
        /\ \E i \in DOMAIN S : S[i] # "0"
    BY DEF NormalizeMac
  <1>2. /\ NormalizeMac(t) = [i \in DOMAIN T |-> UpperCase(T[i])]
        /\ \A i \in DOMAIN T : T[i] \in Hex \cup DOMAIN Upper
    BY DEF NormalizeMac
  <1>3. /\ Address(s) = [i \in DOMAIN S |-> Numeral[S[i]]]
        /\ Address(t) = [i \in DOMAIN T |-> Numeral[T[i]]]
    BY DEF Address
  <1> HIDE DEF S, T
  <1>4. \E k \in DOMAIN Address(s) : Address(s)[k] # 0
    BY <1>1, <1>3, NumeralFacts
  <1>5. NormalizeMac(s) = NormalizeMac(t) => Address(s) = Address(t)
    <2> SUFFICES ASSUME NormalizeMac(s) = NormalizeMac(t)
                 PROVE  Address(s) = Address(t)
      OBVIOUS
    <2>1. DOMAIN S = DOMAIN T
      BY <1>1, <1>2
    <2>2. \A i \in DOMAIN S : UpperCase(S[i]) = UpperCase(T[i])
      BY <1>1, <1>2, <2>1
    <2>3. \A i \in DOMAIN S : Numeral[S[i]] = Numeral[T[i]]
      BY <1>1, <1>2, <2>1, <2>2, NumeralFacts
    <2> QED
      BY <1>3, <2>1, <2>3
  <1>6. Address(s) = Address(t) => NormalizeMac(s) = NormalizeMac(t)
    <2> SUFFICES ASSUME Address(s) = Address(t)
                 PROVE  NormalizeMac(s) = NormalizeMac(t)
      OBVIOUS
    <2>1. DOMAIN S = DOMAIN T
      BY <1>3
    <2>2. \A i \in DOMAIN S :
              Address(s)[i] = Numeral[S[i]] /\ Address(t)[i] = Numeral[T[i]]
      BY <1>3, <2>1
    <2>3. \A i \in DOMAIN S : UpperCase(S[i]) = UpperCase(T[i])
      BY <1>1, <1>2, <2>1, <2>2, NumeralFacts
    <2> QED
      BY <1>1, <1>2, <2>1, <2>3
  <1>7. 2 \in DOMAIN Address(s) => Address(s)[2] % 2 = 0
    <2>1. SUFFICES ASSUME 2 \in DOMAIN S PROVE Numeral[S[2]] % 2 = 0
      BY <1>3
    <2> QED
      BY <1>1, <2>1, NumeralFacts
  <1> QED
    BY <1>4, <1>5, <1>6, <1>7

VisitsNamed ==
    \A i \in DOMAIN visits :
        visits[i].mac = NormalizeMac(visits[i].id) /\ visits[i].mac # None

\* The session names a device in one way, whatever ids the access point sends,
\* however long an address is, and it is never a group's or the zero address.
THEOREM DevicesHaveOneName == Spec => []OneNamePerDevice
  <1>1. Init => VisitsNamed
    BY DEF Init, VisitsNamed
  <1>2. ASSUME ContextInv, VisitsNamed, [Next]_vars
        PROVE  VisitsNamed'
    <2>1. CASE \E r \in Handlers, b \in Browsers : \E id \in Ids : PortalGet(r, b, id)
      <3>1. PICK id \in Ids : /\ NormalizeMac(id) # None
                              /\ visits' = Append(visits, [id |-> id, mac |-> NormalizeMac(id),
                                                           at |-> now])
        BY <2>1 DEF PortalGet
      <3>2. visits \in Seq([id : Ids, mac : Macs, at : Nat])
        BY <1>2 DEF ContextInv, TypeOK
      <3>3. PICK v : v = [id |-> id, mac |-> NormalizeMac(id), at |-> now]
        OBVIOUS
      <3>4. v.mac = NormalizeMac(v.id) /\ v.mac # None
        BY <3>1, <3>3
      <3>5. visits' = Append(visits, v)
        BY <3>1, <3>3
      <3>6. \A i \in DOMAIN visits' : \/ i \in DOMAIN visits /\ visits'[i] = visits[i]
                                      \/ visits'[i] = v
        BY <3>2, <3>5
      <3> QED
        BY <1>2, <3>4, <3>6 DEF VisitsNamed
    <2>2. CASE UNCHANGED visits
      BY <1>2, <2>2 DEF VisitsNamed
    <2> QED
      BY <1>2, <2>1, <2>2
      DEF Next, Arrive, ManagePage, CouponRedeem, StaffAuthorize, Use, Callback, Answer, Used,
          CallbackCycle, GiveUp, StartPortalLogin, Logout, StartLogin, Restart, Tick, vars
  <1>3. ASSUME VisitsNamed
        PROVE  OneNamePerDevice
    <2> SUFFICES ASSUME NEW i \in DOMAIN visits, NEW j \in DOMAIN visits
                 PROVE  /\ 2 \in DOMAIN Address(visits[i].id)
                              => Address(visits[i].id)[2] % 2 = 0
                        /\ \E k \in DOMAIN Address(visits[i].id) : Address(visits[i].id)[k] # 0
                        /\ visits[i].mac = visits[j].mac
                              <=> Address(visits[i].id) = Address(visits[j].id)
      BY DEF OneNamePerDevice
    <2>1. /\ NormalizeMac(visits[i].id) # None /\ visits[i].mac = NormalizeMac(visits[i].id)
          /\ NormalizeMac(visits[j].id) # None /\ visits[j].mac = NormalizeMac(visits[j].id)
      BY <1>3 DEF VisitsNamed
    <2> QED
      BY <2>1, NormalizeMacFacts
  <1> QED
    BY <1>1, <1>2, <1>3, ContextInvariant, PTL DEF Spec
=============================================================================
