------------------------------ MODULE SetupProofs ------------------------------
(* Proofs about Setup: any limits, any number of requests, sites and guesses. *)
EXTENDS Setup, SequenceTheorems, TLAPS

\* A window that has been opened; guesses are judged in windows that do not
\* overlap, those of the open one last.
WindowsSound ==
    /\ limiter.window # None => limiter.window <= now
    /\ limiter.window = None => wrong = <<>> /\ limiter.failures = 0
    /\ limiter.failures <= Len(wrong)
    /\ \A i \in DOMAIN wrong :
          /\ wrong[i].window <= wrong[i].at /\ wrong[i].at <= wrong[i].window + Window
          /\ i > Len(wrong) - limiter.failures <=> wrong[i].window = limiter.window
          /\ wrong[i].window = limiter.window \/ limiter.window > wrong[i].window + Window

\* No window holds more guesses than the limit.
WindowsSmall ==
    \A i, j \in DOMAIN wrong :
        j = i + MaxFailures => wrong[j].window > wrong[i].window + Window

GuessInv == TypeOK /\ WindowsSound /\ WindowsSmall

-----------------------------------------------------------------------------
(* Typing *)

LEMMA SitesAreSequences ==
    ASSUME NEW s \in SiteLists
    PROVE  s \in Seq(Sites) /\ Len(s) \in Nat
  <1>1. PICK n \in 0..MaxSites : s \in [1..n -> Sites]
    BY DEF SiteLists
  <1>2. n \in Nat
    BY <1>1, SetupAssumption
  <1>3. s \in Seq(Sites)
    BY <1>1, <1>2, SeqDef
  <1> QED
    BY <1>3, LenProperties

LEMMA NoRequestTyped == NoRequest \in Request
  BY SetupAssumption DEF NoRequest, Request, Kinds

LEMMA OpenedTyped ==
    ASSUME TypeOK
    PROVE  Opened \in Limiter /\ Opened.window \in 0..MaxTime
  BY SetupAssumption DEF TypeOK, Limiter, Opened

LEMMA InitTyped == Init => TypeOK
  <1> SUFFICES ASSUME Init PROVE TypeOK
    OBVIOUS
  <1>1. limiter \in Limiter /\ now \in 0..MaxTime /\ era \in 0..MaxChanges
    BY SetupAssumption DEF Init, NoAttempts, Limiter
  <1>2. wrong \in Seq([at : 0..MaxTime, window : 0..MaxTime])
    BY EmptySeq DEF Init
  <1>3. req \in [Handlers -> Request]
    BY NoRequestTyped DEF Init
  <1> QED
    BY <1>1, <1>2, <1>3 DEF Init, TypeOK

\* A segment of a sequence, put behind as many elements as precede it.
LEMMA Segment ==
    ASSUME NEW S, NEW t, NEW k \in Nat, NEW size \in Nat, NEW m, NEW n,
           m = k + 1, n = k + size, \A i \in m .. n : t[i] \in S
    PROVE  /\ SubSeq(t, m, n) \in Seq(S)
           /\ Len(SubSeq(t, m, n)) = size
           /\ \A i \in 1 .. size : SubSeq(t, m, n)[i] = t[k + i]
  <1>1. m \in Int /\ n \in Int
    OBVIOUS
  <1>2. /\ SubSeq(t, m, n) \in Seq(S)
        /\ Len(SubSeq(t, m, n)) = IF m <= n THEN n - m + 1 ELSE 0
        /\ \A i \in 1 .. n - m + 1 : SubSeq(t, m, n)[i] = t[m + i - 1]
    BY <1>1, SubSeqProperties
  <1>3. n - m + 1 = size /\ (m <= n <=> size > 0) /\ \A i \in 1..size : m + i - 1 = k + i
    OBVIOUS
  <1> QED
    BY <1>2, <1>3

\* What a page adds to the sites a request has.
LEMMA PageAdded ==
    ASSUME TypeOK, NEW r \in Handlers, NEW size \in PageSizes(Len(req[r].got))
    PROVE  LET from == Len(req[r].got)
               got  == req[r].got \o SubSeq(listed, from + 1, from + size)
           IN  /\ from \in Nat /\ size \in Nat /\ Len(listed) \in Nat
               /\ got \in Seq(Sites) /\ Len(got) = from + size
               /\ from < Len(listed) => size >= 1 /\ from + size <= Len(listed)
               /\ from >= Len(listed) => size = 0
               /\ \A i \in 1..from + size :
                     got[i] = IF i <= from THEN req[r].got[i] ELSE listed[i]
  <1>1. req[r].got \in Seq(Sites)
    BY DEF TypeOK, Request
  <1>2. Len(req[r].got) \in Nat
    BY <1>1, LenProperties
  <1>3. listed \in Seq(Sites) /\ Len(listed) \in Nat
    BY SitesAreSequences DEF TypeOK
  <1>4. /\ size \in Nat
        /\ Len(req[r].got) < Len(listed) => size >= 1 /\ Len(req[r].got) + size <= Len(listed)
        /\ Len(req[r].got) >= Len(listed) => size = 0
    BY <1>2, <1>3, SetupAssumption DEF PageSizes, Least
  <1>5. \A i \in Len(req[r].got) + 1 .. Len(req[r].got) + size : listed[i] \in Sites
    BY <1>2, <1>3, <1>4, ElementOfSeq
  <1> DEFINE from == Len(req[r].got)
             got  == req[r].got \o SubSeq(listed, from + 1, from + size)
  <1>6. /\ got \in Seq(Sites) /\ Len(got) = from + size
        /\ \A i \in 1..from + size : got[i] = IF i <= from THEN req[r].got[i] ELSE listed[i]
    <2>1. PICK s, t, m, n, page : /\ s = req[r].got /\ t = listed
                                  /\ m = Len(s) + 1 /\ n = Len(s) + size
                                  /\ page = SubSeq(t, m, n)
      OBVIOUS
    <2>2. size \in Nat /\ s \in Seq(Sites) /\ \A i \in m .. n : t[i] \in Sites
      BY <1>1, <1>4, <1>5, <2>1
    <2>3. page \in Seq(Sites) /\ Len(page) = size /\ \A i \in 1..size : page[i] = t[Len(s) + i]
      <3>1. Len(s) \in Nat
        BY <1>2, <2>1
      <3> QED
        BY <2>1, <2>2, <3>1, Segment
    <2>4. /\ s \o page \in Seq(Sites) /\ Len(s \o page) = Len(s) + Len(page)
          /\ \A i \in 1..Len(s) + Len(page) :
                (s \o page)[i] = IF i <= Len(s) THEN s[i] ELSE page[i - Len(s)]
      BY <2>2, <2>3, ConcatProperties
    <2>5. ASSUME NEW i \in 1..from + size, ~(i <= from) PROVE page[i - from] = listed[i]
      <3>1. i - from \in 1..size /\ from + (i - from) = i
        BY <1>2, <2>2, <2>5
      <3> QED
        BY <2>1, <2>3, <3>1
    <2>6. got = s \o page
      BY <2>1
    <2>7. from = Len(s)
      BY <2>1
    <2> HIDE DEF got, from
    <2>8. got \in Seq(Sites) /\ Len(got) = from + size
      BY <2>3, <2>4, <2>6, <2>7
    <2>9. ASSUME NEW i \in 1..from + size
          PROVE  got[i] = IF i <= from THEN req[r].got[i] ELSE listed[i]
      <3>1. got[i] = IF i <= from THEN s[i] ELSE page[i - from]
        BY <2>3, <2>4, <2>6, <2>7
      <3> QED
        BY <3>1, <2>1, <2>5
    <2> QED
      BY <2>8, <2>9
  <1> HIDE DEF from, got
  <1>7. /\ from \in Nat /\ size \in Nat /\ Len(listed) \in Nat
        /\ got \in Seq(Sites) /\ Len(got) = from + size
        /\ from < Len(listed) => size >= 1 /\ from + size <= Len(listed)
        /\ from >= Len(listed) => size = 0
        /\ \A i \in 1..from + size : got[i] = IF i <= from THEN req[r].got[i] ELSE listed[i]
    BY <1>2, <1>3, <1>4, <1>6 DEF from
  <1> QED
    BY <1>7 DEF from, got

\* A step of a request that touches nothing but the request.
LEMMA RequestTyped ==
    ASSUME TypeOK, NEW r \in Handlers, Step(r) \/ GiveUp(r)
    PROVE  /\ req' \in [Handlers -> Request]
           /\ \A q \in Handlers \ {r} : req'[q] = req[q]
           /\ settings' = None \/ settings' \in Settings
           /\ UNCHANGED <<now, limiter, wrong, controller>>
  <1>1. UNCHANGED <<now, limiter, wrong, controller>>
    BY DEF Step, VerifyGoogle, Capture, FetchPage, Untrusted, Listed, Recapture, Commit, GiveUp
  <1>2. settings' = None \/ settings' \in Settings
    <2>1. req[r] \in Request /\ (settings = None \/ settings \in Settings)
      BY DEF TypeOK
    <2>2. CASE Commit(r)
      <3>1. req[r].site \in Sites \cup {None} /\ req[r].pin \in Certs \cup {None}
            /\ req[r].era \in Nat
        BY <2>1 DEF Request
      <3> QED
        BY <2>2, <3>1 DEF Commit, Settings
    <2>3. CASE ~Commit(r)
      BY <2>1, <2>3
      DEF Step, VerifyGoogle, Capture, FetchPage, Untrusted, Listed, Recapture, GiveUp
    <2> QED
      BY <2>2, <2>3
  <1>3. \E new \in Request : req' = [req EXCEPT ![r] = new]
    <2>1. req[r] \in Request /\ req \in [Handlers -> Request] /\ cert \in Certs /\ era \in Nat
      BY SetupAssumption DEF TypeOK
    <2>2. ASSUME NEW at \in {"capture", "recapture"}, Goto(r, at)
          PROVE  req' = [req EXCEPT ![r] = [req[r] EXCEPT !.pc = at]]
                 /\ [req[r] EXCEPT !.pc = at] \in Request
      BY <2>1, <2>2 DEF Goto, Request
    <2>3. CASE End(r)
      BY <2>3, NoRequestTyped DEF End
    <2>4. CASE \E at \in {"pages", "commit"} :
                  req' = [req EXCEPT ![r].pc = at, ![r].pin = Captured(req[r].trust)]
      <3>1. PICK at \in {"pages", "commit"} :
                  req' = [req EXCEPT ![r].pc = at, ![r].pin = Captured(req[r].trust)]
        BY <2>4
      <3>2. req' = [req EXCEPT ![r] =
                       [req[r] EXCEPT !.pc = at, !.pin = Captured(req[r].trust)]]
        BY <3>1, <2>1
      <3>3. Captured(req[r].trust) \in Certs \cup {None}
        BY <2>1 DEF Captured
      <3>4. [req[r] EXCEPT !.pc = at, !.pin = Captured(req[r].trust)] \in Request
        BY <2>1, <3>3 DEF Request
      <3> QED
        BY <3>2, <3>4
    <2>5. CASE FetchPage(r)
      <3>1. PICK size \in PageSizes(Len(req[r].got)) :
             LET got == req[r].got \o SubSeq(listed, Len(req[r].got) + 1, Len(req[r].got) + size)
             IN  req' = [req EXCEPT
                     ![r].got = got,
                     ![r].era = IF Connected(r) THEN @ ELSE era,
                     ![r].pc = IF LastPage(size, Len(got)) THEN "listed" ELSE "pages"]
        BY <2>5 DEF FetchPage
      <3>2. PICK got, e, at :
               /\ got = req[r].got \o SubSeq(listed, Len(req[r].got) + 1, Len(req[r].got) + size)
               /\ e = IF Connected(r) THEN req[r].era ELSE era
               /\ at = IF LastPage(size, Len(got)) THEN "listed" ELSE "pages"
        OBVIOUS
      <3>3. got \in Seq(Sites)
        BY <3>2, PageAdded
      <3>4. req' = [req EXCEPT ![r] = [req[r] EXCEPT
                       !.got = got, !.era = e, !.pc = at]]
        BY <2>1, <3>1, <3>2 DEF Request
      <3>5. req[r].era \in Nat
        BY <2>1 DEF Request
      <3>6. e \in Nat /\ at \in {"listed", "pages"}
        BY <2>1, <3>2, <3>5
      <3>7. [req[r] EXCEPT !.got = got, !.era = e, !.pc = at] \in Request
        BY <2>1, <3>3, <3>6 DEF Request
      <3> QED
        BY <3>4, <3>7
    <2> QED
      BY <2>2, <2>3, <2>4, <2>5
      DEF Step, VerifyGoogle, Capture, Untrusted, Listed, Recapture, Commit, GiveUp
  <1>4. req' \in [Handlers -> Request] /\ \A q \in Handlers \ {r} : req'[q] = req[q]
    BY <1>3 DEF TypeOK
  <1> QED
    BY <1>1, <1>2, <1>4

-----------------------------------------------------------------------------
(* Guesses *)

LEMMA InitGuessInv == Init => GuessInv
  BY InitTyped, SetupAssumption DEF Init, GuessInv, WindowsSound, WindowsSmall, NoAttempts

LEMMA WrongTyped ==
    ASSUME TypeOK
    PROVE  /\ Len(wrong) \in Nat /\ DOMAIN wrong = 1..Len(wrong)
           /\ \A i \in 1..Len(wrong) :
                 wrong[i].at \in 0..MaxTime /\ wrong[i].window \in 0..MaxTime
  <1>1. wrong \in Seq([at : 0..MaxTime, window : 0..MaxTime])
    BY DEF TypeOK
  <1>2. \A i \in 1..Len(wrong) : wrong[i] \in [at : 0..MaxTime, window : 0..MaxTime]
    BY <1>1, ElementOfSeq
  <1> QED
    BY <1>1, <1>2, LenProperties

\* The entry as it is found is as sound as the one that is kept.
LEMMA OpenedSound ==
    ASSUME GuessInv
    PROVE  /\ Opened \in Limiter /\ Opened.window \in 0..MaxTime
           /\ Opened.window <= now /\ now <= Opened.window + Window
           /\ Opened.failures <= Len(wrong)
           /\ \A i \in 1..Len(wrong) :
                 /\ i > Len(wrong) - Opened.failures <=> wrong[i].window = Opened.window
                 /\ wrong[i].window = Opened.window \/ Opened.window > wrong[i].window + Window
  <1>1. /\ TypeOK /\ WindowsSound
        /\ now \in Nat /\ Window \in Nat /\ MaxTime \in Nat /\ MaxFailures \in Nat
        /\ limiter \in Limiter
    BY SetupAssumption DEF GuessInv, TypeOK
  <1>2. CASE limiter.window = None
    <2>1. Opened = [window |-> now, failures |-> 0] /\ wrong = <<>>
      BY <1>1, <1>2 DEF Opened, WindowsSound
    <2> QED
      BY <1>1, <2>1, OpenedTyped
  <1>3. CASE limiter.window # None /\ now > limiter.window + Window
    <2>1. Opened = [window |-> now, failures |-> 0]
      BY <1>3 DEF Opened
    <2>2. limiter.window \in 0..MaxTime
      BY <1>1, <1>3 DEF Limiter
    <2>3. ASSUME NEW i \in 1..Len(wrong) PROVE now > wrong[i].window + Window
      BY <1>1, <1>3, <2>2, WrongTyped DEF WindowsSound
    <2>4. ASSUME NEW i \in 1..Len(wrong)
          PROVE  ~(i > Len(wrong) - 0) /\ wrong[i].window # now
      BY <1>1, <2>3, WrongTyped
    <2>5. now <= now + Window /\ 0 <= Len(wrong) /\ now \in 0..MaxTime
          /\ [window |-> now, failures |-> 0] \in Limiter
      BY <1>1, <2>1, OpenedTyped, WrongTyped DEF TypeOK
    <2> QED
      BY <1>1, <2>1, <2>3, <2>4, <2>5
  <1>4. CASE limiter.window # None /\ ~(now > limiter.window + Window)
    <2>1. Opened = limiter /\ limiter.window \in 0..MaxTime
      BY <1>1, <1>4 DEF Opened, Limiter
    <2>2. /\ DOMAIN wrong = 1..Len(wrong) /\ limiter.window # None
          /\ limiter.window <= now /\ limiter.failures <= Len(wrong)
      BY <1>1, <1>4, WrongTyped DEF WindowsSound
    <2>3. now <= limiter.window + Window
      BY <1>1, <1>4, <2>1
    <2>4. ASSUME NEW i \in 1..Len(wrong)
          PROVE  /\ i > Len(wrong) - limiter.failures <=> wrong[i].window = limiter.window
                 /\ wrong[i].window = limiter.window \/ limiter.window > wrong[i].window + Window
      BY <1>1, <2>2, <2>4 DEF WindowsSound
    <2>5. Opened \in Limiter /\ Opened.window \in 0..MaxTime
          /\ Opened.window <= now /\ now <= Opened.window + Window
          /\ Opened.failures <= Len(wrong)
      BY <1>1, <2>1, <2>2, <2>3
    <2>6. \A i \in 1..Len(wrong) :
             /\ i > Len(wrong) - Opened.failures <=> wrong[i].window = Opened.window
             /\ wrong[i].window = Opened.window \/ Opened.window > wrong[i].window + Window
      BY <2>1, <2>4
    <2> QED
      BY <2>5, <2>6
  <1> QED
    BY <1>2, <1>3, <1>4

LEMMA WrongPasscodeInv ==
    ASSUME GuessInv, WrongPasscode
    PROVE  GuessInv'
  <1> DEFINE n == Len(wrong)
             w == Opened.window
             f == Opened.failures
  <1>1. /\ n \in Nat /\ w \in 0..MaxTime /\ f \in 0..MaxFailures /\ now \in 0..MaxTime
        /\ f < MaxFailures /\ MaxFailures \in Nat /\ MaxTime \in Nat /\ Window \in Nat
        /\ None \notin Nat
    BY OpenedSound, WrongTyped, SetupAssumption
    DEF GuessInv, TypeOK, WrongPasscode, Locked, Limiter
  <1>2. limiter' = [window |-> w, failures |-> f + 1] /\ now' = now
    BY OpenedSound DEF WrongPasscode, Limiter
  <1>3. /\ wrong' \in Seq([at : 0..MaxTime, window : 0..MaxTime])
        /\ Len(wrong') = n + 1 /\ DOMAIN wrong' = 1..n + 1
        /\ \A i \in 1..n : wrong'[i] = wrong[i]
        /\ wrong'[n + 1] = [at |-> now, window |-> w]
    <2>1. wrong \in Seq([at : 0..MaxTime, window : 0..MaxTime])
      BY DEF GuessInv, TypeOK
    <2> QED
      BY <1>1, <2>1 DEF WrongPasscode
  <1>4. TypeOK'
    <2>1. UNCHANGED <<now, listed, cert, reports, era, req, settings>>
      BY DEF WrongPasscode, controller
    <2>2. limiter' \in Limiter
      BY <1>1, <1>2 DEF Limiter
    <2> QED
      BY <1>3, <2>1, <2>2 DEF GuessInv, TypeOK
  <1>5. DOMAIN wrong = 1..n /\ \A i \in 1..n :
            wrong[i].window \in 0..MaxTime /\ wrong[i].at \in 0..MaxTime
    BY WrongTyped DEF GuessInv
  <1> HIDE DEF n, w, f
  <1>6. WindowsSound'
    <2>1. w <= now /\ now <= w + Window /\ f <= n
      BY OpenedSound DEF w, f, n
    <2>2. ASSUME NEW i \in 1..n + 1
          PROVE  /\ wrong'[i].window <= wrong'[i].at
                 /\ wrong'[i].at <= wrong'[i].window + Window
                 /\ i > n + 1 - (f + 1) <=> wrong'[i].window = w
                 /\ wrong'[i].window = w \/ w > wrong'[i].window + Window
      <3>1. CASE i = n + 1
        <4>1. wrong'[i].at = now /\ wrong'[i].window = w
          BY <1>3, <3>1
        <4> QED
          BY <1>1, <2>1, <3>1, <4>1
      <3>2. CASE i \in 1..n
        <4>1. wrong[i].window <= wrong[i].at /\ wrong[i].at <= wrong[i].window + Window
          BY <1>5, <3>2 DEF GuessInv, WindowsSound
        <4>2. /\ i > n - f <=> wrong[i].window = w
              /\ wrong[i].window = w \/ w > wrong[i].window + Window
          BY <3>2, OpenedSound DEF w, f, n
        <4>3. wrong'[i] = wrong[i] /\ n + 1 - (f + 1) = n - f
          BY <1>1, <1>3, <3>2
        <4> QED
          BY <4>1, <4>2, <4>3
      <3> QED
        BY <3>1, <3>2, <1>1
    <2>3. limiter'.window = w /\ limiter'.failures = f + 1 /\ w # None /\ f + 1 <= n + 1
      BY <1>1, <1>2, <2>1
    <2>4. /\ limiter'.window # None => limiter'.window <= now'
          /\ limiter'.window = None => wrong' = <<>> /\ limiter'.failures = 0
          /\ limiter'.failures <= Len(wrong')
      BY <1>2, <1>3, <2>1, <2>3
    <2>5. \A i \in DOMAIN wrong' :
            /\ wrong'[i].window <= wrong'[i].at /\ wrong'[i].at <= wrong'[i].window + Window
            /\ i > Len(wrong') - limiter'.failures <=> wrong'[i].window = limiter'.window
            /\ wrong'[i].window = limiter'.window \/ limiter'.window > wrong'[i].window + Window
      <3> SUFFICES ASSUME NEW i \in DOMAIN wrong'
                   PROVE  /\ wrong'[i].window <= wrong'[i].at
                          /\ wrong'[i].at <= wrong'[i].window + Window
                          /\ i > Len(wrong') - limiter'.failures
                               <=> wrong'[i].window = limiter'.window
                          /\ wrong'[i].window = limiter'.window
                               \/ limiter'.window > wrong'[i].window + Window
        OBVIOUS
      <3>1. i \in 1..n + 1 /\ Len(wrong') - limiter'.failures = n + 1 - (f + 1)
        BY <1>1, <1>3, <2>3
      <3>2. /\ wrong'[i].window <= wrong'[i].at
            /\ wrong'[i].at <= wrong'[i].window + Window
            /\ i > n + 1 - (f + 1) <=> wrong'[i].window = w
            /\ wrong'[i].window = w \/ w > wrong'[i].window + Window
        BY <2>2, <3>1
      <3> QED
        BY <2>3, <3>1, <3>2
    <2> QED
      BY <2>4, <2>5 DEF WindowsSound
  <1>7. WindowsSmall'
    <2> SUFFICES ASSUME NEW i \in 1..n + 1, NEW j \in 1..n + 1, j = i + MaxFailures
                 PROVE  wrong'[j].window > wrong'[i].window + Window
      BY <1>3 DEF WindowsSmall
    <2>1. i \in 1..n
      BY <1>1, SetupAssumption
    <2>2. CASE j \in 1..n
      BY <1>3, <1>5, <2>1, <2>2 DEF GuessInv, WindowsSmall
    <2>3. CASE j = n + 1
      <3>1. ~(i > n - f)
        BY <1>1, <2>3
      <3>2. w > wrong[i].window + Window
        BY <2>1, <3>1, OpenedSound DEF w, f, n
      <3> QED
        BY <1>3, <2>1, <2>3, <3>2
    <2> QED
      BY <2>2, <2>3, <1>1
  <1> QED
    BY <1>4, <1>6, <1>7 DEF GuessInv

LEMMA RightPasscodeInv ==
    ASSUME GuessInv, NEW r \in Handlers, NEW form \in Forms, RightPasscode(r, form)
    PROVE  GuessInv'
  <1>1. limiter' = Opened /\ UNCHANGED <<now, wrong, controller, settings>>
    BY DEF RightPasscode
  <1>2. req' \in [Handlers -> Request]
    BY NoRequestTyped, SetupAssumption
    DEF RightPasscode, Forms, Request, NoRequest, Kinds, GuessInv, TypeOK
  <1>3. TypeOK'
    BY <1>1, <1>2, OpenedSound DEF GuessInv, TypeOK, controller
  <1>4. WindowsSound'
    <2>1. /\ Opened.window # None /\ Opened.window <= now /\ Opened.failures <= Len(wrong)
          /\ DOMAIN wrong = 1..Len(wrong)
          /\ \A i \in 1..Len(wrong) :
                /\ wrong[i].window <= wrong[i].at /\ wrong[i].at <= wrong[i].window + Window
                /\ i > Len(wrong) - Opened.failures <=> wrong[i].window = Opened.window
                /\ wrong[i].window = Opened.window \/ Opened.window > wrong[i].window + Window
      BY OpenedSound, WrongTyped, SetupAssumption DEF GuessInv, WindowsSound
    <2> QED
      BY <1>1, <2>1 DEF WindowsSound
  <1>5. WindowsSmall'
    BY <1>1 DEF GuessInv, WindowsSmall
  <1> QED
    BY <1>3, <1>4, <1>5 DEF GuessInv

\* Steps that leave the guesses alone.
LEMMA OtherGuessInv ==
    ASSUME GuessInv, TypeOK', UNCHANGED <<limiter, wrong>>, now' \in {now, now + 1}
    PROVE  GuessInv'
  <1>1. WindowsSmall'
    BY DEF GuessInv, WindowsSmall
  <1>2. limiter.window # None => limiter.window <= now'
    <2>1. limiter.window # None => limiter.window \in Nat /\ limiter.window <= now
      BY SetupAssumption DEF GuessInv, WindowsSound, TypeOK, Limiter
    <2>2. now \in Nat
      BY SetupAssumption DEF GuessInv, TypeOK
    <2> QED
      BY <2>1, <2>2
  <1>3. WindowsSound'
    BY <1>2 DEF GuessInv, WindowsSound
  <1> QED
    BY <1>1, <1>3 DEF GuessInv

LEMMA NextGuessInv == GuessInv /\ [Next]_vars => GuessInv'
  <1> SUFFICES ASSUME GuessInv, [Next]_vars PROVE GuessInv'
    OBVIOUS
  <1>1. TypeOK
    BY DEF GuessInv
  <1>2. ASSUME NEW r \in Handlers, Step(r) \/ GiveUp(r) PROVE GuessInv'
    <2>1. TypeOK' /\ UNCHANGED <<now, limiter, wrong>>
      BY <1>1, <1>2, RequestTyped DEF TypeOK, controller
    <2> QED
      BY <2>1, OtherGuessInv
  <1>3. CASE Restart
    <2>1. TypeOK'
      BY <1>1, <1>3, NoRequestTyped, EmptySeq, SetupAssumption
      DEF Restart, TypeOK, NoAttempts, Limiter, controller
    <2>2. limiter' = NoAttempts /\ wrong' = <<>>
      BY <1>3 DEF Restart
    <2> QED
      BY <2>1, <2>2 DEF GuessInv, WindowsSound, WindowsSmall, NoAttempts
  <1>4. CASE ControllerChanges
    <2>1. TypeOK' /\ UNCHANGED <<now, limiter, wrong>>
      BY <1>1, <1>4, SetupAssumption DEF ControllerChanges, TypeOK
    <2> QED
      BY <2>1, OtherGuessInv
  <1>5. CASE Tick
    <2>1. TypeOK' /\ UNCHANGED <<limiter, wrong>> /\ now' = now + 1
      BY <1>1, <1>5, SetupAssumption DEF Tick, TypeOK, controller
    <2> QED
      BY <2>1, OtherGuessInv
  <1>6. CASE UNCHANGED vars
    <2>1. TypeOK' /\ UNCHANGED <<now, limiter, wrong>>
      BY <1>1, <1>6 DEF vars, controller, TypeOK
    <2> QED
      BY <2>1, OtherGuessInv
  <1> QED
    BY <1>2, <1>3, <1>4, <1>5, <1>6, WrongPasscodeInv, RightPasscodeInv DEF Next

LEMMA GuessInvariant == Spec => []GuessInv
  BY InitGuessInv, NextGuessInv, PTL DEF Spec

\* Setups, guesses and the limiter are typed.
THEOREM SetupTyped == Spec => []TypeOK
  <1>1. GuessInv => TypeOK
    BY DEF GuessInv
  <1> QED
    BY GuessInvariant, <1>1, PTL

\* For any window and limit, guesses come no faster than twice the limit in a
\* window's time, wherever the windows begin.
THEOREM GuessingIsSlow == Spec => []GuessesBounded
  <1>1. ASSUME GuessInv, NEW i \in DOMAIN wrong, NEW j \in DOMAIN wrong,
               j = i + 2 * MaxFailures
        PROVE  wrong[j].at > wrong[i].at + Window
    <2>1. /\ MaxFailures \in Nat /\ Window \in Nat /\ MaxTime \in Nat
          /\ DOMAIN wrong = 1..Len(wrong) /\ Len(wrong) \in Nat
      BY <1>1, SetupAssumption, WrongTyped DEF GuessInv
    <2>2. PICK k \in DOMAIN wrong : k = i + MaxFailures /\ j = k + MaxFailures
      BY <1>1, <2>1
    <2>3. /\ wrong[k].window > wrong[i].window + Window
          /\ wrong[j].window > wrong[k].window + Window
      BY <1>1, <2>2 DEF GuessInv, WindowsSmall
    <2>4. wrong[i].at <= wrong[i].window + Window /\ wrong[j].window <= wrong[j].at
      BY <1>1 DEF GuessInv, WindowsSound
    <2>5. /\ wrong[i].at \in Nat /\ wrong[j].at \in Nat /\ wrong[i].window \in Nat
          /\ wrong[k].window \in Nat /\ wrong[j].window \in Nat
      BY <1>1, <2>1, WrongTyped DEF GuessInv
    <2> QED
      BY <2>1, <2>3, <2>4, <2>5
  <1>2. GuessInv => GuessesBounded
    BY <1>1 DEF GuessesBounded
  <1> QED
    BY GuessInvariant, <1>2, PTL

\* Whoever is refused unjudged has the limit's number of recent wrong guesses
\* before him.
THEOREM LocksAreJustified == Spec => []RefusalsJustified
  <1>1. ASSUME GuessInv, Locked
        PROVE  /\ Len(wrong) >= MaxFailures
               /\ \A i \in DOMAIN wrong :
                     i > Len(wrong) - MaxFailures => now <= wrong[i].at + Window
    <2>1. /\ Opened.failures = MaxFailures /\ Opened.failures <= Len(wrong)
          /\ MaxFailures \in Nat /\ Window \in Nat /\ now \in Nat
          /\ Opened.window \in Nat /\ now <= Opened.window + Window
      BY <1>1, OpenedSound, SetupAssumption DEF Locked, Limiter, GuessInv, TypeOK
    <2>2. ASSUME NEW i \in DOMAIN wrong, i > Len(wrong) - MaxFailures
          PROVE  now <= wrong[i].at + Window
      <3>1. /\ i \in 1..Len(wrong) /\ Len(wrong) \in Nat /\ wrong[i].at \in Nat
            /\ wrong[i].window <= wrong[i].at
        BY <1>1, <2>2, WrongTyped, SetupAssumption DEF GuessInv, WindowsSound
      <3>2. wrong[i].window = Opened.window
        BY <1>1, <2>1, <2>2, <3>1, OpenedSound
      <3> QED
        BY <2>1, <3>1, <3>2
    <2> QED
      BY <1>1, <2>1, <2>2, WrongTyped DEF GuessInv
  <1>2. GuessInv => RefusalsJustified
    BY <1>1 DEF RefusalsJustified
  <1> QED
    BY GuessInvariant, <1>2, PTL

-----------------------------------------------------------------------------
(* Settings *)

\* The request has read a page.
Reading(q) == (q.pc = "pages" /\ q.got # <<>>) \/ q.pc = "listed"

Fresh(q) == q.pc \in {"idle", "google", "capture"} => q.got = <<>>

\* The sites read so far are the first of the controller's list.
Prefix(q) ==
    Reading(q) /\ q.era = era =>
        /\ Len(q.got) <= Len(listed)
        /\ \A i \in 1..Len(q.got) : q.got[i] = listed[i]
        /\ q.pc = "listed" =>
              /\ Len(q.got) = 0 => Len(listed) = 0
              /\ reports # "none" => Len(q.got) = Len(listed)

\* What the checks a request has passed are worth while nothing changes.
Vouched(q) ==
    /\ q.era <= era
    /\ ~q.trust => q.pin = None
    /\ (Reading(q) \/ q.pc \in {"recapture", "commit"}) /\ q.era = era =>
          q.trust \/ cert \in Public
    /\ q.pc \in {"recapture", "commit"} /\ q.era = era =>
          \E i \in DOMAIN listed : listed[i] = q.site
    /\ q.pc = "commit" /\ q.era = era /\ q.trust => q.pin = cert

Checked(q) == Fresh(q) /\ Prefix(q) /\ Vouched(q)

SetupInv ==
    /\ TypeOK
    /\ \A r \in Handlers : Checked(req[r])
    /\ settings # None => settings.era <= era
    /\ SettingsWork

LEMMA IdleChecked == ASSUME TypeOK PROVE Checked(NoRequest)
  <1>1. era \in Nat
    BY SetupAssumption DEF TypeOK
  <1> QED
    BY <1>1, EmptySeq DEF NoRequest, Checked, Fresh, Prefix, Vouched, Reading

LEMMA InitSetupInv == Init => SetupInv
  <1> SUFFICES ASSUME Init PROVE SetupInv
    OBVIOUS
  <1>1. TypeOK
    BY InitTyped
  <1>2. \A r \in Handlers : Checked(req[r])
    BY <1>1, IdleChecked DEF Init
  <1>3. settings = None
    BY DEF Init
  <1> QED
    BY <1>1, <1>2, <1>3 DEF SetupInv, SettingsWork

\* Of a step of one request, only what it does to that request is to be shown.
LEMMA OneRequest ==
    ASSUME SetupInv, TypeOK', UNCHANGED controller, NEW r \in Handlers,
           \A q \in Handlers \ {r} : req'[q] = req[q],
           Checked(req[r])',
           \/ settings' = settings
           \/ (settings' # None => settings'.era <= era) /\ SettingsWork'
    PROVE  SetupInv'
  <1>1. ASSUME NEW q \in Handlers PROVE Checked(req[q])'
    <2>1. CASE q = r
      BY <2>1
    <2>2. CASE q # r
      <3>1. Checked(req[q]) /\ req'[q] = req[q]
        BY <2>2 DEF SetupInv
      <3> QED
        BY <3>1 DEF Checked, Fresh, Prefix, Vouched, Reading, controller
    <2> QED
      BY <2>1, <2>2
  <1>2. (settings # None => settings.era <= era)' /\ SettingsWork'
    BY DEF SetupInv, SettingsWork, Trusts, controller
  <1> QED
    BY <1>1, <1>2 DEF SetupInv

LEMMA FetchChecked ==
    ASSUME SetupInv, NEW r \in Handlers, FetchPage(r), TypeOK'
    PROVE  Checked(req[r])'
  <1>1. PICK size \in PageSizes(Len(req[r].got)) :
           LET got == req[r].got \o SubSeq(listed, Len(req[r].got) + 1, Len(req[r].got) + size)
           IN  req' = [req EXCEPT
                   ![r].got = got,
                   ![r].era = IF Connected(r) THEN @ ELSE era,
                   ![r].pc = IF LastPage(size, Len(got)) THEN "listed" ELSE "pages"]
    BY DEF FetchPage
  <1>2. PICK got : got = req[r].got \o SubSeq(listed, Len(req[r].got) + 1, Len(req[r].got) + size)
    OBVIOUS
  <1> DEFINE q == req[r]
  <1>0. PICK new : new = req'[r]
    OBVIOUS
  <1>3. /\ TypeOK /\ q \in Request /\ req \in [Handlers -> Request] /\ era \in Nat
        /\ UNCHANGED <<listed, cert, reports, era>> /\ q.pc = "pages"
    BY SetupAssumption DEF SetupInv, TypeOK, FetchPage, controller
  <1>4. /\ new.got = got
        /\ new.era = IF Connected(r) THEN q.era ELSE era
        /\ new.pc = IF LastPage(size, Len(got)) THEN "listed" ELSE "pages"
        /\ new.trust = q.trust /\ new.pin = q.pin /\ new.site = q.site
    BY <1>1, <1>2, <1>3, <1>0 DEF Request
  <1>5. /\ Len(q.got) \in Nat /\ size \in Nat /\ Len(listed) \in Nat
        /\ got \in Seq(Sites) /\ Len(got) = Len(q.got) + size
        /\ Len(q.got) < Len(listed) => size >= 1 /\ Len(q.got) + size <= Len(listed)
        /\ Len(q.got) >= Len(listed) => size = 0
        /\ \A i \in 1..Len(q.got) + size :
              got[i] = IF i <= Len(q.got) THEN q.got[i] ELSE listed[i]
    <2>1. LET from == Len(req[r].got)
              got_1 == req[r].got \o SubSeq(listed, from + 1, from + size)
          IN  /\ from \in Nat /\ size \in Nat /\ Len(listed) \in Nat
              /\ got_1 \in Seq(Sites) /\ Len(got_1) = from + size
              /\ from < Len(listed) => size >= 1 /\ from + size <= Len(listed)
              /\ from >= Len(listed) => size = 0
              /\ \A i \in 1..from + size :
                    got_1[i] = IF i <= from THEN req[r].got[i] ELSE listed[i]
      BY <1>3, PageAdded
    <2> QED
      BY <1>2, <2>1
  <1>6. q.era \in Nat /\ q.got \in Seq(Sites)
    BY <1>3 DEF Request
  <1>7. Checked(q)
    BY DEF SetupInv
  <1>8. Connected(r) <=> q.got # <<>>
    BY DEF Connected
  <1> HIDE DEF q
  <1>9. Fresh(new)
    BY <1>4 DEF Fresh
  <1>10. new.era = era =>
            /\ Len(q.got) <= Len(listed) /\ \A i \in 1..Len(q.got) : q.got[i] = listed[i]
            /\ q.trust \/ cert \in Public
    <2> HAVE new.era = era
    <2>1. CASE q.got = <<>>
      <3>1. Trusts(q.pin) /\ None \notin Certs /\ cert \in Certs
        BY <1>3, <1>8, <2>1, SetupAssumption DEF FetchPage, TypeOK, q
      <3>2. ~q.trust => q.pin = None
        BY <1>7 DEF Checked, Vouched
      <3>3. Len(q.got) = 0
        BY <2>1, EmptySeq
      <3> QED
        BY <1>5, <3>1, <3>2, <3>3 DEF Trusts
    <2>2. CASE q.got # <<>>
      <3>1. q.era = era /\ Reading(q)
        BY <1>3, <1>4, <1>8, <2>2 DEF Reading
      <3> QED
        BY <1>7, <3>1 DEF Checked, Prefix, Vouched
    <2> QED
      BY <2>1, <2>2
  <1>11. new.era = era =>
            /\ Len(got) <= Len(listed)
            /\ \A i \in 1..Len(got) : got[i] = listed[i]
            /\ new.pc = "listed" =>
                  /\ Len(got) = 0 => Len(listed) = 0
                  /\ reports # "none" => Len(got) = Len(listed)
    <2> HAVE new.era = era
    <2>1. Len(got) <= Len(listed)
      BY <1>5, <1>10
    <2>2. \A i \in 1..Len(got) : got[i] = listed[i]
      BY <1>5, <1>10
    <2>3. ASSUME new.pc = "listed", reports # "none" PROVE Len(got) = Len(listed)
      <3>1. size = 0 \/ TotalCount = None \/ Len(got) >= TotalCount
        BY <1>4, <2>3 DEF LastPage
      <3>2. TotalCount \in {Len(listed), Len(listed) + 1} /\ TotalCount # None
        <4>1. reports \in {"right", "more"}
          BY <1>3, <2>3 DEF TypeOK, Reports
        <4> QED
          BY <1>5, <4>1, SetupAssumption DEF TotalCount
      <3> QED
        BY <1>5, <1>10, <2>1, <3>1, <3>2
    <2>4. Len(got) = 0 => Len(listed) = 0
      BY <1>5, <1>10
    <2> QED
      BY <2>1, <2>2, <2>3, <2>4
  <1>12. new.era <= era
    BY <1>3, <1>4, <1>6, <1>7 DEF Checked, Vouched
  <1>13. (~new.trust => new.pin = None) /\ new.pc \in {"pages", "listed"}
    BY <1>4, <1>7 DEF Checked, Vouched
  <1>14. Prefix(new)'
    BY <1>3, <1>4, <1>11 DEF Prefix
  <1>15. Vouched(new)'
    BY <1>3, <1>4, <1>10, <1>12, <1>13 DEF Vouched, Reading
  <1> QED
    BY <1>9, <1>14, <1>15, <1>0 DEF Checked, Fresh, Prefix, Vouched, Reading

LEMMA StepSetupInv ==
    ASSUME SetupInv, NEW r \in Handlers, Step(r) \/ GiveUp(r)
    PROVE  SetupInv'
  <1>1. TypeOK
    BY DEF SetupInv
  <1>2. /\ TypeOK' /\ UNCHANGED controller
        /\ \A q \in Handlers \ {r} : req'[q] = req[q]
    BY <1>1, RequestTyped DEF TypeOK, controller
  <1>3. /\ UNCHANGED <<listed, cert, reports, era>>
        /\ req[r] \in Request /\ req \in [Handlers -> Request] /\ Checked(req[r])
    BY <1>1, <1>2 DEF controller, SetupInv, TypeOK
  <1>4. CASE FetchPage(r)
    BY <1>2, <1>4, FetchChecked, OneRequest DEF FetchPage
  <1>5. ASSUME End(r) PROVE Checked(req[r])'
    <2>1. Checked(NoRequest)
      BY <1>1, IdleChecked
    <2>2. req'[r] = NoRequest
      BY <1>3, <1>5 DEF End
    <2> QED
      BY <1>3, <2>1, <2>2 DEF Checked, Fresh, Prefix, Vouched, Reading
  <1>6. CASE (Untrusted(r) \/ GiveUp(r)) /\ settings' = settings
    <2>1. End(r)
      BY <1>6 DEF Untrusted, GiveUp
    <2> QED
      BY <1>2, <1>5, <1>6, <2>1, OneRequest
  <1>7. CASE VerifyGoogle(r)
    <2>1. CASE Goto(r, "capture")
      <3>1. /\ req'[r].pc = "capture" /\ req[r].pc = "google"
            /\ req'[r].got = req[r].got
            /\ req'[r].era = req[r].era /\ req'[r].trust = req[r].trust
            /\ req'[r].pin = req[r].pin
        BY <1>3, <1>7, <2>1 DEF VerifyGoogle, Goto, Request
      <3>2. Checked(req[r])'
        BY <1>3, <3>1 DEF Checked, Fresh, Prefix, Vouched, Reading
      <3> QED
        BY <1>2, <1>7, <3>2, OneRequest DEF VerifyGoogle
    <2>2. CASE End(r)
      BY <1>2, <1>5, <1>7, <2>2, OneRequest DEF VerifyGoogle
    <2> QED
      BY <1>7, <2>1, <2>2 DEF VerifyGoogle
  <1>8. CASE Capture(r)
    <2>1. /\ req'[r].pc = "pages" /\ req[r].pc = "capture"
          /\ req'[r].got = req[r].got
          /\ req'[r].era = req[r].era /\ req'[r].trust = req[r].trust
          /\ req'[r].pin = Captured(req[r].trust)
      BY <1>3, <1>8 DEF Capture, Request
    <2>2. req[r].got = <<>> /\ Len(req[r].got) = 0
      BY <1>3, <2>1, EmptySeq DEF Checked, Fresh
    <2>3. Checked(req[r])'
      BY <1>3, <2>1, <2>2 DEF Checked, Fresh, Prefix, Vouched, Reading, Captured
    <2> QED
      BY <1>2, <1>8, <2>3, OneRequest DEF Capture
  <1>9. CASE Listed(r)
    <2>1. CASE SiteFound(r) /\ Goto(r, "recapture")
      <3>1. /\ req'[r].pc = "recapture" /\ req[r].pc = "listed"
            /\ req'[r].got = req[r].got
            /\ req'[r].era = req[r].era /\ req'[r].trust = req[r].trust
            /\ req'[r].pin = req[r].pin /\ req'[r].site = req[r].site
        BY <1>3, <1>9, <2>1 DEF Listed, Goto, Request
      <3>2. req[r].era = era => \E i \in DOMAIN listed : listed[i] = req[r].site
        <4> HAVE req[r].era = era
        <4>1. PICK i \in DOMAIN req[r].got : req[r].got[i] = req[r].site
          BY <2>1 DEF SiteFound
        <4>2. /\ Len(req[r].got) <= Len(listed)
              /\ \A k \in 1..Len(req[r].got) : req[r].got[k] = listed[k]
          BY <1>3, <3>1 DEF Checked, Prefix, Reading
        <4>3. /\ DOMAIN req[r].got = 1..Len(req[r].got) /\ Len(req[r].got) \in Nat
              /\ DOMAIN listed = 1..Len(listed) /\ Len(listed) \in Nat
          <5>1. req[r].got \in Seq(Sites) /\ listed \in Seq(Sites)
            BY <1>1, <1>3, SitesAreSequences DEF Request, TypeOK
          <5> QED
            BY <5>1, LenProperties
        <4> QED
          BY <4>1, <4>2, <4>3
      <3>3. Checked(req[r])'
        BY <1>3, <3>1, <3>2 DEF Checked, Fresh, Prefix, Vouched, Reading
      <3> QED
        BY <1>2, <1>9, <3>3, OneRequest DEF Listed
    <2>2. CASE End(r)
      BY <1>2, <1>5, <1>9, <2>2, OneRequest DEF Listed
    <2> QED
      BY <1>9, <2>1, <2>2 DEF Listed
  <1>10. CASE Recapture(r)
    <2>1. /\ req'[r].pc = "commit" /\ req[r].pc = "recapture"
          /\ req'[r].got = req[r].got
          /\ req'[r].era = req[r].era /\ req'[r].trust = req[r].trust
          /\ req'[r].pin = Captured(req[r].trust) /\ req'[r].site = req[r].site
      BY <1>3, <1>10 DEF Recapture, Request
    <2>2. Checked(req[r])'
      BY <1>3, <2>1 DEF Checked, Fresh, Prefix, Vouched, Reading, Captured
    <2> QED
      BY <1>2, <1>10, <2>2, OneRequest DEF Recapture
  <1>11. CASE Commit(r)
    <2>1. /\ End(r) /\ req[r].pc = "commit" /\ settings'.site = req[r].site
          /\ settings'.pin = req[r].pin /\ settings'.era = req[r].era
      BY <1>11 DEF Commit
    <2>2. settings'.era <= era'
      BY <1>3, <2>1 DEF Checked, Vouched
    <2>3. SettingsWork'
      BY <1>3, <2>1 DEF Checked, Vouched, SettingsWork, Trusts
    <2> QED
      BY <1>2, <1>3, <1>5, <2>1, <2>2, <2>3, OneRequest
  <1> QED
    BY <1>4, <1>6, <1>7, <1>8, <1>9, <1>10, <1>11 DEF Step, Untrusted, GiveUp

LEMMA NextSetupInv == SetupInv /\ GuessInv /\ GuessInv' /\ [Next]_vars => SetupInv'
  <1> SUFFICES ASSUME SetupInv, TypeOK', [Next]_vars PROVE SetupInv'
    BY DEF GuessInv
  <1>1. TypeOK /\ era \in Nat
    BY SetupAssumption DEF SetupInv, TypeOK
  <1>2. ASSUME NEW r \in Handlers, NEW form \in Forms, RightPasscode(r, form)
        PROVE  SetupInv'
    <2>1. /\ UNCHANGED <<controller, settings>>
          /\ \A q \in Handlers \ {r} : req'[q] = req[q]
          /\ req'[r] = [NoRequest EXCEPT
                 !.pc = IF form.kind = "unifi" THEN "capture" ELSE "google",
                 !.kind = form.kind, !.trust = form.trust, !.site = form.site]
      BY <1>1, <1>2 DEF RightPasscode, TypeOK
    <2>2. /\ req'[r].pc \in {"capture", "google"} /\ req'[r].got = <<>>
          /\ req'[r].era = 0 /\ req'[r].pin = None
      BY <2>1 DEF NoRequest
    <2>3. Len(req'[r].got) = 0 /\ era' = era
      BY <2>1, <2>2, EmptySeq DEF controller
    <2>4. Checked(req[r])'
      BY <1>1, <2>2, <2>3 DEF Checked, Fresh, Prefix, Vouched, Reading
    <2> QED
      BY <2>1, <2>4, OneRequest
  <1>3. ASSUME UNCHANGED <<listed, cert, reports, era, settings>>,
               \A r \in Handlers : req'[r] = req[r] \/ req'[r] = NoRequest
        PROVE  SetupInv'
    <2>1. ASSUME NEW r \in Handlers PROVE Checked(req[r])'
      <3>1. Checked(req[r]) /\ Checked(NoRequest)
        BY <1>1, IdleChecked DEF SetupInv
      <3> QED
        BY <1>3, <3>1 DEF Checked, Fresh, Prefix, Vouched, Reading
    <2> QED
      BY <1>3, <2>1 DEF SetupInv, SettingsWork, Trusts
  <1>4. CASE Restart
    BY <1>3, <1>4 DEF Restart, controller
  <1>5. CASE WrongPasscode \/ Tick \/ UNCHANGED vars
    BY <1>3, <1>5 DEF WrongPasscode, Tick, vars, controller
  <1>6. CASE ControllerChanges
    <2>1. UNCHANGED <<reports, req, settings>> /\ era' = era + 1
      BY <1>6 DEF ControllerChanges
    <2>2. ASSUME NEW r \in Handlers PROVE Checked(req[r])'
      <3>1. Checked(req[r]) /\ req[r].era \in Nat
        BY <1>1 DEF SetupInv, TypeOK, Request
      <3>2. req[r].era <= era' /\ req[r].era # era'
        BY <1>1, <2>1, <3>1 DEF Checked, Vouched
      <3> QED
        BY <2>1, <3>1, <3>2 DEF Checked, Fresh, Prefix, Vouched, Reading
    <2>3. settings # None => settings.era <= era' /\ settings.era # era'
      <3>1. settings # None => settings.era \in Nat /\ settings.era <= era
        BY <1>1 DEF SetupInv, TypeOK, Settings
      <3> QED
        BY <1>1, <2>1, <3>1
    <2> QED
      BY <2>1, <2>2, <2>3 DEF SetupInv, SettingsWork
  <1> QED
    BY <1>2, <1>4, <1>5, <1>6, StepSetupInv DEF Next

LEMMA SetupInvariant == Spec => []SetupInv
  BY InitSetupInv, GuessInvariant, NextSetupInv, PTL DEF Spec

\* Saved settings work until the controller changes: the second capture of the
\* certificate gives what the check used, or the controller has changed since.
THEOREM SavedSettingsWork == Spec => []SettingsWork
  <1>1. SetupInv => SettingsWork
    BY DEF SetupInv
  <1> QED
    BY SetupInvariant, <1>1, PTL

\* Whatever the sizes of the pages and the total, the list is complete; without
\* a total it is its beginning.
THEOREM DiscoveryIsComplete == Spec => []DiscoveryComplete
  <1>1. ASSUME SetupInv, NEW r \in Handlers, req[r].pc = "listed", req[r].era = era
        PROVE  /\ \A i \in DOMAIN req[r].got : i \in DOMAIN listed /\ req[r].got[i] = listed[i]
               /\ req[r].got = <<>> => listed = <<>>
               /\ reports # "none" => req[r].got = listed
    <2>1. /\ Len(req[r].got) <= Len(listed)
          /\ \A i \in 1..Len(req[r].got) : req[r].got[i] = listed[i]
          /\ Len(req[r].got) = 0 => Len(listed) = 0
          /\ reports # "none" => Len(req[r].got) = Len(listed)
      BY <1>1 DEF SetupInv, Checked, Prefix, Reading
    <2>2. req[r].got \in Seq(Sites) /\ listed \in Seq(Sites)
      BY <1>1, SitesAreSequences DEF SetupInv, TypeOK, Request
    <2>3. /\ DOMAIN req[r].got = 1..Len(req[r].got) /\ Len(req[r].got) \in Nat
          /\ DOMAIN listed = 1..Len(listed) /\ Len(listed) \in Nat
      BY <2>2, LenProperties
    <2>4. \A i \in DOMAIN req[r].got : i \in DOMAIN listed /\ req[r].got[i] = listed[i]
      BY <2>1, <2>3
    <2>5. reports # "none" => req[r].got = listed
      BY <2>1, <2>2, SeqEqual
    <2>6. req[r].got = <<>> => listed = <<>>
      <3>1. req[r].got = <<>> => Len(req[r].got) = 0
        BY EmptySeq
      <3> QED
        BY <2>1, <2>2, <3>1, EmptySeq
    <2> QED
      BY <2>4, <2>5, <2>6
  <1>2. SetupInv => DiscoveryComplete
    BY <1>1 DEF DiscoveryComplete
  <1> QED
    BY SetupInvariant, <1>2, PTL
=============================================================================
