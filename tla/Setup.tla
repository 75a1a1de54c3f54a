--------------------------------- MODULE Setup ---------------------------------
(***************************************************************************)
(* The setup pages (main.rs): the passcode and the limit on guesses, the   *)
(* check of the controller, and the settings that a setup saves.  A        *)
(* request captures the controller's certificate when it is to be trusted, *)
(* reads the site list page by page, and, to save, captures it again.  The *)
(* controller and its administrator change both meanwhile.  What a save    *)
(* deletes is in Accounts.                                                 *)
(***************************************************************************)
EXTENDS Naturals, Sequences

CONSTANTS
    Handlers,       \* slots of concurrently running requests
    Sites,
    Certs,          \* certificates the controller may present
    Public,         \* those that the machine's own roots vouch for
    None,
    Window,         \* seconds of a window of guesses (60)
    MaxFailures,    \* wrong guesses in a window (5)
    PageLimit,      \* sites on a page (200)
    MaxGuesses,     \* bound: wrong guesses judged
    MaxSites,       \* bound: sites at the controller
    MaxChanges,     \* bound: changes of the sites or the certificate
    MaxTime         \* bound: the clock stops here

ASSUME SetupAssumption ==
    /\ Window \in Nat /\ MaxFailures \in Nat \ {0} /\ PageLimit \in Nat \ {0}
    /\ MaxGuesses \in Nat /\ MaxSites \in Nat /\ MaxChanges \in Nat /\ MaxTime \in Nat
    /\ Public \subseteq Certs /\ None \notin Certs /\ None \notin Sites
    /\ None \notin Nat

VARIABLES
    now,
    limiter,        \* Attempts of the peer, which is always the proxy
    wrong,          \* ghost: the wrong guesses judged since the process started
    listed,         \* the sites at the controller, in its order
    cert,           \* the certificate the controller presents
    reports,        \* what it says in totalCount
    era,            \* ghost: changes of listed and cert
    req,
    settings        \* the row of settings, None before the first setup

controller == <<listed, cert, reports, era>>
vars == <<now, limiter, wrong, controller, req, settings>>

-----------------------------------------------------------------------------
Kinds == {"google", "unifi", "save"}

\* The forms of the three requests behind the passcode.
Forms ==
    [kind : {"google"}, trust : {FALSE}, site : {None}]
      \cup [kind : {"unifi"}, trust : BOOLEAN, site : {None}]
      \cup [kind : {"save"}, trust : BOOLEAN, site : Sites]

Reports == {"none", "right", "more"}

\* A controller lists no site twice.
SiteLists ==
    {s \in UNION {[1..n -> Sites] : n \in 0..MaxSites} :
        \A i, j \in DOMAIN s : s[i] = s[j] => i = j}

Limiter == [window : 0..MaxTime \cup {None}, failures : 0..MaxFailures]

\* No entry for the peer.
NoAttempts == [window |-> None, failures |-> 0]

\* era is a ghost: the era of the connection.
Request == [pc : {"idle", "google", "capture", "pages", "listed", "recapture", "commit"},
            kind : Kinds, trust : BOOLEAN, site : Sites \cup {None},
            pin : Certs \cup {None}, got : Seq(Sites), era : Nat]

NoRequest == [pc |-> "idle", kind |-> "google", trust |-> FALSE, site |-> None,
              pin |-> None, got |-> <<>>, era |-> 0]

Settings == [site : Sites \cup {None}, pin : Certs \cup {None}, era : Nat]

\* Type invariant.
TypeOK ==
    /\ now \in 0..MaxTime
    /\ limiter \in Limiter
    /\ wrong \in Seq([at : 0..MaxTime, window : 0..MaxTime])
    /\ listed \in SiteLists /\ cert \in Certs /\ reports \in Reports /\ era \in 0..MaxChanges
    /\ req \in [Handlers -> Request]
    /\ settings = None \/ settings \in Settings

Init ==
    /\ now = 0
    /\ limiter = NoAttempts
    /\ wrong = <<>>
    /\ listed \in SiteLists /\ cert \in Certs /\ reports \in Reports /\ era = 0
    /\ req = [r \in Handlers |-> NoRequest]
    /\ settings = None

-----------------------------------------------------------------------------
(* check_passcode: it holds its mutex from beginning to end. *)

\* Mutant: the old failures are kept in a new window.
OpenedKept ==
    IF limiter.window = None \/ now > limiter.window + Window
    THEN [limiter EXCEPT !.window = now]
    ELSE limiter

\* The entry as this check finds it: made, or emptied when its window has ended.
Opened ==
    IF limiter.window = None \/ now > limiter.window + Window
    THEN [window |-> now, failures |-> 0]
    ELSE limiter

\* Mutant: one guess too many.
LockedLate == Opened.failures > MaxFailures

Locked == Opened.failures >= MaxFailures

\* A wrong passcode is judged.  One that comes while Locked, right or wrong, is
\* refused and changes nothing.
WrongPasscode ==
    /\ ~Locked
    /\ Len(wrong) < MaxGuesses
    /\ limiter' = [Opened EXCEPT !.failures = @ + 1]
    /\ wrong' = Append(wrong, [at |-> now, window |-> Opened.window])
    /\ UNCHANGED <<now, controller, req, settings>>

\* Mutant: a right guess forgives the wrong ones before it.
RightPasscodeForgives(r, form) ==
    /\ req[r].pc = "idle"
    /\ ~Locked
    /\ limiter' = [Opened EXCEPT !.failures = 0]
    /\ req' = [req EXCEPT ![r] = [NoRequest EXCEPT
                   !.pc = IF form.kind = "unifi" THEN "capture" ELSE "google",
                   !.kind = form.kind, !.trust = form.trust, !.site = form.site]]
    /\ UNCHANGED <<now, wrong, controller, settings>>

\* A right one lets the request go on.
RightPasscode(r, form) ==
    /\ req[r].pc = "idle"
    /\ ~Locked
    /\ limiter' = Opened
    /\ req' = [req EXCEPT ![r] = [NoRequest EXCEPT
                   !.pc = IF form.kind = "unifi" THEN "capture" ELSE "google",
                   !.kind = form.kind, !.trust = form.trust, !.site = form.site]]
    /\ UNCHANGED <<now, wrong, controller, settings>>

-----------------------------------------------------------------------------
(* The providers are checked *)

Goto(r, at) == req' = [req EXCEPT ![r].pc = at]

End(r) == req' = [req EXCEPT ![r] = NoRequest]

\* verify_google accepts; setup_verify_google is done, setup_post goes on.
VerifyGoogle(r) ==
    /\ req[r].pc = "google"
    /\ IF req[r].kind = "google" THEN End(r) ELSE Goto(r, "capture")
    /\ UNCHANGED <<now, limiter, wrong, controller, settings>>

\* unifi_certificate
Captured(trust) == IF trust THEN cert ELSE None

Capture(r) ==
    /\ req[r].pc = "capture"
    /\ req' = [req EXCEPT ![r].pc = "pages", ![r].pin = Captured(req[r].trust)]
    /\ UNCHANGED <<now, limiter, wrong, controller, settings>>

\* A client with this certificate among its roots can talk to the controller.
Trusts(pin) == cert \in Public \cup {pin}

\* sites() keeps the connection of its first page.
Connected(r) == req[r].got # <<>>

Least(i, j) == IF i < j THEN i ELSE j

\* How many sites the controller may put on the page at this offset: at most
\* what was asked for, and nothing only when it has no more.
PageSizes(offset) ==
    IF offset >= Len(listed) THEN {0} ELSE 1..Least(PageLimit, Len(listed) - offset)

TotalCount ==
    CASE reports = "none"  -> None
      [] reports = "right" -> Len(listed)
      [] reports = "more"  -> Len(listed) + 1

\* Mutant: a page that is not full is the last one.
LastPageShort(size, length) == size < PageLimit

\* The loop ends with this page.
LastPage(size, length) == size = 0 \/ TotalCount = None \/ length >= TotalCount

FetchPage(r) ==
    /\ req[r].pc = "pages"
    /\ Connected(r) \/ Trusts(req[r].pin)
    /\ \E size \in PageSizes(Len(req[r].got)) :
          LET from == Len(req[r].got)
              got  == req[r].got \o SubSeq(listed, from + 1, from + size)
          IN  req' = [req EXCEPT
                  ![r].got = got,
                  ![r].era = IF Connected(r) THEN @ ELSE era,
                  ![r].pc = IF LastPage(size, Len(got)) THEN "listed" ELSE "pages"]
    /\ UNCHANGED <<now, limiter, wrong, controller, settings>>

\* There is no trusted connection.
Untrusted(r) ==
    /\ req[r].pc = "pages"
    /\ ~Connected(r) /\ ~Trusts(req[r].pin)
    /\ End(r)
    /\ UNCHANGED <<now, limiter, wrong, controller, settings>>

\* Mutant: any site will do once the controller has answered.
SiteListed(r) == req[r].got # <<>>

\* site_check
SiteFound(r) == \E i \in DOMAIN req[r].got : req[r].got[i] = req[r].site

\* setup_verify_unifi answers with the list, or that it is empty; setup_post
\* goes on if its site is there.
Listed(r) ==
    /\ req[r].pc = "listed"
    /\ IF req[r].kind = "save" /\ SiteFound(r) THEN Goto(r, "recapture") ELSE End(r)
    /\ UNCHANGED <<now, limiter, wrong, controller, settings>>

Recapture(r) ==
    /\ req[r].pc = "recapture"
    /\ req' = [req EXCEPT ![r].pc = "commit", ![r].pin = Captured(req[r].trust)]
    /\ UNCHANGED <<now, limiter, wrong, controller, settings>>

\* The settings row is inserted, or replaces the one there is.
Commit(r) ==
    /\ req[r].pc = "commit"
    /\ settings' = [site |-> req[r].site, pin |-> req[r].pin, era |-> req[r].era]
    /\ End(r)
    /\ UNCHANGED <<now, limiter, wrong, controller>>

\* A check fails or the handler's future is dropped.
GiveUp(r) ==
    /\ req[r].pc # "idle"
    /\ End(r)
    /\ UNCHANGED <<now, limiter, wrong, controller, settings>>

-----------------------------------------------------------------------------
\* The limiter is in memory.
Restart ==
    /\ limiter' = NoAttempts
    /\ wrong' = <<>>
    /\ req' = [r \in Handlers |-> NoRequest]
    /\ UNCHANGED <<now, controller, settings>>

\* The controller's administrator adds or removes sites, or renews the certificate.
ControllerChanges ==
    /\ era < MaxChanges
    /\ era' = era + 1
    /\ \/ listed' \in SiteLists /\ UNCHANGED cert
       \/ cert' \in Certs /\ UNCHANGED listed
    /\ UNCHANGED <<now, limiter, wrong, reports, req, settings>>

Tick ==
    /\ now < MaxTime
    /\ now' = now + 1
    /\ UNCHANGED <<limiter, wrong, controller, req, settings>>

Step(r) ==
    \/ VerifyGoogle(r) \/ Capture(r) \/ FetchPage(r) \/ Untrusted(r)
    \/ Listed(r) \/ Recapture(r) \/ Commit(r)

Next ==
    \/ \E r \in Handlers :
          \/ \E form \in Forms : RightPasscode(r, form)
          \/ Step(r) \/ GiveUp(r)
    \/ WrongPasscode \/ Restart \/ ControllerChanges \/ Tick

Spec == Init /\ [][Next]_vars

-----------------------------------------------------------------------------
(* Properties *)

\* However guesses fall into windows, no second has more than twice the limit
\* of them in the Window seconds that follow it (check_passcode).
GuessesBounded ==
    \A i, j \in DOMAIN wrong :
        j = i + 2 * MaxFailures => wrong[j].at > wrong[i].at + Window

\* A check is refused unjudged only after MaxFailures wrong guesses within the
\* last Window seconds: a lock ends by itself (check_passcode).
RefusalsJustified ==
    Locked =>
        /\ Len(wrong) >= MaxFailures
        /\ \A i \in DOMAIN wrong :
              i > Len(wrong) - MaxFailures => now <= wrong[i].at + Window

\* If the controller's site list and certificate are still those that a setup
\* found when it connected, the settings it saved work: their certificate, if
\* any, is enough to connect, and the site exists (setup_post captures the
\* certificate twice).
SettingsWork ==
    settings # None /\ settings.era = era =>
        Trusts(settings.pin) /\ \E i \in DOMAIN listed : listed[i] = settings.site

\* From a controller that does not change meanwhile, each site once, in order,
\* whatever the sizes of its pages and however much too large its total
\* ("fetches every accessible site", Technical Setup.md); of one that reports no
\* total, the first sites, and none only if it has none (sites).
DiscoveryComplete ==
    \A r \in Handlers : req[r].pc = "listed" /\ req[r].era = era =>
        /\ \A i \in DOMAIN req[r].got : i \in DOMAIN listed /\ req[r].got[i] = listed[i]
        /\ req[r].got = <<>> => listed = <<>>
        /\ reports # "none" => req[r].got = listed
=============================================================================
