--------------------------- MODULE OperatorSignin ---------------------------
(***************************************************************************)
(* The operator sign-in routes of the browser worker: PersistentBrowser    *)
(* driving the tabs of the dedicated profile from Planner Web to the       *)
(* Microsoft sign-in page and through it, and the surface latch that       *)
(* operator-submit is gated on.                                            *)
(*                                                                         *)
(* The routes bypass the profile executor.  The conductor sends one        *)
(* request at a time, but its submit client gives up after 60 seconds      *)
(* while the handler goes on, so a submit may overlap the next run.  A     *)
(* step is what a handler does between two awaits that matter; the page    *)
(* itself moves in steps of the browser.  The worker is started, on the    *)
(* dedicated profile, and common.auth is attested.                         *)
(***************************************************************************)
EXTENDS Naturals, FiniteSets

CONSTANTS
  Pages,                  \* tabs the context may open (bounds the model)
  Clients,                \* senders of requests
  NoPage,
  ClicksMayTimeOutLate    \* a click may raise after the page has reacted to it

ASSUME NoPageAssumption == NoPage \notin Pages
ASSUME ClicksAssumption == ClicksMayTimeOutLate \in BOOLEAN

VARIABLES
  tab,     \* what each tab shows, or "closed"
  latch,   \* _signin_surface_resolved
  call     \* each client's request: where its handler is, and the last reply

vars == <<tab, latch, call>>

-----------------------------------------------------------------------------
(* Tabs.  "leaving" and "popping" are Planner Web with the Sign In click   *)
(* taken and the redirect or the popup still to come; "popup" is that      *)
(* popup while it is about:blank; "signing" is a form whose password has   *)
(* been sent, and "dip" one whose controls are gone for a moment.          *)

Neutral == {"blank", "popup"}
Planner == {"planner", "leaving", "popping", "home"}
Landing == {"chooser", "email", "combined"}
Form    == {"combined", "password", "signing"}
AfterPassword == {"methods", "mfa", "kmsi", "home"}
Auth    == Landing \union {"password", "signing", "dip", "methods", "mfa", "kmsi", "error"}
Surface == Neutral \union Planner \union Auth \union {"outside"}

Open == {p \in Pages : tab[p] # "closed"}
Showing(S) == {p \in Open : tab[p] \in S}

auth_origin_approved == \A p \in Open : tab[p] \in Neutral \union Auth
planner_web_surface_present == \E p \in Open : Open = {p} /\ tab[p] \in Planner
source_permitted == \A p \in Open : tab[p] \in Neutral \union Planner \union Auth

\* Two Planner Web tabs, or two neutral ones: nobody guesses which to use.
Ambiguous == Cardinality(Showing(Planner)) > 1 \/ Cardinality(Showing(Neutral)) > 1

Become(p, s) == tab' = [tab EXCEPT ![p] = s]

-----------------------------------------------------------------------------
(* Requests.                                                               *)

Idle == [route |-> "none", at |-> "idle", page |-> NoPage, popup |-> NoPage, before |-> {},
         seen |-> {}, samples |-> 0, streak |-> 0, tail |-> FALSE, reply |-> "none"]

At(c, route, at) == call[c].route = route /\ call[c].at = at

\* One request at a time, except for a submit whose client has given up.
MaySend(c) ==
  /\ call[c].at = "idle"
  /\ \A d \in Clients : call[d].at = "idle" \/ call[d].route = "submit"

Enter(c, route, at, p) ==
  call' = [call EXCEPT ![c] = [Idle EXCEPT !.route = route, !.at = at, !.page = p]]
GoTo(c, at) == call' = [call EXCEPT ![c].at = at]
Reply(c, r) == call' = [call EXCEPT ![c] = [Idle EXCEPT !.reply = r]]

Refuse(c) == MaySend(c) /\ Reply(c, "refused") /\ UNCHANGED <<tab, latch>>

\* _require_single_auth_page() behind the guards that resolve, submit and the others share.
TheAuthPage(p) == auth_origin_approved /\ Open = {p}
NoAuthPage == ~ \E p \in Open : TheAuthPage(p)

\* read_visible_body_bounded() may read the page it left open, which may be Planner Web by now.
Readable == \E p \in Open : Open = {p} /\ tab[p] \in Neutral \union Auth \union Planner

Init ==
  /\ \E p \in Pages, s \in {"blank", "planner", "home"} :
       tab = [q \in Pages |-> IF q = p THEN s ELSE "closed"]
  /\ latch = FALSE
  /\ call = [c \in Clients |-> Idle]

-----------------------------------------------------------------------------
(* navigate: one goto of Planner Web.                                      *)

\* The page a bootstrap navigation uses: Planner Web, else a neutral page.
Reusable(p) ==
  \/ Showing(Planner) = {p}
  \/ Showing(Planner) = {} /\ Showing(Neutral) = {p}

MayNavigate == auth_origin_approved \/ planner_web_surface_present

NavigateRefused(c) == (~MayNavigate \/ Ambiguous) /\ Refuse(c)

NavigateReuse(c) == \E p \in Open :
  /\ MaySend(c) /\ MayNavigate /\ ~Ambiguous
  /\ Reusable(p)
  /\ Enter(c, "navigate", "goto", p)
  /\ UNCHANGED <<tab, latch>>

NavigateNewPage(c) == \E p \in Pages \ Open :
  /\ MaySend(c) /\ MayNavigate /\ ~Ambiguous
  /\ Showing(Planner \union Neutral) = {}
  /\ Become(p, "blank")
  /\ Enter(c, "navigate", "goto", p)
  /\ UNCHANGED latch

\* The goto returns, or raises before or after Planner Web has loaded.
NavigateGoto(c) == LET p == call[c].page IN
  /\ At(c, "navigate", "goto")
  /\ \/ \E s \in {"planner", "home"} : Become(p, s)
     \/ UNCHANGED tab
  /\ \/ tab'[p] \in {"planner", "home"} /\ Reply(c, "ok")
     \/ Reply(c, "refused")
  /\ UNCHANGED latch

-----------------------------------------------------------------------------
(* begin-signin.                                                           *)

BeginRefused(c) == (~source_permitted \/ Ambiguous) /\ Refuse(c)

BeginReuse(c) == \E p \in Open :
  /\ MaySend(c) /\ source_permitted /\ ~Ambiguous
  /\ Reusable(p)
  /\ Enter(c, "begin", IF tab[p] \in Planner THEN "sign_in" ELSE "goto", p)
  /\ UNCHANGED <<tab, latch>>

BeginNewPage(c) == \E p \in Pages \ Open :
  /\ MaySend(c) /\ source_permitted /\ ~Ambiguous
  /\ Showing(Planner \union Neutral) = {}
  /\ Become(p, "blank")
  /\ Enter(c, "begin", "goto", p)
  /\ UNCHANGED latch

\* goto(MICROSOFT_AUTH_BOOTSTRAP_URL) lands, is blocked where it was, or raises.
BeginGoto(c) == LET p == call[c].page IN
  /\ At(c, "begin", "goto")
  /\ UNCHANGED tab \/ \E s \in Landing : Become(p, s)
  /\ GoTo(c, "landed") \/ Reply(c, "refused")
  /\ UNCHANGED latch

\* The Sign In control is not there exactly once.
BeginNoControl(c) ==
  /\ At(c, "begin", "sign_in")
  /\ tab[call[c].page] # "planner"
  /\ Reply(c, "refused")
  /\ UNCHANGED <<tab, latch>>

\* The tabs are noted, then Sign In is clicked: it leads on in the same tab, now
\* or later, or to a popup later on.  The tabs are noted again.
BeginClick(c) == LET p == call[c].page IN
  /\ At(c, "begin", "sign_in")
  /\ tab[p] = "planner"
  /\ \E s \in Landing \union {"leaving", "popping"} : Become(p, s)
  /\ call' = [call EXCEPT ![c].at = "settle", ![c].before = Open, ![c].seen = Open]
  /\ UNCHANGED latch

\* The click raises: it never happened or, as some timeouts do, it did.
BeginClickRaises(c) == LET p == call[c].page IN
  /\ At(c, "begin", "sign_in")
  /\ tab[p] = "planner"
  /\ \/ UNCHANGED tab
     \/ ClicksMayTimeOutLate /\ \E s \in Landing \union {"leaving", "popping"} : Become(p, s)
  /\ Reply(c, "refused")
  /\ UNCHANGED latch

\* The stabilisation window: up to ten polls, over at the first that finds no change.
Polls == 10

BeginPoll(c) ==
  /\ At(c, "begin", "settle")
  /\ call' = [call EXCEPT
       ![c].at = IF Open = call[c].seen \/ call[c].samples + 1 = Polls THEN "settled" ELSE @,
       ![c].seen = Open,
       ![c].samples = @ + 1]
  /\ UNCHANGED <<tab, latch>>

\* Faults: every other tab, or every tab, is taken for a popup.
NewPagesButSource(c) == call[c].seen \ {call[c].page}
NewPagesAll(c) == call[c].seen

NewPages(c) == call[c].seen \ call[c].before

\* No new tab has been seen: the same-tab flow.
BeginSameTab(c) ==
  /\ At(c, "begin", "settled")
  /\ NewPages(c) = {}
  /\ GoTo(c, "landed")
  /\ UNCHANGED <<tab, latch>>

BeginOnePopup(c) == \E q \in Open :
  /\ At(c, "begin", "settled")
  /\ NewPages(c) = {q}
  /\ call' = [call EXCEPT ![c].at = "popup", ![c].popup = q]
  /\ UNCHANGED <<tab, latch>>

\* Several new tabs: they are closed, and only they.
BeginManyPopups(c) ==
  /\ At(c, "begin", "settled")
  /\ Cardinality(NewPages(c)) > 1
  /\ tab' = [p \in Pages |-> IF p \in NewPages(c) THEN "closed" ELSE tab[p]]
  /\ Reply(c, "refused")
  /\ UNCHANGED latch

\* The popup is on an approved origin: it replaces the source tab.
BeginPopupApproved(c) == LET q == call[c].popup IN
  /\ At(c, "begin", "popup")
  /\ tab[q] \in Auth
  /\ Become(call[c].page, "closed")
  /\ call' = [call EXCEPT ![c].at = "landed", ![c].page = q]
  /\ UNCHANGED latch

\* Fault: the wait has no bound while the popup is still blank.
BeginPopupRefusedLate(c) == LET q == call[c].popup IN
  /\ At(c, "begin", "popup")
  /\ tab[q] \notin Auth \union Neutral
  /\ Become(q, "closed")
  /\ Reply(c, "refused")
  /\ UNCHANGED latch

\* The bounded wait ends elsewhere: only the popup is closed.
BeginPopupRefused(c) == LET q == call[c].popup IN
  /\ At(c, "begin", "popup")
  /\ tab[q] \notin Auth
  /\ Become(q, "closed")
  /\ Reply(c, "refused")
  /\ UNCHANGED latch

\* Fault: the latch is left as it is.
BeginLandedLatched(c) ==
  /\ At(c, "begin", "landed")
  /\ IF tab[call[c].page] \in Auth THEN GoTo(c, "reauth") ELSE Reply(c, "refused")
  /\ UNCHANGED <<tab, latch>>

\* The latch is cleared, and the landing origin checked, in one go.
BeginLanded(c) ==
  /\ At(c, "begin", "landed")
  /\ latch' = FALSE
  /\ IF tab[call[c].page] \in Auth THEN GoTo(c, "reauth") ELSE Reply(c, "refused")
  /\ UNCHANGED tab

\* Fault: the origin is not checked again.
BeginReauthUnchecked(c) == LET p == call[c].page IN
  /\ At(c, "begin", "reauth")
  /\ \/ UNCHANGED tab
     \/ tab[p] \in Auth \ {"combined"} /\ \E s \in Landing \union {"outside"} : Become(p, s)
  /\ Reply(c, "ok")
  /\ UNCHANGED latch

\* Unless the combined form is there or no query is left to extend, one more
\* goto with prompt=login; then the origin is checked again.
BeginReauth(c) == LET p == call[c].page IN
  /\ At(c, "begin", "reauth")
  /\ \/ UNCHANGED tab
     \/ tab[p] \in Auth \ {"combined"} /\ \E s \in Landing \union {"outside"} : Become(p, s)
  /\ \/ Reply(c, IF tab'[p] \in Auth THEN "ok" ELSE "refused")
     \/ tab[p] # "combined" /\ Reply(c, "refused")   \* the goto raised
  /\ UNCHANGED latch

-----------------------------------------------------------------------------
(* resolve-signin-surface.                                                 *)

ResolveStart(c) ==
  \/ NoAuthPage /\ Refuse(c)
  \/ \E p \in Open :
       /\ MaySend(c) /\ TheAuthPage(p)
       /\ Enter(c, "resolve", "read", p)
       /\ UNCHANGED <<tab, latch>>

\* Read as email entry, by the controls or by a word of the text ("email", "phone").
ReadsAsEmail == {"email", "combined", "mfa"}

ResolveEmail(c) ==
  /\ At(c, "resolve", "read")
  /\ tab[call[c].page] \in ReadsAsEmail
  /\ latch' = TRUE
  /\ Reply(c, "ok")
  /\ UNCHANGED tab

\* A chooser: the fixed control is clicked once, and the page read again.
ResolveForward(c) == LET p == call[c].page IN
  /\ At(c, "resolve", "read")
  /\ tab[p] = "chooser"
  /\ UNCHANGED tab \/ Become(p, "email")
  /\ GoTo(c, "reread")
  /\ UNCHANGED latch

ResolveReread(c) ==
  /\ At(c, "resolve", "reread")
  /\ \/ /\ Readable
        /\ latch' = (tab[call[c].page] \in ReadsAsEmail)
        /\ Reply(c, IF latch' THEN "ok" ELSE "refused")
     \/ Reply(c, "refused") /\ UNCHANGED latch
  /\ UNCHANGED tab

\* The first reading raises.
ResolveUnread(c) ==
  /\ At(c, "resolve", "read")
  /\ Reply(c, "refused")
  /\ UNCHANGED <<tab, latch>>

\* Nothing that may be forwarded, or a chooser without its control.
ResolveOther(c) ==
  /\ At(c, "resolve", "read")
  /\ tab[call[c].page] # "email"
  /\ latch' = FALSE
  /\ Reply(c, "refused")
  /\ UNCHANGED tab

-----------------------------------------------------------------------------
(* begin-email, resolve-kmsi-surface, resolve-method-selection-surface: one *)
(* fixed action on one fixed surface, and a reading of what it led to.     *)

Stage == [email  |-> [on |-> {"email"}, to |-> {"email", "password", "error"}],
          kmsi   |-> [on |-> {"kmsi"}, to |-> {"kmsi", "home"}],
          method |-> [on |-> {"methods", "password", "mfa"}, to |-> {"methods", "mfa"}]]

StageStart(c, r) ==
  \/ NoAuthPage /\ Refuse(c)
  \/ \E p \in Open :
       /\ MaySend(c) /\ TheAuthPage(p)
       /\ Enter(c, r, "act", p)
       /\ UNCHANGED <<tab, latch>>

StageAct(c, r) == LET p == call[c].page IN
  /\ At(c, r, "act")
  /\ \/ tab[p] \in Stage[r].on /\ GoTo(c, "check") /\ \E s \in Stage[r].to : Become(p, s)
     \/ Reply(c, "refused") /\ UNCHANGED tab
  /\ UNCHANGED latch

\* The email stage asserts the origin again; the others read the page again.
StageCheck(c, r) ==
  /\ At(c, r, "check")
  /\ IF r = "email"
     THEN Reply(c, IF auth_origin_approved THEN "ok" ELSE "refused")
     ELSE (Readable /\ Reply(c, "ok")) \/ Reply(c, "refused")
  /\ UNCHANGED <<tab, latch>>

-----------------------------------------------------------------------------
(* operator-submit.                                                        *)

\* The route's gate, when the latch is not set: is the combined form there?
SubmitProbe(c) ==
  /\ MaySend(c)
  /\ ~latch
  /\ \/ \E p \in Open : Open = {p} /\ tab[p] = "combined" /\ Enter(c, "submit", "probed", p)
     \/ (~ \E p \in Open : Open = {p} /\ tab[p] = "combined") /\ Reply(c, "refused")
  /\ UNCHANGED <<tab, latch>>

\* The guards of submit_operator_signin, which looks at the latch again.
SubmitStart(c) ==
  /\ \/ MaySend(c) /\ latch
     \/ At(c, "submit", "probed")
  /\ \/ \E p \in Open : latch /\ TheAuthPage(p) /\ Enter(c, "submit", "fill", p)
     \/ (~latch \/ NoAuthPage) /\ Reply(c, "refused")
  /\ UNCHANGED <<tab, latch>>

Verify(c, tail) ==
  call' = [call EXCEPT ![c].at = "verify", ![c].samples = 0, ![c].streak = 0, ![c].tail = tail]

\* The combined form is filled and sent in one go.
SubmitCombined(c) == LET p == call[c].page IN
  /\ At(c, "submit", "fill")
  /\ tab[p] = "combined"
  /\ Become(p, "signing")
  /\ Verify(c, FALSE) \/ Reply(c, "refused")
  /\ UNCHANGED latch

\* Email, then Next.
SubmitEmail(c) == LET p == call[c].page IN
  /\ At(c, "submit", "fill")
  /\ tab[p] = "email"
  /\ \E s \in {"email", "password", "error", "outside"} : Become(p, s)
  /\ GoTo(c, "next")
  /\ UNCHANGED latch

SubmitAfterNext(c) ==
  /\ At(c, "submit", "next")
  /\ IF auth_origin_approved THEN GoTo(c, "password") ELSE Reply(c, "refused")
  /\ UNCHANGED <<tab, latch>>

SubmitPassword(c) == LET p == call[c].page IN
  /\ At(c, "submit", "password")
  /\ tab[p] = "password"
  /\ Become(p, "signing")
  /\ Verify(c, TRUE) \/ Reply(c, "refused")
  /\ UNCHANGED latch

\* A field or control does not appear within the stage timeout, or is ambiguous.
SubmitNoMatch(c) ==
  /\ call[c].route = "submit" /\ call[c].at \in {"fill", "password", "tail"}
  /\ Reply(c, "refused")
  /\ UNCHANGED <<tab, latch>>

\* _password_surface_transitioned(): five samples, a streak of absences that
\* any sighting of the form resets.
Samples == 5
Absences == 3

\* Faults: a sighting does not reset the streak; each absent control counts.
SampledNoReset(streak, present) == IF present THEN streak ELSE streak + 1
SampledPerControl(streak, present) == IF present THEN 0 ELSE streak + 2

Sampled(streak, present) == IF present THEN 0 ELSE streak + 1

SubmitSample(c) ==
  /\ At(c, "submit", "verify")
  /\ call[c].samples < Samples
  /\ \/ call' = [call EXCEPT ![c].samples = @ + 1,
                             ![c].streak = Sampled(@, tab[call[c].page] \in Form)]
     \/ call' = [call EXCEPT ![c].samples = Samples, ![c].streak = 0]   \* a count raised
  /\ UNCHANGED <<tab, latch>>

\* The verdict; a combined form gets one more try of its password field.
SubmitVerdict(c) ==
  /\ At(c, "submit", "verify")
  /\ call[c].samples = Samples
  /\ IF call[c].streak >= Absences THEN Reply(c, "ok")
     ELSE IF call[c].tail THEN Reply(c, "refused")
     ELSE GoTo(c, "tail")
  /\ UNCHANGED <<tab, latch>>

SubmitTail(c) == LET p == call[c].page IN
  /\ At(c, "submit", "tail")
  /\ tab[p] \in Form
  /\ Become(p, "signing")
  /\ Verify(c, TRUE) \/ Reply(c, "refused")
  /\ UNCHANGED latch

-----------------------------------------------------------------------------
(* The browser, the account and the process.                               *)

\* A click's redirect commits, or its popup (or several) opens and commits.
BrowserMoves == \E p \in Open :
  /\ \/ tab[p] = "leaving" /\ \E s \in Landing : Become(p, s)
     \/ tab[p] = "popping" /\ \E Q \in SUBSET (Pages \ Open) \ {{}} :
          tab' = [q \in Pages |-> IF q \in Q THEN "popup" ELSE IF q = p THEN "planner" ELSE tab[q]]
     \/ tab[p] = "popup" /\ \E s \in Landing \union {"outside"} : Become(p, s)
  /\ UNCHANGED <<latch, call>>

\* A remembered session signs in by itself; a sent password is answered; a
\* person approves the sign-in on the phone.
AccountMoves == \E p \in Open :
  /\ \/ tab[p] = "chooser" /\ Become(p, "home")
     \/ tab[p] = "signing" /\ \E s \in {"dip", "password", "error"} \union AfterPassword : Become(p, s)
     \/ tab[p] = "dip" /\ \E s \in {"password"} \union AfterPassword : Become(p, s)
     \/ tab[p] = "mfa" /\ \E s \in {"kmsi", "home"} : Become(p, s)
  /\ UNCHANGED <<latch, call>>

\* The worker process restarts: the profile restores a tab, handlers are gone.
Restart ==
  /\ \E p \in Pages, s \in {"blank", "planner", "home"} :
       tab' = [q \in Pages |-> IF q = p THEN s ELSE "closed"]
  /\ latch' = FALSE
  /\ call' = [c \in Clients |-> Idle]

Handler(c) ==
  \/ NavigateGoto(c)
  \/ BeginGoto(c) \/ BeginNoControl(c) \/ BeginClick(c) \/ BeginClickRaises(c)
  \/ BeginPoll(c) \/ BeginSameTab(c) \/ BeginOnePopup(c) \/ BeginManyPopups(c)
  \/ BeginPopupApproved(c) \/ BeginPopupRefused(c) \/ BeginLanded(c) \/ BeginReauth(c)
  \/ ResolveEmail(c) \/ ResolveForward(c) \/ ResolveReread(c) \/ ResolveUnread(c) \/ ResolveOther(c)
  \/ \E r \in DOMAIN Stage : StageAct(c, r) \/ StageCheck(c, r)
  \/ At(c, "submit", "probed") /\ SubmitStart(c)
  \/ SubmitCombined(c) \/ SubmitEmail(c) \/ SubmitAfterNext(c) \/ SubmitPassword(c)
  \/ SubmitNoMatch(c) \/ SubmitSample(c) \/ SubmitVerdict(c) \/ SubmitTail(c)

Request(c) ==
  \/ NavigateRefused(c) \/ NavigateReuse(c) \/ NavigateNewPage(c)
  \/ BeginRefused(c) \/ BeginReuse(c) \/ BeginNewPage(c)
  \/ ResolveStart(c)
  \/ \E r \in DOMAIN Stage : StageStart(c, r)
  \/ SubmitProbe(c)
  \/ call[c].at = "idle" /\ SubmitStart(c)

Next ==
  \/ \E c \in Clients : Request(c) \/ Handler(c)
  \/ BrowserMoves
  \/ AccountMoves
  \/ Restart

\* A handler that can take its next step takes it.
Spec == Init /\ [][Next]_vars /\ \A c \in Clients : WF_vars(Handler(c))

-----------------------------------------------------------------------------
(* Properties.                                                             *)

TypeOK ==
  /\ tab \in [Pages -> Surface \union {"closed"}]
  /\ latch \in BOOLEAN
  /\ \A c \in Clients :
       /\ call[c].page \in Pages \union {NoPage}
       /\ call[c].popup \in Pages \union {NoPage}
       /\ call[c].before \subseteq Pages /\ call[c].seen \subseteq Pages
       /\ call[c].samples \in 0..Polls /\ call[c].streak \in 0..Samples
       /\ call[c].reply \in {"none", "ok", "refused"}

Ends(c, route, r) == call[c].route = route /\ call[c].at # "idle"
                     /\ call'[c].at = "idle" /\ call'[c].reply = r

(* AUTH-112: between requests, the latch never stands while the one open   *)
(* tab is an account chooser, which is where a submit it admits would look *)
(* for the email field.                                                    *)
LatchExcludesChooser ==
  (latch /\ \A c \in Clients : call[c].at = "idle") =>
    ~ \E p \in Open : Open = {p} /\ tab[p] = "chooser"

(* AUTH-112/113/117: begin-signin reports success only for a tab that is   *)
(* on an approved sign-in origin after the forced reauthentication, and    *)
(* what was resolved before it does not count any more.                    *)
BeginLandsUnresolved == [][\A c \in Clients :
  Ends(c, "begin", "ok") => tab'[call[c].page] \in Auth /\ ~latch']_vars

(* AUTH-118: begin-signin closes a tab only if it was opened after the     *)
(* Sign In click, or if it is the source tab and an approved popup takes   *)
(* its place; every other tab survives, whatever its popups turn out to be. *)
OtherTabsSurvive == [][\A c \in Clients, p \in Open :
  (call[c].route = "begin" /\ p \in call[c].before /\ call'[c] # Idle /\ tab'[p] = "closed")
    => p = call[c].page /\ tab'[call[c].popup] \in Auth]_vars

(* The worker never closes the last tab it has.                            *)
SomeTabRemains == Open # {}

(* A password form still in sight at the last sample is never taken for a  *)
(* sign-in that went on, however long the controls were gone before it.    *)
NoPasswordFormWhenVerified == [][\A c \in Clients :
  (call[c].samples = Samples - 1 /\ call'[c].samples = Samples /\ call'[c].streak >= Absences)
    => tab[call[c].page] \notin Form]_vars

(* A request is always answered, whatever the page does.                   *)
EveryRequestIsAnswered == \A c \in Clients : call[c].at # "idle" ~> call[c].at = "idle"
=============================================================================
