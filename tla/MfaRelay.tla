------------------------------ MODULE MfaRelay ------------------------------
(***************************************************************************)
(* After the credentials: the conductor polls the observe route, relays    *)
(* the number of an MFA challenge to a person's phone, tries each of two   *)
(* interstitials once, and ends when the route says AUTHENTICATED.  The    *)
(* route reads the one tab and keeps an authentication state that outlives *)
(* the runs of the conductor and dies with the worker.                     *)
(*                                                                         *)
(* The conductor is sequential; the tab moves between any two of its steps,*)
(* and between the two looks that one observation takes.  That the tab has *)
(* become unreadable is left to the probe, which may always fail.          *)
(***************************************************************************)
EXTENDS Naturals

CONSTANTS
  Numbers,          \* the numbers a challenge may show
  NoNumber,
  MaxPolls,         \* _MFA_MAX_POLLS
  MayLandSignedOut, \* whether Planner Web may show itself signed out after a submit
  WorkerMayRestart  \* whether the worker may restart

ASSUME NumbersAssumption == NoNumber \notin Numbers
ASSUME MaxPollsAssumption == MaxPolls \in Nat \ {0}
ASSUME SwitchAssumption == MayLandSignedOut \in BOOLEAN /\ WorkerMayRestart \in BOOLEAN

VARIABLES
  page,      \* what the tab shows
  number,    \* the number it shows, if it is a challenge
  context,   \* app.state.observation_context.state
  at,        \* where the conductor, or the route on its behalf, is
  polls,     \* observations made in this run
  reply,     \* the last observation
  notified,  \* notified_numbers
  tried,     \* the one-off attempts that are spent
  outcome,   \* how the last run ended
  sent,      \* history: how often the person was sent each number in this run
  shown,     \* history: the numbers the tab has shown in this run
  posted     \* history: how often each resolver was posted to in this run

tabVars == <<page, number, shown>>
runVars == <<notified, tried, sent, posted>>
vars == <<tabVars, runVars, context, at, polls, reply, outcome>>

-----------------------------------------------------------------------------
(* The tab.                                                                *)

PlannerWeb == {"home", "signed_out"}
Interstitial == {"methods", "kmsi"}
Page == PlannerWeb \union Interstitial
          \union {"login", "challenge", "several", "approve", "expired", "other"}

AfterSubmit == Interstitial \union
  {"login", "challenge", "several", "approve", "other", "home"}
    \union (IF MayLandSignedOut THEN {"signed_out"} ELSE {})

\* The tab shows p; a challenge shows some number.
Show(p, before) ==
  /\ page' = p
  /\ number' \in IF p = "challenge" THEN Numbers ELSE {NoNumber}
  /\ shown' = before \union ({number'} \ {NoNumber})

\* Where a page may lead without the conductor: what Microsoft and the person do.
\* A session that ends sends Planner Web to the login page.
Leads == [login     |-> AfterSubmit,
          challenge |-> AfterSubmit \union {"expired"},
          several   |-> {"challenge", "login"},
          approve   |-> AfterSubmit \union {"expired"},
          other     |-> AfterSubmit,
          methods   |-> {"login", "expired"},
          kmsi      |-> {"expired"},
          expired   |-> {"login"},
          home      |-> {"login"} \union (AfterSubmit \intersect {"signed_out"}),
          signed_out |-> {}]

-----------------------------------------------------------------------------
(* AuthContext.                                                            *)

AuthState == {"UNKNOWN", "READY", "AUTH_REQUIRED", "MFA_REQUIRED", "WAITING_FOR_MFA",
              "AUTHENTICATED", "SESSION_EXPIRED", "AUTH_FAILED"}

Allowed ==
  [UNKNOWN         |-> {"READY", "AUTH_REQUIRED", "AUTHENTICATED"},
   READY           |-> {"AUTH_REQUIRED", "AUTHENTICATED"},
   AUTH_REQUIRED   |-> {"MFA_REQUIRED", "AUTHENTICATED", "AUTH_FAILED"},
   MFA_REQUIRED    |-> {"WAITING_FOR_MFA", "AUTH_FAILED", "AUTHENTICATED"},
   WAITING_FOR_MFA |-> {"AUTHENTICATED", "AUTH_FAILED", "MFA_REQUIRED"},
   AUTHENTICATED   |-> {"SESSION_EXPIRED", "AUTH_REQUIRED"},
   SESSION_EXPIRED |-> {"AUTH_REQUIRED", "AUTHENTICATED"},
   AUTH_FAILED     |-> {"AUTH_REQUIRED"}]

\* A transition that is not allowed raises, and observe swallows that.
Advance(s) == context' = IF s \in Allowed[context] THEN s ELSE context

Reading(s, n, ambiguous) == [state |-> s, number |-> n, ambiguous |-> ambiguous]
Plain(s) == Reading(s, NoNumber, FALSE)
Unread == Plain("UNKNOWN")

\* classify_live() of the text of the tab, which may also be in a language it does
\* not know.  A page with several numbers may say that it waits for approval.
ReadText ==
  \/ page \in {"login", "kmsi", "signed_out", "methods"} /\ reply' = Plain("AUTH_REQUIRED")
  \/ page = "challenge" /\ reply' = Reading("MFA_REQUIRED", number, FALSE)
  \/ page = "several" /\ reply' = Reading("UNKNOWN", NoNumber, TRUE)
  \/ page \in {"several", "approve"} /\ reply' = Plain("WAITING_FOR_MFA")
  \/ page = "expired" /\ reply' = Plain("SESSION_EXPIRED")
  \/ reply' = Unread

-----------------------------------------------------------------------------
(* The run.                                                                *)

Init ==
  /\ page \in PlannerWeb \union {"other"}
  /\ number = NoNumber
  /\ context = "UNKNOWN"
  /\ at = "idle"
  /\ polls = 0
  /\ reply = Unread
  /\ notified = {}
  /\ tried = {}
  /\ outcome = "none"
  /\ sent = [n \in Numbers |-> 0]
  /\ shown = {}
  /\ posted = [i \in Interstitial |-> 0]

\* The submit has gone through: the relay begins, in the worker as it is.
Start(p) ==
  /\ at = "idle"
  /\ Show(p, {})
  /\ at' = "poll"
  /\ polls' = 0
  /\ reply' = Unread
  /\ notified' = {}
  /\ tried' = {}
  /\ outcome' = "none"
  /\ sent' = [n \in Numbers |-> 0]
  /\ posted' = [i \in Interstitial |-> 0]
  /\ UNCHANGED context

End(r) == at' = "idle" /\ outcome' = r /\ UNCHANGED polls

GoTo(place) == at' = place /\ UNCHANGED <<polls, outcome>>

\* The end of the loop's body: another poll, if one is left.
NextPoll ==
  /\ polls' = polls + 1
  /\ IF polls + 1 = MaxPolls THEN at' = "idle" /\ outcome' = "MFA_TIMEOUT"
     ELSE at' = "poll" /\ UNCHANGED outcome

-----------------------------------------------------------------------------
(* One observation: the URL first, and the text only after an await.       *)

\* The probe fails, or the tab cannot be read.
ProbeFails ==
  /\ at \in {"poll", "read"}
  /\ End("OBSERVE_FAILED")
  /\ UNCHANGED <<tabVars, runVars, context, reply>>

\* Fault: Planner Web is evidence enough.
InFlightOrUnknown == {"UNKNOWN", "AUTH_REQUIRED", "MFA_REQUIRED", "WAITING_FOR_MFA"}

\* What counts as evidence that a sign-in is under way.
InFlight == {"AUTH_REQUIRED", "MFA_REQUIRED", "WAITING_FOR_MFA"}

ObserveAuthenticated ==
  /\ at = "poll"
  /\ page \in PlannerWeb
  /\ context \in InFlight \union {"AUTHENTICATED"}
  /\ Advance("AUTHENTICATED")
  /\ reply' = Plain("AUTHENTICATED")
  /\ GoTo("decide")
  /\ UNCHANGED <<tabVars, runVars>>

ObserveNoEvidence ==
  /\ at = "poll"
  /\ page \in PlannerWeb
  /\ context \in {"UNKNOWN", "READY"} \ InFlight
  /\ reply' = Unread
  /\ GoTo("decide")
  /\ UNCHANGED <<tabVars, runVars, context>>

ObserveSurface ==
  /\ at = "poll"
  /\ page \notin PlannerWeb \/ context \in {"SESSION_EXPIRED", "AUTH_FAILED"}
  /\ GoTo("read")
  /\ UNCHANGED <<tabVars, runVars, context, reply>>

ObserveText ==
  /\ at = "read"
  /\ ReadText
  /\ Advance(reply'.state)
  /\ GoTo("decide")
  /\ UNCHANGED <<tabVars, runVars>>

-----------------------------------------------------------------------------
(* What the conductor does with the reply.                                 *)

\* A reply that ends the run.
DecideToEnd ==
  /\ at = "decide"
  /\ \/ reply.ambiguous /\ End("MFA_AMBIGUOUS")
     \/ reply.state = "AUTHENTICATED" /\ End("OK")
     \/ reply.state = "SESSION_EXPIRED" /\ End("MFA_BLOCKED")
  /\ UNCHANGED <<tabVars, runVars, context, reply>>

\* Fault: waiting costs no poll.
DecideToWaitFree ==
  /\ at = "decide"
  /\ \/ reply.state \in {"UNKNOWN", "WAITING_FOR_MFA"} /\ ~reply.ambiguous
     \/ reply.state = "MFA_REQUIRED" /\ reply.number \in notified
  /\ GoTo("poll")
  /\ UNCHANGED <<tabVars, runVars, context, reply>>

\* Nothing new: approval is awaited, or the number has been relayed.
DecideToWait ==
  /\ at = "decide"
  /\ \/ reply.state \in {"UNKNOWN", "WAITING_FOR_MFA"} /\ ~reply.ambiguous
     \/ reply.state = "MFA_REQUIRED" /\ reply.number \in notified
  /\ NextPoll
  /\ UNCHANGED <<tabVars, runVars, context, reply>>

NewChallenge ==
  /\ at = "decide"
  /\ reply.state = "MFA_REQUIRED"
  /\ reply.number \notin notified

Notify ==
  /\ NewChallenge
  /\ sent' = [sent EXCEPT ![reply.number] = @ + 1]
  /\ notified' = notified \union {reply.number}
  /\ NextPoll
  /\ UNCHANGED <<tabVars, tried, posted, context, reply>>

\* Fault: what could not be sent is sent again at the next poll.
NotifyFailsRetries ==
  /\ NewChallenge
  /\ \E delivered \in {0, 1} : sent' = [sent EXCEPT ![reply.number] = @ + delivered]
  /\ NextPoll
  /\ UNCHANGED <<tabVars, tried, posted, notified, context, reply>>

\* hermes fails, whether or not the message went out before it did.
NotifyFails ==
  /\ NewChallenge
  /\ \E delivered \in {0, 1} : sent' = [sent EXCEPT ![reply.number] = @ + delivered]
  /\ End("MFA_NOTIFY_FAILED")
  /\ UNCHANGED <<tabVars, tried, posted, notified, context, reply>>

\* AUTH_REQUIRED: method selection once, and KMSI once if that did not advance.
DecideMethod ==
  /\ at = "decide"
  /\ reply.state = "AUTH_REQUIRED"
  /\ IF "methods" \in tried THEN GoTo("kmsi") ELSE GoTo("diagnose_methods")
  /\ tried' = tried \union {"methods"}
  /\ UNCHANGED <<tabVars, notified, sent, posted, context, reply>>

\* METHOD_SELECTION, or AMBIGUOUS: a sign-in page without any known marker.
MayHaveMethods == page \notin PlannerWeb \union {"kmsi"}

DiagnoseMethod ==
  /\ at = "diagnose_methods"
  /\ \/ MayHaveMethods /\ GoTo("post_methods")
     \/ GoTo("kmsi")
  /\ UNCHANGED <<tabVars, runVars, context, reply>>

Post(i) == posted' = [posted EXCEPT ![i] = @ + 1]

\* The route reads the tab again; it opens the options and picks the method, and
\* may fail after either click.
PostMethod ==
  /\ at = "post_methods"
  /\ Post("methods")
  /\ \/ /\ MayHaveMethods
        /\ \E p \in {"methods", "approve", "challenge"} : Show(p, shown)
        /\ NextPoll \/ GoTo("kmsi")
     \/ UNCHANGED tabVars /\ GoTo("kmsi")
  /\ UNCHANGED <<notified, tried, sent, context, reply>>

\* Fault: the attempt is not marked as spent.
KmsiTurnForgets ==
  /\ at = "kmsi"
  /\ IF "kmsi" \in tried THEN NextPoll ELSE GoTo("diagnose_kmsi")
  /\ UNCHANGED <<tabVars, runVars, context, reply>>

KmsiTurn ==
  /\ at = "kmsi"
  /\ IF "kmsi" \in tried THEN NextPoll ELSE GoTo("diagnose_kmsi")
  /\ tried' = tried \union {"kmsi"}
  /\ UNCHANGED <<tabVars, notified, sent, posted, context, reply>>

DiagnoseKmsi ==
  /\ at = "diagnose_kmsi"
  /\ \/ page = "kmsi" /\ GoTo("post_kmsi")
     \/ NextPoll
  /\ UNCHANGED <<tabVars, runVars, context, reply>>

\* The route reads the tab again, and declines if it still is KMSI.
PostKmsi ==
  /\ at = "post_kmsi"
  /\ Post("kmsi")
  /\ \/ UNCHANGED tabVars
     \/ page = "kmsi" /\ \E p \in AfterSubmit \intersect PlannerWeb : Show(p, shown)
  /\ NextPoll
  /\ UNCHANGED <<notified, tried, sent, context, reply>>

-----------------------------------------------------------------------------
\* Microsoft, or the person with the phone, moves the tab.
TabMoves ==
  /\ \E p \in Leads[page] : Show(p, shown)
  /\ UNCHANGED <<runVars, context, at, polls, reply, outcome>>

\* The worker restarts with the tab its profile restores; a read dies with it.
Restart ==
  /\ WorkerMayRestart
  /\ \E p \in PlannerWeb \union {"other"} : Show(p, shown)
  /\ context' = "UNKNOWN"
  /\ IF at = "read" THEN End("OBSERVE_FAILED") ELSE UNCHANGED <<at, polls, outcome>>
  /\ UNCHANGED <<runVars, reply>>

Sending == Notify \/ NotifyFails

Served ==
  \/ ProbeFails
  \/ ObserveAuthenticated \/ ObserveNoEvidence \/ ObserveSurface \/ ObserveText
  \/ DecideToEnd \/ DecideToWait
  \/ DecideMethod \/ DiagnoseMethod \/ PostMethod
  \/ KmsiTurn \/ DiagnoseKmsi \/ PostKmsi

Next ==
  \/ \E p \in AfterSubmit : Start(p)
  \/ Served
  \/ Sending
  \/ TabMoves
  \/ Restart

\* Each of the worker's routes answers, if only with an error.  hermes need not:
\* it is run without a timeout.
Spec == Init /\ [][Next]_vars /\ WF_vars(Served)

-----------------------------------------------------------------------------
(* Properties.                                                             *)

Place == {"idle", "poll", "read", "decide", "diagnose_methods", "post_methods", "kmsi",
          "diagnose_kmsi", "post_kmsi"}
Outcome == {"none", "OK", "OBSERVE_FAILED", "MFA_AMBIGUOUS", "MFA_NOTIFY_FAILED", "MFA_BLOCKED",
            "MFA_TIMEOUT"}

TypeOK ==
  /\ page \in Page
  /\ number \in Numbers \union {NoNumber}
  /\ context \in AuthState
  /\ at \in Place
  /\ polls \in 0..MaxPolls
  /\ reply \in [state : AuthState, number : Numbers \union {NoNumber}, ambiguous : BOOLEAN]
  /\ notified \subseteq Numbers
  /\ tried \subseteq Interstitial
  /\ outcome \in Outcome
  /\ sent \in [Numbers -> Nat]
  /\ shown \subseteq Numbers
  /\ posted \in [Interstitial -> Nat]

(* AUTH-114: in one run the person is sent a number at most once, a send   *)
(* that fails half way included, and never one that the tab has not shown  *)
(* in this run, whatever a reading of an earlier run was.                  *)
RelayedOnce == \A n \in Numbers : sent[n] <= 1 /\ (sent[n] > 0 => n \in shown)

(* Each interstitial is posted to at most once in a run, although the tab  *)
(* may come back to it and the attempts fail and fall through.             *)
OneAttemptEach == \A i \in Interstitial : posted[i] <= 1

(* AUTH-005: an observation reports AUTHENTICATED only while the tab shows *)
(* Planner Web signed in, and not for a state that an earlier run or an    *)
(* earlier worker left behind.                                             *)
AuthenticatedOnEvidence ==
  [][at # "decide" /\ at' = "decide" /\ reply'.state = "AUTHENTICATED" => page = "home"]_vars

(* AUTH-114: the flow is bounded, every run of the conductor ends.  It does *)
(* not if hermes hangs; and that is the one way, however often the tab      *)
(* moves and the worker restarts.                                           *)
EveryRunEnds == at # "idle" ~> at = "idle"

RunsEndIfSendsDo == []<>~NewChallenge => EveryRunEnds
=============================================================================
