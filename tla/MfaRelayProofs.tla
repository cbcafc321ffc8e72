--------------------------- MODULE MfaRelayProofs ---------------------------
(***************************************************************************)
(* What the relay does for every set of numbers and every length of the    *)
(* window: it sends a number once and only if it was on the tab, it spends *)
(* each attempt once, and AUTHENTICATED rests on the tab.                  *)
(***************************************************************************)
EXTENDS MfaRelay, TLAPS

\* A challenge shows a number, and what is shown is on record.
ChallengeShown ==
  /\ page = "challenge" => number \in Numbers
  /\ number \in Numbers => number \in shown

\* A reply that asks for approval carries a number of this run.
ReplyShown ==
  /\ reply.state = "MFA_REQUIRED" => reply.number \in Numbers
  /\ reply.number \in Numbers => reply.number \in shown

\* While a run goes on, a number is sent exactly if it is in notified_numbers.
SentIfNotified ==
  /\ notified \subseteq shown
  /\ at # "idle" => \A n \in Numbers : n \notin notified => sent[n] = 0

\* An attempt is marked as spent before its route is posted to.
Spending(i, places) ==
  /\ posted[i] > 0 \/ at \in places => i \in tried
  /\ at \in places => posted[i] = 0

AttemptsSpent ==
  /\ Spending("methods", {"diagnose_methods", "post_methods"})
  /\ Spending("kmsi", {"diagnose_kmsi", "post_kmsi"})

\* The run goes on only with a poll left.
PollsLeft == at # "idle" => polls < MaxPolls

IInv ==
  /\ TypeOK
  /\ PollsLeft
  /\ ChallengeShown
  /\ ReplyShown
  /\ SentIfNotified
  /\ RelayedOnce
  /\ AttemptsSpent
  /\ OneAttemptEach

\* Signed out on Planner Web is where a restarted worker may be, and no other.
SignedOutIsFresh ==
  page = "signed_out" => context = "UNKNOWN" /\ at # "read"

Replies == [state : AuthState, number : Numbers \union {NoNumber}, ambiguous : BOOLEAN]

-----------------------------------------------------------------------------
(* What the operators of the model return.                                 *)

LEMMA LeadsTyped == ASSUME page \in Page PROVE Leads[page] \subseteq Page
BY DEF Page, PlannerWeb, Interstitial, Leads, AfterSubmit

LEMMA AllowedTyped == ASSUME context \in AuthState PROVE Allowed[context] \subseteq AuthState
BY DEF AuthState, Allowed

LEMMA AdvanceTyped ==
  ASSUME context \in AuthState, NEW s, Advance(s)
  PROVE  context' \in AuthState
BY AllowedTyped DEF Advance

LEMMA ReadingTyped ==
  ASSUME NEW s \in AuthState, NEW n \in Numbers \union {NoNumber}, NEW b \in BOOLEAN
  PROVE  /\ Reading(s, n, b) \in Replies
         /\ Reading(s, n, b).state = s
         /\ Reading(s, n, b).number = n
<1>1. Reading(s, n, b) \in Replies
  BY Zenon DEF Reading, Replies
<1> QED BY <1>1 DEF Reading

\* A reading carries a number only if it is the one the tab shows.
LEMMA ReadTextTyped ==
  ASSUME number \in Numbers \union {NoNumber}, ReadText
  PROVE  /\ reply' \in Replies
         /\ reply'.number \in {number, NoNumber}
         /\ reply'.state = "MFA_REQUIRED" => page = "challenge" /\ reply'.number = number
<1>1. PICK s \in AuthState, n \in {number, NoNumber}, b \in BOOLEAN :
        /\ reply' = Reading(s, n, b)
        /\ s = "MFA_REQUIRED" => page = "challenge" /\ n = number
  BY DEF ReadText, Plain, Unread, AuthState
<1> QED BY <1>1, ReadingTyped

\* Whatever the tab comes to show is typed and on record.
LEMMA ShowKeeps ==
  ASSUME NEW p \in Page, NEW before \in SUBSET Numbers, Show(p, before)
  PROVE  /\ page' \in Page
         /\ number' \in Numbers \union {NoNumber}
         /\ shown' \in SUBSET Numbers
         /\ before \subseteq shown'
         /\ ChallengeShown'
BY NumbersAssumption DEF Show, ChallengeShown

LEMMA UnreadIsPlain ==
  Unread \in Replies /\ Unread.state # "MFA_REQUIRED" /\ Unread.number = NoNumber
BY DEF Unread, Plain, Reading, Replies, AuthState

-----------------------------------------------------------------------------
(* The invariant is inductive.                                             *)

LEMMA Initially == Init => IInv
<1> SUFFICES ASSUME Init PROVE IInv
  OBVIOUS
<1>1. TypeOK
  BY UnreadIsPlain, MaxPollsAssumption
  DEF Init, TypeOK, Replies, Page, PlannerWeb, AuthState, Place, Outcome
<1>2. ChallengeShown /\ ReplyShown /\ PollsLeft
  BY NumbersAssumption, UnreadIsPlain
     DEF Init, PollsLeft, ChallengeShown, ReplyShown, PlannerWeb
<1>3. SentIfNotified /\ RelayedOnce
  BY DEF Init, SentIfNotified, RelayedOnce
<1>4. AttemptsSpent /\ OneAttemptEach
  BY DEF Init, AttemptsSpent, Spending, OneAttemptEach, Interstitial
<1> QED BY <1>1, <1>2, <1>3, <1>4 DEF IInv

LEMMA StartKeeps ==
  ASSUME IInv, NEW p \in AfterSubmit, Start(p)
  PROVE  IInv'
<1>1. p \in Page /\ Show(p, {})
  BY DEF AfterSubmit, Page, PlannerWeb, Interstitial, Start
<1>2. /\ page' \in Page /\ number' \in Numbers \union {NoNumber} /\ shown' \in SUBSET Numbers
      /\ ChallengeShown'
  BY <1>1, ShowKeeps
<1>3. TypeOK'
  BY <1>2, UnreadIsPlain, MaxPollsAssumption
     DEF Start, IInv, TypeOK, Replies, Place, Outcome
<1>4. ReplyShown' /\ PollsLeft'
  BY UnreadIsPlain, NumbersAssumption, MaxPollsAssumption DEF Start, ReplyShown, PollsLeft
<1>5. SentIfNotified' /\ RelayedOnce'
  BY DEF Start, SentIfNotified, RelayedOnce
<1>6. AttemptsSpent' /\ OneAttemptEach'
  BY DEF Start, AttemptsSpent, Spending, OneAttemptEach, Interstitial
<1> QED BY <1>2, <1>3, <1>4, <1>5, <1>6 DEF IInv

\* Steps that neither move the tab nor write to the run's own records.
LEMMA QuietKeeps ==
  ASSUME IInv, UNCHANGED <<tabVars, runVars>>,
         TypeOK', PollsLeft', ReplyShown',
         at' # "idle" => at # "idle",
         \A place \in {"diagnose_methods", "post_methods"} :
           at' = place => at \in {"diagnose_methods", "post_methods"},
         \A place \in {"diagnose_kmsi", "post_kmsi"} :
           at' = place => at \in {"diagnose_kmsi", "post_kmsi"}
  PROVE  IInv'
<1>1. ChallengeShown' /\ SentIfNotified' /\ RelayedOnce'
  BY DEF IInv, ChallengeShown, SentIfNotified, RelayedOnce, tabVars, runVars
<1>2. AttemptsSpent' /\ OneAttemptEach'
  BY DEF IInv, AttemptsSpent, Spending, OneAttemptEach, runVars
<1> QED BY <1>1, <1>2 DEF IInv

\* The loop's body ends within the window.
LEMMA NextPollTyped ==
  ASSUME polls \in 0..MaxPolls, outcome \in Outcome, polls < MaxPolls, NextPoll
  PROVE  /\ polls' \in 0..MaxPolls /\ at' \in {"idle", "poll"} /\ outcome' \in Outcome
         /\ PollsLeft'
BY MaxPollsAssumption DEF NextPoll, Outcome, PollsLeft

LEMMA ObserveKeeps ==
  ASSUME IInv, ProbeFails \/ ObserveAuthenticated \/ ObserveNoEvidence \/ ObserveSurface
  PROVE  IInv'
<1>1. UNCHANGED <<tabVars, runVars>> /\ at \in {"poll", "read"}
  BY DEF ProbeFails, ObserveAuthenticated, ObserveNoEvidence, ObserveSurface
<1>2. at' \in {"idle", "decide", "read"} /\ UNCHANGED polls /\ outcome' \in Outcome
  BY DEF ProbeFails, ObserveAuthenticated, ObserveNoEvidence, ObserveSurface, End, GoTo,
         Outcome,
         IInv, TypeOK
<1>3. /\ reply' \in Replies
      /\ reply' = reply \/ (reply'.state # "MFA_REQUIRED" /\ reply'.number = NoNumber)
  <2>1. CASE reply' = reply
    BY <2>1 DEF IInv, TypeOK, Replies
  <2>2. CASE reply' = Plain("AUTHENTICATED")
    <3>1. /\ Plain("AUTHENTICATED") \in Replies
          /\ Plain("AUTHENTICATED").state = "AUTHENTICATED"
          /\ Plain("AUTHENTICATED").number = NoNumber
      BY ReadingTyped DEF Plain, AuthState, Reading
    <3> QED BY <2>2, <3>1
  <2>3. CASE reply' = Unread
    BY <2>3, UnreadIsPlain
  <2> QED
    BY <2>1, <2>2, <2>3
       DEF ProbeFails, ObserveAuthenticated, ObserveNoEvidence, ObserveSurface
<1>4. context' \in AuthState
  BY AdvanceTyped
     DEF ProbeFails, ObserveAuthenticated, ObserveNoEvidence, ObserveSurface, IInv, TypeOK
<1>5. TypeOK'
  BY <1>1, <1>2, <1>3, <1>4 DEF IInv, TypeOK, tabVars, runVars, Replies, Place
<1>6. PollsLeft' /\ ReplyShown'
  BY <1>1, <1>2, <1>3, NumbersAssumption DEF IInv, PollsLeft, ReplyShown, tabVars
<1> QED BY <1>1, <1>2, <1>5, <1>6, QuietKeeps

LEMMA ObserveTextKeeps ==
  ASSUME IInv, ObserveText
  PROVE  IInv'
<1>1. UNCHANGED <<tabVars, runVars, polls, outcome>> /\ at = "read" /\ at' = "decide"
  BY DEF ObserveText, GoTo
<1>2. /\ reply' \in Replies
      /\ reply'.number \in {number, NoNumber}
      /\ reply'.state = "MFA_REQUIRED" => page = "challenge" /\ reply'.number = number
  BY ReadTextTyped DEF ObserveText, IInv, TypeOK
<1>3. context' \in AuthState
  BY AdvanceTyped DEF ObserveText, IInv, TypeOK
<1>4. TypeOK'
  BY <1>1, <1>2, <1>3 DEF IInv, TypeOK, tabVars, runVars, Replies, Place
<1>5. PollsLeft' /\ ReplyShown'
  BY <1>1, <1>2, NumbersAssumption DEF IInv, PollsLeft, ReplyShown, ChallengeShown, tabVars
<1> QED BY <1>1, <1>4, <1>5, QuietKeeps

\* What ends the run or goes on with it and leaves the tab, the records and the reply alone.
LEMMA DecideKeeps ==
  ASSUME IInv, DecideToEnd \/ DecideToWait \/ DiagnoseMethod \/ DiagnoseKmsi
  PROVE  IInv'
<1>1. UNCHANGED <<tabVars, runVars, context, reply>> /\ at # "idle"
  BY DEF DecideToEnd, DecideToWait, DiagnoseMethod, DiagnoseKmsi
<1>2. /\ polls' \in 0..MaxPolls /\ at' \in Place /\ outcome' \in Outcome /\ PollsLeft'
      /\ \A place \in {"diagnose_methods", "post_methods"} : at' = place => at = "diagnose_methods"
      /\ \A place \in {"diagnose_kmsi", "post_kmsi"} : at' = place => at = "diagnose_kmsi"
  <2>1. polls < MaxPolls /\ polls \in 0..MaxPolls /\ outcome \in Outcome
    BY <1>1 DEF IInv, PollsLeft, TypeOK
  <2>2. CASE NextPoll
    BY <2>1, <2>2, NextPollTyped DEF Place
  <2>3. CASE UNCHANGED polls /\ at' = "idle" /\ outcome' \in Outcome
    BY <2>1, <2>3 DEF PollsLeft, Place
  <2>4. CASE at = "diagnose_methods" /\ at' \in {"post_methods", "kmsi"} /\ UNCHANGED <<polls, outcome>>
    BY <2>1, <2>4 DEF PollsLeft, Place
  <2>5. CASE at = "diagnose_kmsi" /\ at' = "post_kmsi" /\ UNCHANGED <<polls, outcome>>
    BY <2>1, <2>5 DEF PollsLeft, Place
  <2> QED
    BY <2>2, <2>3, <2>4, <2>5
    DEF DecideToEnd, DecideToWait, DiagnoseMethod, DiagnoseKmsi, End, GoTo, Outcome
<1>3. TypeOK'
  BY <1>1, <1>2 DEF IInv, TypeOK, tabVars, runVars
<1>4. ReplyShown'
  BY <1>1 DEF IInv, ReplyShown, tabVars
<1> QED BY <1>1, <1>2, <1>3, <1>4, QuietKeeps

LEMMA NotifyKeeps ==
  ASSUME IInv, Notify \/ NotifyFails
  PROVE  IInv'
<1> DEFINE n == reply.number
<1>1. n \in Numbers /\ n \in shown /\ n \notin notified /\ at = "decide" /\ sent[n] = 0
  BY DEF Notify, NotifyFails, NewChallenge, IInv, ReplyShown, SentIfNotified
<1>2. UNCHANGED <<tabVars, tried, posted, context, reply>>
  BY DEF Notify, NotifyFails
<1>3. PICK k \in {0, 1} : sent' = [sent EXCEPT ![n] = k]
  BY <1>1 DEF Notify, NotifyFails, IInv, TypeOK
<1>4. /\ polls' \in 0..MaxPolls /\ at' \in {"idle", "poll"} /\ outcome' \in Outcome /\ PollsLeft'
      /\ at' = "idle" \/ notified' = notified \union {n}
      /\ notified' \in {notified, notified \union {n}}
  <2>1. polls < MaxPolls /\ polls \in 0..MaxPolls /\ outcome \in Outcome
    BY <1>1 DEF IInv, PollsLeft, TypeOK
  <2>2. CASE Notify
    BY <2>1, <2>2, NextPollTyped DEF Notify
  <2>3. CASE NotifyFails
    BY <2>1, <2>3 DEF NotifyFails, End, PollsLeft, Outcome
  <2> QED BY <2>2, <2>3
<1> HIDE DEF n
<1>5. TypeOK'
  BY <1>1, <1>2, <1>3, <1>4 DEF IInv, TypeOK, tabVars, Place
<1>6. ChallengeShown' /\ ReplyShown'
  BY <1>2 DEF IInv, ChallengeShown, ReplyShown, tabVars
<1>7. SentIfNotified'
  BY <1>1, <1>2, <1>3, <1>4 DEF IInv, TypeOK, SentIfNotified, tabVars
<1>8. RelayedOnce'
  BY <1>1, <1>2, <1>3 DEF IInv, TypeOK, RelayedOnce, tabVars
<1>9. AttemptsSpent' /\ OneAttemptEach'
  BY <1>2, <1>4 DEF IInv, AttemptsSpent, Spending, OneAttemptEach
<1> QED BY <1>4, <1>5, <1>6, <1>7, <1>8, <1>9 DEF IInv

\* The turn to an interstitial marks its attempt as spent.
LEMMA TurnKeeps ==
  ASSUME IInv, DecideMethod \/ KmsiTurn
  PROVE  IInv'
<1>1. UNCHANGED <<tabVars, notified, sent, posted, context, reply>> /\ at # "idle"
  BY DEF DecideMethod, KmsiTurn
<1>2. polls < MaxPolls /\ polls \in 0..MaxPolls /\ outcome \in Outcome
  BY <1>1 DEF IInv, PollsLeft, TypeOK
<1>3. /\ polls' \in 0..MaxPolls /\ at' \in Place /\ outcome' \in Outcome /\ PollsLeft'
      /\ tried \subseteq tried' /\ tried' \subseteq Interstitial
      /\ at' \in {"idle", "poll", "kmsi", "diagnose_methods", "diagnose_kmsi"}
      /\ at' = "diagnose_methods" => "methods" \in tried' \ tried
      /\ at' = "diagnose_kmsi" => "kmsi" \in tried' \ tried
  <2>1. CASE DecideMethod
    BY <1>2, <2>1 DEF DecideMethod, GoTo, PollsLeft, Place, IInv, TypeOK, Interstitial
  <2>2. CASE KmsiTurn /\ "kmsi" \in tried
    BY <1>2, <2>2, NextPollTyped DEF KmsiTurn, Place, IInv, TypeOK, Interstitial
  <2>3. CASE KmsiTurn /\ "kmsi" \notin tried
    BY <1>2, <2>3 DEF KmsiTurn, GoTo, PollsLeft, Place, IInv, TypeOK, Interstitial
  <2> QED BY <2>1, <2>2, <2>3
<1>4. TypeOK'
  BY <1>1, <1>3 DEF IInv, TypeOK, tabVars
<1>5. ChallengeShown' /\ ReplyShown' /\ SentIfNotified' /\ RelayedOnce'
  BY <1>1 DEF IInv, ChallengeShown, ReplyShown, SentIfNotified, RelayedOnce, tabVars
<1>6. AttemptsSpent'
  BY <1>1, <1>3 DEF IInv, TypeOK, AttemptsSpent, Spending, Interstitial
<1>7. OneAttemptEach'
  BY <1>1 DEF IInv, OneAttemptEach
<1> QED BY <1>3, <1>4, <1>5, <1>6, <1>7 DEF IInv

\* A post moves the tab, if at all, to a page of the sign-in or back to Planner Web.
LEMMA PostKeeps ==
  ASSUME IInv, PostMethod \/ PostKmsi
  PROVE  IInv'
<1>1. UNCHANGED <<notified, tried, sent, context, reply>> /\ at # "idle"
  BY DEF MayHaveMethods, PostMethod, PostKmsi
<1>2. UNCHANGED tabVars \/ \E p \in Page : Show(p, shown)
  BY DEF MayHaveMethods, PostMethod, PostKmsi, Page, PlannerWeb, Interstitial
<1>3. /\ page' \in Page /\ number' \in Numbers \union {NoNumber} /\ shown' \in SUBSET Numbers
      /\ shown \subseteq shown'
      /\ ChallengeShown'
  <2>1. CASE UNCHANGED tabVars
    BY <2>1 DEF IInv, TypeOK, ChallengeShown, tabVars
  <2>2. CASE \E p \in Page : Show(p, shown)
    BY <2>2, ShowKeeps DEF IInv, TypeOK
  <2> QED BY <1>2, <2>1, <2>2
<1>4. polls < MaxPolls /\ polls \in 0..MaxPolls /\ outcome \in Outcome
  BY <1>1 DEF IInv, PollsLeft, TypeOK
<1>5. /\ polls' \in 0..MaxPolls /\ at' \in {"idle", "poll", "kmsi"} /\ outcome' \in Outcome
      /\ PollsLeft'
  <2>1. CASE NextPoll
    BY <1>4, <2>1, NextPollTyped
  <2>2. CASE GoTo("kmsi")
    BY <1>4, <2>2 DEF GoTo, PollsLeft
  <2> QED BY <2>1, <2>2 DEF MayHaveMethods, PostMethod, PostKmsi
<1>6. PICK i \in Interstitial :
        posted' = [posted EXCEPT ![i] = 1] /\ i \in tried
  BY DEF MayHaveMethods, PostMethod, PostKmsi, Post, IInv, TypeOK, AttemptsSpent,
         Spending, Interstitial
<1>7. TypeOK'
  BY <1>1, <1>3, <1>5, <1>6 DEF IInv, TypeOK, Place
<1>8. ReplyShown' /\ SentIfNotified' /\ RelayedOnce'
  BY <1>1, <1>3 DEF IInv, ReplyShown, SentIfNotified, RelayedOnce
<1>9. AttemptsSpent' /\ OneAttemptEach'
  BY <1>1, <1>5, <1>6
     DEF IInv, TypeOK, AttemptsSpent, Spending, OneAttemptEach, Interstitial
<1> QED BY <1>3, <1>5, <1>7, <1>8, <1>9 DEF IInv

\* The tab moves by itself, or the worker restarts with another.
LEMMA EnvironmentKeeps ==
  ASSUME IInv, TabMoves \/ Restart
  PROVE  IInv'
<1>1. PICK p \in Page : Show(p, shown)
  BY LeadsTyped DEF TabMoves, Restart, Page, PlannerWeb, IInv, TypeOK
<1>2. /\ page' \in Page /\ number' \in Numbers \union {NoNumber} /\ shown' \in SUBSET Numbers
      /\ shown \subseteq shown'
      /\ ChallengeShown'
  BY <1>1, ShowKeeps DEF IInv, TypeOK
<1>3. UNCHANGED <<runVars, polls, reply>> /\ at' \in {at, "idle"} /\ context' \in AuthState
      /\ outcome' \in Outcome /\ (at' # "idle" => at' = at)
  BY DEF TabMoves, Restart, End, IInv, TypeOK, AuthState, Outcome
<1>4. TypeOK'
  BY <1>2, <1>3 DEF IInv, TypeOK, runVars, Place
<1>5. PollsLeft' /\ ReplyShown' /\ SentIfNotified' /\ RelayedOnce'
  BY <1>2, <1>3 DEF IInv, PollsLeft, ReplyShown, SentIfNotified, RelayedOnce, runVars
<1>6. AttemptsSpent' /\ OneAttemptEach'
  BY <1>3 DEF IInv, AttemptsSpent, Spending, OneAttemptEach, runVars
<1> QED BY <1>2, <1>4, <1>5, <1>6 DEF IInv

LEMMA StutteringKeeps == ASSUME IInv, UNCHANGED vars PROVE IInv'
BY DEF IInv, TypeOK, PollsLeft, ChallengeShown, ReplyShown, SentIfNotified, RelayedOnce,
       AttemptsSpent, Spending, OneAttemptEach, vars, tabVars, runVars

LEMMA Inductive == IInv /\ [Next]_vars => IInv'
BY StartKeeps, ObserveKeeps, ObserveTextKeeps, DecideKeeps, NotifyKeeps, TurnKeeps,
       PostKeeps,
   EnvironmentKeeps, StutteringKeeps
DEF Next, Served, Sending

LEMMA Invariance == Spec => []IInv
BY Initially, Inductive, PTL DEF Spec

-----------------------------------------------------------------------------
(* The theorems.                                                           *)

(* The relay keeps its types, and no run makes more observations than its  *)
(* window has.                                                             *)
THEOREM TypeCorrect == Spec => []TypeOK
BY Invariance, PTL DEF IInv

(* However the tab, the phone and the sender behave, a run sends a number  *)
(* at most once, and only if the tab has shown it in that run.             *)
THEOREM NumbersAreRelayedOnce == Spec => []RelayedOnce
BY Invariance, PTL DEF IInv

(* Neither resolver is posted to twice in a run.                           *)
THEOREM AttemptsAreOneOff == Spec => []OneAttemptEach
BY Invariance, PTL DEF IInv

-----------------------------------------------------------------------------
LEMMA SignedOutInductive ==
  ASSUME ~MayLandSignedOut
  PROVE  TypeOK /\ SignedOutIsFresh /\ [Next]_vars => SignedOutIsFresh'
<1> SUFFICES ASSUME TypeOK, SignedOutIsFresh, [Next]_vars PROVE SignedOutIsFresh'
  OBVIOUS
<1>1. CASE UNCHANGED page /\ UNCHANGED context /\ (at' = "read" => at = "read")
  BY <1>1 DEF SignedOutIsFresh
<1>2. ASSUME NEW p \in AfterSubmit, Start(p) PROVE SignedOutIsFresh'
  BY <1>2 DEF Start, Show, AfterSubmit, Interstitial, SignedOutIsFresh
<1>3. CASE ObserveAuthenticated \/ ObserveSurface \/ ObserveText
  BY <1>3
     DEF ObserveAuthenticated, ObserveSurface, ObserveText, GoTo, SignedOutIsFresh,
         tabVars,
              InFlight, PlannerWeb
<1>4. CASE PostMethod \/ PostKmsi
  BY <1>4
     DEF MayHaveMethods, PostMethod, PostKmsi, Show, AfterSubmit, Interstitial,
         SignedOutIsFresh, tabVars,
              GoTo, NextPoll
<1>5. CASE TabMoves
  <2>1. "signed_out" \notin Leads[page]
    BY DEF TypeOK, Page, PlannerWeb, Leads, AfterSubmit, Interstitial
  <2> QED BY <1>5, <2>1 DEF TabMoves, Show, SignedOutIsFresh
<1>6. CASE Restart
  BY <1>6 DEF Restart, End, Show, SignedOutIsFresh
<1> QED
  BY <1>1, <1>2, <1>3, <1>4, <1>5, <1>6
  DEF Next, Served, Sending, ProbeFails, ObserveNoEvidence, DecideToEnd, DecideToWait,
         Notify,
      NotifyFails, DecideMethod, DiagnoseMethod, KmsiTurn, DiagnoseKmsi, End, GoTo, NextPoll,
      vars, tabVars

(* If a sign-in returns to Planner Web signed in, as the worker assumes,   *)
(* AUTHENTICATED is only ever reported while the tab is signed in: neither *)
(* a restart nor the state an earlier run has left can bring it about.     *)
THEOREM ReportedOnEvidence ==
  ASSUME ~MayLandSignedOut
  PROVE  Spec => AuthenticatedOnEvidence
<1>1. Init => SignedOutIsFresh
  BY DEF Init, SignedOutIsFresh
<1>2. SignedOutIsFresh /\ [Next]_vars =>
        [at # "decide" /\ at' = "decide" /\ reply'.state = "AUTHENTICATED" => page = "home"]_vars
  <2> SUFFICES ASSUME SignedOutIsFresh, Next, at # "decide", at' = "decide",
                      reply'.state = "AUTHENTICATED"
               PROVE  page = "home"
    OBVIOUS
  <2>1. ObserveAuthenticated \/ ObserveNoEvidence \/ ObserveText
    BY DEF Next, Start, Served, Sending, ProbeFails, ObserveSurface, DecideToEnd,
           DecideToWait, Notify,
           NotifyFails, NewChallenge, DecideMethod, DiagnoseMethod, PostMethod, KmsiTurn,
           DiagnoseKmsi, PostKmsi, TabMoves, Restart, End, GoTo, NextPoll
  <2>2. CASE ObserveAuthenticated
    BY <2>2 DEF ObserveAuthenticated, SignedOutIsFresh, InFlight, PlannerWeb
  <2>3. ~ObserveNoEvidence
    BY DEF ObserveNoEvidence, Unread, Plain, Reading
  <2>4. ~ObserveText
    BY DEF ObserveText, ReadText, Unread, Plain, Reading
  <2> QED BY <2>1, <2>2, <2>3, <2>4
<1> QED BY <1>1, <1>2, SignedOutInductive, TypeCorrect, PTL DEF Spec, AuthenticatedOnEvidence
=============================================================================
