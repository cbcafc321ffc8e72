------------------------- MODULE OperatorSigninProofs -------------------------
(***************************************************************************)
(* What the sign-in routes do for every number of tabs and of clients: the *)
(* requests of a run never meet, so what a handler noted of the tabs still *)
(* holds when it acts on it; from that follow the tabs begin-signin may    *)
(* close and, if no click times out after the page has reacted to it, that *)
(* the surface latch never stands before an account chooser.               *)
(***************************************************************************)
EXTENDS OperatorSignin, FiniteSetTheorems, TLAPS

Routes == {"none", "navigate", "begin", "resolve", "email", "kmsi", "method", "submit"}

BeginPlaces == {"goto", "sign_in", "settle", "settled", "popup", "landed", "reauth"}

Places == BeginPlaces \union
  {"idle", "read", "reread", "act", "check", "probed", "fill", "next", "password", "verify", "tail"}

Calls == [route : Routes, at : Places, page : Pages \union {NoPage},
          popup : Pages \union {NoPage}, before : SUBSET Pages, seen : SUBSET Pages,
          samples : 0..Polls, streak : 0..Samples, tail : BOOLEAN,
          reply : {"none", "ok", "refused"}]

Typed ==
  /\ tab \in [Pages -> Surface \union {"closed"}]
  /\ latch \in BOOLEAN
  /\ call \in [Clients -> Calls]

\* A request of a run; the submits that a client has given up on are not.
Running(c) == call[c].route \notin {"none", "submit"}

RunsAlone == \A c, d \in Clients : Running(c) /\ Running(d) => c = d

\* A click of begin-signin is out, and what comes of it is not decided yet.
Clicked(c) == call[c].route = "begin" /\ call[c].at \in {"settle", "settled", "popup"}

\* A Planner Web tab on which a click can be made or is under way.
Clickable == {"planner", "leaving", "popping"}

\* A request is under way exactly if it has a route, and its tab is known; a
\* request of a run still has that tab.
CallHeld(c) ==
  /\ call[c].route = "none" <=> call[c].at = "idle"
  /\ call[c].route # "none" => call[c].page \in Pages
  /\ Running(c) => call[c].page \in Open
  /\ call[c].route = "begin" => call[c].at \in BeginPlaces

\* Only a submit counts absences, at most one a sample.
CallCounted(c) ==
  /\ call[c].streak # 0 => call[c].route = "submit"
  /\ call[c].streak <= call[c].samples
  /\ call[c].route = "submit" => call[c].samples <= Samples
  /\ call[c].at \in {"sign_in", "settle"} => call[c].samples < Polls

\* While Sign In is looked for and waited on, no other tab can be clicked.
SourceAlone(c) ==
  Clicked(c) \/ (call[c].route = "begin" /\ call[c].at = "sign_in") =>
    \A q \in Pages \ {call[c].page} : tab[q] \notin Clickable

\* After the click the noted tabs are still there, the popups come all at once,
\* and by then the source tab is a plain Planner Web tab again.
Settling(c) ==
  Clicked(c) =>
    /\ call[c].page \in call[c].before
    /\ call[c].before \subseteq Open
    /\ call[c].seen \in {call[c].before, Open}
    /\ Open = call[c].before \/ tab[call[c].page] = "planner"
    /\ call[c].at = "popup" =>
         /\ call[c].popup \in Pages \ call[c].before
         /\ Open = call[c].before \union {call[c].popup}

\* Nothing that was resolved before it counts once begin-signin has landed.
Unlatched(c) == call[c].route = "begin" /\ call[c].at = "reauth" => ~latch

\* The tab that is being resolved stays the only one.
ResolvingAlone(c) ==
  call[c].route = "resolve" => Open = {call[c].page} /\ tab[call[c].page] \notin Clickable

CallInv(c) ==
  CallHeld(c) /\ CallCounted(c) /\ SourceAlone(c) /\ Settling(c) /\ Unlatched(c) /\ ResolvingAlone(c)

\* With the latch set and no begin-signin about to clear it, nothing is on its
\* way to a chooser, and neither a chooser nor a tab that could be sent to one
\* is the only tab; a click that is waited on is the exception.
LatchGuards ==
  /\ \A q \in Pages : tab[q] = "popup" => \E c \in Clients : Clicked(c) /\ q \notin call[c].before
  /\ \A q \in Pages : tab[q] \in {"leaving", "popping"} =>
       \E c \in Clients : Clicked(c) /\ call[c].page = q
  /\ \A q \in Pages : Open = {q} /\ tab[q] \in {"blank", "chooser"} =>
       \E c \in Clients : Clicked(c)
  /\ \A c \in Clients : call[c].route = "begin" /\ call[c].at = "goto" => Open # {call[c].page}

LandingUnderWay == \E c \in Clients : call[c].route = "begin" /\ call[c].at = "landed"

LatchInv == latch => LandingUnderWay \/ LatchGuards

IInv ==
  /\ Typed
  /\ RunsAlone
  /\ SomeTabRemains
  /\ \A c \in Clients : CallInv(c)
  /\ ~ClicksMayTimeOutLate => LatchInv

-----------------------------------------------------------------------------
(* What the operators on requests do.                                      *)

\* The other clients' requests stay as they are.
OthersWait(c) == \A d \in Clients \ {c} : call'[d] = call[d]

LEMMA IdleTyped ==
  /\ Idle \in Calls /\ Idle.route = "none" /\ Idle.at = "idle"
  /\ Idle.samples = 0 /\ Idle.streak = 0 /\ Idle.reply = "none"
BY DEF Idle, Calls, Routes, Places, Polls, Samples

LEMMA ReplyMakes ==
  ASSUME Typed, NEW c \in Clients, NEW r \in {"none", "ok", "refused"}, Reply(c, r)
  PROVE  /\ call' \in [Clients -> Calls] /\ OthersWait(c)
         /\ call'[c].route = "none" /\ call'[c].at = "idle"
         /\ call'[c].samples = 0 /\ call'[c].streak = 0 /\ call'[c].reply = r
<1> DEFINE answered == [Idle EXCEPT !.reply = r]
<1>1. /\ answered \in Calls /\ answered.route = "none" /\ answered.at = "idle"
      /\ answered.samples = 0 /\ answered.streak = 0 /\ answered.reply = r
  BY IdleTyped DEF Calls
<1>2. call' = [call EXCEPT ![c] = answered]
  BY DEF Reply
<1> HIDE DEF answered
<1> QED BY <1>1, <1>2 DEF Typed, OthersWait

LEMMA EnterMakes ==
  ASSUME Typed, NEW c \in Clients, NEW route \in Routes, NEW at \in Places, NEW p \in Pages,
         Enter(c, route, at, p)
  PROVE  /\ call' \in [Clients -> Calls] /\ OthersWait(c)
         /\ call'[c].route = route /\ call'[c].at = at /\ call'[c].page = p
         /\ call'[c].samples = 0 /\ call'[c].streak = 0 /\ call'[c].reply = "none"
<1> DEFINE entered == [Idle EXCEPT !.route = route, !.at = at, !.page = p]
<1>1. /\ entered \in Calls /\ entered.route = route /\ entered.at = at /\ entered.page = p
      /\ entered.samples = 0 /\ entered.streak = 0 /\ entered.reply = "none"
  BY IdleTyped DEF Calls
<1>2. call' = [call EXCEPT ![c] = entered]
  BY DEF Enter
<1> HIDE DEF entered
<1> QED BY <1>1, <1>2 DEF Typed, OthersWait

LEMMA GoToMakes ==
  ASSUME Typed, NEW c \in Clients, NEW at \in Places, GoTo(c, at)
  PROVE  /\ call' \in [Clients -> Calls] /\ OthersWait(c)
         /\ call'[c] = [call[c] EXCEPT !.at = at] /\ call'[c].at = at
         /\ call'[c].route = call[c].route /\ call'[c].page = call[c].page
         /\ call'[c].popup = call[c].popup /\ call'[c].before = call[c].before
         /\ call'[c].seen = call[c].seen /\ call'[c].samples = call[c].samples
         /\ call'[c].streak = call[c].streak /\ call'[c].tail = call[c].tail
BY DEF GoTo, Typed, OthersWait, Calls

LEMMA VerifyMakes ==
  ASSUME Typed, NEW c \in Clients, NEW b \in BOOLEAN, Verify(c, b)
  PROVE  /\ call' \in [Clients -> Calls] /\ OthersWait(c)
         /\ call'[c].route = call[c].route /\ call'[c].page = call[c].page
         /\ call'[c].at = "verify" /\ call'[c].samples = 0 /\ call'[c].streak = 0
<1> DEFINE verifying == [call[c] EXCEPT !.at = "verify", !.samples = 0, !.streak = 0, !.tail = b]
<1>1. call[c] \in Calls
  BY DEF Typed
<1>2. /\ verifying \in Calls /\ verifying.route = call[c].route /\ verifying.page = call[c].page
      /\ verifying.at = "verify" /\ verifying.samples = 0 /\ verifying.streak = 0
  <2>1. "verify" \in Places /\ 0 \in 0..Polls /\ 0 \in 0..Samples
    BY DEF Places, Polls, Samples
  <2> QED BY <1>1, <2>1 DEF Calls
<1>3. call' = [call EXCEPT ![c] = verifying]
  BY DEF Verify, Typed
<1> HIDE DEF verifying
<1> QED BY <1>2, <1>3 DEF Typed, OthersWait

-----------------------------------------------------------------------------
(* Steps that open and close no tab, and neither start nor end what a      *)
(* click or a chooser depends on.                                          *)

QuietTabs ==
  /\ tab' \in [Pages -> Surface \union {"closed"}]
  /\ \A q \in Pages : tab'[q] = "closed" <=> tab[q] = "closed"
  /\ \A q \in Pages : tab'[q] \in Clickable \union Neutral \union {"chooser"} => tab'[q] = tab[q]
  /\ \A q \in Pages : tab[q] = "planner" => tab'[q] = "planner"

LEMMA QuietOpen == QuietTabs => Open' = Open
BY DEF QuietTabs, Open

LEMMA UntouchedIsQuiet == Typed /\ UNCHANGED tab => QuietTabs
BY DEF Typed, QuietTabs

LEMMA BecomeTyped ==
  ASSUME Typed, NEW p \in Pages, NEW s \in Surface \union {"closed"}, Become(p, s)
  PROVE  /\ tab' \in [Pages -> Surface \union {"closed"}]
         /\ tab'[p] = s
         /\ \A q \in Pages \ {p} : tab'[q] = tab[q]
BY DEF Typed, Become

LEMMA BecomeIsQuiet ==
  ASSUME Typed, NEW p \in Pages, tab[p] \notin {"closed", "planner"},
         NEW s \in Surface \ (Clickable \union Neutral \union {"chooser"}), Become(p, s)
  PROVE  QuietTabs
<1>1. s # "closed"
  BY DEF Surface, Neutral, Planner, Auth, Landing
<1> QED BY <1>1, BecomeTyped DEF QuietTabs

\* What a request holds of the tabs is untouched by a quiet step.
LEMMA QuietCallKeeps ==
  ASSUME QuietTabs, NEW c \in Clients, CallInv(c), call'[c] = call[c],
         latch' => latch \/ call[c].route # "begin", CallHeld(c)
  PROVE  CallInv(c)'
<1>1. Open' = Open
  BY QuietOpen
<1>2. CallHeld(c)' /\ CallCounted(c)'
  BY <1>1 DEF CallInv, CallHeld, CallCounted, Running
<1>3. SourceAlone(c)'
  BY DEF CallInv, SourceAlone, Clicked, QuietTabs
<1>4. Settling(c)'
  BY <1>1 DEF CallInv, CallHeld, Settling, Clicked, QuietTabs
<1>5. Unlatched(c)'
  BY DEF CallInv, Unlatched
<1>6. ResolvingAlone(c)'
  BY <1>1 DEF CallInv, CallHeld, ResolvingAlone, QuietTabs
<1> QED BY <1>2, <1>3, <1>4, <1>5, <1>6 DEF CallInv

\* A submit, or no request at all, holds nothing of the tabs.
LEMMA BystanderKeeps ==
  ASSUME NEW c \in Clients, CallInv(c), call'[c] = call[c], ~Running(c)
  PROVE  CallInv(c)'
BY DEF CallInv, CallHeld, CallCounted, Running, SourceAlone, Settling, Unlatched,
       ResolvingAlone, Clicked

\* What holds of any request that is answered.
LEMMA AnsweredHolds ==
  ASSUME NEW c \in Clients, call'[c].route = "none", call'[c].at = "idle",
         call'[c].samples = 0, call'[c].streak = 0
  PROVE  CallInv(c)' /\ ~Running(c)'
BY DEF CallInv, CallHeld, CallCounted, Running, SourceAlone, Settling, Unlatched,
       ResolvingAlone, Clicked

\* The guards of the latch outlive a quiet step that is not a click's.
LEMMA QuietLatchKeeps ==
  ASSUME QuietTabs, LatchInv, latch' => latch,
         \A c \in Clients : call'[c] = call[c] \/
           (~Clicked(c) /\ ~(call[c].route = "begin" /\ call[c].at = "landed")
            /\ call'[c].route # "begin")
  PROVE  LatchInv'
<1> SUFFICES ASSUME latch' PROVE LandingUnderWay' \/ LatchGuards'
  BY DEF LatchInv
<1>1. CASE LandingUnderWay
  BY <1>1 DEF LandingUnderWay
<1>2. CASE LatchGuards
  <2>1. Open' = Open
    BY QuietOpen
  <2>2. \A c \in Clients : Clicked(c) => Clicked(c)' /\ call'[c] = call[c]
    BY DEF Clicked
  <2>3. \A q \in Pages : tab'[q] = "popup" => \E c \in Clients : Clicked(c)' /\ q \notin call'[c].before
    BY <1>2, <2>2 DEF LatchGuards, QuietTabs, Neutral
  <2>4. \A q \in Pages : tab'[q] \in {"leaving", "popping"} =>
          \E c \in Clients : Clicked(c)' /\ call'[c].page = q
    BY <1>2, <2>2 DEF LatchGuards, QuietTabs, Clickable
  <2>5. \A q \in Pages : Open' = {q} /\ tab'[q] \in {"blank", "chooser"} => \E c \in Clients : Clicked(c)'
    BY <1>2, <2>1, <2>2 DEF LatchGuards, QuietTabs, Neutral
  <2>6. \A c \in Clients : call'[c].route = "begin" /\ call'[c].at = "goto" => Open' # {call'[c].page}
    BY <1>2, <2>1 DEF LatchGuards
  <2> QED BY <2>3, <2>4, <2>5, <2>6 DEF LatchGuards
<1> QED BY <1>1, <1>2 DEF LatchInv

-----------------------------------------------------------------------------
(* One client's step: the others' requests wait.                           *)

LEMMA Assemble ==
  ASSUME IInv, NEW c \in Clients, OthersWait(c), Typed', SomeTabRemains', CallInv(c)',
         \A d \in Clients \ {c} : CallInv(d)',
         Running(c)' => Running(c) \/ \A d \in Clients : ~Running(d),
         ~ClicksMayTimeOutLate => LatchInv'
  PROVE  IInv'
<1>1. RunsAlone'
  BY DEF IInv, RunsAlone, Running, OthersWait
<1> QED BY <1>1 DEF IInv

\* The one request of the run takes a step.
LEMMA RunStep ==
  ASSUME IInv, NEW c \in Clients, OthersWait(c), Typed', SomeTabRemains', CallInv(c)',
         Running(c) \/ \A d \in Clients : ~Running(d),
         ~ClicksMayTimeOutLate => LatchInv'
  PROVE  IInv'
<1>1. \A d \in Clients \ {c} : CallInv(d)'
  BY BystanderKeeps DEF IInv, RunsAlone, OthersWait
<1> QED BY <1>1, Assemble

\* A step that is not a click's, whoever takes it.
LEMMA QuietStep ==
  ASSUME IInv, NEW c \in Clients, OthersWait(c), call' \in [Clients -> Calls],
         QuietTabs, latch' \in {latch, FALSE}, CallInv(c)',
         Running(c)' => Running(c) \/ \A d \in Clients : ~Running(d),
         call'[c].route # "begin",
         ~Clicked(c), ~(call[c].route = "begin" /\ call[c].at = "landed")
  PROVE  IInv'
<1>1. Typed'
  BY DEF IInv, Typed, QuietTabs
<1>2. SomeTabRemains'
  BY QuietOpen DEF IInv, SomeTabRemains
<1>a. latch' => latch
  BY Zenon
<1>3. ASSUME NEW d \in Clients \ {c} PROVE CallInv(d)'
  <2>1. d \in Clients /\ CallInv(d) /\ call'[d] = call[d]
    BY DEF IInv, OthersWait
  <2>2. CallHeld(d)
    BY <2>1 DEF CallInv
  <2> QED BY <2>1, <2>2, <1>a, QuietCallKeeps
<1>4. ~ClicksMayTimeOutLate => LatchInv'
  <2>1. \A d \in Clients : call'[d] = call[d] \/
           (~Clicked(d) /\ ~(call[d].route = "begin" /\ call[d].at = "landed")
            /\ call'[d].route # "begin")
    BY DEF OthersWait
  <2> QED BY <2>1, <1>a, QuietLatchKeeps DEF IInv
<1> QED BY <1>1, <1>2, <1>3, <1>4, Assemble

LEMMA ReplyStep ==
  ASSUME IInv, NEW c \in Clients, NEW r \in {"ok", "refused"}, Reply(c, r),
         QuietTabs, latch' \in {latch, FALSE},
         ~Clicked(c), ~(call[c].route = "begin" /\ call[c].at = "landed")
  PROVE  IInv'
<1>1. /\ call' \in [Clients -> Calls] /\ OthersWait(c)
      /\ call'[c].route = "none" /\ call'[c].at = "idle"
      /\ call'[c].samples = 0 /\ call'[c].streak = 0
  BY ReplyMakes DEF IInv
<1>2. CallInv(c)' /\ ~Running(c)'
  BY <1>1, AnsweredHolds
<1> QED BY <1>1, <1>2, QuietStep

\* A handler of any other route goes on, on the tab it has.
LEMMA GoOnStep ==
  ASSUME IInv, NEW c \in Clients, OthersWait(c), call' \in [Clients -> Calls],
         QuietTabs, UNCHANGED latch, CallCounted(c)',
         call[c].route \notin {"none", "begin"},
         call'[c].route = call[c].route, call'[c].page = call[c].page, call'[c].at # "idle"
  PROVE  IInv'
<1>1. CallInv(c)
  BY DEF IInv
<1>2. CallHeld(c)' /\ SourceAlone(c)' /\ Settling(c)' /\ Unlatched(c)'
  BY <1>1, QuietOpen DEF CallInv, CallHeld, Running, SourceAlone, Settling, Unlatched, Clicked
<1>3. ResolvingAlone(c)'
  BY <1>1, QuietOpen DEF CallInv, CallHeld, ResolvingAlone, QuietTabs
<1>4. CallInv(c)'
  BY <1>2, <1>3 DEF CallInv
<1> QED BY <1>4, QuietStep DEF Running, Clicked

\* MaySend() admits a request only if no request of a run is under way.
LEMMA MaySendAlone ==
  ASSUME IInv, NEW c \in Clients, MaySend(c)
  PROVE  \A d \in Clients : ~Running(d)
BY DEF IInv, CallInv, CallHeld, MaySend, Running

\* A request on a tab that is open.
LEMMA EnterStep ==
  ASSUME IInv, NEW c \in Clients, ~Running(c), NEW p \in Open,
         NEW route \in {"navigate", "resolve", "email", "kmsi", "method", "submit"},
         NEW at \in {"goto", "read", "act", "probed", "fill"}, Enter(c, route, at, p),
         route = "submit" \/ \A d \in Clients : ~Running(d),
         route = "resolve" => Open = {p} /\ tab[p] \notin Clickable,
         UNCHANGED <<tab, latch>>
  PROVE  IInv'
<1>1. p \in Pages /\ route \in Routes /\ at \in Places /\ Open' = Open
  BY DEF Open, Routes, Places, BeginPlaces
<1>2. /\ call' \in [Clients -> Calls] /\ OthersWait(c)
      /\ call'[c].route = route /\ call'[c].at = at /\ call'[c].page = p
      /\ call'[c].samples = 0 /\ call'[c].streak = 0
  BY <1>1, EnterMakes DEF IInv
<1>3. CallInv(c)'
  BY <1>1, <1>2 DEF CallInv, CallHeld, CallCounted, Running, SourceAlone, Settling,
       Unlatched, ResolvingAlone, Clicked, Samples
<1>4. QuietTabs
  BY UntouchedIsQuiet DEF IInv
<1> QED BY <1>2, <1>3, <1>4, QuietStep DEF Running, Clicked

-----------------------------------------------------------------------------
(* Requests, and the handlers that only take quiet steps.                  *)

LEMMA RefuseKeeps ==
  ASSUME IInv, NEW c \in Clients, Refuse(c)
  PROVE  IInv'
<1>1. call[c].at = "idle" /\ call[c].route = "none"
  BY DEF Refuse, MaySend, IInv, CallInv, CallHeld
<1>2. QuietTabs /\ UNCHANGED latch /\ Reply(c, "refused")
  BY UntouchedIsQuiet DEF Refuse, IInv
<1> QED BY <1>1, <1>2, ReplyStep DEF Clicked

LEMMA QuietRequestKeeps ==
  ASSUME IInv, NEW c \in Clients,
         \/ NavigateRefused(c) \/ NavigateReuse(c) \/ BeginRefused(c) \/ ResolveStart(c)
         \/ \E r \in DOMAIN Stage : StageStart(c, r)
         \/ SubmitProbe(c)
         \/ (call[c].at = "idle" \/ At(c, "submit", "probed")) /\ SubmitStart(c)
  PROVE  IInv'
<1>r. ASSUME Refuse(c) PROVE IInv'
  BY <1>r, RefuseKeeps
<1>i. MaySend(c) => ~Running(c) /\ \A d \in Clients : ~Running(d)
  BY MaySendAlone
<1>1. CASE NavigateRefused(c) \/ BeginRefused(c)
  BY <1>1, <1>r DEF NavigateRefused, BeginRefused
<1>2. CASE NavigateReuse(c)
  BY <1>2, <1>i, EnterStep DEF NavigateReuse
<1>3. CASE ResolveStart(c)
  <2>1. CASE NoAuthPage /\ Refuse(c)
    BY <2>1, <1>r
  <2>2. ASSUME NEW p \in Open, MaySend(c), TheAuthPage(p), Enter(c, "resolve", "read", p),
               UNCHANGED <<tab, latch>>
        PROVE  IInv'
    <3>1. Open = {p} /\ tab[p] \notin Clickable
      BY <2>2 DEF TheAuthPage, auth_origin_approved, Neutral, Auth, Landing, Clickable
    <3> QED BY <2>2, <3>1, <1>i, EnterStep
  <2> QED BY <1>3, <2>1, <2>2 DEF ResolveStart
<1>4. CASE \E r \in DOMAIN Stage : StageStart(c, r)
  <2>1. PICK r \in {"email", "kmsi", "method"} : StageStart(c, r)
    BY <1>4 DEF Stage
  <2> QED BY <2>1, <1>r, <1>i, EnterStep DEF StageStart
<1>5. CASE SubmitProbe(c)
  <2>1. CASE Reply(c, "refused")
    <3>1. Refuse(c)
      BY <1>5, <2>1 DEF SubmitProbe, Refuse
    <3> QED BY <3>1, <1>r
  <2> QED BY <1>5, <2>1, <1>i, EnterStep DEF SubmitProbe
<1>6. CASE (call[c].at = "idle" \/ At(c, "submit", "probed")) /\ SubmitStart(c)
  <2>1. ~Running(c) /\ ~Clicked(c) /\ call[c].route # "begin"
    BY <1>6 DEF At, Running, Clicked, IInv, CallInv, CallHeld
  <2>2. CASE Reply(c, "refused")
    BY <1>6, <2>1, <2>2, UntouchedIsQuiet, ReplyStep DEF SubmitStart, IInv
  <2> QED BY <1>6, <2>1, <2>2, EnterStep DEF SubmitStart
<1> QED BY <1>1, <1>2, <1>3, <1>4, <1>5, <1>6

LEMMA StageStepKeeps ==
  ASSUME IInv, NEW c \in Clients, NEW r \in DOMAIN Stage, StageAct(c, r) \/ StageCheck(c, r)
  PROVE  IInv'
<1>1. /\ r \in {"email", "kmsi", "method"} /\ call[c].route = r
      /\ Typed /\ ~Clicked(c) /\ UNCHANGED latch
  BY DEF Stage, StageAct, StageCheck, At, IInv, Clicked
<1>2. call[c].page \in Pages /\ CallInv(c)
  BY <1>1 DEF IInv, CallInv, CallHeld
<1>3. ASSUME UNCHANGED tab, NEW answer \in {"ok", "refused"}, Reply(c, answer) PROVE IInv'
  BY <1>1, <1>3, UntouchedIsQuiet, ReplyStep
<1>4. ASSUME tab[call[c].page] \in Stage[r].on, GoTo(c, "check"),
             NEW s \in Stage[r].to, Become(call[c].page, s)
      PROVE  IInv'
  <2>1. QuietTabs
    <3>1. /\ tab[call[c].page] \notin {"closed", "planner"}
          /\ s \in Surface \ (Clickable \union Neutral \union {"chooser"})
      BY <1>1, <1>4 DEF Stage, Surface, Planner, Auth, Landing, Clickable, Neutral
    <3> QED BY <1>1, <1>2, <1>4, <3>1, BecomeIsQuiet
  <2>2. "check" \in Places
    BY DEF Places
  <2>3. /\ OthersWait(c) /\ call' \in [Clients -> Calls] /\ call'[c].route = call[c].route
        /\ call'[c].page = call[c].page /\ call'[c].at = "check"
        /\ call'[c].samples = call[c].samples /\ call'[c].streak = call[c].streak
    BY <1>1, <1>4, <2>2, GoToMakes
  <2>4. CallCounted(c)'
    BY <1>2, <2>3 DEF CallInv, CallCounted
  <2> QED BY <1>1, <2>1, <2>3, <2>4, GoOnStep
<1>5. CASE StageAct(c, r)
  BY <1>3, <1>4, <1>5 DEF StageAct
<1>6. CASE StageCheck(c, r)
  BY <1>3, <1>6 DEF StageCheck
<1> QED BY <1>5, <1>6

\* Every step of a submit is quiet, whatever the run is doing meanwhile.
LEMMA SubmitKeeps ==
  ASSUME IInv, NEW c \in Clients,
         \/ SubmitCombined(c) \/ SubmitEmail(c) \/ SubmitAfterNext(c) \/ SubmitPassword(c)
         \/ SubmitNoMatch(c) \/ SubmitSample(c) \/ SubmitVerdict(c) \/ SubmitTail(c)
  PROVE  IInv'
<1> DEFINE p == call[c].page
<1>1. call[c].route = "submit" /\ UNCHANGED latch /\ Typed /\ CallInv(c) /\ ~Clicked(c)
  BY DEF SubmitCombined, SubmitEmail, SubmitAfterNext, SubmitPassword, SubmitNoMatch,
         SubmitSample, SubmitVerdict, SubmitTail, At, IInv, Clicked
<1>2. p \in Pages /\ CallCounted(c)
  BY <1>1 DEF CallInv, CallHeld
<1>3. QuietTabs
  <2>1. CASE UNCHANGED tab
    BY <1>1, <2>1, UntouchedIsQuiet
  <2>2. ASSUME tab[p] \in Form \union {"email"},
               NEW s \in {"signing", "email", "password", "error", "outside"}, Become(p, s)
        PROVE  QuietTabs
    <3>1. /\ tab[p] \notin {"closed", "planner"}
          /\ s \in Surface \ (Clickable \union Neutral \union {"chooser"})
      BY <2>2 DEF Form, Surface, Planner, Auth, Landing, Clickable, Neutral
    <3> QED BY <1>1, <1>2, <2>2, <3>1, BecomeIsQuiet
  <2>3. CASE SubmitEmail(c)
    BY <2>2, <2>3 DEF SubmitEmail
  <2>4. CASE SubmitCombined(c) \/ SubmitPassword(c) \/ SubmitTail(c)
    BY <2>2, <2>4 DEF SubmitCombined, SubmitPassword, SubmitTail, Form
  <2>5. CASE SubmitAfterNext(c) \/ SubmitNoMatch(c) \/ SubmitSample(c) \/ SubmitVerdict(c)
    BY <2>1, <2>5 DEF SubmitAfterNext, SubmitNoMatch, SubmitSample, SubmitVerdict
  <2> QED BY <2>3, <2>4, <2>5
<1>4. ASSUME NEW answer \in {"ok", "refused"}, Reply(c, answer) PROVE IInv'
  BY <1>1, <1>3, <1>4, ReplyStep
<1>5. ASSUME NEW at \in {"next", "password", "tail"}, GoTo(c, at) PROVE IInv'
  <2>1. at \in Places
    BY DEF Places
  <2>2. /\ OthersWait(c) /\ call' \in [Clients -> Calls] /\ call'[c].route = call[c].route
        /\ call'[c].page = call[c].page /\ call'[c].at = at
        /\ call'[c].samples = call[c].samples /\ call'[c].streak = call[c].streak
    BY <1>1, <1>5, <2>1, GoToMakes
  <2>3. CallCounted(c)'
    BY <1>2, <2>2 DEF CallCounted
  <2> QED BY <1>1, <1>3, <2>2, <2>3, GoOnStep
<1>6. ASSUME NEW b \in BOOLEAN, Verify(c, b) PROVE IInv'
  <2>1. /\ call' \in [Clients -> Calls] /\ OthersWait(c)
        /\ call'[c].route = call[c].route /\ call'[c].page = call[c].page
        /\ call'[c].at = "verify" /\ call'[c].samples = 0 /\ call'[c].streak = 0
    BY <1>1, <1>6, VerifyMakes
  <2>2. CallCounted(c)'
    BY <1>1, <2>1 DEF CallCounted, Samples
  <2> QED BY <1>1, <1>3, <2>1, <2>2, GoOnStep
<1>7. CASE SubmitSample(c)
  <2>1. call[c] \in Calls /\ call[c].samples \in 0..4 /\ call[c].streak \in 0..call[c].samples
    BY <1>1, <1>2, <1>7 DEF SubmitSample, Samples, CallCounted, Typed, Calls, Polls
  <2>2. PICK n \in 1..Samples, k \in 0..Samples :
          k <= n /\ call' = [call EXCEPT ![c].samples = n, ![c].streak = k]
    BY <1>1, <1>7, <2>1 DEF SubmitSample, Sampled, Samples, Typed
  <2>3. n \in 0..Polls /\ k \in 0..Samples
    BY DEF Polls, Samples
  <2>4. /\ call' \in [Clients -> Calls] /\ OthersWait(c)
        /\ call'[c].route = call[c].route /\ call'[c].page = call[c].page
        /\ call'[c].at = call[c].at /\ call'[c].samples = n /\ call'[c].streak = k
    <3> DEFINE sampled == [call[c] EXCEPT !.samples = n, !.streak = k]
    <3>1. /\ sampled \in Calls /\ sampled.route = call[c].route /\ sampled.page = call[c].page
          /\ sampled.at = call[c].at /\ sampled.samples = n /\ sampled.streak = k
      BY <2>1, <2>3 DEF Calls
    <3>2. call' = [call EXCEPT ![c] = sampled]
      BY <1>1, <2>2 DEF Typed
    <3> HIDE DEF sampled
    <3> QED BY <1>1, <3>1, <3>2 DEF Typed, OthersWait
  <2>5. CallCounted(c)' /\ call'[c].at # "idle"
    BY <1>1, <1>7, <2>2, <2>4 DEF CallCounted, Samples, SubmitSample, At
  <2> QED BY <1>1, <1>3, <2>4, <2>5, GoOnStep
<1>8. CASE SubmitCombined(c) \/ SubmitPassword(c) \/ SubmitTail(c)
  BY <1>4, <1>6, <1>8 DEF SubmitCombined, SubmitPassword, SubmitTail
<1>9. CASE SubmitEmail(c) \/ SubmitAfterNext(c) \/ SubmitNoMatch(c) \/ SubmitVerdict(c)
  BY <1>4, <1>5, <1>9 DEF SubmitEmail, SubmitAfterNext, SubmitNoMatch, SubmitVerdict
<1> QED BY <1>7, <1>8, <1>9

-----------------------------------------------------------------------------
(* Steps of the run that open, close or move tabs.                         *)

\* No click is out: nothing is on its way to a chooser, and no tab that could be
\* sent to one is the only tab.
Calm ==
  /\ \A q \in Pages : tab[q] \notin {"leaving", "popping", "popup"}
  /\ \A q \in Pages : Open = {q} => tab[q] \notin {"blank", "chooser"}

LEMMA CalmBefore ==
  ASSUME IInv, ~ClicksMayTimeOutLate, latch,
         \A d \in Clients : ~Clicked(d) /\ ~(call[d].route = "begin" /\ call[d].at = "landed")
  PROVE  Calm
<1>1. LatchGuards
  BY DEF IInv, LatchInv, LandingUnderWay
<1> QED BY <1>1 DEF LatchGuards, Calm

LEMMA CalmAfter ==
  ASSUME latch' => /\ Calm'
                   /\ \A d \in Clients : call'[d].route = "begin" /\ call'[d].at = "goto" =>
                                           Open' # {call'[d].page}
  PROVE  LatchInv'
BY DEF LatchInv, LatchGuards, Calm

\* What a request of the run knows of the others.
LEMMA OthersStill ==
  ASSUME IInv, NEW c \in Clients, Running(c), OthersWait(c)
  PROVE  \A d \in Clients \ {c} :
           /\ call[d].route \in {"none", "submit"} /\ call'[d].route \in {"none", "submit"}
           /\ ~Clicked(d)
BY DEF IInv, RunsAlone, OthersWait, Running, Clicked

\* A new tab is opened for navigate or begin-signin.
LEMMA NewPageKeeps ==
  ASSUME IInv, NEW c \in Clients, NavigateNewPage(c) \/ BeginNewPage(c)
  PROVE  IInv'
<1>1. PICK p \in Pages \ Open, route \in {"navigate", "begin"} :
        MaySend(c) /\ Become(p, "blank") /\ Enter(c, route, "goto", p) /\ UNCHANGED latch
  BY DEF NavigateNewPage, BeginNewPage
<1>2. Typed /\ \A d \in Clients : ~Running(d)
  BY <1>1, MaySendAlone DEF IInv
<1>3. /\ tab' \in [Pages -> Surface \union {"closed"}] /\ tab'[p] = "blank"
      /\ \A q \in Pages \ {p} : tab'[q] = tab[q]
  BY <1>1, <1>2, BecomeTyped DEF Surface, Neutral
<1>4. Open' = Open \union {p} /\ p \notin Open
  BY <1>1, <1>3 DEF Open
<1>5. /\ call' \in [Clients -> Calls] /\ OthersWait(c)
      /\ call'[c].route = route /\ call'[c].at = "goto" /\ call'[c].page = p
      /\ call'[c].samples = 0 /\ call'[c].streak = 0
  BY <1>1, <1>2, EnterMakes DEF Routes, Places, BeginPlaces
<1>6. Typed'
  BY <1>1, <1>2, <1>3, <1>5 DEF Typed
<1>7. SomeTabRemains'
  BY <1>4 DEF SomeTabRemains
<1>8. CallInv(c)'
  BY <1>4, <1>5 DEF CallInv, CallHeld, CallCounted, Running, SourceAlone, Settling,
       Unlatched, ResolvingAlone, Clicked, Samples, BeginPlaces
<1>9. ~ClicksMayTimeOutLate => LatchInv'
  <2> SUFFICES ASSUME ~ClicksMayTimeOutLate, latch' PROVE LatchInv'
    BY DEF LatchInv
  <2>1. Calm
    BY <1>1, <1>2, CalmBefore DEF Running, Clicked
  <2>2. \A q : Open' # {q}
    BY <1>4 DEF IInv, SomeTabRemains
  <2>3. Calm'
    BY <1>3, <2>1, <2>2 DEF Calm
  <2> QED BY <2>2, <2>3, CalmAfter
<1> QED BY <1>2, <1>5, <1>6, <1>7, <1>8, <1>9, RunStep

LEMMA NavigateGotoKeeps ==
  ASSUME IInv, NEW c \in Clients, NavigateGoto(c)
  PROVE  IInv'
<1> DEFINE p == call[c].page
<1>1. /\ Typed /\ Running(c) /\ call[c].route = "navigate" /\ ~Clicked(c)
      /\ p \in Open /\ p \in Pages
  BY DEF NavigateGoto, At, Running, Clicked, IInv, CallInv, CallHeld
<1>2. PICK answer \in {"ok", "refused"} : Reply(c, answer)
  BY DEF NavigateGoto
<1>3. UNCHANGED latch
  BY DEF NavigateGoto
<1>4. CASE UNCHANGED tab
  BY <1>1, <1>2, <1>3, <1>4, UntouchedIsQuiet, ReplyStep
<1>5. ASSUME NEW s \in {"planner", "home"}, Become(p, s) PROVE IInv'
  <2>1. /\ tab' \in [Pages -> Surface \union {"closed"}] /\ tab'[p] = s
        /\ \A q \in Pages \ {p} : tab'[q] = tab[q]
    BY <1>1, <1>5, BecomeTyped DEF Surface, Planner
  <2>2. Open' = Open
    BY <1>1, <2>1 DEF Open
  <2>3. /\ call' \in [Clients -> Calls] /\ OthersWait(c) /\ CallInv(c)' /\ ~Running(c)'
    BY <1>1, <1>2, ReplyMakes, AnsweredHolds
  <2>4. Typed' /\ SomeTabRemains'
    BY <1>1, <1>3, <2>1, <2>2, <2>3 DEF Typed, IInv, SomeTabRemains
  <2>5. ~ClicksMayTimeOutLate => LatchInv'
    <3> SUFFICES ASSUME ~ClicksMayTimeOutLate, latch' PROVE LatchInv'
      BY DEF LatchInv
    <3>1. \A d \in Clients \ {c} : /\ call[d].route \in {"none", "submit"}
                                     /\ call'[d].route \in {"none", "submit"}
                                     /\ ~Clicked(d)
      BY <1>1, <2>3, OthersStill
    <3>2. Calm
      BY <1>1, <1>3, <3>1, CalmBefore DEF Clicked
    <3>3. Calm'
      BY <2>1, <2>2, <3>2 DEF Calm
    <3> QED BY <2>3, <3>1, <3>3, CalmAfter DEF Running
  <2> QED BY <1>1, <2>3, <2>4, <2>5, RunStep
<1> QED BY <1>4, <1>5 DEF NavigateGoto

LEMMA ResolveKeeps ==
  ASSUME IInv, NEW c \in Clients,
         \/ ResolveEmail(c) \/ ResolveForward(c) \/ ResolveReread(c) \/ ResolveUnread(c)
         \/ ResolveOther(c)
  PROVE  IInv'
<1> DEFINE p == call[c].page
<1>1. /\ Typed /\ Running(c) /\ call[c].route = "resolve" /\ ~Clicked(c) /\ CallInv(c)
      /\ p \in Open /\ p \in Pages /\ Open = {p} /\ tab[p] \notin Clickable
  BY DEF ResolveEmail, ResolveForward, ResolveReread, ResolveUnread, ResolveOther, At, Running,
         Clicked, IInv, CallInv, CallHeld, ResolvingAlone
<1>2. ASSUME UNCHANGED tab, latch' \in {latch, FALSE}, NEW answer \in {"ok", "refused"},
             Reply(c, answer)
      PROVE  IInv'
  BY <1>1, <1>2, UntouchedIsQuiet, ReplyStep
<1>3. ASSUME tab[p] \in ReadsAsEmail, UNCHANGED tab, latch' = TRUE, Reply(c, "ok") PROVE IInv'
  <2>1. Open' = Open
    BY <1>3 DEF Open
  <2>2. /\ call' \in [Clients -> Calls] /\ OthersWait(c) /\ CallInv(c)' /\ ~Running(c)'
    BY <1>1, <1>3, ReplyMakes, AnsweredHolds
  <2>3. Typed' /\ SomeTabRemains'
    BY <1>1, <1>3, <2>1, <2>2 DEF Typed, IInv, SomeTabRemains
  <2>4. LatchInv'
    <3>1. \A d \in Clients : call'[d].route \in {"none", "submit"}
      BY <1>1, <2>2, OthersStill DEF Running
    <3>2. \A q \in Pages : tab[q] \notin {"leaving", "popping", "popup", "blank", "chooser"}
      BY <1>1, <1>3 DEF ReadsAsEmail, Open
    <3>3. Calm'
      BY <1>3, <3>2 DEF Calm
    <3> QED BY <3>1, <3>3, CalmAfter
  <2> QED BY <1>1, <2>2, <2>3, <2>4, RunStep
<1>4. CASE ResolveEmail(c)
  BY <1>3, <1>4 DEF ResolveEmail
<1>5. CASE ResolveReread(c)
  <2> DEFINE asEmail == tab[p] \in ReadsAsEmail
  <2>1. ASSUME latch' = asEmail, Reply(c, IF latch' THEN "ok" ELSE "refused") PROVE IInv'
    <3>1. CASE asEmail
      <4>1. latch' = TRUE
        BY <2>1, <3>1
      <4>2. Reply(c, "ok")
        BY <2>1, <4>1
      <4> QED BY <1>3, <1>5, <3>1, <4>1, <4>2 DEF ResolveReread
    <3>2. CASE ~asEmail
      <4>0. asEmail = FALSE
        BY <3>2 DEF ReadsAsEmail
      <4>1. latch' = FALSE
        BY <2>1, <4>0
      <4>2. Reply(c, "refused")
        BY <2>1, <4>1
      <4> QED BY <1>2, <1>5, <4>1, <4>2 DEF ResolveReread
    <3> QED BY <3>1, <3>2
  <2>2. CASE UNCHANGED latch /\ Reply(c, "refused")
    BY <1>2, <1>5, <2>2 DEF ResolveReread
  <2> QED BY <1>5, <2>1, <2>2 DEF ResolveReread
<1>6. CASE ResolveUnread(c) \/ ResolveOther(c)
  BY <1>2, <1>6 DEF ResolveUnread, ResolveOther
<1>7. CASE ResolveForward(c)
  <2>1. QuietTabs /\ UNCHANGED latch /\ GoTo(c, "reread")
    <3>1. CASE UNCHANGED tab
      BY <1>1, <1>7, <3>1, UntouchedIsQuiet DEF ResolveForward
    <3>2. CASE Become(p, "email")
      <4>1. "email" \in Surface \ (Clickable \union Neutral \union {"chooser"})
        BY DEF Surface, Planner, Auth, Landing, Clickable, Neutral
      <4> QED BY <1>1, <1>7, <3>2, <4>1, BecomeIsQuiet DEF ResolveForward
    <3> QED BY <1>7, <3>1, <3>2 DEF ResolveForward
  <2>2. "reread" \in Places
    BY DEF Places
  <2>3. /\ OthersWait(c) /\ call' \in [Clients -> Calls] /\ call'[c].route = call[c].route
        /\ call'[c].page = call[c].page /\ call'[c].at = "reread"
        /\ call'[c].samples = call[c].samples /\ call'[c].streak = call[c].streak
    BY <1>1, <2>1, <2>2, GoToMakes
  <2>4. CallCounted(c)'
    BY <1>1, <2>3 DEF CallInv, CallCounted
  <2> QED BY <1>1, <2>1, <2>3, <2>4, GoOnStep
<1> QED BY <1>4, <1>5, <1>6, <1>7

-----------------------------------------------------------------------------
(* begin-signin.                                                           *)

\* begin-signin has landed, and is about to clear the latch.
LEMMA LandedLatchKeeps ==
  ASSUME NEW c \in Clients, call'[c].route = "begin", call'[c].at = "landed"
  PROVE  LatchInv'
BY DEF LatchInv, LandingUnderWay

\* Before the click, the run's one request is no exception to the calm.
LEMMA CalmBeforeClick ==
  ASSUME IInv, NEW c \in Clients, ~ClicksMayTimeOutLate, latch,
         call[c].route = "begin", call[c].at \in {"goto", "sign_in"}
  PROVE  Calm /\ (call[c].at = "goto" => Open # {call[c].page})
<1>1. \A d \in Clients : call[d].route = "begin" => d = c
  BY DEF IInv, RunsAlone, Running
<1>2. \A d \in Clients : ~Clicked(d) /\ ~(call[d].route = "begin" /\ call[d].at = "landed")
  BY <1>1 DEF Clicked
<1>3. LatchGuards
  BY <1>2 DEF IInv, LatchInv, LandingUnderWay
<1> QED BY <1>2, <1>3, CalmBefore DEF LatchGuards

\* After it, what is on its way to a chooser is the source tab and its popups.
LEMMA ClickedBefore ==
  ASSUME IInv, NEW c \in Clients, ~ClicksMayTimeOutLate, latch, Clicked(c)
  PROVE  /\ \A q \in Pages : tab[q] = "popup" => q \notin call[c].before
         /\ \A q \in Pages : tab[q] \in {"leaving", "popping"} => q = call[c].page
<1>1. \A d \in Clients : call[d].route = "begin" => d = c
  BY DEF IInv, RunsAlone, Running, Clicked
<1>2. LatchGuards
  BY <1>1 DEF IInv, LatchInv, LandingUnderWay, Clicked
<1> QED BY <1>1, <1>2 DEF LatchGuards, Clicked

LEMMA ClickedAfter ==
  ASSUME NEW c \in Clients, Clicked(c)', \A d \in Clients \ {c} : call'[d].route # "begin",
         latch' => /\ \A q \in Pages : tab'[q] = "popup" => q \notin call'[c].before
                   /\ \A q \in Pages : tab'[q] \in {"leaving", "popping"} => q = call'[c].page
  PROVE  LatchInv'
BY DEF LatchInv, LatchGuards, Clicked

LEMMA BeginReuseKeeps ==
  ASSUME IInv, NEW c \in Clients, BeginReuse(c)
  PROVE  IInv'
<1>1. PICK p \in Open :
        /\ MaySend(c) /\ ~Ambiguous /\ Reusable(p)
        /\ Enter(c, "begin", IF tab[p] \in Planner THEN "sign_in" ELSE "goto", p)
        /\ UNCHANGED <<tab, latch>>
  BY DEF BeginReuse
<1> DEFINE at == IF tab[p] \in Planner THEN "sign_in" ELSE "goto"
<1>2. /\ p \in Pages /\ at \in {"goto", "sign_in"} /\ at \in Places /\ "begin" \in Routes
      /\ Open' = Open /\ Typed
  BY <1>1 DEF Open, Places, BeginPlaces, Routes, IInv
<1>3. \A d \in Clients : ~Running(d)
  BY <1>1, MaySendAlone
<1>4. /\ call' \in [Clients -> Calls] /\ OthersWait(c)
      /\ call'[c].route = "begin" /\ call'[c].at = at /\ call'[c].page = p
      /\ call'[c].samples = 0 /\ call'[c].streak = 0
  BY <1>1, <1>2, EnterMakes
<1>5. at = "sign_in" => \A q \in Pages \ {p} : tab[q] \notin Clickable
  BY <1>1 DEF Reusable, Showing, Open, Clickable, Planner, Neutral
<1>6. CallInv(c)'
  BY <1>1, <1>2, <1>4, <1>5 DEF CallInv, CallHeld, CallCounted, Running, SourceAlone, Settling,
       Unlatched, ResolvingAlone, Clicked, Samples, Polls, BeginPlaces
<1>7. Typed' /\ SomeTabRemains'
  BY <1>1, <1>2, <1>4 DEF Typed, IInv, SomeTabRemains
<1>8. ~ClicksMayTimeOutLate => LatchInv'
  <2> SUFFICES ASSUME ~ClicksMayTimeOutLate, latch' PROVE LatchInv'
    BY DEF LatchInv
  <2>1. Calm
    BY <1>1, <1>3, CalmBefore DEF Running, Clicked
  <2>2. Calm'
    BY <1>1, <2>1 DEF Calm, Open
  <2>3. at = "goto" => Open # {p}
    <3>1. tab[p] \notin Planner => tab[p] \in Neutral
      BY <1>1 DEF Reusable, Showing
    <3> QED BY <1>2, <2>1, <3>1 DEF Calm, Neutral
  <2>4. \A d \in Clients : call'[d].route = "begin" => d = c
    BY <1>3, <1>4 DEF OthersWait, Running
  <2> QED BY <1>2, <1>4, <2>2, <2>3, <2>4, CalmAfter
<1> QED BY <1>3, <1>4, <1>6, <1>7, <1>8, RunStep

\* The goto of the sign-in page, and a click that raises.
LEMMA BeginGotoKeeps ==
  ASSUME IInv, NEW c \in Clients,
         BeginGoto(c) \/ BeginNoControl(c) \/ BeginClickRaises(c)
  PROVE  IInv'
<1> DEFINE p == call[c].page
<1>1. /\ Typed /\ Running(c) /\ call[c].route = "begin" /\ call[c].at \in {"goto", "sign_in"}
      /\ p \in Open /\ p \in Pages /\ CallInv(c) /\ ~Clicked(c) /\ UNCHANGED latch
  BY DEF BeginGoto, BeginNoControl, BeginClickRaises, At, Running, Clicked, IInv, CallInv, CallHeld
<1>2. ASSUME UNCHANGED tab, Reply(c, "refused") PROVE IInv'
  BY <1>1, <1>2, UntouchedIsQuiet, ReplyStep
<1>3. ASSUME NEW s \in Landing \union {"leaving", "popping"}, Become(p, s)
      PROVE  /\ tab' \in [Pages -> Surface \union {"closed"}] /\ tab'[p] = s
             /\ \A q \in Pages \ {p} : tab'[q] = tab[q]
             /\ Open' = Open
  <2>1. s \in Surface /\ s # "closed"
    BY DEF Surface, Landing, Auth, Planner
  <2>2. /\ tab' \in [Pages -> Surface \union {"closed"}] /\ tab'[p] = s
        /\ \A q \in Pages \ {p} : tab'[q] = tab[q]
    BY <1>1, <1>3, <2>1, BecomeTyped
  <2> QED BY <1>1, <2>1, <2>2 DEF Open
<1>4. ASSUME Reply(c, "refused"), NEW s \in Landing \union {"leaving", "popping"}, Become(p, s),
             ~ClicksMayTimeOutLate => call[c].at = "goto" /\ s \in Landing
      PROVE  IInv'
  <2>1. /\ tab' \in [Pages -> Surface \union {"closed"}] /\ tab'[p] = s
        /\ \A q \in Pages \ {p} : tab'[q] = tab[q]
        /\ Open' = Open
    BY <1>3, <1>4
  <2>2. /\ call' \in [Clients -> Calls] /\ OthersWait(c) /\ CallInv(c)' /\ ~Running(c)'
    BY <1>1, <1>4, ReplyMakes, AnsweredHolds
  <2>3. Typed' /\ SomeTabRemains'
    BY <1>1, <2>1, <2>2 DEF Typed, IInv, SomeTabRemains
  <2>4. ~ClicksMayTimeOutLate => LatchInv'
    <3> SUFFICES ASSUME ~ClicksMayTimeOutLate, latch' PROVE LatchInv'
      BY DEF LatchInv
    <3>1. Calm /\ Open # {p}
      BY <1>1, <1>4, CalmBeforeClick
    <3>2. Calm'
      BY <1>4, <2>1, <3>1 DEF Calm, Landing
    <3>3. \A d \in Clients : call'[d].route # "begin"
      BY <1>1, <2>2, OthersStill DEF Running
    <3> QED BY <3>2, <3>3, CalmAfter
  <2> QED BY <1>1, <2>2, <2>3, <2>4, RunStep
<1>5. CASE BeginGoto(c)
  <2>1. CASE Reply(c, "refused")
    BY <1>2, <1>4, <1>5, <2>1 DEF BeginGoto, At
  <2>2. CASE GoTo(c, "landed")
    <3>1. tab' \in [Pages -> Surface \union {"closed"}] /\ Open' = Open
      BY <1>1, <1>3, <1>5 DEF BeginGoto, Typed, Open
    <3>2. "landed" \in Places
      BY DEF Places, BeginPlaces
    <3>3. /\ OthersWait(c) /\ call' \in [Clients -> Calls] /\ call'[c].route = call[c].route
          /\ call'[c].page = call[c].page /\ call'[c].at = "landed"
          /\ call'[c].samples = call[c].samples /\ call'[c].streak = call[c].streak
      BY <1>1, <2>2, <3>2, GoToMakes
    <3>4. CallInv(c)'
      BY <1>1, <3>1, <3>3 DEF CallInv, CallHeld, CallCounted, Running, SourceAlone, Settling,
         Unlatched, ResolvingAlone, Clicked, BeginPlaces
    <3>5. Typed' /\ SomeTabRemains'
      BY <1>1, <3>1, <3>3 DEF Typed, IInv, SomeTabRemains
    <3>6. LatchInv'
      BY <1>1, <3>3, LandedLatchKeeps
    <3> QED BY <1>1, <3>3, <3>4, <3>5, <3>6, RunStep
  <2> QED BY <1>5, <2>1, <2>2 DEF BeginGoto
<1>6. CASE BeginNoControl(c)
  BY <1>2, <1>6 DEF BeginNoControl
<1>7. CASE BeginClickRaises(c)
  BY <1>2, <1>4, <1>7 DEF BeginClickRaises
<1> QED BY <1>5, <1>6, <1>7

LEMMA BeginClickKeeps ==
  ASSUME IInv, NEW c \in Clients, BeginClick(c)
  PROVE  IInv'
<1> DEFINE p == call[c].page
<1>1. /\ Typed /\ Running(c) /\ call[c].route = "begin" /\ call[c].at = "sign_in"
      /\ p \in Open /\ p \in Pages /\ CallInv(c) /\ UNCHANGED latch
      /\ call[c] \in Calls
  BY DEF BeginClick, At, Running, IInv, CallInv, CallHeld, Typed
<1>2. PICK s \in Landing \union {"leaving", "popping"} : Become(p, s)
  BY DEF BeginClick
<1>3. s \in Surface /\ s \notin {"closed", "popup"}
  BY DEF Surface, Landing, Auth, Planner
<1>4. /\ tab' \in [Pages -> Surface \union {"closed"}] /\ tab'[p] = s
      /\ \A q \in Pages \ {p} : tab'[q] = tab[q]
  BY <1>1, <1>2, <1>3, BecomeTyped
<1>5. Open' = Open /\ Open \in SUBSET Pages
  BY <1>1, <1>3, <1>4 DEF Open
<1>6. /\ call' \in [Clients -> Calls] /\ OthersWait(c) /\ call'[c].route = "begin"
      /\ call'[c].page = p /\ call'[c].at = "settle" /\ call'[c].before = Open
      /\ call'[c].seen = Open /\ call'[c].samples = call[c].samples
      /\ call'[c].streak = call[c].streak
  <2> DEFINE clicked == [call[c] EXCEPT !.at = "settle", !.before = Open, !.seen = Open]
  <2>1. "settle" \in Places
    BY DEF Places, BeginPlaces
  <2>2. /\ clicked \in Calls /\ clicked.route = "begin" /\ clicked.page = p
        /\ clicked.at = "settle" /\ clicked.before = Open /\ clicked.seen = Open
        /\ clicked.samples = call[c].samples /\ clicked.streak = call[c].streak
    BY <1>1, <1>5, <2>1 DEF Calls
  <2>3. call' = [call EXCEPT ![c] = clicked]
    BY <1>1 DEF BeginClick, Typed
  <2> HIDE DEF clicked
  <2> QED BY <1>1, <2>2, <2>3 DEF Typed, OthersWait
<1>7. call'[c].samples < Polls
  BY <1>1, <1>6 DEF CallInv, CallCounted
<1>8. CallInv(c)'
  BY <1>1, <1>4, <1>5, <1>6, <1>7 DEF CallInv, CallHeld, CallCounted, Running, SourceAlone,
     Settling, Unlatched, ResolvingAlone, Clicked, BeginPlaces
<1>9. Typed' /\ SomeTabRemains'
  BY <1>1, <1>4, <1>5, <1>6 DEF Typed, IInv, SomeTabRemains
<1>10. ~ClicksMayTimeOutLate => LatchInv'
  <2> SUFFICES ASSUME ~ClicksMayTimeOutLate, latch' PROVE LatchInv'
    BY DEF LatchInv
  <2>1. Calm
    BY <1>1, CalmBeforeClick
  <2>2. \A d \in Clients \ {c} : call'[d].route # "begin"
    BY <1>1, <1>6, OthersStill
  <2>3. Clicked(c)'
    BY <1>6 DEF Clicked
  <2> QED BY <1>3, <1>4, <1>6, <2>1, <2>2, <2>3, ClickedAfter DEF Calm
<1> QED BY <1>1, <1>6, <1>8, <1>9, <1>10, RunStep

\* Within the window the polls only look; one new tab becomes the popup.
LEMMA BeginSettleKeeps ==
  ASSUME IInv, NEW c \in Clients, BeginPoll(c) \/ BeginOnePopup(c)
  PROVE  IInv'
<1> DEFINE p == call[c].page
<1>1. /\ Typed /\ Running(c) /\ Clicked(c) /\ call[c].route = "begin" /\ p \in Open /\ p \in Pages
      /\ CallInv(c) /\ call[c] \in Calls /\ UNCHANGED <<tab, latch>>
  BY DEF BeginPoll, BeginOnePopup, At, Running, Clicked, IInv, CallInv, CallHeld, Typed
<1>2. Open' = Open /\ Open \in SUBSET Pages
  BY <1>1 DEF Open
<1>3. ASSUME NEW next \in Calls, call' = [call EXCEPT ![c] = next],
             next.route = "begin", next.page = p, next.before = call[c].before,
             next.seen \in {next.before, Open}, next.streak = call[c].streak,
             next.samples >= call[c].samples, next.at \in {"settle", "settled", "popup"},
             next.at = "settle" => next.samples < Polls,
             next.at = "popup" => /\ next.popup \in Pages \ next.before
                                  /\ Open = next.before \union {next.popup}
      PROVE  IInv'
  <2>1. call' \in [Clients -> Calls] /\ OthersWait(c) /\ call'[c] = next
    BY <1>1, <1>3 DEF Typed, OthersWait
  <2>2. CallHeld(c)' /\ SourceAlone(c)' /\ Unlatched(c)' /\ ResolvingAlone(c)'
    BY <1>1, <1>2, <1>3, <2>1 DEF CallInv, CallHeld, Running, SourceAlone, Unlatched,
       ResolvingAlone, Clicked, BeginPlaces
  <2>3. CallCounted(c)'
    BY <1>1, <1>3, <2>1 DEF CallInv, CallCounted, Calls, Samples, Polls
  <2>4. Settling(c)'
    BY <1>1, <1>2, <1>3, <2>1 DEF CallInv, Settling, Clicked
  <2>5. Typed' /\ SomeTabRemains'
    BY <1>1, <1>2, <2>1 DEF Typed, IInv, SomeTabRemains
  <2>6. ~ClicksMayTimeOutLate => LatchInv'
    <3>1. \A d \in Clients \ {c} : call'[d].route # "begin"
      BY <1>1, <2>1, OthersStill
    <3>2. Clicked(c)'
      BY <1>3, <2>1 DEF Clicked
    <3>3. ASSUME ~ClicksMayTimeOutLate, latch'
          PROVE  /\ \A q \in Pages : tab'[q] = "popup" => q \notin call'[c].before
                 /\ \A q \in Pages : tab'[q] \in {"leaving", "popping"} => q = call'[c].page
      BY <1>1, <1>3, <2>1, <3>3, ClickedBefore
    <3> QED BY <3>1, <3>2, <3>3, ClickedAfter
  <2>7. CallInv(c)'
    BY <2>2, <2>3, <2>4 DEF CallInv
  <2> QED BY <1>1, <2>1, <2>5, <2>6, <2>7, RunStep
<1>4. CASE BeginPoll(c)
  <2> DEFINE at == IF Open = call[c].seen \/ call[c].samples + 1 = Polls THEN "settled" ELSE "settle"
             n  == call[c].samples + 1
             next == [call[c] EXCEPT !.at = at, !.seen = Open, !.samples = n]
  <2>1. call[c].at = "settle" /\ call[c].samples < Polls /\ call[c].samples \in 0..Polls
    BY <1>1, <1>4 DEF BeginPoll, At, CallInv, CallCounted, Calls
  <2>2. n \in 0..Polls /\ at \in Places /\ at \in {"settle", "settled"} /\ (at = "settle" => n < Polls)
    BY <2>1 DEF Polls, Places, BeginPlaces
  <2>3. call' = [call EXCEPT ![c] = next]
    BY <1>1, <1>4, <2>1 DEF BeginPoll, Typed
  <2> HIDE DEF at, n
  <2>4. /\ next \in Calls /\ next.route = "begin" /\ next.page = p /\ next.at = at
        /\ next.before = call[c].before /\ next.seen = Open /\ next.samples = n
        /\ next.streak = call[c].streak
    BY <1>1, <1>2, <2>2 DEF Calls
  <2> USE DEF n
  <2>5. next.samples >= call[c].samples
    BY <2>1, <2>4 DEF Polls
  <2> HIDE DEF next
  <2> QED BY <1>3, <2>2, <2>3, <2>4, <2>5
<1>5. CASE BeginOnePopup(c)
  <2>1. PICK q \in Open :
          /\ NewPages(c) = {q}
          /\ call' = [call EXCEPT ![c].at = "popup", ![c].popup = q]
    BY <1>5 DEF BeginOnePopup
  <2>2. /\ q \in Pages \ call[c].before /\ Open = call[c].before \union {q}
        /\ call[c].seen = Open
    BY <1>1, <1>2, <2>1 DEF CallInv, Settling, NewPages
  <2> DEFINE next == [call[c] EXCEPT !.at = "popup", !.popup = q]
  <2>3. call' = [call EXCEPT ![c] = next]
    BY <1>1, <2>1 DEF Typed
  <2>4. "popup" \in Places
    BY DEF Places, BeginPlaces
  <2>5. /\ next \in Calls /\ next.route = "begin" /\ next.page = p /\ next.at = "popup"
        /\ next.before = call[c].before /\ next.seen = Open /\ next.samples = call[c].samples
        /\ next.streak = call[c].streak /\ next.popup = q
    BY <1>1, <2>2, <2>4 DEF Calls
  <2>6. next.samples >= call[c].samples
    BY <1>1, <2>5 DEF Calls, Polls
  <2> HIDE DEF next
  <2> QED BY <1>3, <2>2, <2>3, <2>5, <2>6
<1> QED BY <1>4, <1>5

LEMMA BeginSameTabKeeps ==
  ASSUME IInv, NEW c \in Clients, BeginSameTab(c)
  PROVE  IInv'
<1>1. /\ Typed /\ Running(c) /\ call[c].route = "begin" /\ CallInv(c)
      /\ UNCHANGED <<tab, latch>> /\ GoTo(c, "landed")
  BY DEF BeginSameTab, At, Running, IInv
<1>2. Open' = Open /\ "landed" \in Places
  BY <1>1 DEF Open, Places, BeginPlaces
<1>3. /\ OthersWait(c) /\ call' \in [Clients -> Calls] /\ call'[c].route = call[c].route
      /\ call'[c].page = call[c].page /\ call'[c].at = "landed"
      /\ call'[c].samples = call[c].samples /\ call'[c].streak = call[c].streak
  BY <1>1, <1>2, GoToMakes
<1>4. CallInv(c)'
  BY <1>1, <1>2, <1>3 DEF CallInv, CallHeld, CallCounted, Running, SourceAlone, Settling,
     Unlatched, ResolvingAlone, Clicked, BeginPlaces
<1>5. Typed' /\ SomeTabRemains'
  BY <1>1, <1>2, <1>3 DEF Typed, IInv, SomeTabRemains
<1>6. LatchInv'
  BY <1>1, <1>3, LandedLatchKeeps
<1> QED BY <1>1, <1>3, <1>4, <1>5, <1>6, RunStep

\* Popups are closed: what is left are the tabs that were noted, and the source
\* is a plain Planner Web tab.
LEMMA PopupsClosed ==
  ASSUME IInv, NEW c \in Clients, BeginManyPopups(c) \/ BeginPopupRefused(c)
  PROVE  /\ Clicked(c) /\ Reply(c, "refused") /\ UNCHANGED latch
         /\ tab' \in [Pages -> Surface \union {"closed"}]
         /\ tab[call[c].page] = "planner" /\ call[c].page \in call[c].before
         /\ call[c].before \subseteq Open /\ Open' = call[c].before
         /\ \A q \in call[c].before : tab'[q] = tab[q]
<1>1. /\ Typed /\ Clicked(c) /\ CallInv(c) /\ Reply(c, "refused") /\ UNCHANGED latch
  BY DEF BeginManyPopups, BeginPopupRefused, At, Clicked, IInv
<1>2. /\ call[c].page \in call[c].before /\ call[c].before \subseteq Open
      /\ call[c].seen \in {call[c].before, Open}
      /\ Open = call[c].before \/ tab[call[c].page] = "planner"
  BY <1>1 DEF CallInv, Settling
<1>3. CASE BeginManyPopups(c)
  <2>1. NewPages(c) # {}
    BY <1>3, FS_EmptySet DEF BeginManyPopups
  <2>2. call[c].seen = Open /\ NewPages(c) = Open \ call[c].before
    BY <1>2, <2>1 DEF NewPages
  <2>3. tab' = [q \in Pages |-> IF q \in NewPages(c) THEN "closed" ELSE tab[q]]
    BY <1>3 DEF BeginManyPopups
  <2>4. tab' \in [Pages -> Surface \union {"closed"}]
    BY <1>1, <2>3 DEF Typed
  <2>5. Open' = call[c].before /\ \A q \in call[c].before : tab'[q] = tab[q]
    BY <1>2, <2>2, <2>3 DEF Open
  <2> QED BY <1>1, <1>2, <2>1, <2>2, <2>4, <2>5
<1>4. CASE BeginPopupRefused(c)
  <2> DEFINE q == call[c].popup
  <2>1. q \in Pages \ call[c].before /\ Open = call[c].before \union {q} /\ Become(q, "closed")
    BY <1>1, <1>4 DEF BeginPopupRefused, At, CallInv, Settling
  <2>2. /\ tab' \in [Pages -> Surface \union {"closed"}] /\ tab'[q] = "closed"
        /\ \A r \in Pages \ {q} : tab'[r] = tab[r]
    BY <1>1, <2>1, BecomeTyped
  <2>3. Open' = call[c].before /\ \A r \in call[c].before : tab'[r] = tab[r]
    BY <1>2, <2>1, <2>2 DEF Open
  <2> QED BY <1>1, <1>2, <2>1, <2>2, <2>3
<1> QED BY <1>3, <1>4

LEMMA PopupsClosedKeeps ==
  ASSUME IInv, NEW c \in Clients, BeginManyPopups(c) \/ BeginPopupRefused(c)
  PROVE  IInv'
<1> DEFINE p == call[c].page
           before == call[c].before
<1>1. /\ Clicked(c) /\ Reply(c, "refused") /\ UNCHANGED latch
      /\ tab' \in [Pages -> Surface \union {"closed"}]
      /\ tab[p] = "planner" /\ p \in before /\ before \subseteq Open /\ Open' = before
      /\ \A q \in before : tab'[q] = tab[q]
  BY PopupsClosed
<1>2. Running(c) /\ Typed
  BY <1>1 DEF Clicked, Running, IInv
<1>3. /\ call' \in [Clients -> Calls] /\ OthersWait(c) /\ CallInv(c)' /\ ~Running(c)'
  BY <1>1, <1>2, ReplyMakes, AnsweredHolds
<1>4. Typed' /\ SomeTabRemains'
  BY <1>1, <1>2, <1>3 DEF Typed, SomeTabRemains
<1>5. ~ClicksMayTimeOutLate => LatchInv'
  <2> SUFFICES ASSUME ~ClicksMayTimeOutLate, latch' PROVE LatchInv'
    BY DEF LatchInv
  <2>1. /\ \A q \in Pages : tab[q] = "popup" => q \notin before
        /\ \A q \in Pages : tab[q] \in {"leaving", "popping"} => q = p
    BY <1>1, ClickedBefore
  <2>2. \A q \in Pages : tab'[q] \notin {"leaving", "popping", "popup"}
    BY <1>1, <2>1 DEF Open
  <2>3. \A q \in Pages : Open' = {q} => tab'[q] \notin {"blank", "chooser"}
    BY <1>1
  <2>4. \A d \in Clients : call'[d].route # "begin"
    BY <1>2, <1>3, OthersStill DEF Running
  <2> QED BY <2>2, <2>3, <2>4, CalmAfter DEF Calm
<1> QED BY <1>2, <1>3, <1>4, <1>5, RunStep

LEMMA BeginPopupApprovedKeeps ==
  ASSUME IInv, NEW c \in Clients, BeginPopupApproved(c)
  PROVE  IInv'
<1> DEFINE p == call[c].page
           q == call[c].popup
<1>1. /\ Typed /\ Running(c) /\ call[c].route = "begin" /\ CallInv(c) /\ UNCHANGED latch
      /\ call[c] \in Calls
      /\ p \in Pages /\ q \in Pages /\ q # p /\ tab[q] \in Auth /\ Become(p, "closed")
  BY DEF BeginPopupApproved, At, Running, IInv, CallInv, CallHeld, Settling, Clicked, Typed
<1>2. /\ tab' \in [Pages -> Surface \union {"closed"}] /\ tab'[q] = tab[q]
  BY <1>1, BecomeTyped
<1>3. q \in Open'
  BY <1>1, <1>2 DEF Open, Auth, Landing
<1>4. /\ call' \in [Clients -> Calls] /\ OthersWait(c) /\ call'[c].route = "begin"
      /\ call'[c].page = q /\ call'[c].at = "landed" /\ call'[c].samples = call[c].samples
      /\ call'[c].streak = call[c].streak
  <2> DEFINE landed == [call[c] EXCEPT !.at = "landed", !.page = q]
  <2>1. "landed" \in Places
    BY DEF Places, BeginPlaces
  <2>2. /\ landed \in Calls /\ landed.route = "begin" /\ landed.page = q
        /\ landed.at = "landed" /\ landed.samples = call[c].samples
        /\ landed.streak = call[c].streak
    BY <1>1, <2>1 DEF Calls
  <2>3. call' = [call EXCEPT ![c] = landed]
    BY <1>1 DEF BeginPopupApproved, Typed
  <2> HIDE DEF landed
  <2> QED BY <1>1, <2>2, <2>3 DEF Typed, OthersWait
<1>5. CallInv(c)'
  BY <1>1, <1>3, <1>4 DEF CallInv, CallHeld, CallCounted, Running, SourceAlone, Settling,
     Unlatched, ResolvingAlone, Clicked, BeginPlaces
<1>6. Typed' /\ SomeTabRemains'
  BY <1>1, <1>2, <1>3, <1>4 DEF Typed, SomeTabRemains
<1>7. LatchInv'
  BY <1>4, LandedLatchKeeps
<1> QED BY <1>1, <1>4, <1>5, <1>6, <1>7, RunStep

\* The latch is cleared, and stays so until begin-signin has answered.
LEMMA BeginLandedKeeps ==
  ASSUME IInv, NEW c \in Clients, BeginLanded(c)
  PROVE  IInv'
<1>1. /\ Typed /\ Running(c) /\ call[c].route = "begin" /\ CallInv(c)
      /\ UNCHANGED tab /\ latch' = FALSE /\ (GoTo(c, "reauth") \/ Reply(c, "refused"))
  BY DEF BeginLanded, At, Running, IInv
<1>2. Open' = Open /\ "reauth" \in Places
  BY <1>1 DEF Open, Places, BeginPlaces
<1>3. call' \in [Clients -> Calls] /\ OthersWait(c) /\ CallInv(c)'
  <2>1. CASE Reply(c, "refused")
    BY <1>1, <2>1, ReplyMakes, AnsweredHolds
  <2>2. CASE GoTo(c, "reauth")
    <3>1. /\ OthersWait(c) /\ call' \in [Clients -> Calls] /\ call'[c].route = call[c].route
          /\ call'[c].page = call[c].page /\ call'[c].at = "reauth"
          /\ call'[c].samples = call[c].samples /\ call'[c].streak = call[c].streak
      BY <1>1, <1>2, <2>2, GoToMakes
    <3> QED BY <1>1, <1>2, <3>1 DEF CallInv, CallHeld, CallCounted, Running, SourceAlone, Settling,
         Unlatched, ResolvingAlone, Clicked, BeginPlaces
  <2> QED BY <1>1, <2>1, <2>2
<1>4. Typed' /\ SomeTabRemains' /\ LatchInv'
  BY <1>1, <1>2, <1>3 DEF Typed, IInv, SomeTabRemains, LatchInv
<1> QED BY <1>1, <1>3, <1>4, RunStep

LEMMA BeginReauthKeeps ==
  ASSUME IInv, NEW c \in Clients, BeginReauth(c)
  PROVE  IInv'
<1> DEFINE p == call[c].page
<1>1. /\ Typed /\ Running(c) /\ call[c].route = "begin" /\ call[c].at = "reauth" /\ CallInv(c)
      /\ p \in Pages /\ ~latch /\ UNCHANGED latch
  BY DEF BeginReauth, At, Running, IInv, CallInv, CallHeld, Unlatched
<1>2. PICK answer \in {"ok", "refused"} : Reply(c, answer)
  BY DEF BeginReauth
<1>3. tab' \in [Pages -> Surface \union {"closed"}] /\ Open' = Open
  <2>1. CASE UNCHANGED tab
    BY <1>1, <2>1 DEF Typed, Open
  <2>2. ASSUME tab[p] \in Auth, NEW s \in Landing \union {"outside"}, Become(p, s)
        PROVE  tab' \in [Pages -> Surface \union {"closed"}] /\ Open' = Open
    <3>1. s \in Surface /\ s # "closed" /\ tab[p] # "closed"
      BY <2>2 DEF Surface, Landing, Auth
    <3>2. /\ tab' \in [Pages -> Surface \union {"closed"}] /\ tab'[p] = s
          /\ \A q \in Pages \ {p} : tab'[q] = tab[q]
      BY <1>1, <2>2, <3>1, BecomeTyped
    <3> QED BY <3>1, <3>2 DEF Open
  <2> QED BY <2>1, <2>2 DEF BeginReauth
<1>4. /\ call' \in [Clients -> Calls] /\ OthersWait(c) /\ CallInv(c)'
  BY <1>1, <1>2, ReplyMakes, AnsweredHolds
<1>5. Typed' /\ SomeTabRemains' /\ LatchInv'
  BY <1>1, <1>3, <1>4 DEF Typed, IInv, SomeTabRemains, LatchInv
<1> QED BY <1>1, <1>4, <1>5, RunStep

-----------------------------------------------------------------------------
(* The browser, the account and the process.                               *)

LEMMA AccountKeeps ==
  ASSUME IInv, AccountMoves
  PROVE  IInv'
<1>1. Typed /\ UNCHANGED <<latch, call>>
  BY DEF IInv, AccountMoves
<1>2. PICK p \in Open, s \in {"dip", "password", "error"} \union AfterPassword :
        tab[p] \in {"chooser", "signing", "dip", "mfa"} /\ Become(p, s)
  BY DEF AccountMoves, AfterPassword
<1>3. /\ p \in Pages /\ tab[p] \notin {"closed", "planner"}
      /\ s \in Surface \ (Clickable \union Neutral \union {"chooser"})
  BY <1>2 DEF Open, AfterPassword, Surface, Planner, Auth, Landing, Clickable, Neutral
<1>4. QuietTabs
  BY <1>1, <1>2, <1>3, BecomeIsQuiet
<1>5. Typed' /\ SomeTabRemains'
  BY <1>1, <1>4, QuietOpen DEF Typed, QuietTabs, IInv, SomeTabRemains
<1>6. ASSUME NEW c \in Clients PROVE CallInv(c)'
  BY <1>1, <1>4, QuietCallKeeps DEF IInv, CallInv
<1>7. ~ClicksMayTimeOutLate => LatchInv'
  BY <1>1, <1>4, QuietLatchKeeps DEF IInv
<1>8. RunsAlone'
  BY <1>1 DEF IInv, RunsAlone, Running
<1> QED BY <1>5, <1>6, <1>7, <1>8 DEF IInv

\* A tab moves on, or popups open and the tab that opened them is Planner Web again.
MovesOn(p, s) == tab[p] \in {"leaving", "popup"} /\ s \in Landing \union {"outside"} /\ Become(p, s)

Pops(p, Q) ==
  /\ tab[p] = "popping" /\ Q \subseteq Pages \ Open
  /\ tab' = [q \in Pages |-> IF q \in Q THEN "popup" ELSE IF q = p THEN "planner" ELSE tab[q]]

LEMMA BrowserCases ==
  ASSUME BrowserMoves
  PROVE  \E p \in Open : \/ \E s \in Surface : MovesOn(p, s)
                         \/ \E Q \in SUBSET Pages : Pops(p, Q)
<1>1. \A s \in Landing \union {"outside"} : s \in Surface
  BY DEF Surface, Landing, Auth
<1> QED BY <1>1 DEF BrowserMoves, MovesOn, Pops

LEMMA BrowserKeeps ==
  ASSUME IInv, BrowserMoves
  PROVE  IInv'
<1>1. Typed /\ UNCHANGED <<latch, call>>
  BY DEF IInv, BrowserMoves
<1>2. ASSUME Typed', Open \subseteq Open', \A c \in Clients : CallInv(c)',
             ~ClicksMayTimeOutLate /\ latch' => LandingUnderWay \/ LatchInv'
      PROVE  IInv'
  <2>1. SomeTabRemains' /\ RunsAlone'
    BY <1>1, <1>2 DEF IInv, SomeTabRemains, RunsAlone, Running
  <2>2. LandingUnderWay => LatchInv'
    BY <1>1 DEF LatchInv, LandingUnderWay
  <2> QED BY <1>2, <2>1, <2>2 DEF IInv, LatchInv
\* What is on its way belongs to a click, as the latch knows.
<1>3. ASSUME ~ClicksMayTimeOutLate, latch', ~LandingUnderWay,
             NEW p \in Open, tab[p] \in {"leaving", "popping", "popup"}
      PROVE  \E c \in Clients : Clicked(c) /\ (tab[p] # "popup" => p = call[c].page)
  <2>1. LatchGuards
    BY <1>1, <1>3 DEF IInv, LatchInv
  <2> QED BY <1>3, <2>1 DEF LatchGuards, Open
<1>4. ASSUME ~ClicksMayTimeOutLate, latch', NEW c \in Clients, Clicked(c),
             \A q \in Pages : tab'[q] = "popup" => tab[q] = "popup" \/ q \notin Open,
             \A q \in Pages : tab'[q] \in {"leaving", "popping"} => tab'[q] = tab[q]
      PROVE  LatchInv'
  <2>1. /\ \A q \in Pages : tab[q] = "popup" => q \notin call[c].before
        /\ \A q \in Pages : tab[q] \in {"leaving", "popping"} => q = call[c].page
    BY <1>1, <1>4, ClickedBefore
  <2>2. call[c].before \subseteq Open
    BY <1>4 DEF IInv, CallInv, Settling
  <2>3. \A d \in Clients \ {c} : call'[d].route # "begin"
    BY <1>1, <1>4 DEF IInv, RunsAlone, Running, Clicked
  <2>4. Clicked(c)'
    BY <1>1, <1>4 DEF Clicked
  <2> QED BY <1>1, <1>4, <2>1, <2>2, <2>3, <2>4, ClickedAfter
<1>5. ASSUME NEW p \in Open, NEW s \in Surface, MovesOn(p, s) PROVE IInv'
  <2>1. /\ tab' \in [Pages -> Surface \union {"closed"}] /\ tab'[p] = s
        /\ \A q \in Pages \ {p} : tab'[q] = tab[q]
        /\ p \in Pages /\ tab[p] # "closed"
    BY <1>1, <1>5, BecomeTyped DEF MovesOn, Open
  <2>2. /\ s \notin {"closed", "popup"} /\ s \notin Clickable
        /\ tab[p] \in {"leaving", "popup"}
    BY <1>5 DEF MovesOn, Landing, Clickable
  <2>3. Open' = Open
    BY <2>1, <2>2 DEF Open
  <2>4. Typed'
    BY <1>1, <2>1 DEF Typed
  <2>5. ASSUME NEW c \in Clients PROVE CallInv(c)'
    <3>1. CallInv(c) /\ call'[c] = call[c]
      BY <1>1 DEF IInv
    <3>2. CallHeld(c)' /\ CallCounted(c)' /\ Unlatched(c)'
      BY <1>1, <2>3, <3>1 DEF CallInv, CallHeld, CallCounted, Running, Unlatched
    <3>3. SourceAlone(c)'
      BY <2>1, <2>2, <3>1 DEF CallInv, SourceAlone, Clicked
    <3>4. Settling(c)'
      BY <2>1, <2>2, <2>3, <3>1 DEF CallInv, CallHeld, Settling, Clicked
    <3>5. ResolvingAlone(c)'
      BY <2>1, <2>2, <2>3, <3>1 DEF CallInv, CallHeld, ResolvingAlone
    <3> QED BY <3>2, <3>3, <3>4, <3>5 DEF CallInv
  <2>6. ~ClicksMayTimeOutLate /\ latch' => LandingUnderWay \/ LatchInv'
    BY <1>3, <1>4, <2>1, <2>2 DEF Clickable
  <2> QED BY <1>2, <2>3, <2>4, <2>5, <2>6
<1>6. ASSUME NEW p \in Open, NEW Q \in SUBSET Pages, Pops(p, Q) PROVE IInv'
  <2>1. /\ p \in Pages /\ p \notin Q /\ Q \subseteq Pages \ Open /\ tab[p] = "popping"
        /\ tab' = [q \in Pages |-> IF q \in Q THEN "popup" ELSE IF q = p THEN "planner" ELSE tab[q]]
    BY <1>6 DEF Pops, Open
  <2>2. tab' \in [Pages -> Surface \union {"closed"}]
    BY <1>1, <2>1 DEF Typed, Surface, Neutral, Planner
  <2>3. /\ tab'[p] = "planner" /\ \A q \in Q : tab'[q] = "popup"
        /\ \A q \in Pages \ (Q \union {p}) : tab'[q] = tab[q]
    BY <2>1
  <2>4. Open' = Open \union Q /\ Open \subseteq Pages
    BY <2>1, <2>3 DEF Open
  <2>5. Typed'
    BY <1>1, <2>2 DEF Typed
  <2>6. ASSUME NEW c \in Clients PROVE CallInv(c)'
    <3>1. CallInv(c) /\ call'[c] = call[c]
      BY <1>1 DEF IInv
    <3>2. CallHeld(c)' /\ CallCounted(c)' /\ Unlatched(c)'
      BY <1>1, <2>4, <3>1 DEF CallInv, CallHeld, CallCounted, Running, Unlatched
    <3>3. SourceAlone(c)'
      BY <2>1, <2>3, <3>1 DEF CallInv, SourceAlone, Clicked, Clickable
    <3>4. Settling(c)'
      <4> SUFFICES ASSUME Clicked(c) PROVE Settling(c)'
        BY <3>1 DEF Settling, Clicked
      <4>1. p = call[c].page
        BY <2>1, <3>1 DEF CallInv, SourceAlone, Clickable
      <4>2. /\ p \in call[c].before /\ call[c].before = Open /\ call[c].seen = Open
            /\ call[c].at # "popup"
        BY <2>1, <3>1, <4>1 DEF CallInv, Settling
      <4> QED BY <2>3, <2>4, <3>1, <4>1, <4>2 DEF Settling
    <3>5. ResolvingAlone(c)'
      BY <1>6, <2>1, <3>1 DEF CallInv, ResolvingAlone, Clickable
    <3> QED BY <3>2, <3>3, <3>4, <3>5 DEF CallInv
  <2>7. ~ClicksMayTimeOutLate /\ latch' => LandingUnderWay \/ LatchInv'
    <3>1. \A q \in Pages : tab'[q] = "popup" => tab[q] = "popup" \/ q \notin Open
      BY <2>1, <2>3
    <3>2. \A q \in Pages : tab'[q] \in {"leaving", "popping"} => tab'[q] = tab[q]
      BY <2>1, <2>3
    <3> QED BY <1>3, <1>4, <2>1, <3>1, <3>2
  <2> QED BY <1>2, <2>4, <2>5, <2>6, <2>7
<1> QED BY <1>5, <1>6, BrowserCases

\* A worker that has just started, for the first time or again.
Fresh(t, l, k) ==
  /\ \E p \in Pages, s \in {"blank", "planner", "home"} :
       t = [q \in Pages |-> IF q = p THEN s ELSE "closed"]
  /\ l = FALSE
  /\ k = [c \in Clients |-> Idle]

LEMMA FreshHolds == Fresh(tab, latch, call) => IInv
<1> SUFFICES ASSUME Fresh(tab, latch, call) PROVE IInv
  OBVIOUS
<1>1. PICK p \in Pages, s \in {"blank", "planner", "home"} :
        tab = [q \in Pages |-> IF q = p THEN s ELSE "closed"]
  BY DEF Fresh
<1>2. tab \in [Pages -> Surface \union {"closed"}] /\ tab[p] # "closed"
  BY <1>1 DEF Surface, Neutral, Planner
<1>3. Typed /\ SomeTabRemains
  BY <1>2, IdleTyped DEF Fresh, Typed, SomeTabRemains, Open
<1>4. \A c \in Clients : call[c].route = "none" /\ call[c].at = "idle" /\ call[c].samples = 0
                         /\ call[c].streak = 0
  BY IdleTyped DEF Fresh
<1>5. RunsAlone
  BY <1>4 DEF RunsAlone, Running
<1>6. \A c \in Clients : CallInv(c)
  BY <1>4 DEF CallInv, CallHeld, CallCounted, Running, SourceAlone, Settling, Unlatched,
     ResolvingAlone, Clicked
<1>7. LatchInv
  BY DEF Fresh, LatchInv
<1> QED BY <1>3, <1>5, <1>6, <1>7 DEF IInv

LEMMA RestartHolds == Restart => IInv'
<1>1. Restart => Fresh(tab, latch, call)'
  BY DEF Restart, Fresh
<1>2. Fresh(tab, latch, call)' => IInv'
  BY FreshHolds, PTL
<1> QED BY <1>1, <1>2

-----------------------------------------------------------------------------
(* The invariant is inductive, and what follows from it.                   *)

LEMMA RequestKeeps == ASSUME IInv, NEW c \in Clients, Request(c) PROVE IInv'
BY QuietRequestKeeps, NewPageKeeps, BeginReuseKeeps DEF Request

LEMMA HandlerKeeps == ASSUME IInv, NEW c \in Clients, Handler(c) PROVE IInv'
BY NavigateGotoKeeps, BeginGotoKeeps, BeginClickKeeps, BeginSettleKeeps, BeginSameTabKeeps,
   PopupsClosedKeeps, BeginPopupApprovedKeeps, BeginLandedKeeps, BeginReauthKeeps, ResolveKeeps,
   StageStepKeeps, QuietRequestKeeps, SubmitKeeps
DEF Handler

LEMMA Stutters == IInv /\ UNCHANGED vars => IInv'
BY DEF vars, IInv, Typed, RunsAlone, Running, SomeTabRemains, Open, CallInv, CallHeld, CallCounted,
   SourceAlone, Settling, Clicked, Unlatched, ResolvingAlone, LatchInv, LandingUnderWay, LatchGuards

LEMMA StepKeeps == IInv /\ [Next]_vars => IInv'
BY RequestKeeps, HandlerKeeps, BrowserKeeps, AccountKeeps, RestartHolds, Stutters DEF Next

LEMMA Initially == Init => IInv
BY FreshHolds DEF Init, Fresh

LEMMA Inductive == Spec => []IInv
BY Initially, StepKeeps, PTL DEF Spec

\* The type invariant, for any number of tabs and clients.
THEOREM TypesHold == Spec => []TypeOK
<1>1. IInv => TypeOK
  BY DEF IInv, Typed, TypeOK, Calls
<1> QED BY <1>1, Inductive, PTL

\* begin-signin closes popups, or its source once a popup has taken its place: a
\* tab that it keeps is open throughout, so the worker always has one.
THEOREM WorkerKeepsATab == Spec => []SomeTabRemains
<1>1. IInv => SomeTabRemains
  BY DEF IInv
<1> QED BY <1>1, Inductive, PTL

\* If a click that raises has had no effect, the latch does not stand before an
\* account chooser while no request is under way.
THEOREM LatchMeansNoChooser ==
  ASSUME ~ClicksMayTimeOutLate
  PROVE  Spec => []LatchExcludesChooser
<1>1. IInv => LatchExcludesChooser
  <2> SUFFICES ASSUME IInv, latch, \A c \in Clients : call[c].at = "idle",
                      NEW p \in Open, Open = {p}
               PROVE  tab[p] # "chooser"
    BY DEF LatchExcludesChooser
  <2>1. \A c \in Clients : ~Clicked(c) /\ ~(call[c].route = "begin" /\ call[c].at = "landed")
    BY DEF Clicked
  <2>2. Calm
    BY <2>1, CalmBefore
  <2> QED BY <2>2 DEF Calm, Open
<1> QED BY <1>1, Inductive, PTL

-----------------------------------------------------------------------------
(* What a step of the sign-in may never do.                                *)

BeginHandler(c) ==
  \/ BeginGoto(c) \/ BeginNoControl(c) \/ BeginClick(c) \/ BeginClickRaises(c)
  \/ BeginPoll(c) \/ BeginSameTab(c) \/ BeginOnePopup(c) \/ BeginManyPopups(c)
  \/ BeginPopupApproved(c) \/ BeginPopupRefused(c) \/ BeginLanded(c) \/ BeginReauth(c)

SubmitHandler(c) ==
  \/ At(c, "submit", "probed") /\ SubmitStart(c)
  \/ SubmitCombined(c) \/ SubmitEmail(c) \/ SubmitAfterNext(c) \/ SubmitPassword(c)
  \/ SubmitNoMatch(c) \/ SubmitSample(c) \/ SubmitVerdict(c) \/ SubmitTail(c)

OtherHandler(c) ==
  \/ NavigateGoto(c)
  \/ ResolveEmail(c) \/ ResolveForward(c) \/ ResolveReread(c) \/ ResolveUnread(c) \/ ResolveOther(c)
  \/ \E r \in DOMAIN Stage : StageAct(c, r) \/ StageCheck(c, r)

LEMMA HandlerSplit ==
  ASSUME NEW c \in Clients, Handler(c)
  PROVE  BeginHandler(c) \/ SubmitHandler(c) \/ OtherHandler(c)
BY DEF Handler, BeginHandler, SubmitHandler, OtherHandler

\* A client's step leaves the requests of the others alone.
LEMMA RequestIsOwn == ASSUME Typed, NEW c \in Clients, Request(c) PROVE OthersWait(c)
<1>1. ASSUME NEW x, call' = [call EXCEPT ![c] = x] PROVE OthersWait(c)
  BY <1>1 DEF Typed, OthersWait
<1>2. ASSUME NEW r, Reply(c, r) PROVE OthersWait(c)
  BY <1>1, <1>2 DEF Reply
<1>3. ASSUME NEW r, NEW at, NEW p, Enter(c, r, at, p) PROVE OthersWait(c)
  BY <1>1, <1>3 DEF Enter
<1> QED BY <1>2, <1>3 DEF Request, Refuse, NavigateRefused, NavigateReuse, NavigateNewPage,
        BeginRefused, BeginReuse, BeginNewPage, ResolveStart, StageStart, SubmitProbe, SubmitStart

LEMMA HandlerIsOwn == ASSUME Typed, NEW c \in Clients, Handler(c) PROVE OthersWait(c)
<1>1. ASSUME NEW r, Reply(c, r) PROVE OthersWait(c)
  BY <1>1 DEF Reply, Typed, OthersWait
<1>2. ASSUME NEW r, NEW at, NEW p, Enter(c, r, at, p) PROVE OthersWait(c)
  BY <1>2 DEF Enter, Typed, OthersWait
<1>3. ASSUME NEW at, GoTo(c, at) PROVE OthersWait(c)
  BY <1>3 DEF GoTo, Typed, OthersWait
<1>4. ASSUME NEW b, Verify(c, b) PROVE OthersWait(c)
  BY <1>4 DEF Verify, Typed, OthersWait
<1>5. CASE BeginClick(c) \/ BeginPoll(c) \/ BeginOnePopup(c) \/ BeginPopupApproved(c)
  BY <1>5 DEF BeginClick, BeginPoll, BeginOnePopup, BeginPopupApproved, Typed, OthersWait
<1>6. CASE BeginGoto(c) \/ BeginNoControl(c) \/ BeginClickRaises(c) \/ BeginSameTab(c)
           \/ BeginManyPopups(c) \/ BeginPopupRefused(c) \/ BeginLanded(c) \/ BeginReauth(c)
  BY <1>1, <1>3, <1>6 DEF BeginGoto, BeginNoControl, BeginClickRaises, BeginSameTab,
     BeginManyPopups, BeginPopupRefused, BeginLanded, BeginReauth
<1>7. CASE OtherHandler(c)
  BY <1>1, <1>3, <1>7 DEF OtherHandler, NavigateGoto, ResolveEmail, ResolveForward, ResolveReread,
     ResolveUnread, ResolveOther, StageAct, StageCheck
<1>8. CASE SubmitSample(c)
  BY <1>8 DEF SubmitSample, Typed, OthersWait
<1>9. CASE SubmitHandler(c) /\ ~SubmitSample(c)
  BY <1>1, <1>2, <1>3, <1>4, <1>9 DEF SubmitHandler, SubmitStart, SubmitCombined, SubmitEmail,
     SubmitAfterNext, SubmitPassword, SubmitNoMatch, SubmitVerdict, SubmitTail
<1> QED BY <1>5, <1>6, <1>7, <1>8, <1>9, HandlerSplit DEF BeginHandler

\* So a request that changes is taken by its own client, or ended by a restart.
LEMMA OwnStep ==
  ASSUME IInv, [Next]_vars, NEW c \in Clients, call'[c] # call[c]
  PROVE  Request(c) \/ Handler(c) \/ Restart
<1>1. \A d \in Clients : Request(d) \/ Handler(d) => OthersWait(d)
  BY RequestIsOwn, HandlerIsOwn DEF IInv
<1> QED BY <1>1 DEF Next, vars, OthersWait, BrowserMoves, AccountMoves

\* A client that is waiting for an answer sends nothing.
LEMMA NoRequestMeanwhile ==
  ASSUME NEW c \in Clients, call[c].at # "idle"
  PROVE  ~Request(c)
BY DEF Request, Refuse, MaySend, NavigateRefused, NavigateReuse, NavigateNewPage,
       BeginRefused, BeginReuse, BeginNewPage, ResolveStart, StageStart, SubmitProbe

\* A handler belongs to the route that its request is on.
LEMMA RouteOfHandler ==
  ASSUME NEW c \in Clients
  PROVE  /\ BeginHandler(c) => call[c].route = "begin"
         /\ SubmitHandler(c) => call[c].route = "submit"
         /\ OtherHandler(c) => call[c].route \in {"navigate", "resolve", "email", "kmsi", "method"}
<1>1. BeginHandler(c) => call[c].route = "begin"
  BY DEF BeginHandler, BeginGoto, BeginNoControl, BeginClick, BeginClickRaises, BeginPoll,
     BeginSameTab, BeginOnePopup, BeginManyPopups, BeginPopupApproved, BeginPopupRefused,
     BeginLanded, BeginReauth, At
<1>2. SubmitHandler(c) => call[c].route = "submit"
  BY DEF SubmitHandler, SubmitCombined, SubmitEmail, SubmitAfterNext, SubmitPassword,
     SubmitNoMatch, SubmitSample, SubmitVerdict, SubmitTail, At
<1>3. OtherHandler(c) => call[c].route \in {"navigate", "resolve", "email", "kmsi", "method"}
  BY DEF OtherHandler, NavigateGoto, ResolveEmail, ResolveForward, ResolveReread, ResolveUnread,
     ResolveOther, StageAct, StageCheck, Stage, At
<1> QED BY <1>1, <1>2, <1>3

\* Only the forced reauthentication answers begin-signin with success.
LEMMA OnlyReauthSucceeds ==
  ASSUME IInv, [Next]_vars, NEW c \in Clients, Ends(c, "begin", "ok")
  PROVE  BeginReauth(c)
<1>1. /\ Typed /\ call[c].route = "begin" /\ call[c].at # "idle" /\ call'[c].at = "idle"
      /\ call'[c].reply = "ok"
  BY DEF Ends, IInv
<1>2. ~Restart
  BY <1>1, IdleTyped DEF Restart
<1>3. BeginHandler(c)
  BY <1>1, <1>2, OwnStep, NoRequestMeanwhile, HandlerSplit, RouteOfHandler
<1>4. \A r \in {"none", "ok", "refused"} : Reply(c, r) => r = "ok"
  BY <1>1, ReplyMakes
<1>5. \A at \in Places : GoTo(c, at) => at = "idle"
  BY <1>1, GoToMakes
<1>6. {"landed", "reauth"} \subseteq Places
  BY DEF Places, BeginPlaces
<1>7. CASE BeginGoto(c) \/ BeginNoControl(c) \/ BeginClickRaises(c) \/ BeginSameTab(c)
           \/ BeginManyPopups(c) \/ BeginPopupRefused(c) \/ BeginLanded(c)
  BY <1>4, <1>5, <1>6, <1>7 DEF BeginGoto, BeginNoControl, BeginClickRaises, BeginSameTab,
     BeginManyPopups, BeginPopupRefused, BeginLanded
<1>8. CASE BeginClick(c) \/ BeginPoll(c) \/ BeginOnePopup(c) \/ BeginPopupApproved(c)
  BY <1>1, <1>8 DEF BeginClick, BeginPoll, BeginOnePopup, BeginPopupApproved, Typed, Calls, At
<1> QED BY <1>3, <1>7, <1>8 DEF BeginHandler

\* begin-signin reports success only on an approved origin, and with nothing
\* resolved: the latch it cleared stays clear, since no other route is under way.
THEOREM BeginSucceedsUnresolved == Spec => BeginLandsUnresolved
<1>1. ASSUME IInv, [Next]_vars, NEW c \in Clients, Ends(c, "begin", "ok")
      PROVE  tab'[call[c].page] \in Auth /\ ~latch'
  <2>1. BeginReauth(c) /\ Typed
    BY <1>1, OnlyReauthSucceeds DEF IInv
  <2>2. ~latch'
    BY <1>1, <2>1 DEF BeginReauth, At, IInv, CallInv, Unlatched
  <2>3. ~Reply(c, "refused")
    BY <1>1, <2>1, ReplyMakes DEF Ends
  <2>4. Reply(c, IF tab'[call[c].page] \in Auth THEN "ok" ELSE "refused")
    BY <2>1, <2>3 DEF BeginReauth
  <2> QED BY <2>2, <2>3, <2>4
<1>2. IInv /\ [Next]_vars =>
        [\A c \in Clients : Ends(c, "begin", "ok") => tab'[call[c].page] \in Auth /\ ~latch']_vars
  BY <1>1
<1> QED BY <1>2, Inductive, PTL DEF Spec, BeginLandsUnresolved

\* A count of absences at the last sample is a submit's, made by that sample.
LEMMA LastSample ==
  ASSUME IInv, [Next]_vars, NEW c \in Clients,
         call[c].samples = Samples - 1, call'[c].samples = Samples, call'[c].streak # 0
  PROVE  SubmitSample(c)
<1>1. Typed /\ IInv'
  BY StepKeeps DEF IInv
<1>2. call'[c].route = "submit"
  BY <1>1 DEF IInv, CallInv, CallCounted
<1>3. Request(c) \/ Handler(c)
  <2>1. call'[c] # call[c] /\ call'[c].samples # 0
    BY DEF Samples
  <2>2. ~Restart
    BY <2>1, IdleTyped DEF Restart
  <2> QED BY <2>1, <2>2, OwnStep
<1>4. \A r \in {"none", "ok", "refused"} : ~Reply(c, r)
  BY <1>1, <1>2, ReplyMakes
<1>5. \A r \in Routes, at \in Places, p \in Pages : ~Enter(c, r, at, p)
  BY <1>1, EnterMakes DEF Samples
<1>6. ASSUME NEW at \in Places, GoTo(c, at) PROVE FALSE
  <2>1. call'[c].samples = call[c].samples
    BY <1>1, <1>6, GoToMakes
  <2> QED BY <2>1 DEF Samples
<1>7. \A b \in BOOLEAN : ~Verify(c, b)
  BY <1>1, VerifyMakes DEF Samples
<1>8. /\ \A at \in {"goto", "sign_in", "read", "act", "check", "reread", "probed", "fill", "next",
                     "password", "tail"} : at \in Places
      /\ \A r \in {"navigate", "begin", "resolve", "email", "kmsi", "method", "submit"} : r \in Routes
      /\ \A p \in Open : p \in Pages
  BY DEF Places, BeginPlaces, Routes, Open
<1>9. ~Request(c)
  <2>1. ~Refuse(c)
    BY <1>4 DEF Refuse
  <2>2. ~(NavigateReuse(c) \/ NavigateNewPage(c) \/ BeginReuse(c) \/ BeginNewPage(c))
    BY <1>5, <1>8 DEF NavigateReuse, NavigateNewPage, BeginReuse, BeginNewPage
  <2>3. ~(ResolveStart(c) \/ \E r \in DOMAIN Stage : StageStart(c, r))
    BY <1>5, <1>8, <2>1 DEF ResolveStart, StageStart, Stage
  <2>4. ~(SubmitProbe(c) \/ SubmitStart(c))
    BY <1>4, <1>5, <1>8 DEF SubmitProbe, SubmitStart
  <2> QED BY <2>1, <2>2, <2>3, <2>4 DEF Request, NavigateRefused, BeginRefused
<1>10. ~OtherHandler(c)
  BY <1>4, <1>6, <1>8 DEF OtherHandler, NavigateGoto, ResolveEmail, ResolveForward, ResolveReread,
     ResolveUnread, ResolveOther, StageAct, StageCheck
<1>11. ~BeginHandler(c)
  <2>1. CASE BeginClick(c) \/ BeginPoll(c) \/ BeginOnePopup(c) \/ BeginPopupApproved(c)
    BY <1>1, <1>2, <2>1 DEF BeginClick, BeginPoll, BeginOnePopup, BeginPopupApproved, Typed,
       Calls, At
  <2>2. CASE BeginHandler(c) /\ call'[c].route # "begin"
    BY <1>1, <1>2, <1>4, <1>6, <1>8, <2>1, RouteOfHandler
       DEF BeginHandler, BeginGoto, BeginNoControl, BeginClickRaises, BeginSameTab,
       BeginManyPopups, BeginPopupRefused, BeginLanded, BeginReauth, Places, BeginPlaces
  <2> QED BY <1>2, <2>2
<1>12. CASE SubmitHandler(c) /\ ~SubmitSample(c)
  BY <1>4, <1>5, <1>6, <1>7, <1>8, <1>12 DEF SubmitHandler, SubmitStart, SubmitCombined, SubmitEmail,
     SubmitAfterNext, SubmitPassword, SubmitNoMatch, SubmitVerdict, SubmitTail
<1> QED BY <1>3, <1>9, <1>10, <1>11, <1>12, HandlerSplit

\* The verdict of a submit rests on a last sample without a password form: a
\* sighting starts the count again, and nothing else sets it.
THEOREM VerifiedWithoutForm == Spec => NoPasswordFormWhenVerified
<1>1. ASSUME IInv, [Next]_vars, NEW c \in Clients, call[c].samples = Samples - 1,
             call'[c].samples = Samples, call'[c].streak >= Absences
      PROVE  tab[call[c].page] \notin Form
  <2>1. SubmitSample(c) /\ Typed
    BY <1>1, LastSample DEF IInv, Absences
  <2>2. call'[c].streak \in {0, Sampled(call[c].streak, tab[call[c].page] \in Form)}
    BY <2>1 DEF SubmitSample, Typed, Calls
  <2> QED BY <1>1, <2>2 DEF Sampled, Absences
<1>2. IInv /\ [Next]_vars =>
        [\A c \in Clients :
           (call[c].samples = Samples - 1 /\ call'[c].samples = Samples /\ call'[c].streak >= Absences)
             => tab[call[c].page] \notin Form]_vars
  BY <1>1
<1> QED BY <1>2, Inductive, PTL DEF Spec, NoPasswordFormWhenVerified

-----------------------------------------------------------------------------
(* Which steps close a tab.                                                *)

NoneCloses == \A q \in Open : tab'[q] # "closed"

LEMMA BecomeClosesNone ==
  ASSUME Typed, NEW p \in Pages, NEW s, s # "closed", Become(p, s)
  PROVE  NoneCloses
BY DEF Typed, Become, NoneCloses, Open

LEMMA RequestClosesNone ==
  ASSUME Typed, NEW c \in Clients, Request(c)
  PROVE  NoneCloses
<1>1. CASE UNCHANGED tab
  BY <1>1 DEF NoneCloses, Open
<1>2. CASE NavigateNewPage(c) \/ BeginNewPage(c)
  BY <1>2, BecomeClosesNone DEF NavigateNewPage, BeginNewPage
<1> QED BY <1>1, <1>2 DEF Request, Refuse, NavigateRefused, NavigateReuse, BeginRefused, BeginReuse,
        ResolveStart, StageStart, SubmitProbe, SubmitStart

LEMMA BrowserClosesNone ==
  ASSUME Typed, BrowserMoves \/ AccountMoves
  PROVE  NoneCloses
<1>1. CASE AccountMoves
  BY <1>1, BecomeClosesNone DEF AccountMoves, AfterPassword, Open
<1>2. CASE BrowserMoves
  <2>1. ASSUME NEW p \in Open, NEW s \in Surface, MovesOn(p, s) PROVE NoneCloses
    BY <2>1, BecomeClosesNone DEF MovesOn, Landing, Open
  <2>2. ASSUME NEW p \in Open, NEW Q \in SUBSET Pages, Pops(p, Q) PROVE NoneCloses
    BY <2>2 DEF Pops, NoneCloses, Open
  <2> QED BY <1>2, <2>1, <2>2, BrowserCases
<1> QED BY <1>1, <1>2

\* Of the handlers, only begin-signin's, once it has seen popups.
Closes(c) == BeginManyPopups(c) \/ BeginPopupRefused(c) \/ BeginPopupApproved(c)

LEMMA HandlerClosesNone ==
  ASSUME IInv, NEW c \in Clients, Handler(c), ~Closes(c)
  PROVE  NoneCloses
<1> DEFINE p == call[c].page
<1>1. Typed /\ (call[c].route # "none" => p \in Pages)
  BY DEF IInv, CallInv, CallHeld
<1>2. call[c].route # "none"
  BY HandlerSplit, RouteOfHandler
<1>3. ASSUME NEW s, s # "closed", Become(p, s) PROVE NoneCloses
  BY <1>1, <1>2, <1>3, BecomeClosesNone
<1>4. CASE UNCHANGED tab
  BY <1>4 DEF NoneCloses, Open
<1>5. ASSUME NEW s \in Landing \union {"leaving", "popping", "outside"} PROVE s # "closed"
  BY DEF Landing
<1>6. CASE BeginHandler(c)
  BY <1>3, <1>4, <1>5, <1>6 DEF BeginHandler, BeginGoto, BeginNoControl, BeginClick, BeginClickRaises,
     BeginPoll, BeginSameTab, BeginOnePopup, Closes, BeginLanded, BeginReauth
<1>7. CASE SubmitHandler(c)
  BY <1>3, <1>4, <1>7 DEF SubmitHandler, SubmitStart, SubmitCombined, SubmitEmail, SubmitAfterNext,
     SubmitPassword, SubmitNoMatch, SubmitSample, SubmitVerdict, SubmitTail
<1>8. CASE OtherHandler(c)
  BY <1>3, <1>4, <1>8 DEF OtherHandler, NavigateGoto, ResolveEmail, ResolveForward, ResolveReread,
     ResolveUnread, ResolveOther, StageAct, StageCheck, Stage
<1> QED BY <1>6, <1>7, <1>8, HandlerSplit

LEMMA OnlyBeginCloses ==
  ASSUME IInv, [Next]_vars, NEW p \in Open, tab'[p] = "closed"
  PROVE  Restart \/ \E c \in Clients : Closes(c)
<1>1. ~NoneCloses /\ ~UNCHANGED vars
  BY DEF NoneCloses, vars, Open
<1> QED BY <1>1, RequestClosesNone, BrowserClosesNone, HandlerClosesNone DEF Next, IInv

\* Of the tabs that were there at the Sign In click, begin-signin closes at most
\* the source, and only for a popup that stands on an approved origin.
THEOREM TabsSurvive == Spec => OtherTabsSurvive
<1>1. ASSUME IInv, [Next]_vars, NEW c \in Clients, NEW p \in Open, call[c].route = "begin",
             p \in call[c].before, call'[c] # Idle, tab'[p] = "closed"
      PROVE  p = call[c].page /\ tab'[call[c].popup] \in Auth
  <2>1. ~Restart
    BY <1>1 DEF Restart
  <2>2. PICK d \in Clients : Closes(d)
    BY <1>1, <2>1, OnlyBeginCloses
  <2>3. BeginHandler(d) /\ call[d].route = "begin"
    BY <2>2, RouteOfHandler DEF Closes, BeginHandler
  <2>4. d = c
    BY <1>1, <2>3 DEF IInv, RunsAlone, Running
  <2>5. BeginPopupApproved(c)
    <3>1. BeginManyPopups(c) \/ BeginPopupRefused(c) => Open' = call[c].before
      BY <1>1, PopupsClosed
    <3> QED BY <1>1, <2>2, <2>4, <3>1 DEF Closes, Open
  <2>6. /\ Typed /\ call[c].page \in Pages /\ call[c].popup \in Pages
        /\ call[c].page # call[c].popup /\ tab[call[c].popup] \in Auth
        /\ Become(call[c].page, "closed")
    BY <1>1, <2>5 DEF BeginPopupApproved, At, IInv, CallInv, CallHeld, Settling, Clicked
  <2>7. tab'[call[c].popup] = tab[call[c].popup] /\ \A q \in Open \ {call[c].page} : tab'[q] = tab[q]
    BY <2>6, BecomeTyped DEF Open
  <2> QED BY <1>1, <2>6, <2>7 DEF Open
<1>2. IInv /\ [Next]_vars =>
        [\A c \in Clients, p \in Open :
           (call[c].route = "begin" /\ p \in call[c].before /\ call'[c] # Idle /\ tab'[p] = "closed")
             => p = call[c].page /\ tab'[call[c].popup] \in Auth]_vars
  BY <1>1
<1> QED BY <1>2, Inductive, PTL DEF Spec, OtherTabsSurvive

=============================================================================
