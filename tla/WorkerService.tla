--------------------------- MODULE WorkerService ---------------------------
(***************************************************************************)
(* The browser worker's read service: the typed /operations route, which   *)
(* goes through the profile executor, and the GET routes, which call the   *)
(* Planner adapter directly.  Both ask the session broker and the live     *)
(* reader in the step in which their work starts, and hold the page they   *)
(* were given across one to three suspended reads, while the sign-in       *)
(* routes, the page's own scripts and the person move the tabs.            *)
(*                                                                         *)
(* ProfileExecutor's steps are conjuncts of the service's steps.  What a   *)
(* page shows is abstracted to whether it is the Planner board; the reads  *)
(* change nothing and what they return is left out, so a call that reads   *)
(* is one that has a page.                                                 *)
(***************************************************************************)
EXTENDS ProfileExecutor

CONSTANTS
  Direct,    \* calls on the GET routes
  Tabs,      \* the tabs the profile's Chromium can have open
  Attested,  \* what the deployed UI contract attests: nothing, auth or all
  None

ASSUME CallersAssumption == Direct \intersect Requests = {}
ASSUME AttestedAssumption == Attested \in {"nothing", "auth", "all"}
ASSUME NoneAssumption == None \notin Tabs

VARIABLES
  tabs,       \* _context.pages: the open tabs, oldest first
  shows,      \* what each tab shows
  compatible, \* ProtocolNegotiator.compatible
  page        \* the page a call in progress was given to read

browser == <<tabs, shows>>

workerVars == <<vars, browser, compatible, page>>

Callers == Requests \union Direct
Reading(c) == page[c] # None

-----------------------------------------------------------------------------
(* What may be read, and where.                                            *)

\* Fault: one tab on the board is enough, whatever else is open.
SurfaceAmongTabs == \E i \in DOMAIN tabs : shows[tabs[i]] = "board"

\* planner_web_surface_present: exactly one page, and it is the fixed surface.
SurfacePresent == Len(tabs) = 1 /\ shows[Head(tabs)] = "board"

\* common.auth is attested: live_auth_state() is AUTHENTICATED.
Authenticated == Attested # "nothing"

\* live_account_context and the live read path rest on the same signal.
AccountValid == SurfacePresent
LiveReadPath == SurfacePresent

\* authorize() for a read-only delivery capability on a started browser.
Authorized ==
  /\ Authenticated
  /\ AccountValid \/ LiveReadPath
  /\ LiveReadPath \/ Attested = "all"

\* planner_live_reader: the first page, if the surface is present.
LivePage == IF SurfacePresent THEN Head(tabs) ELSE None

\* The adapter's work up to its first suspension: it is refused, it needs no
\* page (the auth and account operations), or it has a page to read.
Start(c) ==
  \/ /\ Authorized
     /\ LivePage # None
     /\ page' = [page EXCEPT ![c] = LivePage]
  \/ UNCHANGED page

\* The work is over: returned, raised or cancelled.
Stop(c) == page' = [page EXCEPT ![c] = None]

-----------------------------------------------------------------------------
(* The typed operations, one at a time through the executor.               *)

\* ProtocolIncompatible or WorkerBusy, and nothing else happens.
OperationRefused(r) ==
  /\ pc[r] = "idle"
  /\ ~compatible \/ ~CanAdmit
  /\ UNCHANGED workerVars

\* The protocol is asked once, before admission.
OperationAtOnce(r) ==
  /\ compatible
  /\ ExecuteAtOnce(r)
  /\ Start(r)
  /\ UNCHANGED <<browser, compatible>>

OperationWaits(r) ==
  /\ compatible
  /\ ExecuteWaits(r)
  /\ UNCHANGED <<browser, page, compatible>>

\* The guard and the page are asked for when the call's turn comes.
OperationsTurn(r) ==
  /\ Resume(r)
  /\ Start(r)
  /\ UNCHANGED <<browser, compatible>>

OperationCancelled(r) ==
  /\ CancelWaiter(r)
  /\ UNCHANGED <<browser, page, compatible>>

OperationUnwinds(r) ==
  /\ UnwindWaiter(r)
  /\ UNCHANGED <<browser, page, compatible>>

\* All reads made, or one of them raised, or the task was cancelled.
OperationEnds(r) ==
  /\ FinishWork(r)
  /\ Stop(r)
  /\ UNCHANGED <<browser, compatible>>

(* The GET routes: no protocol, no executor.                               *)

DirectStarts(d) ==
  /\ ~Reading(d)
  /\ Start(d)
  /\ Reading(d)'
  /\ UNCHANGED <<vars, browser, compatible>>

DirectEnds(d) ==
  /\ Reading(d)
  /\ Stop(d)
  /\ UNCHANGED <<vars, browser, compatible>>

-----------------------------------------------------------------------------
(* The world around the service.                                           *)

\* A sign-in route, a redirect or the person takes a tab to or off the board.
TabMoves(t) ==
  /\ t \in ToSet(tabs)
  /\ \E s \in {"board", "elsewhere"} \ {shows[t]} : shows' = [shows EXCEPT ![t] = s]
  /\ UNCHANGED <<vars, tabs, page, compatible>>

TabOpens(t) ==
  /\ t \notin ToSet(tabs)
  /\ tabs' = Append(tabs, t)
  /\ \E s \in {"board", "elsewhere"} : shows' = [shows EXCEPT ![t] = s]
  /\ UNCHANGED <<vars, page, compatible>>

TabCloses(t) ==
  /\ \E i \in DOMAIN tabs : tabs[i] = t /\ tabs' = RemoveAt(tabs, i)
  /\ shows' = [shows EXCEPT ![t] = "elsewhere"]
  /\ UNCHANGED <<vars, page, compatible>>

\* A peer advertises its versions, with or without one this worker has.
Negotiate ==
  /\ compatible' \in BOOLEAN
  /\ UNCHANGED <<vars, browser, page>>

WorkerInit ==
  /\ Init
  /\ tabs = <<>>
  /\ shows = [t \in Tabs |-> "elsewhere"]
  /\ compatible = FALSE
  /\ page = [c \in Callers |-> None]

WorkerNext ==
  \/ \E r \in Requests : \/ OperationRefused(r)
                         \/ OperationAtOnce(r)
                         \/ OperationWaits(r)
                         \/ OperationsTurn(r)
                         \/ OperationCancelled(r)
                         \/ OperationUnwinds(r)
                         \/ OperationEnds(r)
  \/ \E d \in Direct : DirectStarts(d) \/ DirectEnds(d)
  \/ \E t \in Tabs : TabMoves(t) \/ TabOpens(t) \/ TabCloses(t)
  \/ Negotiate

\* The event loop runs whoever is ready.  A read is a script without a wait:
\* it answers, or raises when its page has moved or closed.
WorkerFairness == \A r \in Requests :
  /\ WF_workerVars(OperationsTurn(r))
  /\ WF_workerVars(OperationUnwinds(r))
  /\ WF_workerVars(OperationEnds(r))

WorkerSpec == WorkerInit /\ [][WorkerNext]_workerVars /\ WorkerFairness

-----------------------------------------------------------------------------
(* Properties.                                                             *)

(* Whatever waits, is cancelled or fails on its page, two typed operations *)
(* never have a page in hand at once, and the one that has it is the one   *)
(* the executor reports as active.                                         *)
OperationsNeverOverlap == \A r, s \in Requests :
  Reading(r) /\ Reading(s) => r = s /\ pc[r] = "working" /\ active

(* A call is given a page only while that page is the one tab open and it  *)
(* shows the board: a call that waited is judged by what the browser shows *)
(* when its turn comes, and the first page of several is never taken for   *)
(* the board because another one shows it.                                 *)
ReadsStartOnTheBoard == [][\A c \in Callers :
  ~Reading(c) /\ Reading(c)' =>
    ToSet(tabs)' = {page'[c]} /\ shows'[page'[c]] = "board"]_workerVars

(* docs/browser-worker.md, WORKER-040: a profile cannot be driven          *)
(* concurrently, the worker serialises operations behind a lock.           *)
OneOperationPerProfile == \A c, d \in Callers :
  Reading(c) /\ Reading(d) => c = d
=============================================================================
