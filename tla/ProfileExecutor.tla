-------------------------- MODULE ProfileExecutor --------------------------
(***************************************************************************)
(* ProfileSerializedExecutor: the admission counter and the operation lock *)
(* that keep one browser profile from being driven by two operations.      *)
(*                                                                         *)
(* The executor runs on one asyncio event loop, so a step of the model is  *)
(* what a task does between two suspensions.  The state lock is never held *)
(* across a suspension and therefore never makes a task wait; it has no    *)
(* state here.  The operation lock is asyncio.Lock, whose waiters are a    *)
(* deque of futures: its code is not in the repository and is modelled as  *)
(* its release / cancel / resume steps.                                    *)
(***************************************************************************)
EXTENDS Naturals, FiniteSets, SequencesExt

CONSTANTS
  Requests,   \* tasks that call execute()
  MaxQueue    \* the max_queue argument

ASSUME RequestsAssumption == IsFiniteSet(Requests)
ASSUME MaxQueueAssumption == MaxQueue \in Nat

VARIABLES
  pc,         \* where each task is in execute(): idle, waiting or working
  admitted,   \* self._admitted
  active,     \* self._active
  locked,     \* _operation_lock._locked
  waiters,    \* _operation_lock._waiters, oldest first
  future      \* the waiter's future, and whether the task must be cancelled

vars == <<pc, admitted, active, locked, waiters, future>>

-----------------------------------------------------------------------------
(* The operation lock (asyncio.Lock).                                      *)

\* "woken": the future has its result but the task has not run yet.
\* "doomed": woken, and cancelled before it could run.
FutureState == {"none", "pending", "woken", "cancelled", "doomed"}

\* Fault: a newcomer takes the lock between the release and the hand-over.
FreeForBarging == ~locked

\* acquire() does not suspend when the lock is free and every waiter is cancelled.
FreeForNewcomer ==
  /\ ~locked
  /\ \A w \in ToSet(waiters) : future[w] = "cancelled"

\* _wake_up_first() on queue q: the oldest waiter, unless its future is done.
WakeFirst(f, q) ==
  IF q # <<>> /\ f[Head(q)] = "pending"
  THEN [f EXCEPT ![Head(q)] = "woken"]
  ELSE f

LeaveQueue(r) == \E i \in DOMAIN waiters :
  /\ waiters[i] = r
  /\ waiters' = RemoveAt(waiters, i)

-----------------------------------------------------------------------------
(* The executor.                                                           *)

capacity == MaxQueue + 1

CanAdmit == admitted < capacity

Init ==
  /\ pc = [r \in Requests |-> "idle"]
  /\ admitted = 0
  /\ active = FALSE
  /\ locked = FALSE
  /\ waiters = <<>>
  /\ future = [r \in Requests |-> "none"]

\* Admitted, and the operation lock is free: work starts without a suspension.
ExecuteAtOnce(r) ==
  /\ pc[r] = "idle"
  /\ CanAdmit
  /\ FreeForNewcomer
  /\ admitted' = admitted + 1
  /\ locked' = TRUE
  /\ active' = TRUE
  /\ pc' = [pc EXCEPT ![r] = "working"]
  /\ UNCHANGED <<waiters, future>>

\* Admitted, and suspended on the operation lock.
ExecuteWaits(r) ==
  /\ pc[r] = "idle"
  /\ CanAdmit
  /\ ~FreeForNewcomer
  /\ admitted' = admitted + 1
  /\ waiters' = Append(waiters, r)
  /\ future' = [future EXCEPT ![r] = "pending"]
  /\ pc' = [pc EXCEPT ![r] = "waiting"]
  /\ UNCHANGED <<active, locked>>

\* The admission counter is at capacity: WorkerBusy, and nothing else happens.
ExecuteBusy(r) ==
  /\ pc[r] = "idle"
  /\ ~CanAdmit
  /\ UNCHANGED vars

\* A woken waiter runs: it takes the lock and starts its work.
Resume(r) ==
  /\ pc[r] = "waiting"
  /\ future[r] = "woken"
  /\ LeaveQueue(r)
  /\ future' = [future EXCEPT ![r] = "none"]
  /\ locked' = TRUE
  /\ active' = TRUE
  /\ pc' = [pc EXCEPT ![r] = "working"]
  /\ UNCHANGED admitted

\* The work returns, raises or is cancelled: the finally blocks run in one go.
FinishWork(r) ==
  /\ pc[r] = "working"
  /\ active' = FALSE
  /\ locked' = FALSE
  /\ future' = WakeFirst(future, waiters)
  /\ admitted' = admitted - 1
  /\ pc' = [pc EXCEPT ![r] = "idle"]
  /\ UNCHANGED waiters

\* task.cancel() on a waiter: its future is cancelled, or, when the result is
\* already set, the task is marked to be cancelled at its next step.
CancelWaiter(r) ==
  /\ pc[r] = "waiting"
  /\ \/ future[r] = "pending" /\ future' = [future EXCEPT ![r] = "cancelled"]
     \/ future[r] = "woken"   /\ future' = [future EXCEPT ![r] = "doomed"]
  /\ UNCHANGED <<pc, admitted, active, locked, waiters>>

\* Fault: a waiter that was handed the lock and cancelled keeps it to itself.
UnwindWaiterSilent(r) ==
  /\ pc[r] = "waiting"
  /\ future[r] \in {"cancelled", "doomed"}
  /\ LeaveQueue(r)
  /\ future' = [future EXCEPT ![r] = "none"]
  /\ admitted' = admitted - 1
  /\ pc' = [pc EXCEPT ![r] = "idle"]
  /\ UNCHANGED <<active, locked>>

\* The cancelled waiter runs: it leaves the queue, passes a free lock on, and
\* gives its admission back.
UnwindWaiter(r) ==
  /\ pc[r] = "waiting"
  /\ future[r] \in {"cancelled", "doomed"}
  /\ LeaveQueue(r)
  /\ LET f == [future EXCEPT ![r] = "none"]
     IN  future' = IF locked THEN f ELSE WakeFirst(f, waiters')
  /\ admitted' = admitted - 1
  /\ pc' = [pc EXCEPT ![r] = "idle"]
  /\ UNCHANGED <<active, locked>>

Next == \E r \in Requests :
  \/ ExecuteAtOnce(r)
  \/ ExecuteWaits(r)
  \/ ExecuteBusy(r)
  \/ Resume(r)
  \/ FinishWork(r)
  \/ CancelWaiter(r)
  \/ UnwindWaiter(r)

\* The event loop runs every task that is ready; work is assumed to end (see
\* WorkerService for what it is).  Nobody has to call or cancel.
Fairness == \A r \in Requests :
  /\ WF_vars(Resume(r))
  /\ WF_vars(UnwindWaiter(r))
  /\ WF_vars(FinishWork(r))

Spec == Init /\ [][Next]_vars /\ Fairness

-----------------------------------------------------------------------------
(* Properties.                                                             *)

Working == {r \in Requests : pc[r] = "working"}
Waiting == {r \in Requests : pc[r] = "waiting"}
Inside  == {r \in Requests : pc[r] # "idle"}

TypeOK ==
  /\ pc \in [Requests -> {"idle", "waiting", "working"}]
  /\ admitted \in 0..capacity
  /\ active \in BOOLEAN
  /\ locked \in BOOLEAN
  /\ waiters \in Seq(Requests)
  /\ future \in [Requests -> FutureState]

(* Two operations never drive the profile at once, and the flag snapshot() *)
(* reports says exactly when one does: no exit path of execute(), a        *)
(* cancelled hand-over included, leaves the lock or the flag behind.       *)
MutualExclusion ==
  /\ \A r, s \in Working : r = s
  /\ active <=> Working # {}
  /\ locked <=> Working # {}

(* Every unit of self._admitted belongs to one task inside execute(), and  *)
(* the lock's queue holds each waiting task once and nothing else: the     *)
(* finally blocks give back exactly what was taken, however a request ends. *)
AdmissionsAccountedFor ==
  /\ admitted = Cardinality(Inside)
  /\ \A r \in Requests : pc[r] = "waiting" <=> \E i \in DOMAIN waiters : waiters[i] = r
  /\ \A i, j \in DOMAIN waiters : waiters[i] = waiters[j] => i = j
  /\ \A r \in Requests : pc[r] = "waiting" <=> future[r] # "none"

(* No lost wake-up: while the lock is free and somebody is on its queue,   *)
(* the oldest waiter is about to run (woken, or cancelled and due to pass  *)
(* the lock on), so the executor cannot fall asleep with work in line.     *)
NoLostWakeup ==
  (~locked /\ waiters # <<>>) => future[Head(waiters)] # "pending"

(* At most one waiter has been handed the lock, it is the oldest, and the  *)
(* lock is still free for it: a newcomer cannot barge in at the hand-over. *)
HandoverIsExclusive == \A i \in DOMAIN waiters :
  future[waiters[i]] \in {"woken", "doomed"} => i = 1 /\ ~locked

(* Every admitted request leaves the queue: it is served or, if cancelled, *)
(* unwinds; no sequence of cancellations makes another waiter starve.      *)
EveryWaiterIsServed == \A r \in Requests :
  pc[r] = "waiting" ~> pc[r] # "waiting"

(* The executor implements the bounded FIFO service of SerialService.      *)
Service == INSTANCE SerialService WITH
  Capacity <- capacity,
  line     <- waiters,
  gaveUp   <- {r \in Requests : future[r] \in {"cancelled", "doomed"}},
  served   <- Working

ImplementsSerialService == Service!Spec
=============================================================================
