--------------------------- MODULE MutationLedger ---------------------------
(***************************************************************************)
(* The mutation ledger: the idempotency record of an operation             *)
(* (idempotency_v2), the checkpoints of the node that runs it              *)
(* (execution_lifecycle), the resume planner (xapp_checkpoint_resume), the *)
(* dead letter of a node that gave up (xapp_dead_letter), and the reading  *)
(* back of sent items (sent_item_readback).                                *)
(*                                                                         *)
(* The code is a library of decisions over records that its caller stores. *)
(* The caller, the service whose state a mutation changes, and the crashes *)
(* between the two are external: a worker asks resolve_retry before it     *)
(* acts, writes its reservation before the request and the outcome after   *)
(* it, and a crash may come between any two of these.  One worker at a     *)
(* time runs a node.                                                       *)
(***************************************************************************)
EXTENDS Naturals, Sequences

CONSTANTS
  Ops,         \* operations: one tool, identity and payload each, one node each
  ReadBackOps, \* those that are reserved with read_back_required
  NoRecord,    \* no record is stored
  MaxIndex,    \* bound on the length of a chain of checkpoints
  MaxAttempts, \* _MAX_ATTEMPTS, small
  MaxCrashes   \* bound on the crashes of a worker

ASSUME OpsAssumption == ReadBackOps \subseteq Ops
ASSUME BoundsAssumption ==
  MaxIndex \in Nat \ {0, 1, 2} /\ MaxAttempts \in Nat \ {0} /\ MaxCrashes \in Nat

VARIABLES
  record,   \* the stored idempotency record of each operation
  chain,    \* the stored lifecycle states of each node, in checkpoint order
  attempts, \* attempt_count of the node
  letter,   \* the dead letter of the node, "none" when there is none
  pc,       \* where the worker of the node is; "down" when there is none
  seen,     \* the read-back the worker holds
  flight,   \* the request last sent for the operation
  effects,  \* how often its effect has happened at Microsoft
  crashes

vars == <<record, chain, attempts, letter, pc, seen, flight, effects, crashes>>
stored == <<record, chain, attempts, letter>>
service == <<flight, effects>>

Phase == {"RESERVED", "COMPLETED", "FAILED_PRE_EFFECT", "EFFECT_UNVERIFIED"}
Records == [op : Ops, phase : Phase, readBack : BOOLEAN]
ASSUME NoRecordAssumption == NoRecord \notin Records
ReadBackOutcome == {"NOT_RUN", "EFFECT_PRESENT", "EFFECT_ABSENT", "AMBIGUOUS"}
State == {"PLANNED", "ACTIVE", "CHECKPOINTED", "COMPLETED", "FAILED", "INDETERMINATE"}
Terminal == {"COMPLETED", "FAILED", "INDETERMINATE"}
Letter == {"none", "WAITING_MANUAL", "SKIP", "ABORT"}
Worker == {"down", "rest", "cleared", "sent"}
Flight == {"none", "flying", "landed"}

-----------------------------------------------------------------------------
(* Records and the decision on a retry.                                    *)

ReserveOperation(o) == [op |-> o, phase |-> "RESERVED", readBack |-> o \in ReadBackOps]

\* associate_result, mark_failed_pre_effect and mark_effect_unverified alike
\* accept a reserved record only.
Mark(r, phase) == [r EXCEPT !.phase = phase]

\* Fault: a record found is taken for the operation's own.
BindingIgnored(r, o) == TRUE
BindingMatches(r, o) == r.op = o

\* Fault: a reservation is safe to retry without a read-back.
ResolveRetryUnread(r, o, evidence) ==
  CASE r = NoRecord                   -> "EXECUTE"
    [] ~BindingMatches(r, o)          -> "DENY_BINDING_MISMATCH"
    [] r.phase = "COMPLETED"          -> "REPLAY_RESULT"
    [] r.phase = "FAILED_PRE_EFFECT"  -> "RETRY_SAFE"
    [] r.phase = "RESERVED"           -> "RETRY_SAFE"
    [] OTHER                          -> "DO_NOT_RETRY"

ResolveRetry(r, o, evidence) ==
  IF r = NoRecord THEN "EXECUTE"
  ELSE IF ~BindingMatches(r, o) THEN "DENY_BINDING_MISMATCH"
  ELSE IF r.phase = "COMPLETED" THEN "REPLAY_RESULT"
  ELSE IF r.phase = "FAILED_PRE_EFFECT" THEN "RETRY_SAFE"
  ELSE IF ~r.readBack THEN IF r.phase = "RESERVED" THEN "RETRY_SAFE" ELSE "DO_NOT_RETRY"
  ELSE IF evidence = "EFFECT_PRESENT" THEN "DO_NOT_RETRY"
  ELSE IF evidence = "EFFECT_ABSENT" THEN "RETRY_SAFE"
  ELSE "READ_BACK_REQUIRED"

\* The sent items that carry the key of the intent: none, one, or too many to tell.
SentItemReadBack(found) ==
  IF found = 0 THEN "EFFECT_ABSENT" ELSE IF found = 1 THEN "EFFECT_PRESENT" ELSE "AMBIGUOUS"

-----------------------------------------------------------------------------
(* Checkpoints.  The index of a checkpoint is its place in the chain.      *)

Allowed == [s \in State |->
  CASE s = "PLANNED"      -> {"ACTIVE", "FAILED"}
    [] s = "ACTIVE"       -> {"CHECKPOINTED"} \union Terminal
    [] s = "CHECKPOINTED" -> {"ACTIVE", "CHECKPOINTED"} \union Terminal
    [] OTHER              -> {}]

ValidChain(c) ==
  /\ c # <<>>
  /\ c[1] = "PLANNED"
  /\ \A i \in 2..Len(c) : c[i] \in Allowed[c[i - 1]]

Latest(o) == chain[o][Len(chain[o])]
In(o, states) == chain[o] # <<>> /\ Latest(o) \in states

\* transition_checkpoint.  The bound leaves room for the end of the chain.
Transition(o, next) ==
  /\ next \in Allowed[Latest(o)]
  /\ next \in Terminal \/ Len(chain[o]) < MaxIndex
  /\ chain' = [chain EXCEPT ![o] = Append(@, next)]

\* prepare_checkpoint_resume.
ResumeState(o) ==
  CASE Latest(o) = "CHECKPOINTED" -> "RESUMABLE"
    [] Latest(o) \in Terminal     -> "TERMINAL"
    [] OTHER                      -> "NOT_CHECKPOINTED"

-----------------------------------------------------------------------------
Init ==
  /\ record = [o \in Ops |-> NoRecord]
  /\ chain = [o \in Ops |-> <<>>]
  /\ attempts = [o \in Ops |-> 0]
  /\ letter = [o \in Ops |-> "none"]
  /\ pc = [o \in Ops |-> "down"]
  /\ seen = [o \in Ops |-> "NOT_RUN"]
  /\ flight = [o \in Ops |-> "none"]
  /\ effects = [o \in Ops |-> 0]
  /\ crashes = 0

Goto(o, where) == pc' = [pc EXCEPT ![o] = where]
Hold(o, evidence) == seen' = [seen EXCEPT ![o] = evidence]
Store(o, r) == record' = [record EXCEPT ![o] = r]

\* start_checkpoint, for a node that has none.
Start(o) ==
  /\ chain[o] = <<>>
  /\ chain' = [chain EXCEPT ![o] = <<"PLANNED">>]
  /\ attempts' = [attempts EXCEPT ![o] = 1]
  /\ UNCHANGED <<record, letter, pc, seen, service, crashes>>

\* A worker takes up a planned node, or one the planner calls resumable.
TakeUp(o) ==
  /\ pc[o] = "down"
  /\ ValidChain(chain[o])
  /\ Latest(o) = "PLANNED" \/ ResumeState(o) = "RESUMABLE"
  /\ Transition(o, "ACTIVE")
  /\ Goto(o, "rest")
  /\ UNCHANGED <<record, attempts, letter, seen, service, crashes>>

\* A node that was active when its worker died cannot be resumed: whether it
\* has had an effect is not known.  One that no more checkpoints fit ends too.
GiveUp(o) ==
  /\ pc[o] = "down"
  /\ In(o, {"ACTIVE", "CHECKPOINTED"})
  /\ ResumeState(o) = "NOT_CHECKPOINTED" \/ Len(chain[o]) >= MaxIndex
  /\ Transition(o, "INDETERMINATE")
  /\ UNCHANGED <<record, attempts, letter, pc, seen, service, crashes>>

\* The worker of o asks with the record that it found, which may be the
\* record of another operation, and with the read-back it holds.
Asks(o, p, action) ==
  /\ pc[o] = "rest"
  /\ In(o, {"ACTIVE"})
  /\ p = o \/ record[p] # NoRecord
  /\ ResolveRetry(record[p], o, seen[o]) = action

\* Fault: the read-back of an earlier request is kept for the next.
ReserveForgetful(o, p) ==
  /\ Asks(o, p, "EXECUTE") \/ Asks(o, p, "RETRY_SAFE")
  /\ Store(o, ReserveOperation(o))
  /\ Goto(o, "cleared")
  /\ UNCHANGED <<chain, attempts, letter, seen, service, crashes>>

Reserve(o, p) ==
  /\ Asks(o, p, "EXECUTE") \/ Asks(o, p, "RETRY_SAFE")
  /\ Store(o, ReserveOperation(o))
  /\ Goto(o, "cleared")
  /\ Hold(o, "NOT_RUN")
  /\ UNCHANGED <<chain, attempts, letter, service, crashes>>

\* The earlier result is returned, or what the record forbids is given up.
Conclude(o, p) ==
  /\ \/ Asks(o, p, "REPLAY_RESULT") /\ Transition(o, "COMPLETED")
     \/ Asks(o, p, "DENY_BINDING_MISMATCH") /\ Transition(o, "FAILED")
     \/ Asks(o, p, "DO_NOT_RETRY") /\ Transition(o, "INDETERMINATE")
     \/ /\ Asks(o, p, "READ_BACK_REQUIRED")
        /\ seen[o] = "AMBIGUOUS"
        /\ Transition(o, "INDETERMINATE")
  /\ Goto(o, "down")
  /\ Hold(o, "NOT_RUN")
  /\ UNCHANGED <<record, attempts, letter, service, crashes>>

\* The worker looks for the effect, once the last request can no longer land.
ReadBack(o) ==
  /\ Asks(o, o, "READ_BACK_REQUIRED")
  /\ seen[o] = "NOT_RUN"
  /\ flight[o] # "flying"
  /\ Hold(o, SentItemReadBack(effects[o]))
  /\ UNCHANGED <<stored, pc, service, crashes>>

\* Of two requests in flight the model follows the later one; only an
\* operation that is not read back can have two.
Send(o) ==
  /\ pc[o] = "cleared"
  /\ Goto(o, "sent")
  /\ flight' = [flight EXCEPT ![o] = "flying"]
  /\ UNCHANGED <<stored, seen, effects, crashes>>

\* A failure before the request; the node waits for another turn or fails.
FailBeforeEffect(o) ==
  /\ pc[o] = "cleared"
  /\ record[o].phase = "RESERVED"
  /\ Store(o, Mark(record[o], "FAILED_PRE_EFFECT"))
  /\ Transition(o, "CHECKPOINTED") \/ Transition(o, "FAILED")
  /\ Goto(o, "down")
  /\ UNCHANGED <<attempts, letter, seen, service, crashes>>

\* A request takes effect, or is lost.
Land(o) ==
  /\ flight[o] = "flying"
  /\ flight' = [flight EXCEPT ![o] = "landed"]
  /\ effects' = [effects EXCEPT ![o] = @ + 1]
  /\ UNCHANGED <<stored, pc, seen, crashes>>

Lose(o) ==
  /\ flight[o] = "flying"
  /\ flight' = [flight EXCEPT ![o] = "none"]
  /\ UNCHANGED <<stored, pc, seen, effects, crashes>>

\* Fault: the result is recorded before the request has answered.
AssociateEarly(o) ==
  /\ pc[o] = "sent"
  /\ record[o].phase = "RESERVED"
  /\ Store(o, Mark(record[o], "COMPLETED"))
  /\ UNCHANGED <<chain, attempts, letter, pc, seen, service, crashes>>

\* associate_result.  The two writes are two steps: a crash may part them.
AssociateResult(o) ==
  /\ pc[o] = "sent"
  /\ flight[o] = "landed"
  /\ record[o].phase = "RESERVED"
  /\ Store(o, Mark(record[o], "COMPLETED"))
  /\ UNCHANGED <<chain, attempts, letter, pc, seen, service, crashes>>

FinishNode(o) ==
  /\ pc[o] = "sent"
  /\ record[o].phase = "COMPLETED"
  /\ Transition(o, "COMPLETED")
  /\ Goto(o, "down")
  /\ UNCHANGED <<record, attempts, letter, seen, service, crashes>>

\* No answer came: mark_effect_unverified, and the worker asks again.
TimeOut(o) ==
  /\ pc[o] = "sent"
  /\ record[o].phase = "RESERVED"
  /\ Store(o, Mark(record[o], "EFFECT_UNVERIFIED"))
  /\ Goto(o, "rest")
  /\ UNCHANGED <<chain, attempts, letter, seen, service, crashes>>

Crash(o) ==
  /\ pc[o] # "down"
  /\ crashes < MaxCrashes
  /\ crashes' = crashes + 1
  /\ Goto(o, "down")
  /\ Hold(o, "NOT_RUN")
  /\ UNCHANGED <<stored, service>>

\* A node that failed or ended uncertain waits for a person.
DeadLetter(o) ==
  /\ In(o, {"FAILED", "INDETERMINATE"})
  /\ letter[o] = "none"
  /\ letter' = [letter EXCEPT ![o] = "WAITING_MANUAL"]
  /\ UNCHANGED <<record, chain, attempts, pc, seen, service, crashes>>

\* Fault: attempts are not counted.
RetryUncounted(o) ==
  /\ letter[o] = "WAITING_MANUAL"
  /\ letter' = [letter EXCEPT ![o] = "none"]
  /\ chain' = [chain EXCEPT ![o] = <<"PLANNED">>]
  /\ UNCHANGED <<record, attempts, pc, seen, service, crashes>>

\* prepare_manual_intervention, and what its caller then does: a retry is a
\* new chain for the same operation and the same record.
Retry(o) ==
  /\ letter[o] = "WAITING_MANUAL"
  /\ attempts[o] < MaxAttempts
  /\ letter' = [letter EXCEPT ![o] = "none"]
  /\ chain' = [chain EXCEPT ![o] = <<"PLANNED">>]
  /\ attempts' = [attempts EXCEPT ![o] = @ + 1]
  /\ UNCHANGED <<record, pc, seen, service, crashes>>

Dismiss(o, action) ==
  /\ letter[o] = "WAITING_MANUAL"
  /\ letter' = [letter EXCEPT ![o] = action]
  /\ UNCHANGED <<record, chain, attempts, pc, seen, service, crashes>>

Closed(o) == (letter[o] \in {"SKIP", "ABORT"} \/ In(o, {"COMPLETED"})) /\ flight[o] # "flying"

\* Every node is closed and nothing is in flight.
AllClosed == (\A o \in Ops : Closed(o)) /\ UNCHANGED vars

Step(o) ==
  \/ Start(o) \/ TakeUp(o) \/ GiveUp(o)
  \/ \E p \in Ops : Reserve(o, p) \/ Conclude(o, p)
  \/ ReadBack(o) \/ Send(o) \/ FailBeforeEffect(o)
  \/ AssociateResult(o) \/ FinishNode(o) \/ TimeOut(o)
  \/ Land(o) \/ Lose(o)
  \/ DeadLetter(o) \/ Retry(o) \/ \E a \in {"SKIP", "ABORT"} : Dismiss(o, a)

Next == (\E o \in Ops : Step(o) \/ Crash(o)) \/ AllClosed

\* Workers take their turns, requests settle and people answer; that nothing
\* crashes for ever is in the bound.
Spec == Init /\ [][Next]_vars /\ \A o \in Ops : WF_vars(Step(o))

-----------------------------------------------------------------------------
(* Every variable keeps its type, and a node holds no more checkpoints and *)
(* no more attempts than their bounds.                                     *)
TypeOK ==
  /\ record \in [Ops -> Records \union {NoRecord}]
  /\ chain \in [Ops -> Seq(State)]
  /\ \A o \in Ops : Len(chain[o]) <= MaxIndex + 1
  /\ attempts \in [Ops -> 0..MaxAttempts]
  /\ letter \in [Ops -> Letter]
  /\ pc \in [Ops -> Worker]
  /\ seen \in [Ops -> ReadBackOutcome]
  /\ flight \in [Ops -> Flight]
  /\ effects \in [Ops -> Nat]
  /\ crashes \in 0..MaxCrashes

(* An operation that is read back has its effect at most once, whatever    *)
(* crashes, lost answers, late landings, retries by hand and lookups of a  *)
(* wrong record come between (resolve_retry).                              *)
EffectOnce == \A o \in ReadBackOps : effects[o] <= 1

(* What is called complete has happened: a record that says COMPLETED, and *)
(* a node whose chain ends so because it acted or because an earlier       *)
(* result was replayed to it (associate_result, resolve_retry).  The two   *)
(* are written apart, and a crash may come between.                        *)
CompletedHappened == \A o \in Ops :
  \/ record[o] # NoRecord /\ record[o].phase = "COMPLETED"
  \/ In(o, {"COMPLETED"})
  => effects[o] >= 1

(* Once an operation is recorded as completed, no later step repeats it.   *)
CompletedIsFinal == [][\A o \in Ops :
  record[o] # NoRecord /\ record[o].phase = "COMPLETED"
    => record'[o] = record[o] /\ effects'[o] = effects[o]]_vars

(* Unless it goes on sending requests for ever, a node that was started    *)
(* ends completed or closed by a person: no crash, ambiguity or lost       *)
(* answer leaves it where nobody may take it up (prepare_checkpoint_resume *)
(* and the transition table).                                              *)
EveryNodeCloses == \A o \in Ops :
  <>[](flight[o] # "flying") => (chain[o] # <<>> ~> Closed(o))

Once == INSTANCE OnceEffect WITH
  Promised <- ReadBackOps,
  times <- [o \in ReadBackOps |-> effects[o]],
  complete <- {o \in ReadBackOps : record[o] # NoRecord /\ record[o].phase = "COMPLETED"}

(* The ledger implements OnceEffect for the operations that are read back. *)
ImplementsOnceEffect == Once!Spec
=============================================================================
