------------------------ MODULE MutationLedgerProofs ------------------------
(***************************************************************************)
(* MutationLedger, for any operations, any number of crashes and any       *)
(* length of a chain: what is read back happens at most once, what is      *)
(* called complete has happened, a completed record is final, and the      *)
(* ledger implements OnceEffect.                                           *)
(*                                                                         *)
(* The induction needs to know when an operation is still Untouched:       *)
(* whenever the ledger would let a worker act, no effect has happened and  *)
(* none is on its way.                                                     *)
(***************************************************************************)
EXTENDS MutationLedger, TLAPS

Untouched(o) == effects[o] = 0 /\ flight[o] # "flying"
Has(o, phases) == record[o] # NoRecord /\ record[o].phase \in phases

\* The chain, its worker and its dead letter fit together.
NodeFits(o) ==
  /\ pc[o] # "down" => In(o, {"ACTIVE"})
  /\ letter[o] # "none" => In(o, {"FAILED", "INDETERMINATE"})
  /\ chain[o] # <<>> /\ Latest(o) \notin Terminal => Len(chain[o]) <= MaxIndex

\* The record of o is bound to o, and a worker that acts has reserved it.
RecordFits(o) ==
  /\ record[o] # NoRecord => record[o].op = o /\ record[o].readBack = (o \in ReadBackOps)
  /\ pc[o] = "cleared" => Has(o, {"RESERVED"}) /\ seen[o] = "NOT_RUN"
  /\ pc[o] = "sent" => Has(o, {"RESERVED", "COMPLETED"}) /\ seen[o] = "NOT_RUN"

Happened(o) ==
  /\ flight[o] = "landed" => effects[o] >= 1
  /\ Has(o, {"COMPLETED"}) => effects[o] >= 1 /\ flight[o] # "flying"
  /\ In(o, {"COMPLETED"}) => effects[o] >= 1

OnceOnly(o) ==
  /\ effects[o] <= 1
  /\ flight[o] = "flying" => effects[o] = 0
  /\ record[o] = NoRecord => Untouched(o)
  /\ Has(o, {"FAILED_PRE_EFFECT"}) => Untouched(o)
  /\ pc[o] = "cleared" => Untouched(o)
  /\ seen[o] = "EFFECT_ABSENT" => Untouched(o)

IInv ==
  /\ TypeOK
  /\ \A o \in Ops : NodeFits(o) /\ RecordFits(o) /\ Happened(o)
  /\ \A o \in ReadBackOps : OnceOnly(o)

-----------------------------------------------------------------------------
(* The decision, and the transitions of a chain.                           *)

LEMMA MayAct ==
  ASSUME IInv, NEW o \in Ops, NEW p \in Ops,
         ResolveRetry(record[p], o, seen[o]) \in {"EXECUTE", "RETRY_SAFE"},
         p = o \/ record[p] # NoRecord
  PROVE  /\ p = o
         /\ ~Has(o, {"COMPLETED"})
         /\ o \in ReadBackOps => Untouched(o)
<1>1. p = o
  BY DEF IInv, RecordFits, ResolveRetry, BindingMatches
<1>2. CASE record[o] = NoRecord
  BY <1>1, <1>2 DEF IInv, OnceOnly, Has
<1>3. CASE record[o] # NoRecord
  <2>1. RecordFits(o)
    BY DEF IInv
  <2>2. record[o].phase # "COMPLETED"
    BY <1>1, <1>3, <2>1 DEF RecordFits, ResolveRetry, BindingMatches
  <2>3. o \in ReadBackOps =>
          record[o].phase = "FAILED_PRE_EFFECT" \/ seen[o] = "EFFECT_ABSENT"
    BY <1>1, <1>3, <2>1 DEF RecordFits, ResolveRetry, BindingMatches
  <2> QED BY <1>1, <1>3, <2>2, <2>3 DEF IInv, OnceOnly, Has
<1> QED BY <1>2, <1>3

LEMMA Replayed ==
  ASSUME IInv, NEW o \in Ops, NEW p \in Ops,
         ResolveRetry(record[p], o, seen[o]) = "REPLAY_RESULT",
         p = o \/ record[p] # NoRecord
  PROVE  effects[o] >= 1
BY DEF IInv, RecordFits, Happened, ResolveRetry, BindingMatches, Has

LEMMA Advance ==
  ASSUME IInv, NEW o \in Ops, NEW next \in State, chain[o] # <<>>, Transition(o, next)
  PROVE  /\ chain' \in [Ops -> Seq(State)]
         /\ \A q \in Ops : Len(chain'[q]) <= MaxIndex + 1
         /\ \A q \in Ops \ {o} : chain'[q] = chain[q]
         /\ chain'[o] # <<>>
         /\ chain'[o][Len(chain'[o])] = next
         /\ next \notin Terminal => Len(chain'[o]) <= MaxIndex
<1>1. Latest(o) \in State
  BY DEF IInv, TypeOK, Latest
<1>2. Latest(o) \notin Terminal
  BY <1>1 DEF Transition, Allowed, Terminal, State
<1>3. Len(chain[o]) <= MaxIndex
  BY <1>2 DEF IInv, NodeFits
<1>4. chain'[o] = Append(chain[o], next) /\ \A q \in Ops \ {o} : chain'[q] = chain[q]
  BY DEF Transition, IInv, TypeOK
<1>5. chain' \in [Ops -> Seq(State)]
  BY DEF Transition, IInv, TypeOK
<1>6. Len(chain'[o]) = Len(chain[o]) + 1 /\ chain'[o][Len(chain'[o])] = next
  BY <1>4 DEF IInv, TypeOK
<1>7. \A q \in Ops : Len(chain'[q]) <= MaxIndex + 1
  <2>1. \A q \in Ops \ {o} : Len(chain'[q]) <= MaxIndex + 1
    BY <1>4 DEF IInv, TypeOK
  <2>2. Len(chain'[o]) <= MaxIndex + 1
    BY <1>3, <1>6, BoundsAssumption DEF IInv, TypeOK
  <2> QED BY <2>1, <2>2
<1>8. next \notin Terminal => Len(chain'[o]) <= MaxIndex
  BY <1>3, <1>6, BoundsAssumption DEF Transition, IInv, TypeOK
<1> QED BY <1>4, <1>5, <1>6, <1>7, <1>8

\* A step that leaves the chains alone leaves their ends alone.
LEMMA SameChains ==
  ASSUME NEW o, NEW states, chain' = chain
  PROVE  /\ In(o, states)' <=> In(o, states)
         /\ Latest(o)' = Latest(o)
BY DEF In, Latest

-----------------------------------------------------------------------------
LEMMA Initially == Init => IInv
BY OpsAssumption, BoundsAssumption
DEF Init, IInv, TypeOK, NodeFits, RecordFits, Happened, OnceOnly, Untouched, Has, In,
    Letter, Worker, ReadBackOutcome, Flight

LEMMA StutteringKeeps == ASSUME IInv, UNCHANGED vars PROVE IInv'
BY DEF vars, stored, service, IInv, TypeOK, NodeFits, RecordFits, Happened, OnceOnly,
       Untouched, Has, In, Latest

LEMMA StartKeeps == ASSUME IInv, NEW o \in Ops, Start(o) PROVE IInv'
<1>1. /\ chain'[o] = <<"PLANNED">> /\ chain' \in [Ops -> Seq(State)]
      /\ \A q \in Ops \ {o} : chain'[q] = chain[q]
  BY DEF Start, IInv, TypeOK, State
<1>2. TypeOK'
  BY <1>1, BoundsAssumption DEF Start, service, IInv, TypeOK
<1>3. \A q \in Ops : (NodeFits(q) /\ RecordFits(q) /\ Happened(q))'
  BY <1>1, BoundsAssumption
  DEF Start, service, IInv, TypeOK, NodeFits, RecordFits, Happened, Has, In, Latest,
         Terminal
<1>4. \A q \in ReadBackOps : OnceOnly(q)'
  BY DEF Start, service, IInv, OnceOnly, Untouched, Has
<1> QED BY <1>2, <1>3, <1>4 DEF IInv

LEMMA ReadBackKeeps == ASSUME IInv, NEW o \in Ops, ReadBack(o) PROVE IInv'
<1>1. TypeOK'
  BY DEF ReadBack, Asks, Hold, SentItemReadBack, ReadBackOutcome, stored, service, IInv,
         TypeOK
<1>2. \A q \in Ops : NodeFits(q)'
  BY DEF ReadBack, Asks, Hold, SentItemReadBack, ReadBackOutcome, stored, service, IInv,
         TypeOK, NodeFits, In, Latest
<1>3. \A q \in Ops : RecordFits(q)'
  BY DEF ReadBack, Asks, Hold, SentItemReadBack, ReadBackOutcome, stored, service, IInv,
         TypeOK, RecordFits, Has, Records
<1>4. \A q \in Ops : Happened(q)'
  BY DEF ReadBack, Asks, Hold, SentItemReadBack, ReadBackOutcome, stored, service, IInv,
         TypeOK, RecordFits, Happened, Has, In, Latest
<1>5. \A q \in ReadBackOps : OnceOnly(q)'
  BY OpsAssumption
     DEF ReadBack, Asks, Hold, SentItemReadBack, ReadBackOutcome, stored, service, IInv,
         TypeOK, RecordFits, Happened, OnceOnly, Untouched, Has
<1> QED BY <1>1, <1>2, <1>3, <1>4, <1>5 DEF IInv

LEMMA SendKeeps == ASSUME IInv, NEW o \in Ops, Send(o) PROVE IInv'
<1>1. TypeOK'
  BY DEF Send, Goto, Worker, Flight, stored, service, IInv, TypeOK
<1>2. \A q \in Ops : NodeFits(q)'
  BY DEF Send, Goto, Worker, Flight, stored, service, IInv, TypeOK, NodeFits, In, Latest
<1>3. \A q \in Ops : RecordFits(q)'
  BY DEF Send, Goto, Worker, Flight, stored, service, IInv, TypeOK, RecordFits, Has, Records
<1>4. \A q \in Ops : Happened(q)'
  BY DEF Send, Goto, Worker, Flight, stored, service, IInv, TypeOK, RecordFits, Happened,
         Has, In, Latest
<1>5. \A q \in ReadBackOps : OnceOnly(q)'
  BY OpsAssumption
     DEF Send, Goto, Worker, Flight, stored, service, IInv, TypeOK, RecordFits, Happened,
         OnceOnly, Untouched, Has
<1> QED BY <1>1, <1>2, <1>3, <1>4, <1>5 DEF IInv

LEMMA LandKeeps == ASSUME IInv, NEW o \in Ops, Land(o) PROVE IInv'
<1>1. TypeOK'
  BY DEF Land, Flight, stored, service, IInv, TypeOK
<1>2. \A q \in Ops : NodeFits(q)'
  BY DEF Land, Flight, stored, service, IInv, TypeOK, NodeFits, In, Latest
<1>3. \A q \in Ops : RecordFits(q)'
  BY DEF Land, Flight, stored, service, IInv, TypeOK, RecordFits, Has, Records
<1>4. \A q \in Ops : Happened(q)'
  BY DEF Land, Flight, stored, service, IInv, TypeOK, RecordFits, Happened, Has, In, Latest
<1>5. \A q \in ReadBackOps : OnceOnly(q)'
  BY OpsAssumption
     DEF Land, Flight, stored, service, IInv, TypeOK, RecordFits, Happened, OnceOnly,
         Untouched, Has
<1> QED BY <1>1, <1>2, <1>3, <1>4, <1>5 DEF IInv

LEMMA LoseKeeps == ASSUME IInv, NEW o \in Ops, Lose(o) PROVE IInv'
<1>1. TypeOK'
  BY DEF Lose, Flight, stored, service, IInv, TypeOK
<1>2. \A q \in Ops : NodeFits(q)'
  BY DEF Lose, Flight, stored, service, IInv, TypeOK, NodeFits, In, Latest
<1>3. \A q \in Ops : RecordFits(q)'
  BY DEF Lose, Flight, stored, service, IInv, TypeOK, RecordFits, Has, Records
<1>4. \A q \in Ops : Happened(q)'
  BY DEF Lose, Flight, stored, service, IInv, TypeOK, RecordFits, Happened, Has, In, Latest
<1>5. \A q \in ReadBackOps : OnceOnly(q)'
  BY OpsAssumption
     DEF Lose, Flight, stored, service, IInv, TypeOK, RecordFits, Happened, OnceOnly,
         Untouched, Has
<1> QED BY <1>1, <1>2, <1>3, <1>4, <1>5 DEF IInv

LEMMA Marked ==
  ASSUME IInv, NEW o \in Ops, NEW phase \in Phase, record[o] # NoRecord,
         Store(o, Mark(record[o], phase))
  PROVE  /\ record' \in [Ops -> Records \union {NoRecord}]
         /\ \A q \in Ops \ {o} : record'[q] = record[q]
         /\ record'[o] # NoRecord
         /\ record'[o].phase = phase
         /\ record'[o].op = record[o].op
         /\ record'[o].readBack = record[o].readBack
<1>1. record[o] \in Records
  BY DEF IInv, TypeOK
<1>2. PICK op \in Ops, ph \in Phase, rb \in BOOLEAN :
        record[o] = [op |-> op, phase |-> ph, readBack |-> rb]
  BY <1>1 DEF Records
<1>3. Mark(record[o], phase) = [op |-> op, phase |-> phase, readBack |-> rb]
  BY <1>2 DEF Mark
<1>4. [op |-> op, phase |-> phase, readBack |-> rb] \in Records
  BY Zenon DEF Records
<1>5. Mark(record[o], phase) \in Records
  BY <1>3, <1>4
<1>6. record' = [record EXCEPT ![o] = Mark(record[o], phase)]
  BY DEF Store
<1>7. record'[o] = Mark(record[o], phase) /\ \A q \in Ops \ {o} : record'[q] = record[q]
  BY <1>6 DEF IInv, TypeOK
<1>8. record' \in [Ops -> Records \union {NoRecord}]
  BY <1>5, <1>6 DEF IInv, TypeOK
<1> QED BY <1>2, <1>3, <1>5, <1>7, <1>8, NoRecordAssumption

LEMMA AssociateResultKeeps == ASSUME IInv, NEW o \in Ops, AssociateResult(o) PROVE IInv'
<1>1. record[o] # NoRecord
  BY DEF AssociateResult, IInv, RecordFits, Has
<1>2. /\ record' \in [Ops -> Records \union {NoRecord}]
      /\ \A q \in Ops \ {o} : record'[q] = record[q]
      /\ record'[o] # NoRecord
      /\ record'[o].phase = "COMPLETED"
      /\ record'[o].op = record[o].op
      /\ record'[o].readBack = record[o].readBack
  BY <1>1, Marked DEF AssociateResult, Phase
<1>3. TypeOK'
  BY <1>2 DEF AssociateResult, service, IInv, TypeOK
<1>4. \A q \in Ops : NodeFits(q)'
  BY <1>2 DEF AssociateResult, service, IInv, TypeOK, NodeFits, In, Latest
<1>5. \A q \in Ops : RecordFits(q)'
  <2>1. RecordFits(o)'
    BY <1>1, <1>2 DEF AssociateResult, IInv, RecordFits, Has
  <2>2. \A q \in Ops \ {o} : RecordFits(q)'
    BY <1>2 DEF AssociateResult, IInv, RecordFits, Has
  <2> QED BY <2>1, <2>2
<1>6. \A q \in Ops : Happened(q)'
  BY <1>1, <1>2
     DEF AssociateResult, service, IInv, TypeOK, RecordFits, Happened, Has, In, Latest
<1>7. \A q \in ReadBackOps : OnceOnly(q)'
  BY <1>1, <1>2, OpsAssumption
  DEF AssociateResult, service, IInv, TypeOK, RecordFits, Happened, OnceOnly, Untouched, Has
<1> QED BY <1>3, <1>4, <1>5, <1>6, <1>7 DEF IInv

LEMMA TimeOutKeeps == ASSUME IInv, NEW o \in Ops, TimeOut(o) PROVE IInv'
<1>1. record[o] # NoRecord
  BY DEF TimeOut, IInv, RecordFits, Has
<1>2. /\ record' \in [Ops -> Records \union {NoRecord}]
      /\ \A q \in Ops \ {o} : record'[q] = record[q]
      /\ record'[o] # NoRecord
      /\ record'[o].phase = "EFFECT_UNVERIFIED"
      /\ record'[o].op = record[o].op
      /\ record'[o].readBack = record[o].readBack
  BY <1>1, Marked DEF TimeOut, Phase
<1>3. TypeOK'
  BY <1>2 DEF TimeOut, Goto, Worker, service, IInv, TypeOK
<1>4. \A q \in Ops : NodeFits(q)'
  BY <1>2 DEF TimeOut, Goto, Worker, service, IInv, TypeOK, NodeFits, In, Latest
<1>5. \A q \in Ops : RecordFits(q)'
  BY <1>1, <1>2 DEF TimeOut, Goto, Worker, service, IInv, TypeOK, RecordFits, Has
<1>6. \A q \in Ops : Happened(q)'
  BY <1>1, <1>2
     DEF TimeOut, Goto, Worker, service, IInv, TypeOK, RecordFits, Happened, Has, In,
         Latest
<1>7. \A q \in ReadBackOps : OnceOnly(q)'
  BY <1>1, <1>2, OpsAssumption
  DEF TimeOut, Goto, Worker, service, IInv, TypeOK, RecordFits, Happened, OnceOnly,
         Untouched, Has
<1> QED BY <1>3, <1>4, <1>5, <1>6, <1>7 DEF IInv

LEMMA FailBeforeEffectKeeps == ASSUME IInv, NEW o \in Ops, FailBeforeEffect(o) PROVE IInv'
<1>1. record[o] # NoRecord
  BY DEF FailBeforeEffect, IInv, RecordFits, Has
<1>2. /\ record' \in [Ops -> Records \union {NoRecord}]
      /\ \A q \in Ops \ {o} : record'[q] = record[q]
      /\ record'[o] # NoRecord
      /\ record'[o].phase = "FAILED_PRE_EFFECT"
      /\ record'[o].op = record[o].op
      /\ record'[o].readBack = record[o].readBack
  BY <1>1, Marked DEF FailBeforeEffect, Phase
<1>c. PICK next \in {"CHECKPOINTED", "FAILED"} : Transition(o, next)
  BY DEF FailBeforeEffect
<1>d. chain[o] # <<>>
  BY DEF FailBeforeEffect, IInv, NodeFits, In
<1>e. next \in State /\ next # "COMPLETED"
  BY DEF State
<1>f. /\ chain' \in [Ops -> Seq(State)]
      /\ \A q \in Ops : Len(chain'[q]) <= MaxIndex + 1
      /\ \A q \in Ops \ {o} : chain'[q] = chain[q]
      /\ chain'[o] # <<>>
      /\ chain'[o][Len(chain'[o])] = next
      /\ next \notin Terminal => Len(chain'[o]) <= MaxIndex
  BY <1>c, <1>d, <1>e, Advance
<1>g. letter[o] = "none"
  BY DEF FailBeforeEffect, IInv, NodeFits, In
<1>3. TypeOK'
  BY <1>2, <1>f, <1>e, <1>g DEF FailBeforeEffect, Goto, Worker, service, IInv, TypeOK
<1>4. \A q \in Ops : NodeFits(q)'
  BY <1>2, <1>f, <1>e, <1>g
     DEF FailBeforeEffect, Goto, Worker, service, IInv, TypeOK, NodeFits, In, Latest
<1>5. \A q \in Ops : RecordFits(q)'
  BY <1>1, <1>2 DEF FailBeforeEffect, Goto, Worker, service, IInv, TypeOK, RecordFits, Has
<1>6. \A q \in Ops : Happened(q)'
  BY <1>1, <1>2, <1>f, <1>e, <1>g
     DEF FailBeforeEffect, Goto, Worker, service, IInv, TypeOK, RecordFits, Happened,
         Has, In, Latest
<1>7. \A q \in ReadBackOps : OnceOnly(q)'
  BY <1>1, <1>2, OpsAssumption
  DEF FailBeforeEffect, Goto, Worker, service, IInv, TypeOK, RecordFits, Happened,
         OnceOnly, Untouched, Has
<1> QED BY <1>3, <1>4, <1>5, <1>6, <1>7 DEF IInv

LEMMA CrashKeeps == ASSUME IInv, NEW o \in Ops, Crash(o) PROVE IInv'
<1>1. TypeOK'
  BY BoundsAssumption
     DEF Crash, Goto, Hold, Worker, ReadBackOutcome, stored, service, IInv, TypeOK
<1>2. \A q \in Ops : NodeFits(q)'
  BY DEF Crash, Goto, Hold, Worker, ReadBackOutcome, stored, service, IInv, TypeOK,
         NodeFits, In, Latest
<1>3. \A q \in Ops : RecordFits(q)'
  BY DEF Crash, Goto, Hold, Worker, ReadBackOutcome, stored, service, IInv, TypeOK,
         RecordFits, Has, Records
<1>4. \A q \in Ops : Happened(q)'
  BY DEF Crash, Goto, Hold, Worker, ReadBackOutcome, stored, service, IInv, TypeOK,
         RecordFits, Happened, Has, In, Latest
<1>5. \A q \in ReadBackOps : OnceOnly(q)'
  BY OpsAssumption
     DEF Crash, Goto, Hold, Worker, ReadBackOutcome, stored, service, IInv, TypeOK,
         RecordFits, Happened, OnceOnly, Untouched, Has
<1> QED BY <1>1, <1>2, <1>3, <1>4, <1>5 DEF IInv

LEMMA DeadLetterKeeps == ASSUME IInv, NEW o \in Ops, DeadLetter(o) PROVE IInv'
<1>1. TypeOK'
  BY DEF DeadLetter, Letter, stored, service, IInv, TypeOK
<1>2. \A q \in Ops : NodeFits(q)'
  BY DEF DeadLetter, Letter, stored, service, IInv, TypeOK, NodeFits, In, Latest
<1>3. \A q \in Ops : RecordFits(q)'
  BY DEF DeadLetter, Letter, stored, service, IInv, TypeOK, RecordFits, Has, Records
<1>4. \A q \in Ops : Happened(q)'
  BY DEF DeadLetter, Letter, stored, service, IInv, TypeOK, RecordFits, Happened, Has,
         In, Latest
<1>5. \A q \in ReadBackOps : OnceOnly(q)'
  BY OpsAssumption
     DEF DeadLetter, Letter, stored, service, IInv, TypeOK, RecordFits, Happened,
         OnceOnly, Untouched, Has
<1> QED BY <1>1, <1>2, <1>3, <1>4, <1>5 DEF IInv

LEMMA DismissKeeps ==
  ASSUME IInv, NEW o \in Ops, NEW a \in {"SKIP", "ABORT"}, Dismiss(o, a)
  PROVE  IInv'
<1>1. TypeOK'
  BY DEF Dismiss, Letter, stored, service, IInv, TypeOK
<1>2. \A q \in Ops : NodeFits(q)'
  BY DEF Dismiss, Letter, stored, service, IInv, TypeOK, NodeFits, In, Latest
<1>3. \A q \in Ops : RecordFits(q)'
  BY DEF Dismiss, Letter, stored, service, IInv, TypeOK, RecordFits, Has, Records
<1>4. \A q \in Ops : Happened(q)'
  BY DEF Dismiss, Letter, stored, service, IInv, TypeOK, RecordFits, Happened, Has, In,
         Latest
<1>5. \A q \in ReadBackOps : OnceOnly(q)'
  BY OpsAssumption
     DEF Dismiss, Letter, stored, service, IInv, TypeOK, RecordFits, Happened, OnceOnly,
         Untouched, Has
<1> QED BY <1>1, <1>2, <1>3, <1>4, <1>5 DEF IInv

LEMMA TakeUpKeeps == ASSUME IInv, NEW o \in Ops, TakeUp(o) PROVE IInv'
<1>1. chain[o] # <<>> /\ "ACTIVE" \in State /\ Transition(o, "ACTIVE")
  BY DEF TakeUp, ValidChain, State
<1>2. /\ chain' \in [Ops -> Seq(State)]
      /\ \A q \in Ops : Len(chain'[q]) <= MaxIndex + 1
      /\ \A q \in Ops \ {o} : chain'[q] = chain[q]
      /\ chain'[o] # <<>>
      /\ chain'[o][Len(chain'[o])] = "ACTIVE"
      /\ "ACTIVE" \notin Terminal => Len(chain'[o]) <= MaxIndex
  BY <1>1, Advance
<1>3. letter[o] = "none"
  BY DEF TakeUp, ResumeState, IInv, NodeFits, In, Terminal
<1>4. TypeOK'
  BY <1>2 DEF TakeUp, Goto, Worker, service, IInv, TypeOK
<1>5. \A q \in Ops : NodeFits(q)'
  BY <1>2, <1>3 DEF TakeUp, Goto, service, IInv, TypeOK, NodeFits, In, Latest, Terminal
<1>6. \A q \in Ops : RecordFits(q)'
  BY DEF TakeUp, Goto, service, IInv, TypeOK, RecordFits, Has
<1>7. \A q \in Ops : Happened(q)'
  BY <1>2 DEF TakeUp, Goto, service, IInv, TypeOK, Happened, Has, In, Latest
<1>8. \A q \in ReadBackOps : OnceOnly(q)'
  BY OpsAssumption DEF TakeUp, Goto, service, IInv, TypeOK, OnceOnly, Untouched, Has
<1> QED BY <1>4, <1>5, <1>6, <1>7, <1>8 DEF IInv

LEMMA GiveUpKeeps == ASSUME IInv, NEW o \in Ops, GiveUp(o) PROVE IInv'
<1>1. chain[o] # <<>> /\ "INDETERMINATE" \in State /\ Transition(o, "INDETERMINATE")
  BY DEF GiveUp, In, State
<1>2. /\ chain' \in [Ops -> Seq(State)]
      /\ \A q \in Ops : Len(chain'[q]) <= MaxIndex + 1
      /\ \A q \in Ops \ {o} : chain'[q] = chain[q]
      /\ chain'[o] # <<>>
      /\ chain'[o][Len(chain'[o])] = "INDETERMINATE"
  BY <1>1, Advance
<1>4. TypeOK'
  BY <1>2 DEF GiveUp, service, IInv, TypeOK
<1>5. \A q \in Ops : NodeFits(q)'
  <2>1. pc'[o] = "down"
    BY DEF GiveUp, IInv, TypeOK
  <2>2. NodeFits(o)'
    BY <1>2, <2>1 DEF NodeFits, In, Latest, Terminal
  <2>3. \A q \in Ops \ {o} : NodeFits(q)'
    BY <1>2 DEF GiveUp, IInv, NodeFits, In, Latest
  <2> QED BY <2>2, <2>3
<1>6. \A q \in Ops : RecordFits(q)'
  BY DEF GiveUp, service, IInv, TypeOK, RecordFits, Has
<1>7. \A q \in Ops : Happened(q)'
  BY <1>2 DEF GiveUp, service, IInv, TypeOK, Happened, Has, In, Latest
<1>8. \A q \in ReadBackOps : OnceOnly(q)'
  BY OpsAssumption DEF GiveUp, service, IInv, TypeOK, OnceOnly, Untouched, Has
<1> QED BY <1>4, <1>5, <1>6, <1>7, <1>8 DEF IInv

LEMMA ReserveKeeps == ASSUME IInv, NEW o \in Ops, NEW p \in Ops, Reserve(o, p) PROVE IInv'
<1>1. /\ p = o
      /\ ~Has(o, {"COMPLETED"})
      /\ o \in ReadBackOps => Untouched(o)
  BY MayAct DEF Reserve, Asks
<1>2. ReserveOperation(o) \in Records
  <2>1. (o \in ReadBackOps) \in BOOLEAN /\ "RESERVED" \in Phase
    BY DEF Phase
  <2> QED BY <2>1, Zenon DEF ReserveOperation, Records
<1>3. /\ record' \in [Ops -> Records \union {NoRecord}]
      /\ \A q \in Ops \ {o} : record'[q] = record[q]
      /\ record'[o] = ReserveOperation(o)
  BY <1>2 DEF Reserve, Store, IInv, TypeOK
<1>4. record'[o] # NoRecord
  BY <1>2, <1>3, NoRecordAssumption
<1>5. /\ record'[o].op = o
      /\ record'[o].readBack = (o \in ReadBackOps)
      /\ record'[o].phase = "RESERVED"
  BY <1>3 DEF ReserveOperation
<1>6. TypeOK'
  BY <1>3 DEF Reserve, Goto, Hold, Worker, ReadBackOutcome, service, IInv, TypeOK
<1>7. \A q \in Ops : NodeFits(q)'
  BY DEF Reserve, Asks, Goto, service, IInv, TypeOK, NodeFits, In, Latest
<1>8. \A q \in Ops : RecordFits(q)'
  BY <1>3, <1>4, <1>5 DEF Reserve, Goto, Hold, IInv, TypeOK, RecordFits, Has
<1>9. \A q \in Ops : Happened(q)'
  BY <1>3, <1>5 DEF Reserve, service, IInv, TypeOK, Happened, Has, In, Latest
<1>10. \A q \in ReadBackOps : OnceOnly(q)'
  BY <1>1, <1>3, <1>4, <1>5, OpsAssumption
  DEF Reserve, Goto, Hold, service, IInv, TypeOK, OnceOnly, Untouched, Has
<1> QED BY <1>6, <1>7, <1>8, <1>9, <1>10 DEF IInv

LEMMA ConcludeKeeps == ASSUME IInv, NEW o \in Ops, NEW p \in Ops, Conclude(o, p) PROVE IInv'
<1>1. PICK next \in {"COMPLETED", "FAILED", "INDETERMINATE"} :
        /\ Transition(o, next)
        /\ next = "COMPLETED" => Asks(o, p, "REPLAY_RESULT")
  BY DEF Conclude
<1>2. In(o, {"ACTIVE"}) /\ (p = o \/ record[p] # NoRecord)
  BY DEF Conclude, Asks
<1>3. next = "COMPLETED" => effects[o] >= 1
  BY <1>1, <1>2, Replayed DEF Asks
<1>4. chain[o] # <<>> /\ next \in State
  BY <1>2 DEF In, State
<1>5. /\ chain' \in [Ops -> Seq(State)]
      /\ \A q \in Ops : Len(chain'[q]) <= MaxIndex + 1
      /\ \A q \in Ops \ {o} : chain'[q] = chain[q]
      /\ chain'[o] # <<>>
      /\ chain'[o][Len(chain'[o])] = next
  BY <1>1, <1>4, Advance
<1>6. letter[o] = "none"
  BY <1>2 DEF IInv, NodeFits, In
<1>7. TypeOK'
  BY <1>5 DEF Conclude, Goto, Hold, Worker, ReadBackOutcome, service, IInv, TypeOK
<1>8. \A q \in Ops : NodeFits(q)'
  BY <1>5, <1>6 DEF Conclude, Goto, service, IInv, TypeOK, NodeFits, In, Latest, Terminal
<1>9. \A q \in Ops : RecordFits(q)'
  BY DEF Conclude, Goto, Hold, IInv, TypeOK, RecordFits, Has
<1>10. \A q \in Ops : Happened(q)'
  BY <1>3, <1>5 DEF Conclude, service, IInv, TypeOK, Happened, Has, In, Latest
<1>11. \A q \in ReadBackOps : OnceOnly(q)'
  BY OpsAssumption DEF Conclude, Goto, Hold, service, IInv, TypeOK, OnceOnly, Untouched, Has
<1> QED BY <1>7, <1>8, <1>9, <1>10, <1>11 DEF IInv

LEMMA FinishNodeKeeps == ASSUME IInv, NEW o \in Ops, FinishNode(o) PROVE IInv'
<1>1. /\ chain[o] # <<>> /\ "COMPLETED" \in State /\ Transition(o, "COMPLETED")
      /\ letter[o] = "none"
  BY DEF FinishNode, IInv, NodeFits, In, State
<1>2. /\ chain' \in [Ops -> Seq(State)]
      /\ \A q \in Ops : Len(chain'[q]) <= MaxIndex + 1
      /\ \A q \in Ops \ {o} : chain'[q] = chain[q]
      /\ chain'[o] # <<>>
      /\ chain'[o][Len(chain'[o])] = "COMPLETED"
  BY <1>1, Advance
<1>3. effects[o] >= 1
  BY DEF FinishNode, IInv, RecordFits, Happened, Has
<1>4. TypeOK'
  BY <1>2 DEF FinishNode, Goto, Worker, service, IInv, TypeOK
<1>5. \A q \in Ops : NodeFits(q)'
  BY <1>1, <1>2 DEF FinishNode, Goto, service, IInv, TypeOK, NodeFits, In, Latest, Terminal
<1>6. \A q \in Ops : RecordFits(q)'
  BY DEF FinishNode, Goto, IInv, TypeOK, RecordFits, Has
<1>7. \A q \in Ops : Happened(q)'
  BY <1>2, <1>3 DEF FinishNode, service, IInv, TypeOK, Happened, Has, In, Latest
<1>8. \A q \in ReadBackOps : OnceOnly(q)'
  BY OpsAssumption DEF FinishNode, Goto, service, IInv, TypeOK, OnceOnly, Untouched, Has
<1> QED BY <1>4, <1>5, <1>6, <1>7, <1>8 DEF IInv

LEMMA RetryKeeps == ASSUME IInv, NEW o \in Ops, Retry(o) PROVE IInv'
<1>1. /\ chain' \in [Ops -> Seq(State)]
      /\ chain'[o] = <<"PLANNED">>
      /\ \A q \in Ops \ {o} : chain'[q] = chain[q]
  BY DEF Retry, IInv, TypeOK, State
<1>2. pc[o] = "down"
  BY DEF Retry, IInv, NodeFits, In
<1>3. TypeOK'
  BY <1>1, BoundsAssumption DEF Retry, Letter, service, IInv, TypeOK
<1>4. \A q \in Ops : NodeFits(q)'
  BY <1>1, <1>2, BoundsAssumption
     DEF Retry, service, IInv, TypeOK, NodeFits, In, Latest, Terminal
<1>5. \A q \in Ops : RecordFits(q)'
  BY DEF Retry, service, IInv, TypeOK, RecordFits, Has
<1>6. \A q \in Ops : Happened(q)'
  BY <1>1 DEF Retry, service, IInv, TypeOK, Happened, Has, In, Latest
<1>7. \A q \in ReadBackOps : OnceOnly(q)'
  BY OpsAssumption DEF Retry, service, IInv, TypeOK, OnceOnly, Untouched, Has
<1> QED BY <1>3, <1>4, <1>5, <1>6, <1>7 DEF IInv

-----------------------------------------------------------------------------
LEMMA Inductive == IInv /\ [Next]_vars => IInv'
<1> SUFFICES ASSUME IInv, [Next]_vars PROVE IInv'
  OBVIOUS
<1>1. CASE UNCHANGED vars
  BY <1>1, StutteringKeeps
<1>2. CASE AllClosed
  BY <1>2, StutteringKeeps DEF AllClosed
<1>3. ASSUME NEW o \in Ops, Crash(o) PROVE IInv'
  BY <1>3, CrashKeeps
<1>4. ASSUME NEW o \in Ops, Step(o) PROVE IInv'
  <2>1. CASE Start(o)
    BY <2>1, StartKeeps
  <2>2. CASE TakeUp(o) \/ GiveUp(o)
    BY <2>2, TakeUpKeeps, GiveUpKeeps
  <2>3. CASE \E p \in Ops : Reserve(o, p) \/ Conclude(o, p)
    BY <2>3, ReserveKeeps, ConcludeKeeps
  <2>4. CASE ReadBack(o) \/ Send(o) \/ FailBeforeEffect(o)
    BY <2>4, ReadBackKeeps, SendKeeps, FailBeforeEffectKeeps
  <2>5. CASE AssociateResult(o) \/ FinishNode(o) \/ TimeOut(o)
    BY <2>5, AssociateResultKeeps, FinishNodeKeeps, TimeOutKeeps
  <2>6. CASE Land(o) \/ Lose(o)
    BY <2>6, LandKeeps, LoseKeeps
  <2>7. CASE DeadLetter(o) \/ Retry(o) \/ \E a \in {"SKIP", "ABORT"} : Dismiss(o, a)
    BY <2>7, DeadLetterKeeps, RetryKeeps, DismissKeeps
  <2> QED BY <1>4, <2>1, <2>2, <2>3, <2>4, <2>5, <2>6, <2>7 DEF Step
<1> QED BY <1>1, <1>2, <1>3, <1>4 DEF Next

THEOREM Invariant == Spec => []IInv
<1> QED BY Initially, Inductive, PTL DEF Spec

(* For any operations and any bounds every variable keeps its type, and a  *)
(* node holds no more checkpoints and attempts than they allow.            *)
THEOREM TypeCorrect == Spec => []TypeOK
<1>1. IInv => TypeOK
  BY DEF IInv
<1> QED BY <1>1, Invariant, PTL

(* Whatever crashes, lost answers, late landings and retries by hand come  *)
(* between, resolve_retry lets a read-back operation act at most once.     *)
THEOREM EffectsHappenOnce == Spec => []EffectOnce
<1>1. IInv => EffectOnce
  BY DEF IInv, OnceOnly, EffectOnce
<1> QED BY <1>1, Invariant, PTL

(* A record or a chain that says COMPLETED is of an effect that happened.  *)
THEOREM CompletedIsTrue == Spec => []CompletedHappened
<1>1. IInv => CompletedHappened
  BY DEF IInv, Happened, CompletedHappened, Has
<1> QED BY <1>1, Invariant, PTL

-----------------------------------------------------------------------------
(* What a step can do to an operation that has been recorded as complete.  *)

LEMMA CompletedStays ==
  ASSUME IInv, [Next]_vars, NEW q \in Ops, Has(q, {"COMPLETED"})
  PROVE  record'[q] = record[q] /\ effects'[q] = effects[q]
<1>0. flight[q] # "flying" /\ record[q] # NoRecord /\ record[q].phase = "COMPLETED"
  BY DEF IInv, Happened, Has
<1>1. CASE UNCHANGED vars \/ AllClosed
  BY <1>1 DEF AllClosed, vars
<1>2. ASSUME NEW o \in Ops, Crash(o) PROVE record' = record /\ effects' = effects
  BY <1>2 DEF Crash, stored, service
<1>3. ASSUME NEW o \in Ops, NEW p \in Ops, Reserve(o, p)
      PROVE  record'[q] = record[q] /\ effects'[q] = effects[q]
  <2>1. ~Has(o, {"COMPLETED"})
    BY <1>3, MayAct DEF Reserve, Asks
  <2>2. o # q
    BY <2>1
  <2> QED BY <1>3, <2>2 DEF Reserve, Store, service, IInv, TypeOK
<1>4. ASSUME NEW o \in Ops, AssociateResult(o) \/ TimeOut(o) \/ FailBeforeEffect(o)
      PROVE  record'[q] = record[q] /\ effects'[q] = effects[q]
  <2>1. o # q
    BY <1>0, <1>4 DEF AssociateResult, TimeOut, FailBeforeEffect
  <2> QED BY <1>4, <2>1 DEF AssociateResult, TimeOut, FailBeforeEffect, Store, service, IInv, TypeOK
<1>5. ASSUME NEW o \in Ops, Land(o)
      PROVE  record'[q] = record[q] /\ effects'[q] = effects[q]
  BY <1>0, <1>5 DEF Land, stored, IInv, TypeOK
<1>6. ASSUME NEW o \in Ops, Step(o)
      PROVE  record'[q] = record[q] /\ effects'[q] = effects[q]
  <2>1. CASE Start(o) \/ TakeUp(o) \/ GiveUp(o)
    BY <2>1 DEF Start, TakeUp, GiveUp, service
  <2>2. CASE \E p \in Ops : Reserve(o, p) \/ Conclude(o, p)
    BY <2>2, <1>3 DEF Conclude, service
  <2>3. CASE ReadBack(o) \/ Send(o) \/ FinishNode(o) \/ Lose(o)
    BY <2>3 DEF ReadBack, Send, FinishNode, Lose, stored, service
  <2>4. CASE FailBeforeEffect(o) \/ AssociateResult(o) \/ TimeOut(o)
    BY <2>4, <1>4
  <2>5. CASE Land(o)
    BY <2>5, <1>5
  <2>6. CASE DeadLetter(o) \/ Retry(o) \/ \E a \in {"SKIP", "ABORT"} : Dismiss(o, a)
    BY <2>6 DEF DeadLetter, Retry, Dismiss, service
  <2> QED BY <1>6, <2>1, <2>2, <2>3, <2>4, <2>5, <2>6 DEF Step
<1> QED BY <1>1, <1>2, <1>6 DEF Next

(* No step, a crash and a retry by hand included, touches a record that    *)
(* says COMPLETED, or repeats the effect it stands for.                    *)
THEOREM CompletedStaysFinal == Spec => CompletedIsFinal
<1>1. IInv /\ [Next]_vars => [\A o \in Ops :
        record[o] # NoRecord /\ record[o].phase = "COMPLETED"
          => record'[o] = record[o] /\ effects'[o] = effects[o]]_vars
  BY CompletedStays DEF Has
<1> QED BY <1>1, Invariant, PTL DEF Spec, CompletedIsFinal

-----------------------------------------------------------------------------
(* The refinement: landing is taking effect, recording it is completing,   *)
(* and no other step is seen.                                              *)

Times == [o \in ReadBackOps |-> effects[o]]
Completed == {o \in ReadBackOps : record[o] # NoRecord /\ record[o].phase = "COMPLETED"}

LEMMA Unseen ==
  ASSUME effects' = effects,
         \A q \in Ops : Has(q, {"COMPLETED"})' <=> Has(q, {"COMPLETED"})
  PROVE  Times' = Times /\ Completed' = Completed
BY OpsAssumption DEF Times, Completed, Has

LEMMA LandingTakesEffect ==
  ASSUME IInv, NEW o \in Ops, Land(o)
  PROVE  [Once!Next]_<<Times, Completed>>
<1>1. Completed' = Completed
  BY DEF Land, stored, Completed
<1>2. CASE o \in ReadBackOps
  <2>1. effects[o] = 0 /\ effects' = [effects EXCEPT ![o] = 1]
    <3>1. effects[o] = 0
      BY <1>2 DEF Land, IInv, OnceOnly
    <3>2. effects' = [effects EXCEPT ![o] = effects[o] + 1]
      BY DEF Land
    <3> QED BY <3>1, <3>2
  <2>2. Times[o] = 0 /\ Times' = [Times EXCEPT ![o] = 1]
    BY <1>2, <2>1, OpsAssumption DEF Times, IInv, TypeOK
  <2> QED BY <1>1, <1>2, <2>2 DEF Once!Next, Once!TakeEffect, Times, Completed
<1>3. CASE o \notin ReadBackOps
  <2>1. Times' = Times
    BY <1>3, OpsAssumption DEF Land, Times, IInv, TypeOK
  <2> QED BY <1>1, <2>1
<1> QED BY <1>2, <1>3

LEMMA AssociatingCompletes ==
  ASSUME IInv, NEW o \in Ops, AssociateResult(o)
  PROVE  [Once!Next]_<<Times, Completed>>
<1>1. Times' = Times
  BY DEF AssociateResult, service, Times
<1>2. record[o] # NoRecord /\ record[o].phase = "RESERVED" /\ effects[o] >= 1
  BY DEF AssociateResult, IInv, RecordFits, Happened, Has
<1>3. /\ \A q \in Ops \ {o} : record'[q] = record[q]
      /\ record'[o] # NoRecord
      /\ record'[o].phase = "COMPLETED"
  BY <1>2, Marked DEF AssociateResult, Phase
<1>4. CASE o \in ReadBackOps
  <2>1. Times[o] = 1
    BY <1>2, <1>4 DEF Times, IInv, OnceOnly, TypeOK
  <2>2. Completed' = Completed \union {o}
    BY <1>3, <1>4, OpsAssumption DEF Completed
  <2> QED BY <1>1, <1>4, <2>1, <2>2 DEF Once!Next, Once!Complete, Times, Completed
<1>5. CASE o \notin ReadBackOps
  <2>1. Completed' = Completed
    BY <1>3, <1>5, OpsAssumption DEF Completed
  <2> QED BY <1>1, <2>1
<1> QED BY <1>4, <1>5

LEMMA StepRefines ==
  ASSUME IInv, NEW o \in Ops, Step(o)
  PROVE  [Once!Next]_<<Times, Completed>>
<1>1. CASE Land(o) \/ AssociateResult(o)
  BY <1>1, LandingTakesEffect, AssociatingCompletes
<1>2. ASSUME effects' = effects,
             \A q \in Ops : Has(q, {"COMPLETED"})' <=> Has(q, {"COMPLETED"})
      PROVE  [Once!Next]_<<Times, Completed>>
  BY <1>2, Unseen
<1>3. ASSUME record' = record, effects' = effects PROVE [Once!Next]_<<Times, Completed>>
  BY <1>2, <1>3 DEF Has
<1>4. CASE TimeOut(o) \/ FailBeforeEffect(o)
  <2>1. record[o] # NoRecord /\ record[o].phase = "RESERVED"
    BY <1>4 DEF TimeOut, FailBeforeEffect, IInv, RecordFits, Has
  <2>2. PICK phase \in {"EFFECT_UNVERIFIED", "FAILED_PRE_EFFECT"} :
          Store(o, Mark(record[o], phase))
    BY <1>4 DEF TimeOut, FailBeforeEffect
  <2>3. /\ \A q \in Ops \ {o} : record'[q] = record[q]
        /\ record'[o].phase = phase
    BY <2>1, <2>2, Marked DEF Phase
  <2>4. effects' = effects
    BY <1>4 DEF TimeOut, FailBeforeEffect, service
  <2>5. \A q \in Ops : Has(q, {"COMPLETED"})' <=> Has(q, {"COMPLETED"})
    BY <2>1, <2>3 DEF Has
  <2> QED BY <1>2, <2>4, <2>5
<1>5. ASSUME NEW p \in Ops, Reserve(o, p) PROVE [Once!Next]_<<Times, Completed>>
  <2>1. ~Has(o, {"COMPLETED"})
    BY <1>5, MayAct DEF Reserve, Asks
  <2>2. /\ \A q \in Ops \ {o} : record'[q] = record[q]
        /\ record'[o] = ReserveOperation(o)
        /\ effects' = effects
    BY <1>5 DEF Reserve, Store, service, IInv, TypeOK
  <2>3. record'[o].phase = "RESERVED"
    BY <2>2 DEF ReserveOperation
  <2>4. \A q \in Ops : Has(q, {"COMPLETED"})' <=> Has(q, {"COMPLETED"})
    BY <2>1, <2>2, <2>3 DEF Has
  <2> QED BY <1>2, <2>2, <2>4
<1>6. CASE Start(o) \/ TakeUp(o) \/ GiveUp(o) \/ (\E p \in Ops : Conclude(o, p))
  BY <1>3, <1>6 DEF Start, TakeUp, GiveUp, Conclude, service
<1>7. CASE ReadBack(o) \/ Send(o) \/ FinishNode(o) \/ Lose(o)
  BY <1>3, <1>7 DEF ReadBack, Send, FinishNode, Lose, stored, service
<1>8. CASE DeadLetter(o) \/ Retry(o) \/ \E a \in {"SKIP", "ABORT"} : Dismiss(o, a)
  BY <1>3, <1>8 DEF DeadLetter, Retry, Dismiss, service
<1> QED BY <1>1, <1>4, <1>5, <1>6, <1>7, <1>8 DEF Step

(* The ledger implements OnceEffect for every operation it reads back:     *)
(* seen from outside, the only steps are one effect and its completion.    *)
THEOREM LedgerImplementsOnceEffect == Spec => ImplementsOnceEffect
<1>1. Init => Once!Init
  BY OpsAssumption DEF Init, Once!Init
<1>2. IInv /\ [Next]_vars => [Once!Next]_<<Times, Completed>>
  <2> SUFFICES ASSUME IInv, [Next]_vars PROVE [Once!Next]_<<Times, Completed>>
    OBVIOUS
  <2>1. CASE UNCHANGED vars \/ AllClosed
    BY <2>1 DEF AllClosed, vars, Times, Completed
  <2>2. CASE \E o \in Ops : Crash(o)
    BY <2>2 DEF Crash, stored, service, Times, Completed
  <2>3. CASE \E o \in Ops : Step(o)
    BY <2>3, StepRefines
  <2> QED BY <2>1, <2>2, <2>3 DEF Next
<1>3. IInv /\ [Next]_vars => [Once!Next]_(Once!vars)
  BY <1>2 DEF Once!vars, Times, Completed
<1> QED BY <1>1, <1>3, Invariant, PTL DEF Spec, ImplementsOnceEffect, Once!Spec
=============================================================================
