-------------------------- MODULE UIEvidenceProofs --------------------------
(***************************************************************************)
(* For any contract sets, fragments, capabilities and bounds: support and  *)
(* promotion rest on live evidence of the contract in force.               *)
(*                                                                         *)
(* The invariant says of every stored row what its verdict was reached on: *)
(* a HEALTHY row is of a live page that matched a fragment which the       *)
(* contract it names attests.  The rest is about the latest row: it exists, *)
(* it is the only one, and a row that is older or of another fragment does *)
(* not become it.                                                          *)
(***************************************************************************)
EXTENDS UIEvidence, WellFoundedInduction, TLAPS

HealthyRows ==
  \A i \in DOMAIN rows : rows[i].state = "HEALTHY" =>
    rows[i].seen /\ EffectivelyAttested(Contents[rows[i].contract][rows[i].fragment])

Inv == TypeOK /\ HealthyRows

-----------------------------------------------------------------------------
(* Verdicts.                                                               *)

LEMMA VerdictOf ==
  ASSUME NEW o \in Observation
  PROVE  /\ Evaluation(o).lifecycle \in LifecycleState
         /\ Evaluation(o).lifecycle = "HEALTHY" =>
              /\ o.bound /\ o.source = "LIVE_UI" /\ o.unique
              /\ EffectivelyAttested(Contents[o.contract][o.fragment])
         /\ Evaluation(o).decision = "PASSED" => Evaluation(o).lifecycle = "HEALTHY"
BY DEF Evaluation, Verdict, Review, LifecycleState

LEMMA DocumentsAreObservations == Documents \subseteq Observation
BY DEF Documents, Collected, Reported, Sketched

LEMMA RecordOf ==
  ASSUME NEW o \in Documents
  PROVE  /\ Record(o) \in EvidenceRecord
         /\ Record(o).state = "HEALTHY" =>
              /\ Record(o).seen
              /\ EffectivelyAttested(Contents[Record(o).contract][Record(o).fragment])
<1>1. o \in Observation
  BY DocumentsAreObservations
<1>2. /\ o.fragment \in Fragments /\ o.contract \in Revisions /\ o.at \in Instant
      /\ o.bound \in BOOLEAN /\ o.unique \in BOOLEAN
  BY <1>1 DEF Observation
<1> DEFINE live == o.source = "LIVE_UI" /\ o.bound /\ o.unique
<1>3. live \in BOOLEAN
  BY <1>2
<1>4. Record(o) = [fragment |-> o.fragment, contract |-> o.contract, at |-> o.at,
                   seen |-> live, state |-> Evaluation(o).lifecycle]
  BY DEF Record
<1>5. Evaluation(o).lifecycle \in LifecycleState
  BY <1>1, VerdictOf
<1> HIDE DEF live
<1>6. Record(o) \in EvidenceRecord
  BY <1>2, <1>3, <1>4, <1>5 DEF EvidenceRecord
<1>7. Evaluation(o).lifecycle = "HEALTHY" =>
        live /\ EffectivelyAttested(Contents[o.contract][o.fragment])
  BY <1>1, VerdictOf DEF live
<1> QED BY <1>4, <1>6, <1>7

-----------------------------------------------------------------------------
(* The invariant.                                                          *)

LEMMA Starts == Init => Inv
BY BoundsAssumption DEF Init, Inv, TypeOK, HealthyRows, LiveSupport

LEMMA PromotionIsTyped ==
  ASSUME support \in LiveSupport, NEW o, NEW g, NEW d
  PROVE  PromotionDecision(o, g, d) \in LiveSupport
BY DEF PromotionDecision, Invalid, LiveSupport

LEMMA StepKeeps == Inv /\ [Next]_vars => Inv'
<1> SUFFICES ASSUME Inv, [Next]_vars PROVE Inv'
  OBVIOUS
<1> USE DEF Inv
<1>1. CASE UNCHANGED vars
  BY <1>1 DEF vars, TypeOK, HealthyRows
<1>2. ASSUME NEW rev \in Revisions, Merge(rev) PROVE Inv'
  BY <1>2 DEF Merge, TypeOK, HealthyRows
<1>3. CASE Tick
  BY <1>3, BoundsAssumption DEF Tick, TypeOK, HealthyRows
<1>4. ASSUME NEW o \in Documents, Evaluate(o) PROVE Inv'
  <2>1. CASE rows' = rows
    BY <1>4, <2>1 DEF Evaluate, TypeOK, HealthyRows
  <2>2. CASE rows' = Append(rows, Record(o))
    <3> DEFINE rec == Record(o)
    <3>1. rec \in EvidenceRecord /\ rows \in Seq(EvidenceRecord)
      BY RecordOf DEF TypeOK
    <3>2. rec.state = "HEALTHY" =>
            rec.seen /\ EffectivelyAttested(Contents[rec.contract][rec.fragment])
      BY RecordOf
    <3> HIDE DEF rec
    <3>3. /\ rows' = Append(rows, rec) /\ rows' \in Seq(EvidenceRecord)
          /\ DOMAIN rows' = 1..(Len(rows) + 1) /\ DOMAIN rows = 1..Len(rows)
      BY <2>2, <3>1 DEF rec
    <3>4. ASSUME NEW i \in DOMAIN rows', rows'[i].state = "HEALTHY"
          PROVE  /\ rows'[i].seen
                 /\ EffectivelyAttested(Contents[rows'[i].contract][rows'[i].fragment])
      <4>1. CASE i = Len(rows) + 1
        <5>1. rows'[i] = rec
          BY <3>1, <3>3, <4>1
        <5> QED BY <3>2, <3>4, <5>1
      <4>2. CASE i \in DOMAIN rows
        <5>1. rows'[i] = rows[i]
          BY <3>1, <3>3, <4>2
        <5> QED BY <3>4, <4>2, <5>1 DEF HealthyRows
      <4> QED BY <3>1, <3>3, <4>1, <4>2
    <3>5. TypeOK'
      BY <1>4, <3>3 DEF Evaluate, TypeOK
    <3> QED BY <3>4, <3>5 DEF HealthyRows
  <2> QED BY <1>4, <2>1, <2>2 DEF Evaluate
<1>5. ASSUME NEW o, NEW g, NEW d, Promote(o, g, d) PROVE Inv'
  BY <1>5, PromotionIsTyped DEF Promote, TypeOK, HealthyRows
<1> QED BY <1>1, <1>2, <1>3, <1>4, <1>5 DEF Next

LEMMA Inductive == Spec => []Inv
BY Starts, StepKeeps, PTL DEF Spec

(* The store only ever holds records of the closed lifecycle states, and   *)
(* the reported support is one of the three live states.                   *)
THEOREM TypeCorrect == Spec => []TypeOK
<1>1. Inv => TypeOK
  BY DEF Inv
<1> QED BY <1>1, Inductive, PTL

-----------------------------------------------------------------------------
(* The latest row.                                                         *)

LEMMA Greatest ==
  ASSUME NEW b \in Nat, NEW S \in SUBSET (0..b), S # {}
  PROVE  \E x \in S : \A y \in S : y <= x
<1> DEFINE T == {b - x : x \in S}
           below == OpToRel(<, Nat)
<1>1. T \subseteq Nat /\ T # {}
  <2>1. \A x \in S : x \in 0..b
    OBVIOUS
  <2>2. \A x \in S : b - x \in Nat
    BY <2>1
  <2>3. T # {}
    <3>1. PICK x \in S : TRUE
      OBVIOUS
    <3> QED BY <3>1
  <2> QED BY <2>2, <2>3
<1>2. IsWellFoundedOn(below, Nat)
  BY NatLessThanWellFounded
<1>3. \A u, v \in Nat : u < v => <<u, v>> \in below
  BY DEF OpToRel
<1> HIDE DEF T, below
<1>4. PICK m \in T : \A y \in T : ~(<<y, m>> \in below)
  BY <1>1, <1>2, WFMin
<1>5. PICK x \in S : m = b - x
  BY DEF T
<1>6. ASSUME NEW y \in S PROVE y <= x
  <2>1. b - y \in T /\ b - y \in Nat /\ m \in Nat
    BY <1>1 DEF T
  <2>2. ~(b - y < m)
    BY <1>3, <1>4, <2>1
  <2> QED BY <1>5, <2>2
<1> QED BY <1>6

\* Later than every row of S, and the last appended among equals.
IsLatest(i, S, table) ==
  /\ i \in S
  /\ \A j \in S : table[j].at < table[i].at \/ (table[j].at = table[i].at /\ j <= i)

LEMMA RowOf ==
  ASSUME NEW table \in Seq(EvidenceRecord), NEW i \in DOMAIN table
  PROVE  i \in 1..Len(table) /\ table[i].at \in Instant
<1>1. i \in 1..Len(table)
  OBVIOUS
<1>2. table[i] \in EvidenceRecord
  BY <1>1
<1>3. \A r \in EvidenceRecord : r.at \in Instant
  BY DEF EvidenceRecord
<1> QED BY <1>1, <1>2, <1>3

LEMMA LatestExists ==
  ASSUME NEW table \in Seq(EvidenceRecord), NEW S \in SUBSET DOMAIN table, S # {}
  PROVE  \E i \in S : IsLatest(i, S, table)
<1> DEFINE at == {table[i].at : i \in S}
<1>1. \A i \in S : i \in 1..Len(table) /\ table[i].at \in Instant
  BY RowOf
<1>2. MaxClock + MaxSkew \in Nat /\ at \in SUBSET (0..(MaxClock + MaxSkew)) /\ at # {}
  BY <1>1, BoundsAssumption DEF Instant
<1> HIDE DEF at
<1>3. PICK last \in at : \A t \in at : t <= last
  BY <1>2, Greatest
<1> DEFINE lasts == {i \in S : table[i].at = last}
<1>4. lasts \in SUBSET (0..Len(table)) /\ Len(table) \in Nat /\ lasts # {}
  <2>1. \A i \in S : i \in 0..Len(table)
    BY <1>1
  <2>2. \E i \in S : table[i].at = last
    BY <1>3 DEF at
  <2> QED BY <2>1, <2>2
<1> HIDE DEF lasts
<1>5. PICK i \in lasts : \A j \in lasts : j <= i
  BY <1>4, Greatest
<1>6. i \in S /\ table[i].at = last
  BY <1>5 DEF lasts
<1>7. ASSUME NEW j \in S
      PROVE  table[j].at < table[i].at \/ (table[j].at = table[i].at /\ j <= i)
  <2>1. table[j].at \in at /\ table[j].at \in Int /\ last \in Int
    BY <1>1, <1>2, BoundsAssumption DEF at, Instant
  <2>2. table[j].at <= last
    BY <1>3, <2>1
  <2>3. CASE table[j].at = last
    BY <1>5, <1>6, <2>3 DEF lasts
  <2>4. table[j].at < last \/ table[j].at = last
    BY <2>1, <2>2
  <2> QED BY <1>6, <2>3, <2>4
<1> QED BY <1>6, <1>7 DEF IsLatest

LEMMA LatestIsUnique ==
  ASSUME NEW table \in Seq(EvidenceRecord), NEW S \in SUBSET DOMAIN table,
         NEW i, NEW k, IsLatest(i, S, table), IsLatest(k, S, table)
  PROVE  i = k
<1>1. \A j \in S : j \in 1..Len(table) /\ table[j].at \in Instant
  BY RowOf
<1>2. /\ i \in S /\ k \in S /\ i \in Int /\ k \in Int
      /\ table[i].at \in Int /\ table[k].at \in Int
  <2>1. i \in S /\ k \in S
    BY DEF IsLatest
  <2>2. \A t \in Instant : t \in Int
    BY BoundsAssumption DEF Instant
  <2> QED BY <1>1, <2>1, <2>2
<1>3. /\ table[k].at < table[i].at \/ (table[k].at = table[i].at /\ k <= i)
      /\ table[i].at < table[k].at \/ (table[i].at = table[k].at /\ i <= k)
  BY <1>2 DEF IsLatest
<1> QED BY <1>2, <1>3

LEMMA LatestIsLatest ==
  ASSUME TypeOK, NEW f, RowsFor(f) # {}
  PROVE  IsLatest(Latest(f), RowsFor(f), rows)
<1>1. RowsFor(f) \in SUBSET DOMAIN rows /\ rows \in Seq(EvidenceRecord)
  BY DEF RowsFor, TypeOK
<1>2. \E i \in RowsFor(f) : IsLatest(i, RowsFor(f), rows)
  BY <1>1, LatestExists
<1> QED BY <1>2 DEF IsLatest, Latest

-----------------------------------------------------------------------------
(* What a HEALTHY fragment rests on.                                       *)

LEMMA FreshnessOf ==
  ASSUME Inv, NEW f \in Fragments
  PROVE  /\ Freshness(f) \in LifecycleState
         /\ Freshness(f) = "HEALTHY" =>
              /\ RowsFor(f) # {}
              /\ rows[Latest(f)].state = "HEALTHY"
              /\ rows[Latest(f)].at <= clock /\ clock < rows[Latest(f)].at + MaxAge
<1>1. CASE RowsFor(f) = {}
  BY <1>1 DEF Freshness, LifecycleState
<1>2. CASE RowsFor(f) # {}
  <2> DEFINE row == rows[Latest(f)]
  <2>1. Latest(f) \in DOMAIN rows
    BY <1>2, LatestIsLatest DEF Inv, IsLatest, RowsFor
  <2>2. row \in EvidenceRecord
    BY <2>1 DEF Inv, TypeOK
  <2>3. row.state \in LifecycleState /\ row.at \in Instant
    BY <2>2 DEF EvidenceRecord
  <2>4. row.at \in Int /\ clock \in Int /\ MaxAge \in Int
    BY <2>3, BoundsAssumption DEF Instant, Inv, TypeOK
  <2>5. Freshness(f) = IF row.state # "HEALTHY" THEN row.state
                       ELSE IF row.at > clock THEN "RE_ATTESTATION_REQUIRED"
                       ELSE IF clock >= row.at + MaxAge THEN "STALE"
                       ELSE "HEALTHY"
    BY <1>2 DEF Freshness
  <2> HIDE DEF row
  <2>6. Freshness(f) \in LifecycleState
    BY <2>3, <2>5 DEF LifecycleState
  <2>7. Freshness(f) = "HEALTHY" =>
          row.state = "HEALTHY" /\ row.at <= clock /\ clock < row.at + MaxAge
    BY <2>4, <2>5
  <2> QED BY <1>2, <2>6, <2>7 DEF row
<1> QED BY <1>1, <1>2

\* Evidence calls no fragment healthy that the contract does not attest, so
\* the state of a dependency is one of the four.
LEMMA LifecycleOf ==
  ASSUME Inv, NEW f \in Fragments
  PROVE  LET state == Lifecycle(Contents[contract], Overlay, f)
         IN  /\ state \in LifecycleState
             /\ state = "HEALTHY" =>
                  EffectivelyAttested(Contents[contract][f]) /\ Freshness(f) = "HEALTHY"
<1>1. Overlay[f] = Freshness(f) /\ Freshness(f) \in LifecycleState
  BY FreshnessOf DEF Overlay
<1>2. Freshness(f) # None
  BY <1>1, NoneAssumption
<1>3. Freshness(f) = "HEALTHY" => EffectivelyAttested(Contents[contract][f])
  <2>1. HAVE Freshness(f) = "HEALTHY"
  <2>2. RowsFor(f) # {} /\ rows[Latest(f)].state = "HEALTHY"
    BY <2>1, FreshnessOf
  <2>3. Latest(f) \in RowsFor(f)
    BY <2>2, LatestIsLatest DEF Inv, IsLatest
  <2> QED BY <2>2, <2>3 DEF RowsFor, Inv, HealthyRows
<1>4. CASE Drifted(Contents[contract][f])
  BY <1>4 DEF Lifecycle, LifecycleState
<1>5. CASE ~Drifted(Contents[contract][f])
  BY <1>1, <1>2, <1>3, <1>5 DEF Lifecycle
<1> QED BY <1>4, <1>5

(* A capability is supported only while every fragment it names is         *)
(* attested and its newest evidence, of this contract and in its lifetime, *)
(* is of a live page that matched.                                         *)
THEOREM SupportRestsOnEvidence == Spec => []SupportIsWitnessed
<1>1. ASSUME Inv PROVE SupportIsWitnessed
  <2> SUFFICES ASSUME NEW c \in Capabilities, Needs[c] # {},
                      EffectiveState(c) = "READ_SUPPORTED", NEW f \in Needs[c]
               PROVE  /\ EffectivelyAttested(Contents[contract][f])
                      /\ \E i \in RowsFor(f) :
                           /\ rows[i].seen
                           /\ rows[i].at <= clock /\ clock < rows[i].at + MaxAge
                           /\ \A j \in RowsFor(f) :
                                rows[j].at > rows[i].at => rows[j].state = "HEALTHY"
    BY DEF SupportIsWitnessed
  <2> USE <1>1
  <2> DEFINE ui == Attestation(Contents[contract], Overlay, c)
             state(g) == Lifecycle(Contents[contract], Overlay, g)
  <2>1. ui \notin Degraded
    BY DEF EffectiveState, Effective, EffectiveRead, EffectiveOther, Degraded
  <2>2. \A g \in Needs[c] : g \in Fragments
    BY NeedsAssumption
  <2>3. \A g \in Needs[c] : state(g) \in LifecycleState
    BY <2>2, LifecycleOf
  <2>4. state(f) = "HEALTHY"
    <3>1. \A g \in Needs[c] : state(g) # "INVALID"
      BY <2>3 DEF LifecycleState
    <3> HIDE DEF state
    <3>2. ui = IF \E g \in Needs[c] : state(g) = "DRIFTED" THEN "DRIFTED"
               ELSE IF \E g \in Needs[c] : state(g) = "RE_ATTESTATION_REQUIRED"
                    THEN "RE_ATTESTATION_REQUIRED"
               ELSE IF \E g \in Needs[c] : state(g) = "STALE" THEN "STALE"
               ELSE IF \E g \in Needs[c] : ~EffectivelyAttested(Contents[contract][g])
                    THEN "UNATTESTED"
               ELSE "ATTESTED"
      BY <3>1 DEF Attestation, state
    <3> HIDE DEF ui
    <3> QED BY <2>1, <2>3, <3>2 DEF Degraded, LifecycleState
  <2>5. EffectivelyAttested(Contents[contract][f]) /\ Freshness(f) = "HEALTHY"
    BY <2>2, <2>4, LifecycleOf
  <2>6. /\ RowsFor(f) # {}
        /\ rows[Latest(f)].state = "HEALTHY"
        /\ rows[Latest(f)].at <= clock /\ clock < rows[Latest(f)].at + MaxAge
    BY <2>2, <2>5, FreshnessOf
  <2>7. IsLatest(Latest(f), RowsFor(f), rows)
    BY <2>6, LatestIsLatest DEF Inv
  <2>8. Latest(f) \in RowsFor(f) /\ rows[Latest(f)].seen
    BY <2>6, <2>7 DEF IsLatest, RowsFor, Inv, HealthyRows
  <2>9. ASSUME NEW j \in RowsFor(f), rows[j].at > rows[Latest(f)].at PROVE FALSE
    <3>1. /\ rows[j].at \in Int /\ rows[Latest(f)].at \in Int
      BY <2>8, RowOf, BoundsAssumption DEF RowsFor, Inv, TypeOK, Instant
    <3>2. rows[j].at < rows[Latest(f)].at \/ rows[j].at = rows[Latest(f)].at
      BY <2>7 DEF IsLatest
    <3> QED BY <2>9, <3>1, <3>2
  <2> QED BY <2>5, <2>6, <2>8, <2>9
<1> QED BY <1>1, Inductive, PTL

-----------------------------------------------------------------------------
(* What a step that appends a row leaves as it was.                        *)

\* Only an evaluation appends, and the new row is under the contract in force.
LEMMA AppendingStep ==
  ASSUME Inv, [Next]_vars, Appends
  PROVE  /\ contract' = contract /\ clock' = clock
         /\ rows \in Seq(EvidenceRecord) /\ rows' \in Seq(EvidenceRecord)
         /\ NewRow \in EvidenceRecord
         /\ DOMAIN rows = 1..Len(rows) /\ DOMAIN rows' = 1..(Len(rows) + 1)
         /\ Len(rows) \in Nat
         /\ \A i \in DOMAIN rows : rows'[i] = rows[i]
         /\ rows'[Len(rows) + 1] = NewRow
<1> USE DEF Inv, TypeOK
<1>1. Len(rows') # Len(rows)
  BY DEF Appends
<1>2. PICK o \in Documents : Evaluate(o)
  BY <1>1 DEF Next, vars, Merge, Tick, Promote
<1>3. rows' = Append(rows, Record(o)) /\ contract' = contract /\ clock' = clock
  BY <1>1, <1>2 DEF Evaluate
<1> DEFINE rec == Record(o)
<1>4. rec \in EvidenceRecord
  BY RecordOf
<1> HIDE DEF rec
<1>5. rows' = Append(rows, rec) /\ rows \in Seq(EvidenceRecord)
  BY <1>3 DEF rec
<1>6. /\ rows' \in Seq(EvidenceRecord) /\ Len(rows') = Len(rows) + 1 /\ Len(rows) \in Nat
      /\ \A i \in 1..Len(rows) : rows'[i] = rows[i]
      /\ rows'[Len(rows) + 1] = rec
  BY <1>4, <1>5
<1> QED BY <1>3, <1>4, <1>5, <1>6 DEF NewRow

\* A fragment keeps its latest row if the new one is not of that fragment or
\* is older than one it has.
LEMMA FreshnessKept ==
  ASSUME Inv, Inv', [Next]_vars, Appends, NEW f,
         NewRow.fragment = f => \E i \in RowsFor(f) : rows[i].at > NewRow.at
  PROVE  Freshness(f)' = Freshness(f)
<1> DEFINE new == Len(rows) + 1
<1>1. /\ contract' = contract /\ clock' = clock
      /\ rows \in Seq(EvidenceRecord) /\ rows' \in Seq(EvidenceRecord)
      /\ DOMAIN rows = 1..Len(rows) /\ DOMAIN rows' = 1..new
      /\ Len(rows) \in Nat
      /\ \A i \in DOMAIN rows : rows'[i] = rows[i]
      /\ rows'[new] = NewRow
  BY AppendingStep
<1>2. \A i \in DOMAIN rows' : i = new \/ i \in DOMAIN rows
  BY <1>1
<1>3. DOMAIN rows \subseteq DOMAIN rows' /\ new \notin DOMAIN rows
  BY <1>1
<1> HIDE DEF new
<1>4. RowsFor(f) \subseteq RowsFor(f)' /\ RowsFor(f)' \subseteq RowsFor(f) \union {new}
  BY <1>1, <1>2, <1>3 DEF RowsFor
<1>5. new \in RowsFor(f)' => \E i \in RowsFor(f) : rows[i].at > NewRow.at
  BY <1>1 DEF RowsFor
<1>6. RowsFor(f) = {} <=> RowsFor(f)' = {}
  BY <1>4, <1>5
<1>7. CASE RowsFor(f) = {}
  BY <1>6, <1>7 DEF Freshness
<1>8. CASE RowsFor(f) # {}
  <2>1. IsLatest(Latest(f), RowsFor(f), rows)
    BY <1>8, LatestIsLatest DEF Inv
  <2>2. \E i \in RowsFor(f)' : IsLatest(i, RowsFor(f)', rows')
    <3>1. RowsFor(f)' \in SUBSET DOMAIN rows'
      BY DEF RowsFor
    <3> QED BY <1>1, <1>6, <1>8, <3>1, LatestExists
  <2> DEFINE k == Latest(f)'
  <2>3. IsLatest(k, RowsFor(f)', rows')
    BY <2>2 DEF IsLatest, Latest
  <2>4. k # new
    <3>1. SUFFICES ASSUME k = new PROVE FALSE
      OBVIOUS
    <3>2. new \in RowsFor(f)'
      BY <2>3, <3>1 DEF IsLatest
    <3>3. PICK i \in RowsFor(f) : rows[i].at > NewRow.at
      BY <1>5, <3>2
    <3>4. i \in DOMAIN rows /\ i \in RowsFor(f)' /\ rows'[i] = rows[i]
      BY <1>1, <1>4, <3>3 DEF RowsFor
    <3>5. rows'[i].at < rows'[k].at \/ rows'[i].at = rows'[k].at
      BY <2>3, <3>4 DEF IsLatest
    <3>6. rows[i].at \in Instant /\ NewRow.at \in Instant
      BY <1>1, <3>4, RowOf, AppendingStep DEF EvidenceRecord
    <3>7. \A t \in Instant : t \in Int
      BY BoundsAssumption DEF Instant
    <3> QED BY <1>1, <3>1, <3>3, <3>4, <3>5, <3>6, <3>7
  <2>5. IsLatest(k, RowsFor(f), rows)
    <3>1. k \in RowsFor(f)
      BY <1>4, <2>3, <2>4 DEF IsLatest
    <3>2. \A j \in RowsFor(f) : j \in DOMAIN rows /\ j \in RowsFor(f)'
      BY <1>4 DEF RowsFor
    <3>3. \A j \in RowsFor(f) : rows'[j].at = rows[j].at
      BY <1>1, <3>2
    <3> HIDE DEF k
    <3> QED BY <2>3, <3>1, <3>2, <3>3 DEF IsLatest
  <2>6. k = Latest(f)
    <3>1. RowsFor(f) \in SUBSET DOMAIN rows
      BY DEF RowsFor
    <3> HIDE DEF k
    <3> QED BY <1>1, <2>1, <2>5, <3>1, LatestIsUnique
  <2>7. rows'[k] = rows[k]
    <3>1. k \in DOMAIN rows
      BY <2>5 DEF IsLatest, RowsFor
    <3> QED BY <1>1, <3>1
  <2>8. rows'[Latest(f)'] = rows[Latest(f)]
    BY <2>6, <2>7
  <2> QED BY <1>1, <1>6, <1>8, <2>8 DEF Freshness
<1> QED BY <1>7, <1>8

(* A document evaluated after newer evidence of its fragment does not      *)
(* change what any fragment is taken to be.                                *)
THEOREM LateEvidenceIsHarmless == Spec => OlderEvidenceChangesNothing
<1> DEFINE Claim == Appends /\ (\E i \in RowsFor(NewRow.fragment) : rows[i].at > NewRow.at)
                      => Overlay' = Overlay
<1>1. ASSUME Inv, Inv', [Next]_vars PROVE Claim
  <2> SUFFICES ASSUME Appends, \E i \in RowsFor(NewRow.fragment) : rows[i].at > NewRow.at
               PROVE  Overlay' = Overlay
    OBVIOUS
  <2>1. \A f \in Fragments : Freshness(f)' = Freshness(f)
    BY <1>1, FreshnessKept
  <2> QED BY <2>1 DEF Overlay
<1>2. Inv /\ Inv' /\ [Next]_vars => [Claim]_vars
  BY <1>1
<1>3. Spec => [][Next]_vars
  BY DEF Spec
<1> QED BY <1>2, <1>3, Inductive, PTL DEF OlderEvidenceChangesNothing

(* What a document says of one fragment reaches no capability that does    *)
(* not name that fragment.                                                 *)
THEOREM DegradationStaysInScope == Spec => DegradationIsScoped
<1> DEFINE Claim == Appends => \A c \in Capabilities :
                      NewRow.fragment \notin Needs[c] => EffectiveState(c)' = EffectiveState(c)
<1>1. ASSUME Inv, Inv', [Next]_vars PROVE Claim
  <2> SUFFICES ASSUME Appends, NEW c \in Capabilities, NewRow.fragment \notin Needs[c]
               PROVE  EffectiveState(c)' = EffectiveState(c)
    OBVIOUS
  <2>1. contract' = contract
    BY <1>1, AppendingStep
  <2>2. \A f \in Needs[c] : f \in Fragments /\ Freshness(f)' = Freshness(f)
    BY <1>1, FreshnessKept, NeedsAssumption
  <2>3. \A f \in Needs[c] : Overlay'[f] = Overlay[f]
    BY <2>2 DEF Overlay
  <2>4. \A f \in Needs[c] : Lifecycle(Contents[contract], Overlay', f)
                             = Lifecycle(Contents[contract], Overlay, f)
    BY <2>3 DEF Lifecycle
  <2>5. Attestation(Contents[contract], Overlay', c)
          = Attestation(Contents[contract], Overlay, c)
    BY <2>4 DEF Attestation
  <2> QED BY <2>1, <2>5 DEF EffectiveState
<1>2. Inv /\ Inv' /\ [Next]_vars => [Claim]_vars
  BY <1>1
<1>3. Spec => [][Next]_vars
  BY DEF Spec
<1> QED BY <1>2, <1>3, Inductive, PTL DEF DegradationIsScoped

(* A promotion needs a live, matching, recent read of the contract in      *)
(* force, whatever files are evaluated and however often.                  *)
THEOREM PromotionRestsOnLiveRead == Spec => PromotedOnLiveRead
<1> DEFINE Claim == support # "SUPPORTED_LIVE" /\ support' = "SUPPORTED_LIVE" =>
       \E o \in Reported :
         /\ o.level = "READ" /\ o.proof = "read" /\ o.unique
         /\ o.contract = contract /\ o.fragment \in Accepting
         /\ EffectivelyAttested(Contents[contract][o.fragment])
         /\ o.at <= clock /\ clock <= o.at + PromotionAge
<1>1. ASSUME Inv, [Next]_vars PROVE Claim
  <2> SUFFICES ASSUME support # "SUPPORTED_LIVE", support' = "SUPPORTED_LIVE" PROVE Claim
    OBVIOUS
  <2>1. PICK o \in Accepted \union Claimed, g \in BOOLEAN, d \in BOOLEAN : Promote(o, g, d)
    BY <1>1 DEF Next, vars, Merge, Tick, Evaluate
  <2>2. /\ o.source = "LIVE_UI" /\ o.contract = contract
        /\ ~(o.at > clock \/ clock - o.at > PromotionAge)
    BY <2>1 DEF Promote, PromotionDecision, Invalid
  <2>3. o \in Accepted
    BY <2>1, <2>2 DEF Claimed, Sketched
  <2>4. /\ o \in Observation /\ o.fragment \in Accepting
        /\ o.level = "READ" /\ o.proof = "read"
        /\ Evaluation(o).decision = "PASSED"
    BY <2>3, DocumentsAreObservations DEF Accepted
  <2>5. /\ o.bound /\ o.unique
        /\ EffectivelyAttested(Contents[o.contract][o.fragment])
    BY <2>4, VerdictOf
  <2>6. o \in Reported
    BY <2>2, <2>4, <2>5 DEF Reported, Semantic
  <2>7. o.at \in Int /\ clock \in Int /\ PromotionAge \in Int
    BY <1>1, <2>4, BoundsAssumption DEF Observation, Instant, Inv, TypeOK
  <2>8. o.at <= clock /\ clock <= o.at + PromotionAge
    BY <2>2, <2>7
  <2> QED BY <2>2, <2>4, <2>5, <2>6, <2>8
<1>2. Inv /\ [Next]_vars => [Claim]_vars
  BY <1>1
<1>3. Spec => [][Next]_vars
  BY DEF Spec
<1> QED BY <1>2, <1>3, Inductive, PTL DEF PromotedOnLiveRead
=============================================================================
