--------------------------- MODULE CrossAppProofs ---------------------------
(***************************************************************************)
(* Proofs about CrossApp, for any nodes, graph, max_parallel, locks and    *)
(* deadlines.  Init implies IInv and every action keeps it: the waves and  *)
(* what remains partition the nodes, a cycle never leaves what remains,    *)
(* cancellation stays inside every closed set, a node of the run comes     *)
(* after everything it depends on, and a node holds only locks that come   *)
(* before those it still has to take.  Without edges, the waves are the    *)
(* slices of the sorted nodes that the batch planner cuts.                 *)
(***************************************************************************)
EXTENDS CrossApp, FiniteSetTheorems, TLAPS

(* A non-empty set of naturals has a least element. *)
LEMMA Least ==
    ASSUME NEW S \in SUBSET Nat, S # {}
    PROVE  \E m \in S : \A n \in S : m <= n
<1> DEFINE R == StrictSubsetOrdering(Nat)
           Below0 == {0..n : n \in S}
<1>1. IsWellFoundedOn(R, FiniteSubsetsOf(Nat))
  BY FS_StrictSubsetOrderingWellFounded
<1>2. Below0 \subseteq FiniteSubsetsOf(Nat) /\ Below0 # {}
  <2>1. \A n \in S : 0..n \subseteq Nat /\ IsFiniteSet(0..n)
    BY FS_Interval
  <2> QED BY <2>1 DEF FiniteSubsetsOf
<1>3. PICK t \in Below0 : \A u \in Below0 : ~(<<u, t>> \in R)
  <2> HIDE DEF R, Below0
  <2> QED BY <1>1, <1>2, WFMin, Zenon
<1>4. PICK m \in S : t = 0..m
  BY <1>3
<1>5. ASSUME NEW n \in S, n < m
      PROVE  FALSE
  <2>1. 0..n \in Below0 /\ 0..n \subseteq Nat /\ 0..m \subseteq Nat
    BY <1>4
  <2>2. 0..n \subseteq 0..m /\ 0..n # 0..m
    <3>1. m \in 0..m /\ m \notin 0..n
      BY <1>5
    <3> QED BY <1>5, <3>1
  <2>3. <<0..n, t>> \in R
    BY <2>1, <2>2, <1>4 DEF StrictSubsetOrdering
  <2> QED BY <1>3, <2>1, <2>3
<1> QED BY <1>5

(* So has a finite set a member whose key is greatest. *)
LEMMA Greatest ==
    ASSUME NEW S, IsFiniteSet(S), S # {}, NEW f \in [S -> Nat]
    PROVE  \E m \in S : \A n \in S : f[n] <= f[m]
<1> DEFINE R == StrictSubsetOrdering(S)
           Upper(n) == {k \in S : f[k] > f[n]}
           Uppers == {Upper(n) : n \in S}
<1>1. IsWellFoundedOn(R, FiniteSubsetsOf(S))
  BY FS_StrictSubsetOrderingWellFounded
<1>2. Uppers \subseteq FiniteSubsetsOf(S) /\ Uppers # {}
  <2>1. \A n \in S : Upper(n) \in SUBSET S /\ IsFiniteSet(Upper(n))
    BY FS_Subset
  <2>2. Uppers # {}
    <3>1. \A n \in S : Upper(n) \in Uppers
      OBVIOUS
    <3> HIDE DEF Upper, Uppers
    <3> QED BY <3>1
  <2>3. \A u \in Uppers : u \in SUBSET S /\ IsFiniteSet(u)
    <3> HIDE DEF Upper
    <3> QED BY <2>1
  <2> QED
    <3> HIDE DEF Uppers
    <3> QED BY <2>2, <2>3 DEF FiniteSubsetsOf
<1>3. PICK t \in Uppers : \A u \in Uppers : ~(<<u, t>> \in R)
  <2> HIDE DEF R, Uppers
  <2> QED BY <1>1, <1>2, WFMin, Zenon
<1>4. PICK m \in S : t = Upper(m)
  BY <1>3
<1>5. ASSUME NEW n \in S, f[n] > f[m]
      PROVE  FALSE
  <2>1. Upper(n) \in Uppers /\ Upper(n) \subseteq S /\ Upper(m) \subseteq S
    OBVIOUS
  <2>2. n \in Upper(m) /\ n \notin Upper(n)
    BY <1>5
  <2>3. Upper(n) \subseteq Upper(m)
    BY <1>5
  <2>4. <<Upper(n), t>> \in R
    BY <2>1, <2>2, <2>3, <1>4 DEF StrictSubsetOrdering
  <2> QED BY <1>3, <2>1, <2>4
<1> QED BY <1>5

-----------------------------------------------------------------------------
Scheduling ==
    /\ sched = "PLANNED" => remaining = {}
    /\ sched = "REFUSED" => remaining # {} /\ Ready(remaining) = {}
    /\ prop = "PLANNED" => left = {}
    /\ prop = "REFUSED" => left # {} /\ Ready(left) = {}
    /\ prop \notin {"WAIT", "CANCEL"} => Closed(cancelled)
    /\ prop = "WAIT" => cancelled = {}
    /\ prop # "WAIT" => sched # "LOOP" /\ cut \subseteq cancelled

CyclesRemain ==
    \A nodes \in SUBSET Node : Cyclic(nodes) =>
        nodes \subseteq remaining /\ nodes \subseteq left

InsideClosed ==
    \A set \in SUBSET Node :
        cut \subseteq set /\ Closed(set) => cancelled \subseteq set

Above(n) == {root} \cup {own[m] : m \in {a \in Node : n \in Below({a})}}

Tight(n) ==
    /\ deps[n] \cap left = {}
    /\ deadline[n] \in Above(n)
    /\ \A d \in Above(n) \ {None} : deadline[n] \in 1..d

DeadlinesSoFar == \A n \in Node \ left : Tight(n)

Running ==
    /\ \A n \in Node : run[n] # "PENDING" =>
        Planned /\ \E i \in 1..Len(waves) : i <= at /\ n \in waves[i]
    /\ at > 1 => Planned
    /\ \A i \in 1..Len(waves) : i < at =>
            \A n \in waves[i] : run[n] \in {"ENDED", "SKIPPED"}
    /\ \A n \in Node : run[n] = "SKIPPED" => n \in cancelled
    /\ \A n \in Node : run[n] \in {"RUNNING", "ENDED"} => n \notin cancelled

LocksInOrder ==
    \A l \in Lock : held[l] # Free =>
        /\ run[held[l]] = "RUNNING"
        /\ \A m \in todo[held[l]] : OrderKey[l] < OrderKey[m]

IInv ==
    /\ TypeOK
    /\ Scheduling
    /\ WavesRespectDependencies
    /\ CyclesRemain
    /\ InsideClosed
    /\ DeadlinesSoFar
    /\ Running
    /\ RunsAfterDependencies
    /\ LocksInOrder

-----------------------------------------------------------------------------
(* What the helpers return. *)
LEMMA SelectedFacts ==
    ASSUME par \in 1..6, NEW ready \in SUBSET Node, ready # {}
    PROVE  /\ Selected(ready) \subseteq ready
           /\ Selected(ready) # {}
           /\ Cardinality(Selected(ready)) <= par
<1> DEFINE Lower(n) == {m \in ready : m < n}
<1>0. ready \in SUBSET Nat /\ IsFiniteSet(ready) /\ par \in Nat /\ par >= 1
  <2>1. IsFiniteSet(ready)
    BY NodeAssumption, FS_Subset
  <2> QED BY <2>1, NodeAssumption
<1>1. Selected(ready) = {n \in ready : Cardinality(Lower(n)) < par}
  BY DEF Selected
<1>2. Selected(ready) \subseteq ready /\ IsFiniteSet(Selected(ready))
  BY <1>0, <1>1, FS_Subset
<1>3. Selected(ready) # {}
  <2>1. PICK m \in ready : \A n \in ready : m <= n
    BY <1>0, Least
  <2>2. Lower(m) = {}
    <3>1. \A n \in ready : ~(n < m)
      <4>1. \A n \in ready : n \in Int /\ m \in Int /\ m <= n
        BY <2>1, <1>0
      <4> QED BY <4>1
    <3> QED BY <3>1
  <2>3. Cardinality(Lower(m)) < par
    BY <2>2, <1>0, FS_EmptySet
  <2> QED BY <2>3, <1>1
<1>4. Cardinality(Selected(ready)) <= par
  <2> DEFINE S == Selected(ready)
             id == [n \in S |-> n]
  <2>0. id \in [S -> Nat]
    BY <1>0, <1>2
  <2>1. PICK m \in S : \A n \in S : id[n] <= id[m]
    <3> HIDE DEF S, id
    <3> QED BY <2>0, <1>2, <1>3, Greatest DEF S
  <2>2. \A n \in S : n <= m
    BY <2>1
  <2>3. S \ {m} \subseteq Lower(m)
    <3>1. ASSUME NEW n \in S, n # m
          PROVE  n < m
      <4>1. n <= m
        BY <2>2
      <4>0. S \subseteq ready
        BY <1>2
      <4>2. n \in Int /\ m \in Int
        <5> HIDE DEF S
        <5> QED BY <1>0, <4>0
      <4> HIDE DEF S
      <4> QED BY <4>1, <4>2, <3>1
    <3> QED BY <3>1, <1>2
  <2>4. IsFiniteSet(Lower(m))
    BY <1>0, FS_Subset
  <2>5. Cardinality(S \ {m}) <= Cardinality(Lower(m))
    <3> HIDE DEF S, Lower
    <3> QED BY <2>3, <2>4, FS_Subset
  <2>6. Cardinality(Lower(m)) < par
    BY <2>1, <1>1
  <2>7. Cardinality(S \ {m}) = Cardinality(S) - 1
    <3> HIDE DEF S
    <3> QED BY <2>1, <1>2, FS_RemoveElement DEF S
  <2>8. Cardinality(S) \in Nat /\ Cardinality(S \ {m}) \in Nat /\ Cardinality(Lower(m)) \in Nat
    <3>1. IsFiniteSet(S) /\ IsFiniteSet(S \ {m})
      BY <1>2, FS_RemoveElement
    <3> HIDE DEF S, Lower
    <3> QED BY <3>1, <2>4, FS_CardinalityType
  <2> QED
    <3> HIDE DEF S, Lower
    <3>1. Cardinality(S) <= par
      BY <1>0, <2>5, <2>6, <2>7, <2>8
    <3> QED BY <3>1 DEF S
<1> QED BY <1>2, <1>3, <1>4

LEMMA TightestFacts ==
    ASSUME NEW C \in SUBSET Nat
    PROVE  /\ Tightest(C) \in Nat
           /\ Tightest(C) \in C \cup {None}
           /\ \A d \in C \ {None} : Tightest(C) \in 1..d
<1> DEFINE D == C \ {None}
<1>1. CASE D = {}
  BY <1>1 DEF Tightest, None
<1>2. CASE D # {}
  <2>1. \E m \in D : \A n \in D : m <= n
    <3>1. D \in SUBSET Nat
      OBVIOUS
    <3> HIDE DEF D
    <3> QED BY <3>1, <1>2, Least
  <2>2. Tightest(C) = CHOOSE m \in D : \A n \in D : m <= n
    BY <1>2 DEF Tightest
  <2>3. Tightest(C) \in D /\ \A n \in D : Tightest(C) <= n
    BY <2>1, <2>2
  <2>4. Tightest(C) \in Nat \ {0}
    BY <2>3 DEF None
  <2>5. ASSUME NEW d \in D
        PROVE  Tightest(C) \in 1..d
    <3>1. d \in Nat /\ Tightest(C) <= d
      BY <2>3
    <3> QED BY <3>1, <2>4
  <2> QED BY <2>3, <2>4, <2>5
<1> QED BY <1>1, <1>2

LEMMA NextLockFacts ==
    ASSUME TypeOK, NEW n \in Node, todo[n] # {}
    PROVE  /\ NextLock(n) \in todo[n]
           /\ NextLock(n) \in Lock
           /\ \A m \in todo[n] : m # NextLock(n) => OrderKey[NextLock(n)] < OrderKey[m]
<1> DEFINE Keys == {OrderKey[l] : l \in todo[n]}
<1>0. todo[n] \subseteq Lock /\ OrderKey \in [Lock -> Nat]
  BY LockAssumption DEF TypeOK
<1>1. Keys \in SUBSET Nat /\ Keys # {}
  BY <1>0
<1>2. PICK k \in Keys : \A j \in Keys : k <= j
  <2> HIDE DEF Keys
  <2> QED BY <1>1, Least
<1>3. \E l \in todo[n] : \A m \in todo[n] : OrderKey[l] <= OrderKey[m]
  BY <1>2
<1>4. NextLock(n) \in todo[n] /\ \A m \in todo[n] : OrderKey[NextLock(n)] <= OrderKey[m]
  BY <1>3 DEF NextLock
<1>5. ASSUME NEW m \in todo[n], m # NextLock(n)
      PROVE  OrderKey[NextLock(n)] < OrderKey[m]
  <2>1. OrderKey[NextLock(n)] # OrderKey[m]
    BY <1>0, <1>4, <1>5, LockAssumption
  <2>2. OrderKey[NextLock(n)] \in Nat /\ OrderKey[m] \in Nat
    BY <1>0, <1>4
  <2> QED BY <1>4, <2>1, <2>2
<1> QED BY <1>0, <1>4, <1>5

(* What is below a node, and what is below its dependencies. *)
LEMMA BelowFacts ==
    ASSUME TypeOK, NEW a \in Node
    PROVE  /\ a \in Below({a})
           /\ Below({a}) \subseteq Node
           /\ Closed(Below({a}))
           /\ \A n \in Below({a}) : n = a \/ deps[n] \cap Below({a}) # {}
<1>1. a \in Below({a}) /\ Below({a}) \subseteq Node
  BY DEF Below
<1>2. Closed(Below({a}))
  <2> SUFFICES ASSUME NEW n \in Node, deps[n] \cap Below({a}) # {},
                      NEW set \in SUBSET Node, {a} \subseteq set, Closed(set)
               PROVE  n \in set
    BY DEF Closed, Below
  <2>1. PICK d \in deps[n] : d \in Below({a})
    OBVIOUS
  <2>2. d \in set
    BY <2>1 DEF Below
  <2> QED BY <2>1, <2>2 DEF Closed
<1>3. ASSUME NEW n \in Below({a})
      PROVE  n = a \/ deps[n] \cap Below({a}) # {}
  <2> DEFINE T == {k \in Below({a}) : k = a \/ deps[k] \cap Below({a}) # {}}
  <2>1. T \in SUBSET Node /\ {a} \subseteq T
    BY <1>1
  <2>2. Closed(T)
    BY <1>2 DEF Closed
  <2>3. n \in T
    BY <2>1, <2>2, <1>3 DEF Below
  <2> QED BY <2>3
<1> QED BY <1>1, <1>2, <1>3

-----------------------------------------------------------------------------
LEMMA InitInv == Init => IInv
<1> SUFFICES ASSUME Init
             PROVE  IInv
  OBVIOUS
<1> USE DEF Init
<1>1. TypeOK
  <2>1. par \in 1..6 /\ cut \subseteq Node /\ own \in [Node -> Nat] /\ root \in Nat
    BY PlanAssumption
  <2> QED BY <2>1 DEF TypeOK, None
<1>2. Scheduling
  BY DEF Scheduling
<1>3. WavesRespectDependencies
  BY DEF WavesRespectDependencies
<1>4. CyclesRemain
  BY DEF CyclesRemain
<1>5. InsideClosed
  BY DEF InsideClosed
<1>6. DeadlinesSoFar
  BY DEF DeadlinesSoFar
<1>7. Running
  BY DEF Running
<1>8. RunsAfterDependencies
  BY DEF RunsAfterDependencies
<1>9. LocksInOrder
  BY DEF LocksInOrder
<1> QED BY <1>1, <1>2, <1>3, <1>4, <1>5, <1>6, <1>7, <1>8, <1>9 DEF IInv

(* While a plan is made nothing runs. *)
LEMMA Unplanned ==
    ASSUME IInv, ~Planned
    PROVE  /\ \A n \in Node : run[n] = "PENDING"
           /\ at = 1
<1>1. at \in Nat /\ at >= 1
  <2>1. at \in 1..(Len(waves) + 1) /\ Len(waves) \in Nat
    BY DEF IInv, TypeOK
  <2> QED BY <2>1
<1> QED BY <1>1 DEF IInv, Running

(* A step of a plan that is still not made leaves the run alone. *)
LEMMA RunUntouched ==
    ASSUME IInv, ~Planned, UNCHANGED <<deps, execution>>
    PROVE  (Running /\ RunsAfterDependencies /\ LocksInOrder)'
<1> USE DEF execution
<1>1. \A n \in Node : run'[n] = "PENDING"
  BY Unplanned
<1>2. at' = 1
  BY Unplanned
<1>3. Running'
  BY <1>1, <1>2 DEF Running, IInv, TypeOK
<1>4. RunsAfterDependencies'
  BY <1>1 DEF RunsAfterDependencies
<1>5. LocksInOrder'
  BY DEF LocksInOrder, IInv
<1> QED BY <1>3, <1>4, <1>5

(* What the invariant says of the deadlines depends on these alone. *)
LEMMA DeadlinesUntouched ==
    ASSUME IInv, UNCHANGED <<deps, own, root, left, deadline>>
    PROVE  DeadlinesSoFar'
BY DEF IInv, DeadlinesSoFar, Tight, Above, Below, Closed

LEMMA ScheduleWaveStep == IInv /\ ScheduleWave => IInv'
<1> SUFFICES ASSUME IInv, ScheduleWave
             PROVE  IInv'
  OBVIOUS
<1> USE DEF ScheduleWave, request, propagation, execution
<1> DEFINE new == Selected(Ready(remaining))
<1>0. ~Planned /\ prop = "WAIT"
  BY DEF Planned, IInv, Scheduling
<1>1. /\ new \subseteq Ready(remaining) /\ new # {} /\ Cardinality(new) <= par
      /\ Ready(remaining) \subseteq remaining /\ remaining \subseteq Node
  <2>1. Ready(remaining) \in SUBSET Node /\ Ready(remaining) \subseteq remaining
        /\ remaining \subseteq Node /\ par \in 1..6
    BY DEF Ready, IInv, TypeOK
  <2> QED BY <2>1, SelectedFacts
<1>2. /\ waves \in Seq(SUBSET Node) /\ new \in SUBSET Node
      /\ waves' = Append(waves, new) /\ remaining' = remaining \ new
  BY <1>1 DEF IInv, TypeOK
<1> HIDE DEF new
<1>3. /\ Len(waves) \in Nat
      /\ Len(waves') = Len(waves) + 1
      /\ waves'[Len(waves) + 1] = new
      /\ \A i \in 1..Len(waves) : waves'[i] = waves[i]
      /\ waves' \in Seq(SUBSET Node)
  BY <1>2
<1>4. \A i \in 1..Len(waves') : i \in 1..Len(waves) \/ i = Len(waves) + 1
  BY <1>3
<1>5. TypeOK'
  <2>1. at' \in 1..(Len(waves') + 1)
    BY <1>3 DEF IInv, TypeOK
  <2> QED BY <1>2, <1>3, <2>1 DEF IInv, TypeOK
<1>6. Scheduling'
  BY <1>0 DEF IInv, Scheduling
<1>7. WavesRespectDependencies'
  <2>0. WavesRespectDependencies
    BY DEF IInv
  <2>1. \A n \in Node : n \in remaining' <=> \A i \in 1..Len(waves') : n \notin waves'[i]
    <3>1. \A n \in Node : n \in remaining <=> \A i \in 1..Len(waves) : n \notin waves[i]
      BY <2>0 DEF WavesRespectDependencies
    <3>2. \A i \in 1..Len(waves) : i \in 1..Len(waves')
      BY <1>3
    <3>3. Len(waves) + 1 \in 1..Len(waves')
      BY <1>3
    <3> QED BY <1>2, <1>3, <1>4, <3>1, <3>2, <3>3
  <2>2. \A i \in 1..Len(waves) : waves[i] \cap new = {}
    <3>1. \A n \in remaining : \A i \in 1..Len(waves) : n \notin waves[i]
      BY <1>1, <2>0 DEF WavesRespectDependencies
    <3> QED BY <3>1, <1>1
  <2>3. ASSUME NEW i \in 1..Len(waves'), NEW j \in 1..Len(waves'), i # j
        PROVE  waves'[i] \cap waves'[j] = {}
    <3>1. CASE i \in 1..Len(waves) /\ j \in 1..Len(waves)
      BY <3>1, <1>3, <2>0, <2>3 DEF WavesRespectDependencies
    <3>2. CASE i = Len(waves) + 1
      BY <3>2, <1>3, <1>4, <2>2, <2>3
    <3>3. CASE j = Len(waves) + 1
      BY <3>3, <1>3, <1>4, <2>2, <2>3
    <3> QED BY <3>1, <3>2, <3>3, <1>4
  <2>4. ASSUME NEW i \in 1..Len(waves')
        PROVE  /\ waves'[i] # {} /\ Cardinality(waves'[i]) <= par'
               /\ \A n \in waves'[i] :
                    deps'[n] \subseteq UNION {waves'[j] : j \in 1..(i - 1)}
    <3>1. CASE i \in 1..Len(waves)
      <4>1. /\ waves[i] # {} /\ Cardinality(waves[i]) <= par
            /\ \A n \in waves[i] : deps[n] \subseteq UNION {waves[j] : j \in 1..(i - 1)}
        BY <3>1, <2>0 DEF WavesRespectDependencies
      <4>2. \A j \in 1..(i - 1) : waves'[j] = waves[j]
        BY <3>1, <1>3
      <4>3. {waves'[j] : j \in 1..(i - 1)} = {waves[j] : j \in 1..(i - 1)}
        BY <4>2
      <4> QED BY <3>1, <1>3, <4>1, <4>3
    <3>2. CASE i = Len(waves) + 1
      <4>1. \A n \in new : deps[n] \subseteq Node /\ deps[n] \cap remaining = {}
        BY <1>1 DEF Ready, IInv, TypeOK
      <4>2. ASSUME NEW n \in new, NEW d \in deps[n]
            PROVE  d \in UNION {waves'[j] : j \in 1..(i - 1)}
        <5>1. d \in Node /\ d \notin remaining
          BY <4>1
        <5>2. PICK j \in 1..Len(waves) : d \in waves[j]
          BY <5>1, <2>0 DEF WavesRespectDependencies
        <5>3. j \in 1..(i - 1) /\ waves'[j] = waves[j]
          BY <3>2, <1>3
        <5> QED BY <5>2, <5>3
      <4> QED BY <3>2, <1>1, <1>3, <4>2
    <3> QED BY <3>1, <3>2, <1>4
  <2> QED BY <2>1, <2>3, <2>4 DEF WavesRespectDependencies
<1>8. CyclesRemain'
  <2> SUFFICES ASSUME NEW nodes \in SUBSET Node, Cyclic(nodes)
               PROVE  nodes \subseteq remaining \ new /\ nodes \subseteq left
    BY <1>2 DEF CyclesRemain, Cyclic
  <2>1. nodes \subseteq remaining /\ nodes \subseteq left
    BY DEF IInv, CyclesRemain
  <2>2. \A n \in nodes : n \notin Ready(remaining)
    BY <2>1 DEF Cyclic, Ready
  <2> QED BY <2>1, <2>2, <1>1
<1>9. InsideClosed'
  BY DEF IInv, InsideClosed, Closed
<1>10. DeadlinesSoFar'
  BY DeadlinesUntouched
<1>11. (Running /\ RunsAfterDependencies /\ LocksInOrder)'
  BY <1>0, RunUntouched
<1> QED BY <1>5, <1>6, <1>7, <1>8, <1>9, <1>10, <1>11 DEF IInv

(* The parts of the invariant that a step of the propagation leaves alone. *)
LEMMA WavesUntouched ==
    ASSUME IInv, UNCHANGED <<deps, par, schedule>>
    PROVE  WavesRespectDependencies'
BY DEF IInv, WavesRespectDependencies, schedule

LEMMA ScheduleEndStep == IInv /\ (ScheduleRefuse \/ ScheduleDone) => IInv'
<1> SUFFICES ASSUME IInv, ScheduleRefuse \/ ScheduleDone
             PROVE  IInv'
  OBVIOUS
<1> USE DEF ScheduleRefuse, ScheduleDone, request, propagation, execution
<1>0. ~Planned /\ prop = "WAIT"
  BY DEF Planned, IInv, Scheduling
<1>1. TypeOK'
  BY DEF IInv, TypeOK
<1>2. Scheduling'
  BY <1>0 DEF IInv, Scheduling, Ready
<1>3. WavesRespectDependencies'
  BY DEF IInv, WavesRespectDependencies
<1>4. CyclesRemain'
  BY DEF IInv, CyclesRemain, Cyclic
<1>5. InsideClosed'
  BY DEF IInv, InsideClosed, Closed
<1>6. DeadlinesSoFar'
  BY DeadlinesUntouched
<1>7. (Running /\ RunsAfterDependencies /\ LocksInOrder)'
  BY <1>0, RunUntouched
<1> QED BY <1>1, <1>2, <1>3, <1>4, <1>5, <1>6, <1>7 DEF IInv

LEMMA CancelStep ==
    ASSUME IInv, PropagationCall \/ (\E n \in Node : CancelBelow(n)) \/ CancelDone
    PROVE  IInv'
<1> USE DEF PropagationCall, CancelBelow, CancelDone, request, schedule, execution
<1>0. ~Planned
  BY DEF Planned
<1>1. TypeOK'
  BY DEF IInv, TypeOK
<1>2. Scheduling'
  <2>1. CASE PropagationCall
    BY <2>1 DEF IInv, Scheduling, Ready
  <2>2. CASE \E n \in Node : CancelBelow(n)
    BY <2>2 DEF IInv, Scheduling, Ready
  <2>3. CASE CancelDone
    <3>1. Closed(cancelled)'
      BY <2>3 DEF Closed
    <3> QED BY <2>3, <3>1 DEF IInv, Scheduling, Ready
  <2> QED BY <2>1, <2>2, <2>3
<1>3. WavesRespectDependencies'
  BY WavesUntouched
<1>4. CyclesRemain'
  BY DEF IInv, CyclesRemain, Cyclic
<1>5. InsideClosed'
  <2> SUFFICES ASSUME NEW set \in SUBSET Node, cut \subseteq set, Closed(set)
               PROVE  cancelled' \subseteq set
    BY DEF InsideClosed, Closed
  <2>1. cancelled \subseteq set
    BY DEF IInv, InsideClosed
  <2> QED BY <2>1 DEF Closed
<1>6. DeadlinesSoFar'
  BY DeadlinesUntouched
<1>7. (Running /\ RunsAfterDependencies /\ LocksInOrder)'
  BY <1>0, RunUntouched
<1> QED BY <1>1, <1>2, <1>3, <1>4, <1>5, <1>6, <1>7 DEF IInv

LEMMA DeadlineEndStep ==
    ASSUME IInv, DeadlineRefuse \/ DeadlineDone
    PROVE  IInv'
<1> USE DEF DeadlineRefuse, DeadlineDone, request, schedule, execution
<1>0. ~Planned
  BY DEF Planned
<1>1. TypeOK'
  BY DEF IInv, TypeOK
<1>2. Scheduling'
  BY DEF IInv, Scheduling, Ready, Closed
<1>3. WavesRespectDependencies'
  BY WavesUntouched
<1>4. CyclesRemain'
  BY DEF IInv, CyclesRemain, Cyclic
<1>5. InsideClosed'
  BY DEF IInv, InsideClosed, Closed
<1>6. DeadlinesSoFar'
  BY DeadlinesUntouched
<1>7. (Running /\ RunsAfterDependencies /\ LocksInOrder)'
  <2>1. \A n \in Node : run'[n] = "PENDING"
    BY <1>0, Unplanned
  <2>2. at' = 1
    BY <1>0, Unplanned
  <2>3. Running'
    BY <2>1, <2>2 DEF Running, IInv, TypeOK
  <2>4. RunsAfterDependencies'
    BY <2>1 DEF RunsAfterDependencies
  <2>5. LocksInOrder'
    BY DEF LocksInOrder, IInv
  <2> QED BY <2>3, <2>4, <2>5
<1> QED BY <1>1, <1>2, <1>3, <1>4, <1>5, <1>6, <1>7 DEF IInv

LEMMA DeadlineLevelStep ==
    ASSUME IInv, DeadlineLevel
    PROVE  IInv'
<1> USE DEF DeadlineLevel, request, schedule, execution
<1> DEFINE C(n) == {root, own[n]} \cup {deadline[d] : d \in deps[n]}
<1>0. ~Planned
  BY DEF Planned
<1>a. /\ deps \in [Node -> SUBSET Node] /\ own \in [Node -> Nat] /\ root \in Nat
      /\ deadline \in [Node -> Nat] /\ left \subseteq Node
      /\ Ready(left) \subseteq left /\ left' = left \ Ready(left)
      /\ \A n \in Ready(left) : n \in Node /\ deps[n] \cap left = {}
  BY DEF IInv, TypeOK, Ready
<1>b. \A n \in Node : C(n) \in SUBSET Nat
  BY <1>a
<1>d. \A n \in Node : Above(n) \subseteq Nat
  BY <1>a DEF Above
<1>c. /\ \A n \in Ready(left) : deadline'[n] = Tightest(C(n))
      /\ \A n \in Node \ Ready(left) : deadline'[n] = deadline[n]
  BY <1>a
<1>1. TypeOK'
  <2>1. \A n \in Node : Tightest(C(n)) \in Nat
    <3> HIDE DEF C
    <3> QED BY <1>b, TightestFacts
  <2>2. deadline' \in [Node -> Nat]
    BY <2>1, <1>a
  <2> QED BY <2>2, <1>a DEF IInv, TypeOK
<1>2. Scheduling'
  BY DEF IInv, Scheduling, Ready, Closed
<1>3. WavesRespectDependencies'
  BY WavesUntouched
<1>4. CyclesRemain'
  <2> SUFFICES ASSUME NEW nodes \in SUBSET Node, Cyclic(nodes)
               PROVE  nodes \subseteq remaining /\ nodes \subseteq left \ Ready(left)
    BY <1>a DEF CyclesRemain, Cyclic
  <2>1. nodes \subseteq remaining /\ nodes \subseteq left
    BY DEF IInv, CyclesRemain
  <2>2. \A n \in nodes : n \notin Ready(left)
    BY <2>1 DEF Cyclic, Ready
  <2> QED BY <2>1, <2>2
<1>5. InsideClosed'
  BY DEF IInv, InsideClosed, Closed
<1>6. DeadlinesSoFar'
  <2>0. \A n \in Node : Above(n)' = Above(n)
    BY DEF Above, Below, Closed
  <2>1. ASSUME NEW n \in Node \ left'
        PROVE  Tight(n)'
    <3>1. CASE n \in Ready(left)
      <4>a. \A d \in deps[n] : d \in Node /\ d \notin left
        BY <3>1, <1>a
      <4>b. \A d \in deps[n] : Tight(d)
        BY <4>a DEF IInv, DeadlinesSoFar
      <4>c. /\ own[n] \in Above(n) /\ root \in Above(n)
            /\ \A d \in deps[n] : Above(d) \subseteq Above(n)
        <5>1. n \in Below({n})
          BY BelowFacts DEF IInv
        <5>2. ASSUME NEW d \in deps[n], NEW a \in Node, d \in Below({a})
              PROVE  n \in Below({a})
          BY <5>2, BelowFacts DEF IInv, Closed
        <5> QED BY <5>1, <5>2, <4>a DEF Above
      <4>d. \A c \in C(n) : c \in Above(n)
        BY <4>b, <4>c DEF Tight
      <4>e. Above(n) \subseteq {root} \cup {own[n]} \cup UNION {Above(d) : d \in deps[n]}
        <5>1. ASSUME NEW a \in Node, n \in Below({a}), a # n
              PROVE  \E d \in deps[n] : own[a] \in Above(d)
          <6>1. PICK d \in deps[n] : d \in Below({a})
            BY <5>1, BelowFacts DEF IInv
          <6> QED BY <6>1 DEF Above
        <5>2. ASSUME NEW e \in Above(n)
              PROVE  e = root \/ e = own[n] \/ \E d \in deps[n] : e \in Above(d)
          <6>1. e = root \/ \E a \in Node : n \in Below({a}) /\ e = own[a]
            BY <5>2 DEF Above
          <6> QED BY <6>1, <5>1
        <5> QED BY <5>2
      <4>f. deadline'[n] \in C(n) \cup {None} /\ deadline'[n] \in Nat
            /\ \A d \in C(n) \ {None} : deadline'[n] \in 1..d
        <5> HIDE DEF C
        <5> QED BY <3>1, <1>b, <1>c, TightestFacts
      <4>g. deadline'[n] \in Above(n)
        <5>1. CASE deadline'[n] \in C(n)
          BY <5>1, <4>d
        <5>2. CASE deadline'[n] = None /\ deadline'[n] \notin C(n)
          <6>1. root # None
            BY <5>2
          <6>2. root \in C(n)
            OBVIOUS
          <6>3. deadline'[n] \in 1..root
            <7> HIDE DEF C
            <7> QED BY <6>1, <6>2, <4>f
          <6> QED BY <5>2, <6>3 DEF None
        <5> QED BY <5>1, <5>2, <4>f
      <4>h. ASSUME NEW e \in Above(n) \ {None}
            PROVE  deadline'[n] \in 1..e
        <5>1. CASE e \in C(n)
          BY <5>1, <4>f
        <5>2. CASE \E d \in deps[n] : e \in Above(d)
          <6>1. PICK d \in deps[n] : e \in Above(d)
            BY <5>2
          <6>2. deadline[d] \in 1..e
            BY <6>1, <4>b DEF Tight
          <6>3. e \in Nat
            BY <1>d, <4>a, <6>1
          <6>4. deadline[d] # None /\ deadline[d] \in C(n) /\ deadline[d] \in Nat
            BY <6>2, <1>a, <4>a DEF None
          <6>5. deadline'[n] \in 1..deadline[d]
            BY <6>4, <4>f
          <6> QED BY <6>2, <6>3, <6>4, <6>5
        <5> QED BY <5>1, <5>2, <4>e
      <4> QED BY <4>a, <4>g, <4>h, <2>0, <1>a DEF Tight
    <3>2. CASE n \notin left
      <4>1. Tight(n)
        BY <3>2 DEF IInv, DeadlinesSoFar
      <4>2. n \notin Ready(left)
        BY <3>2, <1>a
      <4> QED BY <4>1, <4>2, <2>0, <1>a, <1>c DEF Tight
    <3> QED BY <3>1, <3>2, <1>a
  <2> QED BY <2>1 DEF DeadlinesSoFar
<1>7. (Running /\ RunsAfterDependencies /\ LocksInOrder)'
  BY <1>0, RunUntouched
<1> QED BY <1>1, <1>2, <1>3, <1>4, <1>5, <1>6, <1>7 DEF IInv

-----------------------------------------------------------------------------
(* A step of the run leaves the plan alone. *)
LEMMA PlanUntouched ==
    ASSUME IInv, UNCHANGED <<request, schedule, propagation>>
    PROVE  /\ Scheduling' /\ WavesRespectDependencies' /\ CyclesRemain'
           /\ InsideClosed' /\ DeadlinesSoFar'
<1> USE DEF request, schedule, propagation
<1>1. Scheduling'
  BY DEF IInv, Scheduling, Ready, Closed
<1>2. WavesRespectDependencies'
  BY DEF IInv, WavesRespectDependencies
<1>3. CyclesRemain'
  BY DEF IInv, CyclesRemain, Cyclic
<1>4. InsideClosed'
  BY DEF IInv, InsideClosed, Closed
<1>5. DeadlinesSoFar'
  BY DeadlinesUntouched
<1> QED BY <1>1, <1>2, <1>3, <1>4, <1>5

LEMMA BeginStep ==
    ASSUME IInv, NEW n \in Node, Begin(n)
    PROVE  IInv'
<1> USE DEF Begin
<1>0. /\ Planned /\ at \in 1..Len(waves) /\ n \in waves[at] /\ run[n] = "PENDING"
      /\ n \notin cancelled /\ Closed(cancelled)
  BY DEF InWave, IInv, TypeOK, Scheduling, Planned
<1>a. /\ run \in [Node -> {"PENDING", "RUNNING", "ENDED", "SKIPPED"}]
      /\ run' = [run EXCEPT ![n] = "RUNNING"]
      /\ UNCHANGED <<deps, waves, at, held, cancelled>> /\ Planned'
  BY DEF IInv, TypeOK, request, schedule, propagation, Planned, InWave
<1>1. TypeOK'
  <2>1. LocksOf(n) \subseteq Lock
    BY LockAssumption DEF LocksOf
  <2> QED BY <2>1 DEF IInv, TypeOK, request, schedule, propagation
<1>2. Scheduling' /\ WavesRespectDependencies' /\ CyclesRemain' /\ InsideClosed' /\ DeadlinesSoFar'
  BY PlanUntouched
<1>3. Running'
  BY <1>0, <1>a DEF IInv, Running
<1>4. RunsAfterDependencies'
  <2>1. \A d \in deps[n] : run[d] = "ENDED"
    <3> SUFFICES ASSUME NEW d \in deps[n]
                 PROVE  run[d] = "ENDED"
      OBVIOUS
    <3>1. d \in UNION {waves[j] : j \in 1..(at - 1)}
      BY <1>0 DEF IInv, WavesRespectDependencies
    <3>2. PICK j \in 1..(at - 1) : d \in waves[j]
      BY <3>1
    <3>3. j \in 1..Len(waves) /\ j < at
      BY <1>0, <3>2
    <3>4. run[d] \in {"ENDED", "SKIPPED"}
      BY <3>2, <3>3 DEF IInv, Running
    <3>5. d \in Node
      BY DEF IInv, TypeOK
    <3>6. d \notin cancelled
      BY <1>0 DEF Closed
    <3> QED BY <3>4, <3>5, <3>6 DEF IInv, Running
  <2>2. n \notin deps[n]
    BY <1>0, <2>1
  <2>3. ASSUME NEW m \in Node, run'[m] \in {"RUNNING", "ENDED"}, NEW d \in deps[m]
        PROVE  run'[d] = "ENDED"
    <3>0. d \in Node
      BY DEF IInv, TypeOK
    <3>1. CASE m = n
      BY <3>0, <3>1, <2>1, <2>2, <1>a
    <3>2. CASE m # n
      <4>1. run[d] = "ENDED"
        BY <3>2, <2>3, <1>a DEF IInv, RunsAfterDependencies
      <4> QED BY <4>1, <3>0, <1>0, <1>a
    <3> QED BY <3>1, <3>2
  <2> QED BY <2>3, <1>a DEF RunsAfterDependencies
<1>5. LocksInOrder'
  <2>1. ASSUME NEW l \in Lock, held[l] # Free
        PROVE  held[l] # n /\ held[l] \in Node
    BY <2>1, <1>0 DEF IInv, LocksInOrder, TypeOK
  <2>2. \A m \in Node : m # n => todo'[m] = todo[m] /\ run'[m] = run[m]
    BY DEF IInv, TypeOK
  <2> QED BY <2>1, <2>2, <1>a DEF IInv, LocksInOrder
<1> QED BY <1>1, <1>2, <1>3, <1>4, <1>5 DEF IInv

LEMMA SkipStep ==
    ASSUME IInv, NEW n \in Node, Skip(n)
    PROVE  IInv'
<1> USE DEF Skip
<1>0. /\ Planned /\ at \in 1..Len(waves) /\ n \in waves[at] /\ run[n] = "PENDING"
      /\ n \in cancelled
  BY DEF InWave, IInv, TypeOK
<1>a. /\ run \in [Node -> {"PENDING", "RUNNING", "ENDED", "SKIPPED"}]
      /\ run' = [run EXCEPT ![n] = "SKIPPED"]
      /\ UNCHANGED <<deps, waves, at, held, todo, cancelled>> /\ Planned'
  BY DEF IInv, TypeOK, request, schedule, propagation, Planned, InWave
<1>1. TypeOK'
  BY DEF IInv, TypeOK, request, schedule, propagation
<1>2. Scheduling' /\ WavesRespectDependencies' /\ CyclesRemain' /\ InsideClosed' /\ DeadlinesSoFar'
  BY PlanUntouched
<1>3. Running'
  BY <1>0, <1>a DEF IInv, Running
<1>4. RunsAfterDependencies'
  <2>1. ASSUME NEW m \in Node, run'[m] \in {"RUNNING", "ENDED"}, NEW d \in deps[m]
        PROVE  run'[d] = "ENDED"
    <3>0. d \in Node
      BY DEF IInv, TypeOK
    <3>1. m # n /\ run[m] = run'[m]
      BY <2>1, <1>a
    <3>2. run[d] = "ENDED"
      BY <3>1, <2>1 DEF IInv, RunsAfterDependencies
    <3> QED BY <3>0, <3>2, <1>0, <1>a
  <2> QED BY <2>1, <1>a DEF RunsAfterDependencies
<1>5. LocksInOrder'
  BY <1>0, <1>a DEF IInv, LocksInOrder, TypeOK
<1> QED BY <1>1, <1>2, <1>3, <1>4, <1>5 DEF IInv

LEMMA AcquireStep ==
    ASSUME IInv, NEW n \in Node, Acquire(n)
    PROVE  IInv'
<1> USE DEF Acquire
<1> DEFINE next == NextLock(n)
<1>a. /\ run \in [Node -> {"PENDING", "RUNNING", "ENDED", "SKIPPED"}]
      /\ todo \in [Node -> SUBSET Lock] /\ held \in [Lock -> Node \cup {Free}]
      /\ UNCHANGED <<deps, waves, at, run, cancelled, sched, prop>> /\ run[n] = "RUNNING"
  BY DEF IInv, TypeOK, request, schedule, propagation
<1>b. /\ next \in Lock /\ next \in todo[n]
      /\ \A m \in todo[n] : m # next => OrderKey[next] < OrderKey[m]
  BY NextLockFacts DEF IInv
<1>c. held' = [held EXCEPT ![next] = n] /\ todo' = [todo EXCEPT ![n] = @ \ {next}]
  OBVIOUS
<1> HIDE DEF next
<1>1. TypeOK'
  <2>1. held' \in [Lock -> Node \cup {Free}] /\ todo' \in [Node -> SUBSET Lock]
    BY <1>a, <1>b, <1>c
  <2> QED BY <2>1 DEF IInv, TypeOK, request, schedule, propagation
<1>2. Scheduling' /\ WavesRespectDependencies' /\ CyclesRemain' /\ InsideClosed' /\ DeadlinesSoFar'
  BY PlanUntouched
<1>3. Running'
  BY <1>a DEF IInv, Running, Planned
<1>4. RunsAfterDependencies'
  BY <1>a DEF IInv, RunsAfterDependencies
<1>5. LocksInOrder'
  <2>1. ASSUME NEW l \in Lock, held'[l] # Free
        PROVE  /\ run'[held'[l]] = "RUNNING"
               /\ \A m \in todo'[held'[l]] : OrderKey[l] < OrderKey[m]
    <3>1. CASE l = next
      BY <3>1, <1>a, <1>b, <1>c
    <3>2. CASE l # next
      <4>1. held'[l] = held[l] /\ held[l] \in Node
        BY <3>2, <2>1, <1>a, <1>c
      <4>2. todo'[held[l]] \subseteq todo[held[l]]
        BY <4>1, <1>a, <1>c
      <4> QED BY <4>1, <4>2, <2>1, <1>a DEF IInv, LocksInOrder
    <3> QED BY <3>1, <3>2
  <2> QED BY <2>1 DEF LocksInOrder
<1> QED BY <1>1, <1>2, <1>3, <1>4, <1>5 DEF IInv

LEMMA FinishStep ==
    ASSUME IInv, NEW n \in Node, Finish(n)
    PROVE  IInv'
<1> USE DEF Finish
<1>a. /\ run \in [Node -> {"PENDING", "RUNNING", "ENDED", "SKIPPED"}]
      /\ run' = [run EXCEPT ![n] = "ENDED"] /\ held \in [Lock -> Node \cup {Free}]
      /\ UNCHANGED <<deps, waves, at, todo, cancelled, sched, prop>> /\ run[n] = "RUNNING"
  BY DEF IInv, TypeOK, request, schedule, propagation
<1>1. TypeOK'
  BY DEF IInv, TypeOK, request, schedule, propagation
<1>2. Scheduling' /\ WavesRespectDependencies' /\ CyclesRemain' /\ InsideClosed' /\ DeadlinesSoFar'
  BY PlanUntouched
<1>3. Running'
  BY <1>a DEF IInv, Running, Planned
<1>4. RunsAfterDependencies'
  <2>1. ASSUME NEW m \in Node, run'[m] \in {"RUNNING", "ENDED"}, NEW d \in deps[m]
        PROVE  run'[d] = "ENDED"
    <3>0. d \in Node
      BY DEF IInv, TypeOK
    <3>1. run[m] \in {"RUNNING", "ENDED"}
      BY <2>1, <1>a
    <3>2. run[d] = "ENDED"
      BY <3>1, <2>1, <1>a DEF IInv, RunsAfterDependencies
    <3> QED BY <3>0, <3>2, <1>a
  <2> QED BY <2>1, <1>a DEF RunsAfterDependencies
<1>5. LocksInOrder'
  <2>1. ASSUME NEW l \in Lock, held'[l] # Free
        PROVE  held[l] # n /\ held'[l] = held[l] /\ held[l] \in Node
    BY <2>1, <1>a
  <2> QED BY <2>1, <1>a DEF IInv, LocksInOrder
<1> QED BY <1>1, <1>2, <1>3, <1>4, <1>5 DEF IInv

LEMMA NextWaveStep ==
    ASSUME IInv, NextWave
    PROVE  IInv'
<1> USE DEF NextWave, request, schedule, propagation
<1>0. at \in 1..Len(waves) /\ Len(waves) \in Nat
  BY DEF IInv, TypeOK
<1>1. TypeOK'
  <2>1. at' \in 1..(Len(waves) + 1)
    BY <1>0
  <2> QED BY <2>1 DEF IInv, TypeOK
<1>2. Scheduling' /\ WavesRespectDependencies' /\ CyclesRemain' /\ InsideClosed' /\ DeadlinesSoFar'
  BY PlanUntouched
<1>3. Running'
  <2>1. \A i \in 1..Len(waves) : i < at + 1 => i < at \/ i = at
    BY <1>0
  <2>2. \A i \in 1..Len(waves) : i <= at => i <= at + 1
    BY <1>0
  <2> QED BY <2>1, <2>2 DEF IInv, Running, Planned
<1>4. RunsAfterDependencies'
  BY DEF IInv, RunsAfterDependencies
<1>5. LocksInOrder'
  BY DEF IInv, LocksInOrder
<1> QED BY <1>1, <1>2, <1>3, <1>4, <1>5 DEF IInv

LEMMA StutterStep ==
    ASSUME IInv, UNCHANGED vars
    PROVE  IInv'
<1> USE DEF vars, execution
<1>1. TypeOK'
  BY DEF IInv, TypeOK, request, schedule, propagation
<1>2. Scheduling' /\ WavesRespectDependencies' /\ CyclesRemain' /\ InsideClosed' /\ DeadlinesSoFar'
  BY PlanUntouched
<1>3. Running'
  BY DEF IInv, Running, Planned, request, schedule, propagation
<1>4. RunsAfterDependencies'
  BY DEF IInv, RunsAfterDependencies, request
<1>5. LocksInOrder'
  BY DEF IInv, LocksInOrder
<1> QED BY <1>1, <1>2, <1>3, <1>4, <1>5 DEF IInv

LEMMA NextStep == IInv /\ [Next]_vars => IInv'
<1> SUFFICES ASSUME IInv, [Next]_vars
             PROVE  IInv'
  OBVIOUS
<1>1. CASE ScheduleWave
  BY <1>1, ScheduleWaveStep
<1>2. CASE ScheduleRefuse \/ ScheduleDone
  BY <1>2, ScheduleEndStep
<1>3. CASE PropagationCall \/ (\E n \in Node : CancelBelow(n)) \/ CancelDone
  BY <1>3, CancelStep
<1>4. CASE DeadlineLevel
  BY <1>4, DeadlineLevelStep
<1>5. CASE DeadlineRefuse \/ DeadlineDone
  BY <1>5, DeadlineEndStep
<1>6. CASE \E n \in Node : NodeStep(n)
  BY <1>6, BeginStep, SkipStep, AcquireStep, FinishStep DEF NodeStep
<1>7. CASE NextWave
  BY <1>7, NextWaveStep
<1>8. CASE UNCHANGED vars
  BY <1>8, StutterStep
<1> QED BY <1>1, <1>2, <1>3, <1>4, <1>5, <1>6, <1>7, <1>8 DEF Next, Plan, Rest

LEMMA Invariant == Spec => []IInv
BY InitInv, NextStep, PTL DEF Spec

-----------------------------------------------------------------------------
(* Every variable of the planners and of the run keeps its type. *)
THEOREM TypeCorrect == Spec => []TypeOK
<1>1. IInv => TypeOK
  BY DEF IInv
<1> QED BY <1>1, Invariant, PTL

(* For any graph, schedule_dag and the propagation planner refuse it when   *)
(* it has a cycle and only then.                                            *)
THEOREM CyclesAreRefused == Spec => []RefusesCyclesOnly
<1>1. ASSUME IInv
      PROVE  RefusesCyclesOnly
  <2> USE <1>1
  <2>1. ASSUME Refused
        PROVE  \E nodes \in SUBSET Node : Cyclic(nodes)
    <3>1. CASE sched = "REFUSED"
      <4>1. remaining \in SUBSET Node /\ Cyclic(remaining)
        BY <3>1 DEF IInv, TypeOK, Scheduling, Ready, Cyclic
      <4> QED BY <4>1
    <3>2. CASE prop = "REFUSED"
      <4>1. left \in SUBSET Node /\ Cyclic(left)
        BY <3>2 DEF IInv, TypeOK, Scheduling, Ready, Cyclic
      <4> QED BY <4>1
    <3> QED BY <2>1, <3>1, <3>2 DEF Refused
  <2>2. ASSUME sched = "PLANNED" \/ prop = "PLANNED", NEW nodes \in SUBSET Node
        PROVE  ~Cyclic(nodes)
    BY <2>2 DEF IInv, Scheduling, CyclesRemain, Cyclic
  <2> QED BY <2>1, <2>2 DEF RefusesCyclesOnly
<1> QED BY <1>1, Invariant, PTL

(* The waves of schedule_dag hold every node once, after its dependencies,  *)
(* and at most max_parallel at a time.                                      *)
THEOREM WavesAreSound == Spec => []WavesRespectDependencies
<1>1. IInv => WavesRespectDependencies
  BY DEF IInv
<1> QED BY <1>1, Invariant, PTL

(* Cancellation reaches exactly what is below the cancelled nodes. *)
THEOREM CancellationIsExact == Spec => []CancelsBelow
<1>1. ASSUME IInv, prop = "PLANNED"
      PROVE  cancelled = Below(cut)
  <2> USE <1>1
  <2>1. cut \subseteq cancelled /\ Closed(cancelled) /\ cancelled \in SUBSET Node
    BY DEF IInv, Scheduling, TypeOK
  <2>2. Below(cut) \subseteq cancelled
    BY <2>1 DEF Below
  <2>3. cancelled \subseteq Below(cut)
    BY <2>1 DEF IInv, InsideClosed, Below
  <2> QED BY <2>2, <2>3
<1>2. IInv => CancelsBelow
  BY <1>1 DEF CancelsBelow
<1> QED BY <1>2, Invariant, PTL

(* The effective deadline of a node is the tightest of all those above it. *)
THEOREM DeadlinesAreTightest == Spec => []DeadlinesTighten
<1>1. ASSUME IInv, prop = "PLANNED", NEW n \in Node
      PROVE  /\ deadline[n] \in Above(n)
             /\ \A d \in Above(n) \ {None} : deadline[n] \in 1..d
  BY <1>1 DEF IInv, Scheduling, DeadlinesSoFar, Tight
<1>2. IInv => DeadlinesTighten
  BY <1>1 DEF DeadlinesTighten, Above
<1> QED BY <1>2, Invariant, PTL

(* So both fixpoints of the propagation are exact. *)
THEOREM FixpointsAreExact == Spec => []PropagationIsExact
BY CancellationIsExact, DeadlinesAreTightest, PTL DEF PropagationIsExact

(* In a run of the plan nothing starts before what it depends on has ended. *)
THEOREM DependenciesComeFirst == Spec => []RunsAfterDependencies
<1>1. IInv => RunsAfterDependencies
  BY DEF IInv
<1> QED BY <1>1, Invariant, PTL

(* Nodes that take their locks in canonical_lock_order never wait on one    *)
(* another in a circle: the one that waits for the last lock can go on.     *)
THEOREM NoDeadlock == Spec => []NoCircularWait
<1>1. ASSUME IInv, NEW nodes \in SUBSET Node, nodes # {},
             \A n \in nodes : \E m \in nodes : Waits(n, m)
      PROVE  FALSE
  <2> USE <1>1
  <2> DEFINE key == [n \in nodes |-> OrderKey[NextLock(n)]]
  <2>1. \A n \in nodes : NextLock(n) \in Lock /\ NextLock(n) \in todo[n]
    BY NextLockFacts DEF IInv, Waits
  <2>2. key \in [nodes -> Nat] /\ IsFiniteSet(nodes)
    <3>1. IsFiniteSet(nodes)
      BY NodeAssumption, FS_Subset
    <3>2. \A n \in nodes : OrderKey[NextLock(n)] \in Nat
      BY <2>1, LockAssumption
    <3> QED BY <3>1, <3>2
  <2>3. PICK n \in nodes : \A m \in nodes : key[m] <= key[n]
    <3> HIDE DEF key
    <3> QED BY <2>2, Greatest
  <2>4. PICK m \in nodes : held[NextLock(n)] = m
    BY DEF Waits
  <2>5. m # Free
    BY LockAssumption
  <2>6. OrderKey[NextLock(n)] < OrderKey[NextLock(m)]
    BY <2>1, <2>4, <2>5 DEF IInv, LocksInOrder
  <2>7. OrderKey[NextLock(m)] <= OrderKey[NextLock(n)]
    BY <2>3
  <2>8. OrderKey[NextLock(m)] \in Nat /\ OrderKey[NextLock(n)] \in Nat
    BY <2>1, LockAssumption
  <2> QED BY <2>6, <2>7, <2>8
<1>2. IInv => NoCircularWait
  BY <1>1 DEF NoCircularWait
<1> QED BY <1>2, Invariant, PTL

-----------------------------------------------------------------------------
(* Without dependencies: the waves are the slices of the sorted nodes.      *)

Lower(n) == {m \in Node : m < n}
Rank(n) == Cardinality(Lower(n))
Slice(i) == {n \in Node : Rank(n) \div par = i - 1}

LEMMA RankFacts ==
    /\ \A n \in Node : n \in Nat /\ Rank(n) \in Nat /\ IsFiniteSet(Lower(n))
    /\ \A m, n \in Node : m <= n => Rank(m) <= Rank(n)
    /\ \A n \in Node : Rank(n) < Cardinality(Node)
    /\ IsFiniteSet(Node) /\ Cardinality(Node) \in Nat
<1>1. IsFiniteSet(Node) /\ Node \subseteq Nat
  BY NodeAssumption
<1>2. ASSUME NEW n \in Node
      PROVE  n \in Nat /\ IsFiniteSet(Lower(n)) /\ Rank(n) \in Nat
  <2>1. IsFiniteSet(Lower(n))
    BY <1>1, FS_Subset DEF Lower
  <2> QED BY <1>1, <2>1, FS_CardinalityType DEF Rank
<1>3. ASSUME NEW m \in Node, NEW n \in Node, m <= n
      PROVE  Rank(m) <= Rank(n)
  <2>1. m \in Nat /\ n \in Nat
    BY <1>1
  <2>2. Lower(m) \subseteq Lower(n)
    <3>1. ASSUME NEW k \in Node, k < m
          PROVE  k < n
      <4>1. k \in Nat
        BY <1>1
      <4> QED BY <2>1, <3>1, <4>1, <1>3
    <3> QED BY <3>1 DEF Lower
  <2> QED BY <1>2, <2>2, FS_Subset DEF Rank
<1>4. ASSUME NEW n \in Node
      PROVE  Rank(n) < Cardinality(Node)
  <2>1. n \in Nat /\ Lower(n) \subseteq Node /\ n \notin Lower(n)
    BY <1>1 DEF Lower
  <2>2. Lower(n) \subseteq Node \ {n}
    BY <2>1
  <2>3. IsFiniteSet(Node \ {n}) /\ Cardinality(Node \ {n}) = Cardinality(Node) - 1
    BY <1>1, FS_RemoveElement
  <2>4. Rank(n) <= Cardinality(Node \ {n})
    BY <2>2, <2>3, FS_Subset DEF Rank
  <2> QED BY <1>1, <1>2, <2>3, <2>4, FS_CardinalityType
<1> QED BY <1>1, <1>2, <1>3, <1>4, FS_CardinalityType

(* Two nodes with nothing between them are one rank apart, the greatest is  *)
(* one short of how many there are.                                         *)
LEMMA NextRank ==
    ASSUME NEW p \in Node, NEW n, n \in Node, p < n, \A m \in Node : m < n => m <= p
    PROVE  Rank(n) = Rank(p) + 1
<1>1. \A m \in Node : m \in Nat
  BY RankFacts
<1>2. Lower(n) = Lower(p) \cup {p}
  <2>1. ASSUME NEW m \in Node
        PROVE  m < n <=> m < p \/ m = p
    BY <1>1
  <2> QED BY <2>1 DEF Lower
<1>3. p \notin Lower(p) /\ IsFiniteSet(Lower(p))
  BY <1>1, RankFacts DEF Lower
<1> QED BY <1>2, <1>3, FS_AddElement DEF Rank

LEMMA LastRank ==
    ASSUME NEW g \in Node, \A m \in Node : m <= g
    PROVE  Rank(g) = Cardinality(Node) - 1
<1>1. \A m \in Node : m \in Nat
  BY RankFacts
<1>2. Lower(g) = Node \ {g}
  <2>1. ASSUME NEW m \in Node
        PROVE  m < g <=> m # g
    BY <1>1
  <2> QED BY <2>1 DEF Lower
<1> QED BY <1>2, RankFacts, FS_RemoveElement DEF Rank

(* A rest of the nodes that starts at a rank k holds k fewer below a node.  *)
LEMMA RankInRest ==
    ASSUME NEW k \in Nat, NEW rest, rest = {n \in Node : Rank(n) >= k}, NEW n \in rest
    PROVE  Rank(n) = k + Cardinality({m \in rest : m < n})
<1> DEFINE done == {m \in Node : Rank(m) < k}
           low  == {m \in rest : m < n}
<1>1. /\ \A m \in Node : m \in Nat /\ Rank(m) \in Nat
      /\ rest \subseteq Node /\ rest \in SUBSET Nat /\ rest # {} /\ done \subseteq Node
      /\ IsFiniteSet(done) /\ IsFiniteSet(low)
  <2>1. \A m \in Node : m \in Nat /\ Rank(m) \in Nat
    BY RankFacts
  <2>2. rest \subseteq Node /\ done \subseteq Node /\ low \subseteq Node
    OBVIOUS
  <2>3. IsFiniteSet(done) /\ IsFiniteSet(low)
    <3> HIDE DEF done, low
    <3> QED BY <2>2, RankFacts, FS_Subset
  <2> QED BY <2>1, <2>2, <2>3
<1>2. PICK first \in rest : \A m \in rest : first <= m
  BY <1>1, Least
<1>3. ASSUME NEW m \in Node
      PROVE  m \in done <=> m < first
  <2>1. m \in Nat /\ first \in Nat /\ first \in Node /\ Rank(m) \in Nat /\ Rank(first) \in Nat
    BY <1>1
  <2>2. CASE m < first
    <3>1. m \notin rest
      BY <1>2, <2>1, <2>2
    <3> QED BY <2>1, <2>2, <3>1
  <2>3. CASE first <= m
    <3>1. Rank(first) <= Rank(m)
      BY <2>1, <2>3, RankFacts
    <3>2. Rank(first) >= k
      OBVIOUS
    <3> QED BY <2>1, <2>3, <3>1, <3>2
  <2> QED BY <2>1, <2>2, <2>3
<1>4. done = Lower(first)
  BY <1>1, <1>3 DEF Lower
<1>5. Cardinality(done) = k
  <2>1. Rank(first) >= k /\ Rank(first) \in Nat /\ first \in Node
    BY <1>1
  <2>2. CASE done = {}
    <3>1. Rank(first) = 0
      BY <1>4, <2>2, FS_EmptySet DEF Rank
    <3> QED BY <1>4, <2>1, <3>1 DEF Rank
  <2>3. CASE done # {}
    <3> DEFINE id == [m \in done |-> m]
    <3>1. id \in [done -> Nat]
      BY <1>1
    <3>2. PICK p \in done : \A m \in done : id[m] <= id[p]
      <4> HIDE DEF id, done
      <4> QED BY <1>1, <2>3, <3>1, Greatest
    <3>3. p \in Node /\ p < first /\ Rank(p) < k /\ \A m \in Node : m < first => m <= p
      BY <1>1, <1>3, <3>2
    <3>4. Rank(first) = Rank(p) + 1
      BY <2>1, <3>3, NextRank
    <3>5. Rank(first) = k
      BY <1>1, <2>1, <3>3, <3>4
    <3> QED BY <1>4, <3>5 DEF Rank
  <2> QED BY <2>2, <2>3
<1>6. Lower(n) = done \cup low /\ done \cap low = {}
  <2>1. ASSUME NEW m \in Node
        PROVE  m < n <=> m \in done \/ m \in low
    <3>1. m \in Nat /\ n \in Nat /\ first \in Nat /\ first <= n /\ Rank(m) \in Nat
      BY <1>1, <1>2
    <3>2. m \in done \/ m \in rest
      BY <3>1
    <3>3. m \in done => m < n
      BY <1>3, <3>1
    <3> QED BY <3>2, <3>3
  <2>2. done \cap low = {}
    BY <1>1
  <2> QED BY <1>1, <2>1, <2>2 DEF Lower
<1> HIDE DEF done, low
<1>7. Cardinality(Lower(n)) = Cardinality(done) + Cardinality(low)
  <2>1. Cardinality(done \cap low) = 0
    BY <1>6, FS_EmptySet
  <2>2. Cardinality(done) \in Nat /\ Cardinality(low) \in Nat
    BY <1>1, FS_CardinalityType
  <2> QED BY <1>1, <1>6, <2>1, <2>2, FS_Union
<1> QED BY <1>5, <1>7 DEF Rank, low

(* So far the waves are the first slices, and the rest is what comes after. *)
SlicesSoFar ==
    (\A n \in Node : deps[n] = {}) =>
        /\ \A i \in 1..Len(waves) : waves[i] = Slice(i)
        /\ remaining = {n \in Node : Rank(n) >= Len(waves) * par}

LEMMA SliceIsSelected ==
    ASSUME TypeOK, \A n \in Node : deps[n] = {},
           remaining = {n \in Node : Rank(n) >= Len(waves) * par}
    PROVE  /\ Selected(Ready(remaining)) = Slice(Len(waves) + 1)
           /\ remaining \ Slice(Len(waves) + 1) = {n \in Node : Rank(n) >= (Len(waves) + 1) * par}
<1> DEFINE len == Len(waves)
<1>1. par \in 1..6 /\ len \in Nat /\ remaining \subseteq Node /\ Ready(remaining) = remaining
  BY DEF TypeOK, Ready
<1>2. \A r \in Nat : r \div par = len <=> r >= len * par /\ r < (len + 1) * par
  <2> HIDE DEF len
  <2>1. par = 1 \/ par = 2 \/ par = 3 \/ par = 4 \/ par = 5 \/ par = 6
    BY <1>1
  <2> QED BY <1>1, <2>1
<1>3. len * par \in Nat /\ (len + 1) * par = len * par + par
  <2> HIDE DEF len
  <2>1. par = 1 \/ par = 2 \/ par = 3 \/ par = 4 \/ par = 5 \/ par = 6
    BY <1>1
  <2> QED BY <1>1, <2>1
<1>4. \A n \in Node : Rank(n) \in Nat
  BY RankFacts
<1>5. \A n \in remaining : Rank(n) = len * par + Cardinality({m \in remaining : m < n})
  BY <1>3, RankInRest
<1>6. \A n \in remaining : Cardinality({m \in remaining : m < n}) \in Nat
  <2>1. \A n \in remaining : IsFiniteSet({m \in remaining : m < n})
    BY <1>1, RankFacts, FS_Subset
  <2> QED BY <2>1, FS_CardinalityType
<1>7. \A n \in remaining : Cardinality({m \in remaining : m < n}) < par <=> Rank(n) < (len + 1) * par
  <2> HIDE DEF len
  <2> QED BY <1>1, <1>3, <1>5, <1>6
<1>8. Selected(remaining) = {n \in remaining : Rank(n) < (len + 1) * par}
  BY <1>7 DEF Selected
<1>9. Slice(len + 1) = {n \in Node : Rank(n) >= len * par /\ Rank(n) < (len + 1) * par}
  <2>1. (len + 1) - 1 = len
    BY <1>1
  <2> QED BY <1>2, <1>4, <2>1 DEF Slice
<1>10. \A n \in Node : Rank(n) >= (len + 1) * par => Rank(n) >= len * par
  <2> HIDE DEF len
  <2> QED BY <1>1, <1>3, <1>4
<1>11. Selected(Ready(remaining)) = Slice(len + 1)
  BY <1>1, <1>8, <1>9
<1>12. \A n \in Node : Rank(n) < (len + 1) * par <=> ~(Rank(n) >= (len + 1) * par)
  <2> HIDE DEF len
  <2> QED BY <1>1, <1>3, <1>4
<1>13. remaining \ Slice(len + 1) = {n \in Node : Rank(n) >= (len + 1) * par}
  BY <1>1, <1>9, <1>10, <1>12
<1> QED BY <1>11, <1>13

LEMMA SlicesInductive ==
    /\ Init => SlicesSoFar
    /\ IInv /\ SlicesSoFar /\ [Next]_vars => SlicesSoFar'
<1>1. ASSUME Init
      PROVE  SlicesSoFar
  <2>1. waves = <<>> /\ Len(waves) = 0 /\ remaining = Node /\ par \in 1..6
    BY <1>1, PlanAssumption DEF Init
  <2>2. Len(waves) * par = 0
    BY <2>1
  <2>3. \A n \in Node : Rank(n) >= 0
    BY RankFacts
  <2> QED BY <2>1, <2>2, <2>3 DEF SlicesSoFar
<1>2. ASSUME IInv, SlicesSoFar, UNCHANGED <<deps, par, remaining, waves>>
      PROVE  SlicesSoFar'
  BY <1>2 DEF SlicesSoFar, Slice
<1>3. ASSUME IInv, SlicesSoFar, ScheduleWave, \A n \in Node : deps'[n] = {}
      PROVE  /\ \A i \in 1..Len(waves') : waves'[i] = Slice(i)
             /\ remaining' = {n \in Node : Rank(n) >= Len(waves') * par}
  <2>1. TypeOK /\ deps' = deps /\ par' = par /\ waves \in Seq(SUBSET Node)
    BY <1>3 DEF IInv, TypeOK, ScheduleWave, request
  <2>2. \A i \in 1..Len(waves) : waves[i] = Slice(i)
    BY <1>3, <2>1 DEF SlicesSoFar
  <2>3. /\ Selected(Ready(remaining)) = Slice(Len(waves) + 1)
        /\ remaining \ Slice(Len(waves) + 1) = {n \in Node : Rank(n) >= (Len(waves) + 1) * par}
    BY <1>3, <2>1, SliceIsSelected DEF SlicesSoFar
  <2>4. waves' = Append(waves, Slice(Len(waves) + 1)) /\ remaining' = remaining \ Slice(Len(waves) + 1)
    BY <1>3, <2>3 DEF ScheduleWave
  <2>5. Len(waves) \in Nat /\ Len(waves') = Len(waves) + 1
    BY <2>1, <2>4
  <2>6. ASSUME NEW i \in 1..Len(waves')
        PROVE  waves'[i] = Slice(i)
    <3>1. CASE i = Len(waves) + 1
      BY <2>1, <2>4, <2>5, <3>1
    <3>2. CASE i \in 1..Len(waves)
      BY <2>1, <2>2, <2>4, <2>5, <3>2
    <3> QED BY <2>5, <3>1, <3>2
  <2> QED BY <2>3, <2>4, <2>5, <2>6
<1>4. ASSUME IInv, SlicesSoFar, ScheduleWave
      PROVE  SlicesSoFar'
  <2>1. par' = par
    BY <1>4 DEF ScheduleWave, request
  <2> QED BY <1>3, <1>4, <2>1 DEF SlicesSoFar, Slice
<1>5. ASSUME [Next]_vars
      PROVE  ScheduleWave \/ UNCHANGED <<deps, par, remaining, waves>>
  BY <1>5 DEF Next, Plan, NodeStep, ScheduleRefuse, ScheduleDone, PropagationCall, CancelBelow,
     CancelDone, DeadlineLevel, DeadlineRefuse, DeadlineDone, Begin, Skip, Acquire, Finish,
     NextWave, Rest, vars, request, schedule, propagation, execution
<1> QED BY <1>1, <1>2, <1>4, <1>5

LEMMA SlicesInvariant == Spec => []SlicesSoFar
<1>1. Spec => []IInv
  BY Invariant
<1> QED BY <1>1, SlicesInductive, PTL DEF Spec

(* A division that rounds up. *)
LEMMA RoundsUp ==
    ASSUME NEW d \in 1..6, NEW l \in Nat, NEW size \in Nat,
           size <= l * d, size > (l - 1) * d
    PROVE  (size + d - 1) \div d = l
<1>1. d = 1 \/ d = 2 \/ d = 3 \/ d = 4 \/ d = 5 \/ d = 6
  OBVIOUS
<1> QED BY <1>1

(* When the scheduler is done without dependencies, its waves are the       *)
(* slices schedule_bounded_batch cuts, their number included.               *)
LEMMA SlicesAreAll ==
    ASSUME IInv, SlicesSoFar
    PROVE  BatchIsDagWithoutEdges
<1> SUFFICES ASSUME sched = "PLANNED", \A n \in Node : deps[n] = {}
             PROVE  waves = BatchWaves
  BY DEF BatchIsDagWithoutEdges
<1> DEFINE l == Len(waves)
           size == Cardinality(Node)
<1>1. TypeOK /\ remaining = {} /\ WavesRespectDependencies /\ waves \in Seq(SUBSET Node)
  BY DEF IInv, Scheduling, TypeOK
<1>2. par \in 1..6 /\ l \in Nat /\ size \in Nat /\ Node # {}
  BY <1>1, RankFacts, NodeAssumption DEF TypeOK
<1>3. /\ \A i \in 1..l : waves[i] = Slice(i)
      /\ \A n \in Node : ~(Rank(n) >= l * par)
  BY <1>1 DEF SlicesSoFar
<1>4. l * par \in Int /\ (l - 1) * par \in Int
  <2> HIDE DEF l
  <2>1. par = 1 \/ par = 2 \/ par = 3 \/ par = 4 \/ par = 5 \/ par = 6
    BY <1>2
  <2> QED BY <1>2, <2>1
<1>5. size <= l * par
  <2> DEFINE id == [n \in Node |-> n]
  <2>1. id \in [Node -> Nat]
    BY RankFacts
  <2>2. PICK g \in Node : \A m \in Node : id[m] <= id[g]
    <3> HIDE DEF id
    <3> QED BY <1>2, <2>1, RankFacts, Greatest
  <2>3. Rank(g) = size - 1
    BY <2>2, LastRank
  <2>4. Rank(g) \in Nat /\ Rank(g) < l * par
    <3>1. Rank(g) \in Nat
      BY RankFacts
    <3> HIDE DEF l
    <3> QED BY <1>3, <1>4, <3>1
  <2> HIDE DEF l, size
  <2> QED BY <1>2, <1>4, <2>3, <2>4
<1>6. size > (l - 1) * par
  <2>1. l # 0
    <3>1. ASSUME l = 0
          PROVE  FALSE
      <4>1. l * par = 0
        BY <1>2, <3>1
      <4>2. PICK n \in Node : TRUE
        BY <1>2
      <4> QED BY <1>3, <4>1, <4>2, RankFacts
    <3> QED BY <3>1
  <2>2. l \in 1..l
    BY <1>2, <2>1
  <2>3. PICK n \in waves[l] : n \in Node
    BY <1>1, <2>2 DEF WavesRespectDependencies
  <2>4. Rank(n) \div par = l - 1 /\ Rank(n) \in Nat /\ Rank(n) < size
    BY <1>3, <2>2, <2>3, RankFacts DEF Slice
  <2>5. Rank(n) >= (l - 1) * par
    <3> HIDE DEF l, size
    <3>1. par = 1 \/ par = 2 \/ par = 3 \/ par = 4 \/ par = 5 \/ par = 6
      BY <1>2
    <3> QED BY <1>2, <2>4, <3>1
  <2> HIDE DEF l, size
  <2> QED BY <1>2, <1>4, <2>4, <2>5
<1>7. (size + par - 1) \div par = l
  <2> HIDE DEF l, size
  <2> QED BY <1>2, <1>5, <1>6, RoundsUp
<1>8. BatchWaves = [i \in 1..l |-> Slice(i)]
  BY <1>7 DEF BatchWaves, Slice, Rank, Lower
<1>9. waves = [i \in 1..l |-> waves[i]]
  BY <1>1
<1> QED BY <1>3, <1>8, <1>9

(* schedule_bounded_batch cuts what schedule_dag cuts without dependencies. *)
THEOREM BatchesAreDags == Spec => []BatchIsDagWithoutEdges
<1>1. IInv /\ SlicesSoFar => BatchIsDagWithoutEdges
  BY SlicesAreAll
<1> QED BY <1>1, Invariant, SlicesInvariant, PTL

(* Every answer of the scheduler is right: it refuses exactly the cyclic    *)
(* graphs, its waves come after what they depend on, and they are the batch *)
(* planner's slices where nothing depends on anything.                      *)
THEOREM SchedulesHold == Spec => []SchedulesAreSound
BY CyclesAreRefused, WavesAreSound, BatchesAreDags, PTL DEF SchedulesAreSound

=============================================================================
