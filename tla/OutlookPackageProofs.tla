------------------------ MODULE OutlookPackageProofs ------------------------
(***************************************************************************)
(* Proofs about the Outlook package.                                       *)
(*                                                                         *)
(* Each module has an invariant of its own, kept by its own calls; the     *)
(* package composes them because a move of one area is a call of its       *)
(* module and leaves the variables of the others alone.  Beyond the types  *)
(* the invariants say what makes their properties inductive:               *)
(*   - the parent of a folder is a folder there is, so that a folder that  *)
(*     is created is nobody's parent and closes no cycle;                  *)
(*   - the order of an entry is one more than the number of those before   *)
(*     it, which adding, taking out and inserting keep, and from which     *)
(*     follows that the orders are 1 to n;                                 *)
(*   - of the items before the place of a walk, those that were there all  *)
(*     along and were not seen are no more than were taken out.            *)
(***************************************************************************)
EXTENDS OutlookPackage, FiniteSetTheorems, TLAPS

-----------------------------------------------------------------------------
(* Sets and catalogs.                                                       *)

(* A set that gains at most one element.                                    *)
LEMMA OneMore ==
  ASSUME NEW S, IsFiniteSet(S), NEW x, NEW T, T \subseteq S \cup {x}
  PROVE  /\ IsFiniteSet(T) /\ Cardinality(T) \in Nat /\ Cardinality(S) \in Nat
         /\ Cardinality(T) <= Cardinality(S) + 1
         /\ (x \notin T \/ x \in S) => Cardinality(T) <= Cardinality(S)
<1>1. IsFiniteSet(S \cup {x}) /\ Cardinality(S) \in Nat /\ Cardinality(S \cup {x}) <= Cardinality(S) + 1
  <2>1. Cardinality(S) \in Nat
    BY FS_CardinalityType
  <2> QED BY <2>1, FS_AddElement
<1>2. IsFiniteSet(T) /\ Cardinality(T) <= Cardinality(S \cup {x}) /\ Cardinality(T) \in Nat
  BY <1>1, FS_Subset, FS_CardinalityType
<1>3. IsFiniteSet(S \cup {x}) /\ Cardinality(S \cup {x}) \in Nat
  BY <1>1, FS_CardinalityType
<1>4. ASSUME x \notin T \/ x \in S
      PROVE  Cardinality(T) <= Cardinality(S)
  <2>1. T \subseteq S
    BY <1>4
  <2> QED BY <2>1, FS_Subset
<1> QED BY <1>1, <1>2, <1>3, <1>4

(* A catalog has finitely many keys in use.                                 *)
LEMMA UsedFinite ==
  ASSUME NEW K, IsFiniteSet(K), NEW R, NEW catalog \in [K -> R]
  PROVE  IsFiniteSet(Used(catalog)) /\ Cardinality(Used(catalog)) \in Nat /\ Used(catalog) \subseteq K
<1>1. Used(catalog) \subseteq K
  BY DEF Used
<1> QED BY <1>1, FS_Subset, FS_CardinalityType

(* A catalog that starts empty.                                            *)
LEMMA EmptyCatalog ==
  ASSUME NEW K
  PROVE  Used([k \in K |-> None]) = {} /\ Cardinality({}) = 0
BY FS_EmptySet DEF Used

(* Writing one entry keeps a catalog's bound unless it is one more.        *)
LEMMA PutBounded ==
  ASSUME NEW K, IsFiniteSet(K), NEW R, NEW catalog \in [K -> R \cup {None}],
         NEW k \in K, NEW v \in R \cup {None}, NEW bound \in Nat,
         Cardinality(Used(catalog)) <= bound,
         catalog[k] = None /\ v # None => Cardinality(Used(catalog)) < bound
  PROVE  /\ [catalog EXCEPT ![k] = v] \in [K -> R \cup {None}]
         /\ Cardinality(Used([catalog EXCEPT ![k] = v])) <= bound
<1> DEFINE new == [catalog EXCEPT ![k] = v]
<1>1. new \in [K -> R \cup {None}] /\ new[k] = v /\ \A j \in K \ {k} : new[j] = catalog[j]
  OBVIOUS
<1> HIDE DEF new
<1>2. IsFiniteSet(Used(catalog)) /\ Cardinality(Used(catalog)) \in Nat
  BY UsedFinite
<1>3. Used(new) \subseteq Used(catalog) \cup {k}
  BY <1>1 DEF Used
<1>4. k \in Used(new) <=> v # None
  BY <1>1 DEF Used
<1>5. k \in Used(catalog) <=> catalog[k] # None
  BY DEF Used
<1>6. Cardinality(Used(new)) <= bound
  <2>1. CASE catalog[k] = None /\ v # None
    <3>1. Cardinality(Used(new)) <= Cardinality(Used(catalog)) + 1 /\ Cardinality(Used(new)) \in Nat
      BY <1>2, <1>3, OneMore
    <3> QED BY <1>2, <2>1, <3>1
  <2>2. CASE ~(catalog[k] = None /\ v # None)
    <3>1. Cardinality(Used(new)) <= Cardinality(Used(catalog)) /\ Cardinality(Used(new)) \in Nat
      BY <1>2, <1>3, <1>4, <1>5, <2>2, OneMore
    <3> QED BY <1>2, <3>1
  <2> QED BY <2>1, <2>2
<1> QED BY <1>1, <1>6 DEF new

(* A finite set has a member whose key is greatest.                        *)
LEMMA Greatest ==
    ASSUME NEW S, IsFiniteSet(S), S # {}, NEW f \in [S -> Nat]
    PROVE  \E m \in S : \A n \in S : f[n] <= f[m]
<1> DEFINE R == StrictSubsetOrdering(S)
           Upper(n) == {k \in S : f[k] > f[n]}
           Uppers == {Upper(n) : n \in S}
<1>1. IsWellFoundedOn(R, FiniteSubsetsOf(S))
  BY FS_StrictSubsetOrderingWellFounded
<1>2. Uppers \subseteq FiniteSubsetsOf(S) /\ Uppers # {}
  <2>1. \A n \in S : Upper(n) \in SUBSET S /\ IsFiniteSet(Upper(n))
    BY FS_Subset
  <2>2. Uppers # {}
    <3>1. \A n \in S : Upper(n) \in Uppers
      OBVIOUS
    <3> HIDE DEF Upper, Uppers
    <3> QED BY <3>1
  <2>3. \A u \in Uppers : u \in SUBSET S /\ IsFiniteSet(u)
    <3> HIDE DEF Upper
    <3> QED BY <2>1
  <2> QED
    <3> HIDE DEF Uppers
    <3> QED BY <2>2, <2>3 DEF FiniteSubsetsOf
<1>3. PICK t \in Uppers : \A u \in Uppers : ~(<<u, t>> \in R)
  <2> HIDE DEF R, Uppers
  <2> QED BY <1>1, <1>2, WFMin, Zenon
<1>4. PICK m \in S : t = Upper(m)
  BY <1>3
<1>5. ASSUME NEW n \in S, f[n] > f[m]
      PROVE  FALSE
  <2>1. Upper(n) \in Uppers /\ Upper(n) \subseteq S /\ Upper(m) \subseteq S
    OBVIOUS
  <2>2. n \in Upper(m) /\ n \notin Upper(n)
    BY <1>5
  <2>3. Upper(n) \subseteq Upper(m)
    BY <1>5
  <2>4. <<Upper(n), t>> \in R
    BY <2>1, <2>2, <2>3, <1>4 DEF StrictSubsetOrdering
  <2> QED BY <1>3, <2>1, <2>4
<1> QED BY <1>5

-----------------------------------------------------------------------------
(* Orders from 1 to n: each entry is one after the entries before it.       *)
Below(S, order, n) == {i \in S : order[i] < n}

Ranking(S, order) ==
  /\ order \in [S -> Nat]
  /\ \A i, j \in S : order[i] = order[j] => i = j
  /\ \A s \in S : order[s] = 1 + Cardinality(Below(S, order, order[s]))

(* Those before a number are finitely many.                                 *)
LEMMA BelowFinite ==
  ASSUME NEW S, IsFiniteSet(S), NEW order, NEW n
  PROVE  /\ IsFiniteSet(Below(S, order, n)) /\ Cardinality(Below(S, order, n)) \in Nat
         /\ Cardinality(Below(S, order, n)) <= Cardinality(S) /\ Cardinality(S) \in Nat
         /\ Below(S, order, n) \subseteq S
<1>1. Below(S, order, n) \subseteq S
  BY DEF Below
<1> QED BY <1>1, FS_Subset, FS_CardinalityType

(* A set that lacks one element of another is smaller.                      *)
LEMMA OneLess ==
  ASSUME NEW S, IsFiniteSet(S), NEW x \in S, NEW T, T \subseteq S \ {x}
  PROVE  /\ IsFiniteSet(T) /\ Cardinality(T) \in Nat /\ Cardinality(S) \in Nat
         /\ Cardinality(T) + 1 <= Cardinality(S)
         /\ T = S \ {x} => Cardinality(T) + 1 = Cardinality(S)
<1>1. IsFiniteSet(S \ {x}) /\ Cardinality(S) \in Nat /\ Cardinality(S \ {x}) = Cardinality(S) - 1
  BY FS_CardinalityType, FS_RemoveElement
<1>2. IsFiniteSet(T) /\ Cardinality(T) <= Cardinality(S \ {x}) /\ Cardinality(T) \in Nat
  BY <1>1, FS_Subset, FS_CardinalityType
<1>3. Cardinality(T) + 1 <= Cardinality(S)
  BY <1>1, <1>2
<1>4. T = S \ {x} => Cardinality(T) + 1 = Cardinality(S)
  BY <1>1
<1> QED BY <1>1, <1>2, <1>3, <1>4

(* Ranks are 1 to n,                                                        *)
LEMMA RankingBounds ==
  ASSUME NEW S, IsFiniteSet(S), NEW order, Ranking(S, order)
  PROVE  \A s \in S : order[s] \in 1..Cardinality(S)
<1> SUFFICES ASSUME NEW s \in S PROVE order[s] \in 1..Cardinality(S)
  OBVIOUS
<1>1. order[s] \in Nat /\ order[s] = 1 + Cardinality(Below(S, order, order[s]))
  BY DEF Ranking
<1>2. Below(S, order, order[s]) \subseteq S \ {s}
  BY <1>1 DEF Below
<1>3. Cardinality(Below(S, order, order[s])) + 1 <= Cardinality(S)
      /\ Cardinality(Below(S, order, order[s])) \in Nat /\ Cardinality(S) \in Nat
  BY <1>2, OneLess
<1> QED BY <1>1, <1>3

(* and every number of 1 to n is one.                                       *)
LEMMA RankingCovers ==
  ASSUME NEW S, IsFiniteSet(S), NEW order, Ranking(S, order)
  PROVE  {order[s] : s \in S} = 1..Cardinality(S)
<1> DEFINE n == Cardinality(S)
<1>1. n \in Nat /\ \A s \in S : order[s] \in 1..n
  BY FS_CardinalityType, RankingBounds
<1>2. order \in Injection(S, 1..n)
  BY <1>1 DEF Ranking, Injection, IsInjective
<1>3. IsFiniteSet(1..n) /\ Cardinality(1..n) = n
  BY <1>1, FS_Interval
<1>4. order \in Surjection(S, 1..n)
  BY <1>2, <1>3, FS_Injection
<1> QED BY <1>1, <1>4 DEF Surjection

(* Below n are n - 1 entries.                                               *)
LEMMA RankingBelow ==
  ASSUME NEW S, IsFiniteSet(S), NEW order, Ranking(S, order), NEW n \in 1..(Cardinality(S) + 1)
  PROVE  Cardinality(Below(S, order, n)) = n - 1
<1>1. Cardinality(S) \in Nat
  BY FS_CardinalityType
<1>2. CASE n = Cardinality(S) + 1
  <2>1. Below(S, order, n) = S
    BY <1>1, <1>2, RankingBounds DEF Below
  <2> QED BY <1>1, <1>2, <2>1
<1>3. CASE n \in 1..Cardinality(S)
  <2>1. PICK s \in S : order[s] = n
    BY <1>3, RankingCovers
  <2>2. n = 1 + Cardinality(Below(S, order, n))
    BY <2>1 DEF Ranking
  <2>3. Cardinality(Below(S, order, n)) \in Nat
    BY BelowFinite
  <2> QED BY <1>1, <2>2, <2>3
<1> QED BY <1>1, <1>2, <1>3

(* An element that comes last.                                              *)
LEMMA RankingAppend ==
  ASSUME NEW S, IsFiniteSet(S), NEW order, Ranking(S, order), NEW k, k \notin S,
         NEW new \in [S \cup {k} -> Nat], new[k] = Cardinality(S) + 1,
         \A s \in S : new[s] = order[s]
  PROVE  Ranking(S \cup {k}, new)
<1>1. Cardinality(S) \in Nat /\ \A s \in S : order[s] \in 1..Cardinality(S)
  BY FS_CardinalityType, RankingBounds
<1>2. \A i, j \in S \cup {k} : new[i] = new[j] => i = j
  BY <1>1 DEF Ranking
<1>3. ASSUME NEW s \in S
      PROVE  new[s] = 1 + Cardinality(Below(S \cup {k}, new, new[s]))
  <2>1. Below(S \cup {k}, new, new[s]) = Below(S, order, order[s])
    BY <1>1 DEF Below
  <2> QED BY <2>1 DEF Ranking
<1>4. new[k] = 1 + Cardinality(Below(S \cup {k}, new, new[k]))
  <2>1. Below(S \cup {k}, new, new[k]) = S
    BY <1>1 DEF Below
  <2> QED BY <1>1, <2>1
<1> QED BY <1>2, <1>3, <1>4 DEF Ranking

(* Counting the entries before, but for k, keeps the others in order.       *)
LEMMA RankingWithout ==
  ASSUME NEW S, IsFiniteSet(S), NEW order, Ranking(S, order), NEW k,
         NEW new \in [S \ {k} -> Nat],
         \A s \in S \ {k} : new[s] = 1 + Cardinality(Below(S, order, order[s]) \ {k})
  PROVE  /\ Ranking(S \ {k}, new)
         /\ \A i, j \in S \ {k} : order[i] < order[j] <=> new[i] < new[j]
<1>1. ASSUME NEW i \in S \ {k}, NEW j \in S \ {k}, order[i] < order[j]
      PROVE  new[i] < new[j]
  <2>1. /\ IsFiniteSet(Below(S, order, order[j]) \ {k})
        /\ i \in Below(S, order, order[j]) \ {k}
        /\ Below(S, order, order[i]) \ {k} \subseteq (Below(S, order, order[j]) \ {k}) \ {i}
    <3>1. IsFiniteSet(Below(S, order, order[j]) \ {k})
      BY BelowFinite, FS_Difference
    <3>2. order[i] \in Nat /\ order[j] \in Nat /\ \A s \in S : order[s] \in Nat
      BY DEF Ranking
    <3> QED BY <1>1, <3>1, <3>2 DEF Below
  <2>2. /\ Cardinality(Below(S, order, order[i]) \ {k}) \in Nat
        /\ Cardinality(Below(S, order, order[j]) \ {k}) \in Nat
        /\ Cardinality(Below(S, order, order[i]) \ {k}) + 1 <= Cardinality(Below(S, order, order[j]) \ {k})
    BY <2>1, OneLess
  <2> QED BY <2>2
<1>2. \A i, j \in S \ {k} : order[i] < order[j] <=> new[i] < new[j]
  <2> SUFFICES ASSUME NEW i \in S \ {k}, NEW j \in S \ {k}, new[i] < new[j]
               PROVE  order[i] < order[j]
    BY <1>1
  <2>1. order[i] \in Nat /\ order[j] \in Nat /\ new[i] \in Nat /\ new[j] \in Nat
    BY DEF Ranking
  <2>2. order[i] # order[j]
    BY <2>1 DEF Ranking
  <2>3. ~(order[j] < order[i])
    BY <1>1, <2>1
  <2> QED BY <2>1, <2>2, <2>3
<1>3. \A i, j \in S \ {k} : new[i] = new[j] => i = j
  <2> SUFFICES ASSUME NEW i \in S \ {k}, NEW j \in S \ {k}, new[i] = new[j]
               PROVE  i = j
    OBVIOUS
  <2>1. order[i] \in Nat /\ order[j] \in Nat /\ new[i] \in Nat /\ new[j] \in Nat
    BY DEF Ranking
  <2>2. order[i] = order[j]
    BY <1>2, <2>1
  <2> QED BY <2>2 DEF Ranking
<1>4. ASSUME NEW s \in S \ {k}
      PROVE  new[s] = 1 + Cardinality(Below(S \ {k}, new, new[s]))
  <2>1. Below(S \ {k}, new, new[s]) = Below(S, order, order[s]) \ {k}
    BY <1>2 DEF Below
  <2> QED BY <2>1
<1> QED BY <1>2, <1>3, <1>4 DEF Ranking

(* The others make room for k at its target.                                *)
LEMMA RankingInsert ==
  ASSUME NEW S, IsFiniteSet(S), NEW order, Ranking(S, order), NEW k, k \notin S,
         NEW target \in 1..(Cardinality(S) + 1),
         NEW new \in [S \cup {k} -> Nat], new[k] = target,
         \A s \in S : new[s] = IF order[s] < target THEN order[s] ELSE order[s] + 1
  PROVE  /\ Ranking(S \cup {k}, new)
         /\ \A i, j \in S : order[i] < order[j] <=> new[i] < new[j]
<1>1. target \in Nat /\ \A s \in S : order[s] \in Nat
  <2>1. Cardinality(S) \in Nat
    BY FS_CardinalityType
  <2> QED BY <2>1 DEF Ranking
<1>2. \A i, j \in S : order[i] < order[j] <=> new[i] < new[j]
  BY <1>1
<1>3. \A i, j \in S \cup {k} : new[i] = new[j] => i = j
  <2>1. \A i, j \in S : new[i] = new[j] => i = j
    BY <1>1 DEF Ranking
  <2>2. \A i \in S : new[i] # target
    BY <1>1
  <2> QED BY <2>1, <2>2
<1>4. ASSUME NEW s \in S
      PROVE  new[s] = 1 + Cardinality(Below(S \cup {k}, new, new[s]))
  <2>1. /\ order[s] = 1 + Cardinality(Below(S, order, order[s]))
        /\ IsFiniteSet(Below(S, order, order[s])) /\ Cardinality(Below(S, order, order[s])) \in Nat
        /\ k \notin Below(S, order, order[s])
    BY BelowFinite DEF Ranking
  <2>2. CASE order[s] < target
    <3>1. Below(S \cup {k}, new, new[s]) = Below(S, order, order[s])
      BY <1>1, <1>2, <2>2 DEF Below
    <3> QED BY <2>1, <2>2, <3>1
  <2>3. CASE ~(order[s] < target)
    <3>1. Below(S \cup {k}, new, new[s]) = Below(S, order, order[s]) \cup {k}
      BY <1>1, <1>2, <2>3 DEF Below
    <3>2. Cardinality(Below(S, order, order[s]) \cup {k}) = Cardinality(Below(S, order, order[s])) + 1
      BY <2>1, FS_AddElement
    <3> QED BY <1>1, <2>1, <2>3, <3>1, <3>2
  <2> QED BY <2>2, <2>3
<1>5. new[k] = 1 + Cardinality(Below(S \cup {k}, new, new[k]))
  <2>1. Below(S \cup {k}, new, target) = Below(S, order, target)
    BY <1>1 DEF Below
  <2>2. Cardinality(Below(S, order, target)) = target - 1
    BY RankingBelow
  <2> QED BY <1>1, <2>1, <2>2
<1> QED BY <1>2, <1>3, <1>4, <1>5 DEF Ranking

-----------------------------------------------------------------------------
(* OutlookTasks: types and bounds.                                          *)

(* The entries of a catalog that belong to one task.                        *)
Owned(catalog, t) == {k \in Used(catalog) : catalog[k].task = t}

(* Writing one entry of a catalog whose entries have an owner keeps the     *)
(* bound of every owner.                                                    *)
LEMMA OwnersBounded ==
  ASSUME NEW K, IsFiniteSet(K), NEW R, NEW catalog \in [K -> R \cup {None}],
         NEW k \in K, NEW v \in R \cup {None}, NEW bound \in Nat,
         \A t \in Task : Cardinality(Owned(catalog, t)) <= bound,
         catalog[k] # None /\ v # None => v.task = catalog[k].task,
         catalog[k] = None /\ v # None => Cardinality(Owned(catalog, v.task)) < bound
  PROVE  /\ [catalog EXCEPT ![k] = v] \in [K -> R \cup {None}]
         /\ \A t \in Task : Cardinality(Owned([catalog EXCEPT ![k] = v], t)) <= bound
<1> DEFINE new == [catalog EXCEPT ![k] = v]
<1>1. new \in [K -> R \cup {None}] /\ new[k] = v /\ \A j \in K \ {k} : new[j] = catalog[j]
  OBVIOUS
<1> HIDE DEF new
<1>2. ASSUME NEW t \in Task
      PROVE  Cardinality(Owned(new, t)) <= bound
  <2>1. IsFiniteSet(Owned(catalog, t)) /\ Cardinality(Owned(catalog, t)) \in Nat
    <3>1. Owned(catalog, t) \subseteq K
      BY DEF Owned, Used
    <3> QED BY <3>1, FS_Subset, FS_CardinalityType
  <2>2. Owned(new, t) \subseteq Owned(catalog, t) \cup {k}
    BY <1>1 DEF Owned, Used
  <2>3. k \in Owned(new, t) <=> v # None /\ v.task = t
    BY <1>1 DEF Owned, Used
  <2>4. k \in Owned(catalog, t) <=> catalog[k] # None /\ catalog[k].task = t
    BY DEF Owned, Used
  <2>5. Cardinality(Owned(new, t)) \in Nat /\ Cardinality(Owned(new, t)) <= Cardinality(Owned(catalog, t)) + 1
    BY <2>1, <2>2, OneMore
  <2>6. CASE catalog[k] = None /\ v # None /\ v.task = t
    <3>1. Cardinality(Owned(catalog, t)) < bound
      BY <2>6
    <3> QED BY <2>1, <2>5, <3>1
  <2>7. CASE ~(catalog[k] = None /\ v # None /\ v.task = t)
    <3>1. Cardinality(Owned(new, t)) <= Cardinality(Owned(catalog, t))
      BY <2>1, <2>2, <2>3, <2>4, <2>7, OneMore
    <3>2. Cardinality(Owned(catalog, t)) <= bound
      OBVIOUS
    <3> QED BY <2>1, <2>5, <3>1, <3>2
  <2> QED BY <2>6, <2>7
<1> QED BY <1>1, <1>2 DEF new

LEMMA TasksNat ==
  /\ MaxTasks \in Nat \ {0} /\ MaxSteps \in Nat \ {0} /\ MaxAttachments \in Nat \ {0}
BY TasksAssumption

(* The task catalogs start within their bounds,                             *)
LEMMA TasksStart == TasksInit => TasksTypeOK
<1> SUFFICES ASSUME TasksInit PROVE TasksTypeOK
  OBVIOUS
<1>1. tasks \in [Task -> TodoTask \cup {None}] /\ Cardinality(Tasks) <= MaxTasks
  BY TasksAssumption DEF TasksInit, Tasks
<1>2. \A t \in Task : Cardinality(StepsOf(t)) <= MaxSteps /\ Cardinality(AttachmentsOf(t)) <= MaxAttachments
  <2> SUFFICES ASSUME NEW t \in Task
               PROVE  Cardinality(StepsOf(t)) <= MaxSteps /\ Cardinality(AttachmentsOf(t)) <= MaxAttachments
    OBVIOUS
  <2>1. StepsOf(t) = {} /\ AttachmentsOf(t) = {}
    BY DEF TasksInit, StepsOf, AttachmentsOf, Used
  <2> QED BY <2>1, FS_EmptySet, TasksNat
<1> QED BY <1>1, <1>2 DEF TasksInit, TasksTypeOK

LEMMA PutTyped ==
  ASSUME TasksTypeOK, NEW t \in Task, NEW v \in TodoTask \cup {None}, Put(t, v),
         tasks[t] = None /\ v # None => Cardinality(Tasks) < MaxTasks
  PROVE  TasksTypeOK'
<1>1. /\ tasks' \in [Task -> TodoTask \cup {None}]
      /\ Cardinality(Used(tasks')) <= MaxTasks
  <2>1. tasks' = [tasks EXCEPT ![t] = v] /\ tasks \in [Task -> TodoTask \cup {None}]
    BY DEF Put, TasksTypeOK
  <2> QED BY <2>1, PutBounded, TasksAssumption, TasksNat DEF TasksTypeOK, Tasks
<1> QED BY <1>1 DEF Put, TasksTypeOK, Tasks, StepsOf, AttachmentsOf

LEMMA PutStepTyped ==
  ASSUME TasksTypeOK, NEW s \in Step, NEW v \in TodoStep \cup {None}, PutStep(s, v),
         steps[s] # None /\ v # None => v.task = steps[s].task,
         steps[s] = None /\ v # None => Cardinality(StepsOf(v.task)) < MaxSteps
  PROVE  TasksTypeOK'
<1>1. \A t \in Task : StepsOf(t) = Owned(steps, t)
  BY DEF StepsOf, Owned
<1>2. \A t \in Task : StepsOf(t)' = Owned(steps', t)
  BY DEF StepsOf, Owned
<1>3. v # None => v.task \in Task
  BY DEF TodoStep
<1>4. /\ steps' \in [Step -> TodoStep \cup {None}]
      /\ \A t \in Task : Cardinality(Owned(steps', t)) <= MaxSteps
  <2>1. steps' = [steps EXCEPT ![s] = v] /\ steps \in [Step -> TodoStep \cup {None}]
    BY DEF PutStep, TasksTypeOK
  <2>2. \A t \in Task : Cardinality(Owned(steps, t)) <= MaxSteps
    BY <1>1 DEF TasksTypeOK
  <2>3. steps[s] = None /\ v # None => Cardinality(Owned(steps, v.task)) < MaxSteps
    BY <1>1, <1>3
  <2> QED BY <2>1, <2>2, <2>3, OwnersBounded, TasksAssumption, TasksNat
<1> QED BY <1>2, <1>4 DEF PutStep, TasksTypeOK, Tasks, AttachmentsOf

LEMMA PutAttachmentTyped ==
  ASSUME TasksTypeOK, NEW a \in Attachment, NEW v \in [task : Task, data : Metadata] \cup {None},
         PutAttachment(a, v),
         attachments[a] # None /\ v # None => v.task = attachments[a].task,
         attachments[a] = None /\ v # None => Cardinality(AttachmentsOf(v.task)) < MaxAttachments
  PROVE  TasksTypeOK'
<1> DEFINE R == [task : Task, data : Metadata]
<1>1. \A t \in Task : AttachmentsOf(t) = Owned(attachments, t)
  BY DEF AttachmentsOf, Owned
<1>2. \A t \in Task : AttachmentsOf(t)' = Owned(attachments', t)
  BY DEF AttachmentsOf, Owned
<1>3. v # None => v.task \in Task
  OBVIOUS
<1>4. /\ attachments' \in [Attachment -> R \cup {None}]
      /\ \A t \in Task : Cardinality(Owned(attachments', t)) <= MaxAttachments
  <2>1. attachments' = [attachments EXCEPT ![a] = v] /\ attachments \in [Attachment -> R \cup {None}]
    BY DEF PutAttachment, TasksTypeOK
  <2>2. \A t \in Task : Cardinality(Owned(attachments, t)) <= MaxAttachments
    BY <1>1 DEF TasksTypeOK
  <2>3. attachments[a] = None /\ v # None => Cardinality(Owned(attachments, v.task)) < MaxAttachments
    BY <1>1, <1>3
  <2>4. v \in R \cup {None}
    OBVIOUS
  <2> HIDE DEF R
  <2> QED BY <2>1, <2>2, <2>3, <2>4, OwnersBounded, TasksAssumption, TasksNat
<1> QED BY <1>2, <1>4 DEF PutAttachment, TasksTypeOK, Tasks, StepsOf

LEMMA PutFlagTyped ==
  ASSUME TasksTypeOK, NEW m \in Message, NEW v \in FollowUpFlag \cup {None}, PutFlag(m, v)
  PROVE  TasksTypeOK'
BY DEF PutFlag, TasksTypeOK, Tasks, StepsOf, AttachmentsOf

(* What the calls on flags write is what FollowUpFlag's constructor takes.  *)
LEMMA FlagsWritten ==
  ASSUME TasksTypeOK, NEW m \in Message
  PROVE  /\ Flag(m) => PutFlag(m, flags'[m]) /\ flags'[m] \in FollowUpFlag
         /\ \A day \in Day : CompleteFlag(m, day) =>
              PutFlag(m, flags'[m]) /\ flags'[m] \in FollowUpFlag
         /\ \A start \in MaybeDay, due \in Day, reminder \in MaybeDay :
              ScheduleFollowUp(m, start, due, reminder) =>
                PutFlag(m, flags'[m]) /\ flags'[m] \in FollowUpFlag
<1>1. flags \in [Message -> FollowUpFlag \cup {None}] /\ flags[m] \in FollowUpFlag \cup {None}
  BY DEF TasksTypeOK
<1>2. None \notin Day /\ None \in MaybeDay /\ Day \subseteq MaybeDay
  BY TasksAssumption DEF MaybeDay
<1>3. ASSUME NEW v, PutFlag(m, v)
      PROVE  PutFlag(m, flags'[m]) /\ flags'[m] = v
  BY <1>1, <1>3 DEF PutFlag
<1>4. ASSUME Flag(m)
      PROVE  PutFlag(m, flags'[m]) /\ flags'[m] \in FollowUpFlag
  <2> DEFINE v == [state |-> "FLAGGED",
                 start |-> IF flags[m] = None THEN None ELSE flags[m].start,
                 due |-> IF flags[m] = None THEN None ELSE flags[m].due,
                 done |-> None, reminder |-> None]
  <2>1. v \in FollowUpFlag
    BY <1>1, <1>2 DEF FollowUpFlag, FollowUpState, NotAfter
  <2>2. PutFlag(m, v)
    BY <1>4 DEF Flag
  <2> QED BY <1>3, <2>1, <2>2
<1>5. ASSUME NEW day \in Day, CompleteFlag(m, day)
      PROVE  PutFlag(m, flags'[m]) /\ flags'[m] \in FollowUpFlag
  <2> DEFINE v == [flags[m] EXCEPT !.state = "COMPLETED", !.done = day, !.reminder = None]
  <2>1. flags[m] \in FollowUpFlag
    BY <1>1, <1>5 DEF CompleteFlag
  <2>2. v \in FollowUpFlag
    BY <2>1, <1>2 DEF FollowUpFlag, FollowUpState, NotAfter
  <2>3. PutFlag(m, v)
    BY <1>5 DEF CompleteFlag
  <2> QED BY <1>3, <2>2, <2>3
<1>6. ASSUME NEW start \in MaybeDay, NEW due \in Day, NEW reminder \in MaybeDay,
             ScheduleFollowUp(m, start, due, reminder)
      PROVE  PutFlag(m, flags'[m]) /\ flags'[m] \in FollowUpFlag
  BY <1>3, <1>6 DEF ScheduleFollowUp
<1> QED BY <1>4, <1>5, <1>6

LEMMA TaskCallTyped == TasksTypeOK /\ TaskCall => TasksTypeOK'
<1> SUFFICES ASSUME TasksTypeOK, TaskCall PROVE TasksTypeOK'
  OBVIOUS
<1>1. tasks \in [Task -> TodoTask \cup {None}]
  BY DEF TasksTypeOK
<1>2. ASSUME NEW t \in Task, NEW list \in TodoList, NEW title \in Title, CreateTask(t, list, title)
      PROVE  TasksTypeOK'
  <2> DEFINE v == [list |-> list, title |-> title, state |-> "NOT_STARTED", due |-> None]
  <2>1. v \in TodoTask
    BY DEF TodoTask, TaskState, MaybeDay
  <2>2. Put(t, v) /\ (tasks[t] = None => Cardinality(Tasks) < MaxTasks)
    BY <1>2 DEF CreateTask
  <2> HIDE DEF v
  <2> QED BY <2>1, <2>2, PutTyped
<1>3. ASSUME NEW t \in Task, NEW list \in TodoList, NEW title \in Title, UpdateTask(t, list, title)
      PROVE  TasksTypeOK'
  <2> DEFINE v == [tasks[t] EXCEPT !.list = list, !.title = title]
  <2>1. tasks[t] # None /\ tasks[t] \in TodoTask
    BY <1>1, <1>3 DEF UpdateTask, Tasks, Used
  <2>2. v \in TodoTask /\ Put(t, v)
    BY <1>3, <2>1 DEF UpdateTask, TodoTask
  <2> HIDE DEF v
  <2> QED BY <2>1, <2>2, PutTyped
<1>4. ASSUME NEW t \in Task, CompleteTask(t)
      PROVE  TasksTypeOK'
  <2> DEFINE v == [tasks[t] EXCEPT !.state = "COMPLETED"]
  <2>1. tasks[t] # None /\ tasks[t] \in TodoTask
    BY <1>1, <1>4 DEF CompleteTask, Tasks, Used
  <2>2. v \in TodoTask /\ Put(t, v)
    BY <1>4, <2>1 DEF CompleteTask, TodoTask, TaskState
  <2> HIDE DEF v
  <2> QED BY <2>1, <2>2, PutTyped
<1>5. ASSUME NEW t \in Task, DeleteTask(t)
      PROVE  TasksTypeOK'
  BY <1>5, PutTyped DEF DeleteTask
<1>6. ASSUME NEW t \in Task, NEW m \in Message, NEW list \in TodoList, TaskFromEmail(m, t, list)
      PROVE  TasksTypeOK'
  BY <1>2, <1>6, TasksAssumption DEF TaskFromEmail
<1> QED BY <1>2, <1>3, <1>4, <1>5, <1>6 DEF TaskCall

LEMMA StepCallTyped == TasksTypeOK /\ StepCall => TasksTypeOK'
<1> SUFFICES ASSUME TasksTypeOK, NEW s \in Step, NEW t \in Task,
                    \/ \E title \in Title : AddStep(s, t, title) \/ UpdateStep(s, t, title)
                    \/ CompleteStep(s, t)
                    \/ DeleteStep(s, t)
             PROVE  TasksTypeOK'
  BY DEF StepCall
<1>1. steps \in [Step -> TodoStep \cup {None}]
  BY DEF TasksTypeOK
<1>2. ASSUME NEW title \in Title, AddStep(s, t, title)
      PROVE  TasksTypeOK'
  <2> DEFINE v == [task |-> t, title |-> title, completed |-> FALSE]
  <2>1. v \in TodoStep /\ v.task = t
    BY DEF TodoStep
  <2>2. /\ PutStep(s, v) /\ (steps[s] # None => steps[s] = v)
        /\ (steps[s] = None => Cardinality(StepsOf(t)) < MaxSteps)
    BY <1>2 DEF AddStep
  <2> HIDE DEF v
  <2> QED BY <2>1, <2>2, PutStepTyped
<1>3. ASSUME NEW v, PutStep(s, v), StepIsFor(s, t), steps[s] # None, steps[s] \in TodoStep =>
               v \in TodoStep /\ v.task = steps[s].task
      PROVE  TasksTypeOK'
  <2>1. steps[s] \in TodoStep
    BY <1>1, <1>3
  <2> QED BY <1>3, <2>1, PutStepTyped
<1>4. ASSUME NEW title \in Title, UpdateStep(s, t, title)
      PROVE  TasksTypeOK'
  <2> DEFINE v == [steps[s] EXCEPT !.title = title]
  <2>1. steps[s] \in TodoStep => v \in TodoStep /\ v.task = steps[s].task
    BY DEF TodoStep
  <2>2. PutStep(s, v) /\ StepIsFor(s, t) /\ steps[s] # None
    BY <1>4 DEF UpdateStep
  <2> HIDE DEF v
  <2> QED BY <1>3, <2>1, <2>2
<1>5. ASSUME CompleteStep(s, t)
      PROVE  TasksTypeOK'
  <2> DEFINE v == [steps[s] EXCEPT !.completed = TRUE]
  <2>1. steps[s] \in TodoStep => v \in TodoStep /\ v.task = steps[s].task
    BY DEF TodoStep
  <2>2. PutStep(s, v) /\ StepIsFor(s, t) /\ steps[s] # None
    BY <1>5 DEF CompleteStep
  <2> HIDE DEF v
  <2> QED BY <1>3, <2>1, <2>2
<1>6. ASSUME DeleteStep(s, t)
      PROVE  TasksTypeOK'
  BY <1>6, PutStepTyped DEF DeleteStep
<1> QED BY <1>2, <1>4, <1>5, <1>6

(* and stay so.                                                             *)
LEMMA TasksKept == TasksTypeOK /\ [TasksNext]_tasksVars => TasksTypeOK'
<1> SUFFICES ASSUME TasksTypeOK, [TasksNext]_tasksVars PROVE TasksTypeOK'
  OBVIOUS
<1>1. ASSUME NEW t \in Task, NEW wanted \in Schedule \cup {None}, SetSchedule(t, wanted)
      PROVE  TasksTypeOK'
  <2> DEFINE v == [tasks[t] EXCEPT !.due = IF wanted = None THEN None ELSE wanted.due]
  <2>1. /\ tasks \in [Task -> TodoTask \cup {None}] /\ tasks[t] # None
        /\ tasks' = [tasks EXCEPT ![t] = v]
    BY <1>1 DEF SetSchedule, TasksTypeOK, Tasks, Used
  <2>2. v \in TodoTask
    BY <2>1 DEF TodoTask, Schedule, MaybeDay
  <2>3. tasks' \in [Task -> TodoTask \cup {None}] /\ Cardinality(Used(tasks')) <= MaxTasks
    <3> HIDE DEF v
    <3> QED BY <2>1, <2>2, PutBounded, TasksAssumption, TasksNat DEF TasksTypeOK, Tasks
  <2>4. schedules' \in [Task -> Schedule \cup {None}]
    BY <1>1 DEF SetSchedule, TasksTypeOK
  <2> QED BY <1>1, <2>3, <2>4 DEF SetSchedule, TasksTypeOK, Tasks, StepsOf, AttachmentsOf
<1>2. CASE ScheduleCall
  BY <1>1, <1>2 DEF ScheduleCall, ClearSchedule
<1>3. ASSUME NEW t \in Task, NEW enabled \in BOOLEAN, SetImportant(t, enabled) \/ SetMyDay(t, enabled)
      PROVE  TasksTypeOK'
  <2>1. PICK v \in [important : BOOLEAN, my_day : BOOLEAN] : Focus(t, v)
    BY <1>3 DEF SetImportant, SetMyDay, TasksTypeOK
  <2> QED BY <2>1 DEF Focus, TasksTypeOK, Tasks, StepsOf, AttachmentsOf
<1>4. ASSUME NEW t \in Task, NEW note \in Note \cup {None}, SetNote(t, note)
      PROVE  TasksTypeOK'
  BY <1>4 DEF SetNote, TasksTypeOK, Tasks, StepsOf, AttachmentsOf
<1>5. ASSUME NEW t \in Task, NEW a \in Attachment, NEW data \in Metadata, AddAttachment(a, t, data)
      PROVE  TasksTypeOK'
  <2> DEFINE v == [task |-> t, data |-> data]
  <2>1. v \in [task : Task, data : Metadata] /\ v.task = t
    OBVIOUS
  <2>2. /\ PutAttachment(a, v) /\ (attachments[a] # None => attachments[a] = v)
        /\ (attachments[a] = None => Cardinality(AttachmentsOf(t)) < MaxAttachments)
    BY <1>5 DEF AddAttachment
  <2> HIDE DEF v
  <2> QED BY <2>1, <2>2, PutAttachmentTyped
<1>6. ASSUME NEW t \in Task, NEW a \in Attachment, RemoveAttachment(a, t)
      PROVE  TasksTypeOK'
  BY <1>6, PutAttachmentTyped DEF RemoveAttachment
<1>7. CASE ContentCall
  BY <1>4, <1>5, <1>6, <1>7 DEF ContentCall, ClearNote
<1>8. CASE FlagCall
  BY <1>8, FlagsWritten, PutFlagTyped DEF FlagCall, Unflag
<1>9. ASSUME NEW m \in Message, NEW t \in Task, Link(m, t) \/ Unlink(m, t)
      PROVE  TasksTypeOK'
  BY <1>9 DEF Link, Unlink, PutLink, TasksTypeOK, Tasks, StepsOf, AttachmentsOf
<1>10. CASE UNCHANGED tasksVars
  BY <1>10 DEF tasksVars, TasksTypeOK, Tasks, StepsOf, AttachmentsOf
<1> QED BY <1>2, <1>3, <1>7, <1>8, <1>9, <1>10, TaskCallTyped, StepCallTyped
        DEF TasksNext, FocusCall, LinkCall

-----------------------------------------------------------------------------
(* OutlookTasks: what a step may do.                                        *)

(* A call on steps or attachments writes one entry, for a task there is.    *)
LEMMA StepWritten ==
  ASSUME TasksTypeOK, StepCall
  PROVE  \E s \in Step, t \in Tasks, v \in TodoStep \cup {None} :
           /\ PutStep(s, v)
           /\ steps[s] # None => steps[s].task = t
           /\ v # None => v.task = t
<1> PICK s \in Step, t \in Task :
           \/ \E title \in Title : AddStep(s, t, title) \/ UpdateStep(s, t, title)
           \/ CompleteStep(s, t)
           \/ DeleteStep(s, t)
  BY DEF StepCall
<1>1. StepIsFor(s, t)
  BY DEF AddStep, UpdateStep, CompleteStep, DeleteStep
<1>2. steps[s] \in TodoStep \cup {None}
  BY DEF TasksTypeOK
<1>3. PICK v \in TodoStep \cup {None} : PutStep(s, v) /\ (v # None => v.task = t)
  <2>1. ASSUME NEW title \in Title, AddStep(s, t, title)
        PROVE  \E v \in TodoStep : PutStep(s, v) /\ v.task = t
    <3>1. [task |-> t, title |-> title, completed |-> FALSE] \in TodoStep
      BY DEF TodoStep
    <3> QED BY <2>1, <3>1 DEF AddStep
  <2>2. ASSUME NEW title \in Title, UpdateStep(s, t, title)
        PROVE  \E v \in TodoStep : PutStep(s, v) /\ v.task = t
    <3>1. steps[s] \in TodoStep /\ steps[s].task = t
      BY <1>1, <1>2, <2>2 DEF UpdateStep, StepIsFor
    <3>2. [steps[s] EXCEPT !.title = title] \in TodoStep /\ [steps[s] EXCEPT !.title = title].task = t
      BY <3>1 DEF TodoStep
    <3> QED BY <2>2, <3>2 DEF UpdateStep
  <2>3. ASSUME CompleteStep(s, t)
        PROVE  \E v \in TodoStep : PutStep(s, v) /\ v.task = t
    <3>1. steps[s] \in TodoStep /\ steps[s].task = t
      BY <1>1, <1>2, <2>3 DEF CompleteStep, StepIsFor
    <3>2. [steps[s] EXCEPT !.completed = TRUE] \in TodoStep /\ [steps[s] EXCEPT !.completed = TRUE].task = t
      BY <3>1 DEF TodoStep
    <3> QED BY <2>3, <3>2 DEF CompleteStep
  <2>4. ASSUME DeleteStep(s, t)
        PROVE  PutStep(s, None)
    BY <2>4 DEF DeleteStep
  <2> QED BY <2>1, <2>2, <2>3, <2>4
<1> QED BY <1>1, <1>3 DEF StepIsFor

(* The attachment calls write one entry, for the task they name.            *)
LEMMA AttachmentWritten ==
  ASSUME NEW t \in Task, NEW a \in Attachment,
         RemoveAttachment(a, t) \/ \E data \in Metadata : AddAttachment(a, t, data)
  PROVE  \E v \in [task : Task, data : Metadata] \cup {None} :
           /\ t \in Tasks /\ PutAttachment(a, v)
           /\ attachments[a] # None => attachments[a].task = t
           /\ v # None => v.task = t
<1>1. CASE RemoveAttachment(a, t)
  BY <1>1 DEF RemoveAttachment
<1>2. ASSUME NEW data \in Metadata, AddAttachment(a, t, data)
      PROVE  /\ t \in Tasks /\ PutAttachment(a, [task |-> t, data |-> data])
             /\ attachments[a] # None => attachments[a].task = t
  BY <1>2 DEF AddAttachment
<1>3. \A data \in Metadata : /\ [task |-> t, data |-> data] \in [task : Task, data : Metadata]
                             /\ [task |-> t, data |-> data].task = t
  OBVIOUS
<1> QED BY <1>1, <1>2, <1>3

(* An entry that is another task's, before and after, is not among a        *)
(* task's own.                                                              *)
Own(catalog, t) == [j \in Owned(catalog, t) |-> catalog[j]]

(* Writing an entry of another task leaves what this one owns.              *)
LEMMA OthersEntry ==
  ASSUME NEW catalog, NEW new, NEW k, NEW t, DOMAIN new = DOMAIN catalog,
         \A j \in DOMAIN catalog \ {k} : new[j] = catalog[j],
         catalog[k] # None => catalog[k].task # t, new[k] # None => new[k].task # t
  PROVE  Own(new, t) = Own(catalog, t)
<1>1. k \notin Owned(new, t) /\ k \notin Owned(catalog, t)
  BY DEF Owned, Used
<1>2. Owned(new, t) = Owned(catalog, t) /\ Owned(catalog, t) \subseteq DOMAIN catalog \ {k}
  BY <1>1 DEF Owned, Used
<1> QED BY <1>2 DEF Own

OrphansStay ==
  \A t \in Task : t \notin Tasks /\ t \notin Tasks' => KeptFor(t)' = KeptFor(t)

(* What is kept for a task that is gone stays as it is.                     *)
LEMMA OrphanSteps == TasksTypeOK /\ [TasksNext]_tasksVars => OrphansStay
<1> SUFFICES ASSUME TasksTypeOK, [TasksNext]_tasksVars,
                    NEW t \in Task, t \notin Tasks, t \notin Tasks'
             PROVE  KeptFor(t)' = KeptFor(t)
  BY DEF OrphansStay
<1>1. KeptFor(t) = <<schedules[t], focus[t], notes[t], Own(steps, t), Own(attachments, t),
                     {m \in Message : links[m] = t}>>
  BY DEF KeptFor, StepsOf, AttachmentsOf, Owned, Own
<1>2. KeptFor(t)' = <<schedules'[t], focus'[t], notes'[t], Own(steps', t), Own(attachments', t),
                      {m \in Message : links'[m] = t}>>
  BY DEF KeptFor, StepsOf, AttachmentsOf, Owned, Own
<1>3. CASE UNCHANGED <<schedules, focus, notes, steps, attachments, links>>
  BY <1>1, <1>2, <1>3
<1>4. ASSUME NEW u \in Tasks, NEW wanted, SetSchedule(u, wanted)
      PROVE  KeptFor(t)' = KeptFor(t)
  BY <1>1, <1>2, <1>4 DEF SetSchedule, TasksTypeOK
<1>5. ASSUME NEW u \in Tasks, NEW v, Focus(u, v)
      PROVE  KeptFor(t)' = KeptFor(t)
  BY <1>1, <1>2, <1>5 DEF Focus, TasksTypeOK
<1>6. ASSUME NEW u \in Tasks, NEW v, SetNote(u, v)
      PROVE  KeptFor(t)' = KeptFor(t)
  BY <1>1, <1>2, <1>6 DEF SetNote, TasksTypeOK
<1>7. CASE StepCall
  <2>1. PICK s \in Step, u \in Tasks, v \in TodoStep \cup {None} :
           /\ PutStep(s, v)
           /\ steps[s] # None => steps[s].task = u
           /\ v # None => v.task = u
    BY <1>7, StepWritten
  <2>2. steps' = [steps EXCEPT ![s] = v] /\ steps \in [Step -> TodoStep \cup {None}] /\ u # t
    BY <2>1 DEF PutStep, TasksTypeOK
  <2>3. /\ DOMAIN steps' = DOMAIN steps
        /\ \A j \in DOMAIN steps \ {s} : steps'[j] = steps[j]
        /\ steps[s] # None => steps[s].task # t
        /\ steps'[s] # None => steps'[s].task # t
    BY <2>1, <2>2
  <2>4. Own(steps', t) = Own(steps, t)
    BY <2>3, OthersEntry
  <2> QED BY <1>1, <1>2, <2>1, <2>4 DEF PutStep
<1>8. ASSUME NEW u \in Task, NEW a \in Attachment,
             RemoveAttachment(a, u) \/ \E data \in Metadata : AddAttachment(a, u, data)
      PROVE  KeptFor(t)' = KeptFor(t)
  <2>1. PICK v \in [task : Task, data : Metadata] \cup {None} :
           /\ u \in Tasks /\ PutAttachment(a, v)
           /\ attachments[a] # None => attachments[a].task = u
           /\ v # None => v.task = u
    BY <1>8, AttachmentWritten
  <2>2. /\ attachments' = [attachments EXCEPT ![a] = v]
        /\ attachments \in [Attachment -> [task : Task, data : Metadata] \cup {None}] /\ u # t
    BY <2>1 DEF PutAttachment, TasksTypeOK
  <2>3. /\ DOMAIN attachments' = DOMAIN attachments
        /\ \A j \in DOMAIN attachments \ {a} : attachments'[j] = attachments[j]
        /\ attachments[a] # None => attachments[a].task # t
        /\ attachments'[a] # None => attachments'[a].task # t
    BY <2>1, <2>2
  <2>4. Own(attachments', t) = Own(attachments, t)
    BY <2>3, OthersEntry
  <2> QED BY <1>1, <1>2, <2>1, <2>4 DEF PutAttachment
<1>9. ASSUME NEW m \in Message, NEW u \in Task, Link(m, u) \/ Unlink(m, u)
      PROVE  KeptFor(t)' = KeptFor(t)
  <2>1. u # t /\ t # None
    BY <1>9, TasksAssumption DEF Link, Unlink
  <2>2. \A n \in Message : links'[n] = t <=> links[n] = t
    BY <1>9, <2>1 DEF Link, Unlink, PutLink, TasksTypeOK
  <2> QED BY <1>1, <1>2, <1>9, <2>2 DEF Link, Unlink, PutLink
<1>10. CASE TaskCall
  BY <1>3, <1>10 DEF TaskCall, CreateTask, UpdateTask, CompleteTask, DeleteTask, TaskFromEmail, Put
<1>11. CASE ScheduleCall
  BY <1>4, <1>11 DEF ScheduleCall, ClearSchedule, SetSchedule
<1>12. CASE FocusCall
  BY <1>5, <1>12 DEF FocusCall, SetImportant, SetMyDay, Focus
<1>13. CASE ContentCall
  BY <1>6, <1>8, <1>13 DEF ContentCall, ClearNote, SetNote
<1>14. CASE FlagCall
  BY <1>3, <1>14 DEF FlagCall, Flag, Unflag, CompleteFlag, ScheduleFollowUp, PutFlag
<1>15. CASE UNCHANGED tasksVars
  BY <1>3, <1>15 DEF tasksVars
<1> QED BY <1>7, <1>9, <1>10, <1>11, <1>12, <1>13, <1>14, <1>15 DEF TasksNext, LinkCall

SchedulesStay ==
  \A t \in Task :
    t \in Tasks /\ t \in Tasks' /\ schedules[t] # None /\ schedules[t].due = tasks[t].due
      => schedules[t]' = None \/ schedules[t]'.due = tasks[t]'.due

(* The two copies of a due day do not part.                                 *)
LEMMA ScheduleSteps == TasksTypeOK /\ [TasksNext]_tasksVars => SchedulesStay
<1> SUFFICES ASSUME TasksTypeOK, [TasksNext]_tasksVars,
                    NEW t \in Task, t \in Tasks, t \in Tasks', schedules[t] # None,
                    schedules[t].due = tasks[t].due
             PROVE  schedules'[t] = None \/ schedules'[t].due = tasks'[t].due
  BY DEF SchedulesStay
<1>1. /\ tasks \in [Task -> TodoTask \cup {None}] /\ tasks[t] \in TodoTask
      /\ schedules \in [Task -> Schedule \cup {None}]
  BY DEF TasksTypeOK, Tasks, Used
<1>2. CASE UNCHANGED <<tasks, schedules>>
  BY <1>2
<1>3. ASSUME NEW u \in Task, NEW v \in TodoTask, Put(u, v), tasks[u] # None => v.due = tasks[u].due
      PROVE  schedules'[t].due = tasks'[t].due
  <2>1. tasks[t] # None
    BY DEF Tasks, Used
  <2>2. tasks' = [tasks EXCEPT ![u] = v] /\ schedules' = schedules
    BY <1>3 DEF Put
  <2> QED BY <1>1, <1>3, <2>1, <2>2
<1>4. ASSUME NEW u \in Task, NEW list \in TodoList, NEW title \in Title, CreateTask(u, list, title)
      PROVE  schedules'[t].due = tasks'[t].due
  <2> DEFINE v == [list |-> list, title |-> title, state |-> "NOT_STARTED", due |-> None]
  <2>1. v \in TodoTask
    BY DEF TodoTask, TaskState, MaybeDay
  <2>2. Put(u, v) /\ (tasks[u] # None => tasks[u] = v)
    BY <1>4 DEF CreateTask
  <2> HIDE DEF v
  <2> QED BY <1>3, <2>1, <2>2
<1>5. ASSUME NEW u \in Task, NEW list \in TodoList, NEW title \in Title, UpdateTask(u, list, title)
      PROVE  schedules'[t].due = tasks'[t].due
  <2> DEFINE v == [tasks[u] EXCEPT !.list = list, !.title = title]
  <2>1. tasks[u] \in TodoTask /\ Put(u, v)
    BY <1>1, <1>5 DEF UpdateTask, Tasks, Used
  <2>2. v \in TodoTask /\ v.due = tasks[u].due
    BY <2>1 DEF TodoTask
  <2> HIDE DEF v
  <2> QED BY <1>3, <2>1, <2>2
<1>6. ASSUME NEW u \in Task, CompleteTask(u)
      PROVE  schedules'[t].due = tasks'[t].due
  <2> DEFINE v == [tasks[u] EXCEPT !.state = "COMPLETED"]
  <2>1. tasks[u] \in TodoTask /\ Put(u, v)
    BY <1>1, <1>6 DEF CompleteTask, Tasks, Used
  <2>2. v \in TodoTask /\ v.due = tasks[u].due
    BY <2>1 DEF TodoTask, TaskState
  <2> HIDE DEF v
  <2> QED BY <1>3, <2>1, <2>2
<1>7. ASSUME NEW u \in Task, DeleteTask(u)
      PROVE  schedules'[t].due = tasks'[t].due
  <2>1. tasks' = [tasks EXCEPT ![u] = None] /\ schedules' = schedules
    BY <1>7 DEF DeleteTask, Put
  <2>2. u # t
    BY <1>1, <2>1 DEF Tasks, Used
  <2> QED BY <1>1, <2>1, <2>2
<1>8. CASE TaskCall
  BY <1>4, <1>5, <1>6, <1>7, <1>8, TasksAssumption DEF TaskCall, TaskFromEmail
<1>9. ASSUME NEW u \in Task, NEW wanted \in Schedule \cup {None}, SetSchedule(u, wanted)
      PROVE  schedules'[t] = None \/ schedules'[t].due = tasks'[t].due
  <2>1. CASE u = t
    <3>1. schedules'[t] = wanted
      BY <1>1, <1>9, <2>1 DEF SetSchedule
    <3>2. wanted # None => tasks'[t] = [tasks[t] EXCEPT !.due = wanted.due]
      BY <1>1, <1>9, <2>1 DEF SetSchedule
    <3>3. wanted # None => tasks'[t].due = wanted.due
      BY <1>1, <3>2 DEF TodoTask
    <3> QED BY <3>1, <3>3
  <2>2. CASE u # t
    BY <1>1, <1>9, <2>2 DEF SetSchedule
  <2> QED BY <2>1, <2>2
<1>10. CASE ScheduleCall
  BY <1>9, <1>10 DEF ScheduleCall, ClearSchedule
<1>11. CASE FocusCall \/ StepCall \/ ContentCall \/ FlagCall \/ LinkCall \/ UNCHANGED tasksVars
  BY <1>2, <1>11 DEF FocusCall, SetImportant, SetMyDay, Focus, StepCall, AddStep, UpdateStep,
     CompleteStep, DeleteStep, PutStep, ContentCall, SetNote, ClearNote, AddAttachment,
     RemoveAttachment, PutAttachment, FlagCall, Flag, Unflag, CompleteFlag, ScheduleFollowUp,
     PutFlag, LinkCall, Link, Unlink, PutLink, tasksVars
<1> QED BY <1>8, <1>10, <1>11 DEF TasksNext

CompletedStay ==
  \A t \in Tasks :
    tasks[t].state = "COMPLETED" /\ t \in Tasks' =>
      tasks[t]'.state = "COMPLETED" /\ (focus[t]'.my_day => focus[t].my_day)

(* A completed task stays completed.                                        *)
LEMMA CompletedSteps == TasksTypeOK /\ [TasksNext]_tasksVars => CompletedStay
<1> SUFFICES ASSUME TasksTypeOK, [TasksNext]_tasksVars,
                    NEW t \in Tasks, tasks[t].state = "COMPLETED", t \in Tasks'
             PROVE  tasks'[t].state = "COMPLETED" /\ (focus'[t].my_day => focus[t].my_day)
  BY DEF CompletedStay
<1>1. /\ tasks \in [Task -> TodoTask \cup {None}] /\ tasks[t] \in TodoTask /\ t \in Task
      /\ focus \in [Task -> [important : BOOLEAN, my_day : BOOLEAN]] /\ tasks[t] # None
  BY DEF TasksTypeOK, Tasks, Used
<1>2. CASE UNCHANGED <<tasks, focus>>
  BY <1>2
<1>3. ASSUME NEW u \in Task, NEW v \in TodoTask, tasks' = [tasks EXCEPT ![u] = v], UNCHANGED focus,
             tasks[u] # None /\ tasks[u].state = "COMPLETED" => v.state = "COMPLETED"
      PROVE  tasks'[t].state = "COMPLETED" /\ (focus'[t].my_day => focus[t].my_day)
  BY <1>1, <1>3
<1>4. ASSUME NEW u \in Task, NEW list \in TodoList, NEW title \in Title, CreateTask(u, list, title)
      PROVE  tasks'[t].state = "COMPLETED" /\ (focus'[t].my_day => focus[t].my_day)
  <2> DEFINE v == [list |-> list, title |-> title, state |-> "NOT_STARTED", due |-> None]
  <2>1. v \in TodoTask
    BY DEF TodoTask, TaskState, MaybeDay
  <2>2. Put(u, v) /\ (tasks[u] # None => tasks[u] = v)
    BY <1>4 DEF CreateTask
  <2> HIDE DEF v
  <2> QED BY <1>3, <2>1, <2>2 DEF Put
<1>5. ASSUME NEW u \in Task, NEW list \in TodoList, NEW title \in Title, UpdateTask(u, list, title)
      PROVE  tasks'[t].state = "COMPLETED" /\ (focus'[t].my_day => focus[t].my_day)
  <2> DEFINE v == [tasks[u] EXCEPT !.list = list, !.title = title]
  <2>1. tasks[u] \in TodoTask /\ Put(u, v)
    BY <1>1, <1>5 DEF UpdateTask, Tasks, Used
  <2>2. v \in TodoTask /\ v.state = tasks[u].state
    BY <2>1 DEF TodoTask
  <2> HIDE DEF v
  <2> QED BY <1>3, <2>1, <2>2 DEF Put
<1>6. ASSUME NEW u \in Task, CompleteTask(u)
      PROVE  tasks'[t].state = "COMPLETED" /\ (focus'[t].my_day => focus[t].my_day)
  <2> DEFINE v == [tasks[u] EXCEPT !.state = "COMPLETED"]
  <2>1. tasks[u] \in TodoTask /\ Put(u, v)
    BY <1>1, <1>6 DEF CompleteTask, Tasks, Used
  <2>2. v \in TodoTask /\ v.state = "COMPLETED"
    BY <2>1 DEF TodoTask, TaskState
  <2> HIDE DEF v
  <2> QED BY <1>3, <2>1, <2>2 DEF Put
<1>7. ASSUME NEW u \in Task, DeleteTask(u)
      PROVE  tasks'[t].state = "COMPLETED" /\ (focus'[t].my_day => focus[t].my_day)
  <2>1. tasks' = [tasks EXCEPT ![u] = None] /\ focus' = focus
    BY <1>7 DEF DeleteTask, Put
  <2>2. u # t
    BY <1>1, <2>1 DEF Tasks, Used
  <2> QED BY <1>1, <2>1, <2>2
<1>8. CASE TaskCall
  BY <1>4, <1>5, <1>6, <1>7, <1>8, TasksAssumption DEF TaskCall, TaskFromEmail
<1>9. ASSUME NEW u \in Task, NEW wanted \in Schedule \cup {None}, SetSchedule(u, wanted)
      PROVE  tasks'[t].state = "COMPLETED" /\ (focus'[t].my_day => focus[t].my_day)
  <2> DEFINE v == [tasks[u] EXCEPT !.due = IF wanted = None THEN None ELSE wanted.due]
  <2>1. tasks[u] \in TodoTask /\ tasks' = [tasks EXCEPT ![u] = v] /\ focus' = focus
    BY <1>1, <1>9 DEF SetSchedule, Tasks, Used
  <2>2. v \in TodoTask /\ v.state = tasks[u].state
    BY <2>1 DEF TodoTask, Schedule, MaybeDay
  <2> HIDE DEF v
  <2> QED BY <1>3, <2>1, <2>2
<1>10. CASE ScheduleCall
  BY <1>9, <1>10 DEF ScheduleCall, ClearSchedule
<1>11. ASSUME NEW u \in Task, NEW enabled \in BOOLEAN, SetImportant(u, enabled) \/ SetMyDay(u, enabled)
       PROVE  tasks'[t].state = "COMPLETED" /\ (focus'[t].my_day => focus[t].my_day)
  <2>1. CASE u # t
    BY <1>1, <1>11, <2>1 DEF SetImportant, SetMyDay, Focus
  <2>2. CASE u = t /\ SetImportant(u, enabled)
    BY <1>1, <2>2 DEF SetImportant, Focus
  <2>3. CASE u = t /\ SetMyDay(u, enabled)
    <3>1. enabled = FALSE
      BY <2>3 DEF SetMyDay
    <3> QED BY <1>1, <2>3, <3>1 DEF SetMyDay, Focus
  <2> QED BY <1>11, <2>1, <2>2, <2>3
<1>12. CASE StepCall \/ ContentCall \/ FlagCall \/ LinkCall \/ UNCHANGED tasksVars
  BY <1>2, <1>12 DEF StepCall, AddStep, UpdateStep,
     CompleteStep, DeleteStep, PutStep, ContentCall, SetNote, ClearNote, AddAttachment,
     RemoveAttachment, PutAttachment, FlagCall, Flag, Unflag, CompleteFlag, ScheduleFollowUp,
     PutFlag, LinkCall, Link, Unlink, PutLink, tasksVars
<1> QED BY <1>8, <1>10, <1>11, <1>12 DEF TasksNext, FocusCall

KeysStay ==
  /\ \A s \in Used(steps) : steps[s]' # None => steps[s]'.task = steps[s].task
  /\ \A a \in Used(attachments) :
       attachments[a]' # None => attachments[a]'.task = attachments[a].task
  /\ \A m \in Message : links[m] # None => links[m]' \in {None, links[m]}

(* Steps, attachments and links keep their task.                            *)
LEMMA KeySteps == TasksTypeOK /\ [TasksNext]_tasksVars => KeysStay
<1> SUFFICES ASSUME TasksTypeOK, [TasksNext]_tasksVars PROVE KeysStay
  OBVIOUS
<1>1. CASE UNCHANGED <<steps, attachments, links>>
  BY <1>1 DEF KeysStay, Used
<1>2. CASE StepCall
  <2>1. PICK s \in Step, t \in Tasks, v \in TodoStep \cup {None} :
           /\ PutStep(s, v)
           /\ steps[s] # None => steps[s].task = t
           /\ v # None => v.task = t
    BY <1>2, StepWritten
  <2>2. /\ steps' = [steps EXCEPT ![s] = v] /\ steps \in [Step -> TodoStep \cup {None}]
        /\ UNCHANGED <<attachments, links>>
    BY <2>1 DEF PutStep, TasksTypeOK
  <2>3. \A r \in Used(steps) : r \in Step /\ steps[r] # None
    BY <2>2 DEF Used
  <2> QED BY <2>1, <2>2, <2>3 DEF KeysStay
<1>3. ASSUME NEW t \in Task, NEW a \in Attachment,
             RemoveAttachment(a, t) \/ \E data \in Metadata : AddAttachment(a, t, data)
      PROVE  KeysStay
  <2>1. PICK v \in [task : Task, data : Metadata] \cup {None} :
           /\ t \in Tasks /\ PutAttachment(a, v)
           /\ attachments[a] # None => attachments[a].task = t
           /\ v # None => v.task = t
    BY <1>3, AttachmentWritten
  <2>2. /\ attachments' = [attachments EXCEPT ![a] = v]
        /\ attachments \in [Attachment -> [task : Task, data : Metadata] \cup {None}]
        /\ UNCHANGED <<steps, links>>
    BY <2>1 DEF PutAttachment, TasksTypeOK
  <2>3. \A b \in Used(attachments) : b \in Attachment /\ attachments[b] # None
    BY <2>2 DEF Used
  <2> QED BY <2>1, <2>2, <2>3 DEF KeysStay
<1>4. ASSUME NEW m \in Message, NEW t \in Task, Link(m, t) \/ Unlink(m, t)
      PROVE  KeysStay
  BY <1>4 DEF Link, Unlink, PutLink, KeysStay, TasksTypeOK
<1>5. CASE ContentCall
  BY <1>1, <1>3, <1>5 DEF ContentCall, SetNote, ClearNote
<1>6. CASE TaskCall \/ ScheduleCall \/ FocusCall \/ FlagCall \/ UNCHANGED tasksVars
  BY <1>1, <1>6 DEF TaskCall, CreateTask, UpdateTask, CompleteTask, DeleteTask, TaskFromEmail, Put,
     ScheduleCall, ClearSchedule, SetSchedule, FocusCall, SetImportant, SetMyDay, Focus,
     FlagCall, Flag, Unflag, CompleteFlag, ScheduleFollowUp, PutFlag, tasksVars
<1> QED BY <1>2, <1>4, <1>5, <1>6 DEF TasksNext, LinkCall

CompletionsStay ==
  \A m \in Message : flags[m] # None /\ flags[m].state = "COMPLETED" =>
    flags[m]' \in {None, flags[m]}

(* A completed follow-up keeps its day.                                     *)
LEMMA CompletionSteps == TasksTypeOK /\ [TasksNext]_tasksVars => CompletionsStay
<1> SUFFICES ASSUME TasksTypeOK, [TasksNext]_tasksVars,
                    NEW m \in Message, flags[m] # None, flags[m].state = "COMPLETED"
             PROVE  flags'[m] \in {None, flags[m]}
  BY DEF CompletionsStay
<1>1. flags \in [Message -> FollowUpFlag \cup {None}] /\ flags[m] \in FollowUpFlag
  BY DEF TasksTypeOK
<1>2. CASE UNCHANGED flags
  BY <1>2
<1>3. ASSUME NEW n \in Message, n # m, NEW v, PutFlag(n, v)
      PROVE  flags'[m] = flags[m]
  BY <1>1, <1>3 DEF PutFlag
<1>4. ~Flag(m) /\ (\A start, due, reminder : ~ScheduleFollowUp(m, start, due, reminder))
  BY DEF Flag, ScheduleFollowUp
<1>5. Unflag(m) => flags'[m] = None
  BY <1>1 DEF Unflag, PutFlag
<1>6. ASSUME NEW day \in Day, CompleteFlag(m, day)
      PROVE  flags'[m] = flags[m]
  <2>1. flags'[m] = [flags[m] EXCEPT !.state = "COMPLETED", !.done = day, !.reminder = None]
    BY <1>1, <1>6 DEF CompleteFlag, PutFlag
  <2>2. flags[m].done = day /\ flags[m].reminder = None /\ flags[m].state = "COMPLETED"
    BY <1>1, <1>6 DEF CompleteFlag, FollowUpFlag
  <2> QED BY <1>1, <2>1, <2>2 DEF FollowUpFlag
<1>7. CASE FlagCall
  BY <1>3, <1>4, <1>5, <1>6, <1>7 DEF FlagCall, Flag, Unflag, CompleteFlag, ScheduleFollowUp
<1>8. CASE TaskCall \/ ScheduleCall \/ FocusCall \/ StepCall \/ ContentCall \/ LinkCall \/ UNCHANGED tasksVars
  BY <1>2, <1>8 DEF TaskCall, CreateTask, UpdateTask, CompleteTask, DeleteTask, TaskFromEmail, Put,
     ScheduleCall, ClearSchedule, SetSchedule, FocusCall, SetImportant, SetMyDay, Focus,
     StepCall, AddStep, UpdateStep, CompleteStep, DeleteStep, PutStep, ContentCall, SetNote,
     ClearNote, AddAttachment, RemoveAttachment, PutAttachment, LinkCall, Link, Unlink, PutLink, tasksVars
<1> QED BY <1>7, <1>8 DEF TasksNext

-----------------------------------------------------------------------------
(* OutlookPeople.                                                           *)

LEMMA PeopleNat ==
  /\ MaxContacts \in Nat \ {0} /\ MaxLists \in Nat \ {0}
  /\ MaxMembers \in Nat \ {0} /\ MaxPreferences \in Nat \ {0}
BY PeopleAssumption

LEMMA PeopleStart == PeopleInit => PeopleTypeOK
<1> SUFFICES ASSUME PeopleInit PROVE PeopleTypeOK
  OBVIOUS
<1>1. contacts \in [Person -> Name \cup {None}] /\ Cardinality(Used(contacts)) <= MaxContacts
  BY PeopleAssumption DEF PeopleInit
<1>2. Used(lists) = {} /\ Used(preferences) = {}
  BY DEF PeopleInit, Used
<1> QED BY <1>1, <1>2, FS_EmptySet, PeopleNat DEF PeopleInit, PeopleTypeOK

LEMMA PutContactTyped ==
  ASSUME PeopleTypeOK, NEW p \in Person, NEW v \in Name \cup {None}, PutContact(p, v),
         contacts[p] = None /\ v # None => Cardinality(Used(contacts)) < MaxContacts
  PROVE  PeopleTypeOK'
<1>1. contacts' = [contacts EXCEPT ![p] = v] /\ contacts \in [Person -> Name \cup {None}]
  BY DEF PutContact, PeopleTypeOK
<1>2. contacts' \in [Person -> Name \cup {None}] /\ Cardinality(Used(contacts')) <= MaxContacts
  BY <1>1, PutBounded, PeopleAssumption, PeopleNat DEF PeopleTypeOK
<1> QED BY <1>2 DEF PutContact, PeopleTypeOK

(* One entry of the lists is written: members go one at a time, those that  *)
(* are not contacts not at all, and the list stays within its bound.        *)
ListWritten(l, v) ==
  /\ PutList(l, v) /\ v \in SyntheticContactList \cup {None}
  /\ lists[l] = None /\ v # None => Cardinality(Used(lists)) < MaxLists
  /\ v # None => Cardinality(v.members) <= MaxMembers
  /\ lists[l] # None /\ v # None =>
       /\ \E p : lists[l].members \ v.members \subseteq {p}
       /\ \A p \in Person : contacts[p] = None => (p \in v.members <=> p \in lists[l].members)

(* Every call on lists writes one of them.                                  *)
LEMMA ListCallWrites ==
  ASSUME PeopleTypeOK, ListCall \/ MembershipCall
  PROVE  \E l \in ContactList, v \in SyntheticContactList \cup {None} : ListWritten(l, v)
<1>1. /\ lists \in [ContactList -> SyntheticContactList \cup {None}]
      /\ \A l \in ContactList : lists[l] # None =>
           /\ lists[l] \in SyntheticContactList /\ lists[l].members \subseteq Person
           /\ Cardinality(lists[l].members) <= MaxMembers
           /\ IsFiniteSet(lists[l].members) /\ Cardinality(lists[l].members) \in Nat
  <2>1. lists \in [ContactList -> SyntheticContactList \cup {None}]
    BY DEF PeopleTypeOK
  <2>2. ASSUME NEW l \in ContactList, lists[l] # None
        PROVE  /\ lists[l] \in SyntheticContactList /\ lists[l].members \subseteq Person
               /\ Cardinality(lists[l].members) <= MaxMembers
    BY <2>1, <2>2 DEF PeopleTypeOK, Used, SyntheticContactList
  <2> QED BY <2>1, <2>2, PeopleAssumption, FS_Subset, FS_CardinalityType
<1>2. ASSUME NEW l \in ContactList, NEW name \in Name, CreateList(l, name)
      PROVE  \E v \in SyntheticContactList : ListWritten(l, v)
  <2> DEFINE v == [name |-> name, members |-> {}]
  <2>1. v \in SyntheticContactList /\ v.members = {}
    BY DEF SyntheticContactList
  <2>2. /\ PutList(l, v) /\ (lists[l] # None => lists[l] = v)
        /\ (lists[l] = None => Cardinality(Used(lists)) < MaxLists)
    BY <1>2 DEF CreateList
  <2> HIDE DEF v
  <2> QED BY <2>1, <2>2, PeopleNat, FS_EmptySet DEF ListWritten
<1>3. ASSUME NEW l \in ContactList, NEW v, lists[l] # None, PutList(l, v),
             v = [lists[l] EXCEPT !.name = v.name, !.members = v.members],
             v.name \in Name, v.members \subseteq Person, Cardinality(v.members) <= MaxMembers,
             \E p : lists[l].members \ v.members \subseteq {p},
             \A p \in Person : contacts[p] = None => (p \in v.members <=> p \in lists[l].members)
      PROVE  v \in SyntheticContactList /\ ListWritten(l, v)
  <2>1. v \in SyntheticContactList
    BY <1>1, <1>3 DEF SyntheticContactList
  <2> QED BY <1>3, <2>1 DEF ListWritten
<1>4. ASSUME NEW l \in ContactList, NEW name \in Name, UpdateList(l, name)
      PROVE  \E v \in SyntheticContactList : ListWritten(l, v)
  <2> DEFINE v == [lists[l] EXCEPT !.name = name]
  <2>1. lists[l] # None /\ PutList(l, v)
    BY <1>4 DEF UpdateList
  <2>2. lists[l] \in SyntheticContactList
    BY <1>1, <2>1
  <2>3. /\ v = [lists[l] EXCEPT !.name = v.name, !.members = v.members]
        /\ v.name = name /\ v.members = lists[l].members
    BY <2>2 DEF SyntheticContactList
  <2> HIDE DEF v
  <2> QED BY <1>1, <1>3, <2>1, <2>3
<1>5. ASSUME NEW l \in ContactList, NEW p \in Person, AddMember(l, p)
      PROVE  \E v \in SyntheticContactList : ListWritten(l, v)
  <2> DEFINE v == [lists[l] EXCEPT !.members = @ \cup {p}]
  <2>1. /\ lists[l] # None /\ PutList(l, v) /\ contacts[p] # None
        /\ p \notin lists[l].members => Cardinality(lists[l].members) < MaxMembers
    BY <1>5 DEF AddMember
  <2>2. lists[l] \in SyntheticContactList
    BY <1>1, <2>1
  <2>3. /\ v = [lists[l] EXCEPT !.name = v.name, !.members = v.members]
        /\ v.name \in Name /\ v.members = lists[l].members \cup {p}
    BY <2>2 DEF SyntheticContactList
  <2> HIDE DEF v
  <2>4. Cardinality(v.members) <= MaxMembers
    <3>1. /\ IsFiniteSet(lists[l].members) /\ Cardinality(lists[l].members) \in Nat
          /\ Cardinality(lists[l].members) <= MaxMembers
      BY <1>1, <2>1
    <3>2. /\ Cardinality(v.members) \in Nat /\ Cardinality(v.members) <= Cardinality(lists[l].members) + 1
          /\ p \in lists[l].members => Cardinality(v.members) <= Cardinality(lists[l].members)
      BY <2>3, <3>1, OneMore
    <3> QED BY <2>1, <3>1, <3>2, PeopleNat
  <2> QED BY <1>1, <1>3, <2>1, <2>3, <2>4
<1>6. ASSUME NEW l \in ContactList, NEW p \in Person, RemoveMember(l, p)
      PROVE  \E v \in SyntheticContactList : ListWritten(l, v)
  <2> DEFINE v == [lists[l] EXCEPT !.members = @ \ {p}]
  <2>1. lists[l] # None /\ PutList(l, v) /\ contacts[p] # None
    BY <1>6 DEF RemoveMember
  <2>2. lists[l] \in SyntheticContactList
    BY <1>1, <2>1
  <2>3. /\ v = [lists[l] EXCEPT !.name = v.name, !.members = v.members]
        /\ v.name \in Name /\ v.members = lists[l].members \ {p}
    BY <2>2 DEF SyntheticContactList
  <2> HIDE DEF v
  <2>4. Cardinality(v.members) <= MaxMembers
    <3>1. Cardinality(v.members) <= Cardinality(lists[l].members) /\ Cardinality(v.members) \in Nat
      <4>1. IsFiniteSet(lists[l].members) /\ v.members \subseteq lists[l].members
        BY <1>1, <2>1, <2>3
      <4> QED BY <4>1, FS_Subset, FS_CardinalityType
    <3> QED BY <1>1, <2>1, <3>1, PeopleNat
  <2>5. lists[l].members \ v.members \subseteq {p}
    BY <2>3
  <2> QED BY <1>1, <1>3, <2>1, <2>3, <2>4, <2>5
<1>7. ASSUME NEW l \in ContactList, DeleteList(l)
      PROVE  ListWritten(l, None)
  BY <1>7 DEF DeleteList, ListWritten
<1> QED BY <1>2, <1>4, <1>5, <1>6, <1>7 DEF ListCall, MembershipCall

LEMMA PeopleKept == PeopleTypeOK /\ [PeopleNext]_peopleVars => PeopleTypeOK'
<1> SUFFICES ASSUME PeopleTypeOK, [PeopleNext]_peopleVars PROVE PeopleTypeOK'
  OBVIOUS
<1>1. CASE ContactCall
  BY <1>1, PutContactTyped DEF ContactCall, CreateContact, UpdateContact, DeleteContact
<1>2. CASE ListCall \/ MembershipCall
  <2>1. PICK l \in ContactList, v \in SyntheticContactList \cup {None} : ListWritten(l, v)
    BY <1>2, ListCallWrites
  <2>2. /\ lists' = [lists EXCEPT ![l] = v] /\ UNCHANGED <<contacts, preferences>>
        /\ lists \in [ContactList -> SyntheticContactList \cup {None}]
    BY <2>1 DEF ListWritten, PutList, PeopleTypeOK
  <2>3. lists' \in [ContactList -> SyntheticContactList \cup {None}] /\ Cardinality(Used(lists')) <= MaxLists
    BY <2>1, <2>2, PutBounded, PeopleAssumption, PeopleNat DEF PeopleTypeOK, ListWritten
  <2>4. \A k \in Used(lists') : Cardinality(lists'[k].members) <= MaxMembers
    BY <2>1, <2>2 DEF ListWritten, Used, PeopleTypeOK
  <2> QED BY <2>2, <2>3, <2>4 DEF PeopleTypeOK
<1>3. ASSUME NEW p \in Person, NEW v \in ContactPreference, Prefer(p, v)
      PROVE  PeopleTypeOK'
  <2>1. CASE UNCHANGED preferences
    BY <1>3, <2>1 DEF Prefer, PeopleTypeOK
  <2>2. CASE /\ preferences[p] = None => Cardinality(Used(preferences)) < MaxPreferences
             /\ preferences' = [preferences EXCEPT ![p] = v]
    <3>1. /\ preferences' \in [Person -> ContactPreference \cup {None}]
          /\ Cardinality(Used(preferences')) <= MaxPreferences
      BY <2>2, PutBounded, PeopleAssumption, PeopleNat DEF PeopleTypeOK
    <3> QED BY <1>3, <3>1 DEF Prefer, PeopleTypeOK
  <2> QED BY <1>3, <2>1, <2>2 DEF Prefer
<1>4. CASE PreferenceCall
  <2>1. \A p \in Person : Preference(p) \in ContactPreference
    BY DEF Preference, Default, ContactPreference, PeopleTypeOK
  <2>2. ASSUME NEW p \in Person
        PROVE  /\ \A some \in SUBSET Category :
                    [Preference(p) EXCEPT !.categories = some] \in ContactPreference
               /\ \A favorite \in BOOLEAN :
                    [Preference(p) EXCEPT !.favorite = favorite] \in ContactPreference
    BY <2>1 DEF ContactPreference
  <2> QED BY <1>3, <1>4, <2>2 DEF PreferenceCall, SetCategories, SetFavorite
<1>5. CASE UNCHANGED peopleVars
  BY <1>5 DEF peopleVars, PeopleTypeOK
<1> QED BY <1>1, <1>2, <1>4, <1>5 DEF PeopleNext

GoneContactsStay ==
  \A p \in Person : contacts[p] = None /\ contacts[p]' = None =>
    /\ preferences[p]' = preferences[p]
    /\ \A l \in Used(lists) :
         lists[l]' # None => (p \in lists[l]'.members <=> p \in lists[l].members)

MembersStay ==
  \A l \in Used(lists) : lists[l]' # None =>
    Cardinality(lists[l].members \ lists[l]'.members) <= 1

(* Contacts that are gone are left alone; members leave one by one.         *)
LEMMA PeopleSteps == PeopleTypeOK /\ [PeopleNext]_peopleVars => GoneContactsStay /\ MembersStay
<1> SUFFICES ASSUME PeopleTypeOK, [PeopleNext]_peopleVars PROVE GoneContactsStay /\ MembersStay
  OBVIOUS
<1>0. \A S, p : S \subseteq {p} => Cardinality(S) <= 1
  <2> SUFFICES ASSUME NEW S, NEW p, S \subseteq {p} PROVE Cardinality(S) <= 1
    OBVIOUS
  <2>1. S = {} \/ S = {p}
    OBVIOUS
  <2>2. Cardinality({}) = 0 /\ Cardinality({p}) = 1
    BY FS_EmptySet, FS_Singleton
  <2> QED BY <2>1, <2>2
<1>1. ASSUME UNCHANGED lists, \A p \in Person : contacts[p] = None => preferences'[p] = preferences[p]
      PROVE  GoneContactsStay /\ MembersStay
  <2>1. \A l : Cardinality(lists[l].members \ lists'[l].members) <= 1
    BY <1>1, FS_EmptySet
  <2> QED BY <1>1, <2>1 DEF GoneContactsStay, MembersStay
<1>2. CASE ContactCall \/ UNCHANGED peopleVars
  BY <1>1, <1>2 DEF ContactCall, CreateContact, UpdateContact, DeleteContact, PutContact, peopleVars
<1>3. CASE ListCall \/ MembershipCall
  <2>1. PICK l \in ContactList, v \in SyntheticContactList \cup {None} : ListWritten(l, v)
    BY <1>3, ListCallWrites
  <2>2. /\ lists' = [lists EXCEPT ![l] = v] /\ UNCHANGED <<contacts, preferences>>
        /\ lists \in [ContactList -> SyntheticContactList \cup {None}]
    BY <2>1 DEF ListWritten, PutList, PeopleTypeOK
  <2>3. lists'[l] = v /\ \A k \in ContactList \ {l} : lists'[k] = lists[k]
    BY <2>2
  <2>4. \A k \in Used(lists) : k \in ContactList /\ lists[k] # None
    BY <2>2 DEF Used
  <2>5. GoneContactsStay
    BY <2>1, <2>2, <2>3, <2>4 DEF GoneContactsStay, ListWritten
  <2>6. ASSUME NEW k \in Used(lists), lists'[k] # None
        PROVE  Cardinality(lists[k].members \ lists'[k].members) <= 1
    <3>1. \E p : lists[k].members \ lists'[k].members \subseteq {p}
      BY <2>1, <2>3, <2>4, <2>6 DEF ListWritten
    <3> QED BY <1>0, <3>1
  <2> QED BY <2>5, <2>6 DEF MembersStay
<1>4. ASSUME NEW p \in Person, NEW v, Prefer(p, v)
      PROVE  UNCHANGED lists /\ \A q \in Person : contacts[q] = None => preferences'[q] = preferences[q]
  BY <1>4 DEF Prefer, PeopleTypeOK
<1>5. CASE PreferenceCall
  BY <1>1, <1>4, <1>5 DEF PreferenceCall, SetCategories, SetFavorite
<1> QED BY <1>2, <1>3, <1>5 DEF PeopleNext

-----------------------------------------------------------------------------
(* OutlookMailbox.                                                          *)

LEMMA MailboxNat ==
  /\ MaxFolders \in Nat \ {0} /\ MaxCategories \in Nat \ {0}
  /\ MaxPerMessage \in Nat \ {0} /\ MaxBatch \in Nat \ {0}
BY MailboxAssumption

(* A folder's parent is a folder: what makes a new one a leaf.              *)
ParentsExist == \A f \in Used(folders) : folders[f].parent \in Used(folders) \cup {None}

MailboxInv == MailboxTypeOK /\ NothingDangles /\ FoldersFormTrees /\ ParentsExist

LEMMA MailboxStart == MailboxInit => MailboxInv
<1> SUFFICES ASSUME MailboxInit PROVE MailboxInv
  OBVIOUS
<1>1. /\ folders \in [Folder -> SyntheticFolder \cup {None}] /\ Used(folders) = Protected
      /\ \A f \in Protected : folders[f].parent = None
      /\ messages \in [Message -> [folder : Protected, read : BOOLEAN]]
  BY MailboxAssumption DEF MailboxInit
<1>2. messages \in [Message -> MockMessage] /\ \A m \in Message : messages[m].folder \in Protected
  BY <1>1, MailboxAssumption DEF MockMessage
<1>3. \A m \in Message : AssignedTo(m) = {}
  BY DEF MailboxInit, AssignedTo
<1>4. Used(categories) = {}
  BY DEF MailboxInit, Used
<1>5. MailboxTypeOK
  <2>1. /\ Cardinality(Used(folders)) <= MaxFolders /\ Cardinality(Used(categories)) <= MaxCategories
        /\ \A m \in Message : Cardinality(AssignedTo(m)) <= MaxPerMessage
    <3>1. Cardinality({}) = 0 /\ MaxFolders >= Cardinality(Protected)
      BY FS_EmptySet, MailboxAssumption
    <3>2. IsFiniteSet(Protected) /\ Cardinality(Protected) \in Nat
      <4>1. IsFiniteSet(Folder) /\ Protected \subseteq Folder
        BY MailboxAssumption
      <4> QED BY <4>1, FS_Subset, FS_CardinalityType
    <3>3. Cardinality(Protected) <= MaxFolders
      BY <3>1, <3>2, MailboxNat
    <3>4. 0 <= MaxCategories /\ 0 <= MaxPerMessage
      BY MailboxNat
    <3>5. Cardinality(Used(folders)) = Cardinality(Protected) /\ Cardinality(Used(categories)) = 0
      BY <1>1, <1>4, <3>1
    <3>6. \A m \in Message : Cardinality(AssignedTo(m)) = 0
      BY <1>3, <3>1
    <3> QED BY <3>3, <3>4, <3>5, <3>6
  <2>2. /\ inboxClass \in [Message -> {"FOCUSED", "OTHER", None}]
        /\ markers \in [Message -> PinSnoozeMarker \cup {None}]
        /\ categories \in [Category -> Label \cup {None}]
        /\ favorites = {} /\ assignments = {}
    BY DEF MailboxInit
  <2> QED BY <1>1, <1>2, <2>1, <2>2 DEF MailboxTypeOK
<1>6. NothingDangles
  <2>1. \A m \in Message : folders[messages[m].folder] # None
    BY <1>1, <1>2 DEF Used
  <2> QED BY <1>3, <2>1 DEF NothingDangles, MailboxInit
<1>7. FoldersFormTrees /\ ParentsExist
  <2>1. None \notin Folder /\ Protected \subseteq Folder
    BY MailboxAssumption
  <2> QED BY <1>1, <2>1 DEF FoldersFormTrees, ParentsExist
<1> QED BY <1>5, <1>6, <1>7 DEF MailboxInv

(* A new folder is nobody's parent: it closes no cycle.                     *)
LEMMA CreateFolderKeeps ==
  ASSUME MailboxInv, NEW f \in Folder, NEW name \in Label, NEW parent \in Folder \cup {None},
         CreateFolder(f, name, parent)
  PROVE  MailboxInv'
<1> DEFINE v == [name |-> name, parent |-> parent]
<1>1. /\ folders \in [Folder -> SyntheticFolder \cup {None}] /\ None \notin Folder \cup SyntheticFolder
      /\ MailboxTypeOK /\ NothingDangles /\ FoldersFormTrees /\ ParentsExist
  BY MailboxAssumption DEF MailboxInv, MailboxTypeOK
<1>2. v \in SyntheticFolder /\ v.parent = parent
  BY DEF SyntheticFolder
<1>3. /\ folders[f] = None /\ Cardinality(Used(folders)) < MaxFolders /\ parent \in Used(folders) \cup {None}
      /\ folders' = [folders EXCEPT ![f] = v]
      /\ UNCHANGED <<favorites, messages, markVars, categoryVars>>
  BY DEF CreateFolder, PutFolder
<1> HIDE DEF v
<1>4. folders' \in [Folder -> SyntheticFolder \cup {None}] /\ Cardinality(Used(folders')) <= MaxFolders
  BY <1>1, <1>2, <1>3, PutBounded, MailboxAssumption, MailboxNat DEF MailboxTypeOK
<1>5. MailboxTypeOK'
  BY <1>1, <1>3, <1>4 DEF MailboxTypeOK, markVars, categoryVars, AssignedTo
<1>6. /\ folders'[f] = v /\ v # None /\ \A g \in Folder \ {f} : folders'[g] = folders[g]
      /\ Used(folders') = Used(folders) \cup {f} /\ f \notin Used(folders)
      /\ Used(folders) \subseteq Folder
  BY <1>1, <1>2, <1>3 DEF Used
<1>7. NothingDangles'
  <2>1. ASSUME NEW m \in Message
        PROVE  folders'[messages[m].folder] # None
    <3>1. messages[m].folder \in Folder /\ folders[messages[m].folder] # None
      BY <1>1 DEF NothingDangles, MailboxTypeOK, MockMessage
    <3> QED BY <1>6, <3>1
  <2> QED BY <1>1, <1>3, <1>6, <2>1 DEF NothingDangles, AssignedTo, categoryVars
<1>8. ParentsExist'
  BY <1>1, <1>2, <1>3, <1>6 DEF ParentsExist
<1>9. FoldersFormTrees'
  <2> SUFFICES ASSUME NEW some \in SUBSET Used(folders'), some # {}
               PROVE  \E g \in some : folders'[g].parent \notin some
    BY DEF FoldersFormTrees
  <2>1. CASE f \notin some
    <3>1. some \in (SUBSET Used(folders)) \ {{}}
      BY <1>6, <2>1
    <3>2. PICK g \in some : folders[g].parent \notin some
      BY <1>1, <3>1 DEF FoldersFormTrees
    <3> QED BY <1>6, <2>1, <3>2
  <2>2. CASE some = {f}
    BY <1>1, <1>2, <1>3, <1>6, <2>2
  <2>3. CASE f \in some /\ some # {f}
    <3>1. some \ {f} \in (SUBSET Used(folders)) \ {{}}
      BY <1>6, <2>3
    <3>2. PICK g \in some \ {f} : folders[g].parent \notin some \ {f}
      BY <1>1, <3>1 DEF FoldersFormTrees
    <3>3. folders[g].parent # f
      BY <1>1, <1>6, <3>1, <3>2 DEF ParentsExist
    <3> QED BY <1>6, <3>1, <3>2, <3>3
  <2> QED BY <2>1, <2>2, <2>3
<1> QED BY <1>5, <1>7, <1>8, <1>9 DEF MailboxInv

LEMMA RenameFolderKeeps ==
  ASSUME MailboxInv, NEW f \in Folder, NEW name \in Label, RenameFolder(f, name)
  PROVE  MailboxInv'
<1> DEFINE v == [folders[f] EXCEPT !.name = name]
<1>1. /\ folders \in [Folder -> SyntheticFolder \cup {None}] /\ None \notin SyntheticFolder
      /\ MailboxTypeOK /\ NothingDangles /\ FoldersFormTrees /\ ParentsExist
  BY MailboxAssumption DEF MailboxInv, MailboxTypeOK
<1>2. /\ folders[f] # None /\ folders' = [folders EXCEPT ![f] = v]
      /\ UNCHANGED <<favorites, messages, markVars, categoryVars>>
  BY DEF RenameFolder, PutFolder
<1>3. v \in SyntheticFolder /\ v.parent = folders[f].parent
  BY <1>1, <1>2 DEF SyntheticFolder
<1> HIDE DEF v
<1>4. folders' \in [Folder -> SyntheticFolder \cup {None}] /\ Cardinality(Used(folders')) <= MaxFolders
  BY <1>1, <1>2, <1>3, PutBounded, MailboxAssumption, MailboxNat DEF MailboxTypeOK
<1>5. MailboxTypeOK'
  BY <1>1, <1>2, <1>4 DEF MailboxTypeOK, markVars, categoryVars, AssignedTo
<1>6. /\ Used(folders') = Used(folders)
      /\ \A g \in Used(folders) : folders'[g].parent = folders[g].parent
      /\ \A g \in Folder : folders'[g] # None <=> folders[g] # None
  BY <1>1, <1>2, <1>3 DEF Used
<1>7. NothingDangles'
  <2>1. ASSUME NEW m \in Message
        PROVE  folders'[messages[m].folder] # None
    <3>1. messages[m].folder \in Folder /\ folders[messages[m].folder] # None
      BY <1>1 DEF NothingDangles, MailboxTypeOK, MockMessage
    <3> QED BY <1>6, <3>1
  <2> QED BY <1>1, <1>2, <1>6, <2>1 DEF NothingDangles, AssignedTo, categoryVars
<1>8. ParentsExist' /\ FoldersFormTrees'
  BY <1>1, <1>6 DEF ParentsExist, FoldersFormTrees
<1> QED BY <1>5, <1>7, <1>8 DEF MailboxInv

LEMMA MoveToKeeps ==
  ASSUME MailboxInv, NEW m \in Message, NEW target \in Folder, MoveTo(m, target)
  PROVE  MailboxInv'
<1> DEFINE v == [messages[m] EXCEPT !.folder = target]
<1>1. MailboxTypeOK /\ NothingDangles /\ FoldersFormTrees /\ ParentsExist
      /\ messages \in [Message -> MockMessage]
  BY DEF MailboxInv, MailboxTypeOK
<1>2. /\ folders[target] # None /\ messages' = [messages EXCEPT ![m] = v]
      /\ UNCHANGED <<folders, favorites, inboxClass, markers, categories, assignments>>
  BY DEF MoveTo, PutMessage, folderVars, markVars, categoryVars
<1>3. v \in MockMessage /\ v.folder = target
  BY <1>1 DEF MockMessage
<1> HIDE DEF v
<1>4. messages' \in [Message -> MockMessage] /\ \A n \in Message : folders[messages'[n].folder] # None
  BY <1>1, <1>2, <1>3 DEF NothingDangles
<1> QED BY <1>1, <1>2, <1>4 DEF MailboxInv, MailboxTypeOK, NothingDangles, FoldersFormTrees,
           ParentsExist, AssignedTo

LEMMA MarkReadKeeps ==
  ASSUME MailboxInv, NEW m \in Message, NEW read \in BOOLEAN, MarkRead(m, read)
  PROVE  MailboxInv'
<1> DEFINE v == [messages[m] EXCEPT !.read = read]
<1>1. MailboxTypeOK /\ NothingDangles /\ FoldersFormTrees /\ ParentsExist
      /\ messages \in [Message -> MockMessage]
  BY DEF MailboxInv, MailboxTypeOK
<1>2. /\ messages' = [messages EXCEPT ![m] = v]
      /\ UNCHANGED <<folders, favorites, inboxClass, markers, categories, assignments>>
  BY DEF MarkRead, PutMessage, folderVars, markVars, categoryVars
<1>3. v \in MockMessage /\ v.folder = messages[m].folder
  BY <1>1 DEF MockMessage
<1> HIDE DEF v
<1>4. messages' \in [Message -> MockMessage] /\ \A n \in Message : folders[messages'[n].folder] # None
  BY <1>1, <1>2, <1>3 DEF NothingDangles
<1> QED BY <1>1, <1>2, <1>4 DEF MailboxInv, MailboxTypeOK, NothingDangles, FoldersFormTrees,
           ParentsExist, AssignedTo

LEMMA MarkCallKeeps == MailboxInv /\ MarkCall => MailboxInv'
<1> SUFFICES ASSUME MailboxInv, NEW m \in Message,
                    \/ Pin(m) \/ Unpin(m) \/ Unsnooze(m)
                    \/ \E day \in Until : Snooze(m, day)
                    \/ \E class \in {"FOCUSED", "OTHER"} : MoveInbox(m, class)
             PROVE  MailboxInv'
  BY DEF MarkCall
<1>1. ASSUME UNCHANGED <<folders, favorites, messages, categories, assignments>>,
             inboxClass' \in [Message -> {"FOCUSED", "OTHER", None}],
             markers' \in [Message -> PinSnoozeMarker \cup {None}]
      PROVE  MailboxInv'
  BY <1>1 DEF MailboxInv, MailboxTypeOK, NothingDangles, FoldersFormTrees, ParentsExist, AssignedTo
<1>2. ASSUME NEW v \in PinSnoozeMarker \cup {None}, PutMarker(m, v)
      PROVE  MailboxInv'
  BY <1>1, <1>2 DEF PutMarker, MailboxInv, MailboxTypeOK, folderVars, categoryVars
<1>3. /\ [pinned |-> TRUE, until |-> None] \in PinSnoozeMarker
      /\ \A day \in Until : [pinned |-> FALSE, until |-> day] \in PinSnoozeMarker
      /\ markers[m] \in PinSnoozeMarker \cup {None}
  BY DEF PinSnoozeMarker, MailboxInv, MailboxTypeOK
<1>4. CASE Pin(m) \/ \E day \in Until : Snooze(m, day)
  BY <1>2, <1>3, <1>4 DEF Pin, Snooze
<1>5. CASE Unpin(m) \/ Unsnooze(m)
  BY <1>2, <1>3, <1>5 DEF Unpin, Unsnooze
<1>6. ASSUME NEW class \in {"FOCUSED", "OTHER"}, MoveInbox(m, class)
      PROVE  MailboxInv'
  BY <1>1, <1>6 DEF MoveInbox, folderVars, categoryVars, MailboxInv, MailboxTypeOK
<1> QED BY <1>4, <1>5, <1>6

LEMMA CategoryCallKeeps == MailboxInv /\ CategoryCall => MailboxInv'
<1> SUFFICES ASSUME MailboxInv, CategoryCall PROVE MailboxInv'
  OBVIOUS
<1>1. MailboxTypeOK /\ NothingDangles /\ FoldersFormTrees /\ ParentsExist
  BY DEF MailboxInv
<1>2. ASSUME NEW c \in Category, NEW v \in Label \cup {None}, PutCategory(c, v),
             v = None => \A m \in Message : <<m, c>> \notin assignments
      PROVE  MailboxInv'
  <2>1. /\ categories' \in [Category -> Label \cup {None}] /\ Cardinality(Used(categories')) <= MaxCategories
        /\ \A d \in Category \ {c} : categories'[d] = categories[d]
        /\ categories'[c] = v
        /\ UNCHANGED <<folders, favorites, messages, inboxClass, markers, assignments>>
    BY <1>1, <1>2 DEF PutCategory, MailboxTypeOK, folderVars, markVars
  <2>2. \A m \in Message : \A d \in AssignedTo(m) : categories'[d] # None
    BY <1>1, <1>2, <2>1 DEF NothingDangles, AssignedTo
  <2> QED BY <1>1, <2>1, <2>2 DEF MailboxInv, MailboxTypeOK, NothingDangles, FoldersFormTrees,
             ParentsExist, AssignedTo
<1>3. ASSUME NEW c \in Category, NEW label \in Label,
             CreateCategory(c, label) \/ UpdateCategory(c, label)
      PROVE  MailboxInv'
  <2>1. label # None
    BY MailboxAssumption
  <2> QED BY <1>2, <1>3, <2>1 DEF CreateCategory, UpdateCategory
<1>4. ASSUME NEW c \in Category, DeleteCategory(c)
      PROVE  MailboxInv'
  BY <1>2, <1>4 DEF DeleteCategory
<1>5. ASSUME NEW batch \in Batch, Assign(batch)
      PROVE  MailboxInv'
  <2>1. /\ UNCHANGED <<folders, favorites, messages, inboxClass, markers, categories>>
        /\ assignments' = After(batch) /\ assignments' \subseteq Message \X Category
        /\ \A m \in Message : Cardinality(AssignedTo(m)') <= MaxPerMessage
    BY <1>5 DEF Assign, After, folderVars, markVars
  <2>2. ASSUME NEW m \in Message, NEW c \in Category, <<m, c>> \in assignments'
        PROVE  categories[c] # None
    <3>1. CASE <<m, c>> \in assignments
      BY <1>1, <3>1 DEF NothingDangles, AssignedTo
    <3>2. CASE <<m, c>> \notin assignments
      <4>1. \E i \in DOMAIN batch : batch[i].pair = <<m, c>>
        BY <2>1, <2>2, <3>2 DEF After
      <4> QED BY <1>5, <4>1 DEF Assign
    <3> QED BY <3>1, <3>2
  <2>3. MailboxTypeOK'
    BY <1>1, <2>1 DEF MailboxTypeOK
  <2>4. NothingDangles'
    BY <1>1, <2>1, <2>2 DEF NothingDangles, AssignedTo
  <2> QED BY <1>1, <2>1, <2>3, <2>4 DEF MailboxInv, FoldersFormTrees, ParentsExist
<1> QED BY <1>3, <1>4, <1>5 DEF CategoryCall

LEMMA MailboxKept == MailboxInv /\ [MailboxNext]_mailboxVars => MailboxInv'
<1> SUFFICES ASSUME MailboxInv, [MailboxNext]_mailboxVars PROVE MailboxInv'
  OBVIOUS
<1>1. ASSUME NEW f \in Folder, NEW wanted \in BOOLEAN, SetFavoriteFolder(f, wanted)
      PROVE  MailboxInv'
  <2>1. /\ folders[f] # None /\ UNCHANGED <<folders, messages, inboxClass, markers, categories, assignments>>
        /\ favorites' \subseteq favorites \cup {f}
    BY <1>1 DEF SetFavoriteFolder, markVars, categoryVars
  <2>2. f \in Used(folders)
    BY <2>1 DEF Used, MailboxInv, MailboxTypeOK
  <2> QED BY <2>1, <2>2 DEF MailboxInv, MailboxTypeOK, NothingDangles, FoldersFormTrees,
             ParentsExist, AssignedTo
<1>2. CASE FolderCall
  BY <1>1, <1>2, CreateFolderKeeps, RenameFolderKeeps DEF FolderCall
<1>3. CASE MessageCall
  <2>1. Archive \in Folder
    BY MailboxAssumption DEF Protected
  <2> QED BY <1>3, <2>1, MoveToKeeps, MarkReadKeeps DEF MessageCall, RestoreMessage, ArchiveMessage
<1>4. CASE UNCHANGED mailboxVars
  BY <1>4 DEF mailboxVars, MailboxInv, MailboxTypeOK, NothingDangles, FoldersFormTrees,
     ParentsExist, AssignedTo
<1> QED BY <1>2, <1>3, <1>4, MarkCallKeeps, CategoryCallKeeps DEF MailboxNext

MarksStay ==
  \A m \in Message : ~(Pinned(m) /\ Snoozed(m)') /\ ~(Snoozed(m) /\ Pinned(m)')

(* No call passes from pinned to snoozed or back.                           *)
LEMMA MailboxSteps == MailboxTypeOK /\ [MailboxNext]_mailboxVars => MarksStay
<1> SUFFICES ASSUME MailboxTypeOK, [MailboxNext]_mailboxVars, NEW m \in Message
             PROVE  ~(Pinned(m) /\ Snoozed(m)') /\ ~(Snoozed(m) /\ Pinned(m)')
  BY DEF MarksStay
<1>1. /\ markers \in [Message -> PinSnoozeMarker \cup {None}] /\ markers[m] \in PinSnoozeMarker \cup {None}
      /\ None \notin PinSnoozeMarker
  BY MailboxAssumption DEF MailboxTypeOK
<1>2. ~(Pinned(m) /\ Snoozed(m))
  BY <1>1 DEF Pinned, Snoozed, PinSnoozeMarker
<1>3. ASSUME markers'[m] = markers[m]
      PROVE  ~(Pinned(m) /\ Snoozed(m)') /\ ~(Snoozed(m) /\ Pinned(m)')
  BY <1>2, <1>3 DEF Pinned, Snoozed
<1>4. ASSUME NEW n \in Message, NEW v, PutMarker(n, v)
      PROVE  markers'[m] = IF n = m THEN v ELSE markers[m]
  BY <1>1, <1>4 DEF PutMarker
<1>5. ASSUME NEW n \in Message, Pin(n) \/ Unpin(n) \/ Unsnooze(n) \/ \E day \in Until : Snooze(n, day)
      PROVE  ~(Pinned(m) /\ Snoozed(m)') /\ ~(Snoozed(m) /\ Pinned(m)')
  <2>1. CASE n # m
    BY <1>3, <1>4, <1>5, <2>1 DEF Pin, Unpin, Snooze, Unsnooze
  <2>2. CASE n = m /\ Pin(n)
    BY <1>4, <2>2 DEF Pin, Pinned, Snoozed
  <2>3. ASSUME n = m, NEW day \in Until, Snooze(n, day)
        PROVE  ~(Pinned(m) /\ Snoozed(m)') /\ ~(Snoozed(m) /\ Pinned(m)')
    BY <1>4, <2>3 DEF Snooze, Pinned, Snoozed
  <2>4. CASE n = m /\ (Unpin(n) \/ Unsnooze(n))
    <3>1. markers'[m] = markers[m] \/ markers'[m] = None
      BY <1>4, <2>4 DEF Unpin, Unsnooze
    <3>2. markers'[m] = None => ~Snoozed(m)' /\ ~Pinned(m)'
      BY DEF Pinned, Snoozed
    <3> QED BY <1>3, <3>1, <3>2
  <2> QED BY <1>5, <2>1, <2>2, <2>3, <2>4
<1>6. CASE MarkCall
  BY <1>3, <1>5, <1>6 DEF MarkCall, MoveInbox
<1>7. CASE FolderCall \/ MessageCall \/ CategoryCall \/ UNCHANGED mailboxVars
  <2>1. UNCHANGED markers
    BY <1>7 DEF FolderCall, RenameFolder, CreateFolder, PutFolder, SetFavoriteFolder, MessageCall,
       MoveTo, RestoreMessage, ArchiveMessage, MarkRead, PutMessage, CategoryCall, DeleteCategory,
       CreateCategory, UpdateCategory, PutCategory, Assign, mailboxVars, markVars
  <2> QED BY <1>3, <2>1
<1> QED BY <1>6, <1>7 DEF MailboxNext

-----------------------------------------------------------------------------
(* OutlookRules: catalogs whose entries keep an order.                      *)
Orders(catalog) == [k \in Used(catalog) |-> catalog[k].order]

Ordered(catalog) == Ranking(Used(catalog), Orders(catalog))

Orderable(R) ==
  /\ None \notin R
  /\ \A r \in R : /\ r.order \in Nat
                  /\ \A n \in Nat : /\ [r EXCEPT !.order = n] \in R
                                    /\ [r EXCEPT !.order = n].order = n

Catalog(K, R, catalog) ==
  IsFiniteSet(K) /\ Orderable(R) /\ catalog \in [K -> R \cup {None}]

KeepsAllBut(catalog, after, k) ==
  \A i, j \in (Used(catalog) \cap Used(after)) \ {k} :
    catalog[i].order < catalog[j].order <=> after[i].order < after[j].order

(* The records of the three catalogs with an order.                         *)
LEMMA RecordsOrderable ==
  Orderable(MailRule) /\ Orderable(FormattingRule) /\ Orderable(SyntheticQuickStep)
<1>1. None \notin MailRule \cup FormattingRule \cup SyntheticQuickStep
  BY RulesAssumption
<1>2. Orderable(MailRule)
  BY <1>1 DEF Orderable, MailRule
<1>3. Orderable(FormattingRule)
  BY <1>1 DEF Orderable, FormattingRule
<1>4. Orderable(SyntheticQuickStep)
  BY <1>1 DEF Orderable, SyntheticQuickStep
<1> QED BY <1>2, <1>3, <1>4

(* What holds of every catalog with an order.                               *)
LEMMA CatalogFacts ==
  ASSUME NEW K, NEW R, NEW catalog, Catalog(K, R, catalog)
  PROVE  /\ IsFiniteSet(Used(catalog)) /\ Cardinality(Used(catalog)) \in Nat
         /\ Used(catalog) \subseteq K /\ DOMAIN catalog = K
         /\ None \notin R /\ Orderable(R) /\ IsFiniteSet(K) /\ catalog \in [K -> R \cup {None}]
<1>1. IsFiniteSet(K) /\ catalog \in [K -> R \cup {None}] /\ Orderable(R)
  BY DEF Catalog
<1>2. IsFiniteSet(Used(catalog)) /\ Cardinality(Used(catalog)) \in Nat /\ Used(catalog) \subseteq K
  BY <1>1, UsedFinite
<1> QED BY <1>1, <1>2 DEF Orderable

(* The orders as a function on the keys in use.                             *)
LEMMA OrdersTyped ==
  ASSUME NEW K, NEW R, NEW catalog, Catalog(K, R, catalog)
  PROVE  /\ Orders(catalog) \in [Used(catalog) -> Nat] /\ Used(catalog) \subseteq K
         /\ \A j \in Used(catalog) : /\ catalog[j] \in R /\ catalog[j].order \in Nat
                                     /\ Orders(catalog)[j] = catalog[j].order
<1>1. catalog \in [K -> R \cup {None}] /\ Orderable(R)
  BY CatalogFacts
<1>2. \A j \in Used(catalog) : j \in K /\ catalog[j] \in R
  BY <1>1 DEF Used
<1> QED BY <1>1, <1>2 DEF Orders, Orderable

(* What the code counts to renumber are those of smaller rank.              *)
LEMMA BeforeBelow ==
  ASSUME NEW K, NEW R, NEW catalog, Catalog(K, R, catalog), NEW j \in Used(catalog)
  PROVE  Before(catalog, j) = Below(Used(catalog), Orders(catalog), Orders(catalog)[j])
<1>1. \A i \in Used(catalog) : Orders(catalog)[i] = catalog[i].order
  BY OrdersTyped
<1> QED BY <1>1 DEF Before, Below

(* Ranks have neither gaps nor doubles.                                     *)
LEMMA OrderedIsContiguous ==
  ASSUME NEW K, NEW R, NEW catalog, Catalog(K, R, catalog),
         Ordered(catalog)
  PROVE  Contiguous(catalog)
<1>1. IsFiniteSet(Used(catalog))
  BY CatalogFacts
<1>2. {Orders(catalog)[k] : k \in Used(catalog)} = 1..Cardinality(Used(catalog))
  BY <1>1, RankingCovers DEF Ordered
<1>3. \A k \in Used(catalog) : Orders(catalog)[k] = catalog[k].order
  BY DEF Orders
<1>4. {Orders(catalog)[k] : k \in Used(catalog)} = {catalog[k].order : k \in Used(catalog)}
  BY <1>3
<1> QED BY <1>2, <1>4 DEF Contiguous

(* An entry rewritten in its place.                                         *)
LEMMA SameOrders ==
  ASSUME NEW K, NEW R, NEW old, Catalog(K, R, old), Ordered(old),
         NEW new, Catalog(K, R, new), Used(new) = Used(old),
         \A j \in Used(old) : new[j].order = old[j].order, NEW k
  PROVE  Ordered(new) /\ KeepsAllBut(old, new, k)
<1>1. Orders(new) = Orders(old)
  BY DEF Orders
<1> QED BY <1>1 DEF Ordered, KeepsAllBut

(* Adding an entry at the end,                                              *)
LEMMA AppendedKeeps ==
  ASSUME NEW K, NEW R, NEW old, Catalog(K, R, old), Ordered(old),
         NEW k \in K, old[k] = None, NEW record \in R, record.order = Last(old)
  PROVE  /\ Catalog(K, R, Appended(old, k, record))
         /\ Ordered(Appended(old, k, record))
         /\ KeepsAllBut(old, Appended(old, k, record), k)
<1> DEFINE new == Appended(old, k, record)
<1>0. /\ IsFiniteSet(Used(old)) /\ Used(old) \subseteq K /\ old \in [K -> R \cup {None}]
      /\ None \notin R /\ Orderable(R) /\ IsFiniteSet(K)
  BY CatalogFacts
<1>1. /\ new \in [K -> R \cup {None}] /\ new[k] = record /\ \A j \in K \ {k} : new[j] = old[j]
      /\ Catalog(K, R, new)
  BY <1>0 DEF Appended, Catalog
<1> HIDE DEF new
<1>2. IsFiniteSet(Used(old)) /\ Used(old) \subseteq K /\ k \notin Used(old) /\ record # None
  BY <1>0 DEF Used
<1>3. Used(new) = Used(old) \cup {k} /\ \A j \in Used(old) : new[j] = old[j]
  <2>1. DOMAIN new = K /\ DOMAIN old = K
    BY <1>0, <1>1
  <2> QED BY <1>1, <1>2, <2>1 DEF Used
<1>4. /\ Orders(new) \in [Used(old) \cup {k} -> Nat] /\ Orders(new)[k] = Cardinality(Used(old)) + 1
      /\ \A j \in Used(old) : Orders(new)[j] = Orders(old)[j]
  <2>1. Orders(new) \in [Used(new) -> Nat] /\ \A j \in Used(new) : Orders(new)[j] = new[j].order
    BY <1>1, OrdersTyped
  <2>2. \A j \in Used(old) : Orders(old)[j] = old[j].order
    BY OrdersTyped
  <2> QED BY <1>1, <1>3, <2>1, <2>2 DEF Last
<1>5. Ordered(new)
  BY <1>2, <1>3, <1>4, RankingAppend DEF Ordered
<1>6. KeepsAllBut(old, new, k)
  BY <1>3 DEF KeepsAllBut
<1> QED BY <1>1, <1>5, <1>6 DEF new

(* The order an entry gets when k is taken out.                             *)
LEMMA RankTyped ==
  ASSUME NEW K, NEW R, NEW old, Catalog(K, R, old)
  PROVE  \A j \in Used(old) : \A k :
           /\ Cardinality(Before(old, j) \ {k}) \in Nat
           /\ Cardinality(Before(old, j) \ {k})
                     = Cardinality(Below(Used(old), Orders(old), Orders(old)[j]) \ {k})
<1> SUFFICES ASSUME NEW j \in Used(old), NEW k
             PROVE  /\ Cardinality(Before(old, j) \ {k}) \in Nat
                    /\ Cardinality(Before(old, j) \ {k})
                     = Cardinality(Below(Used(old), Orders(old), Orders(old)[j]) \ {k})
  OBVIOUS
<1>1. Before(old, j) = Below(Used(old), Orders(old), Orders(old)[j])
  BY BeforeBelow
<1>2. IsFiniteSet(Used(old))
  BY CatalogFacts
<1>3. IsFiniteSet(Before(old, j) \ {k})
  BY <1>1, <1>2, BelowFinite, FS_Difference
<1> QED BY <1>1, <1>3, FS_CardinalityType

(* taking one out,                                                          *)
LEMMA WithoutKeeps ==
  ASSUME NEW K, NEW R, NEW old, Catalog(K, R, old), Ordered(old),
         NEW k
  PROVE  /\ Catalog(K, R, Without(old, k))
         /\ Ordered(Without(old, k))
         /\ KeepsAllBut(old, Without(old, k), k)
         /\ Used(Without(old, k)) = Used(old) \ {k}
<1> DEFINE new == Without(old, k)
           rank(j) == 1 + Cardinality(Before(old, j) \ {k})
<1>1. DOMAIN old = K /\ IsFiniteSet(Used(old)) /\ None \notin R /\ Orderable(R) /\ IsFiniteSet(K)
      /\ old \in [K -> R \cup {None}]
  BY CatalogFacts
<1>2. /\ DOMAIN new = K /\ new = [j \in K |-> new[j]]
      /\ \A j \in K : j = k \/ old[j] = None => new[j] = None
      /\ \A j \in K : j # k /\ old[j] # None => new[j] = [old[j] EXCEPT !.order = rank(j)]
  BY <1>1 DEF Without
<1>3. \A j \in Used(old) : rank(j) \in Nat
  <2>1. \A j \in Used(old) : Cardinality(Before(old, j) \ {k}) \in Nat
    BY RankTyped
  <2> QED BY <2>1
<1> HIDE DEF new, rank
<1>4. \A j \in Used(old) \ {k} : new[j] \in R /\ new[j].order = rank(j)
  <2> SUFFICES ASSUME NEW j \in Used(old) \ {k}
               PROVE  new[j] \in R /\ new[j].order = rank(j)
    OBVIOUS
  <2>1. j \in K /\ j # k /\ old[j] # None /\ old[j] \in R
    BY <1>1 DEF Used
  <2>2. new[j] = [old[j] EXCEPT !.order = rank(j)] /\ rank(j) \in Nat
    BY <1>2, <1>3, <2>1
  <2> QED BY <1>1, <2>1, <2>2 DEF Orderable
<1>5. Catalog(K, R, new) /\ Used(new) = Used(old) \ {k}
  <2>1. \A j \in K : new[j] \in R \cup {None} /\ (new[j] # None <=> j \in Used(old) \ {k})
    BY <1>1, <1>2, <1>4 DEF Used
  <2>2. new \in [K -> R \cup {None}]
    BY <1>2, <2>1
  <2>3. Used(new) = Used(old) \ {k}
    BY <1>1, <1>2, <2>1 DEF Used
  <2> QED BY <1>1, <2>2, <2>3 DEF Catalog
<1>6. /\ Orders(new) \in [Used(old) \ {k} -> Nat]
      /\ \A j \in Used(old) \ {k} :
           /\ Orders(new)[j] = new[j].order
           /\ Orders(new)[j] = 1 + Cardinality(Below(Used(old), Orders(old), Orders(old)[j]) \ {k})
  <2>0. Catalog(K, R, new)
    BY <1>5
  <2>1. Orders(new) \in [Used(new) -> Nat] /\ \A j \in Used(new) : Orders(new)[j] = new[j].order
    BY <2>0, OrdersTyped
  <2>2. \A j \in Used(old) : rank(j) = 1 + Cardinality(Below(Used(old), Orders(old), Orders(old)[j]) \ {k})
    <3>1. \A j \in Used(old) :
            Cardinality(Before(old, j) \ {k})
                     = Cardinality(Below(Used(old), Orders(old), Orders(old)[j]) \ {k})
      BY RankTyped
    <3> QED BY <3>1 DEF rank
  <2> QED BY <1>4, <1>5, <2>1, <2>2
<1>7. /\ Ranking(Used(old) \ {k}, Orders(new))
      /\ \A i, j \in Used(old) \ {k} : Orders(old)[i] < Orders(old)[j] <=> Orders(new)[i] < Orders(new)[j]
  <2>1. Ranking(Used(old), Orders(old)) /\ IsFiniteSet(Used(old))
    BY <1>1 DEF Ordered
  <2>2. /\ Orders(new) \in [Used(old) \ {k} -> Nat]
        /\ \A j \in Used(old) \ {k} :
             Orders(new)[j] = 1 + Cardinality(Below(Used(old), Orders(old), Orders(old)[j]) \ {k})
    BY <1>6
  <2> QED BY <2>1, <2>2, RankingWithout
<1>8. \A j \in Used(old) : Orders(old)[j] = old[j].order
  BY OrdersTyped
<1>9. Ordered(new) /\ KeepsAllBut(old, new, k)
  BY <1>5, <1>6, <1>7, <1>8 DEF Ordered, KeepsAllBut
<1> QED BY <1>5, <1>9 DEF new

(* and moving one keep ranks, and the relative order of the others.         *)
LEMMA PlacedKeeps ==
  ASSUME NEW K, NEW R, NEW old, Catalog(K, R, old), Ordered(old),
         NEW k \in K, old[k] # None, NEW record \in R, NEW target \in 1..Cardinality(Used(old))
  PROVE  /\ Catalog(K, R, Placed(old, k, record, target))
         /\ Ordered(Placed(old, k, record, target))
         /\ KeepsAllBut(old, Placed(old, k, record, target), k)
         /\ Used(Placed(old, k, record, target)) = Used(old)
<1> DEFINE new == Placed(old, k, record, target)
           rank(j) == 1 + Cardinality(Before(old, j) \ {k})
           place(j) == IF rank(j) < target THEN rank(j) ELSE rank(j) + 1
           S == Used(old) \ {k}
<1>0. /\ DOMAIN old = K /\ IsFiniteSet(Used(old)) /\ None \notin R /\ Orderable(R) /\ IsFiniteSet(K)
      /\ old \in [K -> R \cup {None}] /\ Cardinality(Used(old)) \in Nat
  BY CatalogFacts
<1>1. /\ DOMAIN old = K /\ k \in Used(old) /\ target \in Nat /\ Used(old) = S \cup {k} /\ k \notin S
      /\ IsFiniteSet(Used(old)) /\ None \notin R /\ Orderable(R)
  BY <1>0 DEF Used
<1>2. /\ DOMAIN new = K /\ new = [j \in K |-> new[j]]
      /\ new[k] = [record EXCEPT !.order = target]
      /\ \A j \in K \ {k} : old[j] = None => new[j] = None
      /\ \A j \in K \ {k} : old[j] # None => new[j] = [old[j] EXCEPT !.order = place(j)]
  BY <1>1 DEF Placed
<1>3. \A j \in Used(old) : rank(j) \in Nat /\ place(j) \in Nat
  <2>1. \A j \in Used(old) : rank(j) \in Nat
    <3>1. \A j \in Used(old) : Cardinality(Before(old, j) \ {k}) \in Nat
      BY RankTyped
    <3> QED BY <3>1
  <2> QED BY <2>1
<1> HIDE DEF new, rank, place, S
<1>4. /\ \A j \in S : new[j] \in R /\ new[j].order = place(j)
      /\ new[k] \in R /\ new[k].order = target
  <2>1. ASSUME NEW j \in S
        PROVE  new[j] \in R /\ new[j].order = place(j)
    <3>1. j \in K /\ j # k /\ old[j] # None /\ old[j] \in R
      BY <1>0 DEF Used, S
    <3>2. new[j] = [old[j] EXCEPT !.order = place(j)] /\ place(j) \in Nat
      BY <1>1, <1>2, <1>3, <3>1
    <3> QED BY <1>1, <3>1, <3>2 DEF Orderable
  <2>2. new[k] \in R /\ new[k].order = target
    <3>1. [record EXCEPT !.order = target] \in R /\ [record EXCEPT !.order = target].order = target
      BY <1>1 DEF Orderable
    <3> QED BY <1>2, <3>1
  <2> QED BY <2>1, <2>2
<1>5. Catalog(K, R, new) /\ Used(new) = S \cup {k}
  <2>1. \A j \in K : new[j] \in R \cup {None} /\ (new[j] # None <=> j \in S \cup {k})
    BY <1>1, <1>2, <1>4 DEF Used, S
  <2>2. new \in [K -> R \cup {None}]
    BY <1>2, <2>1
  <2>3. Used(new) = S \cup {k}
    BY <1>0, <1>1, <1>2, <2>1 DEF Used
  <2> QED BY <1>0, <2>2, <2>3 DEF Catalog
<1>6. /\ Orders(new) \in [S \cup {k} -> Nat] /\ Orders(new)[k] = target
      /\ \A j \in S : Orders(new)[j] = place(j) /\ Orders(new)[j] = new[j].order
  <2>0. Catalog(K, R, new)
    BY <1>5
  <2>1. Orders(new) \in [Used(new) -> Nat] /\ \A j \in Used(new) : Orders(new)[j] = new[j].order
    BY <2>0, OrdersTyped
  <2> QED BY <1>4, <1>5, <2>1
<1> DEFINE mid == [j \in S |-> rank(j)]
<1>7. /\ mid \in [S -> Nat] /\ \A j \in S : mid[j] = rank(j)
      /\ \A j \in S : mid[j] = 1 + Cardinality(Below(Used(old), Orders(old), Orders(old)[j]) \ {k})
  <2>1. \A j \in Used(old) : rank(j) = 1 + Cardinality(Below(Used(old), Orders(old), Orders(old)[j]) \ {k})
    <3>1. \A j \in Used(old) :
            Cardinality(Before(old, j) \ {k})
                     = Cardinality(Below(Used(old), Orders(old), Orders(old)[j]) \ {k})
      BY RankTyped
    <3> QED BY <3>1 DEF rank
  <2> QED BY <1>1, <1>3, <2>1
<1> HIDE DEF mid
<1>8. /\ Ranking(S, mid)
      /\ \A i, j \in S : Orders(old)[i] < Orders(old)[j] <=> mid[i] < mid[j]
  BY <1>1, <1>7, RankingWithout DEF Ordered, S
<1>9. IsFiniteSet(S) /\ target \in 1..(Cardinality(S) + 1)
  <2>1. Cardinality(S) + 1 = Cardinality(Used(old)) /\ IsFiniteSet(S)
    BY <1>1, OneLess DEF S
  <2> QED BY <2>1
<1>10. \A j \in S : Orders(new)[j] = IF mid[j] < target THEN mid[j] ELSE mid[j] + 1
  BY <1>6, <1>7 DEF place
<1>11. /\ Ranking(S \cup {k}, Orders(new))
       /\ \A i, j \in S : mid[i] < mid[j] <=> Orders(new)[i] < Orders(new)[j]
  BY <1>1, <1>6, <1>8, <1>9, <1>10, RankingInsert
<1>12. Ordered(new)
  BY <1>5, <1>11 DEF Ordered
<1>13. KeepsAllBut(old, new, k)
  <2>1. \A j \in Used(old) : Orders(old)[j] = old[j].order
    BY OrdersTyped
  <2>2. \A i, j \in S : old[i].order < old[j].order <=> new[i].order < new[j].order
    BY <1>1, <1>6, <1>8, <1>11, <2>1
  <2> QED BY <1>5, <2>2 DEF KeepsAllBut, S
<1> QED BY <1>1, <1>5, <1>12, <1>13 DEF new

(* Every other field of the others stays.                                   *)
LEMMA WithoutRenumbers ==
  ASSUME NEW K, NEW R, NEW old, Catalog(K, R, old), NEW k
  PROVE  \A j \in Used(Without(old, k)) :
           /\ j \in Used(old) \ {k}
           /\ \E n \in Nat : Without(old, k)[j] = [old[j] EXCEPT !.order = n]
<1> SUFFICES ASSUME NEW j \in Used(Without(old, k))
             PROVE  /\ j \in Used(old) \ {k}
                    /\ \E n \in Nat : Without(old, k)[j] = [old[j] EXCEPT !.order = n]
  OBVIOUS
<1>0. DOMAIN old = K /\ \A i \in Used(old) : Cardinality(Before(old, i) \ {k}) \in Nat
  BY CatalogFacts, RankTyped
<1>1. j \in K /\ j # k /\ old[j] # None
  BY <1>0 DEF Without, Used
<1>2. j \in Used(old)
  BY <1>0, <1>1 DEF Used
<1>3. Without(old, k)[j] = [old[j] EXCEPT !.order = 1 + Cardinality(Before(old, j) \ {k})]
  BY <1>0, <1>1 DEF Without
<1>4. 1 + Cardinality(Before(old, j) \ {k}) \in Nat
  BY <1>0, <1>2
<1> QED BY <1>1, <1>2, <1>3, <1>4

(* A move changes nothing but orders of the other entries.                  *)
LEMMA PlacedRenumbers ==
  ASSUME NEW K, NEW R, NEW old, Catalog(K, R, old), NEW k \in K, NEW record, NEW target \in Nat
  PROVE  /\ Placed(old, k, record, target)[k] = [record EXCEPT !.order = target]
         /\ \A j \in Used(Placed(old, k, record, target)) \ {k} :
              /\ j \in Used(old)
              /\ \E n \in Nat : Placed(old, k, record, target)[j] = [old[j] EXCEPT !.order = n]
<1>1. DOMAIN old = K /\ \A j \in Used(old) : Cardinality(Before(old, j) \ {k}) \in Nat
  BY CatalogFacts, RankTyped
<1>2. Placed(old, k, record, target)[k] = [record EXCEPT !.order = target]
  BY <1>1 DEF Placed
<1>3. ASSUME NEW j \in Used(Placed(old, k, record, target)) \ {k}
      PROVE  /\ j \in Used(old)
             /\ \E n \in Nat : Placed(old, k, record, target)[j] = [old[j] EXCEPT !.order = n]
  <2> DEFINE rank == 1 + Cardinality(Before(old, j) \ {k})
             place == IF rank < target THEN rank ELSE rank + 1
  <2>1. j \in K /\ j # k /\ old[j] # None
    BY <1>1 DEF Placed, Used
  <2>2. j \in Used(old)
    BY <1>1, <2>1 DEF Used
  <2>3. Placed(old, k, record, target)[j] = [old[j] EXCEPT !.order = place]
    BY <1>1, <2>1 DEF Placed
  <2>4. place \in Nat
    <3>1. Cardinality(Before(old, j) \ {k}) \in Nat
      BY <1>1, <2>2
    <3> QED BY <3>1
  <2> HIDE DEF place
  <2> QED BY <2>1, <2>2, <2>3, <2>4
<1> QED BY <1>2, <1>3

Distinct(catalog) ==
  \A i, j \in Used(catalog) :
    catalog[i].shortcut = catalog[j].shortcut /\ catalog[i].shortcut # None => i = j

RulesInv ==
  RulesTypeOK /\ Ordered(rules) /\ Ordered(formats) /\ Ordered(quick) /\ Distinct(quick)

LEMMA RulesFacts ==
  ASSUME RulesTypeOK
  PROVE  /\ Catalog(Rule, MailRule, rules) /\ Catalog(Format, FormattingRule, formats)
         /\ Catalog(QuickStep, SyntheticQuickStep, quick)
         /\ Rule # {} /\ Format # {} /\ QuickStep # {} /\ MaxOrder \in Nat \ {0}
         /\ MaxSweeps \in Nat \ {0} /\ IsFiniteSet(Sweep) /\ None \notin SweepMode
BY RulesAssumption, RecordsOrderable DEF RulesTypeOK, Catalog

LEMMA EmptyOrdered ==
  ASSUME NEW K
  PROVE  Ordered([k \in K |-> None]) /\ Distinct([k \in K |-> None])
<1>1. Used([k \in K |-> None]) = {}
  BY EmptyCatalog
<1> QED BY <1>1 DEF Ordered, Ranking, Orders, Distinct

LEMMA RulesStart == RulesInit => RulesInv
<1> SUFFICES ASSUME RulesInit PROVE RulesInv
  OBVIOUS
<1>1. Cardinality(Used(sweeps)) <= MaxSweeps
  <2>1. Used(sweeps) = {}
    BY DEF RulesInit, Used
  <2>2. MaxSweeps \in Nat
    BY RulesAssumption
  <2> QED BY <2>1, <2>2, FS_EmptySet
<1>2. RulesTypeOK
  BY <1>1 DEF RulesInit, RulesTypeOK
<1> QED BY <1>2, EmptyOrdered DEF RulesInit, RulesInv

(* What a call does to one of the catalogs with an order.                   *)
Steps(K, R, old, new) ==
  Catalog(K, R, new) /\ Ordered(new) /\ \E k \in K : KeepsAllBut(old, new, k)

DestructiveRules(catalog) == {k \in Used(catalog) : catalog[k].logic \in DestructiveLogic}
DestructiveQuick(catalog) == {k \in Used(catalog) : Deletes(catalog[k].actions)}

(* A catalog no call writes.                                                *)
LEMMA Untouched ==
  ASSUME NEW K, NEW R, NEW old, Catalog(K, R, old), Ordered(old), K # {}
  PROVE  Steps(K, R, old, old)
BY DEF Steps, KeepsAllBut

(* A call makes at most the rule it names destructive,                      *)
LEMMA DestructiveBut ==
  ASSUME NEW K, NEW old, NEW new, NEW k,
         \A j \in Used(new) \ {k} :
           j \in Used(old) /\ \E n \in Nat : new[j] = [old[j] EXCEPT !.order = n],
         Catalog(K, MailRule, old)
  PROVE  DestructiveRules(new) \subseteq DestructiveRules(old) \cup {k}
<1>1. ASSUME NEW j \in Used(new) \ {k}
      PROVE  new[j].logic = old[j].logic /\ j \in Used(old)
  <2>1. old \in [K -> MailRule \cup {None}] /\ j \in Used(old)
    BY CatalogFacts
  <2>2. old[j] \in MailRule
    BY <2>1 DEF Used
  <2> QED BY <2>1, <2>2 DEF MailRule
<1> QED BY <1>1 DEF DestructiveRules

LEMMA RuleCallKeeps ==
  ASSUME RulesInv, RuleCall
  PROVE  /\ Steps(Rule, MailRule, rules, rules') /\ allowed' \in BOOLEAN
         /\ UNCHANGED <<formats, quick, sweeps, mail>>
         /\ DestructiveRules(rules') \subseteq DestructiveRules(rules) \/ allowed'
<1>1. /\ Catalog(Rule, MailRule, rules) /\ Ordered(rules) /\ Rule # {}
      /\ rules \in [Rule -> MailRule \cup {None}] /\ None \notin MailRule /\ IsFiniteSet(Rule)
      /\ DOMAIN rules = Rule /\ Orderable(MailRule) /\ Cardinality(Used(rules)) \in Nat
  BY RulesFacts, CatalogFacts DEF RulesInv
<1> DEFINE Goal == /\ Steps(Rule, MailRule, rules, rules') /\ allowed' \in BOOLEAN
                   /\ UNCHANGED <<formats, quick, sweeps, mail>>
                   /\ DestructiveRules(rules') \subseteq DestructiveRules(rules) \/ allowed'
<1>2. ASSUME NEW k \in Rule, NEW v \in MailRule, rules[k] # None, v.order = rules[k].order,
             PutRules([rules EXCEPT ![k] = v]), allowed' \in BOOLEAN,
             allowed' \/ (v.logic \in DestructiveLogic => rules[k].logic \in DestructiveLogic)
      PROVE  Goal
  <2> DEFINE new == [rules EXCEPT ![k] = v]
  <2>1. /\ new \in [Rule -> MailRule \cup {None}] /\ new[k] = v
        /\ \A j \in Rule \ {k} : new[j] = rules[j]
    BY <1>1, <1>2
  <2>2. rules' = new /\ UNCHANGED <<formats, quick, sweeps, mail>>
    BY <1>2 DEF PutRules
  <2> HIDE DEF new
  <2>3. Used(new) = Used(rules) /\ \A j \in Used(rules) : new[j].order = rules[j].order
    BY <1>1, <1>2, <2>1 DEF Used
  <2>4. Catalog(Rule, MailRule, new)
    BY <1>1, <2>1 DEF Catalog
  <2>5. Ordered(new) /\ KeepsAllBut(rules, new, k)
    BY <1>1, <2>3, <2>4, SameOrders
  <2>6. ~allowed' => DestructiveRules(new) \subseteq DestructiveRules(rules)
    <3> SUFFICES ASSUME ~allowed', NEW j \in DestructiveRules(new)
                 PROVE  j \in DestructiveRules(rules)
      OBVIOUS
    <3>1. j \in Used(rules) /\ new[j].logic \in DestructiveLogic /\ j \in Rule
      BY <1>1, <2>3 DEF DestructiveRules, Used
    <3> QED BY <1>2, <2>1, <3>1 DEF DestructiveRules
  <2> QED BY <1>2, <2>2, <2>4, <2>5, <2>6 DEF Steps
<1>3. ASSUME NEW k \in Rule, NEW name \in Caption, NEW logic \in Logic, NEW enabled \in BOOLEAN,
             NEW allow \in BOOLEAN, CreateRule(k, name, logic, enabled, allow)
      PROVE  Goal
  <2> DEFINE v == [order |-> Last(rules), name |-> name, logic |-> logic, enabled |-> enabled]
             new == Appended(rules, k, v)
  <2>1. /\ rules[k] = None /\ rules' = new /\ allowed' = allow
        /\ logic \in DestructiveLogic => allow
        /\ UNCHANGED <<formats, quick, sweeps, mail>>
    BY <1>3 DEF CreateRule, PutRules
  <2>2. v \in MailRule /\ v.order = Last(rules) /\ v.logic = logic
    BY <1>1 DEF MailRule, Last
  <2>3. new = [rules EXCEPT ![k] = v]
    BY DEF Appended
  <2> HIDE DEF v
  <2>4. Catalog(Rule, MailRule, new) /\ Ordered(new) /\ KeepsAllBut(rules, new, k)
    BY <1>1, <2>1, <2>2, AppendedKeeps
  <2>5. new[k] = v /\ \A j \in Rule \ {k} : new[j] = rules[j]
    BY <1>1, <2>3
  <2> HIDE DEF new
  <2>6. ~allow => DestructiveRules(new) \subseteq DestructiveRules(rules)
    <3> SUFFICES ASSUME ~allow, NEW j \in DestructiveRules(new)
                 PROVE  j \in DestructiveRules(rules)
      OBVIOUS
    <3>1. j \in Used(new) /\ new[j].logic \in DestructiveLogic /\ j \in Rule
      BY <2>4, CatalogFacts DEF DestructiveRules
    <3>2. j # k
      BY <2>1, <2>2, <2>5, <3>1
    <3> QED BY <1>1, <2>5, <3>1, <3>2 DEF DestructiveRules, Used
  <2> QED BY <2>1, <2>4, <2>6 DEF Steps
<1>4. ASSUME NEW k \in Rule, DeleteRule(k)
      PROVE  Goal
  <2>1. /\ allowed' = FALSE /\ UNCHANGED <<formats, quick, sweeps, mail>>
        /\ rules' = rules \/ rules' = Without(rules, k)
    BY <1>4 DEF DeleteRule, PutRules
  <2>2. CASE rules' = rules
    BY <1>1, <2>1, <2>2, Untouched
  <2>3. CASE rules' = Without(rules, k)
    <3>1. Catalog(Rule, MailRule, rules') /\ Ordered(rules') /\ KeepsAllBut(rules, rules', k)
          /\ Used(rules') = Used(rules) \ {k}
      BY <1>1, <2>3, WithoutKeeps
    <3>2. \A j \in Used(Without(rules, k)) :
            /\ j \in Used(rules) \ {k}
            /\ \E n \in Nat : Without(rules, k)[j] = [rules[j] EXCEPT !.order = n]
      BY <1>1, WithoutRenumbers
    <3>5. \A j \in Used(rules') \ {k} :
            j \in Used(rules) /\ \E n \in Nat : rules'[j] = [rules[j] EXCEPT !.order = n]
      BY <2>3, <3>2
    <3>3. DestructiveRules(rules') \subseteq DestructiveRules(rules) \cup {k}
      BY <1>1, <3>5, DestructiveBut
    <3>4. k \notin DestructiveRules(rules')
      BY <3>1 DEF DestructiveRules
    <3> QED BY <2>1, <3>1, <3>3, <3>4 DEF Steps
  <2> QED BY <2>1, <2>2, <2>3
<1>5. ASSUME NEW k \in Rule, NEW target \in 1..MaxOrder, MoveRule(k, target)
      PROVE  Goal
  <2>1. /\ rules[k] # None /\ target \in 1..Cardinality(Used(rules)) /\ target \in Nat
        /\ rules' = Placed(rules, k, rules[k], target)
        /\ allowed' = FALSE /\ UNCHANGED <<formats, quick, sweeps, mail>>
    BY <1>5 DEF MoveRule, PutRules
  <2>2. rules[k] \in MailRule
    BY <1>1, <2>1
  <2>3. Catalog(Rule, MailRule, rules') /\ Ordered(rules') /\ KeepsAllBut(rules, rules', k)
        /\ Used(rules') = Used(rules)
    BY <1>1, <2>1, <2>2, PlacedKeeps
  <2>4. /\ \A j \in Used(rules') \ {k} :
             /\ j \in Used(rules)
             /\ \E n \in Nat : rules'[j] = [rules[j] EXCEPT !.order = n]
        /\ rules'[k] = [rules[k] EXCEPT !.order = target]
    BY <1>1, <2>1, PlacedRenumbers
  <2>5. DestructiveRules(rules') \subseteq DestructiveRules(rules) \cup {k}
    BY <1>1, <2>4, DestructiveBut
  <2>6. k \in DestructiveRules(rules') => k \in DestructiveRules(rules)
    BY <2>2, <2>3, <2>4 DEF DestructiveRules, MailRule
  <2> QED BY <2>1, <2>3, <2>5, <2>6 DEF Steps
<1>6. ASSUME NEW k \in Rule, rules[k] # None
      PROVE  /\ rules[k] \in MailRule
             /\ \A name \in Caption : LET v == [rules[k] EXCEPT !.name = name] IN
                  v \in MailRule /\ v.order = rules[k].order /\ v.logic = rules[k].logic
             /\ \A enabled \in BOOLEAN : LET v == [rules[k] EXCEPT !.enabled = enabled] IN
                  v \in MailRule /\ v.order = rules[k].order /\ v.logic = rules[k].logic
             /\ \A logic \in Logic : LET v == [rules[k] EXCEPT !.logic = logic] IN
                  v \in MailRule /\ v.order = rules[k].order /\ v.logic = logic
  BY <1>1, <1>6 DEF MailRule
<1>7. ASSUME NEW k \in Rule, NEW name \in Caption, RenameRule(k, name)
      PROVE  Goal
  BY <1>2, <1>6, <1>7 DEF RenameRule
<1>8. ASSUME NEW k \in Rule, NEW enabled \in BOOLEAN, EnableRule(k, enabled)
      PROVE  Goal
  BY <1>2, <1>6, <1>8 DEF EnableRule
<1>9. ASSUME NEW k \in Rule, NEW logic \in Logic, NEW allow \in BOOLEAN, ChangeLogic(k, logic, allow)
      PROVE  Goal
  BY <1>2, <1>6, <1>9 DEF ChangeLogic
<1> QED BY <1>3, <1>4, <1>5, <1>7, <1>8, <1>9 DEF RuleCall

LEMMA FormatCallKeeps ==
  ASSUME RulesInv, FormatCall
  PROVE  /\ Steps(Format, FormattingRule, formats, formats') /\ allowed' \in BOOLEAN
         /\ UNCHANGED <<rules, quick, sweeps, mail>>
<1>1. /\ Catalog(Format, FormattingRule, formats) /\ Ordered(formats) /\ Format # {}
      /\ Cardinality(Used(formats)) \in Nat /\ None \notin FormattingRule
  BY RulesFacts, CatalogFacts DEF RulesInv
<1>2. PICK k \in Format : DeleteFormat(k) \/ \E name \in Caption, target \in 1..MaxOrder : UpsertFormat(k, name, target)
  BY DEF FormatCall
<1>3. CASE DeleteFormat(k)
  <2>1. /\ allowed' = FALSE /\ UNCHANGED <<rules, quick, sweeps, mail>>
        /\ formats' = formats \/ formats' = Without(formats, k)
    BY <1>3 DEF DeleteFormat, PutFormats
  <2>2. CASE formats' = formats
    BY <1>1, <2>1, <2>2, Untouched
  <2>3. CASE formats' = Without(formats, k)
    <3>1. Catalog(Format, FormattingRule, formats') /\ Ordered(formats') /\ KeepsAllBut(formats, formats', k)
      BY <1>1, <2>3, WithoutKeeps
    <3> QED BY <2>1, <3>1 DEF Steps
  <2> QED BY <2>1, <2>2, <2>3
<1>4. ASSUME NEW name \in Caption, NEW target \in 1..MaxOrder, UpsertFormat(k, name, target)
      PROVE  /\ Steps(Format, FormattingRule, formats, formats') /\ allowed' \in BOOLEAN
             /\ UNCHANGED <<rules, quick, sweeps, mail>>
  <2> DEFINE v == [order |-> target, name |-> name]
  <2>1. \/ formats[k] = None /\ target = Last(formats) /\ PutFormats(Appended(formats, k, v))
        \/ /\ formats[k] # None /\ target \in 1..Cardinality(Used(formats))
           /\ PutFormats(Placed(formats, k, v, target))
    BY <1>4 DEF UpsertFormat
  <2>2. v \in FormattingRule /\ v.order = target
    <3>1. target \in Nat
      BY RulesAssumption
    <3> QED BY <3>1 DEF FormattingRule
  <2> HIDE DEF v
  <2>3. CASE formats[k] = None /\ target = Last(formats) /\ PutFormats(Appended(formats, k, v))
    <3>1. /\ formats' = Appended(formats, k, v) /\ allowed' = FALSE
          /\ UNCHANGED <<rules, quick, sweeps, mail>>
      BY <2>3 DEF PutFormats
    <3>2. Catalog(Format, FormattingRule, formats') /\ Ordered(formats') /\ KeepsAllBut(formats, formats', k)
      BY <1>1, <2>2, <2>3, <3>1, AppendedKeeps
    <3> QED BY <3>1, <3>2 DEF Steps
  <2>4. CASE /\ formats[k] # None /\ target \in 1..Cardinality(Used(formats))
             /\ PutFormats(Placed(formats, k, v, target))
    <3>1. /\ formats' = Placed(formats, k, v, target) /\ allowed' = FALSE
          /\ UNCHANGED <<rules, quick, sweeps, mail>>
      BY <2>4 DEF PutFormats
    <3>2. Catalog(Format, FormattingRule, formats') /\ Ordered(formats') /\ KeepsAllBut(formats, formats', k)
      BY <1>1, <2>2, <2>4, <3>1, PlacedKeeps
    <3> QED BY <3>1, <3>2 DEF Steps
  <2> QED BY <2>1, <2>3, <2>4
<1> QED BY <1>2, <1>3, <1>4

(* Two quick steps share no shortcut when the one written has a free one.   *)
LEMMA DistinctBut ==
  ASSUME NEW K, NEW old, NEW new, NEW k, Catalog(K, SyntheticQuickStep, old),
         Catalog(K, SyntheticQuickStep, new), Distinct(old),
         \A j \in Used(new) \ {k} :
           j \in Used(old) /\ new[j].shortcut = old[j].shortcut,
         k \in Used(new) /\ new[k].shortcut # None =>
           \A j \in Used(old) \ {k} : old[j].shortcut # new[k].shortcut
  PROVE  Distinct(new)
BY DEF Distinct

(* or the quick step.                                                       *)
LEMMA QuickBut ==
  ASSUME NEW old, NEW new, NEW k,
         \A j \in Used(new) \ {k} : j \in Used(old) /\ new[j].actions = old[j].actions
  PROVE  DestructiveQuick(new) \subseteq DestructiveQuick(old) \cup {k}
BY DEF DestructiveQuick

(* A step written to the catalog of quick steps.                            *)
LEMMA QuickWritten ==
  ASSUME RulesInv, NEW k \in QuickStep, NEW actions \in ActionList,
         NEW shortcut \in Shortcut \cup {None}, NEW allow \in BOOLEAN,
         Sensitive(actions) => allow, ShortcutFree(k, shortcut),
         Steps(QuickStep, SyntheticQuickStep, quick, quick'), allowed' = allow,
         \A j \in Used(quick') \ {k} :
           j \in Used(quick) /\ quick'[j].shortcut = quick[j].shortcut /\ quick'[j].actions = quick[j].actions,
         quick'[k].shortcut = shortcut, quick'[k].actions = actions
  PROVE  Distinct(quick') /\ (DestructiveQuick(quick') \subseteq DestructiveQuick(quick) \/ allowed')
<1>1. /\ Catalog(QuickStep, SyntheticQuickStep, quick) /\ Catalog(QuickStep, SyntheticQuickStep, quick')
      /\ Distinct(quick)
  BY RulesFacts DEF RulesInv, Steps
<1>2. Distinct(quick')
  BY <1>1, DistinctBut DEF ShortcutFree
<1>3. ASSUME ~allow
      PROVE  DestructiveQuick(quick') \subseteq DestructiveQuick(quick)
  <2>1. k \notin DestructiveQuick(quick')
    BY <1>3 DEF DestructiveQuick, Sensitive
  <2>2. DestructiveQuick(quick') \subseteq DestructiveQuick(quick) \cup {k}
    BY QuickBut
  <2> QED BY <2>1, <2>2
<1> QED BY <1>2, <1>3

LEMMA QuickCallKeeps ==
  ASSUME RulesInv, QuickCall
  PROVE  /\ Steps(QuickStep, SyntheticQuickStep, quick, quick') /\ allowed' \in BOOLEAN
         /\ Distinct(quick')
         /\ DestructiveQuick(quick') \subseteq DestructiveQuick(quick) \/ allowed'
         /\ UNCHANGED <<rules, formats, sweeps>>
         /\ \/ mail' = mail
            \/ \E k \in Used(quick) :
                 /\ ~Outbound(quick[k].actions) /\ mail' = Applied(mail, quick[k].actions)
                 /\ Deletes(quick[k].actions) => allowed'
<1> DEFINE Goal == /\ Steps(QuickStep, SyntheticQuickStep, quick, quick') /\ allowed' \in BOOLEAN
                   /\ Distinct(quick')
                   /\ DestructiveQuick(quick') \subseteq DestructiveQuick(quick) \/ allowed'
                   /\ UNCHANGED <<rules, formats, sweeps>>
                   /\ \/ mail' = mail
                      \/ \E k \in Used(quick) :
                           /\ ~Outbound(quick[k].actions) /\ mail' = Applied(mail, quick[k].actions)
                           /\ Deletes(quick[k].actions) => allowed'
<1>1. /\ Catalog(QuickStep, SyntheticQuickStep, quick) /\ Ordered(quick) /\ QuickStep # {}
      /\ Cardinality(Used(quick)) \in Nat /\ None \notin SyntheticQuickStep /\ Distinct(quick)
      /\ DOMAIN quick = QuickStep /\ quick \in [QuickStep -> SyntheticQuickStep \cup {None}]
  BY RulesFacts, CatalogFacts DEF RulesInv
<1>2. ASSUME NEW k \in QuickStep, NEW actions \in ActionList, NEW shortcut \in Shortcut \cup {None},
             NEW allow \in BOOLEAN, CreateQuickStep(k, actions, shortcut, allow)
      PROVE  Goal
  <2> DEFINE v == [order |-> Last(quick), actions |-> actions, shortcut |-> shortcut]
  <2>1. /\ quick[k] = None /\ quick' = Appended(quick, k, v) /\ allowed' = allow
        /\ Sensitive(actions) => allow
        /\ ShortcutFree(k, shortcut) /\ UNCHANGED <<rules, formats, sweeps, mail>>
    BY <1>2 DEF CreateQuickStep, PutQuick
  <2>2. v \in SyntheticQuickStep /\ v.order = Last(quick) /\ v.actions = actions /\ v.shortcut = shortcut
    BY <1>1 DEF SyntheticQuickStep, Last
  <2> HIDE DEF v
  <2>3. Catalog(QuickStep, SyntheticQuickStep, quick') /\ Ordered(quick') /\ KeepsAllBut(quick, quick', k)
    BY <1>1, <2>1, <2>2, AppendedKeeps
  <2>4. quick'[k] = v /\ DOMAIN quick' = QuickStep /\ \A j \in QuickStep \ {k} : quick'[j] = quick[j]
    BY <1>1, <2>1 DEF Appended
  <2>5. \A j \in Used(quick') \ {k} : j \in Used(quick) /\ quick'[j] = quick[j]
    BY <1>1, <2>4 DEF Used
  <2>6. Steps(QuickStep, SyntheticQuickStep, quick, quick')
    BY <2>3 DEF Steps
  <2>7. Distinct(quick') /\ (DestructiveQuick(quick') \subseteq DestructiveQuick(quick) \/ allowed')
    <3>1. /\ quick'[k].shortcut = shortcut /\ quick'[k].actions = actions
          /\ \A j \in Used(quick') \ {k} :
               j \in Used(quick) /\ quick'[j].shortcut = quick[j].shortcut /\ quick'[j].actions = quick[j].actions
      BY <2>2, <2>4, <2>5
    <3> QED BY <2>1, <2>6, <3>1, QuickWritten
  <2> QED BY <2>1, <2>6, <2>7
<1>3. ASSUME NEW k \in QuickStep, NEW actions \in ActionList, NEW shortcut \in Shortcut \cup {None},
             NEW allow \in BOOLEAN, NEW target \in 1..MaxOrder,
             UpdateQuickStep(k, actions, shortcut, target, allow)
      PROVE  Goal
  <2> DEFINE v == [order |-> target, actions |-> actions, shortcut |-> shortcut]
  <2>1. /\ quick[k] # None /\ target \in 1..Cardinality(Used(quick)) /\ target \in Nat
        /\ quick' = Placed(quick, k, v, target) /\ allowed' = allow
        /\ Sensitive(actions) => allow
        /\ ShortcutFree(k, shortcut) /\ UNCHANGED <<rules, formats, sweeps, mail>>
    BY <1>3 DEF UpdateQuickStep, PutQuick
  <2>2. v \in SyntheticQuickStep /\ [v EXCEPT !.order = target] = v
        /\ v.actions = actions /\ v.shortcut = shortcut
    BY <2>1 DEF SyntheticQuickStep
  <2> HIDE DEF v
  <2>3. Catalog(QuickStep, SyntheticQuickStep, quick') /\ Ordered(quick') /\ KeepsAllBut(quick, quick', k)
    BY <1>1, <2>1, <2>2, PlacedKeeps
  <2>4. /\ \A j \in Used(quick') \ {k} :
             j \in Used(quick) /\ \E n \in Nat : quick'[j] = [quick[j] EXCEPT !.order = n]
        /\ quick'[k] = [v EXCEPT !.order = target]
    BY <1>1, <2>1, PlacedRenumbers
  <2>5. \A j \in Used(quick') \ {k} :
           j \in Used(quick) /\ quick'[j].shortcut = quick[j].shortcut /\ quick'[j].actions = quick[j].actions
    <3> SUFFICES ASSUME NEW j \in Used(quick') \ {k}
                 PROVE  /\ j \in Used(quick) /\ quick'[j].shortcut = quick[j].shortcut
                        /\ quick'[j].actions = quick[j].actions
      OBVIOUS
    <3>1. j \in Used(quick) /\ \E n \in Nat : quick'[j] = [quick[j] EXCEPT !.order = n]
      BY <2>4
    <3>2. quick[j] \in SyntheticQuickStep
      BY <1>1, <3>1 DEF Used
    <3> QED BY <3>1, <3>2 DEF SyntheticQuickStep
  <2>6. Steps(QuickStep, SyntheticQuickStep, quick, quick')
    BY <2>3 DEF Steps
  <2>7. Distinct(quick') /\ (DestructiveQuick(quick') \subseteq DestructiveQuick(quick) \/ allowed')
    <3>1. quick'[k].shortcut = shortcut /\ quick'[k].actions = actions
      BY <2>2, <2>4
    <3> QED BY <2>1, <2>5, <2>6, <3>1, QuickWritten
  <2> QED BY <2>1, <2>6, <2>7
<1>4. ASSUME NEW k \in QuickStep, DeleteQuickStep(k)
      PROVE  Goal
  <2>1. /\ allowed' = FALSE /\ UNCHANGED <<rules, formats, sweeps, mail>>
        /\ quick' = quick \/ quick' = Without(quick, k)
    BY <1>4 DEF DeleteQuickStep, PutQuick
  <2>2. CASE quick' = quick
    BY <1>1, <2>1, <2>2, Untouched
  <2>3. CASE quick' = Without(quick, k)
    <3>1. Catalog(QuickStep, SyntheticQuickStep, quick') /\ Ordered(quick') /\ KeepsAllBut(quick, quick', k)
          /\ Used(quick') = Used(quick) \ {k}
      BY <1>1, <2>3, WithoutKeeps
    <3>2. \A j \in Used(Without(quick, k)) :
            /\ j \in Used(quick) \ {k}
            /\ \E n \in Nat : Without(quick, k)[j] = [quick[j] EXCEPT !.order = n]
      BY <1>1, WithoutRenumbers
    <3>3. \A j \in Used(quick') \ {k} :
            j \in Used(quick) /\ \E n \in Nat : quick'[j] = [quick[j] EXCEPT !.order = n]
      BY <2>3, <3>2
    <3>4. \A j \in Used(quick') \ {k} :
             j \in Used(quick) /\ quick'[j].shortcut = quick[j].shortcut /\ quick'[j].actions = quick[j].actions
      <4> SUFFICES ASSUME NEW j \in Used(quick') \ {k}
                   PROVE  /\ j \in Used(quick) /\ quick'[j].shortcut = quick[j].shortcut
                          /\ quick'[j].actions = quick[j].actions
        OBVIOUS
      <4>1. j \in Used(quick) /\ \E n \in Nat : quick'[j] = [quick[j] EXCEPT !.order = n]
        BY <3>3
      <4>2. quick[j] \in SyntheticQuickStep
        BY <1>1, <4>1 DEF Used
      <4> QED BY <4>1, <4>2 DEF SyntheticQuickStep
    <3>5. Distinct(quick')
      BY <1>1, <3>1, <3>4 DEF Distinct
    <3>6. DestructiveQuick(quick') \subseteq DestructiveQuick(quick)
      BY <3>1, <3>4 DEF DestructiveQuick
    <3> QED BY <2>1, <3>1, <3>5, <3>6 DEF Steps
  <2> QED BY <2>1, <2>2, <2>3
<1>5. ASSUME NEW k \in QuickStep, NEW destructive \in BOOLEAN, NEW outbound \in BOOLEAN,
             Execute(k, destructive, outbound)
      PROVE  Goal
  <2>1. /\ UNCHANGED <<rules, formats, quick, sweeps>> /\ allowed' = destructive /\ k \in Used(quick)
        /\ mail' = IF Outbound(quick[k].actions) THEN mail ELSE Applied(mail, quick[k].actions)
        /\ Deletes(quick[k].actions) => destructive
    BY <1>1, <1>5 DEF Execute, Used
  <2>2. Steps(QuickStep, SyntheticQuickStep, quick, quick')
    BY <1>1, <2>1, Untouched
  <2> QED BY <1>1, <2>1, <2>2
<1> QED BY <1>2, <1>3, <1>4, <1>5 DEF QuickCall

LEMMA SweepCallKeeps ==
  ASSUME RulesInv, SweepCall
  PROVE  /\ sweeps' \in [Sweep -> SweepMode \cup {None}] /\ Cardinality(Used(sweeps')) <= MaxSweeps
         /\ allowed' \in BOOLEAN /\ UNCHANGED <<rules, formats, quick, mail>>
         /\ {k \in Used(sweeps') : sweeps'[k] = "DELETE"} \subseteq {k \in Used(sweeps) : sweeps[k] = "DELETE"}
              \/ allowed'
<1>1. /\ sweeps \in [Sweep -> SweepMode \cup {None}] /\ Cardinality(Used(sweeps)) <= MaxSweeps
      /\ MaxSweeps \in Nat /\ IsFiniteSet(Sweep) /\ None \notin SweepMode
  BY RulesFacts DEF RulesInv, RulesTypeOK
<1>2. PICK k \in Sweep : DeleteSweep(k) \/ \E mode \in SweepMode, allow \in BOOLEAN : UpsertSweep(k, mode, allow)
  BY DEF SweepCall
<1>3. ASSUME NEW v \in SweepMode \cup {None}, sweeps' = [sweeps EXCEPT ![k] = v]
      PROVE  /\ sweeps' \in [Sweep -> SweepMode \cup {None}]
             /\ v # "DELETE" => {j \in Used(sweeps') : sweeps'[j] = "DELETE"}
                                  \subseteq {j \in Used(sweeps) : sweeps[j] = "DELETE"}
  BY <1>1, <1>3 DEF Used
<1>4. CASE DeleteSweep(k)
  <2>1. sweeps' = [sweeps EXCEPT ![k] = None] /\ allowed' = FALSE /\ UNCHANGED <<rules, formats, quick, mail>>
    BY <1>4 DEF DeleteSweep, PutSweep
  <2>2. Cardinality(Used(sweeps')) <= MaxSweeps
    BY <1>1, <2>1, PutBounded
  <2>3. None # "DELETE"
    BY <1>1 DEF SweepMode
  <2> QED BY <1>3, <2>1, <2>2, <2>3
<1>5. ASSUME NEW mode \in SweepMode, NEW allow \in BOOLEAN, UpsertSweep(k, mode, allow)
      PROVE  /\ sweeps' = [sweeps EXCEPT ![k] = mode] /\ allowed' = allow
             /\ mode = "DELETE" => allow
             /\ Cardinality(Used(sweeps')) <= MaxSweeps
             /\ UNCHANGED <<rules, formats, quick, mail>>
  BY <1>5 DEF UpsertSweep, PutSweep
<1> QED BY <1>2, <1>3, <1>4, <1>5

Letter == [folder : Place, categories : SUBSET Category,
           read : BOOLEAN, flagged : BOOLEAN, deleted : BOOLEAN]

(* What a list of actions makes of a message.                               *)
LEMMA AppliedTyped ==
  ASSUME NEW message \in Letter, NEW list \in ActionList
  PROVE  /\ Applied(message, list) \in Letter
         /\ Applied(message, list).deleted = (message.deleted \/ Deletes(list))
<1> DEFINE moves == {i \in DOMAIN list : list[i].kind = "MOVE_TO_FOLDER"}
           added == {list[i].target : i \in {j \in DOMAIN list : list[j].kind = "APPLY_CATEGORY"}}
           folder == IF moves = {} THEN message.folder
                     ELSE list[CHOOSE i \in moves : \A j \in moves : j <= i].target
<1>1. /\ DOMAIN list = 1..Len(list) /\ Len(list) \in Nat
      /\ \A i \in DOMAIN list : /\ list[i].kind = "MOVE_TO_FOLDER" => list[i].target \in Place
                                /\ list[i].kind = "APPLY_CATEGORY" => list[i].target \in Category
  BY RulesAssumption
<1>2. folder \in Place
  <2>1. CASE moves = {}
    BY <2>1 DEF Letter
  <2>2. CASE moves # {}
    <3>1. moves \subseteq 1..Len(list) /\ IsFiniteSet(1..Len(list))
      BY <1>1, FS_Interval
    <3>2. IsFiniteSet(moves) /\ moves \subseteq Nat
      BY <1>1, <3>1, FS_Subset
    <3>3. [i \in moves |-> i] \in [moves -> Nat]
      BY <3>2
    <3>4. \E m \in moves : \A n \in moves : [i \in moves |-> i][n] <= [i \in moves |-> i][m]
      <4> HIDE DEF moves
      <4> QED BY <2>2, <3>2, <3>3, Greatest
    <3>5. \E m \in moves : \A n \in moves : n <= m
      <4> HIDE DEF moves
      <4> QED BY <3>4
    <3>6. (CHOOSE i \in moves : \A j \in moves : j <= i) \in moves
      <4> HIDE DEF moves
      <4> QED BY <3>5
    <3>7. \A i \in moves : list[i].target \in Place
      BY <1>1
    <3> HIDE DEF moves
    <3> QED BY <2>2, <3>6, <3>7
  <2> QED BY <2>1, <2>2
<1>3. added \subseteq Category
  BY <1>1
<1>4. Applied(message, list) =
        [folder |-> folder, categories |-> message.categories \cup added,
         read |-> message.read \/ HasKind(list, {"MARK_READ"}),
         flagged |-> message.flagged \/ HasKind(list, {"FLAG"}),
         deleted |-> message.deleted \/ Deletes(list)]
  BY DEF Applied
<1> HIDE DEF folder, added
<1>5. /\ (message.read \/ HasKind(list, {"MARK_READ"})) \in BOOLEAN
      /\ (message.flagged \/ HasKind(list, {"FLAG"})) \in BOOLEAN
      /\ (message.deleted \/ Deletes(list)) \in BOOLEAN
  OBVIOUS
<1>6. message.categories \cup added \in SUBSET Category
  BY <1>3 DEF Letter
<1>7. Applied(message, list) \in Letter
  BY <1>2, <1>4, <1>5, <1>6 DEF Letter
<1> QED BY <1>4, <1>7

OrdersKept ==
  /\ \E k \in Rule : KeepsAllBut(rules, rules', k)
  /\ \E k \in Format : KeepsAllBut(formats, formats', k)
  /\ \E k \in QuickStep : KeepsAllBut(quick, quick', k)

DeletionStays ==
  (Destructive' \subseteq Destructive /\ mail.deleted' = mail.deleted) \/ allowed'

OutboundStays ==
  mail' # mail => \E k \in Used(quick) :
    ~Outbound(quick[k].actions) /\ mail' = Applied(mail, quick[k].actions)

(* Every call keeps the invariant and the three promises about a step.      *)
LEMMA RulesKept ==
  ASSUME RulesInv, [RulesNext]_rulesVars
  PROVE  RulesInv' /\ OrdersKept /\ DeletionStays /\ OutboundStays
<1> DEFINE Goal == RulesInv' /\ OrdersKept /\ DeletionStays /\ OutboundStays
<1>1. /\ Catalog(Rule, MailRule, rules) /\ Ordered(rules) /\ Rule # {}
      /\ Catalog(Format, FormattingRule, formats) /\ Ordered(formats) /\ Format # {}
      /\ Catalog(QuickStep, SyntheticQuickStep, quick) /\ Ordered(quick) /\ QuickStep # {}
      /\ Distinct(quick) /\ RulesTypeOK
  BY RulesFacts DEF RulesInv
<1>2. /\ Steps(Rule, MailRule, rules, rules)
      /\ Steps(Format, FormattingRule, formats, formats)
      /\ Steps(QuickStep, SyntheticQuickStep, quick, quick)
  BY <1>1, Untouched
<1>3. ASSUME Steps(Rule, MailRule, rules, rules'), Steps(Format, FormattingRule, formats, formats'),
             Steps(QuickStep, SyntheticQuickStep, quick, quick'), Distinct(quick'),
             sweeps' \in [Sweep -> SweepMode \cup {None}], Cardinality(Used(sweeps')) <= MaxSweeps,
             mail' \in Letter, allowed' \in BOOLEAN
      PROVE  RulesInv' /\ OrdersKept
  <2>1. RulesTypeOK'
    BY <1>3, CatalogFacts DEF RulesTypeOK, Steps, Letter, Catalog
  <2>2. Ordered(rules)' /\ Ordered(formats)' /\ Ordered(quick)' /\ Distinct(quick)'
    BY <1>3 DEF Steps, Ordered, Orders, Distinct
  <2> QED BY <1>3, <2>1, <2>2 DEF RulesInv, OrdersKept, Steps
<1>4. Destructive = DestructiveRules(rules) \cup DestructiveQuick(quick)
        \cup {k \in Used(sweeps) : sweeps[k] = "DELETE"}
  BY DEF Destructive, DestructiveRules, DestructiveQuick
<1>5. Destructive' = DestructiveRules(rules') \cup DestructiveQuick(quick')
        \cup {k \in Used(sweeps') : sweeps'[k] = "DELETE"}
  BY DEF Destructive, DestructiveRules, DestructiveQuick
<1>6. /\ sweeps \in [Sweep -> SweepMode \cup {None}] /\ Cardinality(Used(sweeps)) <= MaxSweeps
      /\ mail \in Letter /\ allowed \in BOOLEAN
  BY <1>1 DEF RulesTypeOK, Letter
<1>7. CASE RuleCall
  <2>1. /\ Steps(Rule, MailRule, rules, rules') /\ allowed' \in BOOLEAN
        /\ UNCHANGED <<formats, quick, sweeps, mail>>
        /\ DestructiveRules(rules') \subseteq DestructiveRules(rules) \/ allowed'
    BY <1>7, RuleCallKeeps
  <2>2. RulesInv' /\ OrdersKept
    BY <1>1, <1>2, <1>3, <1>6, <2>1
  <2>3. DeletionStays /\ OutboundStays
    BY <1>4, <1>5, <2>1 DEF DeletionStays, OutboundStays
  <2> QED BY <2>2, <2>3
<1>8. CASE FormatCall
  <2>1. /\ Steps(Format, FormattingRule, formats, formats') /\ allowed' \in BOOLEAN
        /\ UNCHANGED <<rules, quick, sweeps, mail>>
    BY <1>8, FormatCallKeeps
  <2>2. RulesInv' /\ OrdersKept
    BY <1>1, <1>2, <1>3, <1>6, <2>1
  <2>3. DeletionStays /\ OutboundStays
    BY <1>4, <1>5, <2>1 DEF DeletionStays, OutboundStays
  <2> QED BY <2>2, <2>3
<1>9. CASE QuickCall
  <2>1. /\ Steps(QuickStep, SyntheticQuickStep, quick, quick') /\ allowed' \in BOOLEAN
        /\ Distinct(quick')
        /\ DestructiveQuick(quick') \subseteq DestructiveQuick(quick) \/ allowed'
        /\ UNCHANGED <<rules, formats, sweeps>>
    BY <1>9, QuickCallKeeps
  <2>2. \/ mail' = mail
        \/ \E k \in Used(quick) :
             /\ ~Outbound(quick[k].actions) /\ mail' = Applied(mail, quick[k].actions)
             /\ Deletes(quick[k].actions) => allowed'
    BY <1>9, QuickCallKeeps
  <2>3. mail' \in Letter /\ (mail'.deleted = mail.deleted \/ allowed')
    <3>1. CASE mail' = mail
      BY <1>6, <3>1
    <3>2. ASSUME NEW k \in Used(quick), mail' = Applied(mail, quick[k].actions),
                 Deletes(quick[k].actions) => allowed'
          PROVE  mail' \in Letter /\ (mail'.deleted = mail.deleted \/ allowed')
      <4>1. quick[k] \in SyntheticQuickStep
        BY <1>1 DEF Used, RulesTypeOK
      <4>2. quick[k].actions \in ActionList
        BY <4>1 DEF SyntheticQuickStep
      <4>3. mail' \in Letter /\ mail'.deleted = (mail.deleted \/ Deletes(quick[k].actions))
        BY <1>6, <3>2, <4>2, AppliedTyped
      <4>4. mail.deleted \in BOOLEAN
        BY <1>6 DEF Letter
      <4>5. CASE Deletes(quick[k].actions)
        BY <3>2, <4>3, <4>5
      <4>6. CASE ~Deletes(quick[k].actions)
        BY <4>3, <4>4, <4>6
      <4> QED BY <4>5, <4>6
    <3> QED BY <2>2, <3>1, <3>2
  <2>4. RulesInv' /\ OrdersKept
    BY <1>1, <1>2, <1>3, <1>6, <2>1, <2>3
  <2>5. DeletionStays
    BY <1>4, <1>5, <2>1, <2>3 DEF DeletionStays
  <2>6. OutboundStays
    BY <2>2 DEF OutboundStays
  <2> QED BY <2>4, <2>5, <2>6
<1>10. CASE SweepCall
  <2>1. /\ sweeps' \in [Sweep -> SweepMode \cup {None}] /\ Cardinality(Used(sweeps')) <= MaxSweeps
        /\ allowed' \in BOOLEAN /\ UNCHANGED <<rules, formats, quick, mail>>
        /\ {k \in Used(sweeps') : sweeps'[k] = "DELETE"} \subseteq {k \in Used(sweeps) : sweeps[k] = "DELETE"}
             \/ allowed'
    BY <1>10, SweepCallKeeps
  <2>2. RulesInv' /\ OrdersKept
    BY <1>1, <1>2, <1>3, <1>6, <2>1
  <2>3. DeletionStays /\ OutboundStays
    BY <1>4, <1>5, <2>1 DEF DeletionStays, OutboundStays
  <2> QED BY <2>2, <2>3
<1>11. CASE UNCHANGED rulesVars
  <2>1. UNCHANGED <<rules, formats, quick, sweeps, mail, allowed>>
    BY <1>11 DEF rulesVars
  <2>2. RulesInv' /\ OrdersKept
    BY <1>1, <1>2, <1>3, <1>6, <2>1
  <2>3. DeletionStays /\ OutboundStays
    BY <1>4, <1>5, <2>1 DEF DeletionStays, OutboundStays
  <2> QED BY <2>2, <2>3
<1> QED BY <1>7, <1>8, <1>9, <1>10, <1>11 DEF RulesNext

(* The invariant implies the orders the package promises.                   *)
LEMMA OrdersHold == RulesInv => OrdersStayContiguous
<1>1. ASSUME RulesInv
      PROVE  Contiguous(rules) /\ Contiguous(formats) /\ Contiguous(quick)
  BY <1>1, RulesFacts, OrderedIsContiguous DEF RulesInv
<1> QED BY <1>1 DEF OrdersStayContiguous, RulesInv, Distinct

-----------------------------------------------------------------------------
(* OutlookDrafts.                                                           *)
DraftFits(r) ==
  /\ Cardinality(r.files) <= MaxFiles
  /\ Cardinality(r.to) <= MaxRecipients /\ Cardinality(r.cc) <= MaxRecipients
  /\ Cardinality(r.bcc) <= MaxRecipients

(* The type invariant with what a draft may hold as one predicate.          *)
LEMMA DraftsTyping ==
  DraftsTypeOK <=>
    /\ drafts \in [Draft -> SyntheticDraft \cup {None}]
    /\ signatures \in [Signature -> BOOLEAN \cup {None}]
    /\ templates \in [Insert -> Text \cup {None}]
    /\ snippets \in [Insert -> Text \cup {None}]
    /\ intent \in SyntheticOutboundIntent \cup {None}
    /\ \A d \in Used(drafts) : DraftFits(drafts[d])
<1>1. ASSUME drafts \in [Draft -> SyntheticDraft \cup {None}], NEW d \in Used(drafts)
      PROVE  DraftFits(drafts[d]) <=>
               /\ Cardinality(drafts[d].files) <= MaxFiles
               /\ \A field \in {"to", "cc", "bcc"} : Cardinality(drafts[d][field]) <= MaxRecipients
  <2>1. drafts[d] \in SyntheticDraft
    BY <1>1 DEF Used
  <2>2. drafts[d]["to"] = drafts[d].to /\ drafts[d]["cc"] = drafts[d].cc /\ drafts[d]["bcc"] = drafts[d].bcc
    BY <2>1 DEF SyntheticDraft
  <2> QED BY <2>2 DEF DraftFits
<1> QED BY <1>1 DEF DraftsTypeOK

DraftsInv == DraftsTypeOK /\ SendersAreAuthorized

LEMMA DraftsNat ==
  /\ MaxFiles \in Nat \ {0} /\ MaxRecipients \in Nat \ {0} /\ None \notin SyntheticDraft
  /\ None \notin SyntheticOutboundIntent /\ None \notin Identity /\ Primary \in Authorized
  /\ Authorized \subseteq Identity /\ IsFiniteSet(File) /\ IsFiniteSet(Person)
BY DraftsAssumption

LEMMA NewDraftFits ==
  ASSUME NEW text \in Text
  PROVE  /\ NewDraft(text) \in SyntheticDraft /\ DraftFits(NewDraft(text))
         /\ NewDraft(text).from \in Authorized
<1>1. NewDraft(text) \in SyntheticDraft
  BY DraftsNat DEF NewDraft, SyntheticDraft, Importance, Sensitivity
<1>2. DraftFits(NewDraft(text))
  BY DraftsNat, FS_EmptySet DEF NewDraft, DraftFits
<1> QED BY <1>1, <1>2, DraftsNat DEF NewDraft

LEMMA DraftsStart == DraftsInit => DraftsInv
<1> SUFFICES ASSUME DraftsInit PROVE DraftsInv
  OBVIOUS
<1>1. Blank \in Text
  BY DraftsAssumption DEF Blank
<1>2. drafts \in [Draft -> {NewDraft(Blank), None}]
  BY DEF DraftsInit
<1>3. \A d \in Used(drafts) : drafts[d] = NewDraft(Blank)
  BY <1>2 DEF Used
<1>4. DraftsTypeOK
  <2>1. drafts \in [Draft -> SyntheticDraft \cup {None}]
    BY <1>1, <1>2, NewDraftFits
  <2>2. \A d \in Used(drafts) : DraftFits(drafts[d])
    BY <1>1, <1>3, NewDraftFits
  <2> QED BY <2>1, <2>2, DraftsTyping DEF DraftsInit
<1>5. \A d \in Used(drafts) : drafts[d].from \in Authorized
  BY <1>1, <1>3, NewDraftFits
<1> QED BY <1>4, <1>5 DEF DraftsInv, SendersAreAuthorized, DraftsInit

(* The entries of EditsKeepTheRest.                                         *)
Edited ==
  {f \in Used(drafts) \X (1..9) :
     /\ drafts'[f[1]] # None
     /\ Facets(drafts[f[1]])[f[2]] # Facets(drafts'[f[1]])[f[2]]}

DraftsStay == Cardinality(Edited) <= 1

LEMMA NothingEdited ==
  ASSUME Edited = {}
  PROVE  DraftsStay
BY FS_EmptySet DEF DraftsStay

(* A step that edits one facet.                                             *)
LEMMA OneEdited ==
  ASSUME NEW x, Edited \subseteq {x}
  PROVE  DraftsStay
<1>1. IsFiniteSet({x}) /\ Cardinality({x}) = 1
  BY FS_Singleton
<1>2. Cardinality(Edited) <= Cardinality({x})
  BY <1>1, FS_Subset
<1> QED BY <1>1, <1>2 DEF DraftsStay

(* Records that agree on all fields but those of a facet.                   *)
LEMMA FacetsDiffer ==
  ASSUME NEW r, NEW v, NEW i \in 1..9,
         i # 1 => v.text = r.text, i # 2 => v.from = r.from, i # 3 => v.to = r.to,
         i # 4 => v.cc = r.cc, i # 5 => v.bcc = r.bcc, i # 6 => v.files = r.files,
         i # 7 => v.importance = r.importance /\ v.sensitivity = r.sensitivity,
         i # 8 => v.signature = r.signature, i # 9 => v.receipt = r.receipt,
         NEW j \in (1..9) \ {i}
  PROVE  Facets(r)[j] = Facets(v)[j]
<1>1. \/ j = 1 \/ j = 2 \/ j = 3 \/ j = 4 \/ j = 5 \/ j = 6 \/ j = 7 \/ j = 8 \/ j = 9
  OBVIOUS
<1> QED BY <1>1 DEF Facets

(* A draft written with one facet of it changed, or from nothing.           *)
LEMMA DraftWritten ==
  ASSUME DraftsInv, NEW d \in Draft, NEW v \in SyntheticDraft \cup {None}, PutDraft(d, v),
         v # None => DraftFits(v) /\ v.from \in Authorized,
         NEW i \in 1..9,
         drafts[d] # None /\ v # None =>
           \A j \in (1..9) \ {i} : Facets(drafts[d])[j] = Facets(v)[j]
  PROVE  DraftsInv' /\ DraftsStay
<1>1. /\ drafts' = [drafts EXCEPT ![d] = v] /\ intent' = None
      /\ UNCHANGED <<signatures, templates, snippets>>
      /\ drafts \in [Draft -> SyntheticDraft \cup {None}]
  BY DraftsTyping DEF PutDraft, catalogVars, DraftsInv
<1>2. /\ drafts' \in [Draft -> SyntheticDraft \cup {None}] /\ drafts'[d] = v
      /\ \A e \in Draft \ {d} : drafts'[e] = drafts[e]
  BY <1>1
<1>3. \A e \in Used(drafts') : DraftFits(drafts'[e]) /\ drafts'[e].from \in Authorized
  <2> SUFFICES ASSUME NEW e \in Used(drafts')
               PROVE  DraftFits(drafts'[e]) /\ drafts'[e].from \in Authorized
    OBVIOUS
  <2>1. e \in Draft /\ drafts'[e] # None
    BY <1>2 DEF Used
  <2>2. CASE e = d
    BY <1>2, <2>1, <2>2
  <2>3. CASE e # d
    <3>1. e \in Used(drafts) /\ drafts'[e] = drafts[e]
      BY <1>1, <1>2, <2>1, <2>3 DEF Used
    <3> QED BY <3>1, DraftsTyping DEF DraftsInv, SendersAreAuthorized
  <2> QED BY <2>2, <2>3
<1>4. DraftsTypeOK'
  BY <1>1, <1>2, <1>3, DraftsTyping DEF DraftsInv, DraftsTypeOK, DraftFits
<1>5. SendersAreAuthorized'
  BY <1>1, <1>3 DEF SendersAreAuthorized
<1>6. Edited \subseteq {<<d, i>>}
  <2> SUFFICES ASSUME NEW f \in Edited PROVE f = <<d, i>>
    OBVIOUS
  <2>1. PICK e \in Used(drafts), j \in 1..9 : f = <<e, j>>
    BY DEF Edited
  <2>2. drafts'[e] # None /\ Facets(drafts[e])[j] # Facets(drafts'[e])[j] /\ e \in Draft /\ drafts[e] # None
    BY <1>1, <2>1 DEF Edited, Used
  <2>3. e = d
    BY <1>2, <2>2
  <2>4. j = i
    BY <1>2, <2>2, <2>3
  <2> QED BY <2>1, <2>3, <2>4
<1> QED BY <1>4, <1>5, <1>6, OneEdited DEF DraftsInv

(* A call that touches no draft.                                            *)
LEMMA DraftsAlone ==
  ASSUME DraftsInv, drafts' = drafts,
         signatures' \in [Signature -> BOOLEAN \cup {None}],
         templates' \in [Insert -> Text \cup {None}],
         snippets' \in [Insert -> Text \cup {None}],
         intent' \in SyntheticOutboundIntent \cup {None},
         intent' # None => intent'.as = None
  PROVE  DraftsInv' /\ DraftsStay
<1>1. DraftsTypeOK'
  BY DEF DraftsInv, DraftsTypeOK
<1>2. SendersAreAuthorized'
  BY DEF DraftsInv, SendersAreAuthorized
<1>3. Edited = {}
  BY DEF Edited
<1> QED BY <1>1, <1>2, <1>3, NothingEdited DEF DraftsInv

(* What holds of every draft there is.                                      *)
LEMMA DraftFacts ==
  ASSUME DraftsInv, NEW d \in Draft, drafts[d] # None
  PROVE  /\ drafts[d] \in SyntheticDraft /\ DraftFits(drafts[d]) /\ drafts[d].from \in Authorized
         /\ IsFiniteSet(drafts[d].files) /\ Cardinality(drafts[d].files) \in Nat
<1>1. drafts \in [Draft -> SyntheticDraft \cup {None}]
  BY DraftsTyping DEF DraftsInv
<1>2. d \in Used(drafts) /\ drafts[d] \in SyntheticDraft
  BY <1>1 DEF Used
<1>3. DraftFits(drafts[d])
  BY <1>2, DraftsTyping DEF DraftsInv
<1>4. drafts[d].files \subseteq File
  BY <1>2 DEF SyntheticDraft
<1>5. IsFiniteSet(drafts[d].files)
  BY <1>4, DraftsNat, FS_Subset
<1> QED BY <1>2, <1>3, <1>5, FS_CardinalityType DEF DraftsInv, SendersAreAuthorized

LEMMA DraftCallKeeps == DraftsInv /\ DraftCall => DraftsInv' /\ DraftsStay
<1> SUFFICES ASSUME DraftsInv, NEW d \in Draft,
                    DiscardDraft(d) \/ \E text \in Text : CreateDraft(d, text) \/ UpdateDraft(d, text)
             PROVE  DraftsInv' /\ DraftsStay
  BY DEF DraftCall
<1>1. CASE DiscardDraft(d)
  BY <1>1, DraftWritten DEF DiscardDraft
<1>2. ASSUME NEW text \in Text, CreateDraft(d, text)
      PROVE  DraftsInv' /\ DraftsStay
  BY <1>2, DraftWritten, NewDraftFits DEF CreateDraft
<1>3. ASSUME NEW text \in Text, UpdateDraft(d, text)
      PROVE  DraftsInv' /\ DraftsStay
  <2> DEFINE v == [drafts[d] EXCEPT !.text = text]
  <2>1. drafts[d] # None /\ PutDraft(d, v)
    BY <1>3 DEF UpdateDraft
  <2>2. drafts[d] \in SyntheticDraft /\ DraftFits(drafts[d]) /\ drafts[d].from \in Authorized
    BY <2>1, DraftFacts
  <2>3. /\ v \in SyntheticDraft /\ v.from = drafts[d].from /\ v.to = drafts[d].to /\ v.cc = drafts[d].cc
        /\ v.bcc = drafts[d].bcc /\ v.files = drafts[d].files /\ v.importance = drafts[d].importance
        /\ v.sensitivity = drafts[d].sensitivity /\ v.signature = drafts[d].signature
        /\ v.receipt = drafts[d].receipt
    BY <2>2 DEF SyntheticDraft
  <2> HIDE DEF v
  <2>4. \A j \in (1..9) \ {1} : Facets(drafts[d])[j] = Facets(v)[j]
    BY <2>3, FacetsDiffer
  <2>5. DraftFits(v) /\ v.from \in Authorized
    BY <2>2, <2>3 DEF DraftFits
  <2> QED BY <2>1, <2>3, <2>4, <2>5, DraftWritten
<1> QED BY <1>1, <1>2, <1>3

(* Writing one facet of a draft.                                            *)
LEMMA FacetWritten ==
  ASSUME DraftsInv, NEW d \in Draft, drafts[d] # None, NEW v \in SyntheticDraft, PutDraft(d, v),
         DraftFits(v), v.from \in Authorized, NEW i \in 1..9,
         i # 1 => v.text = drafts[d].text, i # 2 => v.from = drafts[d].from,
         i # 3 => v.to = drafts[d].to, i # 4 => v.cc = drafts[d].cc, i # 5 => v.bcc = drafts[d].bcc,
         i # 6 => v.files = drafts[d].files,
         i # 7 => v.importance = drafts[d].importance /\ v.sensitivity = drafts[d].sensitivity,
         i # 8 => v.signature = drafts[d].signature, i # 9 => v.receipt = drafts[d].receipt
  PROVE  DraftsInv' /\ DraftsStay
<1>1. \A j \in (1..9) \ {i} : Facets(drafts[d])[j] = Facets(v)[j]
  BY FacetsDiffer
<1> QED BY <1>1, DraftWritten

LEMMA SelectFromKeeps ==
  ASSUME DraftsInv, NEW d \in Draft, NEW identity \in Identity,
         SelectFrom(d, identity)
  PROVE  DraftsInv' /\ DraftsStay
<1> DEFINE v == [drafts[d] EXCEPT !.from = identity]
<1>1. drafts[d] # None /\ PutDraft(d, v) /\ identity \in Authorized
  BY DEF SelectFrom
<1>2. /\ drafts[d] \in SyntheticDraft /\ DraftFits(drafts[d]) /\ drafts[d].from \in Authorized
      /\ IsFiniteSet(drafts[d].files) /\ Cardinality(drafts[d].files) \in Nat
  BY <1>1, DraftFacts
<1>3. /\ v \in SyntheticDraft /\ v.from = identity
      /\ v.text = drafts[d].text /\ v.to = drafts[d].to /\ v.cc = drafts[d].cc
      /\ v.bcc = drafts[d].bcc /\ v.files = drafts[d].files
      /\ v.importance = drafts[d].importance /\ v.sensitivity = drafts[d].sensitivity
      /\ v.signature = drafts[d].signature /\ v.receipt = drafts[d].receipt
  BY <1>1, <1>2, DraftsNat DEF SyntheticDraft, Importance, Sensitivity
<1> HIDE DEF v
<1>4. DraftFits(v) /\ v.from \in Authorized
  BY <1>1, <1>2, <1>3 DEF DraftFits
<1> QED BY <1>1, <1>3, <1>4, FacetWritten

LEMMA AssignToKeeps ==
  ASSUME DraftsInv, NEW d \in Draft, NEW people \in SUBSET Person,
         AssignRecipients(d, "to", people)
  PROVE  DraftsInv' /\ DraftsStay
<1> DEFINE v == [drafts[d] EXCEPT !["to"] = people]
<1>1. drafts[d] # None /\ PutDraft(d, v) /\ Cardinality(people) <= MaxRecipients
  BY DEF AssignRecipients
<1>2. /\ drafts[d] \in SyntheticDraft /\ DraftFits(drafts[d]) /\ drafts[d].from \in Authorized
      /\ IsFiniteSet(drafts[d].files) /\ Cardinality(drafts[d].files) \in Nat
  BY <1>1, DraftFacts
<1>3. /\ v \in SyntheticDraft /\ v.to = people
      /\ v.text = drafts[d].text /\ v.from = drafts[d].from /\ v.cc = drafts[d].cc
      /\ v.bcc = drafts[d].bcc /\ v.files = drafts[d].files
      /\ v.importance = drafts[d].importance /\ v.sensitivity = drafts[d].sensitivity
      /\ v.signature = drafts[d].signature /\ v.receipt = drafts[d].receipt
  BY <1>1, <1>2, DraftsNat DEF SyntheticDraft, Importance, Sensitivity
<1> HIDE DEF v
<1>4. DraftFits(v) /\ v.from \in Authorized
  BY <1>1, <1>2, <1>3 DEF DraftFits
<1> QED BY <1>1, <1>3, <1>4, FacetWritten

LEMMA AssignCcKeeps ==
  ASSUME DraftsInv, NEW d \in Draft, NEW people \in SUBSET Person,
         AssignRecipients(d, "cc", people)
  PROVE  DraftsInv' /\ DraftsStay
<1> DEFINE v == [drafts[d] EXCEPT !["cc"] = people]
<1>1. drafts[d] # None /\ PutDraft(d, v) /\ Cardinality(people) <= MaxRecipients
  BY DEF AssignRecipients
<1>2. /\ drafts[d] \in SyntheticDraft /\ DraftFits(drafts[d]) /\ drafts[d].from \in Authorized
      /\ IsFiniteSet(drafts[d].files) /\ Cardinality(drafts[d].files) \in Nat
  BY <1>1, DraftFacts
<1>3. /\ v \in SyntheticDraft /\ v.cc = people
      /\ v.text = drafts[d].text /\ v.from = drafts[d].from /\ v.to = drafts[d].to
      /\ v.bcc = drafts[d].bcc /\ v.files = drafts[d].files
      /\ v.importance = drafts[d].importance /\ v.sensitivity = drafts[d].sensitivity
      /\ v.signature = drafts[d].signature /\ v.receipt = drafts[d].receipt
  BY <1>1, <1>2, DraftsNat DEF SyntheticDraft, Importance, Sensitivity
<1> HIDE DEF v
<1>4. DraftFits(v) /\ v.from \in Authorized
  BY <1>1, <1>2, <1>3 DEF DraftFits
<1> QED BY <1>1, <1>3, <1>4, FacetWritten

LEMMA AssignBccKeeps ==
  ASSUME DraftsInv, NEW d \in Draft, NEW people \in SUBSET Person,
         AssignRecipients(d, "bcc", people)
  PROVE  DraftsInv' /\ DraftsStay
<1> DEFINE v == [drafts[d] EXCEPT !["bcc"] = people]
<1>1. drafts[d] # None /\ PutDraft(d, v) /\ Cardinality(people) <= MaxRecipients
  BY DEF AssignRecipients
<1>2. /\ drafts[d] \in SyntheticDraft /\ DraftFits(drafts[d]) /\ drafts[d].from \in Authorized
      /\ IsFiniteSet(drafts[d].files) /\ Cardinality(drafts[d].files) \in Nat
  BY <1>1, DraftFacts
<1>3. /\ v \in SyntheticDraft /\ v.bcc = people
      /\ v.text = drafts[d].text /\ v.from = drafts[d].from /\ v.to = drafts[d].to
      /\ v.cc = drafts[d].cc /\ v.files = drafts[d].files
      /\ v.importance = drafts[d].importance /\ v.sensitivity = drafts[d].sensitivity
      /\ v.signature = drafts[d].signature /\ v.receipt = drafts[d].receipt
  BY <1>1, <1>2, DraftsNat DEF SyntheticDraft, Importance, Sensitivity
<1> HIDE DEF v
<1>4. DraftFits(v) /\ v.from \in Authorized
  BY <1>1, <1>2, <1>3 DEF DraftFits
<1> QED BY <1>1, <1>3, <1>4, FacetWritten

LEMMA AddFileKeeps ==
  ASSUME DraftsInv, NEW d \in Draft, NEW file \in File,
         AddFile(d, file)
  PROVE  DraftsInv' /\ DraftsStay
<1> DEFINE v == [drafts[d] EXCEPT !.files = @ \cup {file}]
<1>1. /\ drafts[d] # None /\ PutDraft(d, v)
      /\ (file \notin drafts[d].files => Cardinality(drafts[d].files) < MaxFiles)
  BY DEF AddFile
<1>2. /\ drafts[d] \in SyntheticDraft /\ DraftFits(drafts[d]) /\ drafts[d].from \in Authorized
      /\ IsFiniteSet(drafts[d].files) /\ Cardinality(drafts[d].files) \in Nat
  BY <1>1, DraftFacts
<1>3. /\ v \in SyntheticDraft /\ v.files = drafts[d].files \cup {file}
      /\ v.text = drafts[d].text /\ v.from = drafts[d].from /\ v.to = drafts[d].to
      /\ v.cc = drafts[d].cc /\ v.bcc = drafts[d].bcc
      /\ v.importance = drafts[d].importance /\ v.sensitivity = drafts[d].sensitivity
      /\ v.signature = drafts[d].signature /\ v.receipt = drafts[d].receipt
  BY <1>1, <1>2, DraftsNat DEF SyntheticDraft, Importance, Sensitivity
<1> HIDE DEF v
<1>4. DraftFits(v) /\ v.from \in Authorized
  <2>1. Cardinality(drafts[d].files \cup {file}) <= MaxFiles
    <3>1. CASE file \in drafts[d].files
      <4>1. drafts[d].files \cup {file} = drafts[d].files
        BY <3>1
      <4> QED BY <1>2, <4>1 DEF DraftFits
    <3>2. CASE file \notin drafts[d].files
      <4>1. Cardinality(drafts[d].files \cup {file}) = Cardinality(drafts[d].files) + 1
        BY <1>2, <3>2, FS_AddElement
      <4> QED BY <1>1, <1>2, <3>2, <4>1, DraftsNat
    <3> QED BY <3>1, <3>2
  <2> QED BY <1>2, <1>3, <2>1 DEF DraftFits
<1> QED BY <1>1, <1>3, <1>4, FacetWritten

LEMMA RemoveFileKeeps ==
  ASSUME DraftsInv, NEW d \in Draft, NEW file \in File,
         RemoveFile(d, file)
  PROVE  DraftsInv' /\ DraftsStay
<1> DEFINE v == [drafts[d] EXCEPT !.files = @ \ {file}]
<1>1. drafts[d] # None /\ PutDraft(d, v)
  BY DEF RemoveFile
<1>2. /\ drafts[d] \in SyntheticDraft /\ DraftFits(drafts[d]) /\ drafts[d].from \in Authorized
      /\ IsFiniteSet(drafts[d].files) /\ Cardinality(drafts[d].files) \in Nat
  BY <1>1, DraftFacts
<1>3. /\ v \in SyntheticDraft /\ v.files = drafts[d].files \ {file}
      /\ v.text = drafts[d].text /\ v.from = drafts[d].from /\ v.to = drafts[d].to
      /\ v.cc = drafts[d].cc /\ v.bcc = drafts[d].bcc
      /\ v.importance = drafts[d].importance /\ v.sensitivity = drafts[d].sensitivity
      /\ v.signature = drafts[d].signature /\ v.receipt = drafts[d].receipt
  BY <1>1, <1>2, DraftsNat DEF SyntheticDraft, Importance, Sensitivity
<1> HIDE DEF v
<1>4. DraftFits(v) /\ v.from \in Authorized
  <2>1. /\ Cardinality(drafts[d].files \ {file}) <= Cardinality(drafts[d].files)
        /\ Cardinality(drafts[d].files \ {file}) \in Nat
    BY <1>2, FS_Subset, FS_CardinalityType
  <2> QED BY <1>2, <1>3, <2>1, DraftsNat DEF DraftFits
<1> QED BY <1>1, <1>3, <1>4, FacetWritten

LEMMA SetOptionsKeeps ==
  ASSUME DraftsInv, NEW d \in Draft, NEW importance \in Importance \cup {None},
         NEW sensitivity \in Sensitivity \cup {None},
         SetOptions(d, importance, sensitivity)
  PROVE  DraftsInv' /\ DraftsStay
<1> DEFINE v == [drafts[d] EXCEPT !.importance = IF importance = None THEN @ ELSE importance,
                               !.sensitivity = IF sensitivity = None THEN @ ELSE sensitivity]
<1>1. drafts[d] # None /\ PutDraft(d, v)
  BY DEF SetOptions
<1>2. /\ drafts[d] \in SyntheticDraft /\ DraftFits(drafts[d]) /\ drafts[d].from \in Authorized
      /\ IsFiniteSet(drafts[d].files) /\ Cardinality(drafts[d].files) \in Nat
  BY <1>1, DraftFacts
<1>3. /\ v \in SyntheticDraft
      /\ v.text = drafts[d].text /\ v.from = drafts[d].from /\ v.to = drafts[d].to
      /\ v.cc = drafts[d].cc /\ v.bcc = drafts[d].bcc /\ v.files = drafts[d].files
      /\ v.signature = drafts[d].signature /\ v.receipt = drafts[d].receipt
  BY <1>1, <1>2, DraftsNat DEF SyntheticDraft, Importance, Sensitivity
<1> HIDE DEF v
<1>4. DraftFits(v) /\ v.from \in Authorized
  BY <1>1, <1>2, <1>3 DEF DraftFits
<1> QED BY <1>1, <1>3, <1>4, FacetWritten

LEMMA SetReceiptKeeps ==
  ASSUME DraftsInv, NEW d \in Draft, NEW wanted \in BOOLEAN,
         SetReceipt(d, wanted)
  PROVE  DraftsInv' /\ DraftsStay
<1> DEFINE v == [drafts[d] EXCEPT !.receipt = wanted]
<1>1. drafts[d] # None /\ PutDraft(d, v)
  BY DEF SetReceipt
<1>2. /\ drafts[d] \in SyntheticDraft /\ DraftFits(drafts[d]) /\ drafts[d].from \in Authorized
      /\ IsFiniteSet(drafts[d].files) /\ Cardinality(drafts[d].files) \in Nat
  BY <1>1, DraftFacts
<1>3. /\ v \in SyntheticDraft
      /\ v.text = drafts[d].text /\ v.from = drafts[d].from /\ v.to = drafts[d].to
      /\ v.cc = drafts[d].cc /\ v.bcc = drafts[d].bcc /\ v.files = drafts[d].files
      /\ v.importance = drafts[d].importance /\ v.sensitivity = drafts[d].sensitivity
      /\ v.signature = drafts[d].signature
  BY <1>1, <1>2, DraftsNat DEF SyntheticDraft, Importance, Sensitivity
<1> HIDE DEF v
<1>4. DraftFits(v) /\ v.from \in Authorized
  BY <1>1, <1>2, <1>3 DEF DraftFits
<1> QED BY <1>1, <1>3, <1>4, FacetWritten

LEMMA ApplySignatureKeeps ==
  ASSUME DraftsInv, NEW d \in Draft, NEW s \in Signature,
         ApplySignature(d, s)
  PROVE  DraftsInv' /\ DraftsStay
<1> DEFINE v == [drafts[d] EXCEPT !.signature = s]
<1>1. drafts[d] # None /\ PutDraft(d, v)
  BY DEF ApplySignature
<1>2. /\ drafts[d] \in SyntheticDraft /\ DraftFits(drafts[d]) /\ drafts[d].from \in Authorized
      /\ IsFiniteSet(drafts[d].files) /\ Cardinality(drafts[d].files) \in Nat
  BY <1>1, DraftFacts
<1>3. /\ v \in SyntheticDraft
      /\ v.text = drafts[d].text /\ v.from = drafts[d].from /\ v.to = drafts[d].to
      /\ v.cc = drafts[d].cc /\ v.bcc = drafts[d].bcc /\ v.files = drafts[d].files
      /\ v.importance = drafts[d].importance /\ v.sensitivity = drafts[d].sensitivity
      /\ v.receipt = drafts[d].receipt
  BY <1>1, <1>2, DraftsNat DEF SyntheticDraft, Importance, Sensitivity
<1> HIDE DEF v
<1>4. DraftFits(v) /\ v.from \in Authorized
  BY <1>1, <1>2, <1>3 DEF DraftFits
<1> QED BY <1>1, <1>3, <1>4, FacetWritten

LEMMA ClearSignatureKeeps ==
  ASSUME DraftsInv, NEW d \in Draft, drafts[d] # None,
         ClearSignature(d)
  PROVE  DraftsInv' /\ DraftsStay
<1> DEFINE v == [drafts[d] EXCEPT !.signature = None]
<1>1. drafts[d] # None /\ PutDraft(d, v)
  BY DEF ClearSignature
<1>2. /\ drafts[d] \in SyntheticDraft /\ DraftFits(drafts[d]) /\ drafts[d].from \in Authorized
      /\ IsFiniteSet(drafts[d].files) /\ Cardinality(drafts[d].files) \in Nat
  BY <1>1, DraftFacts
<1>3. /\ v \in SyntheticDraft
      /\ v.text = drafts[d].text /\ v.from = drafts[d].from /\ v.to = drafts[d].to
      /\ v.cc = drafts[d].cc /\ v.bcc = drafts[d].bcc /\ v.files = drafts[d].files
      /\ v.importance = drafts[d].importance /\ v.sensitivity = drafts[d].sensitivity
      /\ v.receipt = drafts[d].receipt
  BY <1>1, <1>2, DraftsNat DEF SyntheticDraft, Importance, Sensitivity
<1> HIDE DEF v
<1>4. DraftFits(v) /\ v.from \in Authorized
  BY <1>1, <1>2, <1>3 DEF DraftFits
<1> QED BY <1>1, <1>3, <1>4, FacetWritten

LEMMA InsertTextKeeps ==
  ASSUME DraftsInv, NEW d \in Draft, NEW i, NEW offered, NEW mode, NEW text \in Text,
         InsertText(d, i, offered, mode, text)
  PROVE  DraftsInv' /\ DraftsStay
<1> DEFINE v == [drafts[d] EXCEPT !.text = text]
<1>1. drafts[d] # None /\ PutDraft(d, v)
  BY DEF InsertText
<1>2. /\ drafts[d] \in SyntheticDraft /\ DraftFits(drafts[d]) /\ drafts[d].from \in Authorized
      /\ IsFiniteSet(drafts[d].files) /\ Cardinality(drafts[d].files) \in Nat
  BY <1>1, DraftFacts
<1>3. /\ v \in SyntheticDraft
      /\ v.from = drafts[d].from /\ v.to = drafts[d].to /\ v.cc = drafts[d].cc
      /\ v.bcc = drafts[d].bcc /\ v.files = drafts[d].files
      /\ v.importance = drafts[d].importance /\ v.sensitivity = drafts[d].sensitivity
      /\ v.signature = drafts[d].signature /\ v.receipt = drafts[d].receipt
  BY <1>1, <1>2, DraftsNat DEF SyntheticDraft, Importance, Sensitivity
<1> HIDE DEF v
<1>4. DraftFits(v) /\ v.from \in Authorized
  BY <1>1, <1>2, <1>3 DEF DraftFits
<1> QED BY <1>1, <1>3, <1>4, FacetWritten

LEMMA EnvelopeCallKeeps == DraftsInv /\ EnvelopeCall => DraftsInv' /\ DraftsStay
<1> SUFFICES ASSUME DraftsInv, EnvelopeCall PROVE DraftsInv' /\ DraftsStay
  OBVIOUS
<1>1. PICK d \in Draft :
        \/ \E field \in {"to", "cc", "bcc"}, people \in SUBSET Person : AssignRecipients(d, field, people)
        \/ \E identity \in Identity : SelectFrom(d, identity)
  BY DEF EnvelopeCall
<1>2. ASSUME NEW field \in {"to", "cc", "bcc"}, NEW people \in SUBSET Person, AssignRecipients(d, field, people)
      PROVE  DraftsInv' /\ DraftsStay
  BY <1>2, AssignToKeeps, AssignCcKeeps, AssignBccKeeps
<1> QED BY <1>1, <1>2, SelectFromKeeps

LEMMA BodyCallKeeps == DraftsInv /\ BodyCall => DraftsInv' /\ DraftsStay
<1> SUFFICES ASSUME DraftsInv, NEW d \in Draft,
                    \/ \E file \in File : AddFile(d, file) \/ RemoveFile(d, file)
                    \/ \E s \in Signature : ApplySignature(d, s)
                    \/ ClearSignature(d)
                    \/ \E i \in Insert, mode \in {"REPLACE_BODY", "APPEND"}, text \in Text :
                         \E offered \in SUBSET {"templates", "snippets"} : InsertText(d, i, offered, mode, text)
             PROVE  DraftsInv' /\ DraftsStay
  BY DEF BodyCall
<1>1. CASE ClearSignature(d)
  BY <1>1, ClearSignatureKeeps DEF ClearSignature
<1>2. CASE \E file \in File : AddFile(d, file) \/ RemoveFile(d, file)
  BY <1>2, AddFileKeeps, RemoveFileKeeps
<1>3. CASE \E s \in Signature : ApplySignature(d, s)
  BY <1>3, ApplySignatureKeeps
<1>4. ASSUME NEW i, NEW mode, NEW text \in Text, NEW offered, InsertText(d, i, offered, mode, text)
      PROVE  DraftsInv' /\ DraftsStay
  BY <1>4, InsertTextKeeps
<1> QED BY <1>1, <1>2, <1>3, <1>4

LEMMA OptionCallKeeps == DraftsInv /\ OptionCall => DraftsInv' /\ DraftsStay
BY SetOptionsKeeps, SetReceiptKeeps DEF OptionCall

LEMMA CatalogCallKeeps == DraftsInv /\ CatalogCall => DraftsInv' /\ DraftsStay
<1> SUFFICES ASSUME DraftsInv, CatalogCall PROVE DraftsInv' /\ DraftsStay
  OBVIOUS
<1>1. /\ signatures \in [Signature -> BOOLEAN \cup {None}]
      /\ templates \in [Insert -> Text \cup {None}]
      /\ snippets \in [Insert -> Text \cup {None}]
  BY DEF DraftsInv, DraftsTypeOK
<1>2. ASSUME NEW s \in Signature, NEW v \in BOOLEAN \cup {None}, PutSignature(s, v)
      PROVE  DraftsInv' /\ DraftsStay
  BY <1>1, <1>2, DraftsAlone DEF PutSignature
<1>3. ASSUME NEW i \in Insert, NEW v \in Text \cup {None}, PutTemplate(i, v)
      PROVE  DraftsInv' /\ DraftsStay
  BY <1>1, <1>3, DraftsAlone DEF PutTemplate
<1>4. ASSUME NEW i \in Insert, NEW v \in Text \cup {None}, PutSnippet(i, v)
      PROVE  DraftsInv' /\ DraftsStay
  BY <1>1, <1>4, DraftsAlone DEF PutSnippet
<1>5. CASE \E s \in Signature :
             DeleteSignature(s) \/ \E enabled \in BOOLEAN : CreateSignature(s, enabled)
                                                            \/ UpdateSignature(s, enabled)
  BY <1>2, <1>5 DEF DeleteSignature, CreateSignature, UpdateSignature
<1>6. CASE \E i \in Insert :
             \/ DeleteTemplate(i) \/ DeleteSnippet(i)
             \/ \E text \in Text : \/ CreateTemplate(i, text) \/ UpdateTemplate(i, text)
                                  \/ CreateSnippet(i, text) \/ UpdateSnippet(i, text)
  BY <1>3, <1>4, <1>6 DEF DeleteTemplate, DeleteSnippet, CreateTemplate, UpdateTemplate,
     CreateSnippet, UpdateSnippet
<1> QED BY <1>5, <1>6 DEF CatalogCall

LEMMA IntentTyped ==
  ASSUME NEW kind \in IntentKind, NEW d \in Draft \cup {None}, NEW m \in Message \cup {None},
         NEW slot \in Slot \cup {None}, NEW as \in Identity \cup {None}
  PROVE  /\ Intent(kind, d, m, slot, as) \in SyntheticOutboundIntent
         /\ Intent(kind, d, m, slot, as).as = as /\ Intent(kind, d, m, slot, as).draft = d
BY DEF Intent, SyntheticOutboundIntent

LEMMA PrepareKeeps ==
  ASSUME DraftsInv, NEW kind \in IntentKind, NEW d \in Draft \cup {None}, NEW m \in Message \cup {None},
         NEW slot \in Slot \cup {None}, Prepare(Intent(kind, d, m, slot, None))
  PROVE  DraftsInv' /\ DraftsStay
<1>1. /\ intent' = Intent(kind, d, m, slot, None)
      /\ UNCHANGED <<drafts, signatures, templates, snippets>>
  BY DEF Prepare, catalogVars
<1>2. intent' \in SyntheticOutboundIntent /\ intent'.as = None
  <2>1. None \in Identity \cup {None}
    OBVIOUS
  <2>2. /\ Intent(kind, d, m, slot, None) \in SyntheticOutboundIntent
        /\ Intent(kind, d, m, slot, None).as = None
    BY <2>1, IntentTyped
  <2> QED BY <1>1, <2>2
<1>3. /\ signatures \in [Signature -> BOOLEAN \cup {None}]
      /\ templates \in [Insert -> Text \cup {None}]
      /\ snippets \in [Insert -> Text \cup {None}]
  BY DEF DraftsInv, DraftsTypeOK
<1> QED BY <1>1, <1>2, <1>3, DraftsAlone

LEMMA SendFromKeeps ==
  ASSUME DraftsInv, NEW d \in Draft, NEW identity \in Identity, NEW mode, PrepareSendFrom(d, identity, mode)
  PROVE  DraftsInv' /\ DraftsStay
<1> DEFINE v == [drafts[d] EXCEPT !.from = identity]
<1>1. /\ drafts[d] # None /\ identity \in Authorized /\ drafts' = [drafts EXCEPT ![d] = v]
      /\ intent' = Intent("SEND_DRAFT", d, None, None, identity)
      /\ UNCHANGED <<signatures, templates, snippets>>
  BY DEF PrepareSendFrom, catalogVars
<1>2. drafts[d] \in SyntheticDraft /\ DraftFits(drafts[d]) /\ drafts \in [Draft -> SyntheticDraft \cup {None}]
  BY <1>1, DraftFacts DEF DraftsInv, DraftsTypeOK
<1>3. /\ v \in SyntheticDraft /\ v.from = identity /\ v.text = drafts[d].text /\ v.to = drafts[d].to
      /\ v.cc = drafts[d].cc /\ v.bcc = drafts[d].bcc /\ v.files = drafts[d].files
      /\ v.importance = drafts[d].importance /\ v.sensitivity = drafts[d].sensitivity
      /\ v.signature = drafts[d].signature /\ v.receipt = drafts[d].receipt
  BY <1>2 DEF SyntheticDraft
<1> HIDE DEF v
<1>4. DraftFits(v)
  BY <1>2, <1>3 DEF DraftFits
<1>5. /\ drafts' \in [Draft -> SyntheticDraft \cup {None}] /\ drafts'[d] = v
      /\ \A e \in Draft \ {d} : drafts'[e] = drafts[e]
  BY <1>1, <1>2, <1>3
<1>6. \A e \in Used(drafts') : DraftFits(drafts'[e]) /\ drafts'[e].from \in Authorized
  <2> SUFFICES ASSUME NEW e \in Used(drafts')
               PROVE  DraftFits(drafts'[e]) /\ drafts'[e].from \in Authorized
    OBVIOUS
  <2>1. e \in Draft /\ drafts'[e] # None
    BY <1>5 DEF Used
  <2>2. CASE e = d
    BY <1>1, <1>3, <1>4, <1>5, <2>2
  <2>3. CASE e # d
    <3>1. e \in Used(drafts) /\ drafts'[e] = drafts[e]
      BY <1>2, <1>5, <2>1, <2>3 DEF Used
    <3> QED BY <3>1, DraftsTyping DEF DraftsInv, SendersAreAuthorized
  <2> QED BY <2>2, <2>3
<1>7. "SEND_DRAFT" \in IntentKind
  BY DEF IntentKind
<1>8. intent' \in SyntheticOutboundIntent /\ intent'.as = identity /\ intent'.draft = d
  BY <1>1, <1>7, IntentTyped
<1>9. DraftsTypeOK'
  BY <1>1, <1>5, <1>6, <1>8, DraftsTyping DEF DraftsInv, DraftsTypeOK, DraftFits
<1>10. SendersAreAuthorized'
  BY <1>3, <1>5, <1>6, <1>8 DEF SendersAreAuthorized
<1>11. Edited \subseteq {<<d, 2>>}
  <2> SUFFICES ASSUME NEW f \in Edited PROVE f = <<d, 2>>
    OBVIOUS
  <2>1. PICK e \in Used(drafts), j \in 1..9 : f = <<e, j>>
    BY DEF Edited
  <2>2. drafts'[e] # None /\ Facets(drafts[e])[j] # Facets(drafts'[e])[j] /\ e \in Draft /\ drafts[e] # None
    BY <1>2, <2>1 DEF Edited, Used
  <2>3. e = d
    BY <1>5, <2>2
  <2>4. \A i \in (1..9) \ {2} : Facets(drafts[d])[i] = Facets(v)[i]
    BY <1>3, FacetsDiffer
  <2>5. j = 2
    BY <1>5, <2>2, <2>3, <2>4
  <2> QED BY <2>1, <2>3, <2>5
<1> QED BY <1>9, <1>10, <1>11, OneEdited DEF DraftsInv

LEMMA IntentCallKeeps == DraftsInv /\ IntentCall => DraftsInv' /\ DraftsStay
<1> SUFFICES ASSUME DraftsInv, IntentCall PROVE DraftsInv' /\ DraftsStay
  OBVIOUS
<1>1. /\ {"SEND_DRAFT", "SCHEDULE_SEND", "REPLY", "REPLY_ALL", "FORWARD", "RESEND", "RECALL"} \subseteq IntentKind
      /\ \A d \in Draft : d \in Draft \cup {None}
      /\ \A m \in Message : m \in Message \cup {None}
      /\ \A s \in Slot : s \in Slot \cup {None}
      /\ None \in Draft \cup {None} /\ None \in Message \cup {None} /\ None \in Slot \cup {None}
  BY DEF IntentKind
<1>2. ASSUME NEW d \in Draft, PrepareSendDraft(d)
      PROVE  DraftsInv' /\ DraftsStay
  BY <1>1, <1>2, PrepareKeeps DEF PrepareSendDraft
<1>3. ASSUME NEW d \in Draft, NEW slot \in Slot, PrepareScheduleSend(d, slot)
      PROVE  DraftsInv' /\ DraftsStay
  BY <1>1, <1>3, PrepareKeeps DEF PrepareScheduleSend
<1>4. ASSUME NEW d \in Draft, NEW m \in Message, NEW kind \in {"REPLY", "REPLY_ALL"}, PrepareReply(d, kind, m)
      PROVE  DraftsInv' /\ DraftsStay
  BY <1>1, <1>4, PrepareKeeps DEF PrepareReply
<1>5. ASSUME NEW d \in Draft, NEW m \in Message, PrepareForward(d, m)
      PROVE  DraftsInv' /\ DraftsStay
  BY <1>1, <1>5, PrepareKeeps DEF PrepareForward
<1>6. ASSUME NEW d \in Draft, NEW m \in Message, NEW sent, PrepareResend(d, m, sent)
      PROVE  DraftsInv' /\ DraftsStay
  BY <1>1, <1>6, PrepareKeeps DEF PrepareResend
<1>7. ASSUME NEW m \in Message, NEW sent, PrepareRecall(m, sent)
      PROVE  DraftsInv' /\ DraftsStay
  BY <1>1, <1>7, PrepareKeeps DEF PrepareRecall
<1>8. ASSUME NEW d \in Draft, NEW identity \in Identity, NEW o,
             PrepareSendAs(d, identity, SharedContext(o)) \/ PrepareSendOnBehalf(d, identity, SharedContext(o))
      PROVE  DraftsInv' /\ DraftsStay
  BY <1>8, SendFromKeeps DEF PrepareSendAs, PrepareSendOnBehalf
<1> QED BY <1>2, <1>3, <1>4, <1>5, <1>6, <1>7, <1>8 DEF IntentCall

LEMMA DraftsKept == DraftsInv /\ [DraftsNext]_draftsVars => DraftsInv' /\ DraftsStay
<1> SUFFICES ASSUME DraftsInv, [DraftsNext]_draftsVars PROVE DraftsInv' /\ DraftsStay
  OBVIOUS
<1>1. CASE UNCHANGED draftsVars
  <2>1. UNCHANGED <<drafts, signatures, templates, snippets, intent>>
    BY <1>1 DEF draftsVars
  <2>2. DraftsInv'
    BY <2>1 DEF DraftsInv, DraftsTypeOK, SendersAreAuthorized
  <2>3. Edited = {}
    BY <2>1 DEF Edited
  <2> QED BY <2>2, <2>3, NothingEdited
<1> QED BY <1>1, EnvelopeCallKeeps, DraftCallKeeps, BodyCallKeeps, OptionCallKeeps, CatalogCallKeeps,
           IntentCallKeeps DEF DraftsNext

-----------------------------------------------------------------------------
(* OutlookCalendar.                                                         *)
LEMMA CalendarNat ==
  /\ MaxEvents \in Nat /\ MaxPage \in Nat \ {0} /\ MaxAttendees \in Nat /\ MaxGrants \in Nat
  /\ MaxPublications \in Nat /\ MaxShared \in Nat /\ MaxBlocks \in Nat /\ Horizon \in Nat
  /\ Event \subseteq Nat /\ IsFiniteSet(Event) /\ IsFiniteSet(Calendar) /\ IsFiniteSet(Block)
  /\ IsFiniteSet(Meeting) /\ IsFiniteSet(Person) /\ Delegates \subseteq Nat
  /\ EventRequest \subseteq SyntheticEvent
BY CalendarAssumption

LEMMA PairsFinite ==
  IsFiniteSet(Meeting \X Person) /\ IsFiniteSet(Calendar \X Person)
BY CalendarNat, FS_Product

EventsOK == events \in [Event -> SyntheticEvent \cup {None}] /\ Cardinality(Used(events)) <= MaxEvents
AttendeesOK ==
  attendees \in [Meeting \X Person -> AttendeeRole \cup {None}] /\ Cardinality(Used(attendees)) <= MaxAttendees
GrantsOK ==
  grants \in [Calendar \X Person -> CalendarRole \cup {None}] /\ Cardinality(Used(grants)) <= MaxGrants
PublishedOK ==
  /\ published \in [Calendar -> PublicationDetail \cup {None}]
  /\ Cardinality(Used(published)) <= MaxPublications
SharedOK == shared \subseteq Calendar \X Person /\ Cardinality(shared) <= MaxShared
BlocksOK == blocks \in [Block -> Payload \cup {None}] /\ Cardinality(Used(blocks)) <= MaxBlocks
OptionsOK == options \in [Event -> EventOptions \cup {None}]
SeriesOK == series \in [Series -> Payload \cup {None}]
MeetingsOK == meetings \in [Meeting -> Payload \cup {None}]
PreparedOK == prepared \in [PreparedKind \X Meeting -> Payload \cup {None}]

LEMMA CalendarParts ==
  CalendarTypeOK <=>
    /\ EventsOK /\ AttendeesOK /\ GrantsOK /\ PublishedOK /\ SharedOK /\ BlocksOK
    /\ OptionsOK /\ SeriesOK /\ MeetingsOK /\ PreparedOK
BY DEF CalendarTypeOK, EventsOK, AttendeesOK, GrantsOK, PublishedOK, SharedOK, BlocksOK,
   OptionsOK, SeriesOK, MeetingsOK, PreparedOK

CalendarInv == CalendarTypeOK /\ DelegatesAreBounded

LEMMA CalendarStart == CalendarInit => CalendarInv
<1> SUFFICES ASSUME CalendarInit PROVE CalendarInv
  OBVIOUS
<1>1. EventsOK
  BY CalendarAssumption DEF CalendarInit, EventsOK
<1>2. /\ Used(attendees) = {} /\ Used(grants) = {} /\ Used(published) = {} /\ Used(blocks) = {}
      /\ shared = {}
  BY DEF CalendarInit, Used
<1>3. Cardinality({}) = 0
  BY FS_EmptySet
<1>4. AttendeesOK /\ GrantsOK /\ PublishedOK /\ SharedOK /\ BlocksOK
  <2>1. /\ Cardinality(Used(attendees)) <= MaxAttendees /\ Cardinality(Used(grants)) <= MaxGrants
        /\ Cardinality(Used(published)) <= MaxPublications /\ Cardinality(Used(blocks)) <= MaxBlocks
        /\ Cardinality(shared) <= MaxShared
    BY <1>2, <1>3, CalendarNat
  <2> QED BY <1>2, <2>1 DEF CalendarInit, AttendeesOK, GrantsOK, PublishedOK, SharedOK, BlocksOK
<1>5. OptionsOK /\ SeriesOK /\ MeetingsOK /\ PreparedOK
  BY DEF CalendarInit, OptionsOK, SeriesOK, MeetingsOK, PreparedOK
<1>6. DelegatesAreBounded
  <2>1. None # "DELEGATE"
    BY CalendarAssumption DEF CalendarRole
  <2>2. \A c \in Calendar : DelegatesOf(c) = {}
    BY <2>1 DEF CalendarInit, DelegatesOf
  <2> QED BY <2>2 DEF DelegatesAreBounded
<1> QED BY <1>1, <1>4, <1>5, <1>6, CalendarParts DEF CalendarInv

OptionsStay == \A e \in Event : events[e] = None /\ events'[e] = None => options'[e] = options[e]

(* A call on the events.                                                    *)
LEMMA PutEventKeeps ==
  ASSUME CalendarInv, NEW e \in Event, NEW v \in SyntheticEvent \cup {None},
         events[e] = None /\ v # None => Cardinality(Used(events)) < MaxEvents,
         events' = [events EXCEPT ![e] = v], OptionsOK',
         UNCHANGED <<series, meetings, attendees, prepared, grants, published, shared, blocks>>
  PROVE  CalendarInv'
<1>1. EventsOK /\ AttendeesOK /\ GrantsOK /\ PublishedOK /\ SharedOK /\ BlocksOK
      /\ SeriesOK /\ MeetingsOK /\ PreparedOK
  BY CalendarParts DEF CalendarInv
<1>2. EventsOK'
  <2>1. IsFiniteSet(Event) /\ MaxEvents \in Nat
    BY CalendarNat
  <2> QED BY <1>1, <2>1, PutBounded DEF EventsOK
<1>3. AttendeesOK' /\ GrantsOK' /\ PublishedOK' /\ SharedOK' /\ BlocksOK'
      /\ SeriesOK' /\ MeetingsOK' /\ PreparedOK'
  BY <1>1 DEF AttendeesOK, GrantsOK, PublishedOK, SharedOK, BlocksOK, SeriesOK, MeetingsOK, PreparedOK
<1>4. CalendarTypeOK'
  BY <1>2, <1>3 DEF CalendarTypeOK, EventsOK, AttendeesOK, GrantsOK, PublishedOK, SharedOK, BlocksOK,
     OptionsOK, SeriesOK, MeetingsOK, PreparedOK
<1>5. DelegatesAreBounded'
  BY DEF CalendarInv, DelegatesAreBounded, DelegatesOf
<1> QED BY <1>4, <1>5 DEF CalendarInv

LEMMA EventCallKeeps ==
  ASSUME CalendarInv, AppointmentCall \/ OptionsCall
  PROVE  CalendarInv' /\ OptionsStay
<1>1. EventsOK /\ OptionsOK
  BY CalendarParts DEF CalendarInv
<1>2. ASSUME NEW e \in Event, NEW v \in SyntheticEvent \cup {None}, PutEvent(e, v),
             events[e] = None /\ v # None => Cardinality(Used(events)) < MaxEvents
      PROVE  CalendarInv' /\ OptionsStay
  <2>1. events' = [events EXCEPT ![e] = v] /\ options' = options
        /\ UNCHANGED <<series, meetings, attendees, prepared, grants, published, shared, blocks>>
    BY <1>2 DEF PutEvent, meetingVars, sharingVars
  <2>2. OptionsOK'
    BY <1>1, <2>1 DEF OptionsOK
  <2>3. CalendarInv'
    BY <1>2, <2>1, <2>2, PutEventKeeps
  <2> QED BY <2>1, <2>3 DEF OptionsStay
<1>3. ASSUME NEW e \in Event, DeleteEvent(e)
      PROVE  CalendarInv' /\ OptionsStay
  BY <1>2, <1>3 DEF DeleteEvent
<1>4. ASSUME NEW e \in Event, NEW v \in EventRequest, CreateEvent(e, v) \/ UpdateEvent(e, v)
      PROVE  CalendarInv' /\ OptionsStay
  <2>1. v \in SyntheticEvent
    BY CalendarNat
  <2> QED BY <1>2, <1>4, <2>1 DEF CreateEvent, UpdateEvent
<1>5. ASSUME NEW e \in Event, NEW desired \in EventOptions, NEW private \in BOOLEAN,
             NEW show_as \in ShowAs, SetEventOptions(e, desired, private, show_as)
      PROVE  CalendarInv' /\ OptionsStay
  <2> DEFINE v == [events[e] EXCEPT !.private = private, !.show_as = show_as]
  <2>1. /\ events[e] # None /\ events' = [events EXCEPT ![e].private = private, ![e].show_as = show_as]
        /\ options' = [options EXCEPT ![e] = desired]
        /\ UNCHANGED <<series, meetings, attendees, prepared, grants, published, shared, blocks>>
    BY <1>5 DEF SetEventOptions, meetingVars, sharingVars
  <2>2. events[e] \in SyntheticEvent /\ events \in [Event -> SyntheticEvent \cup {None}]
    BY <1>1, <2>1 DEF EventsOK
  <2>3. v \in SyntheticEvent
    BY <2>2 DEF SyntheticEvent
  <2>4. events' = [events EXCEPT ![e] = v]
    BY <2>1, <2>2
  <2> HIDE DEF v
  <2>5. OptionsOK'
    BY <1>1, <2>1 DEF OptionsOK
  <2>6. CalendarInv'
    BY <2>1, <2>3, <2>4, <2>5, PutEventKeeps
  <2>7. OptionsStay
    BY <1>1, <2>1 DEF OptionsStay, OptionsOK
  <2> QED BY <2>6, <2>7
<1> QED BY <1>3, <1>4, <1>5 DEF AppointmentCall, OptionsCall

LEMMA MeetingCallKeeps ==
  ASSUME CalendarInv, MeetingCall \/ SeriesCall
  PROVE  CalendarInv' /\ OptionsStay
<1>1. EventsOK /\ AttendeesOK /\ GrantsOK /\ PublishedOK /\ SharedOK /\ BlocksOK
      /\ OptionsOK /\ SeriesOK /\ MeetingsOK /\ PreparedOK
  BY CalendarParts DEF CalendarInv
<1>2. ASSUME SeriesOK', MeetingsOK', PreparedOK', AttendeesOK',
             UNCHANGED <<events, options, grants, published, shared, blocks>>
      PROVE  CalendarInv' /\ OptionsStay
  <2>1. EventsOK' /\ GrantsOK' /\ PublishedOK' /\ SharedOK' /\ BlocksOK' /\ OptionsOK'
    BY <1>1, <1>2 DEF EventsOK, GrantsOK, PublishedOK, SharedOK, BlocksOK, OptionsOK
  <2>2. CalendarTypeOK'
    BY <1>2, <2>1 DEF CalendarTypeOK, EventsOK, AttendeesOK, GrantsOK, PublishedOK, SharedOK, BlocksOK,
       OptionsOK, SeriesOK, MeetingsOK, PreparedOK
  <2>3. DelegatesAreBounded'
    BY <1>2 DEF CalendarInv, DelegatesAreBounded, DelegatesOf
  <2> QED BY <1>2, <2>2, <2>3 DEF CalendarInv, OptionsStay
<1>3. ASSUME NEW s \in Series, NEW v \in Payload \cup {None}, PutSeries(s, v)
      PROVE  CalendarInv' /\ OptionsStay
  <2>1. SeriesOK' /\ MeetingsOK' /\ PreparedOK' /\ AttendeesOK'
    BY <1>1, <1>3 DEF PutSeries, SeriesOK, MeetingsOK, PreparedOK, AttendeesOK, meetingVars
  <2> QED BY <1>2, <1>3, <2>1 DEF PutSeries, sharingVars
<1>4. ASSUME NEW m \in Meeting, NEW v \in Payload, NEW allow \in BOOLEAN,
             CreateMeeting(m, v, allow) \/ UpdateMeeting(m, v, allow)
      PROVE  CalendarInv' /\ OptionsStay
  <2>1. /\ meetings' = [meetings EXCEPT ![m] = v]
        /\ UNCHANGED <<events, options, series, attendees, prepared, grants, published, shared, blocks>>
    BY <1>4 DEF CreateMeeting, UpdateMeeting, eventVars, sharingVars
  <2>2. SeriesOK' /\ MeetingsOK' /\ PreparedOK' /\ AttendeesOK'
    BY <1>1, <2>1 DEF SeriesOK, MeetingsOK, PreparedOK, AttendeesOK
  <2> QED BY <1>2, <2>1, <2>2
<1>5. ASSUME NEW m \in Meeting, NEW v \in Payload, NEW kind \in PreparedKind, Prepared(kind, m, v)
      PROVE  CalendarInv' /\ OptionsStay
  <2>1. /\ prepared' = [prepared EXCEPT ![<<kind, m>>] = v]
        /\ UNCHANGED <<events, options, series, attendees, meetings, grants, published, shared, blocks>>
    BY <1>5 DEF Prepared, eventVars, sharingVars
  <2>2. SeriesOK' /\ MeetingsOK' /\ PreparedOK' /\ AttendeesOK'
    BY <1>1, <2>1 DEF SeriesOK, MeetingsOK, PreparedOK, AttendeesOK
  <2> QED BY <1>2, <2>1, <2>2
<1>6. ASSUME NEW m \in Meeting, NEW p \in Person, NEW role \in AttendeeRole \cup {None},
             NEW allow \in BOOLEAN, SetAttendee(m, p, role, allow)
      PROVE  CalendarInv' /\ OptionsStay
  <2>1. /\ attendees' = [attendees EXCEPT ![<<m, p>>] = role]
        /\ role # None /\ attendees[<<m, p>>] = None => Cardinality(Used(attendees)) < MaxAttendees
        /\ UNCHANGED <<events, options, series, meetings, prepared, grants, published, shared, blocks>>
    BY <1>6 DEF SetAttendee, eventVars, sharingVars
  <2>2. AttendeesOK'
    <3> DEFINE K == Meeting \X Person
               k == <<m, p>>
    <3>1. IsFiniteSet(K) /\ MaxAttendees \in Nat /\ k \in K
      BY CalendarNat, PairsFinite
    <3>2. /\ attendees \in [K -> AttendeeRole \cup {None}] /\ Cardinality(Used(attendees)) <= MaxAttendees
          /\ attendees[k] = None /\ role # None => Cardinality(Used(attendees)) < MaxAttendees
          /\ attendees' = [attendees EXCEPT ![k] = role]
      BY <1>1, <2>1 DEF AttendeesOK
    <3>3. attendees' \in [K -> AttendeeRole \cup {None}] /\ Cardinality(Used(attendees')) <= MaxAttendees
      <4> HIDE DEF K, k
      <4> QED BY <3>1, <3>2, PutBounded
    <3> QED BY <3>3 DEF AttendeesOK
  <2>3. SeriesOK' /\ MeetingsOK' /\ PreparedOK'
    BY <1>1, <2>1 DEF SeriesOK, MeetingsOK, PreparedOK
  <2> QED BY <1>2, <2>1, <2>2, <2>3
<1>7. {"RESPONSE", "RESPONSE_MESSAGE", "NEW_TIME", "CANCEL", "FORWARD", "TEAMS"} \subseteq PreparedKind
  BY DEF PreparedKind
<1>8. CASE SeriesCall
  BY <1>3, <1>8 DEF SeriesCall
<1>9. CASE MeetingCall
  <2>1. PICK m \in Meeting, allow \in BOOLEAN :
          \/ \E desired \in Payload :
               \/ CreateMeeting(m, desired, allow)
               \/ UpdateMeeting(m, desired, allow)
               \/ PrepareResponse(m, desired, allow)
               \/ PrepareResponseMessage(m, desired, allow)
               \/ PrepareNewTime(m, desired, allow)
               \/ \E cancellation \in BOOLEAN : PrepareCancel(m, desired, allow, cancellation)
               \/ PrepareForwarding(m, desired, allow)
               \/ SetTeamsOption(m, desired)
          \/ \E p \in Person, role \in AttendeeRole \cup {None} : SetAttendee(m, p, role, allow)
    BY <1>9 DEF MeetingCall
  <2>2. ASSUME NEW v \in Payload,
               \/ CreateMeeting(m, v, allow) \/ UpdateMeeting(m, v, allow)
               \/ PrepareResponse(m, v, allow) \/ PrepareResponseMessage(m, v, allow)
               \/ PrepareNewTime(m, v, allow)
               \/ \E cancellation \in BOOLEAN : PrepareCancel(m, v, allow, cancellation)
               \/ PrepareForwarding(m, v, allow) \/ SetTeamsOption(m, v)
        PROVE  CalendarInv' /\ OptionsStay
    <3>1. \/ CreateMeeting(m, v, allow) \/ UpdateMeeting(m, v, allow)
          \/ \E kind \in PreparedKind : Prepared(kind, m, v)
      BY <1>7, <2>2 DEF PrepareResponse, PrepareResponseMessage, PrepareNewTime, PrepareCancel,
         PrepareForwarding, SetTeamsOption
    <3> QED BY <1>4, <1>5, <3>1
  <2> QED BY <1>6, <2>1, <2>2
<1> QED BY <1>8, <1>9

LEMMA GrantCallKeeps ==
  ASSUME CalendarInv, GrantCall
  PROVE  CalendarInv' /\ OptionsStay
<1>1. EventsOK /\ AttendeesOK /\ GrantsOK /\ PublishedOK /\ SharedOK /\ BlocksOK
      /\ OptionsOK /\ SeriesOK /\ MeetingsOK /\ PreparedOK /\ DelegatesAreBounded
  BY CalendarParts DEF CalendarInv
<1>2. PICK c \in Calendar, p \in Person :
        Revoke(c, p) \/ \E role \in CalendarRole, limit \in Delegates : Grant(c, p, role, limit)
  BY DEF GrantCall
<1>3. PICK role \in CalendarRole \cup {None} :
        /\ PutGrant(c, p, role)
        /\ role = "DELEGATE" => \E limit \in Delegates : Cardinality(DelegatesOf(c) \ {p}) < limit
        /\ role # None /\ grants[<<c, p>>] = None => Cardinality(Used(grants)) < MaxGrants
  <2>1. CASE Revoke(c, p)
    <3>1. None # "DELEGATE"
      BY CalendarAssumption DEF CalendarRole
    <3> QED BY <2>1, <3>1 DEF Revoke
  <2>2. ASSUME NEW role \in CalendarRole, NEW limit \in Delegates, Grant(c, p, role, limit)
        PROVE  \E r \in CalendarRole \cup {None} :
                 /\ PutGrant(c, p, r)
                 /\ r = "DELEGATE" => \E l \in Delegates : Cardinality(DelegatesOf(c) \ {p}) < l
                 /\ r # None /\ grants[<<c, p>>] = None => Cardinality(Used(grants)) < MaxGrants
    BY <2>2 DEF Grant
  <2> QED BY <1>2, <2>1, <2>2
<1>4. /\ grants' = [grants EXCEPT ![<<c, p>>] = role]
      /\ UNCHANGED <<events, options, series, meetings, attendees, prepared, published, shared, blocks>>
  BY <1>3 DEF PutGrant, eventVars, meetingVars
<1>5. <<c, p>> \in Calendar \X Person /\ IsFiniteSet(Calendar \X Person) /\ MaxGrants \in Nat
  BY CalendarNat, PairsFinite
<1>6. GrantsOK'
  <2> DEFINE K == Calendar \X Person
             k == <<c, p>>
  <2>1. /\ grants \in [K -> CalendarRole \cup {None}] /\ Cardinality(Used(grants)) <= MaxGrants
        /\ grants[k] = None /\ role # None => Cardinality(Used(grants)) < MaxGrants
        /\ grants' = [grants EXCEPT ![k] = role] /\ IsFiniteSet(K) /\ k \in K /\ MaxGrants \in Nat
    BY <1>1, <1>3, <1>4, <1>5 DEF GrantsOK
  <2>2. grants' \in [K -> CalendarRole \cup {None}] /\ Cardinality(Used(grants')) <= MaxGrants
    <3> HIDE DEF K, k
    <3> QED BY <2>1, PutBounded
  <2> QED BY <2>2 DEF GrantsOK
<1>7. /\ grants'[<<c, p>>] = role
      /\ \A d \in Calendar, q \in Person : <<d, q>> # <<c, p>> => grants'[<<d, q>>] = grants[<<d, q>>]
  BY <1>1, <1>4, <1>5 DEF GrantsOK
<1>8. DelegatesAreBounded'
  <2> SUFFICES ASSUME NEW d \in Calendar, NEW q \in DelegatesOf(d)'
               PROVE  \E limit \in Delegates : Cardinality(DelegatesOf(d)') <= limit
    BY DEF DelegatesAreBounded
  <2>1. DelegatesOf(d) \subseteq Person /\ IsFiniteSet(Person)
    BY CalendarNat DEF DelegatesOf
  <2>2. IsFiniteSet(DelegatesOf(d)) /\ IsFiniteSet(DelegatesOf(d) \ {p})
        /\ Cardinality(DelegatesOf(d)) \in Nat /\ Cardinality(DelegatesOf(d) \ {p}) \in Nat
        /\ Cardinality(DelegatesOf(d) \ {p}) <= Cardinality(DelegatesOf(d))
    BY <2>1, FS_Subset, FS_CardinalityType
  <2>3. CASE d # c
    <3>1. DelegatesOf(d)' = DelegatesOf(d)
      BY <1>7, <2>3 DEF DelegatesOf
    <3> QED BY <1>1, <3>1 DEF DelegatesAreBounded
  <2>4. CASE d = c /\ role = "DELEGATE"
    <3>1. DelegatesOf(c)' = (DelegatesOf(c) \ {p}) \cup {p}
      BY <1>7, <2>4 DEF DelegatesOf
    <3>2. Cardinality((DelegatesOf(c) \ {p}) \cup {p}) = Cardinality(DelegatesOf(c) \ {p}) + 1
      BY <2>2, <2>4, FS_AddElement
    <3>3. PICK limit \in Delegates : Cardinality(DelegatesOf(c) \ {p}) < limit
      BY <1>3, <2>4
    <3>4. limit \in Nat
      BY CalendarNat
    <3>5. Cardinality(DelegatesOf(c)') <= limit
      BY <2>2, <2>4, <3>1, <3>2, <3>3, <3>4
    <3> QED BY <2>4, <3>5
  <2>5. CASE d = c /\ role # "DELEGATE"
    <3>1. DelegatesOf(c)' = DelegatesOf(c) \ {p}
      BY <1>7, <2>5 DEF DelegatesOf
    <3>2. PICK limit \in Delegates : Cardinality(DelegatesOf(c)) <= limit
      BY <1>1, <2>5, <3>1 DEF DelegatesAreBounded
    <3>3. limit \in Nat
      BY CalendarNat
    <3>4. Cardinality(DelegatesOf(c)') <= limit
      BY <2>2, <2>5, <3>1, <3>2, <3>3
    <3> QED BY <2>5, <3>4
  <2> QED BY <2>3, <2>4, <2>5
<1>9. EventsOK' /\ AttendeesOK' /\ PublishedOK' /\ SharedOK' /\ BlocksOK'
      /\ OptionsOK' /\ SeriesOK' /\ MeetingsOK' /\ PreparedOK'
  BY <1>1, <1>4 DEF EventsOK, AttendeesOK, PublishedOK, SharedOK, BlocksOK, OptionsOK, SeriesOK,
     MeetingsOK, PreparedOK
<1>10. CalendarTypeOK'
  BY <1>6, <1>9 DEF CalendarTypeOK, EventsOK, AttendeesOK, GrantsOK, PublishedOK, SharedOK, BlocksOK,
     OptionsOK, SeriesOK, MeetingsOK, PreparedOK
<1> QED BY <1>4, <1>8, <1>10 DEF CalendarInv, OptionsStay

LEMMA SharingCallKeeps ==
  ASSUME CalendarInv, SharingCall
  PROVE  CalendarInv' /\ OptionsStay
<1>1. EventsOK /\ AttendeesOK /\ GrantsOK /\ PublishedOK /\ SharedOK /\ BlocksOK
      /\ OptionsOK /\ SeriesOK /\ MeetingsOK /\ PreparedOK
  BY CalendarParts DEF CalendarInv
<1>2. ASSUME PublishedOK', SharedOK', BlocksOK',
             UNCHANGED <<events, options, series, meetings, attendees, prepared, grants>>
      PROVE  CalendarInv' /\ OptionsStay
  <2>1. EventsOK' /\ AttendeesOK' /\ GrantsOK' /\ OptionsOK' /\ SeriesOK' /\ MeetingsOK' /\ PreparedOK'
    BY <1>1, <1>2 DEF EventsOK, AttendeesOK, GrantsOK, OptionsOK, SeriesOK, MeetingsOK, PreparedOK
  <2>2. CalendarTypeOK'
    BY <1>2, <2>1 DEF CalendarTypeOK, EventsOK, AttendeesOK, GrantsOK, PublishedOK, SharedOK, BlocksOK,
       OptionsOK, SeriesOK, MeetingsOK, PreparedOK
  <2>3. DelegatesAreBounded'
    BY <1>2 DEF CalendarInv, DelegatesAreBounded, DelegatesOf
  <2> QED BY <1>2, <2>2, <2>3 DEF CalendarInv, OptionsStay
<1>3. ASSUME NEW c \in Calendar, NEW v \in PublicationDetail \cup {None}, PutPublication(c, v),
             v # None /\ published[c] = None => Cardinality(Used(published)) < MaxPublications
      PROVE  CalendarInv' /\ OptionsStay
  <2>1. /\ published' = [published EXCEPT ![c] = v]
        /\ UNCHANGED <<events, options, series, meetings, attendees, prepared, grants, shared, blocks>>
    BY <1>3 DEF PutPublication, eventVars, meetingVars
  <2>2. IsFiniteSet(Calendar) /\ MaxPublications \in Nat
    BY CalendarNat
  <2>3. PublishedOK'
    BY <1>1, <1>3, <2>1, <2>2, PutBounded DEF PublishedOK
  <2>4. SharedOK' /\ BlocksOK'
    BY <1>1, <2>1 DEF SharedOK, BlocksOK
  <2> QED BY <1>2, <2>1, <2>3, <2>4
<1>4. ASSUME NEW c \in Calendar, NEW p \in Person, NEW add \in BOOLEAN, ShareWith(c, p, add)
      PROVE  CalendarInv' /\ OptionsStay
  <2>1. /\ shared' = IF add THEN shared \cup {<<c, p>>} ELSE shared \ {<<c, p>>}
        /\ add /\ <<c, p>> \notin shared => Cardinality(shared) < MaxShared
        /\ UNCHANGED <<events, options, series, meetings, attendees, prepared, grants, published, blocks>>
    BY <1>4 DEF ShareWith, eventVars, meetingVars
  <2>2. IsFiniteSet(shared) /\ MaxShared \in Nat
    BY <1>1, CalendarNat, PairsFinite, FS_Subset DEF SharedOK
  <2>3. shared' \subseteq shared \cup {<<c, p>>}
    BY <2>1
  <2>4. /\ Cardinality(shared') \in Nat /\ Cardinality(shared) \in Nat
        /\ Cardinality(shared') <= Cardinality(shared) + 1
        /\ (<<c, p>> \notin shared' \/ <<c, p>> \in shared) => Cardinality(shared') <= Cardinality(shared)
    BY <2>2, <2>3, OneMore
  <2>5. SharedOK'
    <3>1. CASE add /\ <<c, p>> \notin shared
      BY <1>1, <2>1, <2>2, <2>3, <2>4, <3>1 DEF SharedOK
    <3>2. CASE ~(add /\ <<c, p>> \notin shared)
      <4>1. <<c, p>> \notin shared' \/ <<c, p>> \in shared
        BY <2>1, <3>2
      <4> QED BY <1>1, <2>2, <2>3, <2>4, <4>1 DEF SharedOK
    <3> QED BY <3>1, <3>2
  <2>6. PublishedOK' /\ BlocksOK'
    BY <1>1, <2>1 DEF PublishedOK, BlocksOK
  <2> QED BY <1>2, <2>1, <2>5, <2>6
<1>5. ASSUME NEW b \in Block, NEW v \in Payload, SetBlock(b, v)
      PROVE  CalendarInv' /\ OptionsStay
  <2>1. /\ blocks' = [blocks EXCEPT ![b] = v]
        /\ blocks[b] = None => Cardinality(Used(blocks)) < MaxBlocks
        /\ UNCHANGED <<events, options, series, meetings, attendees, prepared, grants, published, shared>>
    BY <1>5 DEF SetBlock, eventVars, meetingVars
  <2>2. IsFiniteSet(Block) /\ MaxBlocks \in Nat
    BY CalendarNat
  <2>3. BlocksOK'
    BY <1>1, <2>1, <2>2, PutBounded DEF BlocksOK
  <2>4. PublishedOK' /\ SharedOK'
    BY <1>1, <2>1 DEF PublishedOK, SharedOK
  <2> QED BY <1>2, <2>1, <2>3, <2>4
<1>6. ASSUME NEW c \in Calendar, Unpublish(c)
      PROVE  CalendarInv' /\ OptionsStay
  BY <1>3, <1>6 DEF Unpublish
<1>7. ASSUME NEW c \in Calendar, NEW detail \in PublicationDetail, Publish(c, detail)
      PROVE  CalendarInv' /\ OptionsStay
  BY <1>3, <1>7 DEF Publish
<1> QED BY <1>4, <1>5, <1>6, <1>7 DEF SharingCall

LEMMA CalendarKept == CalendarInv /\ [CalendarNext]_calendarVars => CalendarInv' /\ OptionsStay
<1> SUFFICES ASSUME CalendarInv, [CalendarNext]_calendarVars PROVE CalendarInv' /\ OptionsStay
  OBVIOUS
<1>1. CASE UNCHANGED calendarVars
  BY <1>1 DEF calendarVars, CalendarInv, CalendarTypeOK, DelegatesAreBounded, DelegatesOf, OptionsStay
<1> QED BY <1>1, EventCallKeeps, MeetingCallKeeps, GrantCallKeeps, SharingCallKeeps DEF CalendarNext

(* A page that holds every event of a calendar lists every one of them.     *)
LEMMA PageHoldsAll ==
  ASSUME EventsOK, NEW c \in Calendar, Cardinality(Listable(c)) <= MaxPage
  PROVE  Listing(c) = Listable(c)
<1>1. Listable(c) \subseteq Event /\ IsFiniteSet(Event) /\ MaxPage \in Nat
  BY CalendarNat DEF Listable, Used, EventsOK
<1>2. IsFiniteSet(Listable(c))
  BY <1>1, FS_Subset
<1>3. ASSUME NEW e \in Listable(c)
      PROVE  Cardinality({d \in Listable(c) : Earlier(d, e)}) < MaxPage
  <2>1. events[e] \in SyntheticEvent /\ e \in Nat
    BY <1>1, CalendarNat DEF Listable, Used, EventsOK
  <2>2. ~Earlier(e, e)
    BY <2>1 DEF Earlier, SyntheticEvent
  <2>3. {d \in Listable(c) : Earlier(d, e)} \subseteq Listable(c) \ {e}
    BY <2>2
  <2>4. /\ Cardinality({d \in Listable(c) : Earlier(d, e)}) + 1 <= Cardinality(Listable(c))
        /\ Cardinality({d \in Listable(c) : Earlier(d, e)}) \in Nat /\ Cardinality(Listable(c)) \in Nat
    BY <1>2, <2>3, OneLess
  <2> QED BY <1>1, <2>4
<1> QED BY <1>3 DEF Listing

(* The strongest of a set of states is free only if all are.                *)
LEMMA StrongestState ==
  ASSUME NEW S \in SUBSET ShowAs, "FREE" \in S
  PROVE  LET s == CHOOSE s \in S : \A t \in S : Rank[t] <= Rank[s]
         IN  s \in S /\ (s = "FREE" <=> S = {"FREE"})
<1>1. /\ Rank["FREE"] = 0 /\ Rank["TENTATIVE"] = 1 /\ Rank["BUSY"] = 2 /\ Rank["OUT_OF_OFFICE"] = 3
  BY DEF Rank
<1>2. S \subseteq {"FREE", "TENTATIVE", "BUSY", "OUT_OF_OFFICE"}
  BY DEF ShowAs
<1>3. \E s \in S : \A t \in S : Rank[t] <= Rank[s]
  <2>1. CASE "OUT_OF_OFFICE" \in S
    BY <1>1, <1>2, <2>1
  <2>2. CASE "OUT_OF_OFFICE" \notin S /\ "BUSY" \in S
    BY <1>1, <1>2, <2>2
  <2>3. CASE "OUT_OF_OFFICE" \notin S /\ "BUSY" \notin S /\ "TENTATIVE" \in S
    BY <1>1, <1>2, <2>3
  <2>4. CASE "OUT_OF_OFFICE" \notin S /\ "BUSY" \notin S /\ "TENTATIVE" \notin S
    BY <1>1, <1>2, <2>4
  <2> QED BY <2>1, <2>2, <2>3, <2>4
<1> DEFINE s == CHOOSE s \in S : \A t \in S : Rank[t] <= Rank[s]
<1>4. s \in S /\ \A t \in S : Rank[t] <= Rank[s]
  BY <1>3
<1> HIDE DEF s
<1>5. s = "FREE" <=> S = {"FREE"}
  <2>1. ASSUME s = "FREE", NEW t \in S
        PROVE  t = "FREE"
    <3>1. Rank[t] <= 0
      BY <1>1, <1>4, <2>1
    <3> QED BY <1>1, <1>2, <3>1
  <2> QED BY <1>4, <2>1
<1> QED BY <1>4, <1>5 DEF s

(* A slot a person's calendar reports as free is free of events.            *)
LEMMA FreeMeansFree ==
  ASSUME EventsOK, NEW c \in Calendar, Cardinality(Listable(c)) <= MaxPage, NEW slot \in Int
  PROVE  Availability(c, slot) = "FREE" <=> ~Occupied(c, slot)
<1> DEFINE over == {events[e].show_as : e \in {d \in Listing(c) : Overlaps(d, slot)}}
           S == over \cup {"FREE"}
<1>1. \A e \in Listable(c) : /\ events[e] \in SyntheticEvent /\ events[e].show_as \in ShowAs
                             /\ events[e].start \in Int /\ events[e].duration \in Nat
  <2>1. \A e \in Listable(c) : events[e] \in SyntheticEvent
    BY DEF Listable, Used, EventsOK
  <2> QED BY <2>1 DEF SyntheticEvent
<1>2. Listing(c) = Listable(c)
  BY PageHoldsAll
<1>3. S \in SUBSET ShowAs /\ "FREE" \in S
  BY <1>1, <1>2 DEF ShowAs
<1>4. Availability(c, slot) = CHOOSE s \in S : \A t \in S : Rank[t] <= Rank[s]
  BY DEF Availability
<1>5. Availability(c, slot) = "FREE" <=> S = {"FREE"}
  <2> HIDE DEF S
  <2> QED BY <1>3, <1>4, StrongestState
<1>6. S = {"FREE"} <=> \A e \in Listable(c) : Overlaps(e, slot) => events[e].show_as = "FREE"
  BY <1>2
<1>7. ASSUME NEW e \in Listable(c)
      PROVE  Overlaps(e, slot) /\ events[e].show_as # "FREE" <=> Blocks(e, slot)
  <2>1. Overlaps(e, slot) <=> slot \in events[e].start..(events[e].start + events[e].duration - 1)
    BY <1>1 DEF Overlaps
  <2> QED BY <2>1 DEF Blocks, Listable
<1>8. Occupied(c, slot) <=> \E e \in Listable(c) : Blocks(e, slot)
  BY DEF Occupied, Listable, Blocks
<1> QED BY <1>5, <1>6, <1>7, <1>8

(* The slots that suit all, through the three layers of reads.              *)
LEMMA SlotsAreCommon ==
  ASSUME EventsOK, \A c \in Calendar : Cardinality(Listable(c)) <= MaxPage
  PROVE  SlotsSuit("ALL_FREE", Participant) /\ SlotsSuit("REQUIRED_FREE", Required)
<1>1. CalendarOf \in [Participant -> Calendar] /\ Required \subseteq Participant /\ Horizon \in Nat
  BY CalendarAssumption, CalendarNat
<1>2. ASSUME NEW slot \in 0..Horizon - 1
      PROVE  Conflicted(slot) = {p \in Participant : Occupied(CalendarOf[p], slot)}
  <2>1. slot \in Int
    BY <1>1
  <2>2. \A p \in Participant : CalendarOf[p] \in Calendar
    BY <1>1
  <2> QED BY <2>1, <2>2, FreeMeansFree DEF Conflicted
<1>3. ASSUME NEW slot \in 0..Horizon - 1
      PROVE  /\ Feasibility(slot) \in {"ALL_FREE"} <=> \A p \in Participant : ~Occupied(CalendarOf[p], slot)
             /\ Feasibility(slot) \in {"ALL_FREE", "REQUIRED_FREE"}
                  <=> \A p \in Required : ~Occupied(CalendarOf[p], slot)
  BY <1>1, <1>2 DEF Feasibility
<1>4. Matching("ALL_FREE") = {slot \in 0..Horizon - 1 : \A p \in Participant : ~Occupied(CalendarOf[p], slot)}
  BY <1>3 DEF Matching
<1>5. Matching("REQUIRED_FREE") = {slot \in 0..Horizon - 1 : \A p \in Required : ~Occupied(CalendarOf[p], slot)}
  BY <1>3 DEF Matching
<1> QED BY <1>4, <1>5, Zenon DEF SlotsSuit, CommonSlots

LEMMA SlotsHold == CalendarTypeOK => CommonSlotsSuit
BY SlotsAreCommon, CalendarParts DEF CommonSlotsSuit

-----------------------------------------------------------------------------
(* OutlookPolls.                                                            *)

PollsInv == PollsTypeOK /\ TalliesAddUp

LEMMA PollsNat ==
  /\ MaxPolls \in Nat \ {0} /\ MaxChoices \in Nat \ {0} /\ MaxVotes \in Nat \ {0}
  /\ IsFiniteSet(Poll) /\ IsFiniteSet(Choice) /\ IsFiniteSet(Person) /\ None \notin PollRecord
BY PollsAssumption

(* What holds of every poll.                                                *)
LEMMA PollFields ==
  ASSUME NEW poll \in PollRecord
  PROVE  /\ poll.closed \in BOOLEAN /\ poll.options \subseteq Choice
         /\ poll.votes \subseteq Choice \X Person
         /\ IsFiniteSet(poll.options) /\ Cardinality(poll.options) \in Nat
         /\ IsFiniteSet(poll.votes) /\ Cardinality(poll.votes) \in Nat
<1>1. /\ poll.closed \in BOOLEAN /\ poll.options \subseteq Choice
      /\ poll.votes \subseteq Choice \X Person
  BY DEF PollRecord
<1>2. IsFiniteSet(Choice \X Person)
  BY PollsNat, FS_Product
<1> QED BY <1>1, <1>2, PollsNat, FS_Subset, FS_CardinalityType

(* A person has at most one vote for an option: votes are pairs.            *)
LEMMA TallyBounded ==
  ASSUME NEW poll \in PollRecord, NEW o
  PROVE  Tally(poll, o) <= Cardinality(Person)
<1> DEFINE S == {v \in poll.votes : v[1] = o}
           f == [v \in S |-> v[2]]
<1>1. S \subseteq Choice \X Person
  BY PollFields
<1>2. f \in [S -> Person] /\ \A v, w \in S : f[v] = f[w] => v = w
  BY <1>1
<1>3. f \in Injection(S, Person)
  <2> HIDE DEF f, S
  <2> QED BY <1>2 DEF Injection, IsInjective
<1>4. Cardinality(S) <= Cardinality(Person)
  <2> HIDE DEF f, S
  <2> QED BY <1>3, PollsNat, FS_Injection
<1> QED BY <1>4 DEF Tally

(* What a call makes of a poll: a poll of votes on offer, and of a closed   *)
(* one itself.                                                              *)
PollEdit(old, new) ==
  /\ new \in PollRecord /\ \A v \in new.votes : v[1] \in new.options
  /\ old # None => (old.closed => new = old)

LEMMA NewPollSuits == PollEdit(None, NewPoll) /\ Cardinality({}) = 0 /\ NewPoll.votes = {} /\ NewPoll.options = {}
BY FS_EmptySet DEF PollEdit, PollRecord, NewPoll

(* What the calls make of an open poll, and of a closed one.                *)
LEMMA PollEdits ==
  ASSUME NEW poll \in PollRecord, \A v \in poll.votes : v[1] \in poll.options,
         NEW o \in Choice, NEW p \in Person
  PROVE  /\ PollEdit(poll, poll) /\ PollEdit(poll, Closed(poll))
         /\ ~poll.closed => /\ PollEdit(poll, WithOption(poll, o))
                            /\ PollEdit(poll, WithoutOption(poll, o))
         /\ ~poll.closed /\ o \in poll.options => PollEdit(poll, WithVote(poll, o, p))
<1>1. PollEdit(poll, poll)
  BY DEF PollEdit
<1>2. PollEdit(poll, Closed(poll))
  BY DEF PollEdit, Closed, PollRecord
<1>3. /\ WithOption(poll, o) \in PollRecord
      /\ WithOption(poll, o).options = poll.options \cup {o}
      /\ WithOption(poll, o).votes = poll.votes
  BY DEF WithOption, PollRecord
<1>4. /\ WithoutOption(poll, o) \in PollRecord
      /\ WithoutOption(poll, o).options = poll.options \ {o}
      /\ WithoutOption(poll, o).votes = {v \in poll.votes : v[1] # o}
  BY DEF WithoutOption, PollRecord
<1>5. /\ WithVote(poll, o, p) \in PollRecord
      /\ WithVote(poll, o, p).options = poll.options
      /\ WithVote(poll, o, p).votes = poll.votes \cup {<<o, p>>}
  BY DEF WithVote, PollRecord
<1> QED BY <1>1, <1>2, <1>3, <1>4, <1>5 DEF PollEdit

LEMMA PollsStart == PollsInit => PollsInv
<1> SUFFICES ASSUME PollsInit PROVE PollsInv
  OBVIOUS
<1>1. Used(polls) = {} /\ Used(emailPolls) = {}
  BY DEF PollsInit, Used
<1> QED BY <1>1, FS_EmptySet, PollsNat DEF PollsInit, PollsInv, PollsTypeOK, TalliesAddUp

(* One poll of a catalog is written.                                        *)
PollWritten(catalog, k, v) ==
  /\ PollEdit(catalog[k], v)
  /\ catalog[k] = None => v = NewPoll

(* Every call on scheduling polls writes one, within the bounds,            *)
LEMMA PollCallEdits ==
  ASSUME PollsInv, PollCall
  PROVE  \E k \in Poll, v \in PollRecord :
           /\ PollWritten(polls, k, v) /\ PutPoll(k, v)
           /\ polls[k] = None => Cardinality(Used(polls)) < MaxPolls
           /\ Cardinality(v.options) <= MaxChoices /\ Cardinality(v.votes) <= MaxVotes
<1>1. ASSUME NEW k \in Poll, polls[k] # None
      PROVE  /\ polls[k] \in PollRecord /\ \A v \in polls[k].votes : v[1] \in polls[k].options
             /\ Cardinality(polls[k].options) <= MaxChoices /\ Cardinality(polls[k].votes) <= MaxVotes
             /\ Cardinality(polls[k].options) \in Nat /\ Cardinality(polls[k].votes) \in Nat
  <2>1. polls[k] \in PollRecord /\ k \in Used(polls)
    BY <1>1 DEF PollsInv, PollsTypeOK, Used
  <2> QED BY <2>1, PollFields DEF PollsInv, PollsTypeOK, TalliesAddUp, AddsUp
<1>2. MaxPolls \in Nat /\ MaxChoices \in Nat /\ MaxVotes \in Nat /\ MaxChoices > 0 /\ MaxVotes > 0
  BY PollsNat
<1> DEFINE Goal == \E k \in Poll, v \in PollRecord :
           /\ PollWritten(polls, k, v) /\ PutPoll(k, v)
           /\ polls[k] = None => Cardinality(Used(polls)) < MaxPolls
           /\ Cardinality(v.options) <= MaxChoices /\ Cardinality(v.votes) <= MaxVotes
<1>3. ASSUME NEW k \in Poll, CreatePoll(k)
      PROVE  Goal
  <2>1. CASE polls[k] = None
    <3>1. NewPoll \in PollRecord /\ PollEdit(polls[k], NewPoll) /\ NewPoll.votes = {} /\ NewPoll.options = {}
      BY <2>1, NewPollSuits DEF PollEdit
    <3>2. PutPoll(k, NewPoll) /\ Cardinality(Used(polls)) < MaxPolls
      BY <1>3, <2>1 DEF CreatePoll
    <3>3. Cardinality(NewPoll.options) <= MaxChoices /\ Cardinality(NewPoll.votes) <= MaxVotes
      <4>1. Cardinality({}) = 0
        BY FS_EmptySet
      <4> QED BY <1>2, <3>1, <4>1
    <3>4. PollWritten(polls, k, NewPoll)
      BY <3>1 DEF PollWritten
    <3> QED BY <3>1, <3>2, <3>3, <3>4
  <2>2. CASE polls[k] # None
    <3>1. polls[k] \in PollRecord /\ PollEdit(polls[k], polls[k])
      BY <1>1, <2>2 DEF PollEdit
    <3> QED BY <1>1, <1>3, <2>2, <3>1 DEF CreatePoll, PollWritten
  <2> QED BY <2>1, <2>2
<1>4. ASSUME NEW k \in Poll, NEW v, polls[k] # None, PollEdit(polls[k], v), PutPoll(k, v),
             Cardinality(v.options) <= MaxChoices, Cardinality(v.votes) <= MaxVotes
      PROVE  Goal
  <2>1. v \in PollRecord
    BY <1>4 DEF PollEdit
  <2> QED BY <1>4, <2>1 DEF PollWritten
<1> HIDE DEF Goal
<1>5. ASSUME NEW k \in Poll, ClosePoll(k)
      PROVE  Goal
  <2>1. polls[k] # None /\ PutPoll(k, Closed(polls[k]))
    BY <1>5 DEF ClosePoll
  <2>2. PollEdit(polls[k], Closed(polls[k]))
    <3>1. polls[k] \in PollRecord
      BY <1>1, <2>1
    <3> QED BY <1>1, <2>1, <3>1 DEF PollEdit, Closed, PollRecord
  <2>3. Cardinality(Closed(polls[k]).options) <= MaxChoices /\ Cardinality(Closed(polls[k]).votes) <= MaxVotes
    <3>1. polls[k] \in PollRecord
      BY <1>1, <2>1
    <3>2. Closed(polls[k]).options = polls[k].options /\ Closed(polls[k]).votes = polls[k].votes
      BY <3>1 DEF Closed, PollRecord
    <3> QED BY <1>1, <2>1, <3>2
  <2> QED BY <1>4, <2>1, <2>2, <2>3
<1>6. ASSUME NEW k \in Poll, NEW o \in Choice, AddOption(k, o)
      PROVE  Goal
  <2> DEFINE v == WithOption(polls[k], o)
  <2>1. /\ polls[k] # None /\ ~polls[k].closed /\ PutPoll(k, v)
        /\ o \notin polls[k].options => Cardinality(polls[k].options) < MaxChoices
    BY <1>6 DEF AddOption, Open
  <2>2. polls[k] \in PollRecord
    BY <1>1, <2>1
  <2>3. v \in PollRecord /\ v.options = polls[k].options \cup {o} /\ v.votes = polls[k].votes
    BY <2>2 DEF WithOption, PollRecord
  <2> HIDE DEF v
  <2>4. PollEdit(polls[k], v)
    BY <1>1, <2>1, <2>3 DEF PollEdit
  <2>5. Cardinality(v.options) <= MaxChoices
    <3>1. /\ Cardinality(polls[k].options \cup {o}) <= Cardinality(polls[k].options) + 1
          /\ o \in polls[k].options => Cardinality(polls[k].options \cup {o}) <= Cardinality(polls[k].options)
          /\ Cardinality(polls[k].options \cup {o}) \in Nat
      BY <2>2, PollFields, OneMore
    <3>2. Cardinality(polls[k].options) <= MaxChoices /\ Cardinality(polls[k].options) \in Nat
      BY <1>1, <2>1
    <3> QED BY <1>2, <2>1, <2>3, <3>1, <3>2
  <2> QED BY <1>1, <1>4, <2>1, <2>3, <2>4, <2>5
<1>7. ASSUME NEW k \in Poll, NEW o \in Choice, RemoveOption(k, o)
      PROVE  Goal
  <2> DEFINE v == WithoutOption(polls[k], o)
  <2>1. polls[k] # None /\ ~polls[k].closed /\ PutPoll(k, v)
    BY <1>7 DEF RemoveOption, Open
  <2>2. polls[k] \in PollRecord
    BY <1>1, <2>1
  <2>3. v \in PollRecord /\ v.options = polls[k].options \ {o} /\ v.votes = {w \in polls[k].votes : w[1] # o}
    BY <2>2 DEF WithoutOption, PollRecord
  <2> HIDE DEF v
  <2>4. PollEdit(polls[k], v)
    BY <1>1, <2>1, <2>3 DEF PollEdit
  <2>5. /\ Cardinality(v.options) <= Cardinality(polls[k].options) /\ Cardinality(v.options) \in Nat
        /\ Cardinality(v.votes) <= Cardinality(polls[k].votes) /\ Cardinality(v.votes) \in Nat
    <3>1. v.options \subseteq polls[k].options /\ v.votes \subseteq polls[k].votes
      BY <2>3
    <3> QED BY <2>2, <3>1, PollFields, FS_Subset, FS_CardinalityType
  <2>6. Cardinality(v.options) <= MaxChoices /\ Cardinality(v.votes) <= MaxVotes
    BY <1>1, <1>2, <2>1, <2>5
  <2> QED BY <1>4, <2>1, <2>4, <2>6
<1>8. ASSUME NEW k \in Poll, NEW o \in Choice, NEW p \in Person, Vote(k, o, p)
      PROVE  Goal
  <2> DEFINE v == WithVote(polls[k], o, p)
  <2>1. /\ polls[k] # None /\ ~polls[k].closed /\ PutPoll(k, v) /\ o \in polls[k].options
        /\ Cardinality(polls[k].votes) < MaxVotes
    BY <1>8 DEF Vote, Open
  <2>2. polls[k] \in PollRecord
    BY <1>1, <2>1
  <2>3. v \in PollRecord /\ v.options = polls[k].options /\ v.votes = polls[k].votes \cup {<<o, p>>}
    BY <2>2 DEF WithVote, PollRecord
  <2> HIDE DEF v
  <2>4. PollEdit(polls[k], v)
    BY <1>1, <2>1, <2>3 DEF PollEdit
  <2>5. Cardinality(v.votes) <= MaxVotes
    <3>1. /\ Cardinality(polls[k].votes \cup {<<o, p>>}) <= Cardinality(polls[k].votes) + 1
          /\ Cardinality(polls[k].votes \cup {<<o, p>>}) \in Nat
      BY <2>2, PollFields, OneMore
    <3> QED BY <1>1, <1>2, <2>1, <2>3, <3>1
  <2> QED BY <1>1, <1>4, <2>1, <2>3, <2>4, <2>5
<1>9. Goal
  BY <1>3, <1>5, <1>6, <1>7, <1>8 DEF PollCall
<1> QED BY <1>9 DEF Goal

(* and every call on email polls one.                                       *)
LEMMA EmailPollCallEdits ==
  ASSUME PollsInv, EmailPollCall
  PROVE  \E k \in Poll, v \in PollRecord :
           /\ PollEdit(emailPolls[k], v)
           /\ emailPolls' = [emailPolls EXCEPT ![k] = v] /\ UNCHANGED polls
<1>1. ASSUME NEW k \in Poll, emailPolls[k] # None
      PROVE  emailPolls[k] \in PollRecord /\ \A v \in emailPolls[k].votes : v[1] \in emailPolls[k].options
  BY <1>1 DEF PollsInv, PollsTypeOK, TalliesAddUp, AddsUp, Used
<1> DEFINE Goal == \E k \in Poll, v \in PollRecord :
           /\ PollEdit(emailPolls[k], v)
           /\ emailPolls' = [emailPolls EXCEPT ![k] = v] /\ UNCHANGED polls
<1>2. ASSUME NEW k \in Poll, NEW v, PollEdit(emailPolls[k], v), PutEmailPoll(k, v)
      PROVE  Goal
  <2>1. v \in PollRecord
    BY <1>2 DEF PollEdit
  <2> QED BY <1>2, <2>1 DEF PutEmailPoll
<1> HIDE DEF Goal
<1>3. ASSUME NEW k \in Poll, CreateEmailPoll(k)
      PROVE  Goal
  <2>1. CASE emailPolls[k] = None
    <3>1. PollEdit(emailPolls[k], NewPoll)
      BY <2>1, NewPollSuits DEF PollEdit
    <3> QED BY <1>2, <1>3, <2>1, <3>1 DEF CreateEmailPoll
  <2>2. CASE emailPolls[k] # None
    <3>1. PollEdit(emailPolls[k], emailPolls[k])
      BY <1>1, <2>2 DEF PollEdit
    <3> QED BY <1>2, <1>3, <2>2, <3>1 DEF CreateEmailPoll
  <2> QED BY <2>1, <2>2
<1>4. ASSUME NEW k \in Poll, NEW o \in Choice, NEW p \in Person, emailPolls[k] # None
      PROVE  /\ PollEdit(emailPolls[k], Closed(emailPolls[k]))
             /\ ~emailPolls[k].closed => /\ PollEdit(emailPolls[k], WithOption(emailPolls[k], o))
                                         /\ PollEdit(emailPolls[k], WithoutOption(emailPolls[k], o))
             /\ ~emailPolls[k].closed /\ o \in emailPolls[k].options =>
                  PollEdit(emailPolls[k], WithVote(emailPolls[k], o, p))
  BY <1>1, <1>4, PollEdits
<1>5. ASSUME NEW k \in Poll, CloseEmailPoll(k)
      PROVE  Goal
  <2>1. emailPolls[k] # None /\ PutEmailPoll(k, Closed(emailPolls[k]))
    BY <1>5 DEF CloseEmailPoll
  <2>2. PollEdit(emailPolls[k], Closed(emailPolls[k]))
    BY <1>1, <2>1 DEF PollEdit, Closed, PollRecord
  <2> QED BY <1>2, <2>1, <2>2
<1>6. ASSUME NEW k \in Poll, NEW o \in Choice, AddEmailOption(k, o)
      PROVE  Goal
  <2>1. Open(emailPolls, k) /\ PutEmailPoll(k, WithOption(emailPolls[k], o))
    BY <1>6 DEF AddEmailOption
  <2>2. PollEdit(emailPolls[k], WithOption(emailPolls[k], o))
    BY <1>1, <2>1 DEF PollEdit, WithOption, PollRecord, Open
  <2> QED BY <1>2, <2>1, <2>2
<1>7. ASSUME NEW k \in Poll, NEW o \in Choice, RemoveEmailOption(k, o)
      PROVE  Goal
  <2>1. Open(emailPolls, k) /\ PutEmailPoll(k, WithoutOption(emailPolls[k], o))
    BY <1>7 DEF RemoveEmailOption
  <2>2. PollEdit(emailPolls[k], WithoutOption(emailPolls[k], o))
    BY <1>1, <2>1 DEF PollEdit, WithoutOption, PollRecord, Open
  <2> QED BY <1>2, <2>1, <2>2
<1>8. ASSUME NEW k \in Poll, NEW o \in Choice, NEW p \in Person, EmailVote(k, o, p)
      PROVE  Goal
  <2>1. Open(emailPolls, k) /\ o \in emailPolls[k].options /\ PutEmailPoll(k, WithVote(emailPolls[k], o, p))
    BY <1>8 DEF EmailVote
  <2>2. PollEdit(emailPolls[k], WithVote(emailPolls[k], o, p))
    BY <1>4, <2>1 DEF Open
  <2> QED BY <1>2, <2>1, <2>2
<1>9. Goal
  BY <1>3, <1>5, <1>6, <1>7, <1>8 DEF EmailPollCall
<1> QED BY <1>9 DEF Goal

ClosedStay ==
  /\ \A k \in Used(polls) : polls[k].closed => polls[k]' = polls[k]
  /\ \A k \in Used(emailPolls) : emailPolls[k].closed => emailPolls[k]' = emailPolls[k]

LEMMA PollsKept == ASSUME PollsInv, [PollsNext]_pollsVars PROVE PollsInv' /\ ClosedStay
<1>1. /\ polls \in [Poll -> PollRecord \cup {None}] /\ emailPolls \in [Poll -> PollRecord \cup {None}]
      /\ Cardinality(Used(polls)) <= MaxPolls
      /\ \A k \in Used(polls) : Cardinality(polls[k].options) <= MaxChoices /\ Cardinality(polls[k].votes) <= MaxVotes
      /\ \A k \in Used(polls) : \A v \in polls[k].votes : v[1] \in polls[k].options
      /\ \A k \in Used(emailPolls) : \A v \in emailPolls[k].votes : v[1] \in emailPolls[k].options
  BY DEF PollsInv, PollsTypeOK, TalliesAddUp, AddsUp
<1>2. CASE PollCall
  <2>1. PICK k \in Poll, v \in PollRecord :
           /\ PollWritten(polls, k, v) /\ PutPoll(k, v)
           /\ polls[k] = None => Cardinality(Used(polls)) < MaxPolls
           /\ Cardinality(v.options) <= MaxChoices /\ Cardinality(v.votes) <= MaxVotes
    BY <1>2, PollCallEdits
  <2>2. polls' = [polls EXCEPT ![k] = v] /\ UNCHANGED emailPolls
    BY <2>1 DEF PutPoll
  <2>3. polls' \in [Poll -> PollRecord \cup {None}] /\ Cardinality(Used(polls')) <= MaxPolls
    BY <1>1, <2>1, <2>2, PutBounded, PollsNat
  <2>4. \A j \in Poll : polls'[j] = IF j = k THEN v ELSE polls[j]
    BY <1>1, <2>2
  <2>5. DOMAIN polls = Poll /\ DOMAIN polls' = Poll
    BY <1>1, <2>3
  <2>6. \A v1 \in v.votes : v1[1] \in v.options
    BY <2>1 DEF PollWritten, PollEdit
  <2>7. \A j \in Used(polls') : /\ polls'[j] \in PollRecord
                                /\ Cardinality(polls'[j].options) <= MaxChoices
                                /\ Cardinality(polls'[j].votes) <= MaxVotes
                                /\ \A w \in polls'[j].votes : w[1] \in polls'[j].options
    BY <1>1, <2>1, <2>3, <2>4, <2>5, <2>6 DEF Used
  <2>8. PollsTypeOK'
    BY <1>1, <2>2, <2>3, <2>7 DEF PollsTypeOK
  <2>9. TalliesAddUp'
    <3>1. \A j \in Used(polls') : AddsUp(polls'[j])
      BY <2>7, TallyBounded DEF AddsUp
    <3>2. (\A j \in Used(emailPolls) : AddsUp(emailPolls[j]))'
      BY <2>2 DEF PollsInv, TalliesAddUp
    <3> QED BY <3>1, <3>2 DEF TalliesAddUp
  <2>10. ClosedStay
    <3>1. \A j \in Used(polls) : polls[j].closed => polls'[j] = polls[j]
      BY <2>1, <2>4, <2>5 DEF PollWritten, PollEdit, Used
    <3>2. \A j : emailPolls'[j] = emailPolls[j]
      BY <2>2
    <3> QED BY <3>1, <3>2 DEF ClosedStay
  <2> QED BY <2>8, <2>9, <2>10 DEF PollsInv
<1>3. CASE EmailPollCall
  <2>1. PICK k \in Poll, v \in PollRecord :
           /\ PollEdit(emailPolls[k], v)
           /\ emailPolls' = [emailPolls EXCEPT ![k] = v] /\ UNCHANGED polls
    BY <1>3, EmailPollCallEdits
  <2>2. emailPolls' \in [Poll -> PollRecord \cup {None}]
    BY <1>1, <2>1
  <2>4. \A j \in Poll : emailPolls'[j] = IF j = k THEN v ELSE emailPolls[j]
    BY <1>1, <2>1
  <2>5. DOMAIN emailPolls = Poll /\ DOMAIN emailPolls' = Poll
    BY <1>1, <2>2
  <2>6. \A w \in v.votes : w[1] \in v.options
    BY <2>1 DEF PollEdit
  <2>7. \A j \in Used(emailPolls') : /\ emailPolls'[j] \in PollRecord
                                     /\ \A w \in emailPolls'[j].votes : w[1] \in emailPolls'[j].options
    BY <1>1, <2>1, <2>2, <2>4, <2>5, <2>6 DEF Used
  <2>8. PollsTypeOK'
    BY <1>1, <2>1, <2>2 DEF PollsTypeOK
  <2>9. TalliesAddUp'
    <3>1. \A j \in Used(emailPolls') : AddsUp(emailPolls'[j])
      BY <2>7, TallyBounded DEF AddsUp
    <3>2. (\A j \in Used(polls) : AddsUp(polls[j]))'
      BY <2>1 DEF PollsInv, TalliesAddUp
    <3> QED BY <3>1, <3>2 DEF TalliesAddUp
  <2>10. ClosedStay
    <3>1. \A j \in Used(emailPolls) : emailPolls[j].closed => emailPolls'[j] = emailPolls[j]
      BY <2>1, <2>4, <2>5 DEF PollEdit, Used
    <3>2. \A j : polls'[j] = polls[j]
      BY <2>1
    <3> QED BY <3>1, <3>2 DEF ClosedStay
  <2> QED BY <2>8, <2>9, <2>10 DEF PollsInv
<1>4. CASE UNCHANGED pollsVars
  <2>1. polls' = polls /\ emailPolls' = emailPolls
    BY <1>4 DEF pollsVars
  <2> QED BY <2>1 DEF PollsInv, PollsTypeOK, TalliesAddUp, ClosedStay
<1> QED BY <1>2, <1>3, <1>4 DEF PollsNext

-----------------------------------------------------------------------------
(* OutlookSettings.                                                         *)

LEMMA SettingsStart == SettingsInit => SettingsTypeOK
<1> SUFFICES ASSUME SettingsInit PROVE SettingsTypeOK
  OBVIOUS
<1>1. MaxOrigins \in Nat /\ Value # {} /\ Cardinality({}) = 0
  BY SettingsAssumption, FS_EmptySet
<1>2. senders \in SafetyState /\ domains \in SafetyState
  BY <1>1 DEF SettingsInit, SafetyState
<1>3. forwarding \in ForwardingSettings
  BY DEF SettingsInit, ForwardingSettings
<1>4. settings \in [Setting -> Value]
  <2>1. (CHOOSE v \in Value : TRUE) \in Value
    BY <1>1
  <2> HIDE DEF Setting
  <2> QED BY <2>1 DEF SettingsInit
<1>5. archive \in RetentionArchiveState /\ autoReply \in Value \cup {None}
  BY DEF SettingsInit, RetentionArchiveState, ArchivePreference
<1> QED BY <1>2, <1>3, <1>4, <1>5 DEF SettingsTypeOK

(* An origin that is put on one list is taken off the other.                *)
LEMMA ActedSafely ==
  ASSUME NEW s \in SafetyState, NEW action \in SafetyAction, NEW o \in Origin,
         Fits(Acted(s, action, o))
  PROVE  Acted(s, action, o) \in SafetyState
<1>1. s \in [blocked : SUBSET Origin, safe : SUBSET Origin] /\ s.blocked \cap s.safe = {}
  BY DEF SafetyState
<1>2. /\ Acted(s, action, o) \in [blocked : SUBSET Origin, safe : SUBSET Origin]
      /\ Acted(s, action, o).blocked \cap Acted(s, action, o).safe = {}
  <2>1. CASE action = "BLOCK"
    BY <1>1, <2>1 DEF Acted
  <2>2. CASE action = "UNBLOCK"
    BY <1>1, <2>2 DEF Acted
  <2>3. CASE action = "SAFE_ADD"
    BY <1>1, <2>3 DEF Acted
  <2>4. CASE action = "SAFE_REMOVE"
    BY <1>1, <2>4 DEF Acted
  <2> QED BY <2>1, <2>2, <2>3, <2>4 DEF SafetyAction
<1> QED BY <1>2 DEF SafetyState, Fits

LEMMA SettingsKept ==
  SettingsTypeOK /\ [SettingsCall \/ ReplaceCall]_settingsVars => SettingsTypeOK'
<1> SUFFICES ASSUME SettingsTypeOK, [SettingsCall \/ ReplaceCall]_settingsVars
             PROVE  SettingsTypeOK'
  OBVIOUS
<1>1. ASSUME NEW action \in SafetyAction, NEW o \in Origin, SenderSafety(action, o)
      PROVE  SettingsTypeOK'
  <2>1. senders' \in SafetyState
    BY <1>1, ActedSafely DEF SenderSafety, SettingsTypeOK
  <2> QED BY <1>1, <2>1 DEF SenderSafety, SettingsTypeOK
<1>2. ASSUME NEW action \in SafetyAction, NEW o \in Origin, DomainSafety(action, o)
      PROVE  SettingsTypeOK'
  <2>1. domains' \in SafetyState
    BY <1>2, ActedSafely DEF DomainSafety, SettingsTypeOK
  <2> QED BY <1>2, <2>1 DEF DomainSafety, SettingsTypeOK
<1>3. ASSUME NEW desired \in ForwardingSettings, NEW allow \in BOOLEAN, SetForwarding(desired, allow)
      PROVE  SettingsTypeOK'
  BY <1>3 DEF SetForwarding, SettingsTypeOK
<1>4. ASSUME NEW preference \in ArchivePreference, SetArchivePreference(preference)
      PROVE  SettingsTypeOK'
  BY <1>4 DEF SetArchivePreference, SettingsTypeOK, RetentionArchiveState
<1>5. ASSUME NEW desired \in Value \cup {None}, NEW context, SetAutoReply(desired, context)
      PROVE  SettingsTypeOK'
  BY <1>5 DEF SetAutoReply, SettingsTypeOK
<1>6. ASSUME NEW setting \in Setting, NEW value \in Value, Replace(setting, value)
      PROVE  SettingsTypeOK'
  BY <1>6 DEF Replace, SettingsTypeOK
<1>7. CASE SettingsCall
  BY <1>1, <1>2, <1>3, <1>4, <1>5, <1>7 DEF SettingsCall
<1>8. CASE ReplaceCall
  <2>1. \E setting \in Setting, value \in Value : Replace(setting, value)
    BY <1>8 DEF ReplaceCall, Setting, SetUndoSend, SetMailView, SetNotification, SetWorkingContext,
                SetReplyMode, SetOooMessages, SetOooSchedule
  <2> QED BY <1>6, <2>1
<1>9. CASE UNCHANGED settingsVars
  BY <1>9 DEF settingsVars, SettingsTypeOK
<1> QED BY <1>7, <1>8, <1>9

-----------------------------------------------------------------------------
(* OutlookPaging.                                                           *)

(* The place of an item in a listing: the number of items before it.        *)
AheadIn(M, i) == {j \in M : j < i}
Position(M, i) == Cardinality(AheadIn(M, i))

(* Places are numbers.                                                      *)
LEMMA PositionType ==
  ASSUME NEW M, IsFiniteSet(M), NEW i
  PROVE  IsFiniteSet(AheadIn(M, i)) /\ Position(M, i) \in Nat /\ AheadIn(M, i) \subseteq M
<1>1. AheadIn(M, i) \subseteq M
  BY DEF AheadIn
<1> QED BY <1>1, FS_Subset, FS_CardinalityType DEF Position

(* Places are distinct and smaller than the number of items.                *)
LEMMA PositionsDiffer ==
  ASSUME NEW M, IsFiniteSet(M), M \subseteq Nat
  PROVE  /\ \A i, j \in M : Position(M, i) = Position(M, j) => i = j
         /\ Cardinality(M) \in Nat
         /\ \A i \in M : Position(M, i) \in Nat /\ Position(M, i) < Cardinality(M)
<1>1. ASSUME NEW i \in M, NEW j \in M, i < j
      PROVE  Position(M, i) < Position(M, j)
  <2>1. i \in AheadIn(M, j) /\ AheadIn(M, i) \subseteq AheadIn(M, j) \ {i}
    <3>1. i \in Nat /\ \A m \in M : m \in Nat
      OBVIOUS
    <3>2. j \in Nat /\ i \in M /\ i < j
      BY <1>1
    <3>3. ASSUME NEW m \in AheadIn(M, i)
          PROVE  m \in AheadIn(M, j) /\ m # i
      <4>1. m \in M /\ m < i /\ m \in Nat
        BY <3>1 DEF AheadIn
      <4>2. m < j /\ m # i
        BY <3>1, <3>2, <4>1
      <4> QED BY <4>1, <4>2 DEF AheadIn
    <3>4. i \in AheadIn(M, j)
      BY <3>2 DEF AheadIn
    <3> QED BY <3>3, <3>4
  <2>2. IsFiniteSet(AheadIn(M, j))
    BY PositionType
  <2>3. /\ Cardinality(AheadIn(M, i)) + 1 <= Cardinality(AheadIn(M, j))
        /\ Cardinality(AheadIn(M, i)) \in Nat /\ Cardinality(AheadIn(M, j)) \in Nat
    BY <2>1, <2>2, OneLess
  <2> QED BY <2>3 DEF Position
<1>2. ASSUME NEW i \in M
      PROVE  Position(M, i) \in Nat /\ Position(M, i) < Cardinality(M) /\ Cardinality(M) \in Nat
  <2>1. AheadIn(M, i) \subseteq M \ {i}
    BY DEF AheadIn
  <2>2. /\ Cardinality(AheadIn(M, i)) + 1 <= Cardinality(M)
        /\ Cardinality(AheadIn(M, i)) \in Nat /\ Cardinality(M) \in Nat
    BY <2>1, OneLess
  <2> QED BY <2>2 DEF Position
<1>3. ASSUME NEW i \in M, NEW j \in M, Position(M, i) = Position(M, j)
      PROVE  i = j
  <2>1. i \in Nat /\ j \in Nat
    OBVIOUS
  <2>2. ~(i < j) /\ ~(j < i)
    BY <1>1, <1>2, <1>3
  <2> QED BY <2>1, <2>2
<1>4. Cardinality(M) \in Nat
  BY FS_CardinalityType
<1> QED BY <1>2, <1>3, <1>4

(* A set of items whose places lie between two numbers is no larger than    *)
(* their distance.                                                          *)
LEMMA BetweenPlaces ==
  ASSUME NEW M, IsFiniteSet(M), M \subseteq Nat, NEW S, S \subseteq M, NEW a \in Nat, NEW b \in Nat,
         \A i \in S : a <= Position(M, i) /\ Position(M, i) < b
  PROVE  /\ Cardinality(S) \in Nat
         /\ a <= b => a + Cardinality(S) <= b
         /\ b <= a => Cardinality(S) = 0
<1> DEFINE f == [i \in S |-> Position(M, i)]
<1>1. \A i \in S : Position(M, i) \in a..(b - 1)
  <2>1. \A i \in M : Position(M, i) \in Nat
    BY PositionsDiffer
  <2> QED BY <2>1
<1>2. \A i, j \in S : Position(M, i) = Position(M, j) => i = j
  BY PositionsDiffer
<1>3. f \in Injection(S, a..(b - 1))
  BY <1>1, <1>2 DEF Injection, IsInjective
<1>4. IsFiniteSet(a..(b - 1)) /\ Cardinality(a..(b - 1)) = IF a > b - 1 THEN 0 ELSE b - 1 - a + 1
  BY FS_Interval
<1>5. Cardinality(S) <= Cardinality(a..(b - 1))
  <2> HIDE DEF f
  <2> QED BY <1>3, <1>4, FS_Injection
<1>6. Cardinality(S) \in Nat
  BY FS_Subset, FS_CardinalityType
<1> QED BY <1>4, <1>5, <1>6

(* The items before the walk's place that were there all along and that  *)
(* it did not see.                                                          *)
Behind == {i \in stayed \ seen : Cardinality(Ahead(i)) < walk.offset}

PagingInv ==
  /\ PagingTypeOK
  /\ walk.more => Cardinality(Behind) <= removed
  /\ WalksMissOnlyTheShifted

(* What holds of every walk.                                                *)
LEMMA PagingFacts ==
  ASSUME PagingTypeOK
  PROVE  /\ matching \subseteq Nat /\ IsFiniteSet(matching) /\ matching \subseteq Item
         /\ Cardinality(matching) \in Nat /\ Cardinality(Item) \in Nat
         /\ Cardinality(matching) <= Cardinality(Item)
         /\ stayed \subseteq matching /\ IsFiniteSet(stayed) /\ removed \in Nat
         /\ walk.offset \in Nat /\ walk.limit \in Nat /\ walk.more \in BOOLEAN
         /\ walk.offset <= Cardinality(Item)
         /\ \A i : Ahead(i) = AheadIn(matching, i) /\ Cardinality(Ahead(i)) = Position(matching, i)
<1>1. Item \subseteq Nat /\ IsFiniteSet(Item) /\ MaxLimit \in Nat /\ MaxRemovals \in Nat
  BY PagingAssumption
<1>2. matching \subseteq Item /\ stayed \subseteq matching
  BY DEF PagingTypeOK
<1>3. /\ IsFiniteSet(matching) /\ Cardinality(matching) \in Nat /\ Cardinality(Item) \in Nat
      /\ Cardinality(matching) <= Cardinality(Item)
  BY <1>1, <1>2, FS_Subset, FS_CardinalityType
<1>4. IsFiniteSet(stayed)
  BY <1>2, <1>3, FS_Subset
<1>5. /\ removed \in Nat /\ walk.offset \in Nat /\ walk.limit \in Nat /\ walk.more \in BOOLEAN
      /\ walk.offset <= Cardinality(Item)
  BY <1>1, <1>3 DEF PagingTypeOK
<1> QED BY <1>1, <1>2, <1>3, <1>4, <1>5 DEF Ahead, AheadIn, Position

LEMMA PagingStart == PagingInit => PagingInv
<1> SUFFICES ASSUME PagingInit PROVE PagingInv
  OBVIOUS
<1>1. PagingTypeOK
  <2>1. Cardinality(Item) \in Nat /\ MaxRemovals \in Nat
    BY PagingAssumption, FS_CardinalityType
  <2>2. walk \in [offset : 0..Cardinality(Item), limit : 1..MaxLimit, more : BOOLEAN]
    <3>1. 0 \in 0..Cardinality(Item) /\ TRUE \in BOOLEAN
      BY <2>1
    <3>2. walk \in [offset : {0}, limit : 1..MaxLimit, more : {TRUE}]
      BY DEF PagingInit
    <3> QED BY <3>1, <3>2
  <2> QED BY <2>1, <2>2 DEF PagingInit, PagingTypeOK
<1>2. walk.more = TRUE /\ walk.offset = 0 /\ removed = 0
  BY DEF PagingInit
<1>3. Behind = {}
  <2>1. \A i : Position(matching, i) \in Nat
    BY <1>1, PagingFacts, PositionType
  <2>2. \A i : ~(Cardinality(Ahead(i)) < walk.offset)
    BY <1>1, <1>2, <2>1, PagingFacts
  <2> QED BY <2>2 DEF Behind
<1>4. Cardinality(Behind) = 0
  BY <1>3, FS_EmptySet
<1> QED BY <1>1, <1>2, <1>4 DEF PagingInv, WalksMissOnlyTheShifted

(* Reading on moves the walk past the items of its page and no others.      *)
LEMMA ReadingOn ==
  ASSUME PagingInv, ReadPage
  PROVE  PagingInv'
<1> DEFINE page == Page(walk.offset, walk.limit)
           next == walk.offset + Cardinality(page)
<1>1. PagingTypeOK /\ walk.more /\ Cardinality(Behind) <= removed
  BY DEF PagingInv, ReadPage
<1>2. /\ seen' = seen \cup page /\ UNCHANGED <<matching, stayed, removed>>
      /\ walk' = [walk EXCEPT !.offset = next, !.more = next < Cardinality(matching)]
  BY DEF ReadPage, HasMore
<1>3. page = {i \in matching : walk.offset <= Position(matching, i)
                               /\ Position(matching, i) < walk.offset + walk.limit}
  BY <1>1, PagingFacts DEF Page
<1> HIDE DEF page
<1>4. Cardinality(page) \in Nat /\ Cardinality(page) <= walk.limit
  <2>1. /\ Cardinality(page) \in Nat
        /\ walk.offset <= walk.offset + walk.limit =>
             walk.offset + Cardinality(page) <= walk.offset + walk.limit
    <3>1. walk.offset \in Nat /\ walk.limit \in Nat /\ walk.offset + walk.limit \in Nat
      BY <1>1, PagingFacts
    <3>2. matching \subseteq Nat /\ IsFiniteSet(matching) /\ page \subseteq matching
      BY <1>1, <1>3, PagingFacts
    <3>3. \A i \in page : walk.offset <= Position(matching, i)
                          /\ Position(matching, i) < walk.offset + walk.limit
      BY <1>3
    <3> HIDE DEF page
    <3> QED BY <3>1, <3>2, <3>3, BetweenPlaces
  <2> QED BY <1>1, <2>1, PagingFacts
<1>5. next \in 0..Cardinality(Item)
  <2>1. /\ walk.offset <= Cardinality(matching) => walk.offset + Cardinality(page) <= Cardinality(matching)
        /\ Cardinality(matching) <= walk.offset => Cardinality(page) = 0
    <3>1. walk.offset \in Nat /\ Cardinality(matching) \in Nat
      BY <1>1, PagingFacts
    <3>2. matching \subseteq Nat /\ IsFiniteSet(matching) /\ page \subseteq matching
      BY <1>1, <1>3, PagingFacts
    <3>3. \A i \in page : walk.offset <= Position(matching, i)
                          /\ Position(matching, i) < Cardinality(matching)
      BY <1>3, <3>2, PositionsDiffer
    <3> QED BY <3>1, <3>2, <3>3, BetweenPlaces
  <2> QED BY <1>1, <1>4, <2>1, PagingFacts
<1> HIDE DEF next
<1>6. walk'.offset = next /\ walk'.more = (next < Cardinality(matching)) /\ walk'.limit = walk.limit
  BY <1>1, <1>2 DEF PagingTypeOK
<1>7. PagingTypeOK'
  <2>1. walk' \in [offset : 0..Cardinality(Item), limit : 1..MaxLimit, more : BOOLEAN]
    <3>1. walk \in [offset : 0..Cardinality(Item), limit : 1..MaxLimit, more : BOOLEAN]
      BY <1>1 DEF PagingTypeOK
    <3>2. (next < Cardinality(matching)) \in BOOLEAN
      OBVIOUS
    <3> QED BY <1>2, <1>5, <3>1, <3>2
  <2>2. page \subseteq Item
    BY <1>1, <1>3, PagingFacts
  <2> QED BY <1>1, <1>2, <2>1, <2>2 DEF PagingTypeOK
<1>8. \A i \in matching : Position(matching, i) < next =>
                            Position(matching, i) < walk.offset \/ i \in page
  <2>1. \A i \in matching : Position(matching, i) \in Nat
    BY <1>1, PagingFacts, PositionsDiffer
  <2>2. walk.offset \in Nat /\ walk.limit \in Nat
    BY <1>1, PagingFacts
  <2> QED BY <1>3, <1>4, <2>1, <2>2 DEF next
<1>9. {i \in stayed \ seen' : Position(matching, i) < next} \subseteq Behind
  BY <1>1, <1>2, <1>8, PagingFacts DEF Behind
<1>10. Cardinality({i \in stayed \ seen' : Position(matching, i) < next}) <= removed
  <2>1. IsFiniteSet(Behind) /\ Cardinality(Behind) \in Nat
    <3>1. Behind \subseteq stayed
      BY DEF Behind
    <3> QED BY <1>1, <3>1, PagingFacts, FS_Subset, FS_CardinalityType
  <2>2. /\ Cardinality({i \in stayed \ seen' : Position(matching, i) < next}) <= Cardinality(Behind)
        /\ Cardinality({i \in stayed \ seen' : Position(matching, i) < next}) \in Nat
    BY <1>9, <2>1, FS_Subset, FS_CardinalityType
  <2> QED BY <1>1, <2>1, <2>2, PagingFacts
<1>11. Cardinality(Behind') <= removed'
  <2>1. Behind' = {i \in stayed \ seen' : Position(matching, i) < next}
    BY <1>2, <1>6, <1>7 DEF Behind, Ahead, Position, AheadIn
  <2> QED BY <1>2, <1>10, <2>1
<1>12. ASSUME ~walk'.more
       PROVE  Cardinality(stayed' \ seen') <= removed'
  <2>1. ~(next < Cardinality(matching))
    BY <1>6, <1>12
  <2>2. \A i \in stayed : Position(matching, i) < next
    <3>1. \A i \in matching : Position(matching, i) \in Nat /\ Position(matching, i) < Cardinality(matching)
      BY <1>1, PagingFacts, PositionsDiffer
    <3> QED BY <1>1, <1>5, <2>1, <3>1, PagingFacts
  <2>3. stayed' \ seen' = {i \in stayed \ seen' : Position(matching, i) < next}
    BY <1>2, <2>2
  <2> QED BY <1>2, <1>10, <2>3
<1> QED BY <1>7, <1>11, <1>12 DEF PagingInv, WalksMissOnlyTheShifted

(* Taking an item out shifts at most one other to before the walk's place.  *)
LEMMA TakingOut ==
  ASSUME PagingInv, NEW i \in Item, RemoveItem(i)
  PROVE  PagingInv'
<1>1. PagingTypeOK /\ walk.more /\ Cardinality(Behind) <= removed /\ i \in matching
  BY DEF PagingInv, RemoveItem
<1>2. /\ matching' = matching \ {i} /\ stayed' = stayed \ {i} /\ removed' = removed + 1
      /\ removed < MaxRemovals /\ UNCHANGED <<walk, seen>>
  BY DEF RemoveItem
<1>3. PagingTypeOK'
  <2>1. MaxRemovals \in Nat /\ removed \in Nat
    BY <1>1, PagingAssumption, PagingFacts
  <2> QED BY <1>1, <1>2, <2>1 DEF PagingTypeOK
<1> DEFINE new == {j \in stayed' \ seen : Position(matching', j) < walk.offset}
<1>4. Behind' = new
  BY <1>2, <1>3 DEF Behind, Ahead, Position, AheadIn
<1>5. ASSUME NEW j \in new \ Behind
      PROVE  j \in matching /\ Position(matching, j) = walk.offset
  <2>1. j \in stayed /\ j \notin seen /\ j \in matching /\ Position(matching', j) < walk.offset
    BY <1>1, <1>2 DEF PagingTypeOK
  <2>2. ~(Position(matching, j) < walk.offset)
    BY <1>1, <1>5, <2>1, PagingFacts DEF Behind
  <2>3. AheadIn(matching, j) \subseteq AheadIn(matching', j) \cup {i}
    BY <1>2 DEF AheadIn
  <2>4. IsFiniteSet(AheadIn(matching', j)) /\ Position(matching', j) \in Nat
    <3>1. IsFiniteSet(matching')
      BY <1>1, <1>2, PagingFacts, FS_Difference
    <3> QED BY <3>1, PositionType
  <2>5. Cardinality(AheadIn(matching, j)) <= Cardinality(AheadIn(matching', j)) + 1
    BY <2>3, <2>4, OneMore
  <2>6. Position(matching, j) \in Nat /\ walk.offset \in Nat
    BY <1>1, <2>1, PagingFacts, PositionsDiffer
  <2>7. Position(matching, j) <= Position(matching', j) + 1
    BY <2>5 DEF Position
  <2> QED BY <2>1, <2>2, <2>4, <2>6, <2>7
<1>6. \E x : new \subseteq Behind \cup {x}
  <2>1. CASE new \subseteq Behind
    BY <2>1
  <2>2. CASE ~(new \subseteq Behind)
    <3>1. PICK x \in new : x \notin Behind
      BY <2>2
    <3>2. \A j \in new \ Behind : j = x
      <4>1. \A a, b \in matching : Position(matching, a) = Position(matching, b) => a = b
        BY <1>1, PagingFacts, PositionsDiffer
      <4>2. x \in matching /\ Position(matching, x) = walk.offset
        BY <1>5, <3>1
      <4> HIDE DEF new
      <4> QED BY <1>5, <4>1, <4>2
    <3> QED BY <3>2
  <2> QED BY <2>1, <2>2
<1>7. Cardinality(new) <= removed + 1
  <2>1. PICK x : new \subseteq Behind \cup {x}
    BY <1>6
  <2>2. IsFiniteSet(Behind)
    <3>1. Behind \subseteq stayed
      BY DEF Behind
    <3> QED BY <1>1, <3>1, PagingFacts, FS_Subset
  <2> HIDE DEF new
  <2>3. /\ Cardinality(new) <= Cardinality(Behind) + 1
        /\ Cardinality(new) \in Nat /\ Cardinality(Behind) \in Nat
    BY <2>1, <2>2, OneMore
  <2> QED BY <1>1, <2>3, PagingFacts
<1> HIDE DEF new
<1>8. Cardinality(Behind') <= removed'
  BY <1>2, <1>4, <1>7
<1>9. walk'.more
  BY <1>1, <1>2
<1> QED BY <1>3, <1>8, <1>9 DEF PagingInv, WalksMissOnlyTheShifted

(* Putting one in moves the others back, if anything.                       *)
LEMMA PuttingIn ==
  ASSUME PagingInv, NEW i \in Item, InsertItem(i)
  PROVE  PagingInv'
<1>1. PagingTypeOK /\ walk.more /\ Cardinality(Behind) <= removed
  BY DEF PagingInv, InsertItem
<1>2. matching' = matching \cup {i} /\ UNCHANGED <<walk, seen, stayed, removed>>
  BY DEF InsertItem
<1>3. PagingTypeOK'
  BY <1>1, <1>2 DEF PagingTypeOK
<1> DEFINE new == {j \in stayed \ seen : Position(matching', j) < walk.offset}
<1>4. Behind' = new
  BY <1>2, <1>3 DEF Behind, Ahead, Position, AheadIn
<1>5. \A j : /\ Position(matching, j) <= Position(matching', j)
             /\ Position(matching, j) \in Nat /\ Position(matching', j) \in Nat
  <2> SUFFICES ASSUME NEW j
               PROVE  /\ Position(matching, j) <= Position(matching', j)
                      /\ Position(matching, j) \in Nat /\ Position(matching', j) \in Nat
    OBVIOUS
  <2>1. AheadIn(matching, j) \subseteq AheadIn(matching', j)
    BY <1>2 DEF AheadIn
  <2>2. IsFiniteSet(matching')
    BY <1>1, <1>2, PagingFacts, FS_AddElement
  <2>3. IsFiniteSet(AheadIn(matching', j)) /\ Position(matching', j) \in Nat
    BY <2>2, PositionType
  <2>4. Position(matching, j) \in Nat
    BY <1>1, PagingFacts, PositionType
  <2> QED BY <2>1, <2>3, <2>4, FS_Subset DEF Position
<1>6. new \subseteq Behind
  <2>1. ASSUME NEW j \in new
        PROVE  Cardinality(Ahead(j)) < walk.offset
    <3>1. Position(matching', j) < walk.offset /\ walk.offset \in Nat
      BY <1>1, PagingFacts
    <3>2. Position(matching, j) < walk.offset
      BY <1>5, <3>1
    <3> QED BY <1>1, <3>2, PagingFacts
  <2> QED BY <2>1 DEF Behind
<1>7. Cardinality(new) <= removed
  <2>1. IsFiniteSet(Behind)
    <3>1. Behind \subseteq stayed
      BY DEF Behind
    <3> QED BY <1>1, <3>1, PagingFacts, FS_Subset
  <2> HIDE DEF new
  <2>2. Cardinality(new) <= Cardinality(Behind) /\ Cardinality(new) \in Nat /\ Cardinality(Behind) \in Nat
    BY <1>6, <2>1, FS_Subset, FS_CardinalityType
  <2> QED BY <1>1, <2>2, PagingFacts
<1> HIDE DEF new
<1>8. Cardinality(Behind') <= removed' /\ walk'.more
  BY <1>1, <1>2, <1>4, <1>7
<1> QED BY <1>3, <1>8 DEF PagingInv, WalksMissOnlyTheShifted

(* A walk that starts again has nothing behind it.                          *)
LEMMA ListingAgain ==
  ASSUME PagingInv, NEW limit \in 1..MaxLimit, ListAgain(limit)
  PROVE  PagingInv'
<1>1. /\ walk' = [offset |-> 0, limit |-> limit, more |-> TRUE]
      /\ seen' = {} /\ stayed' = matching /\ removed' = 0 /\ matching' = matching
  BY DEF ListAgain
<1>2. PagingTypeOK /\ Cardinality(Item) \in Nat /\ MaxRemovals \in Nat
  BY PagingFacts, PagingAssumption DEF PagingInv
<1>3. PagingTypeOK'
  BY <1>1, <1>2 DEF PagingTypeOK
<1>4. Behind' = {}
  <2>1. \A j : Position(matching, j) \in Nat
    BY <1>2, PagingFacts, PositionType
  <2>2. Behind' = {j \in stayed' \ seen' : Position(matching, j) < 0}
    BY <1>1 DEF Behind, Ahead, Position, AheadIn
  <2>3. \A j : ~(Position(matching, j) < 0)
    BY <2>1
  <2> QED BY <2>2, <2>3
<1>5. Cardinality(Behind') <= removed' /\ walk'.more
  BY <1>1, <1>4, FS_EmptySet
<1> QED BY <1>3, <1>5 DEF PagingInv, WalksMissOnlyTheShifted

LEMMA PagingKept == PagingInv /\ [PagingCall]_pagingVars => PagingInv'
<1> SUFFICES ASSUME PagingInv, [PagingCall]_pagingVars PROVE PagingInv'
  OBVIOUS
<1>1. CASE PagingCall
  BY <1>1, ReadingOn, TakingOut, PuttingIn, ListingAgain DEF PagingCall
<1>2. CASE UNCHANGED pagingVars
  BY <1>2 DEF pagingVars, PagingInv, PagingTypeOK, WalksMissOnlyTheShifted, Behind, Ahead
<1> QED BY <1>1, <1>2

-----------------------------------------------------------------------------
(* OutlookPackage: the areas compose.  A move of one area is a call of its  *)
(* module, or of none, to every module.                                     *)

packageVars == <<area, tasksVars, peopleVars, mailboxVars, rulesVars, draftsVars,
                 calendarVars, pollsVars, settingsVars, pagingVars>>

LEMMA TasksMoveCalls == TasksMove => TasksNext
BY DEF TasksMove, TasksNext, FlagCall

LEMMA PeopleMoveCalls == PeopleMove => PeopleNext
BY DEF PeopleMove, PeopleNext

LEMMA MailboxMoveCalls == MailboxMove => MailboxNext
BY DEF MailboxMove, MailboxNext, MessageCall

LEMMA RulesMoveCalls == RulesMove => RulesNext
BY DEF RulesMove, RulesNext

LEMMA DraftsMoveCalls == DraftsMove => DraftsNext
BY DEF DraftsMove, DraftsNext

LEMMA CalendarMoveCalls == CalendarMove => CalendarNext
<1>1. (CHOOSE desired \in EventRequest : TRUE) \in EventRequest
  BY CalendarAssumption
<1>2. ASSUME NEW e \in Event, DeleteEvent(e) \/ CreateEvent(e, CHOOSE desired \in EventRequest : TRUE)
      PROVE  AppointmentCall
  BY <1>1, <1>2 DEF AppointmentCall
<1> QED BY <1>2 DEF CalendarMove, CalendarNext

LEMMA PollsMoveCalls == PollsMove => PollsNext
BY DEF PollsMove, PollsNext

(* A move of an area is a step of every module.                             *)
LEMMA AreasMove ==
  ASSUME [OutlookNext]_packageVars
  PROVE  /\ [TasksNext]_tasksVars /\ [PeopleNext]_peopleVars /\ [MailboxNext]_mailboxVars
         /\ [RulesNext]_rulesVars /\ [DraftsNext]_draftsVars /\ [CalendarNext]_calendarVars
         /\ [PollsNext]_pollsVars /\ [SettingsCall \/ ReplaceCall]_settingsVars
         /\ [PagingCall]_pagingVars
<1>1. CASE UNCHANGED packageVars
  BY <1>1 DEF packageVars
<1>2. CASE TasksMove
  BY <1>2, TasksMoveCalls DEF TasksMove
<1>3. CASE PeopleMove
  BY <1>3, PeopleMoveCalls DEF PeopleMove
<1>4. CASE MailboxMove
  BY <1>4, MailboxMoveCalls DEF MailboxMove
<1>5. CASE RulesMove
  BY <1>5, RulesMoveCalls DEF RulesMove
<1>6. CASE DraftsMove
  BY <1>6, DraftsMoveCalls DEF DraftsMove
<1>7. CASE CalendarMove
  BY <1>7, CalendarMoveCalls DEF CalendarMove
<1>8. CASE PollsMove
  BY <1>8, PollsMoveCalls DEF PollsMove
<1>9. CASE SettingsMove
  BY <1>9 DEF SettingsMove
<1>10. CASE PagingMove
  BY <1>10 DEF PagingMove
<1> QED BY <1>1, <1>2, <1>3, <1>4, <1>5, <1>6, <1>7, <1>8, <1>9, <1>10 DEF OutlookNext

(* The invariant of the package is that of its modules.                     *)
OutlookInv ==
  /\ TasksTypeOK /\ PeopleTypeOK /\ MailboxInv /\ RulesInv /\ DraftsInv
  /\ CalendarInv /\ PollsInv /\ SettingsTypeOK /\ PagingInv

LEMMA OutlookStart == OutlookInit => OutlookInv
BY TasksStart, PeopleStart, MailboxStart, RulesStart, DraftsStart, CalendarStart, PollsStart,
   SettingsStart, PagingStart DEF OutlookInit, OutlookInv

(* Every step of the package keeps the invariant and what is promised of a  *)
(* step.                                                                    *)
LEMMA OutlookKept ==
  OutlookInv /\ [OutlookNext]_packageVars =>
    /\ OutlookInv'
    /\ OrphansStay /\ SchedulesStay /\ CompletedStay /\ KeysStay /\ CompletionsStay
    /\ GoneContactsStay /\ MembersStay /\ MarksStay
    /\ OrdersKept /\ DeletionStays /\ OutboundStays
    /\ DraftsStay /\ OptionsStay /\ ClosedStay
<1> SUFFICES ASSUME OutlookInv, [OutlookNext]_packageVars
             PROVE  /\ OutlookInv'
                    /\ OrphansStay /\ SchedulesStay /\ CompletedStay /\ KeysStay /\ CompletionsStay
                    /\ GoneContactsStay /\ MembersStay /\ MarksStay
                    /\ OrdersKept /\ DeletionStays /\ OutboundStays
                    /\ DraftsStay /\ OptionsStay /\ ClosedStay
  OBVIOUS
<1>1. /\ [TasksNext]_tasksVars /\ [PeopleNext]_peopleVars /\ [MailboxNext]_mailboxVars
      /\ [RulesNext]_rulesVars /\ [DraftsNext]_draftsVars /\ [CalendarNext]_calendarVars
      /\ [PollsNext]_pollsVars /\ [SettingsCall \/ ReplaceCall]_settingsVars
      /\ [PagingCall]_pagingVars
  BY AreasMove
<1>2. /\ TasksTypeOK /\ PeopleTypeOK /\ MailboxInv /\ RulesInv /\ DraftsInv
      /\ CalendarInv /\ PollsInv /\ SettingsTypeOK /\ PagingInv
  BY DEF OutlookInv
<1>3. TasksTypeOK' /\ OrphansStay /\ SchedulesStay /\ CompletedStay /\ KeysStay /\ CompletionsStay
  BY <1>1, <1>2, TasksKept, OrphanSteps, ScheduleSteps, CompletedSteps, KeySteps, CompletionSteps
<1>4. PeopleTypeOK' /\ GoneContactsStay /\ MembersStay
  BY <1>1, <1>2, PeopleKept, PeopleSteps
<1>5. MailboxInv' /\ MarksStay
  <2>1. MailboxTypeOK
    BY <1>2 DEF MailboxInv
  <2> QED BY <1>1, <1>2, <2>1, MailboxKept, MailboxSteps
<1>6. RulesInv' /\ OrdersKept /\ DeletionStays /\ OutboundStays
  BY <1>1, <1>2, RulesKept
<1>7. DraftsInv' /\ DraftsStay
  BY <1>1, <1>2, DraftsKept
<1>8. CalendarInv' /\ OptionsStay
  BY <1>1, <1>2, CalendarKept
<1>9. PollsInv' /\ ClosedStay
  BY <1>1, <1>2, PollsKept
<1>10. SettingsTypeOK' /\ PagingInv'
  BY <1>1, <1>2, SettingsKept, PagingKept
<1>11. OutlookInv'
  BY <1>3, <1>4, <1>5, <1>6, <1>7, <1>8, <1>9, <1>10 DEF OutlookInv
<1> QED BY <1>3, <1>4, <1>5, <1>6, <1>7, <1>8, <1>9, <1>11

(* The invariant holds in every behaviour.                                  *)
LEMMA OutlookInductive == OutlookSpec => []OutlookInv
<1>1. OutlookInv /\ [OutlookNext]_packageVars => OutlookInv'
  BY OutlookKept
<1> QED BY OutlookStart, <1>1, PTL DEF OutlookSpec, packageVars

(* Whatever calls come in whatever order, every record of every catalog is  *)
(* one the package's constructors accept and no catalog outgrows its bound. *)
THEOREM TypesHold == OutlookSpec => []OutlookTypeOK
<1>1. OutlookInv => OutlookTypeOK
  BY DEF OutlookInv, OutlookTypeOK, MailboxInv, RulesInv, DraftsInv, CalendarInv, PollsInv, PagingInv
<1> QED BY <1>1, OutlookInductive, PTL

(* What one catalog says of another is true after every call: no dangling   *)
(* folder or category, folders without cycles, orders 1 to n, votes only    *)
(* for options on offer, senders and delegates within what was authorized.  *)
THEOREM CatalogsStayInStep == OutlookSpec => []CatalogsAgree
<1>1. OutlookInv => CatalogsAgree
  <2> SUFFICES ASSUME OutlookInv PROVE CatalogsAgree
    OBVIOUS
  <2>1. NothingDangles /\ FoldersFormTrees
    BY DEF OutlookInv, MailboxInv
  <2>2. OrdersStayContiguous
    BY OrdersHold DEF OutlookInv
  <2>3. TalliesAddUp /\ SendersAreAuthorized /\ DelegatesAreBounded
    BY DEF OutlookInv, PollsInv, DraftsInv, CalendarInv
  <2> QED BY <2>1, <2>2, <2>3 DEF CatalogsAgree
<1> QED BY <1>1, OutlookInductive, PTL

(* Three layers of calendar reads offer exactly the slots free of events,   *)
(* and a walk from page to page misses no more of what was there all along  *)
(* than was taken out under it.                                             *)
THEOREM ReadsLoseNothing == OutlookSpec => []ReadsAreExact
<1>1. OutlookInv => ReadsAreExact
  BY SlotsHold DEF OutlookInv, ReadsAreExact, CalendarInv, PagingInv
<1> QED BY <1>1, OutlookInductive, PTL

(* What a deleted task, contact or event leaves behind under its key no     *)
(* call of any module changes until the key is used again.                  *)
THEOREM OrphansStayAsTheyAre == OutlookSpec => DeletedKeysAreFrozen
<1>1. OutlookInv /\ [OutlookNext]_packageVars =>
        [\A t \in Task : t \notin Tasks /\ t \notin Tasks' => KeptFor(t)' = KeptFor(t)]_tasksVars
  BY OutlookKept DEF OrphansStay
<1>2. OutlookInv /\ [OutlookNext]_packageVars =>
        [\A p \in Person : contacts[p] = None /\ contacts[p]' = None =>
           /\ preferences[p]' = preferences[p]
           /\ \A l \in Used(lists) :
                lists[l]' # None => (p \in lists[l]'.members <=> p \in lists[l].members)]_peopleVars
  BY OutlookKept DEF GoneContactsStay
<1>3. OutlookInv /\ [OutlookNext]_packageVars =>
        [\A e \in Event : events[e] = None /\ events[e]' = None =>
           options[e]' = options[e]]_calendarVars
  BY OutlookKept DEF OptionsStay
<1>4. OutlookSpec => OrphansAreFrozen
  BY <1>1, OutlookInductive, PTL DEF OutlookSpec, packageVars, OrphansAreFrozen
<1>5. OutlookSpec => GoneContactsAreFrozen
  BY <1>2, OutlookInductive, PTL DEF OutlookSpec, packageVars, GoneContactsAreFrozen
<1>6. OutlookSpec => GoneEventsAreFrozen
  BY <1>3, OutlookInductive, PTL DEF OutlookSpec, packageVars, GoneEventsAreFrozen
<1> QED BY <1>4, <1>5, <1>6 DEF DeletedKeysAreFrozen

(* A completed task is not reopened, a completed follow-up keeps its day    *)
(* and a closed poll all it held, whichever call comes.                     *)
THEOREM CompletedIsFinal == OutlookSpec => FinalStaysFinal
<1>1. OutlookInv /\ [OutlookNext]_packageVars =>
        [\A t \in Tasks :
           tasks[t].state = "COMPLETED" /\ t \in Tasks' =>
             tasks[t]'.state = "COMPLETED" /\ (focus[t]'.my_day => focus[t].my_day)]_tasksVars
  BY OutlookKept DEF CompletedStay
<1>2. OutlookInv /\ [OutlookNext]_packageVars =>
        [\A m \in Message : flags[m] # None /\ flags[m].state = "COMPLETED" =>
           flags[m]' \in {None, flags[m]}]_tasksVars
  BY OutlookKept DEF CompletionsStay
<1>3. OutlookInv /\ [OutlookNext]_packageVars =>
        [/\ \A k \in Used(polls) : polls[k].closed => polls[k]' = polls[k]
         /\ \A k \in Used(emailPolls) : emailPolls[k].closed => emailPolls[k]' = emailPolls[k]]_pollsVars
  BY OutlookKept DEF ClosedStay
<1>4. OutlookSpec => CompletedStaysCompleted
  BY <1>1, OutlookInductive, PTL DEF OutlookSpec, packageVars, CompletedStaysCompleted
<1>5. OutlookSpec => CompletionIsFixed
  BY <1>2, OutlookInductive, PTL DEF OutlookSpec, packageVars, CompletionIsFixed
<1>6. OutlookSpec => ClosedPollsAreFinal
  BY <1>3, OutlookInductive, PTL DEF OutlookSpec, packageVars, ClosedPollsAreFinal
<1> QED BY <1>4, <1>5, <1>6 DEF FinalStaysFinal

(* A call edits one facet of one draft, takes one member off a list, moves  *)
(* one entry of an order; it never moves a key to another task, nor parts   *)
(* the two copies of a due day.                                             *)
THEOREM EditsAreLocal == OutlookSpec => CallsAreLocal
<1>1. OutlookInv /\ [OutlookNext]_packageVars =>
        [Cardinality({f \in Used(drafts) \X (1..9) :
                        /\ drafts[f[1]]' # None
                        /\ Facets(drafts[f[1]])[f[2]] # Facets(drafts[f[1]]')[f[2]]}) <= 1]_draftsVars
  BY OutlookKept DEF DraftsStay, Edited
<1>2. OutlookInv /\ [OutlookNext]_packageVars =>
        [\A l \in Used(lists) : lists[l]' # None =>
           Cardinality(lists[l].members \ lists[l]'.members) <= 1]_peopleVars
  BY OutlookKept DEF MembersStay
<1>3. OutlookInv /\ [OutlookNext]_packageVars =>
        [/\ KeepsOthersInOrder(rules, rules', Rule)
         /\ KeepsOthersInOrder(formats, formats', Format)
         /\ KeepsOthersInOrder(quick, quick', QuickStep)]_rulesVars
  BY OutlookKept DEF OrdersKept, KeepsAllBut, KeepsOthersInOrder
<1>4. OutlookInv /\ [OutlookNext]_packageVars =>
        [/\ \A s \in Used(steps) : steps[s]' # None => steps[s]'.task = steps[s].task
         /\ \A a \in Used(attachments) :
              attachments[a]' # None => attachments[a]'.task = attachments[a].task
         /\ \A m \in Message : links[m] # None => links[m]' \in {None, links[m]}]_tasksVars
  BY OutlookKept DEF KeysStay
<1>5. OutlookInv /\ [OutlookNext]_packageVars =>
        [\A t \in Task :
           t \in Tasks /\ t \in Tasks' /\ schedules[t] # None /\ schedules[t].due = tasks[t].due
             => schedules[t]' = None \/ schedules[t]'.due = tasks[t]'.due]_tasksVars
  BY OutlookKept DEF SchedulesStay
<1>6. OutlookSpec => EditsKeepTheRest
  BY <1>1, OutlookInductive, PTL DEF OutlookSpec, packageVars, EditsKeepTheRest
<1>7. OutlookSpec => MembersLeaveOneByOne
  BY <1>2, OutlookInductive, PTL DEF OutlookSpec, packageVars, MembersLeaveOneByOne
<1>8. OutlookSpec => OthersKeepTheirOrder
  BY <1>3, OutlookInductive, PTL DEF OutlookSpec, packageVars, OthersKeepTheirOrder
<1>9. OutlookSpec => KeysKeepTheirTask
  BY <1>4, OutlookInductive, PTL DEF OutlookSpec, packageVars, KeysKeepTheirTask
<1>10. OutlookSpec => ScheduleAgrees
  BY <1>5, OutlookInductive, PTL DEF OutlookSpec, packageVars, ScheduleAgrees
<1> QED BY <1>6, <1>7, <1>8, <1>9, <1>10 DEF CallsAreLocal

(* Nothing that deletes mail comes to be without an allowance, a quick step *)
(* that replies or forwards changes no message, and no message passes from  *)
(* pinned to snoozed in one call.                                           *)
THEOREM EffectsNeedTheirCall == OutlookSpec => EffectsAreAllowed
<1>1. OutlookInv /\ [OutlookNext]_packageVars =>
        [(Destructive' \subseteq Destructive /\ mail.deleted' = mail.deleted) \/ allowed']_rulesVars
  BY OutlookKept DEF DeletionStays
<1>2. OutlookInv /\ [OutlookNext]_packageVars =>
        [mail' # mail => \E k \in Used(quick) :
           ~Outbound(quick[k].actions) /\ mail' = Applied(mail, quick[k].actions)]_rulesVars
  BY OutlookKept DEF OutboundStays
<1>3. OutlookInv /\ [OutlookNext]_packageVars =>
        [\A m \in Message : ~(Pinned(m) /\ Snoozed(m)') /\ ~(Snoozed(m) /\ Pinned(m)')]_mailboxVars
  BY OutlookKept DEF MarksStay
<1>4. OutlookSpec => DeletionIsAllowed
  BY <1>1, OutlookInductive, PTL DEF OutlookSpec, packageVars, DeletionIsAllowed
<1>5. OutlookSpec => OutboundChangesNothing
  BY <1>2, OutlookInductive, PTL DEF OutlookSpec, packageVars, OutboundChangesNothing
<1>6. OutlookSpec => NoImplicitTransition
  BY <1>3, OutlookInductive, PTL DEF OutlookSpec, packageVars, NoImplicitTransition
<1> QED BY <1>4, <1>5, <1>6 DEF EffectsAreAllowed
=============================================================================
