------------------------ MODULE WorkerServiceProofs ------------------------
(***************************************************************************)
(* First the executor alone, for any finite set of requests and any        *)
(* max_queue: it never runs two operations at once, never leaks an         *)
(* admission, never loses a wake-up of its lock and hands the lock to one  *)
(* waiter at a time.  The four hold together: each is needed to show that  *)
(* a step keeps another.                                                   *)
(*                                                                         *)
(* Then the read service, which keeps every promise of the executor it is  *)
(* built on, because each of its steps is a step of the executor or leaves *)
(* it alone.  What it adds is one conjunct: a typed operation that has a   *)
(* page is the one at work, which the executor's exclusion then makes the  *)
(* only one.                                                               *)
(***************************************************************************)
EXTENDS WorkerService, FiniteSetTheorems, SequenceTheorems, TLAPS

-----------------------------------------------------------------------------
(* Taking one element out of a sequence keeps the others, in their order.  *)

LEMMA RemoveAtProperties ==
  ASSUME NEW S, NEW s \in Seq(S), NEW i \in 1..Len(s)
  PROVE  /\ RemoveAt(s, i) \in Seq(S)
         /\ Len(RemoveAt(s, i)) = Len(s) - 1
         /\ \A j \in 1..(Len(s) - 1) :
              RemoveAt(s, i)[j] = IF j < i THEN s[j] ELSE s[j + 1]
<1> DEFINE front == SubSeq(s, 1, i - 1)
           back  == SubSeq(s, i + 1, Len(s))
<1>1. Len(s) \in Nat /\ i \in Nat /\ i >= 1 /\ i <= Len(s)
  OBVIOUS
<1>2. /\ front \in Seq(S)
      /\ Len(front) = i - 1
      /\ \A j \in 1..(i - 1) : front[j] = s[j]
  BY <1>1, SubSeqProperties
<1>3. /\ back \in Seq(S)
      /\ Len(back) = Len(s) - i
      /\ \A j \in 1..(Len(s) - i) : back[j] = s[i + j]
  BY <1>1, SubSeqProperties
<1> HIDE DEF front, back
<1>4. /\ front \o back \in Seq(S)
      /\ Len(front \o back) = Len(front) + Len(back)
      /\ \A j \in 1..(Len(front) + Len(back)) :
           (front \o back)[j] = IF j <= Len(front) THEN front[j] ELSE back[j - Len(front)]
  BY <1>2, <1>3, ConcatProperties
<1>5. Len(front) + Len(back) = Len(s) - 1
  BY <1>1, <1>2, <1>3
<1>6. ASSUME NEW j \in 1..(Len(s) - 1)
      PROVE  (front \o back)[j] = IF j < i THEN s[j] ELSE s[j + 1]
  <2>1. CASE j < i
    <3>1. j \in 1..(i - 1) /\ j <= Len(front)
      BY <2>1, <1>1, <1>2
    <3> QED BY <2>1, <3>1, <1>2, <1>4, <1>5
  <2>2. CASE ~(j < i)
    <3>1. /\ j - (i - 1) \in 1..(Len(s) - i)
          /\ ~(j <= Len(front))
          /\ ~(j < i)
          /\ i + (j - (i - 1)) = j + 1
      BY <2>2, <1>1, <1>2
    <3>2. (front \o back)[j] = back[j - (i - 1)]
      BY <3>1, <1>2, <1>4, <1>5
    <3>3. back[j - (i - 1)] = s[i + (j - (i - 1))]
      BY <3>1, <1>3
    <3> QED BY <3>1, <3>2, <3>3
  <2> QED BY <2>1, <2>2
<1>7. front \o back = RemoveAt(s, i)
  BY DEF RemoveAt, front, back
<1> QED BY <1>4, <1>5, <1>6, <1>7

-----------------------------------------------------------------------------
(* _wake_up_first() touches one future at most, the oldest waiter's, and   *)
(* leaves it done; it neither creates nor drops a future.                  *)

LEMMA WakeFirstProperties ==
  ASSUME NEW f \in [Requests -> FutureState], NEW q \in Seq(Requests)
  PROVE  /\ WakeFirst(f, q) \in [Requests -> FutureState]
         /\ \A r \in Requests : WakeFirst(f, q)[r] = "none" <=> f[r] = "none"
         /\ \A r \in Requests : (q = <<>> \/ r # q[1]) => WakeFirst(f, q)[r] = f[r]
         /\ q # <<>> => WakeFirst(f, q)[q[1]] # "pending"
<1>1. CASE q = <<>>
  BY <1>1 DEF WakeFirst
<1>2. CASE q # <<>>
  <2>1. q[1] \in Requests /\ Head(q) = q[1]
    BY <1>2
  <2> QED BY <1>2, <2>1 DEF WakeFirst, FutureState
<1> QED BY <1>1, <1>2

(* The tasks inside execute() are counted by one more when one enters, one *)
(* less when one leaves, and the same when one goes from queue to work.    *)

LEMMA InsideIsFinite ==
  /\ IsFiniteSet(Inside)
  /\ Cardinality(Inside) \in Nat
BY RequestsAssumption, FS_Subset, FS_CardinalityType DEF Inside

LEMMA Entering ==
  ASSUME TypeOK, NEW r \in Requests, pc[r] = "idle",
         NEW x \in {"waiting", "working"}, pc' = [pc EXCEPT ![r] = x]
  PROVE  Cardinality(Inside') = Cardinality(Inside) + 1
<1>1. r \notin Inside /\ Inside' = Inside \union {r}
  BY DEF TypeOK, Inside
<1> QED BY <1>1, InsideIsFinite, FS_AddElement

LEMMA Leaving ==
  ASSUME TypeOK, NEW r \in Requests, pc[r] # "idle",
         pc' = [pc EXCEPT ![r] = "idle"]
  PROVE  /\ Cardinality(Inside') = Cardinality(Inside) - 1
         /\ Cardinality(Inside) >= 1
<1>1. r \in Inside /\ Inside' = Inside \ {r}
  BY DEF TypeOK, Inside
<1>2. Cardinality(Inside \ {r}) = Cardinality(Inside) - 1
  BY <1>1, InsideIsFinite, FS_RemoveElement
<1>3. Cardinality(Inside) # 0
  BY <1>1, InsideIsFinite, FS_EmptySet
<1> QED BY <1>1, <1>2, <1>3, InsideIsFinite

LEMMA Staying ==
  ASSUME TypeOK, NEW r \in Requests, pc[r] = "waiting",
         pc' = [pc EXCEPT ![r] = "working"]
  PROVE  Cardinality(Inside') = Cardinality(Inside)
<1>1. Inside' = Inside
  BY DEF TypeOK, Inside
<1> QED BY <1>1

-----------------------------------------------------------------------------
(* The inductive invariant.                                                *)

IInv ==
  /\ TypeOK
  /\ MutualExclusion
  /\ AdmissionsAccountedFor
  /\ NoLostWakeup
  /\ HandoverIsExclusive

LEMMA InitEstablishes == Init => IInv
<1> SUFFICES ASSUME Init PROVE IInv
  OBVIOUS
<1> USE DEF Init
<1>1. TypeOK
  <2>1. waiters \in Seq(Requests)
    BY EmptySeq
  <2>2. admitted \in 0..capacity
    BY MaxQueueAssumption DEF capacity
  <2> QED BY <2>1, <2>2 DEF TypeOK, FutureState
<1>2. MutualExclusion
  BY DEF MutualExclusion, Working
<1>3. AdmissionsAccountedFor
  <2>1. Cardinality(Inside) = 0
    <3>1. Inside = {}
      BY DEF Inside
    <3> QED BY <3>1, FS_EmptySet
  <2>2. DOMAIN waiters = {}
    BY EmptySeq, LenProperties
  <2> QED BY <2>1, <2>2 DEF AdmissionsAccountedFor
<1>4. NoLostWakeup /\ HandoverIsExclusive
  BY DEF NoLostWakeup, HandoverIsExclusive
<1> QED BY <1>1, <1>2, <1>3, <1>4 DEF IInv

LEMMA ExecuteAtOnceKeeps ==
  ASSUME IInv, NEW r \in Requests, ExecuteAtOnce(r)
  PROVE  IInv'
<1> USE DEF IInv, ExecuteAtOnce
<1>1. TypeOK'
  BY MaxQueueAssumption DEF TypeOK, CanAdmit, capacity
<1>2. MutualExclusion'
  <2>1. Working = {}
    BY DEF MutualExclusion, FreeForNewcomer
  <2>2. Working' = {r}
    BY <2>1 DEF TypeOK, Working
  <2> QED BY <2>2 DEF MutualExclusion
<1>3. AdmissionsAccountedFor'
  <2>1. admitted' = Cardinality(Inside')
    BY Entering DEF AdmissionsAccountedFor
  <2> QED BY <2>1 DEF AdmissionsAccountedFor, TypeOK
<1>4. NoLostWakeup'
  BY DEF NoLostWakeup
<1>5. HandoverIsExclusive'
  <2>1. \A i \in DOMAIN waiters : waiters[i] \in ToSet(waiters)
    BY DEF ToSet, TypeOK
  <2> QED BY <2>1 DEF HandoverIsExclusive, FreeForNewcomer
<1> QED BY <1>1, <1>2, <1>3, <1>4, <1>5

LEMMA ExecuteWaitsKeeps ==
  ASSUME IInv, NEW r \in Requests, ExecuteWaits(r)
  PROVE  IInv'
<1> USE DEF IInv, ExecuteWaits
<1> DEFINE n == Len(waiters)
<1>1. TypeOK'
  BY MaxQueueAssumption DEF TypeOK, CanAdmit, capacity, FutureState
<1>2. /\ DOMAIN waiters = 1..n /\ DOMAIN waiters' = 1..(n + 1) /\ n \in Nat
      /\ \A i \in 1..n : waiters'[i] = waiters[i]
      /\ waiters'[n + 1] = r
  BY DEF TypeOK
<1>3. \A i \in 1..n : waiters[i] # r
  BY <1>2 DEF AdmissionsAccountedFor
<1>4. \A i \in 1..n : future'[waiters'[i]] = future[waiters[i]]
  BY <1>2, <1>3 DEF TypeOK
<1>5. MutualExclusion'
  <2>1. Working' = Working
    BY DEF TypeOK, Working
  <2> QED BY <2>1 DEF MutualExclusion
<1>6. AdmissionsAccountedFor'
  <2>1. admitted' = Cardinality(Inside')
    BY Entering DEF AdmissionsAccountedFor
  <2>2. ASSUME NEW s \in Requests
        PROVE  pc'[s] = "waiting" <=> (\E i \in DOMAIN waiters' : waiters'[i] = s)
    <3>1. CASE s = r
      BY <3>1, <1>2 DEF TypeOK
    <3>2. CASE s # r
      <4>1. pc'[s] = pc[s]
        BY <3>2 DEF TypeOK
      <4>2. (\E i \in DOMAIN waiters' : waiters'[i] = s) <=> (\E i \in DOMAIN waiters : waiters[i] = s)
        BY <3>2, <1>2
      <4> QED BY <4>1, <4>2 DEF AdmissionsAccountedFor
    <3> QED BY <3>1, <3>2
  <2>3. \A i, j \in DOMAIN waiters' : waiters'[i] = waiters'[j] => i = j
    BY <1>2, <1>3 DEF AdmissionsAccountedFor
  <2>4. \A s \in Requests : pc'[s] = "waiting" <=> (future'[s] # "none")
    BY DEF AdmissionsAccountedFor, TypeOK
  <2> QED BY <2>1, <2>2, <2>3, <2>4 DEF AdmissionsAccountedFor
<1>7. NoLostWakeup'
  <2> SUFFICES ASSUME ~locked' PROVE future'[Head(waiters')] # "pending"
    BY DEF NoLostWakeup
  <2>1. n >= 1
    <3>1. PICK w \in ToSet(waiters) : future[w] # "cancelled"
      BY DEF FreeForNewcomer
    <3>2. n # 0
      BY <3>1 DEF ToSet, TypeOK
    <3> QED BY <3>2, <1>2
  <2>2. Head(waiters') = waiters'[1] /\ Head(waiters) = waiters[1] /\ waiters # <<>>
    BY <2>1, <1>2 DEF TypeOK
  <2> QED BY <2>1, <2>2, <1>2, <1>4 DEF NoLostWakeup
<1>8. HandoverIsExclusive'
  <2>1. future'[waiters'[n + 1]] = "pending"
    BY <1>2 DEF TypeOK
  <2> QED BY <2>1, <1>2, <1>4 DEF HandoverIsExclusive
<1> QED BY <1>1, <1>5, <1>6, <1>7, <1>8
(* A task that leaves the lock's queue leaves it once; the others stay in  *)
(* their order, and the oldest one is still the oldest unless it left.     *)
LEMMA LeavingQueue ==
  ASSUME TypeOK, AdmissionsAccountedFor, NEW r \in Requests, LeaveQueue(r)
  PROVE  /\ waiters' \in Seq(Requests)
         /\ Len(waiters') = Len(waiters) - 1
         /\ \A s \in Requests : (\E i \in DOMAIN waiters' : waiters'[i] = s)
              <=> s # r /\ \E i \in DOMAIN waiters : waiters[i] = s
         /\ \A i, j \in DOMAIN waiters' : waiters'[i] = waiters'[j] => i = j
         /\ waiters[1] = r \/ (waiters' # <<>> => waiters'[1] = waiters[1])
         /\ \A i \in DOMAIN waiters' : \E j \in DOMAIN waiters :
              waiters'[i] = waiters[j] /\ waiters'[i] # r /\ (j = 1 => i = 1)
<1> DEFINE n == Len(waiters)
<1>1. PICK k \in DOMAIN waiters : waiters[k] = r /\ waiters' = RemoveAt(waiters, k)
  BY DEF LeaveQueue
<1>2. waiters \in Seq(Requests) /\ n \in Nat /\ DOMAIN waiters = 1..n /\ k \in 1..n
  BY <1>1 DEF TypeOK
<1>3. /\ waiters' \in Seq(Requests)
      /\ Len(waiters') = n - 1
      /\ \A j \in 1..(n - 1) : waiters'[j] = IF j < k THEN waiters[j] ELSE waiters[j + 1]
  BY <1>1, <1>2, RemoveAtProperties
<1>4. DOMAIN waiters' = 1..(n - 1)
  BY <1>3
<1>5. \A i, j \in 1..n : waiters[i] = waiters[j] => i = j
  BY <1>2 DEF AdmissionsAccountedFor
<1> HIDE DEF n
<1>6. ASSUME NEW i \in 1..(n - 1)
      PROVE  \E j \in 1..n : waiters'[i] = waiters[j] /\ j # k /\ (j = 1 => i = 1)
                            /\ (i < k => j = i) /\ (~(i < k) => j = i + 1)
  <2>1. CASE i < k
    BY <2>1, <1>2, <1>3
  <2>2. CASE ~(i < k)
    <3>1. i + 1 \in 1..n /\ i + 1 # k /\ i + 1 # 1
      BY <2>2, <1>2
    <3> QED BY <3>1, <2>2, <1>3
  <2> QED BY <2>1, <2>2
<1>7. ASSUME NEW j \in 1..n, j # k
      PROVE  \E i \in 1..(n - 1) : waiters'[i] = waiters[j]
  <2>1. CASE j < k
    <3>1. j \in 1..(n - 1)
      BY <2>1, <1>2
    <3> QED BY <3>1, <2>1, <1>3
  <2>2. CASE ~(j < k)
    <3>1. j - 1 \in 1..(n - 1) /\ ~(j - 1 < k) /\ (j - 1) + 1 = j
      BY <2>2, <1>2, <1>7
    <3> QED BY <3>1, <1>3
  <2> QED BY <2>1, <2>2
<1>8. ASSUME NEW s \in Requests
      PROVE  (\E i \in DOMAIN waiters' : waiters'[i] = s)
               <=> s # r /\ \E i \in DOMAIN waiters : waiters[i] = s
  <2>1. ASSUME NEW i \in 1..(n - 1), waiters'[i] = s
        PROVE  s # r /\ \E j \in 1..n : waiters[j] = s
    BY <2>1, <1>1, <1>2, <1>5, <1>6
  <2>2. ASSUME s # r, NEW j \in 1..n, waiters[j] = s
        PROVE  \E i \in 1..(n - 1) : waiters'[i] = s
    BY <2>2, <1>1, <1>7
  <2> QED BY <2>1, <2>2, <1>2, <1>4
<1>9. ASSUME NEW i \in 1..(n - 1), NEW j \in 1..(n - 1), waiters'[i] = waiters'[j]
      PROVE  i = j
  BY <1>9, <1>2, <1>5, <1>6
<1>10. waiters[1] = r \/ (waiters' # <<>> => waiters'[1] = waiters[1])
  <2> SUFFICES ASSUME waiters[1] # r, waiters' # <<>> PROVE waiters'[1] = waiters[1]
    OBVIOUS
  <2>1. 1 < k
    BY <1>1, <1>2
  <2>2. 1 \in 1..(n - 1)
    BY <2>1, <1>2
  <2> QED BY <2>1, <2>2, <1>3
<1>11. ASSUME NEW i \in 1..(n - 1)
       PROVE  \E j \in 1..n : waiters'[i] = waiters[j] /\ waiters'[i] # r /\ (j = 1 => i = 1)
  BY <1>1, <1>2, <1>5, <1>6
<1>12. Len(waiters') = Len(waiters) - 1
  BY <1>3 DEF n
<1>13. \A i, j \in DOMAIN waiters' : waiters'[i] = waiters'[j] => i = j
  BY <1>4, <1>9
<1>14. \A i \in DOMAIN waiters' : \E j \in DOMAIN waiters :
         waiters'[i] = waiters[j] /\ waiters'[i] # r /\ (j = 1 => i = 1)
  BY <1>2, <1>4, <1>11
<1> QED BY <1>3, <1>8, <1>10, <1>12, <1>13, <1>14

LEMMA ResumeKeeps ==
  ASSUME IInv, NEW r \in Requests, Resume(r)
  PROVE  IInv'
<1> USE DEF IInv, Resume
<1>1. TypeOK'
  BY LeavingQueue DEF TypeOK, FutureState
<1>2. PICK k \in DOMAIN waiters : waiters[k] = r
  BY DEF LeaveQueue
<1>3. k = 1 /\ ~locked
  BY <1>2 DEF HandoverIsExclusive
<1>4. MutualExclusion'
  <2>1. Working = {}
    BY <1>3 DEF MutualExclusion
  <2>2. Working' = {r}
    BY <2>1 DEF TypeOK, Working
  <2> QED BY <2>2 DEF MutualExclusion
<1>5. AdmissionsAccountedFor'
  <2>1. admitted' = Cardinality(Inside')
    BY Staying DEF AdmissionsAccountedFor
  <2>2. ASSUME NEW s \in Requests
        PROVE  pc'[s] = "waiting" <=> \E i \in DOMAIN waiters' : waiters'[i] = s
    <3>1. pc'[s] = "waiting" <=> s # r /\ pc[s] = "waiting"
      BY DEF TypeOK
    <3> QED BY <3>1, LeavingQueue DEF AdmissionsAccountedFor
  <2>3. \A s \in Requests : pc'[s] = "waiting" <=> future'[s] # "none"
    BY DEF AdmissionsAccountedFor, TypeOK
  <2>4. \A i, j \in DOMAIN waiters' : waiters'[i] = waiters'[j] => i = j
    BY LeavingQueue
  <2> QED BY <2>1, <2>2, <2>3, <2>4 DEF AdmissionsAccountedFor
<1>6. NoLostWakeup'
  BY DEF NoLostWakeup
<1>7. HandoverIsExclusive'
  <2> SUFFICES ASSUME NEW i \in DOMAIN waiters' PROVE future'[waiters'[i]] \notin {"woken", "doomed"}
    BY DEF HandoverIsExclusive
  <2>1. PICK j \in DOMAIN waiters : waiters'[i] = waiters[j] /\ waiters'[i] # r
    BY LeavingQueue
  <2>2. j # 1
    BY <2>1, <1>2, <1>3
  <2>3. future'[waiters'[i]] = future[waiters[j]]
    <3>1. waiters[j] \in Requests
      BY DEF TypeOK
    <3> QED BY <2>1, <3>1 DEF TypeOK
  <2> QED BY <2>2, <2>3 DEF HandoverIsExclusive
<1> QED BY <1>1, <1>4, <1>5, <1>6, <1>7

LEMMA FinishWorkKeeps ==
  ASSUME IInv, NEW r \in Requests, FinishWork(r)
  PROVE  IInv'
<1> USE DEF IInv, FinishWork
<1> DEFINE woken == WakeFirst(future, waiters)
<1>1. /\ woken \in [Requests -> FutureState]
      /\ \A s \in Requests : woken[s] = "none" <=> future[s] = "none"
      /\ \A s \in Requests : (waiters = <<>> \/ s # waiters[1]) => woken[s] = future[s]
      /\ waiters # <<>> => woken[waiters[1]] # "pending"
  BY WakeFirstProperties DEF TypeOK
<1> HIDE DEF woken
<1>2. TypeOK'
  <2>1. admitted' \in 0..capacity
    <3>1. admitted >= 1
      BY Leaving DEF AdmissionsAccountedFor
    <3> QED BY <3>1, MaxQueueAssumption DEF TypeOK, capacity
  <2>2. future' \in [Requests -> FutureState]
    BY <1>1 DEF woken
  <2> QED BY <2>1, <2>2 DEF TypeOK
<1>3. r \in Working /\ Working = {r}
  BY DEF Working, MutualExclusion
<1>4. MutualExclusion'
  <2>1. Working' = {}
    BY <1>3 DEF TypeOK, Working
  <2> QED BY <2>1 DEF MutualExclusion
<1>5. AdmissionsAccountedFor'
  <2>1. admitted' = Cardinality(Inside')
    BY Leaving DEF AdmissionsAccountedFor
  <2>2. \A s \in Requests : pc'[s] = "waiting" <=> pc[s] = "waiting"
    BY DEF TypeOK
  <2>3. \A s \in Requests : pc'[s] = "waiting" <=> future'[s] # "none"
    BY <2>2, <1>1 DEF AdmissionsAccountedFor, woken
  <2> QED BY <2>1, <2>2, <2>3 DEF AdmissionsAccountedFor
<1>6. NoLostWakeup'
  <2>1. waiters # <<>> => Head(waiters) = waiters[1]
    BY DEF TypeOK
  <2> QED BY <2>1, <1>1 DEF NoLostWakeup, woken
<1>7. HandoverIsExclusive'
  <2> SUFFICES ASSUME NEW i \in DOMAIN waiters, i # 1
               PROVE  future'[waiters[i]] \notin {"woken", "doomed"}
    BY DEF HandoverIsExclusive
  <2>1. waiters[i] \in Requests /\ waiters[i] # waiters[1]
    BY DEF TypeOK, AdmissionsAccountedFor
  <2>2. future'[waiters[i]] = future[waiters[i]]
    BY <2>1, <1>1 DEF woken
  <2> QED BY <2>2 DEF HandoverIsExclusive
<1> QED BY <1>2, <1>4, <1>5, <1>6, <1>7

LEMMA CancelWaiterKeeps ==
  ASSUME IInv, NEW r \in Requests, CancelWaiter(r)
  PROVE  IInv'
<1> USE DEF IInv, CancelWaiter
<1>1. TypeOK'
  BY DEF TypeOK, FutureState
<1>2. MutualExclusion'
  BY DEF MutualExclusion, Working
<1>3. AdmissionsAccountedFor'
  <2>1. \A s \in Requests : future'[s] # "none" <=> future[s] # "none"
    BY DEF TypeOK
  <2> QED BY <2>1 DEF AdmissionsAccountedFor, Inside
<1>4. \A s \in Requests :
        /\ future'[s] = "pending" => future[s] = "pending"
        /\ future'[s] \in {"woken", "doomed"} => future[s] \in {"woken", "doomed"}
  BY DEF TypeOK
<1>5. \A i \in DOMAIN waiters : waiters[i] \in Requests
  BY DEF TypeOK
<1>6. NoLostWakeup'
  <2>1. waiters # <<>> => Head(waiters) \in Requests
    BY DEF TypeOK
  <2> QED BY <1>4, <2>1 DEF NoLostWakeup
<1>7. HandoverIsExclusive'
  BY <1>4, <1>5 DEF HandoverIsExclusive
<1> QED BY <1>1, <1>2, <1>3, <1>6, <1>7

LEMMA UnwindWaiterKeeps ==
  ASSUME IInv, NEW r \in Requests, UnwindWaiter(r)
  PROVE  IInv'
<1> USE DEF IInv, UnwindWaiter
<1> DEFINE f     == [future EXCEPT ![r] = "none"]
           woken == WakeFirst(f, waiters')
<1>1. /\ waiters' \in Seq(Requests)
      /\ f \in [Requests -> FutureState]
      /\ \A s \in Requests : s # r => f[s] = future[s]
      /\ f[r] = "none"
  BY LeavingQueue DEF TypeOK, FutureState
<1>2. future' = IF locked THEN f ELSE woken
  OBVIOUS
<1> HIDE DEF f
<1>3. /\ woken \in [Requests -> FutureState]
      /\ \A s \in Requests : woken[s] = "none" <=> f[s] = "none"
      /\ \A s \in Requests : (waiters' = <<>> \/ s # waiters'[1]) => woken[s] = f[s]
      /\ waiters' # <<>> => woken[waiters'[1]] # "pending"
  BY <1>1, WakeFirstProperties
<1> HIDE DEF woken
<1>4. TypeOK'
  <2>1. admitted >= 1
    BY Leaving DEF AdmissionsAccountedFor
  <2>2. admitted' \in 0..capacity
    BY <2>1, MaxQueueAssumption DEF TypeOK, capacity
  <2> QED BY <2>2, <1>1, <1>2, <1>3 DEF TypeOK
<1>5. MutualExclusion'
  <2>1. Working' = Working
    BY DEF TypeOK, Working
  <2> QED BY <2>1 DEF MutualExclusion
<1>6. AdmissionsAccountedFor'
  <2>1. admitted' = Cardinality(Inside')
    BY Leaving DEF AdmissionsAccountedFor
  <2>2. \A s \in Requests : pc'[s] = "waiting" <=> s # r /\ pc[s] = "waiting"
    BY DEF TypeOK
  <2>3. \A s \in Requests : pc'[s] = "waiting" <=> \E i \in DOMAIN waiters' : waiters'[i] = s
    BY <2>2, LeavingQueue DEF AdmissionsAccountedFor
  <2>4. \A s \in Requests : pc'[s] = "waiting" <=> future'[s] # "none"
    BY <2>2, <1>1, <1>2, <1>3 DEF AdmissionsAccountedFor
  <2>5. \A i, j \in DOMAIN waiters' : waiters'[i] = waiters'[j] => i = j
    BY LeavingQueue
  <2> QED BY <2>1, <2>3, <2>4, <2>5 DEF AdmissionsAccountedFor
<1>7. NoLostWakeup'
  <2>1. waiters' # <<>> => Head(waiters') = waiters'[1]
    BY <1>1
  <2> QED BY <2>1, <1>2, <1>3 DEF NoLostWakeup
<1>8. HandoverIsExclusive'
  <2> SUFFICES ASSUME NEW i \in DOMAIN waiters', future'[waiters'[i]] \in {"woken", "doomed"}
               PROVE  i = 1 /\ ~locked
    BY DEF HandoverIsExclusive
  <2>1. PICK j \in DOMAIN waiters :
          waiters'[i] = waiters[j] /\ waiters'[i] # r /\ (j = 1 => i = 1)
    BY LeavingQueue
  <2>2. waiters'[i] \in Requests /\ f[waiters'[i]] = future[waiters[j]]
    BY <2>1, <1>1
  <2>3. CASE future[waiters[j]] \in {"woken", "doomed"}
    BY <2>1, <2>3 DEF HandoverIsExclusive
  <2>4. CASE future[waiters[j]] \notin {"woken", "doomed"}
    <3>1. ~locked /\ woken[waiters'[i]] # f[waiters'[i]]
      BY <2>2, <2>4, <1>2
    <3>2. waiters'[i] = waiters'[1] /\ waiters' # <<>>
      BY <3>1, <2>2, <1>3
    <3>3. i = 1
      <4>1. 1 \in DOMAIN waiters'
        BY <3>2, <1>1
      <4> QED BY <3>2, <4>1, LeavingQueue
    <3> QED BY <3>1, <3>3
  <2> QED BY <2>3, <2>4
<1> QED BY <1>4, <1>5, <1>6, <1>7, <1>8

LEMMA StutterKeeps == IInv /\ UNCHANGED vars => IInv'
BY DEF IInv, vars, TypeOK, MutualExclusion, Working, AdmissionsAccountedFor, Inside,
       NoLostWakeup, HandoverIsExclusive

LEMMA StepKeeps == IInv /\ [Next]_vars => IInv'
<1> SUFFICES ASSUME IInv, [Next]_vars PROVE IInv'
  OBVIOUS
<1>1. ASSUME NEW r \in Requests, ExecuteBusy(r) PROVE IInv'
  BY <1>1, StutterKeeps DEF ExecuteBusy
<1>2. CASE UNCHANGED vars
  BY <1>2, StutterKeeps
<1>3. CASE Next
  BY <1>1, <1>3, ExecuteAtOnceKeeps, ExecuteWaitsKeeps, ResumeKeeps, FinishWorkKeeps,
     CancelWaiterKeeps, UnwindWaiterKeeps DEF Next
<1> QED BY <1>2, <1>3

LEMMA Inductive == Spec => []IInv
<1>1. Spec => Init /\ [][Next]_vars
  BY DEF Spec
<1> QED BY <1>1, InitEstablishes, StepKeeps, PTL

-----------------------------------------------------------------------------
(* The variables keep their types; in particular self._admitted never      *)
(* goes below zero or above max_queue + 1, whatever is cancelled.          *)
THEOREM TypeCorrect == Spec => []TypeOK
<1>1. IInv => TypeOK
  BY DEF IInv
<1> QED BY <1>1, Inductive, PTL

(* At most one operation drives the profile at any time, and the lock and  *)
(* the active flag are set exactly while one does.                         *)
THEOREM ProfileIsExclusive == Spec => []MutualExclusion
<1>1. IInv => MutualExclusion
  BY DEF IInv
<1> QED BY <1>1, Inductive, PTL

(* The admission counter is the number of requests inside execute(): none  *)
(* is leaked or returned twice by success, failure or cancellation.        *)
THEOREM AdmissionsNeverLeak == Spec => []AdmissionsAccountedFor
<1>1. IInv => AdmissionsAccountedFor
  BY DEF IInv
<1> QED BY <1>1, Inductive, PTL

(* A free lock with waiters always has its oldest waiter about to run.     *)
THEOREM WakeupsAreNotLost == Spec => []NoLostWakeup
<1>1. IInv => NoLostWakeup
  BY DEF IInv
<1> QED BY <1>1, Inductive, PTL

(* Only the oldest waiter is ever handed the lock, and nobody takes it     *)
(* between the hand-over and that waiter's next step.                      *)
THEOREM HandoverHasOneHeir == Spec => []HandoverIsExclusive
<1>1. IInv => HandoverIsExclusive
  BY DEF IInv
<1> QED BY <1>1, Inductive, PTL

-----------------------------------------------------------------------------
(* The executor as a bounded service in order of arrival.                  *)

GivenUp == {r \in Requests : future[r] \in {"cancelled", "doomed"}}

\* SerialService reads the library's operators as the executor does.
LEMMA SameOperators ==
  /\ \A s, i : Service!RemoveAt(s, i) = RemoveAt(s, i)
  /\ \A s : Service!ToSet(s) = ToSet(s)
  /\ \A S : Service!Cardinality(S) = Cardinality(S)
<1>1. \A s, i : Service!RemoveAt(s, i) = RemoveAt(s, i)
  BY DEF Service!RemoveAt, RemoveAt
<1>2. \A s : Service!ToSet(s) = ToSet(s)
  BY DEF Service!ToSet, ToSet
<1>3. \A S : Service!Cardinality(S) = Cardinality(S)
  BY DEF Service!Cardinality, Cardinality
<1> QED BY <1>1, <1>2, <1>3

\* Whoever is in the lock's queue is waiting in execute(), and the other way round.
LEMMA LineIsWaiting ==
  ASSUME IInv
  PROVE  /\ ToSet(waiters) = Waiting
         /\ \A r \in Requests : r \in ToSet(waiters) <=> pc[r] = "waiting"
<1>1. \A i \in DOMAIN waiters : waiters[i] \in Requests
  BY DEF IInv, TypeOK
<1>2. \A r \in Requests : r \in ToSet(waiters) <=> pc[r] = "waiting"
  BY DEF IInv, AdmissionsAccountedFor, ToSet
<1>3. ToSet(waiters) \subseteq Requests
  BY <1>1 DEF ToSet
<1> QED BY <1>2, <1>3 DEF Waiting

\* The queue and the work are all that is inside: the admission counter is the load.
LEMMA AdmittedIsLoad ==
  ASSUME IInv
  PROVE  /\ Len(waiters) + Cardinality(Working) = admitted
         /\ Len(waiters) \in Nat
<1> DEFINE n == Len(waiters)
<1>1. n \in Nat /\ DOMAIN waiters = 1..n
  BY DEF IInv, TypeOK
<1> HIDE DEF n
<1>2. waiters \in Bijection(1..n, Waiting)
  <2>1. \A i \in 1..n : waiters[i] \in Waiting
    BY <1>1, LineIsWaiting DEF ToSet
  <2>2. \A i, j \in 1..n : waiters[i] = waiters[j] => i = j
    BY <1>1 DEF IInv, AdmissionsAccountedFor
  <2>3. \A w \in Waiting : \E i \in 1..n : waiters[i] = w
    BY <1>1 DEF IInv, AdmissionsAccountedFor, Waiting
  <2>4. waiters = [i \in 1..n |-> waiters[i]]
    BY <1>1 DEF IInv, TypeOK
  <2>5. waiters \in [1..n -> Waiting]
    BY <2>1, <2>4
  <2> QED BY <2>2, <2>3, <2>5 DEF Bijection, Injection, Surjection, IsInjective
<1>3. IsFiniteSet(Waiting) /\ Cardinality(Waiting) = n
  <2>1. IsFiniteSet(1..n) /\ Cardinality(1..n) = n
    BY <1>1, FS_Interval
  <2>2. ExistsBijection(1..n, Waiting)
    BY <1>2 DEF ExistsBijection
  <2> QED BY <2>1, <2>2, FS_Bijection
<1>4. IsFiniteSet(Working)
  BY RequestsAssumption, FS_Subset DEF Working
<1>5. Waiting \union Working = Inside /\ Waiting \intersect Working = {}
  BY DEF IInv, TypeOK, Waiting, Working, Inside
<1>6. Cardinality(Inside) = n + Cardinality(Working)
  <2>1. Cardinality(Waiting \union Working)
          = Cardinality(Waiting) + Cardinality(Working) - Cardinality(Waiting \intersect Working)
    BY <1>3, <1>4, FS_Union
  <2>2. Cardinality({}) = 0 /\ Cardinality(Working) \in Nat
    BY <1>4, FS_EmptySet, FS_CardinalityType
  <2>3. Cardinality(Inside) = n + Cardinality(Working) - 0
    BY <2>1, <2>2, <1>3, <1>5
  <2> QED BY <2>2, <2>3, <1>1
<1> QED BY <1>1, <1>6 DEF IInv, AdmissionsAccountedFor, n

\* Handing the lock over is no concern of the line: nobody gives up by it.
LEMMA WakingGivesNobodyUp ==
  ASSUME NEW f \in [Requests -> FutureState], NEW q \in Seq(Requests), NEW r \in Requests
  PROVE  WakeFirst(f, q)[r] \in {"cancelled", "doomed"} <=> f[r] \in {"cancelled", "doomed"}
<1>1. CASE q = <<>>
  BY <1>1 DEF WakeFirst
<1>2. CASE q # <<>>
  <2>1. Head(q) \in Requests
    BY <1>2
  <2> QED BY <2>1 DEF WakeFirst
<1> QED BY <1>1, <1>2

\* While work is done there is one at work and the lock is held.
LEMMA LockedMeansServed ==
  ASSUME IInv
  PROVE  ~locked <=> Working = {}
BY DEF IInv, MutualExclusion

LEMMA AtOnceServesNewcomer ==
  ASSUME IInv, NEW r \in Requests, ExecuteAtOnce(r)
  PROVE  Service!ServeNewcomer(r)
<1> USE DEF ExecuteAtOnce
<1>1. r \notin ToSet(waiters)
  BY LineIsWaiting
<1>2. Working = {}
  BY LockedMeansServed DEF FreeForNewcomer
<1>3. ToSet(waiters) \subseteq GivenUp
  BY LineIsWaiting DEF FreeForNewcomer, GivenUp, Waiting
<1>4. Len(waiters) + Cardinality(Working) < capacity
  BY AdmittedIsLoad DEF CanAdmit
<1>5. Working' = {r}
  BY <1>2 DEF Working, IInv, TypeOK
<1>6. GivenUp' = GivenUp
  BY DEF GivenUp
<1> QED BY <1>1, <1>2, <1>3, <1>4, <1>5, <1>6, SameOperators
        DEF Service!ServeNewcomer, Service!InLine, Service!Load, GivenUp

LEMMA WaitingJoins ==
  ASSUME IInv, NEW r \in Requests, ExecuteWaits(r)
  PROVE  Service!Join(r)
<1> USE DEF ExecuteWaits
<1>1. r \notin ToSet(waiters) \union Working
  BY LineIsWaiting DEF Working
<1>2. Len(waiters) + Cardinality(Working) < capacity
  BY AdmittedIsLoad DEF CanAdmit
<1>3. Working' = Working
  BY DEF Working, IInv, TypeOK
<1>4. GivenUp' = GivenUp
  BY DEF GivenUp, IInv, TypeOK, AdmissionsAccountedFor
<1> QED BY <1>1, <1>2, <1>3, <1>4, SameOperators
        DEF Service!Join, Service!InLine, Service!Load, GivenUp

LEMMA ResumingServesNext ==
  ASSUME IInv, NEW r \in Requests, Resume(r)
  PROVE  Service!ServeNext(r)
<1> USE DEF Resume
<1>1. PICK k \in DOMAIN waiters : waiters[k] = r /\ waiters' = RemoveAt(waiters, k)
  BY DEF LeaveQueue
<1>2. k = 1 /\ ~locked
  BY <1>1 DEF IInv, HandoverIsExclusive
<1>3. Working = {}
  BY <1>2, LockedMeansServed
<1>4. \E i \in DOMAIN waiters :
        /\ waiters[i] = r
        /\ \A j \in 1..(i - 1) : waiters[j] \in GivenUp
        /\ waiters' = RemoveAt(waiters, i)
  BY <1>1, <1>2
<1>5. Working' = {r}
  BY <1>3 DEF Working, IInv, TypeOK
<1>6. r \notin GivenUp /\ GivenUp' = GivenUp
  BY DEF GivenUp, IInv, TypeOK
<1> QED BY <1>3, <1>4, <1>5, <1>6, SameOperators DEF Service!ServeNext, GivenUp

LEMMA FinishingCompletes ==
  ASSUME IInv, NEW r \in Requests, FinishWork(r)
  PROVE  Service!Complete(r)
<1> USE DEF FinishWork
<1>1. Working = {r}
  BY DEF Working, IInv, MutualExclusion
<1>2. Working' = {}
  BY <1>1 DEF Working, IInv, TypeOK
<1>3. GivenUp' = GivenUp
  <2>1. \A s \in Requests :
          future'[s] \in {"cancelled", "doomed"} <=> future[s] \in {"cancelled", "doomed"}
    BY WakingGivesNobodyUp DEF IInv, TypeOK
  <2> QED BY <2>1 DEF GivenUp
<1> QED BY <1>1, <1>2, <1>3 DEF Service!Complete, GivenUp

LEMMA CancellingGivesUp ==
  ASSUME IInv, NEW r \in Requests, CancelWaiter(r)
  PROVE  Service!GiveUp(r)
<1> USE DEF CancelWaiter
<1>1. r \in ToSet(waiters) \ GivenUp
  BY LineIsWaiting DEF GivenUp
<1>2. GivenUp' = GivenUp \union {r}
  BY DEF GivenUp, IInv, TypeOK
<1>3. Working' = Working
  BY DEF Working
<1> QED BY <1>1, <1>2, <1>3, SameOperators DEF Service!GiveUp, Service!InLine, GivenUp

LEMMA UnwindingLeavesLine ==
  ASSUME IInv, NEW r \in Requests, UnwindWaiter(r)
  PROVE  Service!LeaveLine(r)
<1> USE DEF UnwindWaiter
<1> DEFINE f == [future EXCEPT ![r] = "none"]
<1>1. r \in GivenUp
  BY DEF GivenUp
<1>2. waiters' \in Seq(Requests)
  BY LeavingQueue DEF IInv
<1>3. f \in [Requests -> FutureState]
  BY DEF IInv, TypeOK, FutureState
<1>4. \A s \in Requests :
        f[s] \in {"cancelled", "doomed"} <=> s # r /\ future[s] \in {"cancelled", "doomed"}
  BY DEF IInv, TypeOK
<1>5. future' = IF locked THEN f ELSE WakeFirst(f, waiters')
  OBVIOUS
<1> HIDE DEF f
<1>6. \A s \in Requests :
        WakeFirst(f, waiters')[s] \in {"cancelled", "doomed"} <=> f[s] \in {"cancelled", "doomed"}
  BY <1>2, <1>3, WakingGivesNobodyUp
<1>7. GivenUp' = GivenUp \ {r}
  BY <1>4, <1>5, <1>6 DEF GivenUp
<1>8. Working' = Working
  BY DEF Working, IInv, TypeOK
<1>9. \E i \in DOMAIN waiters : waiters[i] = r /\ waiters' = RemoveAt(waiters, i)
  BY DEF LeaveQueue
<1> QED BY <1>1, <1>7, <1>8, <1>9, SameOperators DEF Service!LeaveLine, GivenUp

(* The executor is the bounded service of SerialService: one request is    *)
(* served at a time, in order of arrival, at most max_queue wait, and one  *)
(* that asks, is cancelled, or is handed the lock and cancelled at once    *)
(* overtakes nobody who still wants to be served.  (The fairness of that   *)
(* service stays with the run.)                                            *)
THEOREM ExecutorIsSerial == Spec => Service!Init /\ [][Service!Next]_(Service!vars)
<1>1. Init => Service!Init
  BY DEF Init, Service!Init, Working
<1>2. IInv /\ [Next]_vars => [Service!Next]_(Service!vars)
  <2> SUFFICES ASSUME IInv, [Next]_vars PROVE Service!Next \/ UNCHANGED Service!vars
    BY DEF Service!vars
  <2>1. CASE UNCHANGED vars
    BY <2>1 DEF vars, Service!vars, Working
  <2>2. ASSUME NEW r \in Requests, ExecuteBusy(r) PROVE UNCHANGED Service!vars
    BY <2>2 DEF ExecuteBusy, vars, Service!vars, Working
  <2>3. ASSUME NEW r \in Requests,
               \/ ExecuteAtOnce(r)
               \/ ExecuteWaits(r)
               \/ Resume(r)
               \/ FinishWork(r)
               \/ CancelWaiter(r)
               \/ UnwindWaiter(r)
        PROVE  Service!Next
    BY <2>3, AtOnceServesNewcomer, WaitingJoins, ResumingServesNext, FinishingCompletes,
       CancellingGivesUp, UnwindingLeavesLine DEF Service!Next
  <2> QED BY <2>1, <2>2, <2>3 DEF Next
<1>3. Spec => Init /\ [][Next]_vars
  BY DEF Spec
<1> QED BY <1>1, <1>2, <1>3, Inductive, PTL

-----------------------------------------------------------------------------
(* The read service.                                                       *)

ReadersWork == \A r \in Requests : Reading(r) => pc[r] = "working"

PageOK == page \in [Callers -> Tabs \union {None}]
TabsOK == tabs \in Seq(Tabs) /\ shows \in [Tabs -> {"board", "elsewhere"}]

WInv == IInv /\ PageOK /\ TabsOK /\ ReadersWork

-----------------------------------------------------------------------------
LEMMA ExecutorInside == [WorkerNext]_workerVars => [Next]_vars
<1> SUFFICES ASSUME [WorkerNext]_workerVars PROVE [Next]_vars
  OBVIOUS
<1>1. CASE UNCHANGED workerVars
  BY <1>1 DEF workerVars
<1>2. ASSUME NEW r \in Requests,
             \/ OperationRefused(r)
             \/ OperationAtOnce(r)
             \/ OperationWaits(r)
             \/ OperationsTurn(r)
             \/ OperationCancelled(r)
             \/ OperationUnwinds(r)
             \/ OperationEnds(r)
      PROVE [Next]_vars
  BY <1>2 DEF OperationRefused, OperationAtOnce, OperationWaits, OperationsTurn,
     OperationCancelled, OperationUnwinds, OperationEnds, workerVars, Next
<1>3. ASSUME NEW d \in Direct, DirectStarts(d) \/ DirectEnds(d) PROVE [Next]_vars
  BY <1>3 DEF DirectStarts, DirectEnds
<1>4. ASSUME NEW t \in Tabs, TabMoves(t) \/ TabOpens(t) \/ TabCloses(t) PROVE [Next]_vars
  BY <1>4 DEF TabMoves, TabOpens, TabCloses
<1>5. CASE Negotiate
  BY <1>5 DEF Negotiate
<1> QED BY <1>1, <1>2, <1>3, <1>4, <1>5 DEF WorkerNext

LEMMA WorkerStarts == WorkerInit => WInv
<1> SUFFICES ASSUME WorkerInit PROVE WInv
  OBVIOUS
<1>1. IInv
  BY InitEstablishes DEF WorkerInit
<1>2. PageOK /\ TabsOK /\ ReadersWork
  BY DEF WorkerInit, PageOK, TabsOK, ReadersWork, Reading, Callers
<1> QED BY <1>1, <1>2 DEF WInv

\* The page a call starts with is a tab, and it is the only one and shows the board.
LEMMA StartGivesTheBoard ==
  ASSUME TabsOK, PageOK, NEW c \in Callers, Start(c)
  PROVE  /\ PageOK'
         /\ \A o \in Callers \ {c} : page'[o] = page[o]
         /\ page'[c] # page[c] =>
              ToSet(tabs) = {page'[c]} /\ shows[page'[c]] = "board"
<1>1. CASE UNCHANGED page
  BY <1>1 DEF PageOK
<1>2. CASE LivePage # None /\ page' = [page EXCEPT ![c] = LivePage]
  <2>1. Len(tabs) = 1 /\ shows[Head(tabs)] = "board" /\ LivePage = Head(tabs)
    BY <1>2, Zenon DEF LivePage, SurfacePresent
  <2>2. Head(tabs) = tabs[1] /\ tabs[1] \in Tabs
    <3>1. tabs \in Seq(Tabs) /\ Len(tabs) = 1
      BY <2>1 DEF TabsOK
    <3>2. 1 \in DOMAIN tabs /\ tabs # <<>>
      BY <3>1
    <3> QED BY <3>1, <3>2
  <2>3. ToSet(tabs) = {tabs[1]}
    BY <2>1, <2>2 DEF ToSet, TabsOK
  <2>4. page'[c] = tabs[1]
    BY <1>2, <2>1, <2>2 DEF PageOK
  <2>5. PageOK' /\ \A o \in Callers \ {c} : page'[o] = page[o]
    BY <1>2, <2>1, <2>2 DEF PageOK
  <2> QED BY <2>1, <2>2, <2>3, <2>4, <2>5
<1> QED BY <1>1, <1>2, Zenon DEF Start

\* Steps that leave the pages in hand alone keep the readers at work.
LEMMA PageUntouched ==
  ASSUME PageOK, ReadersWork, UNCHANGED page,
         \A r \in Requests : pc[r] = "working" => pc'[r] = "working"
  PROVE  PageOK' /\ ReadersWork'
BY DEF PageOK, ReadersWork, Reading

LEMMA TabsKeepTheirType == TabsOK /\ [WorkerNext]_workerVars => TabsOK'
<1> SUFFICES ASSUME TabsOK, [WorkerNext]_workerVars PROVE TabsOK'
  OBVIOUS
<1>1. CASE UNCHANGED browser
  BY <1>1 DEF browser, TabsOK
<1>2. ASSUME NEW t \in Tabs, TabMoves(t) PROVE TabsOK'
  BY <1>2 DEF TabMoves, TabsOK
<1>3. ASSUME NEW t \in Tabs, TabOpens(t) PROVE TabsOK'
  <2>1. tabs' = Append(tabs, t) /\ tabs' \in Seq(Tabs)
    BY <1>3 DEF TabOpens, TabsOK
  <2> QED BY <1>3, <2>1 DEF TabOpens, TabsOK
<1>4. ASSUME NEW t \in Tabs, TabCloses(t) PROVE TabsOK'
  <2>1. PICK i \in DOMAIN tabs : tabs' = RemoveAt(tabs, i)
    BY <1>4 DEF TabCloses
  <2>2. tabs' \in Seq(Tabs)
    BY <2>1, RemoveAtProperties DEF TabsOK
  <2> QED BY <1>4, <2>2 DEF TabCloses, TabsOK
<1>5. CASE UNCHANGED workerVars
  BY <1>1, <1>5 DEF workerVars
<1>6. CASE Negotiate
  BY <1>1, <1>6 DEF Negotiate
<1>7. ASSUME NEW d \in Direct, DirectStarts(d) \/ DirectEnds(d) PROVE TabsOK'
  BY <1>1, <1>7 DEF DirectStarts, DirectEnds
<1>8. ASSUME NEW r \in Requests,
             \/ OperationRefused(r)
             \/ OperationAtOnce(r)
             \/ OperationWaits(r)
             \/ OperationsTurn(r)
             \/ OperationCancelled(r)
             \/ OperationUnwinds(r)
             \/ OperationEnds(r)
      PROVE TabsOK'
  BY <1>1, <1>8 DEF OperationRefused, OperationAtOnce, OperationWaits, OperationsTurn,
     OperationCancelled, OperationUnwinds, OperationEnds, workerVars
<1> QED BY <1>2, <1>3, <1>4, <1>5, <1>6, <1>7, <1>8 DEF WorkerNext

LEMMA ReadersStayAtWork == WInv /\ [WorkerNext]_workerVars => PageOK' /\ ReadersWork'
<1> SUFFICES ASSUME WInv, [WorkerNext]_workerVars PROVE PageOK' /\ ReadersWork'
  OBVIOUS
<1> USE DEF WInv
<1>0. pc \in [Requests -> {"idle", "waiting", "working"}]
  BY DEF IInv, TypeOK
<1>1. CASE UNCHANGED <<page, pc>>
  BY <1>1, PageUntouched
<1>2. ASSUME NEW r \in Requests, Start(r), pc' = [pc EXCEPT ![r] = "working"]
      PROVE  PageOK' /\ ReadersWork'
  <2>1. PageOK' /\ \A o \in Callers \ {r} : page'[o] = page[o]
    BY <1>2, StartGivesTheBoard DEF Callers
  <2>2. \A o \in Requests \ {r} : Reading(o)' => pc'[o] = "working"
    BY <1>0, <1>2, <2>1 DEF ReadersWork, Reading, Callers
  <2> QED BY <1>0, <1>2, <2>1, <2>2 DEF ReadersWork
<1>3. ASSUME NEW r \in Requests, OperationAtOnce(r) \/ OperationsTurn(r)
      PROVE  PageOK' /\ ReadersWork'
  BY <1>2, <1>3 DEF OperationAtOnce, OperationsTurn, ExecuteAtOnce, Resume
<1>4. ASSUME NEW r \in Requests, OperationWaits(r) PROVE PageOK' /\ ReadersWork'
  BY <1>0, <1>4, PageUntouched DEF OperationWaits, ExecuteWaits
<1>5. ASSUME NEW r \in Requests, OperationCancelled(r) \/ OperationUnwinds(r)
      PROVE  PageOK' /\ ReadersWork'
  BY <1>0, <1>5, PageUntouched DEF OperationCancelled, OperationUnwinds, CancelWaiter,
     UnwindWaiter
<1>6. ASSUME NEW r \in Requests, OperationEnds(r) PROVE PageOK' /\ ReadersWork'
  BY <1>0, <1>6 DEF OperationEnds, FinishWork, Stop, PageOK, ReadersWork, Reading, Callers
<1>7. ASSUME NEW r \in Requests, OperationRefused(r) PROVE PageOK' /\ ReadersWork'
  BY <1>1, <1>7 DEF OperationRefused, workerVars, vars
<1>8. ASSUME NEW d \in Direct, DirectStarts(d) PROVE PageOK' /\ ReadersWork'
  <2>1. PageOK' /\ \A o \in Callers \ {d} : page'[o] = page[o]
    BY <1>8, StartGivesTheBoard DEF DirectStarts, Callers
  <2>2. \A r \in Requests : page'[r] = page[r]
    BY <2>1, CallersAssumption DEF Callers
  <2> QED BY <1>8, <2>1, <2>2 DEF DirectStarts, ReadersWork, Reading, vars
<1>9. ASSUME NEW d \in Direct, DirectEnds(d) PROVE PageOK' /\ ReadersWork'
  <2>1. \A r \in Requests : page'[r] = page[r]
    BY <1>9, CallersAssumption DEF DirectEnds, Stop, PageOK, Callers
  <2>2. PageOK'
    BY <1>9 DEF DirectEnds, Stop, PageOK
  <2> QED BY <1>9, <2>1, <2>2 DEF DirectEnds, ReadersWork, Reading, vars
<1>10. ASSUME NEW t \in Tabs, TabMoves(t) \/ TabOpens(t) \/ TabCloses(t)
       PROVE  PageOK' /\ ReadersWork'
  BY <1>1, <1>10 DEF TabMoves, TabOpens, TabCloses, vars
<1>11. CASE Negotiate
  BY <1>1, <1>11 DEF Negotiate, vars
<1>12. CASE UNCHANGED workerVars
  BY <1>1, <1>12 DEF workerVars, vars
<1> QED BY <1>3, <1>4, <1>5, <1>6, <1>7, <1>8, <1>9, <1>10, <1>11, <1>12 DEF WorkerNext

LEMMA WorkerInductive == WorkerSpec => []WInv
<1>1. WInv /\ [WorkerNext]_workerVars => WInv'
  BY ExecutorInside, StepKeeps, TabsKeepTheirType, ReadersStayAtWork DEF WInv
<1>2. WorkerSpec => WorkerInit /\ [][WorkerNext]_workerVars
  BY DEF WorkerSpec
<1> QED BY <1>1, <1>2, WorkerStarts, PTL

-----------------------------------------------------------------------------
(* Two typed operations never have a page in hand at once, and the one     *)
(* that has it is the executor's active one, for any number of calls.      *)
THEOREM OperationsAreSerial == WorkerSpec => []OperationsNeverOverlap
<1>1. WInv => OperationsNeverOverlap
  BY DEF WInv, IInv, ReadersWork, MutualExclusion, Working, OperationsNeverOverlap
<1> QED BY <1>1, WorkerInductive, PTL

(* No wake-up of the executor's lock is lost under the service's own steps. *)
THEOREM ServiceKeepsAwake == WorkerSpec => []NoLostWakeup
<1>1. WInv => NoLostWakeup
  BY DEF WInv, IInv
<1> QED BY <1>1, WorkerInductive, PTL

(* Whatever the tabs did while a call waited, the page it is given is then *)
(* the only one open and shows the board; GET routes included.             *)
THEOREM ReadsAreGuarded == WorkerSpec => ReadsStartOnTheBoard
<1> DEFINE Given == \A c \in Callers : ~Reading(c) /\ Reading(c)' =>
                      ToSet(tabs)' = {page'[c]} /\ shows'[page'[c]] = "board"
<1>1. ASSUME WInv, [WorkerNext]_workerVars PROVE Given
  <2> SUFFICES ASSUME NEW c \in Callers, ~Reading(c), Reading(c)'
               PROVE  ToSet(tabs)' = {page'[c]} /\ shows'[page'[c]] = "board"
    OBVIOUS
  <2> USE <1>1 DEF WInv
  <2>1. page'[c] # page[c]
    BY DEF Reading
  <2>2. ASSUME NEW o \in Callers, Start(o), UNCHANGED browser
        PROVE  ToSet(tabs)' = {page'[c]} /\ shows'[page'[c]] = "board"
    <3>1. o = c
      BY <2>1, <2>2, StartGivesTheBoard
    <3>2. ToSet(tabs) = {page'[c]} /\ shows[page'[c]] = "board"
      BY <2>1, <2>2, <3>1, StartGivesTheBoard
    <3>3. tabs' = tabs /\ shows' = shows
      BY <2>2 DEF browser
    <3> QED BY <3>2, <3>3
  <2>3. ASSUME NEW r \in Requests, OperationAtOnce(r) \/ OperationsTurn(r)
        PROVE  ToSet(tabs)' = {page'[c]} /\ shows'[page'[c]] = "board"
    BY <2>2, <2>3 DEF OperationAtOnce, OperationsTurn, Callers
  <2>4. ASSUME NEW d \in Direct, DirectStarts(d)
        PROVE  ToSet(tabs)' = {page'[c]} /\ shows'[page'[c]] = "board"
    BY <2>2, <2>4 DEF DirectStarts, Callers
  <2>5. ASSUME NEW o \in Callers, Stop(o) PROVE FALSE
    BY <2>1, <2>5 DEF Stop, Reading, PageOK
  <2>6. ASSUME NEW r \in Requests, OperationEnds(r) PROVE FALSE
    BY <2>5, <2>6 DEF OperationEnds, Callers
  <2>7. ASSUME NEW d \in Direct, DirectEnds(d) PROVE FALSE
    BY <2>5, <2>7 DEF DirectEnds, Callers
  <2>8. ASSUME UNCHANGED page PROVE FALSE
    BY <2>1, <2>8
  <2>9. ASSUME NEW r \in Requests,
               \/ OperationRefused(r)
               \/ OperationWaits(r)
               \/ OperationCancelled(r)
               \/ OperationUnwinds(r)
        PROVE FALSE
    BY <2>8, <2>9 DEF OperationRefused, OperationWaits, OperationCancelled,
       OperationUnwinds, workerVars
  <2>10. ASSUME NEW t \in Tabs, TabMoves(t) \/ TabOpens(t) \/ TabCloses(t) PROVE FALSE
    BY <2>8, <2>10 DEF TabMoves, TabOpens, TabCloses
  <2>11. ~Negotiate /\ ~UNCHANGED workerVars
    BY <2>8 DEF Negotiate, workerVars
  <2> QED BY <2>3, <2>4, <2>6, <2>7, <2>9, <2>10, <2>11 DEF WorkerNext
<1>2. WorkerSpec => [][WorkerNext]_workerVars
  BY DEF WorkerSpec
<1>3. WInv /\ [WorkerNext]_workerVars => [Given]_workerVars
  BY <1>1
<1> QED BY <1>2, <1>3, WorkerInductive, PTL DEF ReadsStartOnTheBoard
=============================================================================
