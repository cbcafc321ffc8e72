------------------------ MODULE ApprovalStoreProofs ------------------------
(***************************************************************************)
(* ApprovalStore, for any number of approvals, digests and attempts: an    *)
(* approval is spent once, a reported spend is in the database and was     *)
(* authorized, rows only advance, and the store implements SingleUseGrant. *)
(*                                                                         *)
(* The inductive invariant adds to the properties the two facts they rest  *)
(* on: the write lock is held by the attempt that is in a transaction, and *)
(* by it alone; and what Select found still holds when the row is written. *)
(***************************************************************************)
EXTENDS ApprovalStore, TLAPS

LockIsHeld == \A c \in Attempts : InTransaction(c) <=> writer = c

CheckStillHolds == \A c \in Attempts :
  stage[c] \in {"update", "commit"} => Refusal(row(c), asked[c]) = "none"

AnsweredWhenDone == \A c \in Attempts : answer[c] = "none" <=> stage[c] # "done"

IInv ==
  /\ TypeOK
  /\ LockIsHeld
  /\ CheckStillHolds
  /\ AnsweredWhenDone
  /\ SpentOnce
  /\ SpendIsAuthorized
  /\ RefusalsAreJustified

-----------------------------------------------------------------------------
(* What the check guarantees.                                              *)

LEMMA Cleared ==
  ASSUME NEW r, NEW q, Refusal(r, q) = "none"
  PROVE  r.state # "absent" /\ r.state # "spent" /\ r.digest = q.digest /\ ~Expired(r, q.at)
BY DEF Refusal

LEMMA Refused ==
  ASSUME NEW r, NEW q
  PROVE  /\ Refusal(r, q) \in {"none", "NOT_FOUND", "DIGEST_MISMATCH", "ALREADY_CONSUMED", "EXPIRED"}
         /\ Refusal(r, q) = "ALREADY_CONSUMED" => r.state = "spent"
         /\ Refusal(r, q) = "DIGEST_MISMATCH" => r.state # "absent" /\ r.digest # q.digest
         /\ Refusal(r, q) = "EXPIRED" => r.state # "absent" /\ Expired(r, q.at)
BY DEF Refusal

LEMMA Initially == Init => IInv
<1> SUFFICES ASSUME Init PROVE IInv
  OBVIOUS
<1> anyDigest \in Digests
  BY DigestsAssumption DEF anyDigest
<1>1. TypeOK
  <2>1. \A a \in Approvals :
          [approval |-> a, digest |-> anyDigest, at |-> 0] \in Asked
    BY Zenon DEF Asked
  <2>2. asked \in [Attempts -> Asked]
    BY <2>1 DEF Init
  <2> QED BY <2>2 DEF Init, TypeOK, Row, Stage, Answer, NoRow
<1>2. LockIsHeld /\ CheckStillHolds /\ AnsweredWhenDone
  BY NoOneAssumption DEF Init, LockIsHeld, InTransaction, CheckStillHolds, AnsweredWhenDone
<1>3. SpentOnce /\ SpendIsAuthorized /\ RefusalsAreJustified
  BY DEF Init, SpentOnce, SpendIsAuthorized, RefusalsAreJustified, Won
<1> QED BY <1>1, <1>2, <1>3 DEF IInv

-----------------------------------------------------------------------------
(* Every action preserves the invariant.                                   *)

LEMMA StutteringKeeps == ASSUME IInv, UNCHANGED vars PROVE IInv'
BY DEF IInv, vars, TypeOK, LockIsHeld, InTransaction, CheckStillHolds, AnsweredWhenDone,
       SpentOnce, SpendIsAuthorized, RefusalsAreJustified, Won, row

LEMMA TickKeeps == ASSUME IInv, Tick PROVE IInv'
BY DEF Tick, IInv, TypeOK, LockIsHeld, InTransaction, CheckStillHolds, AnsweredWhenDone,
       SpentOnce, SpendIsAuthorized, RefusalsAreJustified, Won, row

\* Only an approval that had no row gets one, and nobody is in a transaction.
LEMMA IssueKeeps ==
  ASSUME IInv, NEW a \in Approvals, NEW d \in Digests, NEW e \in Expiries, Issue(a, d, e)
  PROVE  IInv'
<1> USE DEF IInv
<1> e \in SUBSET Nat
  BY DEF Expiries
<1>1. TypeOK'
  BY DEF Issue, TypeOK, Row
<1>2. \A c \in Attempts : table'[asked[c].approval] # row(c) => row(c).state = "absent"
  BY DEF Issue, TypeOK, Asked, row
<1>3. LockIsHeld' /\ AnsweredWhenDone' /\ SpentOnce'
  BY DEF Issue, LockIsHeld, InTransaction, AnsweredWhenDone, SpentOnce, Won
<1>4. CheckStillHolds'
  BY NoOneAssumption DEF Issue, CheckStillHolds, LockIsHeld, InTransaction
<1>5. SpendIsAuthorized'
  BY <1>2 DEF Issue, SpendIsAuthorized, Won, row
<1>6. RefusalsAreJustified'
  BY <1>2 DEF Issue, RefusalsAreJustified, row
<1> QED BY <1>1, <1>3, <1>4, <1>5, <1>6

LEMMA CallKeeps ==
  ASSUME IInv, NEW c \in Attempts, NEW a \in Approvals, NEW d \in Digests,
         NEW t \in Nat, Call(c, a, d, t)
  PROVE  IInv'
<1> USE DEF IInv
<1>1. TypeOK'
  BY DEF Call, TypeOK, Asked, Stage
<1>2. answer[c] = "none" /\ ~Won(c) /\ ~Won(c)'
  BY DEF Call, AnsweredWhenDone, Won, TypeOK
<1>3. \A x \in Attempts \ {c} : stage'[x] = stage[x] /\ row(x)' = row(x) /\ asked'[x] = asked[x]
  BY DEF Call, TypeOK, row
<1>4. stage'[c] = "begin" /\ answer' = answer
  BY DEF Call, TypeOK
<1>5. LockIsHeld' /\ AnsweredWhenDone'
  BY <1>2, <1>3, <1>4 DEF Call, LockIsHeld, InTransaction, AnsweredWhenDone
<1>6. CheckStillHolds'
  BY <1>3, <1>4 DEF CheckStillHolds
<1>7. SpentOnce'
  BY <1>2, <1>3, <1>4 DEF SpentOnce, Won
<1>8. SpendIsAuthorized'
  BY <1>2, <1>3, <1>4 DEF SpendIsAuthorized, Won
<1>9. RefusalsAreJustified'
  BY <1>2, <1>3, <1>4 DEF RefusalsAreJustified
<1> QED BY <1>1, <1>5, <1>6, <1>7, <1>8, <1>9

LEMMA BeginKeeps == ASSUME IInv, NEW c \in Attempts, Begin(c) PROVE IInv'
<1> USE DEF IInv
<1>1. TypeOK'
  BY DEF Begin, TypeOK, Stage
<1>2. \A x \in Attempts \ {c} : stage'[x] = stage[x]
  BY DEF Begin, TypeOK
<1>3. stage'[c] = "select" /\ stage[c] = "begin" /\ UNCHANGED <<table, asked, answer>>
  BY DEF Begin, TypeOK
<1>4. LockIsHeld'
  BY <1>2, <1>3, NoOneAssumption DEF Begin, LockIsHeld, InTransaction
<1>5. AnsweredWhenDone'
  BY <1>2, <1>3 DEF AnsweredWhenDone
<1>6. CheckStillHolds'
  BY <1>2, <1>3 DEF CheckStillHolds, row
<1>7. \A x \in Attempts : Won(x)' <=> Won(x)
  BY <1>2, <1>3 DEF Won
<1>8. SpentOnce' /\ SpendIsAuthorized' /\ RefusalsAreJustified'
  BY <1>3, <1>7 DEF SpentOnce, SpendIsAuthorized, RefusalsAreJustified, row
<1> QED BY <1>1, <1>4, <1>5, <1>6, <1>8

\* An attempt that ends without a spend, with an answer that the row justifies.
Justified(c, r) ==
  /\ r = "ALREADY_CONSUMED" => row(c).state = "spent"
  /\ r = "DIGEST_MISMATCH" => row(c).state # "absent" /\ row(c).digest # asked[c].digest
  /\ r = "EXPIRED" => row(c).state # "absent" /\ Expired(row(c), asked[c].at)

LEMMA EndingKeeps ==
  ASSUME IInv, NEW c \in Attempts, NEW r \in Answer \ {"none", "CONSUMED", "LOST"},
         stage[c] \notin {"done", "committed"}, Justified(c, r),
         UNCHANGED <<table, asked, now>>,
         writer' = IF writer = c THEN NoOne ELSE writer,
         stage' = [stage EXCEPT ![c] = "done"],
         answer' = [answer EXCEPT ![c] = r]
  PROVE  IInv'
<1> USE DEF IInv
<1>1. TypeOK'
  BY DEF TypeOK, Stage
<1>2. \A x \in Attempts \ {c} : stage'[x] = stage[x] /\ answer'[x] = answer[x]
  BY DEF TypeOK
<1>3. stage'[c] = "done" /\ answer'[c] = r /\ answer[c] = "none"
  BY DEF TypeOK, AnsweredWhenDone
<1>4. LockIsHeld'
  BY <1>2, <1>3, NoOneAssumption DEF LockIsHeld, InTransaction
<1>5. AnsweredWhenDone'
  BY <1>2, <1>3 DEF AnsweredWhenDone
<1>6. CheckStillHolds'
  BY <1>2, <1>3 DEF CheckStillHolds, row
<1>7. \A x \in Attempts : Won(x)' <=> Won(x)
  BY <1>2, <1>3 DEF Won
<1>8. SpentOnce' /\ SpendIsAuthorized'
  BY <1>7 DEF SpentOnce, SpendIsAuthorized, row
<1>9. RefusalsAreJustified'
  BY <1>2, <1>3 DEF RefusalsAreJustified, Justified, row
<1> QED BY <1>1, <1>4, <1>5, <1>6, <1>8, <1>9

LEMMA RollBackKeeps ==
  ASSUME IInv, NEW c \in Attempts, InTransaction(c),
         NEW r \in Answer \ {"none", "CONSUMED", "LOST"}, Justified(c, r), RollBack(c, r)
  PROVE  IInv'
<1>1. writer = c /\ stage[c] \notin {"done", "committed"}
  BY DEF IInv, LockIsHeld, InTransaction
<1>2. writer' = IF writer = c THEN NoOne ELSE writer
  BY <1>1 DEF RollBack
<1> QED BY <1>1, <1>2, EndingKeeps DEF RollBack

LEMMA BusyKeeps == ASSUME IInv, NEW c \in Attempts, Busy(c) PROVE IInv'
<1>1. writer # c
  BY DEF IInv, LockIsHeld, InTransaction, Busy
<1>2. Justified(c, "ERROR") /\ "ERROR" \in Answer \ {"none", "CONSUMED", "LOST"}
  BY DEF Justified, Answer
<1> QED BY <1>1, <1>2, EndingKeeps DEF Busy

LEMMA RaiseKeeps == ASSUME IInv, NEW c \in Attempts, Raise(c) PROVE IInv'
<1>1. Justified(c, "ERROR") /\ "ERROR" \in Answer \ {"none", "CONSUMED", "LOST"}
  BY DEF Justified, Answer
<1> QED BY <1>1, RollBackKeeps DEF Raise

\* Whoever dies after the commit has won already, and keeps the spend.
LEMMA CrashKeeps == ASSUME IInv, NEW c \in Attempts, Crash(c) PROVE IInv'
<1>1. CASE stage[c] # "committed"
  <2>1. Justified(c, "CRASHED") /\ "CRASHED" \in Answer \ {"none", "CONSUMED", "LOST"}
    BY DEF Justified, Answer
  <2> QED BY <1>1, <2>1, EndingKeeps DEF Crash
<1>2. CASE stage[c] = "committed"
  <2> USE DEF IInv
  <2>1. TypeOK'
    BY DEF Crash, TypeOK, Stage, Answer
  <2>2. \A x \in Attempts \ {c} : stage'[x] = stage[x] /\ answer'[x] = answer[x]
    BY DEF Crash, TypeOK
  <2>3. stage'[c] = "done" /\ answer'[c] = "LOST" /\ UNCHANGED <<table, asked>>
    BY <1>2 DEF Crash, TypeOK
  <2>4. writer # c /\ writer' = writer
    BY <1>2 DEF Crash, LockIsHeld, InTransaction
  <2>5. LockIsHeld'
    BY <2>2, <2>3, <2>4 DEF LockIsHeld, InTransaction
  <2>6. AnsweredWhenDone' /\ CheckStillHolds'
    BY <2>2, <2>3 DEF AnsweredWhenDone, CheckStillHolds, row
  <2>7. \A x \in Attempts : Won(x)' <=> Won(x)
    BY <1>2, <2>2, <2>3 DEF Won
  <2>8. SpentOnce' /\ SpendIsAuthorized'
    BY <2>3, <2>7 DEF SpentOnce, SpendIsAuthorized, row
  <2>9. RefusalsAreJustified'
    BY <2>2, <2>3 DEF RefusalsAreJustified, row
  <2> QED BY <2>1, <2>5, <2>6, <2>8, <2>9
<1> QED BY <1>1, <1>2

\* The next stage of a transaction whose check has been passed.
LEMMA AdvanceKeeps ==
  ASSUME IInv, NEW c \in Attempts, InTransaction(c), Refusal(row(c), asked[c]) = "none",
         NEW s \in {"update", "commit"}, stage' = [stage EXCEPT ![c] = s],
         UNCHANGED <<table, writer, asked, answer, now>>
  PROVE  IInv'
<1> USE DEF IInv
<1>1. TypeOK'
  BY DEF TypeOK, Stage
<1>2. \A x \in Attempts \ {c} : stage'[x] = stage[x]
  BY DEF TypeOK
<1>3. stage'[c] = s
  BY DEF TypeOK
<1>4. LockIsHeld' /\ AnsweredWhenDone' /\ CheckStillHolds'
  BY <1>2, <1>3 DEF LockIsHeld, InTransaction, AnsweredWhenDone, CheckStillHolds, row
<1>5. \A x \in Attempts : Won(x)' <=> Won(x)
  BY <1>2, <1>3 DEF Won, InTransaction
<1>6. SpentOnce' /\ SpendIsAuthorized' /\ RefusalsAreJustified'
  BY <1>5 DEF SpentOnce, SpendIsAuthorized, RefusalsAreJustified, row
<1> QED BY <1>1, <1>4, <1>6

LEMMA SelectKeeps == ASSUME IInv, NEW c \in Attempts, Select(c) PROVE IInv'
<1> DEFINE r == Refusal(row(c), asked[c])
<1>1. InTransaction(c)
  BY DEF Select, InTransaction
<1>2. CASE r = "none"
  BY <1>1, <1>2, AdvanceKeeps DEF Select
<1>3. CASE r # "none"
  <2>1. Justified(c, r)
    BY Refused DEF Justified
  <2>2. r \in Answer \ {"none", "CONSUMED", "LOST"}
    BY <1>3, Refused DEF Answer
  <2>3. RollBack(c, r)
    BY <1>3 DEF Select
  <2> QED BY <1>1, <2>1, <2>2, <2>3, RollBackKeeps
<1> QED BY <1>2, <1>3

\* The branch that finds the row changed is never taken: the lock is held.
LEMMA UpdateKeeps == ASSUME IInv, NEW c \in Attempts, Update(c) PROVE IInv'
<1>1. InTransaction(c) /\ stage[c] = "update"
  BY DEF Update, InTransaction
<1>2. Refusal(row(c), asked[c]) = "none"
  BY <1>1 DEF IInv, CheckStillHolds
<1>3. row(c) \in Row
  BY DEF IInv, TypeOK, Asked, row
<1>4. row(c).state = "open" /\ row(c).digest = asked[c].digest
  BY <1>2, <1>3, Cleared DEF Row
<1> QED BY <1>1, <1>2, <1>4, AdvanceKeeps DEF Update

\* The row was open, so nobody had won it, and it is what the check found.
LEMMA CommitKeeps == ASSUME IInv, NEW c \in Attempts, Commit(c) PROVE IInv'
<1> USE DEF IInv
<1> DEFINE a == asked[c].approval
<1>1. stage[c] = "commit" /\ writer = c /\ answer[c] = "none"
  BY DEF Commit, LockIsHeld, InTransaction, AnsweredWhenDone
<1>2. a \in Approvals /\ row(c) \in Row
  BY DEF TypeOK, Asked, row
<1>3. row(c).state = "open" /\ row(c).digest = asked[c].digest /\ ~Expired(row(c), asked[c].at)
  BY <1>1, <1>2, Cleared DEF CheckStillHolds, Row
<1>4. table'[a] = [row(c) EXCEPT !.state = "spent", !.at = asked[c].at]
  BY <1>2 DEF Commit, TypeOK, row
<1>5. /\ table'[a].state = "spent"
      /\ table'[a].at = asked[c].at
      /\ table'[a].digest = row(c).digest
      /\ table'[a].expires = row(c).expires
  BY <1>2, <1>4 DEF Row
<1>6. \A b \in Approvals \ {a} : table'[b] = table[b]
  BY DEF Commit, TypeOK
<1>7. TypeOK'
  BY DEF Commit, TypeOK, Row, Asked, Stage
<1>8. \A x \in Attempts \ {c} : stage'[x] = stage[x]
  BY DEF Commit, TypeOK
<1>9. stage'[c] = "committed" /\ UNCHANGED <<asked, answer, now>> /\ writer' = NoOne
  BY DEF Commit, TypeOK
<1>10. \A x \in Attempts \ {c} : ~InTransaction(x)
  BY <1>1 DEF LockIsHeld
<1>11. LockIsHeld' /\ AnsweredWhenDone' /\ CheckStillHolds'
  BY <1>1, <1>8, <1>9, <1>10, NoOneAssumption
     DEF LockIsHeld, AnsweredWhenDone, CheckStillHolds, InTransaction
<1>12. \A x \in Attempts : Won(x)' <=> Won(x) \/ x = c
  BY <1>8, <1>9 DEF Won
<1>13. \A x \in Attempts : Won(x) => asked[x].approval # a
  BY <1>3 DEF SpendIsAuthorized, row
<1>14. SpentOnce'
  BY <1>9, <1>12, <1>13 DEF SpentOnce
<1>15. SpendIsAuthorized'
  <2> SUFFICES ASSUME NEW x \in Attempts, Won(x)'
               PROVE  /\ row(x)'.state = "spent"
                      /\ row(x)'.digest = asked[x].digest
                      /\ row(x)'.at = asked[x].at
                      /\ ~Expired(row(x)', asked[x].at)
    BY <1>9 DEF SpendIsAuthorized, Expired
  <2>1. CASE x = c
    BY <1>3, <1>5, <1>9, <2>1 DEF row, Expired
  <2>2. CASE x # c
    <3>1. Won(x) /\ asked[x].approval # a /\ asked[x].approval \in Approvals
      BY <1>12, <1>13, <2>2 DEF TypeOK, Asked
    <3>2. row(x)' = row(x)
      BY <1>6, <1>9, <3>1 DEF row
    <3> QED BY <3>1, <3>2 DEF SpendIsAuthorized
  <2> QED BY <2>1, <2>2
<1>16. RefusalsAreJustified'
  <2> SUFFICES ASSUME NEW x \in Attempts
               PROVE  /\ answer[x] = "ALREADY_CONSUMED" => row(x)'.state = "spent"
                      /\ answer[x] = "DIGEST_MISMATCH" =>
                           row(x)'.state # "absent" /\ row(x)'.digest # asked[x].digest
                      /\ answer[x] = "EXPIRED" =>
                           row(x)'.state # "absent" /\ Expired(row(x)', asked[x].at)
    BY <1>9 DEF RefusalsAreJustified, Expired
  <2>1. CASE asked[x].approval = a
    BY <1>5, <1>9, <2>1 DEF RefusalsAreJustified, row, Expired
  <2>2. CASE asked[x].approval # a
    <3>1. row(x)' = row(x)
      BY <1>6, <1>9, <2>2 DEF TypeOK, Asked, row
    <3> QED BY <3>1 DEF RefusalsAreJustified
  <2> QED BY <2>1, <2>2
<1> QED BY <1>7, <1>11, <1>14, <1>15, <1>16

LEMMA ReturnKeeps == ASSUME IInv, NEW c \in Attempts, Return(c) PROVE IInv'
<1> USE DEF IInv
<1>1. TypeOK'
  BY DEF Return, TypeOK, Stage, Answer
<1>2. \A x \in Attempts \ {c} : stage'[x] = stage[x] /\ answer'[x] = answer[x]
  BY DEF Return, TypeOK
<1>3. /\ stage[c] = "committed" /\ stage'[c] = "done" /\ answer'[c] = "CONSUMED"
      /\ UNCHANGED <<table, writer, asked, now>>
  BY DEF Return, TypeOK
<1>4. LockIsHeld' /\ AnsweredWhenDone' /\ CheckStillHolds'
  BY <1>2, <1>3 DEF LockIsHeld, InTransaction, AnsweredWhenDone, CheckStillHolds, row
<1>5. \A x \in Attempts : Won(x)' <=> Won(x)
  BY <1>2, <1>3 DEF Won
<1>6. SpentOnce' /\ SpendIsAuthorized'
  BY <1>3, <1>5 DEF SpentOnce, SpendIsAuthorized, row
<1>7. RefusalsAreJustified'
  BY <1>2, <1>3 DEF RefusalsAreJustified, row
<1> QED BY <1>1, <1>4, <1>6, <1>7

LEMMA Inductive == IInv /\ [Next]_vars => IInv'
<1> SUFFICES ASSUME IInv, [Next]_vars PROVE IInv'
  OBVIOUS
<1>1. ASSUME NEW c \in Attempts, Step(c) PROVE IInv'
  BY <1>1, BeginKeeps, BusyKeeps, SelectKeeps, UpdateKeeps, CommitKeeps, ReturnKeeps
     DEF Step
<1>2. ASSUME NEW c \in Attempts, Raise(c) \/ Crash(c) PROVE IInv'
  BY <1>2, RaiseKeeps, CrashKeeps
<1>3. ASSUME NEW a \in Approvals, IssueFails(a) PROVE IInv'
  BY <1>3, StutteringKeeps DEF IssueFails
<1>4. ASSUME NEW a \in Approvals, NEW d \in Digests, NEW e \in Expiries, Issue(a, d, e) PROVE IInv'
  BY <1>4, IssueKeeps
<1>5. ASSUME NEW c \in Attempts, NEW a \in Approvals, NEW d \in Digests,
         NEW t \in Nat, Call(c, a, d, t) PROVE IInv'
  BY <1>5, CallKeeps
<1>6. 0..MaxTime \subseteq Nat
  BY MaxTimeAssumption
<1> QED BY <1>1, <1>2, <1>3, <1>4, <1>5, <1>6, TickKeeps, StutteringKeeps DEF Next

LEMMA Invariance == Spec => []IInv
BY Initially, Inductive, PTL DEF Spec

-----------------------------------------------------------------------------
(* The theorems.                                                           *)

(* The variables of the store keep their types: a spent row is stamped     *)
(* with a time, and an attempt is where consume() can be.                  *)
THEOREM TypeCorrect == Spec => []TypeOK
BY Invariance, PTL DEF IInv

(* An approval is consumed by at most one attempt, however many threads,   *)
(* stores and processes race for it, fail or die between two statements.   *)
THEOREM ApprovalIsSpentOnce == Spec => []SpentOnce
BY Invariance, PTL DEF IInv

(* A consumption that is committed is in the row, bound to the digest that *)
(* was presented, and was not expired at the time consume() took.          *)
THEOREM ConsumptionIsAuthorized == Spec => []SpendIsAuthorized
BY Invariance, PTL DEF IInv

(* An attempt is refused for what the database holds for good, never for   *)
(* what a transaction that was rolled back had written.                    *)
THEOREM RefusalsHold == Spec => []RefusalsAreJustified
BY Invariance, PTL DEF IInv

\* Of all actions, two write the table.
LEMMA TableWriters ==
  ASSUME IInv, [Next]_vars
  PROVE  \/ table' = table
         \/ \E a \in Approvals, d \in Digests, e \in Expiries : Issue(a, d, e)
         \/ \E c \in Attempts : Commit(c)
BY DEF Next, vars, IssueFails, Call, Step, Begin, Busy, Select, Update, RollBack, Return,
       Raise,
       Crash, Tick

(* A row that exists is never issued again, rebound, reopened or stamped   *)
(* a second time.                                                          *)
THEOREM RowsAdvance == Spec => RowsOnlyAdvance
<1> DEFINE A == \A a \in Approvals :
              table[a].state # "absent" /\ table'[a] # table[a] =>
                /\ table[a].state = "open" /\ table'[a].state = "spent"
                /\ table'[a].digest = table[a].digest
                /\ table'[a].expires = table[a].expires
<1>1. IInv /\ [Next]_vars => [A]_vars
  <2> SUFFICES ASSUME IInv, [Next]_vars, NEW a \in Approvals,
                      table[a].state # "absent", table'[a] # table[a]
               PROVE  /\ table[a].state = "open" /\ table'[a].state = "spent"
                      /\ table'[a].digest = table[a].digest
                      /\ table'[a].expires = table[a].expires
    OBVIOUS
  <2>1. PICK c \in Attempts : Commit(c)
    BY TableWriters DEF Issue, IInv, TypeOK
  <2>2. a = asked[c].approval
    BY <2>1 DEF Commit, IInv, TypeOK
  <2>3. stage[c] = "commit" /\ row(c) = table[a] /\ table[a] \in Row
    BY <2>1, <2>2 DEF Commit, row, IInv, TypeOK
  <2>4. table[a].state = "open"
    BY <2>3, Cleared DEF IInv, CheckStillHolds, Row
  <2>5. table'[a] = [table[a] EXCEPT !.state = "spent", !.at = asked[c].at]
    BY <2>1, <2>2 DEF Commit, IInv, TypeOK
  <2> QED BY <2>3, <2>4, <2>5 DEF Row
<1> QED BY <1>1, Invariance, PTL DEF Spec, RowsOnlyAdvance

-----------------------------------------------------------------------------
(* Refinement.                                                             *)

granted == {a \in Approvals : table[a].state # "absent"}
winners == [a \in Approvals |-> {c \in Attempts : Won(c) /\ asked[c].approval = a}]
told    == {c \in Attempts : answer[c] = "CONSUMED"}

LEMMA InitMaps == Init => Grant!Init
BY DEF Init, Grant!Init, Won, NoRow

\* Whoever has not committed before or after leaves no trace above.
LEMMA Invisible ==
  ASSUME UNCHANGED asked,
         \A a \in Approvals : table'[a].state # "absent" <=> table[a].state # "absent",
         \A c \in Attempts : Won(c)' <=> Won(c),
         \A c \in Attempts : answer'[c] = "CONSUMED" <=> answer[c] = "CONSUMED"
  PROVE  UNCHANGED <<granted, winners, told>>
BY DEF granted, winners, told

LEMMA IssueMaps ==
  ASSUME IInv, NEW a \in Approvals, NEW d \in Digests, NEW e \in Expiries, Issue(a, d, e)
  PROVE  Grant!Grant(a)
<1>1. a \notin granted /\ granted' = granted \union {a}
  BY DEF Issue, granted, IInv, TypeOK
<1>2. UNCHANGED <<winners, told>>
  BY DEF Issue, winners, told, Won
<1> QED BY <1>1, <1>2 DEF Grant!Grant, granted, winners, told

LEMMA CallMaps ==
  ASSUME IInv, NEW c \in Attempts, NEW a \in Approvals, NEW d \in Digests,
         NEW t \in Nat, Call(c, a, d, t)
  PROVE  UNCHANGED <<granted, winners, told>>
<1>1. answer[c] = "none" /\ ~Won(c) /\ ~Won(c)'
  BY DEF Call, IInv, AnsweredWhenDone, Won, TypeOK
<1>2. \A x \in Attempts \ {c} : asked'[x] = asked[x] /\ (Won(x)' <=> Won(x))
  BY DEF Call, IInv, TypeOK, Won
<1>3. winners' = winners
  BY <1>1, <1>2 DEF winners
<1> QED BY <1>3 DEF Call, granted, told

LEMMA CommitMaps ==
  ASSUME IInv, NEW c \in Attempts, Commit(c), NEW a, a = asked[c].approval
  PROVE  a \in Approvals /\ Grant!Win(c, a)
<1>1. a \in Approvals /\ row(c) \in Row /\ stage[c] = "commit" /\ answer[c] = "none"
  BY DEF Commit, IInv, TypeOK, Asked, row, AnsweredWhenDone
<1>2. table[a].state = "open"
  BY <1>1, Cleared DEF IInv, CheckStillHolds, Row, row
<1>3. \A x \in Attempts : Won(x) => asked[x].approval # a
  BY <1>2 DEF IInv, SpendIsAuthorized, row
<1>4. a \in granted /\ winners[a] = {} /\ \A b \in Approvals : c \notin winners[b]
  BY <1>1, <1>2, <1>3 DEF granted, winners, Won
<1>5. \A x \in Attempts : Won(x)' <=> Won(x) \/ x = c
  BY DEF Commit, IInv, TypeOK, Won
<1>6. asked' = asked
  BY DEF Commit
<1>7. \A b \in Approvals : winners'[b] = IF b = a THEN {c} ELSE winners[b]
  BY <1>3, <1>5, <1>6 DEF winners
<1>8. winners' = [winners EXCEPT ![a] = {c}]
  BY <1>7 DEF winners
<1>9. granted' = granted /\ told' = told
  <2>1. \A b \in Approvals : table'[b].state # "absent" <=> table[b].state # "absent"
    BY <1>1, <1>2 DEF Commit, IInv, TypeOK, Row
  <2> QED BY <2>1 DEF granted, told, Commit
<1> QED BY <1>1, <1>4, <1>8, <1>9 DEF Grant!Win, Grant!Won, granted, winners, told

LEMMA ReturnMaps == ASSUME IInv, NEW c \in Attempts, Return(c) PROVE Grant!Tell(c)
<1>1. asked[c].approval \in Approvals /\ c \in winners[asked[c].approval]
  BY DEF Return, winners, Won, IInv, TypeOK, Asked
<1>2. \A x \in Attempts : Won(x)' <=> Won(x)
  BY DEF Return, IInv, TypeOK, Won
<1>3. granted' = granted /\ winners' = winners
  BY <1>2 DEF Return, granted, winners
<1>4. told' = told \union {c}
  BY DEF Return, told, IInv, TypeOK
<1> QED BY <1>1, <1>3, <1>4 DEF Grant!Tell, Grant!Won, granted, winners, told

\* Every other step of an attempt is a stutter: nothing is won or lost by it.
LEMMA OthersStutter ==
  ASSUME IInv, NEW c \in Attempts,
         Begin(c) \/ Busy(c) \/ Select(c) \/ Update(c) \/ Raise(c) \/ Crash(c)
  PROVE  UNCHANGED <<granted, winners, told>>
<1>1. UNCHANGED <<table, asked>>
  BY DEF Begin, Busy, Select, Update, Raise, Crash, RollBack
<1>2. \A x \in Attempts \ {c} : stage'[x] = stage[x] /\ answer'[x] = answer[x]
  BY DEF Begin, Busy, Select, Update, Raise, Crash, RollBack, IInv, TypeOK
<1>3. stage[c] # "done" /\ answer[c] = "none"
  BY DEF Begin, Busy, Select, Update, Raise, Crash, InTransaction, IInv, AnsweredWhenDone
<1>4. stage'[c] # "committed" /\ answer'[c] # "CONSUMED"
  BY <1>3, Refused DEF Begin, Busy, Select, Update, Raise, Crash, RollBack, IInv, TypeOK
<1>5. answer'[c] = "LOST" <=> stage[c] = "committed"
  BY <1>3, Refused
     DEF Begin, Busy, Select, Update, Raise, Crash, RollBack, InTransaction, IInv, TypeOK
<1>6. \A x \in Attempts : Won(x)' <=> Won(x)
  BY <1>2, <1>3, <1>4, <1>5 DEF Won
<1> QED BY <1>1, <1>2, <1>3, <1>4, <1>6, Invisible

LEMMA NextMaps ==
  ASSUME IInv, [Next]_vars
  PROVE  Grant!Next \/ UNCHANGED <<granted, winners, told>>
<1>1. ASSUME NEW c \in Attempts, Step(c) \/ Raise(c) \/ Crash(c)
      PROVE  Grant!Next \/ UNCHANGED <<granted, winners, told>>
  <2>1. CASE Commit(c)
    <3>1. PICK a : a = asked[c].approval
      OBVIOUS
    <3>2. a \in Approvals /\ Grant!Win(c, a)
      BY <2>1, <3>1, CommitMaps
    <3> QED BY <3>2 DEF Grant!Next
  <2>2. CASE Return(c)
    BY <2>2, ReturnMaps DEF Grant!Next
  <2> QED BY <1>1, <2>1, <2>2, OthersStutter DEF Step
<1>2. ASSUME NEW a \in Approvals, NEW d \in Digests, NEW e \in Expiries, Issue(a, d, e)
      PROVE  Grant!Next
  BY <1>2, IssueMaps DEF Grant!Next
<1>3. CASE Tick \/ UNCHANGED vars \/ \E a \in Approvals : IssueFails(a)
  BY <1>3 DEF Tick, vars, IssueFails, granted, winners, told, Won
<1> QED BY <1>1, <1>2, <1>3, CallMaps DEF Next

(* The store is a single-use grant: a commit is the one step that wins an  *)
(* approval, and every other step of consume() is a stutter above.         *)
THEOREM StoreIsSingleUse == Spec => ImplementsSingleUseGrant
<1>1. IInv /\ [Next]_vars => [Grant!Next]_(Grant!vars)
  BY NextMaps DEF Grant!vars, granted, winners, told
<1> QED BY <1>1, InitMaps, Invariance, PTL DEF Spec, ImplementsSingleUseGrant, Grant!Spec
=============================================================================
