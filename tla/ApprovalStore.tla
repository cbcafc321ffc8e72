--------------------------- MODULE ApprovalStore ----------------------------
(***************************************************************************)
(* ApprovalStore: approvals persisted in SQLite and consumed once, by      *)
(* attempts of any number of threads, store instances and processes.       *)
(*                                                                         *)
(* A step is one SQL statement or what a caller does between two of them.  *)
(* SQLite is not in the repository; of it the model keeps the write lock   *)
(* that BEGIN IMMEDIATE takes and the end of the transaction gives back,   *)
(* and that a statement's effect is seen by others after the commit only.  *)
(***************************************************************************)
EXTENDS Naturals

CONSTANTS
  Approvals,   \* approval_id values
  Digests,     \* approval-plan digests, schema, algorithm and node count included
  Attempts,    \* calls of consume()
  NoOne,
  MaxTime      \* bounds the clock

ASSUME DigestsAssumption == Digests # {}
ASSUME NoOneAssumption == NoOne \notin Attempts
ASSUME MaxTimeAssumption == MaxTime \in Nat

VARIABLES
  table,    \* approval_grants: a row for each approval that is not "absent"
  writer,   \* the attempt whose transaction holds the write lock
  stage,    \* where each attempt is in consume()
  asked,    \* its arguments, the time it goes by and whether the caller gave another
  answer,   \* its outcome
  now       \* the clock

vars == <<table, writer, stage, asked, answer, now>>

-----------------------------------------------------------------------------
\* expires is empty when expires_at is NULL, and holds one time otherwise.
Row == [state : {"absent", "open", "spent"}, digest : Digests, expires : SUBSET Nat, at : Nat]
Asked == [approval : Approvals, digest : Digests, at : Nat]
Stage == {"idle", "begin", "select", "update", "commit", "committed", "done"}

\* "ERROR": an exception reached the caller.  "LOST": the process died after
\* the commit; "CRASHED": before it.
Answer == {"none", "CONSUMED", "NOT_FOUND", "DIGEST_MISMATCH", "ALREADY_CONSUMED", "EXPIRED",
           "ERROR", "LOST", "CRASHED"}

anyDigest == CHOOSE d \in Digests : TRUE
NoRow == [state |-> "absent", digest |-> anyDigest, expires |-> {}, at |-> 0]

row(c) == table[asked[c].approval]

Expired(r, t) == \E e \in r.expires : t >= e

InTransaction(c) == stage[c] \in {"select", "update", "commit"}

Init ==
  /\ table = [a \in Approvals |-> NoRow]
  /\ writer = NoOne
  /\ stage = [c \in Attempts |-> "idle"]
  /\ asked \in [Attempts -> {[approval |-> a, digest |-> anyDigest, at |-> 0] :
                            a \in Approvals}]
  /\ answer = [c \in Attempts |-> "none"]
  /\ now = 0

-----------------------------------------------------------------------------
(* issue()                                                                 *)

\* Fault: INSERT OR REPLACE.
IssueReplaces(a, d, e) ==
  /\ writer = NoOne
  /\ table' = [table EXCEPT ![a] = [state |-> "open", digest |-> d, expires |-> e, at |-> 0]]
  /\ UNCHANGED <<writer, stage, asked, answer, now>>

\* The row is inserted in a transaction of its own.  created_at may be given
\* and lie in the past, so expires_at may already be over.
Issue(a, d, e) ==
  /\ table[a].state = "absent"
  /\ writer = NoOne
  /\ table' = [table EXCEPT ![a] = [state |-> "open", digest |-> d, expires |-> e, at |-> 0]]
  /\ UNCHANGED <<writer, stage, asked, answer, now>>

\* The primary key is taken, or the lock is not free in time: nothing is written.
IssueFails(a) ==
  /\ table[a].state # "absent" \/ writer # NoOne
  /\ UNCHANGED vars

-----------------------------------------------------------------------------
(* consume()                                                               *)

\* The clock is read before the transaction is begun, unless the caller gave
\* another time as consumed_at.
Call(c, a, d, t) ==
  /\ stage[c] = "idle"
  /\ asked' = [asked EXCEPT ![c] = [approval |-> a, digest |-> d, at |-> t]]
  /\ stage' = [stage EXCEPT ![c] = "begin"]
  /\ UNCHANGED <<table, writer, answer, now>>

\* Fault: a deferred transaction, which waits for nobody.
BeginDeferred(c) ==
  /\ stage[c] = "begin"
  /\ writer' = c
  /\ stage' = [stage EXCEPT ![c] = "select"]
  /\ UNCHANGED <<table, asked, answer, now>>

Begin(c) ==
  /\ stage[c] = "begin"
  /\ writer = NoOne
  /\ writer' = c
  /\ stage' = [stage EXCEPT ![c] = "select"]
  /\ UNCHANGED <<table, asked, answer, now>>

\* Fault: a lock that is not free passes for a race that is lost.
BusyLoses(c) ==
  /\ stage[c] = "begin"
  /\ writer # NoOne
  /\ stage' = [stage EXCEPT ![c] = "done"]
  /\ answer' = [answer EXCEPT ![c] = "ALREADY_CONSUMED"]
  /\ UNCHANGED <<table, writer, asked, now>>

\* The lock was not free for ten seconds.
Busy(c) ==
  /\ stage[c] = "begin"
  /\ writer # NoOne
  /\ stage' = [stage EXCEPT ![c] = "done"]
  /\ answer' = [answer EXCEPT ![c] = "ERROR"]
  /\ UNCHANGED <<table, writer, asked, now>>

\* Fault: whatever was rolled back is tried again.
RollBackAndRetry(c, r) ==
  /\ writer' = NoOne
  /\ stage' = [stage EXCEPT ![c] = "begin"]
  /\ UNCHANGED <<table, asked, answer, now>>

\* The transaction ends without an effect and the call returns or raises r.
RollBack(c, r) ==
  /\ writer' = NoOne
  /\ stage' = [stage EXCEPT ![c] = "done"]
  /\ answer' = [answer EXCEPT ![c] = r]
  /\ UNCHANGED <<table, asked, now>>

\* Fault: the expiry is not looked at.
RefusalNoExpiry(r, q) ==
  IF r.state = "absent" THEN "NOT_FOUND"
  ELSE IF r.digest # q.digest THEN "DIGEST_MISMATCH"
  ELSE IF r.state = "spent" THEN "ALREADY_CONSUMED"
  ELSE "none"

Refusal(r, q) ==
  IF r.state = "absent" THEN "NOT_FOUND"
  ELSE IF r.digest # q.digest THEN "DIGEST_MISMATCH"
  ELSE IF r.state = "spent" THEN "ALREADY_CONSUMED"
  ELSE IF Expired(r, q.at) THEN "EXPIRED"
  ELSE "none"

Select(c) ==
  /\ stage[c] = "select"
  /\ LET refusal == Refusal(row(c), asked[c]) IN
     IF refusal = "none"
     THEN /\ stage' = [stage EXCEPT ![c] = "update"]
          /\ UNCHANGED <<table, writer, asked, answer, now>>
     ELSE RollBack(c, refusal)

\* The conditional UPDATE, and what its rowcount leads to.
Update(c) ==
  /\ stage[c] = "update"
  /\ IF row(c).state = "open" /\ row(c).digest = asked[c].digest
     THEN /\ stage' = [stage EXCEPT ![c] = "commit"]
          /\ UNCHANGED <<table, writer, asked, answer, now>>
     ELSE RollBack(c, "ALREADY_CONSUMED")

Commit(c) ==
  /\ stage[c] = "commit"
  /\ table' = [table EXCEPT ![asked[c].approval] = [@ EXCEPT !.state = "spent", !.at = asked[c].at]]
  /\ writer' = NoOne
  /\ stage' = [stage EXCEPT ![c] = "committed"]
  /\ UNCHANGED <<asked, answer, now>>

Return(c) ==
  /\ stage[c] = "committed"
  /\ stage' = [stage EXCEPT ![c] = "done"]
  /\ answer' = [answer EXCEPT ![c] = "CONSUMED"]
  /\ UNCHANGED <<table, writer, asked, now>>

\* Fault: a commit that fails passes for one that succeeded.
RaiseAsConsumed(c) == InTransaction(c) /\ RollBack(c, IF stage[c] = "commit" THEN "CONSUMED" ELSE "ERROR")

\* A statement or the commit raises: rolled back, and raised to the caller.
Raise(c) == InTransaction(c) /\ RollBack(c, "ERROR")

\* The process dies; an open transaction goes with it.
Crash(c) ==
  /\ stage[c] \notin {"idle", "done"}
  /\ writer' = IF writer = c THEN NoOne ELSE writer
  /\ stage' = [stage EXCEPT ![c] = "done"]
  /\ answer' = [answer EXCEPT ![c] = IF stage[c] = "committed" THEN "LOST" ELSE "CRASHED"]
  /\ UNCHANGED <<table, asked, now>>

Tick ==
  /\ now < MaxTime
  /\ now' = now + 1
  /\ UNCHANGED <<table, writer, stage, asked, answer>>

Step(c) == Begin(c) \/ Busy(c) \/ Select(c) \/ Update(c) \/ Commit(c) \/ Return(c)

Expiries == {{}} \union {{t} : t \in 1..MaxTime}

Next ==
  \/ \E a \in Approvals, d \in Digests, e \in Expiries : Issue(a, d, e)
  \/ \E a \in Approvals : IssueFails(a)
  \/ \E c \in Attempts, a \in Approvals, d \in Digests, t \in 0..MaxTime : Call(c, a, d, t)
  \/ \E c \in Attempts : Step(c) \/ Raise(c) \/ Crash(c)
  \/ Tick

\* A thread inside consume() goes on; nobody has to call, and nothing has to fail.
Spec == Init /\ [][Next]_vars /\ \A c \in Attempts : WF_vars(Step(c))

-----------------------------------------------------------------------------
(* Properties.                                                             *)

TypeOK ==
  /\ table \in [Approvals -> Row]
  /\ writer \in Attempts \union {NoOne}
  /\ stage \in [Attempts -> Stage]
  /\ asked \in [Attempts -> Asked]
  /\ answer \in [Attempts -> Answer]
  /\ now \in Nat

\* The attempts whose spend is in the database.
Won(c) == stage[c] = "committed" \/ answer[c] \in {"CONSUMED", "LOST"}

(* One approval authorizes at most one consumption, whoever attempts it    *)
(* and in whatever order statements, failures and crashes come.            *)
SpentOnce == \A c, d \in Attempts :
  Won(c) /\ Won(d) /\ asked[c].approval = asked[d].approval => c = d

(* A consumption that is reported is in the database, for the digest and   *)
(* with the time that the attempt presented, and that time is not expired. *)
SpendIsAuthorized == \A c \in Attempts : Won(c) =>
  /\ row(c).state = "spent"
  /\ row(c).digest = asked[c].digest
  /\ row(c).at = asked[c].at
  /\ ~Expired(row(c), asked[c].at)

(* A refusal is never owed to a spend that was rolled back: the loser of a *)
(* race is told ALREADY_CONSUMED only when the winner has committed.       *)
RefusalsAreJustified == \A c \in Attempts :
  /\ answer[c] = "ALREADY_CONSUMED" => row(c).state = "spent"
  /\ answer[c] = "DIGEST_MISMATCH" => row(c).state # "absent" /\ row(c).digest # asked[c].digest
  /\ answer[c] = "EXPIRED" => row(c).state # "absent" /\ Expired(row(c), asked[c].at)

(* A row is never rebound, reopened or stamped again: the one change it    *)
(* sees after the insert is from open to spent.                            *)
RowsOnlyAdvance == [][\A a \in Approvals :
  table[a].state # "absent" /\ table'[a] # table[a] =>
    /\ table[a].state = "open" /\ table'[a].state = "spent"
    /\ table'[a].digest = table[a].digest
    /\ table'[a].expires = table[a].expires]_vars

(* Every attempt ends, whoever holds the write lock or dies with it.       *)
EveryAttemptEnds == \A c \in Attempts : stage[c] # "idle" ~> stage[c] = "done"

(* ApprovalStore implements the single-use grant.                          *)
Grant == INSTANCE SingleUseGrant WITH
  granted <- {a \in Approvals : table[a].state # "absent"},
  winners <- [a \in Approvals |-> {c \in Attempts : Won(c) /\ asked[c].approval = a}],
  told    <- {c \in Attempts : answer[c] = "CONSUMED"}

ImplementsSingleUseGrant == Grant!Spec
=============================================================================
