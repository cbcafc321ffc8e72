--------------------------- MODULE SingleUseGrant ---------------------------
(***************************************************************************)
(* What an approval is worth: it is granted once, at most one attempt ever *)
(* wins it, and an attempt is told that it did only if it is that one.     *)
(* ApprovalStore implements this specification.                            *)
(***************************************************************************)
CONSTANTS
  Approvals,
  Attempts

VARIABLES
  granted,   \* the approvals that exist
  winners,   \* for each approval, the attempts that have won it
  told       \* the attempts that know they have won

vars == <<granted, winners, told>>

Won(c) == \E a \in Approvals : c \in winners[a]

Init ==
  /\ granted = {}
  /\ winners = [a \in Approvals |-> {}]
  /\ told = {}

Grant(a) ==
  /\ a \notin granted
  /\ granted' = granted \union {a}
  /\ UNCHANGED <<winners, told>>

\* An attempt wins one approval that exists and that nobody has won.
Win(c, a) ==
  /\ a \in granted
  /\ winners[a] = {}
  /\ ~Won(c)
  /\ winners' = [winners EXCEPT ![a] = {c}]
  /\ UNCHANGED <<granted, told>>

Tell(c) ==
  /\ Won(c)
  /\ told' = told \union {c}
  /\ UNCHANGED <<granted, winners>>

Next ==
  \/ \E a \in Approvals : Grant(a)
  \/ \E c \in Attempts, a \in Approvals : Win(c, a)
  \/ \E c \in Attempts : Tell(c)

Spec == Init /\ [][Next]_vars
=============================================================================
