----------------------------- MODULE OnceEffect -----------------------------
(***************************************************************************)
(* What a caller is promised of operations that are read back: the effect  *)
(* of each happens at most once, and an operation is called complete only  *)
(* after it has happened.  MutationLedger implements this specification.   *)
(***************************************************************************)
EXTENDS Naturals

CONSTANT Promised

VARIABLES
  times,    \* how often the effect of each operation has happened
  complete  \* the operations that have been called complete

vars == <<times, complete>>

Init == times = [o \in Promised |-> 0] /\ complete = {}

TakeEffect(o) ==
  /\ times[o] = 0
  /\ times' = [times EXCEPT ![o] = 1]
  /\ UNCHANGED complete

Complete(o) ==
  /\ times[o] = 1
  /\ complete' = complete \union {o}
  /\ UNCHANGED times

Next == \E o \in Promised : TakeEffect(o) \/ Complete(o)

Spec == Init /\ [][Next]_vars
=============================================================================
