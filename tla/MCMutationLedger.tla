-------------------------- MODULE MCMutationLedger --------------------------
(* One operation that is read back and one that is not, a worker that      *)
(* crashes, and one retry by hand.                                         *)
EXTENDS MutationLedger
=============================================================================
