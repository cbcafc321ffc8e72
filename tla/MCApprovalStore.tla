-------------------------- MODULE MCApprovalStore ---------------------------
(* Two attempts on two approvals with two digests: a winner and a loser,   *)
(* or one that mistakes the plan or the approval, before and after an      *)
(* expiry, and attempts that fail and are made again.                      *)
EXTENDS ApprovalStore
=============================================================================
