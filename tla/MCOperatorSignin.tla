-------------------------- MODULE MCOperatorSignin --------------------------
(* With three tabs there is room for a source, its popup and a popup that  *)
(* an earlier click left behind; two clients hold a run and the submit     *)
(* that an earlier run has given up on.  Clients are interchangeable, and  *)
(* so are tabs; the run with a liveness property uses no symmetry.         *)
EXTENDS OperatorSignin, TLC

MCSymmetry == Permutations(Pages) \union Permutations(Clients)
=============================================================================
