------------------------------ MODULE MCEngine ------------------------------
(***************************************************************************)
(* Instances of Engine for TLC.  The .cfg files give the sizes; goroutine  *)
(* names are interchangeable, and so are handlers and configurations.      *)
(***************************************************************************)
EXTENDS Engine, TLC

RunSymmetry == Permutations(Runs)
Symmetry == Permutations(Runs) \cup Permutations(Cfgs) \cup Permutations(Callers)
=============================================================================
