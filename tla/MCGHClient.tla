----------------------------- MODULE MCGHClient -----------------------------
(***************************************************************************)
(* Instances of GHClient for TLC.  Calls are interchangeable.              *)
(***************************************************************************)
EXTENDS GHClient, TLC

Symmetry == Permutations(Calls)
=============================================================================
