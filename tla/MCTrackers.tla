----------------------------- MODULE MCTrackers -----------------------------
(***************************************************************************)
(* Instances of Trackers for TLC.  Handlers, keys, names and               *)
(* configurations are interchangeable.                                     *)
(***************************************************************************)
EXTENDS Trackers, TLC

Symmetry ==
  Permutations(Handlers) \cup Permutations(Keys)
    \cup Permutations(Names) \cup Permutations(Cfgs)
=============================================================================
