-------------------------------- MODULE Kept --------------------------------
(***************************************************************************)
(* The loops that copy what qualifies from one slice to another, as a fold *)
(* that can be proved about (FoldLemmas), and sorting, by places.          *)
(***************************************************************************)
EXTENDS Integers, Sequences, FiniteSets, SequencesExt

(* The elements of s that are in A, in their order. *)
Kept(s, A) == FoldLeft(LAMBDA t, x : IF x \in A THEN Append(t, x) ELSE t, <<>>, s)

(* By key, what is equal in the order it came in: an item's place is how *)
(* many do not come after it.                                            *)
StableSort(key, s) ==
  LET first(i, j) == key[s[i]] < key[s[j]] \/ (key[s[i]] = key[s[j]] /\ i <= j)
      place(j) == Cardinality({i \in DOMAIN s : first(i, j)})
  IN [n \in DOMAIN s |-> s[CHOOSE i \in DOMAIN s : place(i) = n]]
=============================================================================
