----------------------------- MODULE MCControl -----------------------------
EXTENDS Control, TLC
CONSTANTS s1, s2, tab1, tab2, r1, r2
MCFiles == <<"f1", "f2">>
Symmetry == Permutations({s1, s2}) \cup Permutations({tab1, tab2}) \cup Permutations({r1, r2})

(* "a", "A", "a 3" and a name of which slugify leaves nothing. *)
Name(slug, look) == [slug |-> slug, look |-> look]
MCNames == {Name(<<7>>, "plain"), Name(<<7>>, "capital"), Name(<<7, 3>>, "plain"), Name(<<>>, "dots")}
MCRows == {[plugin |-> "p", key |-> <<7>>, name |-> NoName], [plugin |-> "p", key |-> <<>>, name |-> Name(<<7>>, "capital")],
              [plugin |-> "p", key |-> <<8>>, name |-> Name(<<7>>, "plain")], [plugin |-> "", key |-> <<8>>, name |-> NoName],
              [plugin |-> "p", key |-> <<>>, name |-> NoName]}
MCHandwritten == SeqOf(MCRows, 2)

MCEntries == {[live |-> FALSE, debug |-> TRUE, token |-> "t1"], [live |-> TRUE, debug |-> FALSE, token |-> "t2"]}

(* Without the flag, and with it. *)
MCLaunches == {[debug |-> FALSE, token |-> "", file |-> "t2"], [debug |-> TRUE, token |-> "", file |-> ""]}
=============================================================================
