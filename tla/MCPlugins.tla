----------------------------- MODULE MCPlugins -----------------------------
EXTENDS Plugins

MCMaxPast == [p \in {"issue-watch", "prs-item", "actions", "stars", "rate", "image"} |->
                IF p \in {"issue-watch", "prs-item", "actions"} THEN 3 ELSE 2]
MCStarts == [day |-> 0 .. 3, month |-> {0, 1, 3}]

(* Items of two repositories: a tie in time, a tie in tier, one that does not fit. *)
Entry(id, at, tier, fit, repo) == [id |-> id, at |-> at, tier |-> tier, fit |-> fit, repo |-> repo]
MCPool == {Entry(1, 1, 0, TRUE, "r1"), Entry(2, 2, 1, TRUE, "r1"),
           Entry(3, 2, 1, TRUE, "r2"), Entry(4, 1, 0, FALSE, "r2")}

(* A missing patch, two digits in one place, a major ahead, no number at all. *)
Version(nums, suffix) == [nums |-> nums, suffix |-> suffix]
MCVersions == {Version(<<1, 2>>, ""), Version(<<1, 10, 0>>, ""), Version(<<1, 10, 0>>, "rc"),
               Version(<<2, 0, 1>>, ""), Version(<<>>, "dev")}
MCLines == [key : {"go", "x"}, sep : {"=", " "}, value : {"", "1"}]
=============================================================================
