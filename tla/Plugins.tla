------------------------------ MODULE Plugins ------------------------------
(***************************************************************************)
(* A run of any built-in plugin: whatever the engine runs, it is one of    *)
(* these.  No two runs share anything but the cache of the GitHub client   *)
(* (module GHClient), so one run at a time is all there is to see.         *)
(***************************************************************************)
EXTENDS GHRows, Activity, ImageCheck, Lists, Verdicts

(* The plugins the remote of which moves while they run. *)
Moving == {"issue-watch", "prs-item", "actions", "stars", "rate", "image"}
ASSUME MovingAssumption == Moving \subseteq DOMAIN MaxPast

Init == RowInit \/ ActivityInit \/ ImageInit \/ ListInit \/ VerdictInit

Next ==
  \/ job.plugin \in {"issue-watch", "prs-item", "actions"} /\ RowNext
  \/ job.plugin \in {"stars", "rate"} /\ ActivityNext
  \/ job.plugin = "image" /\ ImageNext
  \/ job.plugin \in Listing /\ ListNext
  \/ job.plugin \in Judging /\ VerdictNext

Spec == Init /\ [][Next]_runVars

(* A run is one request after the other: it looks at a page there can be,  *)
(* and for a tag that is still to be decided.                              *)
TypeOK ==
  /\ step \in {"issue", "comments", "pull", "pulls", "reviews", "checks", "repo", "runs", "page",
               "release", "token", "manifest", "challenge", "retry", "ask", "dependencies", "lookup",
               "done", "failed"}
  /\ past # <<>> => /\ remote = Last(past)
                 /\ Len(past) <= MaxPast[job.plugin]
  /\ job.plugin \in {"stars", "rate"} => got.page \in 1 .. MaxPages
  /\ step = "comments" => lastPage \in 1 .. MaxList
  /\ step \in {"token", "manifest", "challenge", "retry"} => got.specs # <<>> /\ Head(got.specs).left # <<>>
=============================================================================
