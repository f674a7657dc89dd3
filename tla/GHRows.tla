------------------------------- MODULE GHRows -------------------------------
(***************************************************************************)
(* The plugins that put one row together from several GitHub requests:     *)
(* github-issue-watch (issue, last page of comments, pull, check runs),    *)
(* github-prs (pulls, reviews, check runs) and github-actions (default     *)
(* branch, check runs).  People comment, push and review, and checks run,  *)
(* while the requests are made one after the other.                        *)
(***************************************************************************)
EXTENDS PluginRun

CONSTANTS
  CommentsPage,   \* comments on a page (100 in the code)
  DefaultPage,    \* check runs or reviews on a page (GitHub's default, 30)
  Logins,         \* who comments and reviews; the author of the issue is one of them
  Refs,           \* commits or branches the checks of which can be asked for
  MaxList         \* bound on comments, reviews and check runs

ASSUME RowsAssumption == CommentsPage \in Nat \ {0} /\ DefaultPage \in Nat \ {0} /\ MaxList \in Nat

Unfinished == ""          \* the conclusion of a check run that is not completed
Conclusions == {Unfinished, "success", "neutral", "cancelled"}
FailConclusions == {"failure", "timed_out", "cancelled", "action_required"}
Decisive == {"APPROVED", "CHANGES_REQUESTED"}
Review == [by : Logins, state : Decisive \cup {"COMMENTED"}]

(***************************************************************************)
(* GitHub, external: lists are paged, oldest first.                        *)
(***************************************************************************)
PageOf(list, size, page) ==
  SubSeq(list, size * (page - 1) + 1, IF size * page < Len(list) THEN size * page ELSE Len(list))
CheckRuns(ref) ==
  [total |-> Len(remote.runs[ref]), runs |-> PageOf(remote.runs[ref], DefaultPage, 1)]

(* People and CI act on what the run of this plugin looks at. *)
Comments == job.plugin = "issue-watch" /\
  \/ \E by \in Logins : /\ Len(remote.comments) < MaxList
                        /\ Move([remote EXCEPT !.comments = Append(@, by)])
  \/ \E i \in DOMAIN remote.comments : Move([remote EXCEPT !.comments = RemoveAt(@, i)])
HasChecks == job.pr \/ job.plugin = "actions"
Pushes == HasChecks /\ \E ref \in Refs : Move([remote EXCEPT !.head = ref])
Checks == HasChecks /\ \E ref \in Refs :
  \/ /\ Len(remote.runs[ref]) < MaxList
     /\ Move([remote EXCEPT !.runs[ref] = Append(@, Unfinished)])
  \/ \E i \in DOMAIN remote.runs[ref], c \in Conclusions :
       /\ remote.runs[ref][i] = Unfinished
       /\ Move([remote EXCEPT !.runs[ref][i] = c])
Reviews == job.plugin = "prs-item" /\
  \E review \in Review :
     /\ Len(remote.reviews) < MaxList
     /\ Move([remote EXCEPT !.reviews = Append(@, review)])

(***************************************************************************)
(* The classification of the answers.                                      *)
(***************************************************************************)
\* Mutant: what has not finished has not failed.
AggregateCIBadgeHasty(resp) ==
  IF resp.total = 0 THEN "no checks"
  ELSE IF \E r \in ToSet(resp.runs) : r \in FailConclusions THEN "failing" ELSE "passing"

(* One badge for the check runs of a commit. *)
AggregateCIBadge(resp) ==
  IF resp.total = 0 THEN "no checks"
  ELSE IF \E r \in ToSet(resp.runs) : r \in FailConclusions THEN "failing"
  ELSE IF Unfinished \in ToSet(resp.runs) THEN "running"
  ELSE "passing"

(* The same decision as an item of the checklist of github-actions. *)
aggregate(resp) ==
  [ok |-> AggregateCIBadge(resp) = "passing", detail |-> AggregateCIBadge(resp)]

\* Mutant: a later comment takes an approval back.
latestOfAny(reviews) ==
  FoldLeft(LAMBDA m, r : [m EXCEPT ![r.by] = r.state], [l \in Logins |-> "none"], reviews)

(* The latest decisive review of each login, in the order they came. *)
latest(reviews) ==
  FoldLeft(LAMBDA m, r : IF r.state \in Decisive THEN [m EXCEPT ![r.by] = r.state] ELSE m,
           [l \in Logins |-> "none"], reviews)

reviewBadge(reviews) ==
  LET states == {latest(reviews)[l] : l \in Logins} IN
  IF "CHANGES_REQUESTED" \in states THEN "changes requested"
  ELSE IF "APPROVED" \in states THEN "approved"
  ELSE "review pending"

(***************************************************************************)
(* The requests.  A request that fails is remembered in got.failed; what   *)
(* the code does then differs from request to request.                     *)
(***************************************************************************)
Missed(request) == [got EXCEPT !.failed = @ \cup {request}]
Row(g) == [ci |-> g.ci, answered |-> g.answered, review |-> g.review,
           error |-> g.failed \cap {"issue", "repo", "runs"} # {}]
Go(s, g) == IF s = "done" THEN Return(Row(g), g) ELSE Proceed(s, g)

AfterComments == IF job.pr THEN "pull" ELSE "done"

(* github-issue-watch: the issue says how many comments there are. *)
GetIssue ==
  /\ step = "issue"
  /\ \/ Go("done", Missed("issue"))
     \/ Go(IF remote.comments # <<>> THEN "comments" ELSE AfterComments,
           [got EXCEPT !.count = Len(remote.comments)])

\* Mutant: a full last page is taken for one with room.
lastPageAhead == got.count \div CommentsPage + 1

(* The page the last comment was on when the count was read. *)
lastPage == (got.count + CommentsPage - 1) \div CommentsPage

GetComments ==
  /\ step = "comments"
  /\ \/ Go(AfterComments, Missed("comments"))
     \/ LET page == PageOf(remote.comments, CommentsPage, lastPage) IN
        Go(AfterComments, [got EXCEPT !.answered = page # <<>> /\ Last(page) # "author"])

(* The head commit of a watched pull request. *)
GetPull ==
  /\ step = "pull"
  /\ \/ Go("done", Missed("pull"))
     \/ Go("checks", [got EXCEPT !.ref = remote.head])

(* github-prs: the list names the head commit; a failed list of reviews counts as none. *)
ListPull == step = "pulls" /\ Go("reviews", [got EXCEPT !.ref = remote.head])
GetReviews ==
  /\ step = "reviews"
  /\ \/ Go("checks", [Missed("reviews") EXCEPT !.review = "review pending"])
     \/ Go("checks", [got EXCEPT !.review = reviewBadge(PageOf(remote.reviews, DefaultPage, 1))])

(* The badge is left out when its request fails. *)
GetCIBadge ==
  /\ step = "checks"
  /\ \/ Go("done", Missed("checks"))
     \/ Go("done", [got EXCEPT !.ci = AggregateCIBadge(CheckRuns(got.ref))])

(* github-actions: the default branch when none is configured, then its check runs. *)
evalRepo ==
  \/ /\ step = "repo"
     /\ \/ Go("done", Missed("repo"))
        \/ Go("runs", [got EXCEPT !.ref = remote.head])
  \/ /\ step = "runs"
     /\ \/ Go("done", Missed("runs"))
        \/ Go("done", [got EXCEPT !.ci = aggregate(CheckRuns(got.ref)).detail])

-----------------------------------------------------------------------------
FirstStep(j) == CASE j.plugin = "issue-watch" -> "issue"
                  [] j.plugin = "prs-item" -> "pulls"
                  [] j.plugin = "actions" -> IF j.branch = "" THEN "repo" ELSE "runs"

RowJobs ==
  {[plugin |-> "issue-watch", pr |-> b, branch |-> ""] : b \in BOOLEAN} \cup
  {[plugin |-> "prs-item", pr |-> TRUE, branch |-> ""]} \cup
  {[plugin |-> "actions", pr |-> FALSE, branch |-> b] : b \in Refs \cup {""}}

(* What is there when the run begins: some comments or reviews and one check run of each commit. *)
RowInit ==
  /\ job \in RowJobs
  /\ remote \in [comments : IF job.plugin = "issue-watch" /\ ~job.pr THEN SeqOf(Logins, MaxList) ELSE {<<>>},
                 reviews : IF job.plugin = "prs-item" THEN SeqOf(Review, 2) ELSE {<<>>}, head : Refs,
                 runs : [Refs -> IF HasChecks THEN {<<>>, <<Unfinished>>, <<"success">>} ELSE {<<>>}]]
  /\ step = FirstStep(job)
  /\ got = [count |-> 0, answered |-> FALSE, review |-> "none", ci |-> "none",
            ref |-> job.branch, failed |-> {}]
  /\ out = Pending
  /\ past = <<remote>>

RowNext ==
  \/ GetIssue \/ GetComments \/ GetPull
  \/ ListPull \/ GetReviews \/ GetCIBadge
  \/ evalRepo
  \/ Comments \/ Pushes \/ Checks \/ Reviews

-----------------------------------------------------------------------------
(* The following properties compare a row with what GitHub held while it was made. *)
RowReturned == Returned /\ job.plugin \in {"issue-watch", "prs-item", "actions"}

(***************************************************************************)
(* evalRef reads the number of comments and then the page the last one is  *)
(* on; comments may arrive in between, and the page may fill up.  Unless a *)
(* comment was deleted or the request failed, "answered" and "no reply"    *)
(* are still what the last comment said at some moment of the run.         *)
(***************************************************************************)
NothingDeleted == \A i, j \in DOMAIN past : i < j => Len(past[i].comments) <= Len(past[j].comments)
AnsweredWasTrue ==
  RowReturned /\ job.plugin = "issue-watch" /\ got.failed \cap {"issue", "comments"} = {} /\ NothingDeleted =>
    \E i \in DOMAIN past :
      out.answered = (past[i].comments # <<>> /\ Last(past[i].comments) # "author")

(***************************************************************************)
(* A CI verdict is about a commit (or branch) that was the head during the *)
(* run, and at that moment or later its check runs deserved it: no         *)
(* "passing" with a run that failed or had not finished, no "failing"      *)
(* without one that failed.  GitHub sends the first page of them only      *)
(* (TotalCount tells, nobody compares it), hence the condition.            *)
(***************************************************************************)
Deserved(runs) == [passing |-> runs # <<>> /\ ToSet(runs) \subseteq {"success", "neutral"},
                   failing |-> \E i \in DOMAIN runs : runs[i] = "cancelled",
                   running |-> \E i \in DOMAIN runs : runs[i] = Unfinished]
CIWasTrue ==
  RowReturned /\ out.ci \in {"passing", "failing", "running"} =>
    \E i, j \in DOMAIN past :
      /\ i <= j
      /\ job.branch = "" => past[i].head = got.ref
      /\ Len(past[j].runs[got.ref]) <= DefaultPage => Deserved(past[j].runs[got.ref])[out.ci]

(***************************************************************************)
(* The review badge of github-prs, whoever reviewed and in whatever order: *)
(* at some moment of the run "changes requested" stood for somebody whose  *)
(* last decisive review asked for changes, "approved" for one that         *)
(* approved while nobody's asked for changes; a comment after an approval  *)
(* takes nothing back.  The code asks for the first page of the reviews    *)
(* only, the oldest, so this is promised while all of them fit on it.      *)
(***************************************************************************)
Says(reviews, by, s) ==
  \E i \in DOMAIN reviews : /\ reviews[i] = [by |-> by, state |-> s]
                            /\ \A j \in DOMAIN reviews : j > i /\ reviews[j].by = by => reviews[j].state \notin Decisive
Reviewed == RowReturned /\ job.plugin = "prs-item" /\ "reviews" \notin got.failed
BadgeIsOf(reviews) ==
  LET Somebody(s) == \E l \in Logins : Says(reviews, l, s) IN
  /\ out.review = "changes requested" <=> Somebody("CHANGES_REQUESTED")
  /\ out.review = "approved" <=> Somebody("APPROVED") /\ ~Somebody("CHANGES_REQUESTED")
OnOnePage == \A i \in DOMAIN past : Len(past[i].reviews) <= DefaultPage
ReviewWasTrue == Reviewed /\ OnOnePage => \E i \in DOMAIN past : BadgeIsOf(past[i].reviews)
=============================================================================
