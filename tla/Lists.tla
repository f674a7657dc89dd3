------------------------------- MODULE Lists -------------------------------
(***************************************************************************)
(* The plugins that list items of one or more sources, sorted and capped:  *)
(* github-issues, github-prs, github-stale, github-review-requested,       *)
(* github-releases and rss-feed.  A source answers with items or fails.    *)
(***************************************************************************)
EXTENDS PluginRun

CONSTANTS
  Pool     \* the items sources may answer with: [id, at, tier, fit, repo]

ASSUME PoolAssumption == \A it \in Pool : it.at \in Int /\ it.tier \in Int

Listing == {"issues", "prs", "stale", "review", "releases", "feed"}

(***************************************************************************)
(* Sources.  issues and prs ask one repository after the other; stale and  *)
(* review put the repositories into one query, of which stale makes two    *)
(* when both issues and pull requests are wanted.  "bad" is a repository   *)
(* NormalizeRepo rejects.                                                  *)
(***************************************************************************)
Repos == {"r1", "r2"}
Valid == {job.repos[i] : i \in {k \in DOMAIN job.repos : job.repos[k] # "bad"}}
Searches == job.plugin \in {"stale", "review"}
Asked == IF job.plugin \in {"issues", "prs"} THEN job.repos
         ELSE IF job.plugin = "stale" THEN [i \in 1 .. job.searches |-> "search"] ELSE <<"source">>

(* What a source may answer, external: distinct items, at most two of them *)
(* and of a search at most the rows wanted (per_page), from the repository, *)
(* or within the qualifiers of the query; a query without a qualifier is    *)
(* about all of GitHub.                                                     *)
Holds(source, it) == CASE source \in Repos -> it.repo = source
                       [] source = "search" \/ (source = "source" /\ job.plugin = "review") ->
                            Valid = {} \/ it.repo \in Valid
                       [] OTHER -> TRUE
Answer == [ok : BOOLEAN, items : Seq(Pool)]
NoAnswer == [ok |-> FALSE, items |-> <<>>]
Answers(source) ==
  IF source = "bad" THEN {NoAnswer}
  ELSE {NoAnswer} \cup {[ok |-> TRUE, items |-> s] :
         s \in {t \in SeqOf({it \in Pool : Holds(source, it)}, IF Searches THEN job.count ELSE 2) : IsInjective(t)}}

(***************************************************************************)
(* Sorting and capping.                                                    *)
(***************************************************************************)
Capped(s) == IF Len(s) > job.count THEN SubSeq(s, 1, job.count) ELSE s
All(answers) == FlattenSeq([i \in DOMAIN answers |-> answers[i].items])
Fit(s) == Kept(s, {it \in ToSet(s) : it.fit})

NewestFirst == [it \in Pool |-> -it.at]
HigherTierFirst == [it \in Pool |-> it.tier]

(***************************************************************************)
(* What the plugins return: the rows, and the rows that report an error.   *)
(***************************************************************************)
Rows(s) == [rows |-> s, errors |-> 0]

\* Mutant: capped before it is sorted.
IssuesResultCappedFirst(answers) == Rows(StableSort(NewestFirst, Capped(Fit(All(answers)))))

(* Pull requests, answered issues and excluded labels do not fit; a source that *)
(* fails is passed over.                                                        *)
IssuesResult(answers) == Rows(Capped(StableSort(NewestFirst, Fit(All(answers)))))

(* Author and reviewer do not fit; a source that fails becomes an error row. *)
PullsResult(answers) ==
  [Rows(Capped(StableSort(NewestFirst, Fit(All(answers))))) EXCEPT
     !.errors = Cardinality({i \in DOMAIN answers : ~answers[i].ok})]

(* Items two searches found are one; sort.Slice orders ties either way. *)
StaleResults(answers) ==
  {Rows(Capped(s)) : s \in {p \in SetToSeqs(ToSet(All(answers))) :
      \A i, j \in DOMAIN p : i < j => p[i].at <= p[j].at}}

(* By the author's tier, in the order of the search within a tier. *)
ReviewResult(answers) == Rows(Capped(StableSort(HigherTierFirst, All(answers))))

(* The newest releases that are wanted; the first that is neither draft nor *)
(* prerelease is the latest.                                                *)
ReleasesResult(answers) ==
  LET wanted == IF job.all THEN All(answers) ELSE Fit(All(answers)) IN
  [rows |-> Capped(wanted), errors |-> 0,
   latest |-> SelectInSeq(Capped(wanted), LAMBDA r : r.fit)]

FeedResult(answers) == Rows(Capped(All(answers)))

Results(answers) ==
  CASE job.plugin = "issues" -> {IssuesResult(answers)}
    [] job.plugin = "prs" -> {PullsResult(answers)}
    [] job.plugin = "stale" -> StaleResults(answers)
    [] job.plugin = "review" -> {ReviewResult(answers)}
    [] job.plugin = "releases" -> {ReleasesResult(answers)}
    [] job.plugin = "feed" -> {FeedResult(answers)}

(* Where a failure of one source is not the failure of the run. *)
Tolerant == job.plugin \in {"issues", "prs"}

AskSource ==
  /\ step = "ask"
  /\ \E a \in Answers(Asked[Len(got) + 1]) :
       LET answers == Append(got, a) IN
       IF ~a.ok /\ ~Tolerant THEN Abort
       ELSE IF Len(answers) < Len(Asked) THEN Proceed("ask", answers)
       ELSE \E r \in Results(answers) : Return(r, answers)

-----------------------------------------------------------------------------
ListJobs ==
  [plugin : Listing, repos : SeqOf(Repos \cup {"bad"}, 2) \ {<<>>},
   count : 1 .. 2, searches : 1 .. 2, all : BOOLEAN]

ListInit ==
  /\ job \in ListJobs
  (* what a plugin does not look at is fixed *)
  /\ IsInjective(job.repos)
  /\ job.plugin \in {"releases", "feed"} => job.repos = <<"r1">>
  /\ job.plugin # "stale" => job.searches = 1
  /\ job.plugin # "releases" => ~job.all
  /\ remote = <<>> /\ past = <<>>
  /\ step = "ask" /\ got = <<>> /\ out = Pending

ListNext == AskSource

-----------------------------------------------------------------------------
(***************************************************************************)
(* The rows are the best of what the sources that answered had to offer,   *)
(* whichever other sources failed: every row fits, the rows are in order,  *)
(* what is equal keeps the order it came in, and nothing was cut off that  *)
(* should stand before a row that was not.                                 *)
(***************************************************************************)
Precedes(a, b) == CASE job.plugin \in {"issues", "prs"} -> a.at > b.at
                    [] job.plugin = "stale" -> a.at < b.at
                    [] job.plugin = "review" -> a.tier < b.tier
                    [] OTHER -> FALSE
Eligible == LET s == All(got) IN
            IF job.plugin \in {"issues", "prs"} \/ (job.plugin = "releases" /\ ~job.all) THEN Fit(s) ELSE s
Came(s, a, b) == \E i, j \in DOMAIN s : i < j /\ s[i] = a /\ s[j] = b
RowsAreTheBest ==
  Returned /\ job.plugin \in Listing =>
    LET rows == out.rows IN
    /\ IsInjective(rows) /\ ToSet(rows) \subseteq ToSet(Eligible)
    /\ Len(rows) < job.count => ToSet(rows) = ToSet(Eligible)
    /\ Len(rows) <= job.count
    /\ \A i \in DOMAIN rows : \A x \in ToSet(Eligible) :
         (x \notin ToSet(rows) \/ \E j \in DOMAIN rows : j > i /\ rows[j] = x) =>
           /\ ~Precedes(x, rows[i])
           /\ job.plugin # "stale" => Precedes(rows[i], x) \/ Came(Eligible, rows[i], x)

(***************************************************************************)
(* A repository that is rejected or does not answer leaves a trace: the    *)
(* run fails or an error row stands for it.  Not so in github-issues,      *)
(* whose list then looks like good news, nor for the rejected qualifiers   *)
(* of a search.                                                            *)
(***************************************************************************)
FailuresShow ==
  Returned /\ job.plugin \in Listing \ {"issues"} =>
    out.errors = Cardinality({i \in DOMAIN got : ~got[i].ok})

(***************************************************************************)
(* A list shows the best of the sources that answered, and that others did *)
(* not.                                                                    *)
(***************************************************************************)
ListsHonest == RowsAreTheBest /\ FailuresShow
=============================================================================
