---------------------------- MODULE PluginsProofs ---------------------------
(***************************************************************************)
(* What the plugins report was true, for pages of any size, remotes with   *)
(* any number of items and any number of changes during a run.             *)
(***************************************************************************)
EXTENDS Plugins, FoldLemmas

RowPlugins == {"issue-watch", "prs-item", "actions"}

LEMMA RowJobFields ==
  ASSUME job \in RowJobs
  PROVE  /\ job.plugin \in RowPlugins
         /\ job.plugin = "prs-item" => job.branch = ""
         /\ job.plugin = "issue-watch" => job.branch = ""
         /\ job.plugin = "actions" => job.branch \in Refs \cup {""}
<1>1. ASSUME NEW p, NEW r, NEW b, job = [plugin |-> p, pr |-> r, branch |-> b]
      PROVE  job.plugin = p /\ job.branch = b
  BY <1>1
<1>2. CASE job \in {[plugin |-> "issue-watch", pr |-> b, branch |-> ""] : b \in BOOLEAN}
  <2>1. job.plugin = "issue-watch" /\ job.branch = ""
    BY <1>1, <1>2, Zenon
  <2> QED
    BY <2>1 DEF RowPlugins
<1>3. CASE job = [plugin |-> "prs-item", pr |-> TRUE, branch |-> ""]
  <2>1. job.plugin = "prs-item" /\ job.branch = ""
    BY <1>1, <1>3, Zenon
  <2> QED
    BY <2>1 DEF RowPlugins
<1>4. CASE job \in {[plugin |-> "actions", pr |-> FALSE, branch |-> b] : b \in Refs \cup {""}}
  <2>1. job.plugin = "actions" /\ job.branch \in Refs \cup {""}
    BY <1>1, <1>4, Zenon
  <2> QED
    BY <2>1 DEF RowPlugins
<1> QED
  BY <1>2, <1>3, <1>4 DEF RowJobs

(***************************************************************************)
(* A step belongs to the family of the plugin that runs, and the plugin    *)
(* stays the same.                                                         *)
(***************************************************************************)
LEMMA JobStays == ASSUME [Next]_runVars PROVE job' = job
<1>1. CASE RowNext
  BY <1>1 DEF RowNext, GetIssue, GetComments, GetPull, ListPull, GetReviews, GetCIBadge, evalRepo,
              Comments, Pushes, Checks, Reviews, Go, Move, Proceed, Return
<1>2. CASE ActivityNext
  BY <1>2 DEF ActivityNext, FetchPage, Arrive, Leave, Move, Proceed, Return, Abort
<1>3. CASE ImageNext
  BY <1>3 DEF ImageNext, ReleaseTag, PrefetchToken, doManifest, FollowChallenge, Retry, PushTag, RemoveTag,
              resolveTag, Decide, Move, Proceed, Return, Abort
<1>4. CASE ListNext
  BY <1>4 DEF ListNext, AskSource, Proceed, Return, Abort
<1>5. CASE VerdictNext
  BY <1>5 DEF VerdictNext, ReadManifest, Lookup, Proceed, Return, Abort
<1>6. CASE UNCHANGED runVars
  BY <1>6 DEF runVars
<1> QED
  BY <1>1, <1>2, <1>3, <1>4, <1>5, <1>6 DEF Next

LEMMA Begins ==
  ASSUME Init
  PROVE  /\ job.plugin \in RowPlugins => RowInit
         /\ job.plugin \in {"stars", "rate"} => ActivityInit
         /\ job.plugin = "image" => ImageInit
         /\ job.plugin \in Listing => ListInit
         /\ job.plugin \in Judging => VerdictInit
<1>1. RowInit => job.plugin \in RowPlugins
  <2> SUFFICES ASSUME RowInit PROVE job.plugin \in RowPlugins
    OBVIOUS
  <2>1. job \in RowJobs
    BY DEF RowInit
  <2> QED
    BY <2>1, RowJobFields
<1>2. ActivityInit => job.plugin \in {"stars", "rate"}
  BY DEF ActivityInit, ActivityJobs
<1>3. ImageInit => job.plugin = "image"
  BY DEF ImageInit, ImageJobs
<1>4. ListInit => job.plugin \in Listing
  BY DEF ListInit, ListJobs
<1>5. VerdictInit => job.plugin \in Judging
  BY DEF VerdictInit, VerdictJobs, Judging
<1> QED
  BY <1>1, <1>2, <1>3, <1>4, <1>5 DEF Init, RowPlugins, Listing, Judging

LEMMA StepsOf ==
  ASSUME [Next]_runVars
  PROVE  /\ job.plugin \in RowPlugins => [RowNext]_runVars
         /\ job.plugin \in {"stars", "rate"} => [ActivityNext]_runVars
         /\ job.plugin = "image" => [ImageNext]_runVars
         /\ job.plugin \in Listing => [ListNext]_runVars
         /\ job.plugin \in Judging => [VerdictNext]_runVars
BY DEF Next, RowPlugins, Listing, Judging

-----------------------------------------------------------------------------
(***************************************************************************)
(* Rows of several GitHub requests.                                        *)
(***************************************************************************)
RowRemote == [comments : Seq(Logins), reviews : Seq(Review), head : Refs, runs : [Refs -> Seq(Conclusions)]]
Requests == {"issue", "comments", "pull", "reviews", "checks", "repo", "runs"}
ReviewBadges == {"review pending", "changes requested", "approved"}
CIBadges == {"no checks", "failing", "running", "passing"}
RowGot == [count : Nat, answered : BOOLEAN, review : ReviewBadges \cup {"none"}, ci : CIBadges \cup {"none"},
           ref : Refs \cup {""}, failed : SUBSET Requests]

RowSteps == {"issue", "comments", "pull", "pulls", "reviews", "checks", "repo", "runs", "done"}

RowTyped ==
  /\ job \in RowJobs
  /\ remote \in RowRemote /\ got \in RowGot
  /\ past \in Seq(RowRemote) /\ past # <<>> /\ past[Len(past)] = remote
  /\ step \in RowSteps
  /\ job.plugin = "issue-watch" => step \in {"issue", "comments", "pull", "checks", "done"}
  /\ job.plugin = "prs-item" => step \in {"pulls", "reviews", "checks", "done"}
  /\ job.plugin = "actions" => step \in {"repo", "runs", "done"}
  /\ step = "done" => out = Row(got)

(* One state more in the history. *)
RowMoved ==
  /\ Running
  /\ remote' \in RowRemote /\ past' = Append(past, remote')
  /\ UNCHANGED <<job, step, got, out>>
(* A request was answered. *)
RowAnswered(s, g) ==
  /\ step' = s /\ got' = g
  /\ s = "done" => out' = Row(g)
  /\ UNCHANGED <<job, remote, past>>

LEMMA RowGo ==
  ASSUME NEW s, NEW g, Go(s, g)
  PROVE  RowAnswered(s, g)
BY DEF Go, Return, Proceed, RowAnswered

LEMMA Removed ==
  ASSUME NEW S, NEW list \in Seq(S), NEW i \in DOMAIN list
  PROVE  RemoveAt(list, i) \in Seq(S) /\ Len(RemoveAt(list, i)) = Len(list) - 1
<1>1. i \in 1 .. Len(list) /\ Len(list) \in Nat
  OBVIOUS
<1>2. SubSeq(list, 1, i - 1) \in Seq(S) /\ Len(SubSeq(list, 1, i - 1)) = i - 1
  <2>1. \A k \in 1 .. i - 1 : list[k] \in S
    BY <1>1
  <2> QED
    BY <1>1, <2>1, SubSeqProperties
<1>3. SubSeq(list, i + 1, Len(list)) \in Seq(S) /\ Len(SubSeq(list, i + 1, Len(list))) = Len(list) - i
  BY <1>1, SubSeqProperties
<1> DEFINE a == SubSeq(list, 1, i - 1)
           b == SubSeq(list, i + 1, Len(list))
<1> HIDE DEF a, b
<1>4. a \in Seq(S) /\ b \in Seq(S) /\ Len(a) = i - 1 /\ Len(b) = Len(list) - i
  BY <1>2, <1>3 DEF a, b
<1>5. RemoveAt(list, i) = a \o b
  BY DEF RemoveAt, a, b
<1> QED
  BY <1>1, <1>4, <1>5, ConcatProperties

\* What a move of the remote does to the comments.
CommentsMoved ==
  \/ remote'.comments = remote.comments
  \/ /\ Len(remote.comments) < MaxList
     /\ \E by \in Logins : remote'.comments = Append(remote.comments, by)
  \/ Len(remote'.comments) < Len(remote.comments)

LEMMA RowMoves ==
  ASSUME RowTyped, Comments \/ Pushes \/ Checks \/ Reviews
  PROVE  RowMoved /\ CommentsMoved
<1>0. /\ remote \in [comments : Seq(Logins), reviews : Seq(Review), head : Refs, runs : [Refs -> Seq(Conclusions)]]
      /\ remote.comments \in Seq(Logins) /\ remote.reviews \in Seq(Review)
      /\ remote.runs \in [Refs -> Seq(Conclusions)]
  BY DEF RowTyped, RowRemote
<1>1. ASSUME NEW r, Move(r), r \in RowRemote PROVE RowMoved /\ remote' = r
  BY <1>1 DEF Move, RowMoved
<1>2. CASE Comments
  <2>1. CASE Len(remote.comments) < MaxList /\ \E by \in Logins : Move([remote EXCEPT !.comments = Append(@, by)])
    <3>1. PICK by \in Logins : Move([remote EXCEPT !.comments = Append(@, by)])
      BY <2>1
    <3> DEFINE r == [remote EXCEPT !.comments = Append(@, by)]
    <3> Append(remote.comments, by) \in Seq(Logins)
      BY <1>0, AppendProperties
    <3>2. r \in RowRemote /\ r.comments = Append(remote.comments, by)
      BY <1>0 DEF RowRemote
    <3> HIDE DEF r
    <3>3. Move(r)
      BY <3>1 DEF r
    <3> QED
      BY <1>1, <2>1, <3>2, <3>3 DEF CommentsMoved
  <2>2. CASE \E i \in DOMAIN remote.comments : Move([remote EXCEPT !.comments = RemoveAt(@, i)])
    <3>1. PICK i \in DOMAIN remote.comments : Move([remote EXCEPT !.comments = RemoveAt(@, i)])
      BY <2>2
    <3> DEFINE r == [remote EXCEPT !.comments = RemoveAt(@, i)]
    <3>2. RemoveAt(remote.comments, i) \in Seq(Logins)
          /\ Len(RemoveAt(remote.comments, i)) = Len(remote.comments) - 1
      BY <1>0, Removed
    <3>3. r \in RowRemote /\ r.comments = RemoveAt(remote.comments, i)
      BY <1>0, <3>2 DEF RowRemote
    <3> HIDE DEF r
    <3>4. Move(r)
      BY <3>1 DEF r
    <3>5. Len(remote.comments) \in Nat
      BY <1>0
    <3>6. Len(r.comments) < Len(remote.comments)
      BY <3>2, <3>3, <3>5
    <3> QED
      BY <1>1, <3>3, <3>4, <3>6 DEF CommentsMoved
  <2> QED
    BY <1>2, <2>1, <2>2 DEF Comments
<1>3. CASE Pushes
  <2>1. PICK ref \in Refs : Move([remote EXCEPT !.head = ref])
    BY <1>3 DEF Pushes
  <2> DEFINE r == [remote EXCEPT !.head = ref]
  <2>2. r \in RowRemote /\ r.comments = remote.comments
    BY <1>0 DEF RowRemote
  <2> HIDE DEF r
  <2>3. Move(r)
    BY <2>1 DEF r
  <2> QED
    BY <1>1, <2>2, <2>3 DEF CommentsMoved
<1>4. CASE Checks
  <2>1. PICK ref \in Refs :
          \/ Move([remote EXCEPT !.runs[ref] = Append(@, Unfinished)])
          \/ \E i \in DOMAIN remote.runs[ref], c \in Conclusions : Move([remote EXCEPT !.runs[ref][i] = c])
    BY <1>4 DEF Checks
  <2>2. CASE Move([remote EXCEPT !.runs[ref] = Append(@, Unfinished)])
    <3> DEFINE r == [remote EXCEPT !.runs[ref] = Append(@, Unfinished)]
    <3>1. Append(remote.runs[ref], Unfinished) \in Seq(Conclusions)
      BY <1>0, AppendProperties DEF Conclusions
    <3>2. r \in RowRemote /\ r.comments = remote.comments
      BY <1>0, <3>1 DEF RowRemote
    <3> HIDE DEF r
    <3>3. Move(r)
      BY <2>2 DEF r
    <3> QED
      BY <1>1, <3>2, <3>3 DEF CommentsMoved
  <2>3. CASE \E i \in DOMAIN remote.runs[ref], c \in Conclusions : Move([remote EXCEPT !.runs[ref][i] = c])
    <3>1. PICK i \in DOMAIN remote.runs[ref], c \in Conclusions : Move([remote EXCEPT !.runs[ref][i] = c])
      BY <2>3
    <3> DEFINE r == [remote EXCEPT !.runs[ref][i] = c]
    <3>2. remote.runs[ref] \in Seq(Conclusions)
      BY <1>0
    <3>3. [remote.runs[ref] EXCEPT ![i] = c] \in Seq(Conclusions)
      BY <3>2, ExceptSeq
    <3>4. r \in RowRemote /\ r.comments = remote.comments
      BY <1>0, <3>3 DEF RowRemote
    <3> HIDE DEF r
    <3>5. Move(r)
      BY <3>1 DEF r
    <3> QED
      BY <1>1, <3>4, <3>5 DEF CommentsMoved
  <2> QED
    BY <2>1, <2>2, <2>3
<1>5. CASE Reviews
  <2>1. PICK review \in Review : Move([remote EXCEPT !.reviews = Append(@, review)])
    BY <1>5 DEF Reviews
  <2> DEFINE r == [remote EXCEPT !.reviews = Append(@, review)]
  <2> Append(remote.reviews, review) \in Seq(Review)
    BY <1>0, AppendProperties
  <2>2. r \in RowRemote /\ r.comments = remote.comments
    BY <1>0 DEF RowRemote
  <2> HIDE DEF r
  <2>3. Move(r)
    BY <2>1 DEF r
  <2> QED
    BY <1>1, <2>2, <2>3 DEF CommentsMoved
<1> QED
  BY <1>2, <1>3, <1>4, <1>5

LEMMA RemoteFields ==
  ASSUME NEW r \in RowRemote
  PROVE  /\ r.comments \in Seq(Logins) /\ Len(r.comments) \in Nat /\ DOMAIN r.comments = 1 .. Len(r.comments)
         /\ r.reviews \in Seq(Review) /\ r.head \in Refs
         /\ r.runs \in [Refs -> Seq(Conclusions)]
BY DEF RowRemote

\* The history after a move.
LEMMA PastGrows ==
  ASSUME NEW R, past \in Seq(R), past # <<>>, past[Len(past)] = remote, NEW r \in R, past' = Append(past, r)
  PROVE  /\ past' \in Seq(R) /\ past' # <<>> /\ Len(past') = Len(past) + 1 /\ past'[Len(past')] = r
         /\ Len(past) \in DOMAIN past /\ Len(past) \in Nat /\ DOMAIN past = 1 .. Len(past)
         /\ DOMAIN past' = 1 .. Len(past) + 1 /\ Len(past') \in DOMAIN past'
         /\ \A i \in DOMAIN past : i \in DOMAIN past' /\ past'[i] = past[i]
BY AppendProperties

LEMMA RowTypedKept ==
  ASSUME RowTyped, [RowNext]_runVars
  PROVE  RowTyped'
<1>1. CASE Comments \/ Pushes \/ Checks \/ Reviews
  <2>1. RowMoved
    BY <1>1, RowMoves
  <2>2. past' \in Seq(RowRemote) /\ past' # <<>> /\ past'[Len(past')] = remote'
    BY <2>1, PastGrows DEF RowMoved, RowTyped
  <2> QED
    BY <2>1, <2>2 DEF RowMoved, RowTyped, Running
<1>2. ASSUME NEW s, NEW g, RowAnswered(s, g), g \in RowGot, s \in RowSteps,
             job.plugin = "issue-watch" => s \in {"issue", "comments", "pull", "checks", "done"},
             job.plugin = "prs-item" => s \in {"pulls", "reviews", "checks", "done"},
             job.plugin = "actions" => s \in {"repo", "runs", "done"}
      PROVE  RowTyped'
  BY <1>2 DEF RowAnswered, RowTyped, Row
<1>3. ASSUME NEW x \in Requests PROVE Missed(x) \in RowGot
  BY <1>3 DEF RowTyped, Missed, RowGot
<1>4. /\ remote \in RowRemote /\ remote.comments \in Seq(Logins) /\ remote.head \in Refs
      /\ Len(remote.comments) \in Nat
      /\ got \in RowGot
  BY DEF RowTyped, RowRemote
<1>5. \A resp : AggregateCIBadge(resp) \in CIBadges
  BY DEF AggregateCIBadge, CIBadges
<1>6. \A list : reviewBadge(list) \in ReviewBadges
  BY DEF reviewBadge, ReviewBadges
<1>7. CASE GetIssue
  <2>0. step = "issue" /\ job.plugin = "issue-watch"
    BY <1>7, RowJobFields DEF GetIssue, RowTyped, RowPlugins
  <2>1. CASE Go("done", Missed("issue"))
    BY <1>2, <1>3, <2>0, <2>1, RowGo DEF Requests, RowSteps
  <2>2. CASE Go(IF remote.comments # <<>> THEN "comments" ELSE AfterComments, [got EXCEPT !.count = Len(remote.comments)])
    <3> DEFINE g == [got EXCEPT !.count = Len(remote.comments)]
               s == IF remote.comments # <<>> THEN "comments" ELSE AfterComments
    <3>1. g \in RowGot
      BY <1>4 DEF RowGot
    <3>2. s \in {"comments", "pull", "done"}
      BY DEF AfterComments
    <3> HIDE DEF g, s
    <3>3. RowAnswered(s, g)
      BY <2>2, RowGo DEF g, s
    <3> QED
      BY <1>2, <2>0, <3>1, <3>2, <3>3 DEF RowSteps
  <2> QED
    BY <1>7, <2>1, <2>2 DEF GetIssue
<1>8. CASE GetComments
  <2>0. step = "comments" /\ job.plugin = "issue-watch" /\ AfterComments \in {"pull", "done"}
    BY <1>8, RowJobFields DEF GetComments, RowTyped, RowPlugins, AfterComments
  <2>1. PICK g : Go(AfterComments, g) /\ (g = Missed("comments") \/ \E b \in BOOLEAN : g = [got EXCEPT !.answered = b])
    <3>1. ASSUME NEW p PROVE (p # <<>> /\ Last(p) # "author") \in BOOLEAN
      OBVIOUS
    <3> QED
      BY <1>8, <3>1, Zenon DEF GetComments
  <2>2. g \in RowGot
    BY <1>3, <1>4, <2>1 DEF RowGot, Requests
  <2> QED
    BY <1>2, <2>0, <2>1, <2>2, RowGo DEF RowSteps
<1>9. CASE GetPull
  <2>0. step = "pull" /\ job.plugin = "issue-watch"
    BY <1>9, RowJobFields DEF GetPull, RowTyped, RowPlugins
  <2>1. [got EXCEPT !.ref = remote.head] \in RowGot
    BY <1>4 DEF RowGot
  <2> QED
    BY <1>2, <1>3, <1>9, <2>0, <2>1, RowGo DEF GetPull, Requests, RowSteps
<1>10. CASE ListPull
  <2>0. step = "pulls" /\ job.plugin = "prs-item"
    BY <1>10, RowJobFields DEF ListPull, RowTyped, RowPlugins
  <2>1. [got EXCEPT !.ref = remote.head] \in RowGot
    BY <1>4 DEF RowGot
  <2> QED
    BY <1>2, <1>10, <2>0, <2>1, RowGo DEF ListPull, RowSteps
<1>11. CASE GetReviews
  <2>0. step = "reviews" /\ job.plugin = "prs-item"
    BY <1>11, RowJobFields DEF GetReviews, RowTyped, RowPlugins
  <2>1. [Missed("reviews") EXCEPT !.review = "review pending"] \in RowGot
    <3>1. Missed("reviews") \in RowGot
      BY <1>3 DEF Requests
    <3> QED
      BY <3>1 DEF RowGot, ReviewBadges
  <2>2. ASSUME NEW b \in ReviewBadges PROVE [got EXCEPT !.review = b] \in RowGot
    BY <1>4, <2>2 DEF RowGot
  <2>3. PICK g \in RowGot : Go("checks", g)
    BY <1>6, <1>11, <2>1, <2>2 DEF GetReviews
  <2> QED
    BY <1>2, <2>0, <2>3, RowGo DEF RowSteps
<1>12. CASE GetCIBadge
  <2>0. step = "checks" /\ job.plugin # "actions"
    BY <1>12, RowJobFields DEF GetCIBadge, RowTyped, RowPlugins
  <2>1. ASSUME NEW b \in CIBadges PROVE [got EXCEPT !.ci = b] \in RowGot
    BY <1>4, <2>1 DEF RowGot
  <2>2. PICK g \in RowGot : Go("done", g)
    BY <1>3, <1>5, <1>12, <2>1 DEF GetCIBadge, Requests
  <2> QED
    BY <1>2, <2>0, <2>2, RowGo, RowJobFields DEF RowSteps
<1>13. CASE evalRepo
  <2>0. step \in {"repo", "runs"} /\ job.plugin = "actions"
    BY <1>13, RowJobFields DEF evalRepo, RowTyped, RowPlugins
  <2>1. ASSUME NEW b \in CIBadges PROVE [got EXCEPT !.ci = b] \in RowGot
    BY <1>4, <2>1 DEF RowGot
  <2>2. [got EXCEPT !.ref = remote.head] \in RowGot
    BY <1>4 DEF RowGot
  <2>3. aggregate(CheckRuns(got.ref)).detail \in CIBadges
    BY <1>5 DEF aggregate
  <2>4. PICK s \in {"done", "runs"}, g \in RowGot : Go(s, g)
    <3>1. Missed("repo") \in RowGot /\ Missed("runs") \in RowGot
      BY <1>3 DEF Requests
    <3> HIDE DEF RowGot
    <3> QED
      BY <1>13, <2>1, <2>2, <2>3, <3>1 DEF evalRepo
  <2> QED
    BY <1>2, <2>0, <2>4, RowGo, RowJobFields DEF RowSteps
<1>14. CASE UNCHANGED runVars
  BY <1>14 DEF runVars, RowTyped, Row
<1> QED
  BY <1>1, <1>7, <1>8, <1>9, <1>10, <1>11, <1>12, <1>13, <1>14 DEF RowNext

LEMMA RowStarts ==
  ASSUME RowInit
  PROVE  /\ RowTyped
         /\ got.ci = "none" /\ got.ref = job.branch /\ got.failed = {} /\ got.answered = FALSE
         /\ step \in {"issue", "pulls", "repo", "runs"}
         /\ step = "runs" => job.branch \in Refs /\ job.branch # ""
         /\ step \in {"repo", "pulls"} => job.branch = ""
<1>1. job \in RowJobs /\ step = FirstStep(job) /\ past = <<remote>>
  BY DEF RowInit
<1>2. remote \in RowRemote
  <2>1. \A n : \A S : SeqOf(S, n) \subseteq Seq(S)
    BY DEF SeqOf
  <2>2. <<>> \in Seq(Logins) /\ <<>> \in Seq(Review)
    OBVIOUS
  <2>3. {<<>>, <<Unfinished>>, <<"success">>} \subseteq Seq(Conclusions)
    BY DEF Conclusions
  <2>4. remote.comments \in Seq(Logins) /\ remote.reviews \in Seq(Review) /\ remote.head \in Refs
        /\ remote.runs \in [Refs -> Seq(Conclusions)]
    BY <2>1, <2>2, <2>3 DEF RowInit
  <2>5. remote = [comments |-> remote.comments, reviews |-> remote.reviews, head |-> remote.head, runs |-> remote.runs]
    BY DEF RowInit
  <2> QED
    BY <2>4, <2>5 DEF RowRemote
<1>3. past \in Seq(RowRemote) /\ past # <<>> /\ past[Len(past)] = remote
  BY <1>1, <1>2
<1>4. /\ got = [count |-> 0, answered |-> FALSE, review |-> "none", ci |-> "none", ref |-> job.branch, failed |-> {}]
      /\ job.branch \in Refs \cup {""}
  BY <1>1, RowJobFields DEF RowInit, RowPlugins
<1>5. got \in RowGot
  BY <1>4 DEF RowGot
<1>6. /\ job.plugin = "issue-watch" => step = "issue"
      /\ job.plugin = "prs-item" => step = "pulls"
      /\ job.plugin = "actions" => step = IF job.branch = "" THEN "repo" ELSE "runs"
  BY <1>1 DEF FirstStep
<1>7. job.plugin \in RowPlugins
  BY <1>1, RowJobFields
<1>8. RowTyped
  BY <1>1, <1>2, <1>3, <1>5, <1>6, <1>7 DEF RowTyped, RowPlugins, RowSteps
<1> QED
  BY <1>1, <1>4, <1>6, <1>7, <1>8, RowJobFields DEF RowPlugins

-----------------------------------------------------------------------------
(***************************************************************************)
(* The answer of a watched issue.  Between the count and the page, what    *)
(* stood at every place from the counted one on was once the last comment; *)
(* the page that is asked for begins no later than the counted place.      *)
(***************************************************************************)
LastWas(history, k, login) ==
  \E i \in DOMAIN history :
    Len(history[i].comments) = k /\ k \in DOMAIN history[i].comments /\ history[i].comments[k] = login
CountSeen ==
  /\ got.count <= Len(remote.comments)
  /\ \A k \in got.count .. Len(remote.comments) : LastWas(past, k, remote.comments[k])
AnswerTrue ==
  \E i \in DOMAIN past : got.answered = (past[i].comments # <<>> /\ Last(past[i].comments) # "author")
AnswerInv ==
  job.plugin = "issue-watch" =>
    /\ step = "issue" => ~got.answered
    /\ step = "comments" => got.count > 0 /\ (NothingDeleted => CountSeen)
    /\ step \in {"pull", "checks", "done"} /\ got.failed \cap {"issue", "comments"} = {} /\ NothingDeleted => AnswerTrue

LEMMA LastPage ==
  ASSUME NEW c \in Nat \ {0}, NEW P \in Nat \ {0}
  PROVE  LET p == (c + P - 1) \div P IN p \in Nat \ {0} /\ P * (p - 1) < c /\ c <= P * p
<1> DEFINE n == c + P - 1
           p == n \div P
<1>1. n \in Nat /\ n >= P
  OBVIOUS
<1>2. p \in Int /\ P * p <= n /\ n < P * p + P
  OBVIOUS
<1>3. p > 0
  <2> SUFFICES ASSUME p <= 0 PROVE FALSE
    BY <1>2
  <2>1. P * p <= 0
    BY <1>2
  <2> QED
    BY <1>1, <1>2, <2>1
<1>4. P * (p - 1) = P * p - P
  BY <1>2
<1> QED
  BY <1>1, <1>2, <1>3, <1>4

LEMMA AnswerMoves ==
  ASSUME RowTyped, AnswerInv, RowMoved, CommentsMoved
  PROVE  AnswerInv'
<1>1. /\ remote \in RowRemote /\ remote.comments \in Seq(Logins) /\ Len(remote.comments) \in Nat /\ got.count \in Nat
      /\ past \in Seq(RowRemote) /\ past # <<>> /\ past[Len(past)] = remote
      /\ past' = Append(past, remote') /\ remote' \in RowRemote /\ remote'.comments \in Seq(Logins)
      /\ job' = job /\ step' = step /\ got' = got /\ step # "done"
  <2>1. got.count \in Nat
    BY DEF RowTyped, RowGot
  <2> QED
    BY <2>1, RemoteFields DEF RowTyped, RowMoved, Running
<1>2. /\ Len(past') = Len(past) + 1 /\ past'[Len(past')] = remote'
      /\ Len(past) \in DOMAIN past /\ Len(past) \in Nat /\ DOMAIN past = 1 .. Len(past)
      /\ DOMAIN past' = 1 .. Len(past) + 1 /\ Len(past') \in DOMAIN past'
      /\ \A i \in DOMAIN past : i \in DOMAIN past' /\ past'[i] = past[i]
  BY <1>1, PastGrows
<1>3. ASSUME NothingDeleted'
      PROVE  NothingDeleted /\ Len(remote.comments) <= Len(remote'.comments)
  <2>1. \A i, j \in DOMAIN past' : i < j => Len(past'[i].comments) <= Len(past'[j].comments)
    BY <1>3 DEF NothingDeleted
  <2>2. NothingDeleted
    BY <1>2, <2>1 DEF NothingDeleted
  <2>3. Len(past'[Len(past)].comments) <= Len(past'[Len(past')].comments)
    BY <1>2, <2>1
  <2> QED
    BY <1>1, <1>2, <2>2, <2>3
<1>4. ASSUME NEW k, NEW l, LastWas(past, k, l) PROVE LastWas(past', k, l)
  BY <1>2, <1>4 DEF LastWas
<1>5. ASSUME NothingDeleted', CountSeen PROVE CountSeen'
  <2>1. Len(remote.comments) <= Len(remote'.comments)
    BY <1>3, <1>5
  <2>2. CASE remote'.comments = remote.comments
    BY <1>1, <1>4, <1>5, <2>2 DEF CountSeen
  <2>3. CASE \E by \in Logins : remote'.comments = Append(remote.comments, by)
    <3>1. PICK by \in Logins : remote'.comments = Append(remote.comments, by)
      BY <2>3
    <3> DEFINE n == Len(remote.comments)
    <3>2. /\ Len(remote'.comments) = n + 1 /\ remote'.comments[n + 1] = by
          /\ \A k \in 1 .. n : remote'.comments[k] = remote.comments[k]
          /\ DOMAIN remote'.comments = 1 .. n + 1
      BY <1>1, <3>1, AppendProperties
    <3>3. n \in Nat /\ got.count <= n /\ \A k \in got.count .. n : LastWas(past, k, remote.comments[k])
      BY <1>1, <1>5 DEF CountSeen
    <3>4. ASSUME NEW k \in got.count .. n + 1 PROVE LastWas(past', k, remote'.comments[k])
      <4>1. CASE k = n + 1
        BY <1>2, <3>2, <3>3, <4>1 DEF LastWas
      <4>2. CASE k # n + 1
        <5>1. k \in got.count .. n
          BY <1>1, <3>3, <4>2
        <5>2. LastWas(past, k, remote.comments[k])
          BY <3>3, <5>1
        <5>3. k \in 1 .. n
          <6>1. PICK i \in DOMAIN past : Len(past[i].comments) = k /\ k \in DOMAIN past[i].comments
            BY <5>2 DEF LastWas
          <6>2. past[i].comments \in Seq(Logins)
            <7>1. past[i] \in RowRemote
              BY <1>1, <6>1
            <7> QED
              BY <7>1 DEF RowRemote
          <6> QED
            BY <3>3, <5>1, <6>1, <6>2
        <5> QED
          BY <1>4, <3>2, <5>2, <5>3
      <4> QED
        BY <4>1, <4>2
    <3> HIDE DEF n
    <3> QED
      BY <1>1, <3>2, <3>3, <3>4 DEF CountSeen
  <2>4. CASE Len(remote'.comments) < Len(remote.comments)
    BY <1>1, <2>1, <2>4
  <2> QED
    BY <2>2, <2>3, <2>4 DEF CommentsMoved
<1>6. AnswerTrue => AnswerTrue'
  BY <1>1, <1>2 DEF AnswerTrue
<1> QED
  BY <1>1, <1>3, <1>5, <1>6 DEF AnswerInv

LEMMA AnswerKept ==
  ASSUME RowTyped, AnswerInv, [RowNext]_runVars
  PROVE  AnswerInv'
<1>0. /\ remote \in RowRemote /\ remote.comments \in Seq(Logins) /\ Len(remote.comments) \in Nat
      /\ got.count \in Nat /\ got.failed \in SUBSET Requests
      /\ past \in Seq(RowRemote) /\ past # <<>> /\ past[Len(past)] = remote /\ Len(past) \in DOMAIN past
  <2>1. got.count \in Nat /\ got.failed \in SUBSET Requests
    BY DEF RowTyped, RowGot
  <2> QED
    BY <2>1, RemoteFields DEF RowTyped
<1>1. CASE Comments \/ Pushes \/ Checks \/ Reviews
  BY <1>1, RowMoves, AnswerMoves
<1>2. ASSUME NEW s, NEW g, RowAnswered(s, g),
             s \in {"pull", "checks", "done"},
             job.plugin = "issue-watch" /\ g.failed \cap {"issue", "comments"} = {} /\ NothingDeleted =>
               \E i \in DOMAIN past : g.answered = (past[i].comments # <<>> /\ Last(past[i].comments) # "author")
      PROVE  AnswerInv'
  <2>1. job' = job /\ past' = past /\ got' = g /\ step' = s
    BY <1>2 DEF RowAnswered
  <2>2. NothingDeleted' <=> NothingDeleted
    BY <2>1 DEF NothingDeleted
  <2> QED
    BY <1>2, <2>1, <2>2 DEF AnswerInv, AnswerTrue
<1>3. CASE GetIssue
  <2>1. CASE Go("done", Missed("issue"))
    <3>1. "issue" \in Missed("issue").failed
      BY <1>0 DEF Missed, RowTyped, RowGot
    <3>2. RowAnswered("done", Missed("issue"))
      BY <2>1, RowGo
    <3> QED
      BY <1>2, <3>1, <3>2
  <2>2. CASE Go(IF remote.comments # <<>> THEN "comments" ELSE AfterComments, [got EXCEPT !.count = Len(remote.comments)])
    <3> DEFINE g == [got EXCEPT !.count = Len(remote.comments)]
    <3>1. g.count = Len(remote.comments) /\ g.answered = got.answered /\ g.failed = got.failed
      BY DEF RowTyped, RowGot
    <3> HIDE DEF g
    <3>2. CASE remote.comments # <<>>
      <4>1. RowAnswered("comments", g)
        BY <2>2, <3>2, RowGo DEF g
      <4>2. job' = job /\ past' = past /\ got' = g /\ step' = "comments" /\ remote' = remote
        BY <4>1 DEF RowAnswered
      <4>3. g.count > 0 /\ g.count \in DOMAIN remote.comments
        BY <1>0, <3>1, <3>2
      <4>4. LastWas(past, g.count, remote.comments[g.count])
        BY <1>0, <3>1, <4>3 DEF LastWas
      <4>5. \A k \in g.count .. Len(remote.comments) : k = g.count
        BY <1>0, <3>1
      <4>6. CountSeen'
        BY <1>0, <3>1, <4>2, <4>4, <4>5 DEF CountSeen
      <4> QED
        BY <4>2, <4>3, <4>6 DEF AnswerInv
    <3>3. CASE remote.comments = <<>>
      <4>1. RowAnswered(AfterComments, g)
        BY <2>2, <3>3, RowGo DEF g
      <4>2. AfterComments \in {"pull", "done"}
        BY DEF AfterComments
      <4>3. ASSUME job.plugin = "issue-watch"
            PROVE  g.answered = (past[Len(past)].comments # <<>> /\ Last(past[Len(past)].comments) # "author")
        <5>1. ~got.answered
          BY <1>3, <4>3 DEF GetIssue, AnswerInv
        <5>2. past[Len(past)].comments = <<>> /\ g.answered \in BOOLEAN
          BY <1>0, <3>1, <3>3 DEF RowTyped, RowGot
        <5> QED
          BY <3>1, <5>1, <5>2, Zenon
      <4> QED
        BY <1>0, <1>2, <4>1, <4>2, <4>3
    <3> QED
      BY <3>2, <3>3
  <2> QED
    BY <1>3, <2>1, <2>2 DEF GetIssue
<1>4. CASE GetComments
  <2>0. AfterComments \in {"pull", "done"}
    BY DEF AfterComments
  <2>1. CASE Go(AfterComments, Missed("comments"))
    <3>1. "comments" \in Missed("comments").failed
      BY <1>0 DEF Missed, RowTyped, RowGot
    <3>2. RowAnswered(AfterComments, Missed("comments"))
      BY <2>1, RowGo
    <3> QED
      BY <1>2, <2>0, <3>1, <3>2
  <2>2. CASE LET page == PageOf(remote.comments, CommentsPage, lastPage) IN
             Go(AfterComments, [got EXCEPT !.answered = page # <<>> /\ Last(page) # "author"])
    <3> DEFINE page == PageOf(remote.comments, CommentsPage, lastPage)
               b == page # <<>> /\ Last(page) # "author"
               g == [got EXCEPT !.answered = b]
    <3>1. g.answered = b /\ RowAnswered(AfterComments, g)
      <4>1. ASSUME NEW x PROVE [got EXCEPT !.answered = x].answered = x
        BY DEF RowTyped, RowGot
      <4>2. Go(AfterComments, g)
        BY <2>2
      <4> HIDE DEF b
      <4> QED
        BY <4>1, <4>2, RowGo, Zenon
    <3>2. ASSUME job.plugin = "issue-watch", NothingDeleted
          PROVE  \E i \in DOMAIN past : b = (past[i].comments # <<>> /\ Last(past[i].comments) # "author")
      <4> DEFINE P == CommentsPage
                 c == got.count
                 L == Len(remote.comments)
                 p == lastPage
                 first == P * (p - 1) + 1
                 last == IF P * p < L THEN P * p ELSE L
      <4>1. c > 0 /\ c <= L /\ \A k \in c .. L : LastWas(past, k, remote.comments[k])
        BY <1>4, <3>2 DEF GetComments, AnswerInv, CountSeen
      <4>2. p \in Nat \ {0} /\ P * (p - 1) < c /\ c <= P * p /\ P \in Nat \ {0}
        <5>1. c \in Nat \ {0}
          BY <1>0, <4>1
        <5> QED
          BY <5>1, LastPage, RowsAssumption DEF lastPage
      <4>3. /\ c \in Nat /\ L \in Nat /\ P * p \in Int /\ P * (p - 1) \in Nat
        BY <1>0, <4>2
      <4> page = SubSeq(remote.comments, first, last)
        BY DEF PageOf
      <4> HIDE DEF p, P, c, L, page, b, g
      <4>4. first \in Nat /\ last \in Nat /\ 1 <= first /\ first <= last /\ last \in c .. L
        BY <4>1, <4>2, <4>3
      <4> HIDE DEF first, last
      <4>5. \A k \in first .. last : remote.comments[k] \in Logins
        BY <1>0, <4>3, <4>4 DEF L
      <4>6. page \in Seq(Logins) /\ Len(page) = last - first + 1 /\ page[last - first + 1] = remote.comments[last]
        <5>1. /\ SubSeq(remote.comments, first, last) \in Seq(Logins)
              /\ Len(SubSeq(remote.comments, first, last)) = last - first + 1
              /\ \A i \in 1 .. last - first + 1 : SubSeq(remote.comments, first, last)[i] = remote.comments[first + i - 1]
          BY <4>4, <4>5, SubSeqProperties
        <5>2. last - first + 1 \in 1 .. last - first + 1 /\ first + (last - first + 1) - 1 = last
          BY <4>4
        <5> QED
          BY <5>1, <5>2
      <4>7. page # <<>> /\ Last(page) = remote.comments[last] /\ remote.comments[last] \in Logins
        <5>1. last \in first .. last /\ last - first + 1 # 0
          BY <4>4
        <5>2. page # <<>>
          BY <4>6, <5>1
        <5> QED
          BY <4>5, <4>6, <5>1, <5>2 DEF Last
      <4>8. PICK i \in DOMAIN past : /\ Len(past[i].comments) = last /\ last \in DOMAIN past[i].comments
                                     /\ past[i].comments[last] = remote.comments[last]
        BY <4>1, <4>4 DEF LastWas
      <4>9. past[i].comments # <<>> /\ Last(past[i].comments) = remote.comments[last]
        BY <4>8 DEF Last
      <4>10. b = (past[i].comments # <<>> /\ Last(past[i].comments) # "author")
        BY <4>7, <4>9 DEF b
      <4> QED
        BY <4>10
    <3> HIDE DEF b, g
    <3> QED
      BY <1>2, <2>0, <3>1, <3>2
  <2> QED
    BY <1>4, <2>1, <2>2 DEF GetComments
<1>5. ASSUME NEW s \in {"checks", "done"}, NEW g, RowAnswered(s, g), step \in {"pull", "checks"},
             g.answered = got.answered, got.failed \subseteq g.failed
      PROVE  AnswerInv'
  BY <1>2, <1>5 DEF AnswerInv, AnswerTrue
<1>6. \A x : Missed(x).answered = got.answered /\ got.failed \subseteq Missed(x).failed
  BY DEF Missed, RowTyped, RowGot
<1>7. CASE GetPull
  <2>1. [got EXCEPT !.ref = remote.head].answered = got.answered /\ [got EXCEPT !.ref = remote.head].failed = got.failed
    BY DEF RowTyped, RowGot
  <2> QED
    BY <1>5, <1>6, <1>7, <2>1, RowGo DEF GetPull
<1>8. CASE GetCIBadge
  <2>1. \A x : [got EXCEPT !.ci = x].answered = got.answered /\ [got EXCEPT !.ci = x].failed = got.failed
    BY DEF RowTyped, RowGot
  <2> QED
    BY <1>5, <1>6, <1>8, <2>1, RowGo DEF GetCIBadge
<1>9. CASE ListPull \/ GetReviews \/ evalRepo
  <2>1. job.plugin # "issue-watch"
    BY <1>9 DEF ListPull, GetReviews, evalRepo, RowTyped
  <2>2. job' = job
    BY <1>9 DEF ListPull, GetReviews, evalRepo, Go, Proceed, Return
  <2> QED
    BY <2>1, <2>2 DEF AnswerInv
<1>10. CASE UNCHANGED runVars
  BY <1>10 DEF runVars, AnswerInv, NothingDeleted, CountSeen, AnswerTrue, LastWas
<1> QED
  BY <1>1, <1>3, <1>4, <1>7, <1>8, <1>9, <1>10 DEF RowNext

-----------------------------------------------------------------------------
(***************************************************************************)
(* The CI verdict.  The commit that is asked for was the head at some      *)
(* moment; the check runs are those of this moment.                        *)
(***************************************************************************)
HeadWas(ref) == ref \in Refs /\ (job.branch = "" => \E i \in DOMAIN past : past[i].head = ref)
CIVerdict(ci, runs) ==
  ci \in {"passing", "failing", "running"} /\ Len(runs) <= DefaultPage => Deserved(runs)[ci]
CIInv ==
  /\ step # "done" => got.ci = "none"
  /\ step \in {"reviews", "checks", "runs"} => HeadWas(got.ref)
  /\ step = "done" /\ got.ci # "none" =>
       \E i, j \in DOMAIN past :
         i <= j /\ (job.branch = "" => past[i].head = got.ref) /\ CIVerdict(got.ci, past[j].runs[got.ref])

LEMMA BadgeDeserved ==
  ASSUME NEW list \in Seq(Conclusions), Len(list) <= DefaultPage,
         NEW resp, resp = [total |-> Len(list), runs |-> PageOf(list, DefaultPage, 1)],
         AggregateCIBadge(resp) \in {"passing", "failing", "running"}
  PROVE  Deserved(list)[AggregateCIBadge(resp)]
<1>1. PageOf(list, DefaultPage, 1) = list
  <2>1. DefaultPage \in Nat /\ DefaultPage * 1 = DefaultPage /\ DefaultPage * (1 - 1) + 1 = 1 /\ Len(list) \in Nat
    BY RowsAssumption
  <2>2. (IF DefaultPage * 1 < Len(list) THEN DefaultPage * 1 ELSE Len(list)) = Len(list)
    BY <2>1
  <2>3. SubSeq(list, 1, Len(list)) = list
    OBVIOUS
  <2> QED
    BY <2>1, <2>2, <2>3 DEF PageOf
<1>2. resp.total = Len(list) /\ ToSet(resp.runs) = {list[i] : i \in DOMAIN list}
  BY <1>1 DEF ToSet
<1>3. \A i \in DOMAIN list : list[i] \in Conclusions
  OBVIOUS
<1>4. CASE AggregateCIBadge(resp) = "failing"
  <2>1. \E i \in DOMAIN list : list[i] \in FailConclusions
    BY <1>2, <1>4 DEF AggregateCIBadge
  <2>2. \E i \in DOMAIN list : list[i] = "cancelled"
    BY <1>3, <2>1 DEF FailConclusions, Conclusions, Unfinished
  <2> QED
    BY <1>4, <2>2 DEF Deserved
<1>5. CASE AggregateCIBadge(resp) = "running"
  <2>1. \E i \in DOMAIN list : list[i] = Unfinished
    BY <1>2, <1>5 DEF AggregateCIBadge
  <2> QED
    BY <1>5, <2>1 DEF Deserved
<1>6. CASE AggregateCIBadge(resp) = "passing"
  <2>1. /\ Len(list) # 0
        /\ ~ \E i \in DOMAIN list : list[i] \in FailConclusions
        /\ ~ \E i \in DOMAIN list : list[i] = Unfinished
    BY <1>2, <1>6 DEF AggregateCIBadge
  <2>2. list # <<>> /\ ToSet(list) \subseteq {"success", "neutral"}
    BY <1>3, <2>1 DEF ToSet, FailConclusions, Conclusions
  <2>3. ASSUME NEW p, NEW f, NEW r PROVE [passing |-> p, failing |-> f, running |-> r]["passing"] = p
    OBVIOUS
  <2>4. Deserved(list)["passing"] = (list # <<>> /\ ToSet(list) \subseteq {"success", "neutral"})
    BY <2>3, Zenon DEF Deserved
  <2> QED
    BY <1>6, <2>2, <2>4
<1> QED
  BY <1>4, <1>5, <1>6

LEMMA CIKept ==
  ASSUME RowTyped, CIInv, [RowNext]_runVars
  PROVE  CIInv'
<1>0. /\ remote \in RowRemote /\ remote.head \in Refs /\ remote.runs \in [Refs -> Seq(Conclusions)]
      /\ past \in Seq(RowRemote) /\ past # <<>> /\ past[Len(past)] = remote /\ Len(past) \in DOMAIN past
      /\ Len(past) \in Nat /\ DOMAIN past = 1 .. Len(past)
  BY RemoteFields DEF RowTyped
<1> USE DEF HeadWas
<1>1. CASE Comments \/ Pushes \/ Checks \/ Reviews
  <2>1. RowMoved
    BY <1>1, RowMoves
  <2>2. \A i \in DOMAIN past : i \in DOMAIN past' /\ past'[i] = past[i]
    BY <1>0, <2>1, PastGrows DEF RowMoved
  <2> QED
    BY <2>1, <2>2 DEF CIInv, RowMoved, Running
\* A request that says nothing of the checks.
<1>2. ASSUME NEW s, NEW g, RowAnswered(s, g), g.ci = got.ci, step # "done",
             s \in {"reviews", "checks", "runs"} =>
               (g.ref = got.ref /\ step \in {"reviews", "checks", "runs"}) \/ g.ref = remote.head
      PROVE  CIInv'
  <2>1. job' = job /\ past' = past /\ got' = g /\ step' = s /\ got.ci = "none"
    BY <1>2 DEF RowAnswered, CIInv
  <2>2. ASSUME s \in {"reviews", "checks", "runs"} PROVE g.ref \in Refs /\ (job.branch = "" => \E i \in DOMAIN past : past[i].head = g.ref)
    BY <1>0, <1>2, <2>2 DEF CIInv
  <2> QED
    BY <1>2, <2>1, <2>2 DEF CIInv
\* The request for the check runs.
<1>3. ASSUME step \in {"checks", "runs"}, NEW g, RowAnswered("done", g), g.ref = got.ref,
             g.ci = AggregateCIBadge(CheckRuns(got.ref))
      PROVE  CIInv'
  <2>1. job' = job /\ past' = past /\ got' = g /\ step' = "done"
    BY <1>3 DEF RowAnswered
  <2>2. got.ref \in Refs /\ (job.branch = "" => \E i \in DOMAIN past : past[i].head = got.ref)
    BY <1>3 DEF CIInv
  <2>3. CIVerdict(g.ci, remote.runs[g.ref])
    <3>1. remote.runs[got.ref] \in Seq(Conclusions)
      BY <1>0, <2>2
    <3> QED
      BY <1>3, <3>1, BadgeDeserved DEF CheckRuns, CIVerdict
  <2>4. \A i \in DOMAIN past : i <= Len(past)
    BY <1>0
  <2> QED
    BY <1>0, <1>3, <2>1, <2>2, <2>3, <2>4 DEF CIInv
<1>4. \A x : Missed(x).ci = got.ci /\ Missed(x).ref = got.ref
  BY DEF Missed, RowTyped, RowGot
<1>5. CASE GetIssue
  <2>1. \A x : [got EXCEPT !.count = x].ci = got.ci
    BY DEF RowTyped, RowGot
  <2>2. \A s : s = (IF remote.comments # <<>> THEN "comments" ELSE AfterComments) => s \notin {"reviews", "checks", "runs"}
    BY DEF AfterComments
  <2> QED
    BY <1>2, <1>4, <1>5, <2>1, <2>2, RowGo DEF GetIssue
<1>6. CASE GetComments
  <2>1. \A x : [got EXCEPT !.answered = x].ci = got.ci
    BY DEF RowTyped, RowGot
  <2>2. AfterComments \notin {"reviews", "checks", "runs"}
    BY DEF AfterComments
  <2>3. PICK g : g.ci = got.ci /\ Go(AfterComments, g)
    BY <1>4, <1>6, <2>1, Zenon DEF GetComments
  <2> QED
    BY <1>2, <1>6, <2>2, <2>3, RowGo DEF GetComments
<1>7. CASE GetPull
  <2>1. [got EXCEPT !.ref = remote.head].ref = remote.head /\ [got EXCEPT !.ref = remote.head].ci = got.ci
    BY DEF RowTyped, RowGot
  <2> QED
    BY <1>2, <1>4, <1>7, <2>1, RowGo DEF GetPull
<1>8. CASE ListPull
  <2>1. [got EXCEPT !.ref = remote.head].ref = remote.head /\ [got EXCEPT !.ref = remote.head].ci = got.ci
    BY DEF RowTyped, RowGot
  <2> QED
    BY <1>2, <1>8, <2>1, RowGo DEF ListPull
<1>9. CASE GetReviews
  <2>1. \A x : /\ [got EXCEPT !.review = x].ci = got.ci /\ [got EXCEPT !.review = x].ref = got.ref
               /\ [Missed("reviews") EXCEPT !.review = x].ci = got.ci
               /\ [Missed("reviews") EXCEPT !.review = x].ref = got.ref
    BY DEF RowTyped, RowGot, Missed
  <2>2. PICK g : Go("checks", g) /\ g.ci = got.ci /\ g.ref = got.ref
    BY <1>9, <2>1 DEF GetReviews
  <2> QED
    BY <1>2, <1>9, <2>2, RowGo DEF GetReviews
<1>10. CASE GetCIBadge
  <2>1. \A x : [got EXCEPT !.ci = x].ci = x /\ [got EXCEPT !.ci = x].ref = got.ref
    BY DEF RowTyped, RowGot
  <2>2. CASE Go("done", Missed("checks"))
    BY <1>2, <1>4, <1>10, <2>2, RowGo DEF GetCIBadge
  <2>3. CASE Go("done", [got EXCEPT !.ci = AggregateCIBadge(CheckRuns(got.ref))])
    BY <1>3, <1>10, <2>1, <2>3, RowGo DEF GetCIBadge
  <2> QED
    BY <1>10, <2>2, <2>3 DEF GetCIBadge
<1>11. CASE evalRepo
  <2>1. \A x : [got EXCEPT !.ci = x].ci = x /\ [got EXCEPT !.ci = x].ref = got.ref
    BY DEF RowTyped, RowGot
  <2>2. [got EXCEPT !.ref = remote.head].ref = remote.head /\ [got EXCEPT !.ref = remote.head].ci = got.ci
    BY DEF RowTyped, RowGot
  <2>3. \A r : aggregate(r).detail = AggregateCIBadge(r)
    BY DEF aggregate
  <2>4. CASE step = "repo"
    <3>1. CASE Go("done", Missed("repo"))
      BY <1>2, <1>4, <2>4, <3>1, RowGo
    <3>2. CASE Go("runs", [got EXCEPT !.ref = remote.head])
      BY <1>2, <2>2, <2>4, <3>2, RowGo
    <3> QED
      BY <1>11, <2>4, <3>1, <3>2 DEF evalRepo
  <2>5. CASE step = "runs"
    <3>1. CASE Go("done", Missed("runs"))
      BY <1>2, <1>4, <2>5, <3>1, RowGo
    <3>2. CASE Go("done", [got EXCEPT !.ci = aggregate(CheckRuns(got.ref)).detail])
      BY <1>3, <2>1, <2>3, <2>5, <3>2, RowGo
    <3> QED
      BY <1>11, <2>5, <3>1, <3>2 DEF evalRepo
  <2> QED
    BY <1>11, <2>4, <2>5 DEF evalRepo
<1>12. CASE UNCHANGED runVars
  BY <1>12 DEF runVars, CIInv
<1> QED
  BY <1>1, <1>5, <1>6, <1>7, <1>8, <1>9, <1>10, <1>11, <1>12 DEF RowNext

-----------------------------------------------------------------------------
(***************************************************************************)
(* The review badge.  The fold over the reviews holds, for each login, the *)
(* state of the last decisive review among those it has passed.            *)
(***************************************************************************)
SaysUpTo(list, k, by, s) ==
  \E i \in 1 .. k : /\ list[i] = [by |-> by, state |-> s]
                    /\ \A j \in 1 .. k : j > i /\ list[j].by = by => list[j].state \notin Decisive
Latest == [Logins -> Decisive \cup {"none"}]

LatestRun(R, list) ==
  /\ R \in [0 .. Len(list) -> Latest]
  /\ R[0] = [l \in Logins |-> "none"]
  /\ \A k \in 1 .. Len(list) :
       R[k] = IF list[k].state \in Decisive THEN [R[k - 1] EXCEPT ![list[k].by] = list[k].state] ELSE R[k - 1]
  /\ latest(list) = R[Len(list)]

LEMMA LatestIsRun ==
  ASSUME NEW s \in Seq(Review)
  PROVE  \E R : LatestRun(R, s)
<1> DEFINE n == Len(s)
           V == Latest
           empty == [l \in Logins |-> "none"]
           g == [p \in (1 .. n) \X V |->
                   IF s[p[1]].state \in Decisive THEN [p[2] EXCEPT ![s[p[1]].by] = s[p[1]].state] ELSE p[2]]
           Eq(F) == F = [t \in SUBSET DOMAIN s |->
                           IF t = {} THEN empty
                           ELSE IF s[Max(t)].state \in Decisive
                                THEN [F[t \ {Max(t)}] EXCEPT ![s[Max(t)].by] = s[Max(t)].state] ELSE F[t \ {Max(t)}]]
           fold == CHOOSE F : Eq(F)
<1>1. n \in Nat /\ DOMAIN s = 1 .. n /\ empty \in V /\ \A k \in 1 .. n : s[k].by \in Logins
  <2>1. ASSUME NEW r \in Review PROVE r.by \in Logins
    BY <2>1 DEF Review
  <2>2. empty \in V
    BY DEF Latest
  <2>3. n \in Nat /\ DOMAIN s = 1 .. n /\ \A k \in 1 .. n : s[k] \in Review
    OBVIOUS
  <2> HIDE DEF n, V, empty
  <2> QED
    BY <2>1, <2>2, <2>3
<1>2. ASSUME NEW k \in 1 .. n, NEW v \in V
      PROVE  /\ g[<<k, v>>] = (IF s[k].state \in Decisive THEN [v EXCEPT ![s[k].by] = s[k].state] ELSE v)
             /\ g[<<k, v>>] \in V
  <2>1. <<k, v>> \in (1 .. n) \X V
    OBVIOUS
  <2>2. s[k].by \in Logins
    BY <1>1
  <2>3. g[<<k, v>>] = (IF s[k].state \in Decisive THEN [v EXCEPT ![s[k].by] = s[k].state] ELSE v)
    BY <2>1
  <2> HIDE DEF g
  <2> QED
    BY <2>2, <2>3 DEF Latest
<1>3. g \in [(1 .. n) \X V -> V]
  <2>1. \A p \in (1 .. n) \X V : g[p] \in V
    <3> SUFFICES ASSUME NEW p \in (1 .. n) \X V PROVE g[p] \in V
      OBVIOUS
    <3>1. PICK k \in 1 .. n, v \in V : p = <<k, v>>
      OBVIOUS
    <3> HIDE DEF g
    <3> QED
      BY <1>2, <3>1
  <2>2. g = [p \in (1 .. n) \X V |-> g[p]]
    OBVIOUS
  <2> HIDE DEF g
  <2> QED
    BY <2>1, <2>2
<1> HIDE DEF n, V, g, empty
<1>4. PICK F : FoldOf(F, n, V, empty, g)
  BY <1>1, <1>3, FoldExists
<1>5. ASSUME NEW t \in SUBSET (1 .. n), t # {} PROVE Max(t) \in 1 .. n /\ t \ {Max(t)} \in SUBSET (1 .. n)
  <2>1. t \in SUBSET Int /\ n \in Int /\ \A x \in t : x <= n
    BY <1>1
  <2>2. Max(t) \in t
    BY <1>5, <2>1, MaxUpTo
  <2> QED
    BY <2>2
<1>6. Eq(F)
  <2>1. ASSUME NEW t \in SUBSET (1 .. n), t # {}
        PROVE  F[t] = IF s[Max(t)].state \in Decisive
                      THEN [F[t \ {Max(t)}] EXCEPT ![s[Max(t)].by] = s[Max(t)].state] ELSE F[t \ {Max(t)}]
    BY <1>2, <1>4, <1>5, <2>1 DEF FoldOf
  <2>2. F[{}] = empty /\ F \in [SUBSET (1 .. n) -> V]
    BY <1>4 DEF FoldOf
  <2>3. F = [t \in SUBSET (1 .. n) |->
               IF t = {} THEN empty
               ELSE IF s[Max(t)].state \in Decisive
                    THEN [F[t \ {Max(t)}] EXCEPT ![s[Max(t)].by] = s[Max(t)].state] ELSE F[t \ {Max(t)}]]
    BY <2>1, <2>2
  <2> QED
    BY <1>1, <2>3
<1>7. Eq(fold)
  <2> HIDE DEF Eq
  <2> QED BY <1>6
<1>8. Folds(fold, n, V, empty, g)
  <2> DEFINE f == fold
  <2>1. Eq(f)
    BY <1>7
  <2> HIDE DEF f, fold
  <2>2. f[{}] = empty
    BY <1>1, <2>1
  <2>3. ASSUME NEW t \in SUBSET (1 .. n), t # {}, f[t \ {Max(t)}] \in V
        PROVE  f[t] = g[<<Max(t), f[t \ {Max(t)}]>>]
    <3>1. f[t] = IF s[Max(t)].state \in Decisive
                 THEN [f[t \ {Max(t)}] EXCEPT ![s[Max(t)].by] = s[Max(t)].state] ELSE f[t \ {Max(t)}]
      BY <1>1, <2>1, <2>3
    <3> QED
      BY <1>2, <1>5, <2>3, <3>1
  <2> QED
    BY <2>2, <2>3 DEF f, Folds
<1>9. latest(s) = fold[1 .. n]
  BY <1>1 DEF latest, FoldLeft, MapThenFoldSet, empty
<1> HIDE DEF fold
<1> DEFINE R == [k \in 0 .. n |-> fold[1 .. k]]
<1>10. RunOf(R, n, V, empty, g)
  BY <1>1, <1>3, <1>8, FoldRun
<1>11. latest(s) = R[n]
  BY <1>1, <1>9
<1> HIDE DEF R
<1>12. ASSUME NEW k \in 1 .. n
       PROVE  R[k] = IF s[k].state \in Decisive THEN [R[k - 1] EXCEPT ![s[k].by] = s[k].state] ELSE R[k - 1]
  <2>1. k - 1 \in 0 .. n
    BY <1>1
  <2>2. R[k] = g[<<k, R[k - 1]>>] /\ R[k - 1] \in V
    BY <1>10, <2>1 DEF RunOf
  <2> QED
    BY <1>2, <2>2
<1> QED
  BY <1>10, <1>11, <1>12 DEF n, V, empty, RunOf, LatestRun

LEMMA LatestSays ==
  ASSUME NEW s \in Seq(Review), NEW l \in Logins, NEW d \in Decisive
  PROVE  latest(s)[l] = d <=> Says(s, l, d)
<1>1. PICK R : LatestRun(R, s)
  BY LatestIsRun
<1> DEFINE n == Len(s)
           S == {k \in 0 .. n : R[k][l] = d <=> SaysUpTo(s, k, l, d)}
<1>2. n \in Nat /\ DOMAIN s = 1 .. n /\ \A k \in 1 .. n : s[k] \in Review /\ k - 1 \in 0 .. n /\ R[k - 1] \in Latest
  BY <1>1 DEF LatestRun
<1>3. 0 \in S
  <2>1. R[0][l] = "none" /\ "none" \notin Decisive
    BY <1>1 DEF LatestRun, Decisive
  <2>2. ~SaysUpTo(s, 0, l, d)
    BY DEF SaysUpTo
  <2> QED
    BY <1>2, <2>1, <2>2
<1>4. ASSUME NEW k \in 1 .. n, k - 1 \in S PROVE k \in S
  <2>0. /\ s[k] \in Review /\ s[k].by \in Logins /\ R[k - 1] \in Latest /\ k \in 0 .. n
        /\ s[k] = [by |-> s[k].by, state |-> s[k].state]
    <3>1. s[k] \in Review /\ R[k - 1] \in Latest /\ k \in 0 .. n
      BY <1>2
    <3> QED
      BY <3>1 DEF Review
  <2>1. R[k - 1][l] = d <=> SaysUpTo(s, k - 1, l, d)
    BY <1>4
  <2>2. R[k] = IF s[k].state \in Decisive THEN [R[k - 1] EXCEPT ![s[k].by] = s[k].state] ELSE R[k - 1]
    BY <1>1 DEF LatestRun
  <2>3. \A i \in 1 .. k : i \in 1 .. k - 1 \/ i = k
    OBVIOUS
  <2>4. 1 .. k - 1 \subseteq 1 .. k /\ k \in 1 .. k /\ \A i \in 1 .. k - 1 : k > i
    OBVIOUS
  <2>5. CASE s[k].state \in Decisive /\ s[k].by = l
    <3>1. R[k][l] = s[k].state
      BY <2>0, <2>2, <2>5 DEF Latest
    <3>2. SaysUpTo(s, k, l, d) => s[k].state = d
      <4> SUFFICES ASSUME SaysUpTo(s, k, l, d) PROVE s[k].state = d
        OBVIOUS
      <4>1. PICK i \in 1 .. k : /\ s[i] = [by |-> l, state |-> d]
                                /\ \A j \in 1 .. k : j > i /\ s[j].by = l => s[j].state \notin Decisive
        BY DEF SaysUpTo
      <4>2. i = k
        BY <2>3, <2>4, <2>5, <4>1
      <4> QED
        BY <4>1, <4>2
    <3>3. s[k].state = d => SaysUpTo(s, k, l, d)
      <4>1. \A j \in 1 .. k : ~(j > k)
        OBVIOUS
      <4> QED
        BY <2>0, <2>4, <2>5, <4>1 DEF SaysUpTo
    <3> QED
      BY <2>0, <3>1, <3>2, <3>3
  <2>6. CASE ~(s[k].state \in Decisive /\ s[k].by = l)
    <3>1. R[k][l] = R[k - 1][l]
      BY <2>0, <2>2, <2>6 DEF Latest
    <3>2. SaysUpTo(s, k, l, d) => SaysUpTo(s, k - 1, l, d)
      <4> SUFFICES ASSUME SaysUpTo(s, k, l, d) PROVE SaysUpTo(s, k - 1, l, d)
        OBVIOUS
      <4>1. PICK i \in 1 .. k : /\ s[i] = [by |-> l, state |-> d]
                                /\ \A j \in 1 .. k : j > i /\ s[j].by = l => s[j].state \notin Decisive
        BY DEF SaysUpTo
      <4>2. i # k
        BY <2>6, <4>1
      <4> QED
        BY <2>3, <2>4, <4>1, <4>2 DEF SaysUpTo
    <3>3. SaysUpTo(s, k - 1, l, d) => SaysUpTo(s, k, l, d)
      BY <2>3, <2>4, <2>6 DEF SaysUpTo
    <3> QED
      BY <2>0, <2>1, <3>1, <3>2, <3>3
  <2> QED
    BY <2>5, <2>6
<1>5. n \in S
  <2> HIDE DEF S, n
  <2>1. 0 .. n \subseteq S
    BY <1>2, <1>3, <1>4, InductUpTo
  <2> QED
    BY <1>2, <2>1
<1>6. SaysUpTo(s, n, l, d) <=> Says(s, l, d)
  BY <1>2 DEF SaysUpTo, Says
<1> QED
  BY <1>1, <1>5, <1>6 DEF LatestRun

ReviewTrueAt(i) ==
  LET rs == PageOf(past[i].reviews, DefaultPage, 1)
      Somebody(s) == \E l \in Logins : Says(rs, l, s) IN
  /\ got.review = "changes requested" <=> Somebody("CHANGES_REQUESTED")
  /\ got.review = "approved" <=> Somebody("APPROVED") /\ ~Somebody("CHANGES_REQUESTED")
ReviewTrue == \E i \in DOMAIN past : ReviewTrueAt(i)
ReviewInv ==
  job.plugin = "prs-item" /\ step \in {"checks", "done"} /\ "reviews" \notin got.failed => ReviewTrue

LEMMA BadgeSays ==
  ASSUME NEW rs \in Seq(Review)
  PROVE  LET Somebody(s) == \E l \in Logins : Says(rs, l, s) IN
         /\ reviewBadge(rs) = "changes requested" <=> Somebody("CHANGES_REQUESTED")
         /\ reviewBadge(rs) = "approved" <=> Somebody("APPROVED") /\ ~Somebody("CHANGES_REQUESTED")
<1>1. \A l \in Logins : \A d \in Decisive : latest(rs)[l] = d <=> Says(rs, l, d)
  BY LatestSays
<1>2. ASSUME NEW d \in Decisive PROVE d \in {latest(rs)[l] : l \in Logins} <=> \E l \in Logins : Says(rs, l, d)
  BY <1>1
<1>3. "CHANGES_REQUESTED" \in Decisive /\ "APPROVED" \in Decisive
  BY DEF Decisive
<1> QED
  BY <1>2, <1>3 DEF reviewBadge

LEMMA ReviewKept ==
  ASSUME RowTyped, ReviewInv, [RowNext]_runVars
  PROVE  ReviewInv'
<1>0. /\ remote \in RowRemote /\ remote.reviews \in Seq(Review)
      /\ past \in Seq(RowRemote) /\ past # <<>> /\ past[Len(past)] = remote /\ Len(past) \in DOMAIN past
  BY RemoteFields DEF RowTyped
<1>1. CASE Comments \/ Pushes \/ Checks \/ Reviews
  <2>1. RowMoved
    BY <1>1, RowMoves
  <2>2. \A i \in DOMAIN past : i \in DOMAIN past' /\ past'[i] = past[i]
    BY <1>0, <2>1, PastGrows DEF RowMoved
  <2>3. ReviewTrue => ReviewTrue'
    BY <2>1, <2>2 DEF ReviewTrue, ReviewTrueAt, RowMoved
  <2> QED
    BY <2>1, <2>3 DEF ReviewInv, RowMoved
<1>2. CASE GetReviews
  <2>1. CASE Go("checks", [Missed("reviews") EXCEPT !.review = "review pending"])
    <3>1. "reviews" \in [Missed("reviews") EXCEPT !.review = "review pending"].failed
      BY DEF Missed, RowTyped, RowGot
    <3> QED
      BY <2>1, <3>1, RowGo DEF RowAnswered, ReviewInv
  <2>2. CASE Go("checks", [got EXCEPT !.review = reviewBadge(PageOf(remote.reviews, DefaultPage, 1))])
    <3> DEFINE rs == PageOf(remote.reviews, DefaultPage, 1)
    <3>1. rs \in Seq(Review)
      <4> DEFINE n == IF DefaultPage * 1 < Len(remote.reviews) THEN DefaultPage * 1 ELSE Len(remote.reviews)
      <4>1. DefaultPage \in Nat /\ DefaultPage * 1 = DefaultPage /\ DefaultPage * (1 - 1) + 1 = 1 /\ Len(remote.reviews) \in Nat
        BY <1>0, RowsAssumption
      <4>2. n \in Int /\ n <= Len(remote.reviews)
        BY <4>1
      <4> HIDE DEF n
      <4>3. \A i \in 1 .. n : remote.reviews[i] \in Review
        BY <1>0, <4>1, <4>2
      <4>4. SubSeq(remote.reviews, 1, n) \in Seq(Review)
        BY <4>2, <4>3, SubSeqProperties
      <4> QED
        BY <4>1, <4>4 DEF PageOf, n
    <3> HIDE DEF rs
    <3>2. Go("checks", [got EXCEPT !.review = reviewBadge(rs)])
      BY <2>2 DEF rs
    <3>3. [got EXCEPT !.review = reviewBadge(rs)].review = reviewBadge(rs)
      BY DEF RowTyped, RowGot
    <3>4. got'.review = reviewBadge(rs) /\ past' = past
      BY <3>2, <3>3, RowGo DEF RowAnswered
    <3>5. ReviewTrue'
      <4>1. /\ got'.review = "changes requested" <=> \E l \in Logins : Says(rs, l, "CHANGES_REQUESTED")
            /\ got'.review = "approved" <=> /\ \E l \in Logins : Says(rs, l, "APPROVED")
                                            /\ ~ \E l \in Logins : Says(rs, l, "CHANGES_REQUESTED")
        BY <3>1, <3>4, BadgeSays
      <4>2. rs = PageOf(past'[Len(past)].reviews, DefaultPage, 1) /\ Len(past) \in DOMAIN past'
        BY <1>0, <3>4 DEF rs
      <4> QED
        BY <4>1, <4>2 DEF ReviewTrue, ReviewTrueAt
    <3> QED
      BY <3>5 DEF ReviewInv
  <2> QED
    BY <1>2, <2>1, <2>2 DEF GetReviews
<1>3. CASE GetCIBadge
  <2>1. PICK g : Go("done", g) /\ g.review = got.review /\ got.failed \subseteq g.failed
    <3>1. \A x : [got EXCEPT !.ci = x].review = got.review /\ [got EXCEPT !.ci = x].failed = got.failed
      BY DEF RowTyped, RowGot
    <3>2. \A x : Missed(x).review = got.review /\ got.failed \subseteq Missed(x).failed
      BY DEF Missed, RowTyped, RowGot
    <3> QED
      BY <1>3, <3>1, <3>2 DEF GetCIBadge
  <2>2. got' = g /\ past' = past /\ job' = job /\ step = "checks"
    BY <1>3, <2>1, RowGo DEF RowAnswered, GetCIBadge
  <2> QED
    BY <2>1, <2>2 DEF ReviewInv, ReviewTrue, ReviewTrueAt
<1>4. CASE ListPull
  BY <1>4, RowGo DEF ListPull, RowAnswered, ReviewInv
<1>5. CASE GetIssue \/ GetComments \/ GetPull \/ evalRepo
  <2>1. job.plugin # "prs-item"
    BY <1>5 DEF GetIssue, GetComments, GetPull, evalRepo, RowTyped
  <2>2. job' = job
    BY <1>5 DEF GetIssue, GetComments, GetPull, evalRepo, Go, Proceed, Return
  <2> QED
    BY <2>1, <2>2 DEF ReviewInv
<1>6. CASE UNCHANGED runVars
  BY <1>6 DEF runVars, ReviewInv, ReviewTrue, ReviewTrueAt
<1> QED
  BY <1>1, <1>2, <1>3, <1>4, <1>5, <1>6 DEF RowNext

-----------------------------------------------------------------------------
RowInv == job.plugin \in RowPlugins => RowTyped /\ AnswerInv /\ CIInv /\ ReviewInv

(***************************************************************************)
(* In every run of the three row plugins the state is typed and what was   *)
(* learnt about comments, checks and reviews is true of some moment of the *)
(* run.                                                                    *)
(***************************************************************************)
THEOREM RowInvariant == Spec => []RowInv
<1>1. Init => RowInv
  <2> SUFFICES ASSUME Init, job.plugin \in RowPlugins PROVE RowTyped /\ AnswerInv /\ CIInv /\ ReviewInv
    BY DEF RowInv
  <2>1. RowInit
    BY Begins
  <2>2. /\ RowTyped
        /\ got.ci = "none" /\ got.ref = job.branch /\ got.answered = FALSE
        /\ step \in {"issue", "pulls", "repo", "runs"}
        /\ step = "runs" => job.branch \in Refs /\ job.branch # ""
    BY <2>1, RowStarts
  <2> QED
    BY <2>2 DEF AnswerInv, CIInv, HeadWas, ReviewInv
<1>2. RowInv /\ [Next]_runVars => RowInv'
  BY JobStays, StepsOf, RowTypedKept, AnswerKept, CIKept, ReviewKept DEF RowInv
<1> QED
  BY <1>1, <1>2, PTL DEF Spec

(***************************************************************************)
(* github-issue-watch: unless a comment was deleted or a request failed,   *)
(* what a row says about the last comment was true at some moment of the   *)
(* run, for pages of any size and comments that arrive between requests.   *)
(***************************************************************************)
THEOREM AnsweredCorrect == Spec => []AnsweredWasTrue
<1>1. RowInv => AnsweredWasTrue
  <2> SUFFICES ASSUME RowInv, RowReturned, job.plugin = "issue-watch", got.failed \cap {"issue", "comments"} = {}, NothingDeleted
               PROVE  \E i \in DOMAIN past : out.answered = (past[i].comments # <<>> /\ Last(past[i].comments) # "author")
    BY DEF AnsweredWasTrue
  <2>1. step = "done" /\ RowTyped /\ AnswerInv
    BY DEF RowReturned, Returned, RowInv, RowPlugins
  <2>2. AnswerTrue /\ out.answered = got.answered
    BY <2>1 DEF AnswerInv, RowTyped, Row
  <2> QED
    BY <2>2 DEF AnswerTrue
<1> QED
  BY <1>1, RowInvariant, PTL

(***************************************************************************)
(* A verdict on the checks is about a commit that was the head when it was *)
(* read, and a check run it had then or later deserved it, whatever is     *)
(* pushed and finished in between.                                         *)
(***************************************************************************)
THEOREM CICorrect == Spec => []CIWasTrue
<1>1. RowInv => CIWasTrue
  <2> SUFFICES ASSUME RowInv, RowReturned, out.ci \in {"passing", "failing", "running"}
               PROVE  \E i, j \in DOMAIN past :
                        /\ i <= j
                        /\ job.branch = "" => past[i].head = got.ref
                        /\ Len(past[j].runs[got.ref]) <= DefaultPage => Deserved(past[j].runs[got.ref])[out.ci]
    BY DEF CIWasTrue
  <2>1. step = "done" /\ RowTyped /\ CIInv
    BY DEF RowReturned, Returned, RowInv, RowPlugins
  <2>2. out.ci = got.ci /\ got.ci # "none"
    BY <2>1 DEF RowTyped, Row
  <2> QED
    BY <2>1, <2>2 DEF CIInv, CIVerdict
<1> QED
  BY <1>1, RowInvariant, PTL

(***************************************************************************)
(* github-prs: while the reviews of a pull request fit on the one page     *)
(* that is asked for, its badge is what the latest decisive review of      *)
(* every reviewer said at some moment of the run.                          *)
(***************************************************************************)
THEOREM ReviewCorrect == Spec => []ReviewWasTrue
<1>1. RowInv => ReviewWasTrue
  <2> SUFFICES ASSUME RowInv, Reviewed, OnOnePage
               PROVE  \E i \in DOMAIN past : BadgeIsOf(past[i].reviews)
    BY DEF ReviewWasTrue
  <2>1. step = "done" /\ RowTyped /\ ReviewInv /\ job.plugin = "prs-item" /\ "reviews" \notin got.failed
    BY DEF Reviewed, RowReturned, Returned, RowInv, RowPlugins
  <2>2. ReviewTrue /\ out.review = got.review
    BY <2>1 DEF ReviewInv, RowTyped, Row
  <2>3. PICK i \in DOMAIN past : ReviewTrueAt(i)
    BY <2>2 DEF ReviewTrue
  <2>4. PageOf(past[i].reviews, DefaultPage, 1) = past[i].reviews
    <3>1. past[i] \in RowRemote
      BY <2>1, <2>3 DEF RowTyped
    <3> DEFINE s == past[i].reviews
    <3>2. s \in Seq(Review) /\ Len(s) <= DefaultPage
      BY <3>1, RemoteFields DEF OnOnePage
    <3> HIDE DEF s
    <3> SUFFICES PageOf(s, DefaultPage, 1) = s
      BY DEF s
    <3>3. DefaultPage * (1 - 1) + 1 = 1 /\ DefaultPage * 1 = DefaultPage
      BY RowsAssumption
    <3>4. (IF DefaultPage * 1 < Len(s) THEN DefaultPage * 1 ELSE Len(s)) = Len(s)
      BY <3>2, <3>3, RowsAssumption
    <3>5. SubSeq(s, 1, Len(s)) = s
      BY <3>2
    <3> QED
      BY <3>3, <3>4, <3>5 DEF PageOf
  <2> QED
    BY <2>2, <2>3, <2>4 DEF ReviewTrueAt, BadgeIsOf
<1> QED
  BY <1>1, RowInvariant, PTL

-----------------------------------------------------------------------------
(***************************************************************************)
(* Stars and activity: every page but the last was full, so that page p    *)
(* begins where PerPage * (p - 1) items end, and as long as nothing leaves *)
(* there are at least that many.                                           *)
(***************************************************************************)
Days0 == 0 .. LastDay
ActivityTyped ==
  /\ job \in ActivityJobs
  /\ remote \in Seq(Item)
  /\ past \in Seq(Seq(Item)) /\ past # <<>> /\ past[Len(past)] = remote
  /\ step \in {"page", "done", "failed"}
  /\ got \in [times : Seq(Days0), page : 1 .. MaxPages]
  /\ step = "done" => out.total = Len(got.times)

Fetched == PerPage * (got.page - 1)      \* where the next page begins
OnlyArrivals == \A i, j \in DOMAIN past : i < j => Len(past[i]) < Len(past[j])
Counted(list, n) == {k \in 1 .. n : ~list[k].pr}
TotalTrue ==
  \E i \in DOMAIN past :
    CASE job.metric = "stars" -> got.times = Days(past[i])
      [] job.metric = "issues" -> Len(got.times) = Cardinality({k \in DOMAIN past[i] : ~past[i][k].pr})
      [] OTHER -> Len(got.times) = Len(past[i])
PagesInv ==
  /\ step = "page" =>
       /\ job.metric # "issues" => Len(got.times) = Fetched
       /\ OnlyArrivals =>
            /\ Fetched <= Len(remote)
            /\ job.metric = "stars" => \A k \in 1 .. Fetched : got.times[k] = remote[k].day
       /\ job.metric = "issues" /\ Len(past) = 1 => Len(got.times) = Cardinality(Counted(remote, Fetched))
  /\ step = "done" /\ Len(remote) < PerPage * MaxPages /\ OnlyArrivals /\ (job.metric = "issues" => Len(past) = 1) => TotalTrue

LEMMA PageItems ==
  ASSUME NEW S, NEW s \in Seq(S), NEW P \in Nat \ {0}, NEW p \in Nat \ {0},
         NEW items, items = SubSeq(s, P * (p - 1) + 1, IF P * p < Len(s) THEN P * p ELSE Len(s))
  PROVE  /\ items \in Seq(S) /\ P * (p - 1) \in Nat /\ P * p = P * (p - 1) + P
         /\ Len(items) = IF P * p <= Len(s) THEN P ELSE IF P * (p - 1) <= Len(s) THEN Len(s) - P * (p - 1) ELSE 0
         /\ \A i \in 1 .. Len(items) : items[i] = s[P * (p - 1) + i] /\ P * (p - 1) + i \in 1 .. Len(s)
<1> DEFINE a == P * (p - 1)
           n == IF P * p < Len(s) THEN P * p ELSE Len(s)
<1>1. a \in Nat /\ P * p = a + P /\ Len(s) \in Nat
  OBVIOUS
<1>2. items = SubSeq(s, a + 1, n)
  OBVIOUS
<1> HIDE DEF a
<1>3. n \in Nat /\ n <= Len(s) /\ n = IF a + P < Len(s) THEN a + P ELSE Len(s)
  BY <1>1
<1> HIDE DEF n
<1>4. \A i \in a + 1 .. n : s[i] \in S
  BY <1>1, <1>3
<1>5. /\ items \in Seq(S)
      /\ Len(items) = IF a + 1 <= n THEN n - (a + 1) + 1 ELSE 0
      /\ \A i \in 1 .. n - (a + 1) + 1 : items[i] = s[(a + 1) + i - 1]
  <2>1. PICK lo : lo = a + 1
    OBVIOUS
  <2>2. lo \in Int /\ n \in Int /\ \A i \in lo .. n : s[i] \in S
    BY <1>1, <1>3, <1>4, <2>1
  <2>3. /\ SubSeq(s, lo, n) \in Seq(S)
        /\ Len(SubSeq(s, lo, n)) = IF lo <= n THEN n - lo + 1 ELSE 0
        /\ \A i \in 1 .. n - lo + 1 : SubSeq(s, lo, n)[i] = s[lo + i - 1]
    <3>1. SubSeq(s, lo, n) \in Seq(S)
      BY <2>2, SubSeqProperties
    <3>2. Len(SubSeq(s, lo, n)) = IF lo <= n THEN n - lo + 1 ELSE 0
      BY <2>2, SubSeqProperties
    <3>3. \A i \in 1 .. n - lo + 1 : SubSeq(s, lo, n)[i] = s[lo + i - 1]
      BY <2>2, SubSeqProperties
    <3> QED
      BY <3>1, <3>2, <3>3
  <2> QED
    BY <1>2, <2>1, <2>3, Zenon
<1>6. \A i \in 1 .. Len(items) : items[i] = s[a + i] /\ a + i \in 1 .. Len(s)
  <2> SUFFICES ASSUME NEW i \in 1 .. Len(items) PROVE items[i] = s[a + i] /\ a + i \in 1 .. Len(s)
    OBVIOUS
  <2>1. i \in 1 .. n - (a + 1) + 1 /\ (a + 1) + i - 1 = a + i
    BY <1>1, <1>3, <1>5
  <2>2. items[i] = s[(a + 1) + i - 1]
    BY <1>5, <2>1
  <2> QED
    BY <1>1, <1>3, <2>1, <2>2
<1>7. Len(items) = IF a + P <= Len(s) THEN P ELSE IF a <= Len(s) THEN Len(s) - a ELSE 0
  <2> DEFINE L == Len(items)
             M == Len(s)
  <2>1. /\ L = IF a + 1 <= n THEN n - (a + 1) + 1 ELSE 0
        /\ M \in Nat /\ a \in Nat /\ P \in Nat \ {0} /\ n \in Nat /\ n = IF a + P < M THEN a + P ELSE M
    BY <1>1, <1>3, <1>5
  <2> HIDE DEF L, M
  <2>2. L = IF a + P <= M THEN P ELSE IF a <= M THEN M - a ELSE 0
    BY <2>1
  <2> QED
    BY <2>2 DEF L, M
<1> QED
  BY <1>1, <1>5, <1>6, <1>7 DEF a

\* The counted items of one page more.
LEMMA CountedMore ==
  ASSUME NEW s \in Seq(Item), NEW a \in Nat, NEW items \in Seq(Item), a + Len(items) <= Len(s),
         \A i \in 1 .. Len(items) : items[i] = s[a + i]
  PROVE  /\ Cardinality(Counted(s, a)) \in Nat
         /\ Cardinality(Counted(s, a + Len(items))) =
              Cardinality(Counted(s, a)) + Len(Kept(items, {it \in Item : ~it.pr}))
<1> DEFINE n == Len(items)
           A == {it \in Item : ~it.pr}
           T == {i \in 1 .. n : items[i] \in A}
           U == {k \in a + 1 .. a + n : ~s[k].pr}
           C == Counted(s, a)
           h == [i \in T |-> a + i]
<1>1. n \in Nat /\ \A i \in 1 .. n : items[i] \in Item /\ items[i] = s[a + i]
  OBVIOUS
<1> HIDE DEF n
<1>2. IsFiniteSet(T) /\ Len(Kept(items, A)) = Cardinality(T)
  <2> HIDE DEF A
  <2> QED
    BY KeptLength DEF n
<1>3. \A i \in 1 .. n : i \in T <=> ~s[a + i].pr
  BY <1>1
<1> HIDE DEF T, A
<1>4. h \in Bijection(T, U)
  <2>1. \A i \in T : i \in 1 .. n /\ a + i \in U
    <3>1. \A i \in T : i \in 1 .. n
      BY DEF T
    <3> QED
      BY <1>1, <1>3, <3>1
  <2>2. \A k \in U : k - a \in T /\ a + (k - a) = k
    BY <1>1, <1>3
  <2> HIDE DEF U
  <2>3. h \in [T -> U]
    BY <2>1
  <2>4. \A i, j \in T : h[i] = h[j] => i = j
    BY <2>1
  <2>5. \A k \in U : \E i \in T : h[i] = k
    BY <2>2
  <2> HIDE DEF h
  <2> QED
    BY <2>3, <2>4, <2>5 DEF Bijection, Injection, Surjection, IsInjective
<1>5. IsFiniteSet(U) /\ Cardinality(U) = Cardinality(T)
  BY <1>2, <1>4, FS_Bijection DEF ExistsBijection
<1>6. IsFiniteSet(C)
  <2>1. IsFiniteSet(1 .. a) /\ C \subseteq 1 .. a
    BY FS_Interval DEF Counted
  <2> QED
    BY <2>1, FS_Subset
<1>7. C \cap U = {} /\ Counted(s, a + n) = C \cup U
  BY <1>1 DEF Counted
<1> HIDE DEF C, U
<1>8. Cardinality(C \cup U) = Cardinality(C) + Cardinality(U) - Cardinality({}) /\ Cardinality({}) = 0
  BY <1>5, <1>6, <1>7, FS_Union, FS_EmptySet
<1>9. Cardinality(C) \in Nat /\ Cardinality(U) \in Nat
  BY <1>5, <1>6, FS_CardinalityType
<1>10. Cardinality(Counted(s, a + n)) = Cardinality(C) + Len(Kept(items, A))
  <2>1. Cardinality(Counted(s, a + n)) = Cardinality(C \cup U)
    BY <1>7, Zenon
  <2>2. Len(Kept(items, A)) = Cardinality(U)
    BY <1>2, <1>5, Zenon
  <2>3. Cardinality(C \cup U) = Cardinality(C) + Cardinality(U)
    BY <1>8, <1>9
  <2> QED
    BY <2>1, <2>2, <2>3, Zenon
<1> QED
  BY <1>9, <1>10, Zenon DEF n, A, C

LEMMA ActivityJobFields ==
  ASSUME job \in ActivityJobs
  PROVE  job.plugin \in {"stars", "rate"} /\ job.metric \in Metrics
BY DEF ActivityJobs

\* What a move of the remote does to its list.
ActivityMoved ==
  /\ remote' \in Seq(Item) /\ past' = Append(past, remote') /\ step # "done" /\ UNCHANGED <<job, step, got, out>>
  /\ \/ Len(remote') < Len(remote)
     \/ /\ Len(remote') = Len(remote) + 1
        /\ job.metric = "stars" => \A k \in 1 .. Len(remote) : remote'[k] = remote[k]

LEMMA ActivityMoves ==
  ASSUME ActivityTyped, Arrive \/ Leave
  PROVE  ActivityMoved
<1>0. remote \in Seq(Item) /\ Len(remote) \in Nat
  BY DEF ActivityTyped
<1>1. CASE Arrive
  <2>1. PICK it \in Item : Move(IF job.metric = "stars" THEN Append(remote, it) ELSE <<it>> \o remote)
    BY <1>1 DEF Arrive
  <2> DEFINE r == IF job.metric = "stars" THEN Append(remote, it) ELSE <<it>> \o remote
  <2>2. Append(remote, it) \in Seq(Item) /\ Len(Append(remote, it)) = Len(remote) + 1
        /\ \A k \in 1 .. Len(remote) : Append(remote, it)[k] = remote[k]
    BY <1>0, AppendProperties
  <2>3. <<it>> \o remote \in Seq(Item) /\ Len(<<it>> \o remote) = Len(remote) + 1
    BY <1>0
  <2>4. r \in Seq(Item) /\ Len(r) = Len(remote) + 1
        /\ (job.metric = "stars" => \A k \in 1 .. Len(remote) : r[k] = remote[k])
    BY <2>2, <2>3
  <2> HIDE DEF r
  <2>5. Move(r)
    BY <2>1 DEF r
  <2> QED
    BY <2>4, <2>5 DEF Move, Running, ActivityMoved
<1>2. CASE Leave
  <2>1. PICK i \in DOMAIN remote : Move(RemoveAt(remote, i))
    BY <1>2 DEF Leave
  <2>2. RemoveAt(remote, i) \in Seq(Item) /\ Len(RemoveAt(remote, i)) = Len(remote) - 1
    BY <1>0, Removed
  <2>3. Len(RemoveAt(remote, i)) < Len(remote)
    BY <1>0, <2>2
  <2> QED
    BY <2>1, <2>2, <2>3 DEF Move, Running, ActivityMoved
<1> QED
  BY <1>1, <1>2

\* A page was fetched: what it adds, and whether it was full.
PageFetched(times, full) ==
  /\ times \in Seq(Days0)
  /\ \E n \in Nat :
       /\ full = (n = PerPage) /\ n <= PerPage
       /\ Fetched <= Len(remote) => n = (IF Fetched + PerPage <= Len(remote) THEN PerPage ELSE Len(remote) - Fetched)
       /\ full => Fetched + PerPage <= Len(remote)
       /\ job.metric # "issues" =>
            /\ Len(times) = Len(got.times) + n
            /\ \A k \in 1 .. Len(got.times) : times[k] = got.times[k]
            /\ \A k \in 1 .. n : times[Len(got.times) + k] = remote[Fetched + k].day
       /\ job.metric = "issues" /\ Fetched <= Len(remote) =>
            Len(times) - Len(got.times) = Cardinality(Counted(remote, Fetched + n)) - Cardinality(Counted(remote, Fetched))

LEMMA DaysOf ==
  ASSUME NEW list \in Seq(Item)
  PROVE  /\ Days(list) \in Seq(Days0) /\ Len(Days(list)) = Len(list)
         /\ \A i \in 1 .. Len(list) : Days(list)[i] = list[i].day
<1>1. \A i \in 1 .. Len(list) : list[i].day \in Days0
  <2>1. \A it \in Item : it.day \in Days0
    BY DEF Item, Days0
  <2> QED
    BY <2>1
<1>2. Days(list) = [i \in 1 .. Len(list) |-> list[i].day] /\ Len(list) \in Nat
  BY DEF Days
<1>3. Days(list) \in [1 .. Len(list) -> Days0]
  BY <1>1, <1>2
<1> QED
  BY <1>2, <1>3

LEMMA PageAnswers ==
  ASSUME ActivityTyped
  PROVE  LET answer == fetchActivityPage(got.page) IN PageFetched(got.times \o answer.times, answer.more)
<1> DEFINE P == PerPage
           p == got.page
           a == P * (p - 1)
           items == SubSeq(remote, P * (p - 1) + 1, IF P * p < Len(remote) THEN P * p ELSE Len(remote))
           A == {it \in Item : ~it.pr}
           list == IF job.metric = "issues" THEN Kept(items, A) ELSE items
           n == Len(items)
           times == got.times \o Days(list)
<1>1. /\ P \in Nat \ {0} /\ p \in Nat \ {0} /\ remote \in Seq(Item) /\ Len(remote) \in Nat
      /\ got.times \in Seq(Days0) /\ Len(got.times) \in Nat
  <2>1. got.page \in 1 .. MaxPages /\ got.times \in Seq(Days0) /\ remote \in Seq(Item)
    BY DEF ActivityTyped
  <2> QED
    BY <2>1, ActivityAssumption
<1>2. /\ items \in Seq(Item) /\ a \in Nat /\ P * p = a + P
      /\ n = IF a + P <= Len(remote) THEN P ELSE IF a <= Len(remote) THEN Len(remote) - a ELSE 0
      /\ \A i \in 1 .. n : items[i] = remote[a + i] /\ a + i \in 1 .. Len(remote)
  <2>1. \A x : x = items =>
          /\ x \in Seq(Item) /\ P * (p - 1) \in Nat /\ P * p = P * (p - 1) + P
          /\ Len(x) = IF P * p <= Len(remote) THEN P ELSE IF P * (p - 1) <= Len(remote) THEN Len(remote) - P * (p - 1) ELSE 0
          /\ \A i \in 1 .. Len(x) : x[i] = remote[P * (p - 1) + i] /\ P * (p - 1) + i \in 1 .. Len(remote)
    BY <1>1, PageItems
  <2> HIDE DEF items
  <2> QED
    BY <2>1
<1>3. fetchActivityPage(p) = [times |-> Days(list), more |-> Len(items) = P]
  BY DEF fetchActivityPage
<1>4. Fetched = a
  BY DEF Fetched
<1> HIDE DEF P, p, a, items, A
<1>5. list \in Seq(Item)
  BY <1>2, KeptPicks
<1> HIDE DEF list
<1>6. /\ times \in Seq(Days0) /\ Len(times) = Len(got.times) + Len(list)
      /\ \A k \in 1 .. Len(got.times) : times[k] = got.times[k]
      /\ \A k \in 1 .. Len(list) : times[Len(got.times) + k] = list[k].day
  <2>1. Days(list) \in Seq(Days0) /\ Len(Days(list)) = Len(list) /\ \A i \in 1 .. Len(list) : Days(list)[i] = list[i].day
    BY <1>5, DaysOf
  <2> DEFINE d == Days(list)
  <2> HIDE DEF d
  <2>2. d \in Seq(Days0) /\ Len(d) = Len(list) /\ \A i \in 1 .. Len(list) : d[i] = list[i].day
    BY <2>1 DEF d
  <2>3. /\ got.times \o d \in Seq(Days0) /\ Len(got.times \o d) = Len(got.times) + Len(list)
        /\ \A i \in 1 .. Len(got.times) + Len(list) :
             (got.times \o d)[i] = IF i <= Len(got.times) THEN got.times[i] ELSE d[i - Len(got.times)]
    <3>1. /\ got.times \o d \in Seq(Days0) /\ Len(got.times \o d) = Len(got.times) + Len(d)
          /\ \A i \in 1 .. Len(got.times) + Len(d) :
               (got.times \o d)[i] = IF i <= Len(got.times) THEN got.times[i] ELSE d[i - Len(got.times)]
      <4>1. d \in Seq(Days0) /\ got.times \in Seq(Days0)
        BY <1>1, <2>2
      <4> QED
        BY <4>1, ConcatProperties
    <3> QED
      BY <2>2, <3>1, Zenon
  <2>4. \A k \in 1 .. Len(got.times) : k \in 1 .. Len(got.times) + Len(list) /\ k <= Len(got.times)
    BY <1>1, <1>5
  <2>5. \A k \in 1 .. Len(list) : /\ Len(got.times) + k \in 1 .. Len(got.times) + Len(list)
                                  /\ ~(Len(got.times) + k <= Len(got.times)) /\ (Len(got.times) + k) - Len(got.times) = k
    BY <1>1, <1>5
  <2>6. times = got.times \o d
    BY DEF d
  <2> HIDE DEF times
  <2> QED
    BY <2>2, <2>3, <2>4, <2>5, <2>6
<1> HIDE DEF times
<1>7. n \in Nat /\ n <= P
  BY <1>1, <1>2
<1>8. job.metric # "issues" => list = items
  BY DEF list
<1>9. ASSUME job.metric = "issues", a <= Len(remote)
      PROVE  Len(times) - Len(got.times) = Cardinality(Counted(remote, a + n)) - Cardinality(Counted(remote, a))
  <2>1. a + n <= Len(remote)
    BY <1>1, <1>2, <1>9
  <2>2. list = Kept(items, {it \in Item : ~it.pr})
    BY <1>9 DEF list, A
  <2>3. /\ Cardinality(Counted(remote, a)) \in Nat
        /\ Cardinality(Counted(remote, a + n)) = Cardinality(Counted(remote, a)) + Len(list)
    BY <1>1, <1>2, <2>1, <2>2, CountedMore
  <2>4. Len(list) \in Nat
    BY <1>5
  <2> QED
    BY <1>1, <1>6, <2>3, <2>4
<1>10. (n = P) => a + P <= Len(remote)
  BY <1>1, <1>2
<1>11. PageFetched(times, n = P)
  <2>1. a <= Len(remote) => n = (IF a + P <= Len(remote) THEN P ELSE Len(remote) - a)
    BY <1>1, <1>2
  <2>2. job.metric # "issues" =>
          /\ Len(times) = Len(got.times) + n
          /\ \A k \in 1 .. n : times[Len(got.times) + k] = remote[a + k].day
    BY <1>2, <1>6, <1>8
  <2> HIDE DEF n
  <2> QED
    BY <1>4, <1>6, <1>7, <1>9, <1>10, <2>1, <2>2 DEF PageFetched, P
<1>12. \A b : [times |-> Days(list), more |-> b].times = Days(list) /\ [times |-> Days(list), more |-> b].more = b
  OBVIOUS
<1> QED
  BY <1>3, <1>11, <1>12, Zenon DEF times, p, P

LEMMA ActivityStarts ==
  ASSUME ActivityInit
  PROVE  ActivityTyped /\ PagesInv
<1>1. /\ job \in ActivityJobs /\ step = "page" /\ got = [times |-> <<>>, page |-> 1] /\ past = <<remote>>
      /\ remote \in SeqOf(Item, MaxItems)
  BY DEF ActivityInit
<1>2. remote \in Seq(Item) /\ Len(remote) \in Nat
  BY <1>1 DEF SeqOf
<1>3. got \in [times : Seq(Days0), page : 1 .. MaxPages] /\ got.page = 1 /\ got.times = <<>>
  BY <1>1, ActivityAssumption
<1>4. past \in Seq(Seq(Item)) /\ past # <<>> /\ past[Len(past)] = remote
  BY <1>1, <1>2
<1>5. Fetched = 0
  BY <1>3, ActivityAssumption DEF Fetched
<1>6. Counted(remote, 0) = {} /\ Cardinality({}) = 0
  BY FS_EmptySet DEF Counted
<1>7. ActivityTyped
  BY <1>1, <1>2, <1>3, <1>4 DEF ActivityTyped
<1>8. PagesInv
  <2>1. Len(got.times) = 0 /\ 1 .. 0 = {}
    BY <1>3
  <2>2. Len(got.times) = Cardinality(Counted(remote, 0))
    BY <1>6, <2>1
  <2> QED
    BY <1>1, <1>2, <1>5, <2>1, <2>2 DEF PagesInv
<1> QED
  BY <1>7, <1>8

LEMMA ActivityMovesKept ==
  ASSUME ActivityTyped, PagesInv, ActivityMoved
  PROVE  ActivityTyped' /\ PagesInv'
<1>1. /\ remote \in Seq(Item) /\ Len(remote) \in Nat /\ remote' \in Seq(Item) /\ Len(remote') \in Nat
      /\ past \in Seq(Seq(Item)) /\ past # <<>> /\ past[Len(past)] = remote /\ past' = Append(past, remote')
      /\ job' = job /\ step' = step /\ got' = got /\ out' = out /\ step # "done"
  BY DEF ActivityTyped, ActivityMoved
<1>2. /\ past' \in Seq(Seq(Item)) /\ past' # <<>> /\ Len(past') = Len(past) + 1 /\ past'[Len(past')] = remote'
      /\ Len(past) \in DOMAIN past /\ Len(past) \in Nat /\ DOMAIN past = 1 .. Len(past)
      /\ DOMAIN past' = 1 .. Len(past) + 1 /\ Len(past') \in DOMAIN past'
      /\ \A i \in DOMAIN past : i \in DOMAIN past' /\ past'[i] = past[i]
  BY <1>1, PastGrows
<1>3. ActivityTyped'
  BY <1>1, <1>2 DEF ActivityTyped
<1>4. ASSUME OnlyArrivals' PROVE OnlyArrivals /\ Len(remote) < Len(remote')
  <2>1. \A i, j \in DOMAIN past' : i < j => Len(past'[i]) < Len(past'[j])
    BY <1>4 DEF OnlyArrivals
  <2>2. OnlyArrivals
    BY <1>2, <2>1 DEF OnlyArrivals
  <2>3. Len(past'[Len(past)]) < Len(past'[Len(past')])
    <3>1. Len(past) \in DOMAIN past' /\ Len(past') \in DOMAIN past' /\ Len(past) < Len(past')
      BY <1>2
    <3> QED
      BY <2>1, <3>1, Zenon
  <2> QED
    BY <1>1, <1>2, <2>2, <2>3
<1>5. Fetched' = Fetched /\ Fetched \in Int
  BY <1>1, ActivityAssumption DEF Fetched, ActivityTyped
<1>6. ASSUME OnlyArrivals', step = "page"
      PROVE  /\ Fetched <= Len(remote')
             /\ job.metric = "stars" => \A k \in 1 .. Fetched : got.times[k] = remote'[k].day
  <2>1. /\ Fetched <= Len(remote) /\ Len(remote) < Len(remote')
        /\ job.metric = "stars" => \A k \in 1 .. Fetched : got.times[k] = remote[k].day
    BY <1>4, <1>6 DEF PagesInv
  <2>2. job.metric = "stars" => \A k \in 1 .. Len(remote) : remote'[k] = remote[k]
    BY <1>1, <2>1 DEF ActivityMoved
  <2>3. Fetched <= Len(remote') /\ \A k \in 1 .. Fetched : k \in 1 .. Len(remote)
    <3> DEFINE f == Fetched
    <3>1. f \in Int /\ f <= Len(remote) /\ Len(remote) < Len(remote') /\ Len(remote) \in Nat /\ Len(remote') \in Nat
      BY <1>1, <1>5, <2>1
    <3> HIDE DEF f
    <3> QED
      BY <3>1 DEF f
  <2> QED
    BY <2>1, <2>2, <2>3
<1>7. Len(past') # 1
  BY <1>2
<1>8. PagesInv'
  BY <1>1, <1>5, <1>6, <1>7 DEF PagesInv
<1> QED
  BY <1>3, <1>8

LEMMA FetchKept ==
  ASSUME ActivityTyped, PagesInv, FetchPage
  PROVE  ActivityTyped' /\ PagesInv'
<1> DEFINE answer == fetchActivityPage(got.page)
           times == got.times \o answer.times
           full == answer.more
           a == Fetched
           P == PerPage
           L == Len(remote)
           T == Len(got.times)
<1>1. PageFetched(times, full) /\ step = "page"
  BY PageAnswers DEF FetchPage
<1>2. \/ Abort
      \/ full /\ got.page < MaxPages /\ Proceed("page", [times |-> times, page |-> got.page + 1])
      \/ ~(full /\ got.page < MaxPages) /\ Return([total |-> Len(times), points |-> Series(times)], [times |-> times, page |-> got.page])
  BY DEF FetchPage
<1> HIDE DEF answer, times, full
<1>3. /\ remote \in Seq(Item) /\ L \in Nat /\ P \in Nat \ {0} /\ MaxPages \in Nat \ {0}
      /\ got.page \in 1 .. MaxPages /\ got.times \in Seq(Days0) /\ T \in Nat
      /\ past \in Seq(Seq(Item)) /\ past # <<>> /\ past[Len(past)] = remote /\ Len(past) \in DOMAIN past
      /\ job \in ActivityJobs /\ job.metric \in Metrics
      /\ times \in Seq(Days0) /\ Len(times) \in Nat
  <2>1. got.page \in 1 .. MaxPages /\ got.times \in Seq(Days0)
    BY DEF ActivityTyped
  <2>2. times \in Seq(Days0)
    BY <1>1 DEF PageFetched
  <2> QED
    BY <2>1, <2>2, ActivityAssumption, ActivityJobFields DEF ActivityTyped
<1>4. a \in Nat /\ a = P * (got.page - 1) /\ P * got.page = a + P
  <2>1. got.page \in Nat \ {0} /\ P \in Nat
    BY <1>3
  <2>2. P * (got.page - 1) \in Nat /\ P * got.page = P * (got.page - 1) + P
    BY <2>1
  <2> QED
    BY <2>2, Zenon DEF Fetched
<1>5. PICK n \in Nat :
        /\ full = (n = P) /\ n <= P
        /\ a <= L => n = (IF a + P <= L THEN P ELSE L - a)
        /\ full => a + P <= L
        /\ job.metric # "issues" =>
             /\ Len(times) = T + n
             /\ \A k \in 1 .. T : times[k] = got.times[k]
             /\ \A k \in 1 .. n : times[T + k] = remote[a + k].day
        /\ job.metric = "issues" /\ a <= L =>
             Len(times) - T = Cardinality(Counted(remote, a + n)) - Cardinality(Counted(remote, a))
  BY <1>1 DEF PageFetched
<1> HIDE DEF a, P, L, T
<1>6. /\ job.metric # "issues" => T = a
      /\ OnlyArrivals => a <= L /\ (job.metric = "stars" => \A k \in 1 .. a : got.times[k] = remote[k].day)
      /\ job.metric = "issues" /\ Len(past) = 1 => T = Cardinality(Counted(remote, a))
  BY <1>1 DEF PagesInv, a, L, T
<1>7. Len(past) = 1 => OnlyArrivals
  BY <1>3 DEF OnlyArrivals
<1>8. \A k \in Nat : k <= L => Cardinality(Counted(remote, k)) \in Nat
  <2> SUFFICES ASSUME NEW k \in Nat PROVE Cardinality(Counted(remote, k)) \in Nat
    OBVIOUS
  <2>1. IsFiniteSet(1 .. k) /\ Counted(remote, k) \subseteq 1 .. k
    BY FS_Interval DEF Counted
  <2> QED
    BY <2>1, FS_Subset, FS_CardinalityType
<1>9. job.metric = "issues" /\ Len(past) = 1 => Len(times) = Cardinality(Counted(remote, a + n)) /\ a <= L
  <2> SUFFICES ASSUME job.metric = "issues", Len(past) = 1 PROVE Len(times) = Cardinality(Counted(remote, a + n)) /\ a <= L
    OBVIOUS
  <2>1. a <= L /\ T = Cardinality(Counted(remote, a))
    BY <1>6, <1>7
  <2>2. a + n \in Nat /\ a + n <= L
    <3>1. n = (IF a + P <= L THEN P ELSE L - a) /\ n \in Nat
      BY <1>5, <2>1
    <3>2. a \in Nat /\ P \in Nat /\ L \in Nat
      BY <1>3, <1>4
    <3> HIDE <1>3, <1>4
    <3> QED
      BY <2>1, <3>1, <3>2
  <2>3. Cardinality(Counted(remote, a + n)) \in Nat
    BY <1>8, <2>2
  <2>4. Len(times) - T = Cardinality(Counted(remote, a + n)) - T
    BY <1>5, <2>1
  <2> QED
    BY <1>3, <2>1, <2>3, <2>4
<1>10. ASSUME OnlyArrivals, job.metric = "stars", NEW k \in 1 .. a + n, a + n <= L PROVE times[k] = remote[k].day
  <2>1. CASE k <= a
    <3>1. k \in 1 .. a /\ k \in 1 .. T
      BY <1>4, <1>6, <1>10, <2>1
    <3> QED
      BY <1>5, <1>6, <1>10, <3>1
  <2>2. CASE k > a
    <3>1. k - a \in 1 .. n /\ T = a /\ T + (k - a) = k /\ a + (k - a) = k
      BY <1>4, <1>6, <1>10, <2>2
    <3> QED
      BY <1>5, <1>10, <3>1
  <2> QED
    BY <1>4, <2>1, <2>2
<1>11. CASE Abort
  BY <1>11 DEF Abort, ActivityTyped, PagesInv
<1>12. CASE full /\ got.page < MaxPages /\ Proceed("page", [times |-> times, page |-> got.page + 1])
  <2>1. /\ job' = job /\ remote' = remote /\ out' = out /\ past' = past /\ step' = "page"
        /\ got' = [times |-> times, page |-> got.page + 1]
    BY <1>12 DEF Proceed
  <2>2. got' \in [times : Seq(Days0), page : 1 .. MaxPages] /\ got'.times = times /\ got'.page = got.page + 1
    BY <1>3, <1>12, <2>1
  <2>3. ActivityTyped'
    BY <2>1, <2>2 DEF ActivityTyped
  <2>4. n = P /\ a + P <= L
    BY <1>5, <1>12
  <2>5. Fetched' = a + P
    BY <1>3, <1>4, <2>2 DEF Fetched, P
  <2>6. job.metric # "issues" => Len(times) = a + P
    BY <1>5, <1>6, <2>4
  <2>7. OnlyArrivals /\ job.metric = "stars" => \A k \in 1 .. a + P : times[k] = remote[k].day
    BY <1>10, <2>4
  <2>8. OnlyArrivals' <=> OnlyArrivals
    BY <2>1 DEF OnlyArrivals
  <2>9. Counted(remote', a + n) = Counted(remote, a + n)
    BY <2>1, Zenon
  <2>10. PagesInv'
    BY <1>9, <2>1, <2>2, <2>4, <2>5, <2>6, <2>7, <2>8, <2>9 DEF PagesInv, L
  <2> QED
    BY <2>3, <2>10
<1>13. CASE /\ ~(full /\ got.page < MaxPages)
            /\ Return([total |-> Len(times), points |-> Series(times)], [times |-> times, page |-> got.page])
  <2>1. /\ job' = job /\ remote' = remote /\ past' = past /\ step' = "done"
        /\ got' = [times |-> times, page |-> got.page]
        /\ out' = [total |-> Len(times), points |-> Series(times)]
    BY <1>13 DEF Return
  <2>2. /\ got' \in [times : Seq(Days0), page : 1 .. MaxPages] /\ got'.times = times /\ got'.page = got.page
        /\ out'.total = Len(times)
    BY <1>3, <2>1
  <2>3. ActivityTyped'
    BY <2>1, <2>2 DEF ActivityTyped
  <2>4. ASSUME L < P * MaxPages, OnlyArrivals, job.metric = "issues" => Len(past) = 1
        PROVE  TotalTrue'
    <3>1. a <= L
      BY <1>6, <2>4
    <3>2. ~(a + P <= L)
      <4>1. CASE ~full
        BY <1>3, <1>4, <1>5, <3>1, <4>1
      <4>2. CASE got.page = MaxPages
        BY <1>3, <1>4, <2>4, <4>2
      <4> QED
        BY <1>3, <1>13, <4>1, <4>2
    <3>3. n = L - a /\ a + n = L
      BY <1>3, <1>4, <1>5, <3>1, <3>2
    <3>4. Len(past) \in DOMAIN past' /\ past'[Len(past)] = remote
      BY <1>3, <2>1
    <3>5. CASE job.metric = "stars"
      <4>1. Len(times) = L /\ \A k \in 1 .. L : times[k] = remote[k].day
        BY <1>5, <1>6, <1>10, <2>4, <3>3, <3>5
      <4>2. times = Days(remote)
        <5>1. /\ Days(remote) \in Seq(Days0) /\ Len(Days(remote)) = L
              /\ \A k \in 1 .. L : Days(remote)[k] = remote[k].day
          BY <1>3, DaysOf DEF L
        <5> QED
          BY <1>3, <4>1, <5>1, SeqEqual
      <4> QED
        BY <2>1, <2>2, <3>4, <3>5, <4>2 DEF TotalTrue
    <3>6. CASE job.metric = "issues"
      <4>1. Len(times) = Cardinality(Counted(remote, L))
        BY <1>9, <2>4, <3>3, <3>6
      <4>2. Counted(remote, L) = {k \in DOMAIN remote : ~remote[k].pr}
        BY <1>3 DEF Counted, L
      <4> QED
        BY <2>1, <2>2, <3>4, <3>6, <4>1, <4>2 DEF TotalTrue
    <3>7. CASE job.metric \notin {"stars", "issues"}
      <4>1. Len(times) = L
        BY <1>5, <1>6, <3>3, <3>7
      <4> QED
        BY <2>1, <2>2, <3>4, <3>7, <4>1 DEF TotalTrue, L
    <3> QED
      BY <3>5, <3>6, <3>7
  <2>5. OnlyArrivals' <=> OnlyArrivals
    BY <2>1 DEF OnlyArrivals
  <2>6. PagesInv'
    BY <2>1, <2>4, <2>5 DEF PagesInv, L, P
  <2> QED
    BY <2>3, <2>6
<1> QED
  BY <1>2, <1>11, <1>12, <1>13

ActivityInv == job.plugin \in {"stars", "rate"} => ActivityTyped /\ PagesInv

(***************************************************************************)
(* The pages fetched so far are typed and hold what the repository had.    *)
(***************************************************************************)
THEOREM ActivityInvariant == Spec => []ActivityInv
<1>1. Init => ActivityInv
  BY Begins, ActivityStarts DEF ActivityInv
<1>2. ActivityInv /\ [Next]_runVars => ActivityInv'
  <2> SUFFICES ASSUME ActivityInv, [Next]_runVars, job.plugin \in {"stars", "rate"} PROVE ActivityTyped' /\ PagesInv'
    BY JobStays DEF ActivityInv
  <2>1. ActivityTyped /\ PagesInv /\ [ActivityNext]_runVars
    BY StepsOf DEF ActivityInv
  <2>2. CASE FetchPage
    BY <2>1, <2>2, FetchKept
  <2>3. CASE Arrive \/ Leave
    BY <2>1, <2>3, ActivityMoves, ActivityMovesKept
  <2>4. CASE UNCHANGED runVars
    BY <2>1, <2>4 DEF runVars, ActivityTyped, PagesInv, Fetched, OnlyArrivals, TotalTrue
  <2> QED
    BY <2>1, <2>2, <2>3, <2>4 DEF ActivityNext
<1> QED
  BY <1>1, <1>2, PTL DEF Spec

(***************************************************************************)
(* github-stars, github-activity-rate: while items only arrive, a total    *)
(* is one the repository had during the run, for pages of any size.        *)
(***************************************************************************)
THEOREM TotalCorrect == Spec => []TotalWasTrue
<1>1. ActivityInv => TotalWasTrue
  <2> SUFFICES ASSUME ActivityInv, ActivityReturned, Len(remote) < PerPage * MaxPages, OnlyArrivals,
                      job.metric = "issues" => Len(past) = 1
               PROVE  \E i \in DOMAIN past :
                        CASE job.metric = "stars" -> got.times = Days(past[i])
                          [] job.metric = "issues" -> out.total = Cardinality({k \in DOMAIN past[i] : ~past[i][k].pr})
                          [] OTHER -> out.total = Len(past[i])
    BY DEF TotalWasTrue, OnlyArrivals
  <2>1. step = "done" /\ ActivityTyped /\ PagesInv
    BY DEF ActivityReturned, Returned, ActivityInv
  <2>2. TotalTrue /\ out.total = Len(got.times)
    BY <2>1 DEF ActivityTyped, PagesInv
  <2> QED
    BY <2>2 DEF TotalTrue
<1> QED
  BY <1>1, ActivityInvariant, PTL

-----------------------------------------------------------------------------
(***************************************************************************)
(* The image check.  Every candidate of a tag is still to be tried or was  *)
(* found absent, or hidden from a credential it was asked with, at some    *)
(* moment; both stay so as the history and the credentials grow.           *)
(***************************************************************************)
Candidates == {"v1", "1"}
TagSpec == [of : SUBSET Candidates, left : Seq(Candidates)]
SomeSeq(s) == s \in Seq({s[i] : i \in DOMAIN s})

Absent(history, sent, c) ==
  \E i \in DOMAIN history :
    c \notin DOMAIN history[i].tags \/ (history[i].refusal = "404" /\ ~(sent \subseteq history[i].accepts))
SpecTrue(history, sent, spec) ==
  /\ spec.left # <<>> /\ ToSet(spec.left) \subseteq spec.of
  /\ \A c \in spec.of : c \in ToSet(spec.left) \/ Absent(history, sent, c)
RowTrue(history, sent, row) ==
  /\ row.exists => row.tag \in row.of /\ \E i \in DOMAIN history : HasIt(history[i], row)
  /\ ~row.exists => \A c \in row.of : Absent(history, sent, c)

\* The record of what the run has learnt, one field after the other.
Learnt(g) == g = [specs |-> g.specs, bearer |-> g.bearer, sent |-> g.sent, challenged |-> g.challenged, rows |-> g.rows]

LEMMA LearntSent ==
  ASSUME NEW g, Learnt(g), NEW x, NEW h, h = [g EXCEPT !.sent = x]
  PROVE  Learnt(h) /\ h.specs = g.specs /\ h.bearer = g.bearer /\ h.sent = x /\ h.challenged = g.challenged /\ h.rows = g.rows
<1>1. h = [specs |-> g.specs, bearer |-> g.bearer, sent |-> x, challenged |-> g.challenged, rows |-> g.rows]
  BY DEF Learnt
<1>2. h.specs = g.specs /\ h.bearer = g.bearer /\ h.sent = x /\ h.challenged = g.challenged /\ h.rows = g.rows
  BY <1>1
<1> QED
  BY <1>1, <1>2, Zenon DEF Learnt

LEMMA LearntSpecs ==
  ASSUME NEW g, Learnt(g), NEW x, NEW h, h = [g EXCEPT !.specs = x]
  PROVE  Learnt(h) /\ h.specs = x /\ h.bearer = g.bearer /\ h.sent = g.sent /\ h.challenged = g.challenged /\ h.rows = g.rows
<1>1. h = [specs |-> x, bearer |-> g.bearer, sent |-> g.sent, challenged |-> g.challenged, rows |-> g.rows]
  BY DEF Learnt
<1>2. h.specs = x /\ h.bearer = g.bearer /\ h.sent = g.sent /\ h.challenged = g.challenged /\ h.rows = g.rows
  BY <1>1
<1> QED
  BY <1>1, <1>2, Zenon DEF Learnt

LEMMA LearntBearer ==
  ASSUME NEW g, Learnt(g), NEW x, NEW h, h = [g EXCEPT !.bearer = x]
  PROVE  Learnt(h) /\ h.specs = g.specs /\ h.bearer = x /\ h.sent = g.sent /\ h.challenged = g.challenged /\ h.rows = g.rows
<1>1. h = [specs |-> g.specs, bearer |-> x, sent |-> g.sent, challenged |-> g.challenged, rows |-> g.rows]
  BY DEF Learnt
<1>2. h.specs = g.specs /\ h.bearer = x /\ h.sent = g.sent /\ h.challenged = g.challenged /\ h.rows = g.rows
  BY <1>1
<1> QED
  BY <1>1, <1>2, Zenon DEF Learnt

LEMMA LearntToken ==
  ASSUME NEW g, Learnt(g), NEW x, NEW y, NEW h, h = [g EXCEPT !.bearer = x, !.challenged = y]
  PROVE  h = [specs |-> g.specs, bearer |-> x, sent |-> g.sent, challenged |-> y, rows |-> g.rows]
BY DEF Learnt

LEMMA LearntRow ==
  ASSUME NEW g, Learnt(g), NEW x, NEW y, NEW h, h = [g EXCEPT !.specs = x, !.rows = y]
  PROVE  h = [specs |-> x, bearer |-> g.bearer, sent |-> g.sent, challenged |-> g.challenged, rows |-> y]
BY DEF Learnt

\* What the registry does not change: how it refuses.
Registry(r) ==
  /\ \E a, t, p, c : r = [accepts |-> a, tags |-> t, refusal |-> r.refusal, prefetch |-> p, challenge |-> c]
  /\ r.refusal \in {"401", "403", "404"}

ImageInv ==
  /\ job \in ImageJobs /\ Registry(remote)
  /\ SomeSeq(past) /\ past # <<>> /\ past[Len(past)] = remote
  /\ Learnt(got)
  /\ got.specs \in Seq(TagSpec) /\ SomeSeq(got.rows)
  /\ step \in {"release", "token", "manifest", "challenge", "retry", "done", "failed"}
  /\ step \in {"token", "manifest", "challenge", "retry"} => got.specs # <<>>
  /\ \A n \in DOMAIN got.specs : SpecTrue(past, got.sent, got.specs[n])
  /\ \A n \in DOMAIN got.rows : RowTrue(past, got.sent, got.rows[n])
  /\ step = "done" => out = Checklist(got.rows)

\* Every way to write the image leads to the address it lives under.
LEMMA Parsed ==
  ASSUME job \in ImageJobs
  PROVE  parseImage(job.image) = Address
<1>1. job.image \in Images
  BY DEF ImageJobs
<1> DEFINE image == job.image
<1>2. \/ image = [host |-> "", path |-> <<"nginx">>]
      \/ image = [host |-> "docker.io", path |-> <<"nginx">>]
      \/ image = [host |-> "ghcr.io", path |-> <<"org", "app">>]
      \/ image = [host |-> "localhost:5000", path |-> <<"app">>]
  BY <1>1 DEF Images
<1> HIDE DEF image
<1>3. CASE image.host \in {"", "docker.io"} /\ image.path = <<"nginx">>
  <2>1. ASSUME NEW a, NEW b PROVE <<a>> \o <<b>> = <<a, b>>
    <3>1. <<a>> \in Seq({a, b}) /\ <<b>> \in Seq({a, b}) /\ Len(<<a>>) = 1 /\ Len(<<b>>) = 1
      OBVIOUS
    <3>2. /\ <<a>> \o <<b>> \in Seq({a, b}) /\ Len(<<a>> \o <<b>>) = 2
          /\ (<<a>> \o <<b>>)[1] = a /\ (<<a>> \o <<b>>)[2] = b
      BY <3>1, ConcatProperties
    <3>3. <<a, b>> \in Seq({a, b}) /\ Len(<<a, b>>) = 2 /\ <<a, b>>[1] = a /\ <<a, b>>[2] = b
      OBVIOUS
    <3> DEFINE c == <<a>> \o <<b>>
               d == <<a, b>>
    <3> HIDE DEF c, d
    <3>4. c \in Seq({a, b}) /\ d \in Seq({a, b}) /\ Len(c) = 2 /\ Len(d) = 2 /\ c[1] = d[1] /\ c[2] = d[2]
      BY <3>2, <3>3 DEF c, d
    <3>5. \A i \in 1 .. Len(c) : c[i] = d[i]
      BY <3>4
    <3>6. c = d
      BY <3>4, <3>5, SeqEqual
    <3> QED
      BY <3>6 DEF c, d
  <2>2. Len(image.path) = 1 /\ <<"library">> \o image.path = <<"library", "nginx">>
    BY <1>3, <2>1
  <2> QED
    BY <1>3, <2>2 DEF parseImage, DockerHosts, Address, image
<1>4. CASE image.host = "ghcr.io" /\ image.path = <<"org", "app">>
  BY <1>4 DEF parseImage, DockerHosts, Ported, Address, image
<1>5. CASE image.host = "localhost:5000" /\ image.path = <<"app">>
  BY <1>5 DEF parseImage, DockerHosts, Ported, Address, image
<1>6. \/ image.host \in {"", "docker.io"} /\ image.path = <<"nginx">>
      \/ image.host = "ghcr.io" /\ image.path = <<"org", "app">>
      \/ image.host = "localhost:5000" /\ image.path = <<"app">>
  <2>2. CASE image = [host |-> "", path |-> <<"nginx">>]
    BY <2>2
  <2>3. CASE image = [host |-> "docker.io", path |-> <<"nginx">>]
    BY <2>3
  <2>4. CASE image = [host |-> "ghcr.io", path |-> <<"org", "app">>]
    BY <2>4
  <2>5. CASE image = [host |-> "localhost:5000", path |-> <<"app">>]
    BY <2>5
  <2> QED
    BY <1>2, <2>2, <2>3, <2>4, <2>5
<1> QED
  BY <1>3, <1>4, <1>5, <1>6

LEMMA GrowSeq ==
  ASSUME NEW s, SomeSeq(s), NEW e
  PROVE  /\ SomeSeq(Append(s, e)) /\ Append(s, e) # <<>> /\ Len(Append(s, e)) = Len(s) + 1
         /\ Append(s, e)[Len(Append(s, e))] = e /\ Len(s) \in Nat
         /\ DOMAIN Append(s, e) = 1 .. Len(s) + 1 /\ DOMAIN s = 1 .. Len(s)
         /\ \A i \in DOMAIN s : i \in DOMAIN Append(s, e) /\ Append(s, e)[i] = s[i]
<1> DEFINE S == {s[i] : i \in DOMAIN s} \cup {e}
           t == Append(s, e)
<1>1. s \in Seq({s[i] : i \in DOMAIN s})
  BY DEF SomeSeq
<1>2. s \in Seq(S) /\ e \in S
  BY <1>1
<1> HIDE DEF S
<1>3. t \in Seq(S) /\ Len(t) = Len(s) + 1 /\ Len(s) \in Nat
      /\ \A i \in 1 .. Len(s) : t[i] = s[i]
      /\ t[Len(s) + 1] = e
  BY <1>2, AppendProperties
<1> HIDE DEF t
<1>4. t \in Seq({t[i] : i \in DOMAIN t})
  BY <1>3
<1>5. DOMAIN t = 1 .. Len(s) + 1 /\ DOMAIN s = 1 .. Len(s) /\ t # <<>>
  BY <1>2, <1>3
<1> QED
  BY <1>3, <1>4, <1>5 DEF t, SomeSeq

LEMMA StaysTrue ==
  ASSUME NEW h, NEW h2, \A i \in DOMAIN h : i \in DOMAIN h2 /\ h2[i] = h[i],
         NEW sent, NEW sent2, sent \subseteq sent2
  PROVE  /\ \A c : Absent(h, sent, c) => Absent(h2, sent2, c)
         /\ \A spec : SpecTrue(h, sent, spec) => SpecTrue(h2, sent2, spec)
         /\ \A row : RowTrue(h, sent, row) => RowTrue(h2, sent2, row)
<1>1. \A c : Absent(h, sent, c) => Absent(h2, sent2, c)
  <2> SUFFICES ASSUME NEW c, Absent(h, sent, c) PROVE Absent(h2, sent2, c)
    OBVIOUS
  <2> QED
    BY DEF Absent
<1> QED
  BY <1>1 DEF SpecTrue, RowTrue

LEMMA ImageMoves ==
  ASSUME ImageInv, PushTag \/ RemoveTag
  PROVE  ImageInv'
<1>1. past' = Append(past, remote') /\ job' = job /\ step' = step /\ got' = got /\ out' = out /\ step # "done"
  BY DEF PushTag, RemoveTag, Move, Running
<1>2. SomeSeq(past)
  BY DEF ImageInv
<1>3. /\ SomeSeq(past') /\ past' # <<>> /\ past'[Len(past')] = remote'
      /\ \A i \in DOMAIN past : i \in DOMAIN past' /\ past'[i] = past[i]
  BY <1>1, <1>2, GrowSeq
<1>4. /\ \A spec : SpecTrue(past, got.sent, spec) => SpecTrue(past', got.sent, spec)
      /\ \A row : RowTrue(past, got.sent, row) => RowTrue(past', got.sent, row)
  BY <1>3, StaysTrue
<1>5. Registry(remote')
  <2>1. PICK tags : remote' = [remote EXCEPT !.tags = tags]
    BY DEF PushTag, RemoveTag, Move
  <2>2. PICK a, t, p, c : remote = [accepts |-> a, tags |-> t, refusal |-> remote.refusal, prefetch |-> p, challenge |-> c]
    BY DEF ImageInv, Registry
  <2> DEFINE f == remote.refusal
  <2>3. f \in {"401", "403", "404"}
    BY DEF ImageInv, Registry
  <2> HIDE DEF f
  <2>4. remote' = [accepts |-> a, tags |-> tags, refusal |-> f, prefetch |-> p, challenge |-> c]
    <3>1. ASSUME NEW x1, NEW x2, NEW x3, NEW x4, NEW x5, NEW x6
          PROVE  [[accepts |-> x1, tags |-> x2, refusal |-> x3, prefetch |-> x4, challenge |-> x5] EXCEPT !.tags = x6]
                   = [accepts |-> x1, tags |-> x6, refusal |-> x3, prefetch |-> x4, challenge |-> x5]
      OBVIOUS
    <3>2. remote = [accepts |-> a, tags |-> t, refusal |-> f, prefetch |-> p, challenge |-> c]
      BY <2>2 DEF f
    <3> QED
      BY <2>1, <3>1, <3>2, Zenon
  <2>5. remote'.refusal = f
    BY <2>4
  <2> QED
    BY <2>3, <2>4, <2>5 DEF Registry
<1> QED
  BY <1>1, <1>3, <1>4, <1>5 DEF ImageInv

LEMMA ImageStarts ==
  ASSUME ImageInit
  PROVE  ImageInv
<1>1. /\ job \in ImageJobs /\ (job.manual \/ job.source) /\ past = <<remote>>
      /\ step = IF job.source THEN "release" ELSE "token"
      /\ got = [specs |-> IF job.manual THEN <<Spec1(<<"1">>)>> ELSE <<>>, bearer |-> "none", sent |-> {},
                challenged |-> FALSE, rows |-> <<>>]
  BY DEF ImageInit
<1> DEFINE spec == Spec1(<<"1">>)
           specs == IF job.manual THEN <<spec>> ELSE <<>>
<1>2. ToSet(<<"1">>) = {"1"}
  BY DEF ToSet
<1>3. spec \in TagSpec /\ SpecTrue(past, {}, spec)
  BY <1>2 DEF Spec1, TagSpec, Candidates, SpecTrue
<1> HIDE DEF spec
<1>4. specs \in Seq(TagSpec) /\ \A n \in DOMAIN specs : specs[n] = spec
  BY <1>3
<1>5. step \in {"release", "token"} /\ (step = "token" => specs # <<>>)
  BY <1>1
<1>6. /\ got.specs = specs /\ got.sent = {} /\ got.rows = <<>>
      /\ Learnt(got)
  BY <1>1 DEF spec, Learnt
<1> HIDE DEF specs
<1>7. SomeSeq(past) /\ past # <<>> /\ past[Len(past)] = remote /\ SomeSeq(<<>>)
  BY <1>1 DEF SomeSeq
<1>8. Registry(remote)
  <2>0. PICK a \in {Bearers, {"prefetched", "challenged"}, {"configured"}},
             t \in UNION {{[x \in ts |-> m] : ts \in SUBSET Tags} : m \in Manifest},
             f \in {"401", "403", "404"}, p \in BOOLEAN, c \in BOOLEAN :
          /\ job.image.host # "" => a = Bearers /\ f = "401"
          /\ remote = [accepts |-> a, tags |-> t, refusal |-> f, prefetch |-> p, challenge |-> c]
    BY Zenon DEF ImageInit
  <2>1. f \in {"401", "403", "404"} /\ remote = [accepts |-> a, tags |-> t, refusal |-> f, prefetch |-> p, challenge |-> c]
    BY <2>0, Zenon
  <2>2. remote.refusal = f
    BY <2>1
  <2> QED
    BY <2>1, <2>2, Zenon DEF Registry
<1> QED
  BY <1>1, <1>3, <1>4, <1>5, <1>6, <1>7, <1>8 DEF ImageInv

\* A tag is decided: one spec less, one row more.
LEMMA DecideKept ==
  ASSUME ImageInv, step \in {"manifest", "retry"}, NEW b,
         NEW g, Learnt(g), g.specs = got.specs, g.rows = got.rows, g.sent = got.sent \cup {b},
         NEW e, NEW t, NEW p, NEW row, row = [exists |-> e, tag |-> t, platforms |-> p, of |-> Head(got.specs).of],
         RowTrue(past, g.sent, row),
         Decide(e, t, p, g)
  PROVE  ImageInv'
<1>1. /\ got.specs \in Seq(TagSpec) /\ got.specs # <<>> /\ SomeSeq(got.rows)
      /\ Learnt(g) /\ g.specs = got.specs /\ g.rows = got.rows /\ g.sent = got.sent \cup {b}
  BY DEF ImageInv
<1> DEFINE specs == Tail(got.specs)
           rows == Append(got.rows, row)
           h == [g EXCEPT !.specs = Tail(@), !.rows = Append(@, [exists |-> e, tag |-> t, platforms |-> p, of |-> Head(g.specs).of])]
<1>2. Learnt(h) /\ h.specs = specs /\ h.rows = rows /\ h.sent = got.sent \cup {b}
  <2>1. h = [g EXCEPT !.specs = specs, !.rows = rows]
    BY <1>1
  <2> HIDE DEF h, specs, rows
  <2> QED
    <3>1. Learnt(g) /\ g.sent = got.sent \cup {b}
      BY <1>1
    <3>3. h = [specs |-> specs, bearer |-> g.bearer, sent |-> g.sent, challenged |-> g.challenged, rows |-> rows]
      BY <2>1, <3>1, LearntRow
    <3>2. Learnt(h) /\ h.specs = specs /\ h.rows = rows /\ h.sent = g.sent
      BY <3>3 DEF Learnt
    <3> QED
      BY <3>1, <3>2
<1>3. IF h.specs = <<>> THEN Return(Checklist(h.rows), h) ELSE Proceed("token", h)
  BY DEF Decide
<1> HIDE DEF h
<1>4. specs \in Seq(TagSpec) /\ \A n \in DOMAIN specs : n + 1 \in DOMAIN got.specs /\ specs[n] = got.specs[n + 1]
  <2>1. Len(got.specs) \in Nat \ {0} /\ specs \in Seq(TagSpec) /\ Len(specs) = Len(got.specs) - 1
        /\ \A n \in 1 .. Len(specs) : specs[n] = got.specs[n + 1]
    BY <1>1, HeadTailProperties
  <2>2. DOMAIN specs = 1 .. Len(specs) /\ DOMAIN got.specs = 1 .. Len(got.specs)
    BY <1>1, <2>1
  <2> HIDE DEF specs
  <2> QED
    BY <2>1, <2>2
<1>5. /\ \A spec : SpecTrue(past, got.sent, spec) => SpecTrue(past, h.sent, spec)
      /\ \A x : RowTrue(past, got.sent, x) => RowTrue(past, h.sent, x)
  <2>1. got.sent \subseteq h.sent
    BY <1>2
  <2> QED
    BY <2>1, StaysTrue
<1>6. \A n \in DOMAIN specs : SpecTrue(past, h.sent, specs[n])
  BY <1>4, <1>5 DEF ImageInv
<1>7. SomeSeq(rows) /\ \A n \in DOMAIN rows : RowTrue(past, h.sent, rows[n])
  <2>1. /\ SomeSeq(rows) /\ DOMAIN rows = 1 .. Len(got.rows) + 1 /\ DOMAIN got.rows = 1 .. Len(got.rows) /\ Len(got.rows) \in Nat
        /\ rows[Len(got.rows) + 1] = row
        /\ \A i \in DOMAIN got.rows : rows[i] = got.rows[i]
    BY <1>1, GrowSeq
  <2>2. \A n \in DOMAIN rows : n \in DOMAIN got.rows \/ n = Len(got.rows) + 1
    BY <2>1
  <2>3. \A n \in DOMAIN got.rows : RowTrue(past, h.sent, got.rows[n])
    BY <1>5 DEF ImageInv
  <2>4. RowTrue(past, h.sent, row)
    BY <1>1, <1>2
  <2> HIDE DEF rows
  <2> QED
    BY <2>1, <2>2, <2>3, <2>4
<1> HIDE DEF specs, rows
<1>8. /\ job \in ImageJobs /\ Registry(remote) /\ SomeSeq(past) /\ past # <<>> /\ past[Len(past)] = remote
  BY DEF ImageInv
<1>9. CASE h.specs = <<>>
  <2>1. job' = job /\ remote' = remote /\ past' = past /\ got' = h /\ step' = "done" /\ out' = Checklist(h.rows)
    BY <1>3, <1>9 DEF Return
  <2> QED
    BY <1>2, <1>4, <1>6, <1>7, <1>8, <2>1 DEF ImageInv, Checklist, evalArch
<1>10. CASE h.specs # <<>>
  <2>1. job' = job /\ remote' = remote /\ past' = past /\ got' = h /\ step' = "token"
    BY <1>3, <1>10 DEF Proceed
  <2> QED
    BY <1>2, <1>4, <1>6, <1>7, <1>8, <1>10, <2>1 DEF ImageInv
<1> QED
  BY <1>9, <1>10

\* The manifest was asked for with credential b.
LEMMA ResolveKept ==
  ASSUME ImageInv, step \in {"manifest", "retry"},
         NEW b, b = got.bearer,
         NEW g, Learnt(g), g.specs = got.specs, g.rows = got.rows, g.sent = got.sent \cup {b},
         resolveTag(Status(b, Tag), g)
  PROVE  ImageInv'
<1> DEFINE status == Status(b, Tag)
           spec == Head(got.specs)
<1>1. /\ got.specs \in Seq(TagSpec) /\ got.specs # <<>>
      /\ Learnt(g) /\ g.specs = got.specs /\ g.rows = got.rows /\ g.sent = got.sent \cup {b}
      /\ past[Len(past)] = remote /\ Len(past) \in DOMAIN past
      /\ job \in ImageJobs /\ SomeSeq(past) /\ past # <<>>
  <2>1. SomeSeq(past) /\ past # <<>>
    BY DEF ImageInv
  <2>2. Len(past) \in DOMAIN past
    BY <2>1 DEF SomeSeq
  <2> QED
    BY <2>1, <2>2 DEF ImageInv
<1>2. spec = got.specs[1] /\ spec \in TagSpec /\ 1 \in DOMAIN got.specs /\ Len(got.specs) \in Nat
  BY <1>1
<1>3. SpecTrue(past, got.sent, spec)
  BY <1>2 DEF ImageInv
<1> HIDE DEF spec
<1>4. spec.left \in Seq(Candidates) /\ spec.left # <<>> /\ Len(spec.left) \in Nat /\ Tag = spec.left[1]
      /\ 1 \in DOMAIN spec.left /\ spec.of \in SUBSET Candidates
  <2>1. spec.left \in Seq(Candidates) /\ spec.left # <<>> /\ spec.of \in SUBSET Candidates
    BY <1>2, <1>3 DEF TagSpec, SpecTrue
  <2>2. Tag = Head(spec.left)
    BY DEF Tag, spec
  <2> QED
    BY <2>1, <2>2
<1>5. Tag \in spec.of /\ ToSet(spec.left) \subseteq spec.of
  BY <1>3, <1>4 DEF SpecTrue, ToSet
<1>6. status = IF b \notin remote.accepts THEN remote.refusal ELSE IF Tag \in DOMAIN remote.tags THEN "200" ELSE "404"
  BY <1>1, Parsed DEF Status
<1>7. status = "404" => Absent(past, g.sent, Tag)
  <2> SUFFICES ASSUME status = "404" PROVE Absent(past, g.sent, Tag)
    OBVIOUS
  <2>1. Tag \notin DOMAIN remote.tags \/ (remote.refusal = "404" /\ ~(g.sent \subseteq remote.accepts))
    BY <1>1, <1>6
  <2> QED
    BY <1>1, <2>1 DEF Absent
<1>8. /\ \A c : Absent(past, got.sent, c) => Absent(past, g.sent, c)
      /\ \A x : SpecTrue(past, got.sent, x) => SpecTrue(past, g.sent, x)
      /\ \A x : RowTrue(past, got.sent, x) => RowTrue(past, g.sent, x)
  <2>1. got.sent \subseteq g.sent
    BY <1>1
  <2> QED
    BY <2>1, StaysTrue
<1> HIDE DEF status
<1>9. CASE status = "200" /\ b \in remote.accepts /\ Tag \in DOMAIN remote.tags
  <2> DEFINE p == decodePlatforms(remote.tags[Tag])
             row == [exists |-> TRUE, tag |-> Tag, platforms |-> p, of |-> Head(got.specs).of]
  <2>1. Decide(TRUE, Tag, p, g)
    BY <1>9 DEF resolveTag, status
  <2> HIDE DEF p
  <2>2. row.exists = TRUE /\ row.tag = Tag /\ row.platforms = decodePlatforms(remote.tags[Tag]) /\ row.of = spec.of
    BY DEF spec, p
  <2>3. RowTrue(past, g.sent, row)
    <3> HIDE DEF row
    <3>1. HasIt(past[Len(past)], row)
      BY <1>1, <1>9, <2>2 DEF HasIt
    <3> QED
      BY <1>1, <1>5, <2>2, <3>1 DEF RowTrue
  <2> QED
    BY <2>1, <2>3, DecideKept
<1>10. CASE status = "404" /\ Len(spec.left) > 1
  <2> DEFINE h == [g EXCEPT !.specs[1].left = Tail(@)]
             next == [spec EXCEPT !.left = Tail(@)]
  <2>1. Proceed("token", h)
    BY <1>10 DEF resolveTag, status, spec
  <2>2. Learnt(h) /\ h.specs = [got.specs EXCEPT ![1] = next] /\ h.sent = g.sent /\ h.rows = got.rows
    <3>1. h = [g EXCEPT !.specs = [g.specs EXCEPT ![1] = [g.specs[1] EXCEPT !.left = Tail(@)]]]
      BY <1>1 DEF Learnt
    <3>2. [g.specs[1] EXCEPT !.left = Tail(@)] = next
      BY <1>1, <1>2
    <3> HIDE DEF h, next
    <3> DEFINE s == [got.specs EXCEPT ![1] = next]
    <3>3. h = [g EXCEPT !.specs = s]
      BY <1>1, <3>1, <3>2
    <3> HIDE DEF s
    <3>4. Learnt(h) /\ h.specs = s /\ h.sent = g.sent /\ h.rows = g.rows
      <4>1. Learnt(g)
        BY <1>1
      <4> QED
        BY <3>3, <4>1, LearntSpecs
    <3> QED
      BY <1>1, <3>4 DEF s
  <2>3. next.of = spec.of /\ next.left = Tail(spec.left) /\ next \in TagSpec
    <3>1. Tail(spec.left) \in Seq(Candidates)
      BY <1>4
    <3> QED
      BY <1>2, <3>1 DEF TagSpec
  <2> HIDE DEF h, next
  <2>4. next.left # <<>> /\ ToSet(next.left) \subseteq ToSet(spec.left) /\ ToSet(spec.left) \subseteq ToSet(next.left) \cup {Tag}
    <3>1. /\ Tail(spec.left) \in Seq(Candidates) /\ Len(Tail(spec.left)) = Len(spec.left) - 1
          /\ \A i \in 1 .. Len(Tail(spec.left)) : Tail(spec.left)[i] = spec.left[i + 1]
      BY <1>4, HeadTailProperties
    <3> DEFINE t == Tail(spec.left)
    <3> HIDE DEF t
    <3>2. /\ t \in Seq(Candidates) /\ Len(t) = Len(spec.left) - 1 /\ DOMAIN t = 1 .. Len(t)
          /\ DOMAIN spec.left = 1 .. Len(spec.left)
          /\ \A i \in 1 .. Len(t) : t[i] = spec.left[i + 1]
      BY <1>4, <3>1 DEF t
    <3>3. t # <<>>
      BY <1>4, <1>10, <3>2
    <3>4. \A i \in DOMAIN t : i + 1 \in DOMAIN spec.left /\ t[i] = spec.left[i + 1]
      BY <1>4, <3>2
    <3>5. \A i \in DOMAIN spec.left : i = 1 \/ (i - 1 \in DOMAIN t /\ t[i - 1] = spec.left[i])
      <4> SUFFICES ASSUME NEW i \in 1 .. Len(spec.left), i # 1 PROVE i - 1 \in DOMAIN t /\ t[i - 1] = spec.left[i]
        BY <3>2
      <4>1. i - 1 \in 1 .. Len(t) /\ (i - 1) + 1 = i
        BY <1>4, <3>2
      <4>2. t[i - 1] = spec.left[(i - 1) + 1]
        BY <3>2, <4>1
      <4> QED
        BY <3>2, <4>1, <4>2
    <3>6. next.left = t
      BY <2>3 DEF t
    <3> QED
      BY <1>4, <3>3, <3>4, <3>5, <3>6 DEF ToSet
  <2>5. SpecTrue(past, g.sent, next)
    BY <1>3, <1>5, <1>7, <1>8, <1>10, <2>3, <2>4 DEF SpecTrue
  <2>6. /\ h.specs \in Seq(TagSpec) /\ h.specs # <<>>
        /\ \A n \in DOMAIN h.specs : n \in DOMAIN got.specs /\ h.specs[n] = IF n = 1 THEN next ELSE got.specs[n]
    <3>1. 1 \in 1 .. Len(got.specs)
      BY <1>1, <1>2
    <3>2. /\ h.specs \in Seq(TagSpec) /\ Len(h.specs) = Len(got.specs)
          /\ \A j \in 1 .. Len(got.specs) : h.specs[j] = IF j = 1 THEN next ELSE got.specs[j]
      BY <1>1, <2>2, <2>3, <3>1, ExceptSeq
    <3> QED
      BY <1>1, <1>2, <3>2
  <2>7. \A n \in DOMAIN h.specs : SpecTrue(past, g.sent, h.specs[n])
    BY <1>8, <2>5, <2>6 DEF ImageInv
  <2>8. job' = job /\ remote' = remote /\ past' = past /\ got' = h /\ step' = "token"
    BY <2>1 DEF Proceed
  <2> QED
    BY <1>1, <1>8, <2>2, <2>6, <2>7, <2>8 DEF ImageInv
<1>11. CASE status = "404" /\ ~(Len(spec.left) > 1)
  <2> DEFINE e == FALSE
             row == [exists |-> e, tag |-> "", platforms |-> {}, of |-> Head(got.specs).of]
  <2>1. Decide(e, "", {}, g)
    BY <1>11 DEF resolveTag, status, spec
  <2>2. e = FALSE
    OBVIOUS
  <2> HIDE DEF e
  <2>3. row.exists = e /\ row.of = spec.of
    BY DEF spec
  <2>4. ToSet(spec.left) = {Tag}
    BY <1>4, <1>11 DEF ToSet
  <2>5. \A c \in spec.of : Absent(past, g.sent, c)
    BY <1>3, <1>7, <1>8, <1>11, <2>4 DEF SpecTrue
  <2>6. RowTrue(past, g.sent, row)
    <3> HIDE DEF row
    <3> QED
      BY <2>2, <2>3, <2>5 DEF RowTrue
  <2> QED
    BY <2>1, <2>6, DecideKept
<1>12. CASE Abort
  BY <1>12 DEF Abort, ImageInv
<1> QED
  <2>1. status = "200" \/ status = "404" \/ Abort
    BY DEF resolveTag, status
  <2>2. remote.refusal # "200"
    BY DEF ImageInv, Registry
  <2> QED
    BY <1>6, <1>9, <1>10, <1>11, <1>12, <2>1, <2>2

LEMMA ReleaseKept ==
  ASSUME ImageInv, ReleaseTag
  PROVE  ImageInv'
<1> DEFINE spec == Spec1(<<"v1", "1">>)
           specs == Append(got.specs, spec)
           h == [got EXCEPT !.specs = Append(@, spec)]
<1>1. CASE Abort
  BY <1>1 DEF Abort, ImageInv
<1>2. CASE Proceed("token", h)
  <2>1. ToSet(<<"v1", "1">>) = {"v1", "1"}
    BY DEF ToSet
  <2>2. spec \in TagSpec /\ \A sent : SpecTrue(past, sent, spec)
    BY <2>1 DEF Spec1, TagSpec, Candidates, SpecTrue
  <2>3. /\ job \in ImageJobs /\ Registry(remote)
        /\ SomeSeq(past) /\ past # <<>> /\ past[Len(past)] = remote
        /\ Learnt(got) /\ got.specs \in Seq(TagSpec) /\ SomeSeq(got.rows)
        /\ \A n \in DOMAIN got.specs : SpecTrue(past, got.sent, got.specs[n])
        /\ \A n \in DOMAIN got.rows : RowTrue(past, got.sent, got.rows[n])
    BY DEF ImageInv
  <2> HIDE DEF spec
  <2>4. h = [got EXCEPT !.specs = specs]
    OBVIOUS
  <2>5. /\ specs \in Seq(TagSpec) /\ specs # <<>>
        /\ \A n \in DOMAIN specs : (n \in DOMAIN got.specs /\ specs[n] = got.specs[n]) \/ specs[n] = spec
    BY <2>2, <2>3
  <2> HIDE DEF h, specs
  <2>6. Learnt(h) /\ h.specs = specs /\ h.sent = got.sent /\ h.rows = got.rows
    <3>1. Learnt(got)
      BY <2>3
    <3> QED
      BY <2>4, <3>1, LearntSpecs
  <2>7. \A n \in DOMAIN specs : SpecTrue(past, h.sent, specs[n])
    BY <2>2, <2>3, <2>5, <2>6
  <2>8. job' = job /\ remote' = remote /\ past' = past /\ got' = h /\ step' = "token"
    BY <1>2 DEF Proceed
  <2> QED
    BY <2>3, <2>5, <2>6, <2>7, <2>8 DEF ImageInv
<1> QED
  BY <1>1, <1>2 DEF ReleaseTag

\* A request that only changes the credential.
LEMMA BearerKept ==
  ASSUME ImageInv, NEW s \in {"manifest", "challenge", "retry"},
         step \in {"token", "manifest", "challenge"},
         NEW h, Learnt(h), h.specs = got.specs, h.rows = got.rows, got.sent \subseteq h.sent,
         Proceed(s, h)
  PROVE  ImageInv'
<1>1. job' = job /\ remote' = remote /\ past' = past /\ got' = h /\ step' = s
  BY DEF Proceed
<1>2. /\ job \in ImageJobs /\ Registry(remote)
      /\ SomeSeq(past) /\ past # <<>> /\ past[Len(past)] = remote
      /\ got.specs \in Seq(TagSpec) /\ got.specs # <<>> /\ SomeSeq(got.rows)
  BY DEF ImageInv
<1>3. /\ \A x : SpecTrue(past, got.sent, x) => SpecTrue(past, h.sent, x)
      /\ \A x : RowTrue(past, got.sent, x) => RowTrue(past, h.sent, x)
  BY StaysTrue
<1>4. /\ \A n \in DOMAIN got.specs : SpecTrue(past, h.sent, got.specs[n])
      /\ \A n \in DOMAIN got.rows : RowTrue(past, h.sent, got.rows[n])
  BY <1>3 DEF ImageInv
<1> QED
  BY <1>1, <1>2, <1>4 DEF ImageInv

LEMMA ImageKept ==
  ASSUME ImageInv, [ImageNext]_runVars
  PROVE  ImageInv'
<1>0. Learnt(got)
  BY DEF ImageInv
<1>1. CASE ReleaseTag
  BY <1>1, ReleaseKept
<1>2. CASE PrefetchToken
  <2>1. CASE Abort
    BY <2>1 DEF Abort, ImageInv
  <2>2. ASSUME NEW x, Proceed("manifest", [got EXCEPT !.bearer = x]) PROVE ImageInv'
    <3>1. PICK h : h = [got EXCEPT !.bearer = x]
      OBVIOUS
    <3>2. Learnt(h) /\ h.specs = got.specs /\ h.sent = got.sent /\ h.rows = got.rows
      BY <1>0, <3>1, LearntBearer
    <3>3. Proceed("manifest", h) /\ step = "token"
      BY <1>2, <2>2, <3>1 DEF PrefetchToken
    <3> QED
      BY <3>2, <3>3, BearerKept
  <2> QED
    BY <1>2, <2>1, <2>2 DEF PrefetchToken
<1>3. CASE doManifest \/ Retry
  <2>1. PICK b, g : b = got.bearer /\ g = [got EXCEPT !.sent = @ \cup {b}]
    OBVIOUS
  <2>2. PICK sent : sent = got.sent \cup {b} /\ g = [got EXCEPT !.sent = sent]
    BY <2>1
  <2>3. Learnt(g) /\ g.specs = got.specs /\ g.sent = got.sent \cup {b} /\ g.rows = got.rows
    BY <1>0, <2>2, LearntSent
  <2>4. Abort \/ (step = "manifest" /\ Proceed("challenge", g)) \/ (step \in {"manifest", "retry"} /\ resolveTag(Status(b, Tag), g))
    BY <1>3, <2>1 DEF doManifest, Retry
  <2>5. CASE Abort
    BY <2>5 DEF Abort, ImageInv
  <2>6. CASE step = "manifest" /\ Proceed("challenge", g)
    BY <2>3, <2>6, BearerKept
  <2>7. CASE step \in {"manifest", "retry"} /\ resolveTag(Status(b, Tag), g)
    BY <2>1, <2>3, <2>7, ResolveKept
  <2> QED
    BY <2>4, <2>5, <2>6, <2>7
<1>4. CASE FollowChallenge
  <2>1. CASE Abort
    BY <2>1 DEF Abort, ImageInv
  <2>2. CASE Proceed("retry", [got EXCEPT !.bearer = "challenged", !.challenged = TRUE])
    <3>1. PICK h : h = [got EXCEPT !.bearer = "challenged", !.challenged = TRUE]
      OBVIOUS
    <3>2. Learnt(h) /\ h.specs = got.specs /\ h.sent = got.sent /\ h.rows = got.rows
      <4>1. h = [specs |-> got.specs, bearer |-> "challenged", sent |-> got.sent, challenged |-> TRUE, rows |-> got.rows]
        BY <1>0, <3>1, LearntToken
      <4> QED
        BY <4>1 DEF Learnt
    <3>3. Proceed("retry", h) /\ step = "challenge"
      BY <1>4, <2>2, <3>1 DEF FollowChallenge
    <3> QED
      BY <3>2, <3>3, BearerKept
  <2> QED
    BY <1>4, <2>1, <2>2 DEF FollowChallenge
<1>5. CASE PushTag \/ RemoveTag
  BY <1>5, ImageMoves
<1>6. CASE UNCHANGED runVars
  BY <1>6 DEF runVars, ImageInv, Checklist, evalArch
<1> QED
  BY <1>1, <1>2, <1>3, <1>4, <1>5, <1>6 DEF ImageNext

ImageInvariantOfRun == job.plugin = "image" => ImageInv

(***************************************************************************)
(* docker-image: candidates that were dropped were absent, and no row      *)
(* speaks of anything but what was seen during the run.                    *)
(***************************************************************************)
THEOREM ImageInvariant == Spec => []ImageInvariantOfRun
<1>1. Init => ImageInvariantOfRun
  BY Begins, ImageStarts DEF ImageInvariantOfRun
<1>2. ImageInvariantOfRun /\ [Next]_runVars => ImageInvariantOfRun'
  BY JobStays, StepsOf, ImageKept DEF ImageInvariantOfRun
<1> QED
  BY <1>1, <1>2, PTL DEF Spec

(***************************************************************************)
(* docker-image: a check mark is for a tag and platforms that were there   *)
(* at some moment of the run; a row without one is for candidates each of  *)
(* which was absent at some moment, or hidden by the registry.             *)
(***************************************************************************)
THEOREM ChecklistCorrect == Spec => []ChecklistWasTrue
<1>1. ImageInvariantOfRun => ChecklistWasTrue
  <2> SUFFICES ASSUME ImageInv, Returned, job.plugin = "image" PROVE ChecklistWasTrue
    BY DEF ImageInvariantOfRun, ChecklistWasTrue
  <2>1. out = Checklist(got.rows)
    BY DEF ImageInv, Returned
  <2>2. out.rows = got.rows /\ (out.all_ok <=> \A i \in DOMAIN got.rows :
          IF job.arches = {} THEN got.rows[i].exists ELSE \A a \in job.arches : evalArch(got.rows[i], a))
    BY <2>1 DEF Checklist
  <2>3. \A n \in DOMAIN got.rows : RowTrue(past, got.sent, got.rows[n])
    BY DEF ImageInv
  <2>4. ASSUME NEW n \in DOMAIN out.rows
        PROVE  /\ out.rows[n].exists => out.rows[n].tag \in out.rows[n].of /\ \E i \in DOMAIN past : HasIt(past[i], out.rows[n])
               /\ ~out.rows[n].exists => \A c \in out.rows[n].of : \E i \in DOMAIN past : c \notin DOMAIN past[i].tags \/ Hidden(past[i])
    <3>1. RowTrue(past, got.sent, out.rows[n])
      BY <2>2, <2>3
    <3> QED
      BY <3>1 DEF RowTrue, Absent, Hidden
  <2>5. out.all_ok => \A n \in DOMAIN out.rows, a \in job.arches :
          out.rows[n].exists /\ (out.rows[n].platforms = {} \/ a \in out.rows[n].platforms)
    BY <2>2 DEF evalArch
  <2> QED
    BY <2>4, <2>5 DEF ChecklistWasTrue
<1> QED
  BY <1>1, ImageInvariant, PTL
=============================================================================
