------------------------------ MODULE Activity ------------------------------
(***************************************************************************)
(* github-stars and github-activity-rate: the timestamps of a repository's *)
(* stars, commits, issues or pull requests are fetched page by page while  *)
(* the repository goes on, and made into a cumulative series or one count  *)
(* per period.  Time is a number of days; a metric lists its items newest  *)
(* first, except stars, which GitHub lists oldest first.                   *)
(***************************************************************************)
EXTENDS PluginRun

CONSTANTS
  PerPage,     \* activityPerPage (100)
  MaxPages,    \* maxPages (30 or 20 by default)
  maxPoints,   \* points of a series (120 or so)
  Starts,      \* for each period, the days its buckets start on
  LastDay,     \* bound on days
  MaxItems     \* bound on items

ASSUME ActivityAssumption ==
  /\ PerPage \in Nat \ {0} /\ MaxPages \in Nat \ {0} /\ maxPoints \in Nat \ {0, 1}
  /\ LastDay \in Nat
  /\ \A p \in DOMAIN Starts : 0 \in Starts[p] /\ Starts[p] \subseteq 0 .. LastDay

Metrics == {"stars", "commits", "issues", "prs"}
Item == [day : 0 .. LastDay, pr : BOOLEAN]    \* pr: a pull request among the issues
Days(list) == [i \in DOMAIN list |-> list[i].day]

(***************************************************************************)
(* GitHub, external: an item appears at the end the metric's order gives   *)
(* it, or goes (a star taken back, an issue transferred).                  *)
(***************************************************************************)
Arrive == \E it \in Item :
  /\ Len(remote) < MaxItems
  /\ it.pr => job.metric = "issues"
  /\ \A i \in DOMAIN remote : remote[i].day <= it.day
  /\ Move(IF job.metric = "stars" THEN Append(remote, it) ELSE <<it>> \o remote)
Leave == \E i \in DOMAIN remote : Move(RemoveAt(remote, i))

(***************************************************************************)
(* Fetching.                                                               *)
(***************************************************************************)
\* Mutant: a page counts as full by the items that count.
fetchActivityPageFiltered(page) ==
  LET items == SubSeq(remote, PerPage * (page - 1) + 1,
                      IF PerPage * page < Len(remote) THEN PerPage * page ELSE Len(remote))
      times == Days(IF job.metric = "issues" THEN Kept(items, {it \in Item : ~it.pr}) ELSE items)
  IN [times |-> times, more |-> Len(times) = PerPage]

(* The items of the page that count, and whether the page was full. *)
fetchActivityPage(page) ==
  LET items == SubSeq(remote, PerPage * (page - 1) + 1,
                      IF PerPage * page < Len(remote) THEN PerPage * page ELSE Len(remote))
  IN [times |-> Days(IF job.metric = "issues" THEN Kept(items, {it \in Item : ~it.pr}) ELSE items),
      more  |-> Len(items) = PerPage]

(***************************************************************************)
(* The series.                                                             *)
(***************************************************************************)
\* Mutant: evenly spaced from the first, which misses the last.
downsampleOpen(pts, n) ==
  IF n < 2 \/ Len(pts) <= n THEN pts ELSE [i \in 1 .. n |-> pts[((i - 1) * Len(pts)) \div n + 1]]

(* At most n points of a longer series, evenly spaced, the last one kept.  *)
downsample(pts, n) ==
  IF n < 2 \/ Len(pts) <= n THEN pts
  ELSE [i \in 1 .. n |-> IF i = n THEN Last(pts) ELSE pts[((i - 1) * (Len(pts) - 1)) \div (n - 1) + 1]]

Sorted(days) == StableSort([d \in 0 .. LastDay |-> d], days)

(* github-stars: per day, how many items there were up to its end. *)
cumulative(days) ==
  LET AddItem(full, i) ==
        IF full # <<>> /\ Last(full).t = Sorted(days)[i]
        THEN [full EXCEPT ![Len(full)].v = i]
        ELSE Append(full, [t |-> Sorted(days)[i], v |-> i])
  IN downsample(FoldLeft(AddItem, <<>>, [i \in DOMAIN days |-> i]), maxPoints)

bucketStart(day, period) == Max({b \in Starts[period] : b <= day})

(* github-activity-rate: one point per bucket from the first to the last. *)
perPeriod(days, period) ==
  LET start(i) == bucketStart(days[i], period)
      used == {start(i) : i \in DOMAIN days}
      span == Sorted(SetToSeq({b \in Starts[period] : Min(used) <= b /\ b <= Max(used)}))
      full == [k \in DOMAIN span |-> [t |-> span[k], v |-> Cardinality({i \in DOMAIN days : start(i) = span[k]})]]
  IN IF days = <<>> THEN <<>> ELSE downsample(full, maxPoints)

Series(days) == IF job.plugin = "stars" THEN cumulative(days) ELSE perPeriod(days, job.period)

\* Mutant: one page beyond the budget.
FetchPageBeyond ==
  /\ step = "page"
  /\ LET answer == fetchActivityPage(got.page)
         times == got.times \o answer.times
     IN IF answer.more /\ got.page <= MaxPages
        THEN Proceed("page", [times |-> times, page |-> got.page + 1])
        ELSE Return([total |-> Len(times), points |-> Series(times)], [times |-> times, page |-> got.page])

(* One more page, or the result; a page that fails fails the run. *)
FetchPage ==
  /\ step = "page"
  /\ \/ Abort
     \/ LET answer == fetchActivityPage(got.page)
            times == got.times \o answer.times
        IN IF answer.more /\ got.page < MaxPages
           THEN Proceed("page", [times |-> times, page |-> got.page + 1])
           ELSE Return([total |-> Len(times), points |-> Series(times)],
                       [times |-> times, page |-> got.page])

-----------------------------------------------------------------------------
ActivityJobs ==
  {[plugin |-> "stars", metric |-> m, period |-> "day"] : m \in Metrics} \cup
  {[plugin |-> "rate", metric |-> m, period |-> p] : m \in Metrics, p \in DOMAIN Starts}

Ordered(list) == \A i, j \in DOMAIN list : i < j =>
  IF job.metric = "stars" THEN list[i].day <= list[j].day ELSE list[j].day <= list[i].day

ActivityInit ==
  /\ job \in ActivityJobs
  /\ remote \in {r \in SeqOf(Item, MaxItems) : Ordered(r) /\ (\A i \in DOMAIN r : r[i].pr => job.metric = "issues")}
  /\ step = "page"
  /\ got = [times |-> <<>>, page |-> 1]
  /\ out = Pending
  /\ past = <<remote>>

ActivityNext == FetchPage \/ (job.plugin \in {"stars", "rate"} /\ (Arrive \/ Leave))

-----------------------------------------------------------------------------
ActivityReturned == Returned /\ job.plugin \in {"stars", "rate"}
Count(days, P(_)) == Cardinality({i \in DOMAIN days : P(days[i])})

(***************************************************************************)
(* Pages are fetched one after the other while items arrive and shift the  *)
(* pages not yet fetched: an item may be fetched twice and a new one not   *)
(* at all.  As long as nothing leaves and the page budget suffices, the    *)
(* total is nevertheless one the repository had during the run, and for    *)
(* stars, which arrive at the far end, so is every timestamp.  Where pull  *)
(* requests are dropped from the issues, only when nothing arrives.        *)
(***************************************************************************)
TotalWasTrue ==
  /\ ActivityReturned /\ Len(remote) < PerPage * MaxPages
  /\ \A i, j \in DOMAIN past : i < j => Len(past[i]) < Len(past[j])
  /\ job.metric = "issues" => Len(past) = 1
  => \E i \in DOMAIN past :
       CASE job.metric = "stars" -> got.times = Days(past[i])
         [] job.metric = "issues" -> out.total = Cardinality({k \in DOMAIN past[i] : ~past[i][k].pr})
         [] OTHER -> out.total = Len(past[i])

(***************************************************************************)
(* Whatever was fetched, the series is true to it: it starts with the      *)
(* first day or bucket, ends with the last, goes forward in time, and each *)
(* point counts exactly the timestamps up to its day (stars) or within its *)
(* bucket (rate).  The last point of github-stars is the total; as long as *)
(* nothing is downsampled away the points of github-activity-rate add up   *)
(* to it, quiet periods included.                                          *)
(***************************************************************************)
PointIsTrue(p, days) ==
  IF job.plugin = "stars" THEN p.v = Count(days, LAMBDA d : d <= p.t)
  ELSE p.v = Count(days, LAMBDA d : p.t <= d /\ \A b \in Starts[job.period] : b <= d => b <= p.t)
SeriesAccountsForAll ==
  ActivityReturned =>
    LET pts == out.points  days == got.times IN
    /\ (pts = <<>>) = (days = <<>>)
    /\ \A i \in DOMAIN pts : PointIsTrue(pts[i], days) /\ (i > 1 => pts[i - 1].t < pts[i].t)
    /\ Len(pts) <= maxPoints
    /\ pts # <<>> =>
         /\ Head(pts).v > 0 /\ Last(pts).v > 0
         /\ \A i \in DOMAIN days : Head(pts).t <= days[i]
         /\ job.plugin = "stars" => Last(pts).v = out.total
         /\ job.plugin = "rate" /\ Cardinality(Starts[job.period]) <= maxPoints =>
              FoldLeft(LAMBDA n, p : n + p.v, 0, pts) = out.total
=============================================================================
