------------------------------ MODULE Verdicts ------------------------------
(***************************************************************************)
(* The plugins that pass judgement: dependency-freshness, endoflife,       *)
(* osv-vulnerabilities, github-release-artifacts, github-milestone,        *)
(* github-workflow-health, http-health and file-version.  Each asks one    *)
(* source, or one after the other for a list of things to check.           *)
(***************************************************************************)
EXTENDS PluginRun

CONSTANTS
  Versions,   \* the versions the model uses: [nums, suffix]
  MaxDeps,    \* bound on dependencies of a manifest
  Lines       \* the lines of a watched file: [key, sep, value]

ASSUME VerdictAssumption ==
  /\ MaxDeps \in Nat
  /\ \A v \in Versions : v.nums \in Seq(Nat)

Judging == {"deps", "eol", "osv", "artifacts", "milestone", "workflow", "health", "file"}

(***************************************************************************)
(* Versions.  nums: the numbers before the first component that is none;   *)
(* suffix: what follows a + or -, or a component that is not a number.     *)
(***************************************************************************)
NoVersion == [nums |-> <<>>, suffix |-> ""]
parseSemver(v) == [ok |-> v.nums # <<>>,
                   core |-> [i \in 1 .. 3 |-> IF i <= Len(v.nums) THEN v.nums[i] ELSE 0]]
(* The first component in which they differ decides. *)
cmpSemver(a, b) ==
  LET diff == {i \in 1 .. 3 : a[i] # b[i]} IN
  IF diff = {} THEN 0 ELSE IF a[Min(diff)] < b[Min(diff)] THEN -1 ELSE 1

\* Mutant: a version equal but for its suffix counts as behind.
versionStatusStrict(cur, lat) ==
  LET pc == parseSemver(cur)  pl == parseSemver(lat) IN
  IF cur = lat \/ lat = NoVersion THEN "current"
  ELSE IF ~pc.ok \/ ~pl.ok THEN "minor"
  ELSE IF cmpSemver(pc.core, pl.core) > 0 THEN "current"
  ELSE IF pc.core[1] < pl.core[1] THEN "major" ELSE "minor"
versionStatus(cur, lat) ==
  LET pc == parseSemver(cur)  pl == parseSemver(lat) IN
  IF cur = lat \/ lat = NoVersion THEN "current"
  ELSE IF ~pc.ok \/ ~pl.ok THEN "minor"
  ELSE IF cmpSemver(pc.core, pl.core) >= 0 THEN "current"
  ELSE IF pc.core[1] < pl.core[1] THEN "major" ELSE "minor"

rankMajor == 0  rankOutdated == 1  rankUnknown == 2  rankCurrent == 3
(* a: the answer of the module proxy or the npm registry *)
evalDep(cur, a) ==
  IF ~a.ok THEN rankUnknown
  ELSE CASE versionStatus(cur, a.value) = "current" -> rankCurrent
         [] versionStatus(cur, a.value) = "major" -> rankMajor
         [] versionStatus(cur, a.value) = "minor" -> rankOutdated

(* An entry of a manifest; names are numbered in alphabetical order. *)
Requirement == [name : 1 .. MaxDeps, version : Versions, indirect : BOOLEAN, dev : BOOLEAN]

(* Of a go.mod the direct requirements; of a package.json also what is for *)
(* development when that is wanted and no dependency has the name already. *)
Wanted(manifest) ==
  IF job.file = "go.mod" THEN {d \in ToSet(manifest) : ~d.indirect}
  ELSE {d \in ToSet(manifest) :
          d.dev => job.dev /\ \A e \in ToSet(manifest) : e.name = d.name => e.dev}
(* In the order of the go.mod, or by name. *)
Direct(manifest) ==
  LET deps == Kept(manifest, Wanted(manifest)) IN
  IF job.file = "go.mod" THEN deps ELSE StableSort([d \in Requirement |-> d.name], deps)
Checked(manifest) ==
  LET d == Direct(manifest) IN IF Len(d) > job.count THEN SubSeq(d, 1, job.count) ELSE d

(* Worst first, equal ranks in the order they were checked in. *)
DepsResult(deps, answers) ==
  LET rank == [i \in DOMAIN deps |-> evalDep(deps[i].version, answers[i])]
      byRank(r) == Kept([i \in DOMAIN deps |-> i], {i \in DOMAIN deps : rank[i] = r})
      rows == byRank(0) \o byRank(1) \o byRank(2) \o byRank(3)
  IN [rows |-> rows, rank |-> rank,
      outdated |-> Cardinality({i \in DOMAIN deps : rank[i] <= rankOutdated}),
      good |-> Len(deps) > 0 /\ Len(byRank(rankCurrent)) = Len(deps)]

(***************************************************************************)
(* endoflife: what the eol field of a cycle says, newest cycle first.      *)
(***************************************************************************)
EOLFields == {"true", "false", "past", "soon", "later", "odd"}   \* odd: missing or not a date
parseEOL(f) == [isEOL |-> f \in {"true", "past"}, known |-> f \notin {"false", "odd"}]

(* The cycle asked for, or else the newest that is alive, or else the newest. *)
pickCycle(cycles, want) ==
  IF want # 0 THEN IF want \in DOMAIN cycles THEN want ELSE 0
  ELSE LET alive == {i \in DOMAIN cycles : ~parseEOL(cycles[i]).isEOL} IN
       IF alive # {} THEN Min(alive) ELSE 1

(* A row: its badge; EOL and EOL soon are at risk, errors are not. *)
evalProduct(want, a) ==
  IF ~a.ok \/ a.value = <<>> THEN "error"
  ELSE LET k == pickCycle(a.value, want) IN
       IF k = 0 THEN "error"
       ELSE IF parseEOL(a.value[k]).isEOL THEN "EOL"
       ELSE IF a.value[k] = "soon" THEN "EOL soon" ELSE "supported"
EolResult(answers) ==
  LET rows == [i \in DOMAIN answers |-> evalProduct(job.want, answers[i])] IN
  [rows |-> rows, risk |-> Cardinality({i \in DOMAIN rows : rows[i] \in {"EOL", "EOL soon"}}),
   good |-> \A i \in DOMAIN rows : rows[i] = "supported"]

(***************************************************************************)
(* One answer, one verdict.                                                *)
(***************************************************************************)
OsvResult(vulns) == [rows |-> vulns, good |-> vulns = {}]

(* An exact name wins over a glob; * and ? only count in the wanted name. *)
firstMatch(want, present) ==
  LET exact == {i \in DOMAIN present : present[i] = want.name}
      glob == {i \in DOMAIN present : want.glob /\ present[i] \in want.matches}
  IN IF exact # {} THEN Min(exact) ELSE IF glob # {} THEN Min(glob) ELSE 0
ArtifactsResult(expected, present) ==
  LET rows == [i \in DOMAIN expected |-> firstMatch(expected[i], present)] IN
  [rows |-> rows, good |-> \A i \in DOMAIN rows : rows[i] # 0]

\* Mutant: a milestone without issues is complete.
MilestoneResultVacuous(ms) ==
  LET status == IF ms.open = 0 THEN "ok" ELSE IF ms.due = "past" THEN "error" ELSE "warn"
  IN [status |-> status, good |-> status = "ok"]
MilestoneResult(ms) ==
  LET total == ms.open + ms.closed
      status == IF total > 0 /\ ms.closed = total THEN "ok" ELSE IF ms.due = "past" THEN "error" ELSE "warn"
  IN [status |-> status, good |-> status = "ok"]

(* Runs that are not completed do not count, neither for the rate nor as points. *)
WorkflowResult(runs) ==
  LET completed == Kept(runs, ToSet(runs) \ {""})
      rate == IF completed = <<>> THEN 0 ELSE (100 * Len(Kept(completed, {"success"}))) \div Len(completed)
  IN [points |-> Len(completed), rate |-> rate, good |-> rate = 100]

(* A site that does not answer is DOWN, not an error of the plugin. *)
HealthResult(a, expected) ==
  LET value == IF ~a.ok THEN "DOWN" ELSE IF a.value = expected THEN "UP" ELSE "mismatch" IN
  [value |-> value, good |-> value = "UP"]

(* key = value or key: value wins over key value, wherever they stand; the *)
(* white space after the key or the separator may run into the next line.  *)
extractValue(lines, key) ==
  LET match(sep) == {i \in DOMAIN lines : lines[i].key = key /\ lines[i].sep = sep
                                          /\ (lines[i].value # "" \/ i < Len(lines))}
      value(i) == IF lines[i].value # "" THEN <<i, "value">> ELSE <<i + 1, "line">>
  IN IF match("=") # {} THEN value(Min(match("=")))
     ELSE IF match(" ") # {} THEN value(Min(match(" "))) ELSE <<0, "none">>
FileResult(lines) ==
  LET v == extractValue(lines, "go") IN [value |-> v, good |-> v # <<0, "none">>]

-----------------------------------------------------------------------------
(***************************************************************************)
(* The requests.                                                           *)
(***************************************************************************)
Verdict(answers) ==
  LET a == answers[1].value IN
  CASE job.plugin = "deps" -> DepsResult(got.deps, answers)
    [] job.plugin = "eol" -> EolResult(answers)
    [] job.plugin = "osv" -> OsvResult(a)
    [] job.plugin = "artifacts" -> ArtifactsResult(job.expected, a)
    [] job.plugin = "milestone" -> MilestoneResult(a)
    [] job.plugin = "workflow" -> WorkflowResult(a)
    [] job.plugin = "health" -> HealthResult(answers[1], 200)
    [] job.plugin = "file" -> FileResult(a)

(* What the remote may answer, external. *)
Manifests ==
  IF job.file = "go.mod" THEN SeqOf({d \in Requirement : ~d.dev}, MaxDeps)
  ELSE {m \in SeqOf({d \in Requirement : ~d.indirect}, MaxDeps) : \A i, j \in DOMAIN m :
          m[i].name = m[j].name /\ m[i].dev = m[j].dev => i = j}
Assets == {"a", "b"}
Values ==
  CASE job.plugin = "deps" -> Versions \cup {NoVersion}
    [] job.plugin = "eol" -> SeqOf(EOLFields, 2)
    [] job.plugin = "osv" -> SUBSET {"v1", "v2"}
    [] job.plugin = "artifacts" -> SeqOf(Assets, 2)
    [] job.plugin = "milestone" -> [open : 0 .. 1, closed : 0 .. 1, due : {"none", "past", "later"}]
    [] job.plugin = "workflow" -> SeqOf({"", "success", "failure"}, 3)
    [] job.plugin = "health" -> {200, 500}
    [] job.plugin = "file" -> SeqOf(Lines, 2)
Replies == {[ok |-> FALSE]} \cup {[ok |-> TRUE, value |-> v] : v \in Values}

ReadManifest ==
  /\ step = "dependencies"
  /\ \/ Abort
     \/ \E m \in Manifests :
          LET deps == Checked(m) IN
          IF deps = <<>> THEN Return(DepsResult(deps, <<>>), [deps |-> deps, answers |-> <<>>])
          ELSE Proceed("lookup", [deps |-> deps, answers |-> <<>>])

(* A dependency or product that cannot be looked up becomes a row of its own, *)
(* a site that is down is the verdict; elsewhere the run fails.               *)
Forgiving == job.plugin \in {"deps", "eol", "health"}
Lookups == CASE job.plugin = "deps" -> Len(got.deps)
             [] job.plugin = "eol" -> job.count
             [] OTHER -> 1
Lookup ==
  /\ step = "lookup"
  /\ \E a \in Replies :
       LET g == [got EXCEPT !.answers = Append(@, a)] IN
       IF ~a.ok /\ ~Forgiving THEN Abort
       ELSE IF Len(g.answers) < Lookups THEN Proceed("lookup", g)
       ELSE Return(Verdict(g.answers), g)

VerdictJobs ==
  [plugin : {"deps"}, file : {"go.mod", "package.json"}, count : 1 .. MaxDeps, dev : BOOLEAN] \cup
  [plugin : {"eol"}, count : 1 .. 2, want : 0 .. 2] \cup
  [plugin : {"artifacts"}, expected : SeqOf(
     [name : Assets, glob : {FALSE}, matches : {{}}] \cup [name : {"*"}, glob : {TRUE}, matches : SUBSET Assets], 2) \ {<<>>}] \cup
  [plugin : {"osv", "milestone", "workflow", "health", "file"}]

VerdictInit ==
  /\ job \in VerdictJobs
  /\ remote = <<>> /\ past = <<>>
  /\ step = IF job.plugin = "deps" THEN "dependencies" ELSE "lookup"
  /\ got = [deps |-> <<>>, answers |-> <<>>] /\ out = Pending

VerdictNext == ReadManifest \/ Lookup

-----------------------------------------------------------------------------
(***************************************************************************)
(* What dependency-freshness says is numerically true, whatever the form   *)
(* of the versions: what is behind, major before minor before patch, a     *)
(* missing one being 0, is never shown as up to date nor counted as such,  *)
(* what is equal or ahead is never shown as behind; a lookup that failed   *)
(* is neither.  Rows come worst first, each dependency once; those of a    *)
(* package.json by name, a name that is listed twice in one row.           *)
(***************************************************************************)
Part(v, n) == IF n <= Len(v.nums) THEN v.nums[n] ELSE 0
Behind(v, w) == \E n \in 1 .. 3 : Part(v, n) < Part(w, n) /\ \A m \in 1 .. n - 1 : Part(v, m) = Part(w, m)
Comparable(v, w) == v.nums # <<>> /\ w.nums # <<>>
Alphabetical(deps) == \A i, j \in DOMAIN deps : i < j => deps[i].name < deps[j].name
DepsHonest ==
  Returned /\ job.plugin = "deps" =>
    /\ \A i \in DOMAIN got.deps :
         LET cur == got.deps[i].version  a == got.answers[i] IN
         /\ out.rank[i] = rankUnknown <=> ~a.ok
         /\ a.ok /\ Comparable(cur, a.value) =>
              /\ out.rank[i] = rankCurrent <=> ~Behind(cur, a.value)
              /\ out.rank[i] = rankMajor <=> cur.nums[1] < a.value.nums[1]
    /\ job.file = "package.json" => Alphabetical(got.deps)
    /\ IsInjective(out.rows) /\ ToSet(out.rows) = DOMAIN got.deps
    /\ \A i, j \in DOMAIN out.rows : i < j =>
         \/ out.rank[out.rows[i]] < out.rank[out.rows[j]]
         \/ out.rank[out.rows[i]] = out.rank[out.rows[j]] /\ out.rows[i] < out.rows[j]

(***************************************************************************)
(* A card is green (all up to date, all supported, clean, all artifacts    *)
(* present, milestone done, 100% success, UP, value found) only on         *)
(* evidence: every lookup answered, and the answers say so.  Each version  *)
(* is the published one or numerically no older; the pinned cycle, or else *)
(* the newest that has not reached its end, does not end soon.  An empty   *)
(* manifest, a milestone without issues or runs none of which is completed *)
(* are no evidence.  Two answers that say nothing do pass, and are named:  *)
(* a registry that answers without a version (NoVersion), and an eol field *)
(* that is missing or cannot be read                                       *)
(* ("odd"), which PLUGIN_CATALOG.md too counts as supported: its badge is  *)
(* "EOL" past the date, "EOL soon" near it, "supported (green) otherwise". *)
(***************************************************************************)
AtLeast(cur, lat) == cur = lat \/ (Comparable(cur, lat) /\ ~Behind(cur, lat))
Ended == {"true", "past"}
NotEnding == {"false", "later", "odd"}
Supports(cycles, want) ==
  IF want # 0 THEN want \in DOMAIN cycles /\ cycles[want] \in NotEnding
  ELSE \E i \in DOMAIN cycles : cycles[i] \in NotEnding /\ \A j \in 1 .. i - 1 : cycles[j] \in Ended
GreenNeedsEvidence ==
  Returned /\ job.plugin \in Judging /\ out.good =>
    /\ got.answers # <<>> /\ \A i \in DOMAIN got.answers : got.answers[i].ok
    /\ LET v == got.answers[1].value IN
       CASE job.plugin = "deps" -> \A i \in DOMAIN got.deps :
                                      LET lat == got.answers[i].value IN
                                      lat = NoVersion \/ AtLeast(got.deps[i].version, lat)
         [] job.plugin = "eol" -> \A i \in DOMAIN got.answers : Supports(got.answers[i].value, job.want)
         [] job.plugin = "osv" -> v = {}
         [] job.plugin = "artifacts" -> \A w \in ToSet(job.expected) :
                                           w.name \in ToSet(v) \/ (w.glob /\ w.matches \cap ToSet(v) # {})
         [] job.plugin = "milestone" -> v.open = 0 /\ v.closed > 0
         [] job.plugin = "workflow" -> "success" \in ToSet(v) /\ "failure" \notin ToSet(v)
         [] job.plugin = "health" -> v = 200
         [] job.plugin = "file" -> \E i \in DOMAIN v : v[i].key = "go"

(***************************************************************************)
(* An endoflife row warns without cause for no product: without a pinned   *)
(* cycle it says EOL only if the product has no cycle left that is alive,  *)
(* and whatever is at risk is counted in the title.                        *)
(***************************************************************************)
EOLMeansAll ==
  Returned /\ job.plugin = "eol" =>
    /\ out.risk = Cardinality({i \in DOMAIN out.rows : out.rows[i] \notin {"supported", "error"}})
    /\ job.want = 0 => \A i \in DOMAIN out.rows :
         out.rows[i] = "EOL" => ToSet(got.answers[i].value) \subseteq Ended

(***************************************************************************)
(* The rows of dependency-freshness and of endoflife say what the versions *)
(* and the cycles they are about say.                                      *)
(***************************************************************************)
VerdictsHonest == DepsHonest /\ EOLMeansAll
=============================================================================
