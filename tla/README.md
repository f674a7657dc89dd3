# plugdash in TLA+

plugdash is a self-hosted dashboard: *trackers* (a plugin plus its configuration) are
stored in SQLite, a scheduler runs them on their cadence while somebody is watching, and
the results are pushed to browsers over server-sent events. This directory holds the TLA+
models of the parts of it where concurrency, restarts, failures and classification make
correctness non-obvious, the TLC runs that check them, and TLAPS proofs of the main invariants.

* [Inventory](#inventory): the parts of the system and how they interact
* [Modules](#modules): which module models what, and how it corresponds to the code
* [Runs](#runs): what is model-checked, with which bounds and which fairness
* [Disagreements](#disagreements-between-code-and-documentation) found while modelling
* [Proofs](#proofs): what holds for every value of the constants, and why
* [Not modelled](#not-modelled), and the [plan](#plan)

To use it: `tlc -config engine_live.cfg MCEngine.tla`, `tlapm EngineProofs.tla`.

## Inventory

| Part | State | Operations | Interacts with |
| --- | --- | --- | --- |
| Engine scheduler, `internal/engine/engine.go` | `trackers`, `snaps`, `lastRun`, `running` under `e.mu`; channels `sem`, `wake`, `forceC`; `lastPoll`, `startedAt` | `loop`, `runDue`, `runOne`, `persist`, `Reconcile`, `loadSnapshots`, `Force`, `Poll` | reads the store; called by every handler that changes trackers; runs plugins |
| Update push, `engine.go` + `handleStream` + `app.js` | `e.subs`, one channel of 64 frames per client, the page's cards | `Subscribe`, `broadcast`, the SSE loop, `applySnapshot` | fed by `runOne`; a subscriber counts as presence |
| Tracker table, `internal/store/store.go`, handlers in `internal/server/server.go` | tables `trackers`, `snapshots` | create, update, delete, clear, reload, import, the reconcile of a `--config` file | every change ends in `Engine.Reconcile` |
| Settings, `internal/store/settings.go`, `handleSaveSettings` | one row; the shared log level; `GITHUB_TOKEN` | get, save, start-up defaults | log level read by every logger, token by every GitHub plugin |
| Config document, `internal/config/config.go` | none | `Parse`/`normalize`, `Marshal`, `FileTrackers` | reconcile at start, reload, import, export |
| Plugin registry and external plugins, `internal/plugin/registry.go`, `internal/extplugin` | map of plugins; map of owned ids | register, unregister, get, rescan, `describe`/`run` of an executable | runs look plugins up while a rescan replaces them |
| GitHub client, `internal/plugins/github.go` | process-wide ETag cache and back-off table | `GHClient.Get` and its callers | concurrent runs of all GitHub plugins share it |
| Plugins, `internal/plugins/*` | none | one `Run` each: fetch, parse, classify | engine |
| Log ring, `internal/server/logbuffer.go` | the last 1000 entries | append, entries, clear | every logger; the Logs view |
| Frontend, `web/assets/app.js` | current view, stream or poll timer, settings copy, cards | views, `startUpdates`, drag order, forms | the HTTP API |
| Start-up, `cmd/plugdash/main.go` | none of its own | file reconcile, settings, registry, engine | everything |

What is hard in it, and what would make each part correct:

* **Scheduler.** Four kinds of goroutines share the maps under `e.mu`: the scheduler, the
  runs, the handlers in `Reconcile`, the subscribers. A run holds the tracker it was started
  with over a semaphore wait and a plugin call of up to `runTimeout`; meanwhile the tracker may
  be edited, deleted or reconciled. Correct: one run per tracker at a time, no slot lost,
  cached results belong to the present configuration, edits are eventually followed by a run,
  forced requests are served, nothing runs for long when nobody watches, a restart serves
  what was being served.
* **Push.** Sends never block, so frames are dropped; a replay races with broadcasts.
  Correct: no run waits for a browser, a page never goes back in time, a frame is lost only
  where the code says so.
* **Tracker table.** Handlers read, then write, without a transaction around both; reloads,
  imports and restarts replace all managed trackers. Correct: managed trackers are exactly
  the document's, keys are unique, ids are never reused, the user's own trackers are left alone, no edit
  reaches a managed one (which one interleaving breaks).
* **GitHub client.** Several runs revalidate the same URL at once. Correct: tokens do not see
  each other's bodies, a 304 is answered with a body not older than the call, back-off only
  after GitHub asked for it.
* **Plugins.** A run makes several requests while the remote changes; requests fail one by one;
  lists are paged, merged, sorted and cut. Correct: each verdict was true at some moment of the run,
  a list is the best of what the sources answered, nothing is green without evidence.
* **Settings.** Tabs save whole objects from copies of different age; a save commits and then sets
  the log level and the token, without a lock around the three. Correct: a save changes what it is
  about, and what is saved is in effect.
* **Rescan.** Lookup, unregister and register of an id are separate critical sections, and register
  panics on an id that is taken. Correct: no panic, built-ins untouched, plugins that are there found.
* **Config document.** Keys are derived from names and may collide. Correct: an export re-parses, and
  importing it leaves managed trackers what they are.
* **Frontend.** Its stream and its copy of the settings are in the models; polling is not.

## Modules

| Module | Models | State |
| --- | --- | --- |
| `Engine` | the scheduler with the two tables it shares with the handlers | the database (`table`, `nextId`, `snapRows`), the engine (`trackers`, `snaps`, `lastRun`, `running`), goroutines (`runs`, `loop`, `callers`), channels (`sem`, `forceC`, `wake`), presence (`watchers`, `polled`), `spread` |
| `RunSlots` | what the engine promises of runs: at most one per tracker, at most `MaxConcurrent` in a slot, each ends | `flight` per tracker |
| `Stream` | Subscribe, broadcast, handleStream and the page | cache and runs of the engine as versions; `subs`, `chan`, `writing`, `view`; history `missed` |
| `Trackers` | the tracker table and the handlers that write it | `rows`, `next`, the config `file`, one local state per request (`pc`, `put`, `doc`, `seen`), open transactions (`stale`); history `applied`, `gone`, `blind` |
| `TrackerSet` | what plugdash promises of its trackers: the user's own beside managed ones | `own`, `managed`, `used` |
| `GHClient` | `GHClient.Get` over the shared cache and back-off | `cache`, `until`, one record per call, GitHub's resources and the clock; history `told` |
| `PluginRun` | a run of a plugin: a job, one request after the other, a remote that changes in between | `job`, `remote`, `step`, `got`, `out`; history `past` |
| `GHRows` | github-issue-watch, the items of github-prs, github-actions, the CI badge | those of `PluginRun` |
| `Activity` | the paged fetch of timestamps and the series of github-stars and github-activity-rate | " |
| `ImageCheck` | docker-image and the registry client: addresses, tokens, challenges, tags, architectures | " |
| `Lists` | github-issues, -prs, -stale, -review-requested, -releases, rss-feed | " |
| `Verdicts` | dependency-freshness, endoflife, OSV, artifacts, milestone, workflow, health, file version | " |
| `Plugins` | a run of any of them | " |
| `Rescan` | the registry and `Manager.Rescan` | `dir`, `plugins`, `mu`, `owned`, `scans`; history `steady` |
| `Settings` | the settings row, its copies in the tabs, log level and token | `row`, `level`, `env`, `launch`, the pages in `tabs`, the requests in `saves`; history `commits`, `saved`, `overlapped` |
| `Document` | `normalize`, `Marshal` and a round trip through an import | `listed`, `doc`, `stage` |
| `Control` | `Rescan`, `Settings` and `Document` in one specification | `part` and theirs |
| `MC*` | instances for TLC (symmetry sets) | |
| `Kept` | the two loops over slices that several plugins and the document share: copying what qualifies, sorting | |
| `FoldLemmas` | no code: induction over sets of numbers, and what a fold over a sequence is | |
| `EngineProofs`, `TrackersProofs`, `StreamProofs`, `GHClientProofs`, `ControlProofs`, `PluginsProofs`, `VerdictsProofs` | theorems and their proofs | |

Every definition that stands for code is listed with its lines in `PROJECT.json` under `map`.
Operators commented "Mutant:" are not part of any specification: each is the way a plausible
bug would change the definition after it, kept to show that the properties notice.

**Engine.** One action per stretch of code that nothing can interrupt. `runOne` is five steps
(`RunAcquire`, `RunCache`, `RunPersist`, `RunRelease`, `RunFinish`) because the semaphore, the
cache, the database and the final bookkeeping are separate critical sections; its broadcast is in
`Stream`. `Reconcile` is `List` (the query, outside `e.mu`) and `Apply`. `runDue` captures the
list once (`Capture`) and then takes the lock per tracker (`StartDue`, `SkipNotDue`).
A handler is `Commit` (`Create`, `Update`, `Delete` of one tracker or of all, or `Document`, the transaction of
a reload or an import), `List`, `Apply`; with `StoreErrors` any of the three may
fail the way the code ignores it. Time is what `runDue` compares: a last run is `"recent"` or
`"elapsed"`, and the start-up window in which first runs are staggered (`phaseOffset`) is open or
over (`spread`); a pass uses one clock reading, so time does not advance during it. A snapshot is
the configuration it was produced from. `Restart` loses everything but the database, lets main
reconcile the config file, and loads the persisted rows of known trackers. With `Pooled`, whether a
statement enforces foreign keys is not determined, as the pragma is per connection. The names of
goroutines, `Runs`, limit how many are alive at once.

**Stream.** A snapshot is the number of the run that made it. `Broadcast` offers a frame to all
subscribers in one critical section; `Subscribe` replays and registers in one; `Take` and `Show`
are the two halves of handleStream's loop, since the channel empties before the page has the frame.
The replay goes through the trackers in order, which `InOrder` states. `missed` remembers, per client, the trackers whose latest frame was dropped: that is the loss the
code accepts.

**Trackers.** Create, delete and clear are single statements. An update is a read (`UpdateLook`)
and a write (`UpdateWrite`). Any id may be named, one that is not given yet too: the read then finds nothing,
the handler goes on without having looked, and the row may be there when it writes. `blind` remembers the
rows written so; a read that fails (`StoreErrors`) has the same effect. `Restart` reconciles the file, or, without
`--config`, nothing, and in that case may fail and go on with what the table has. A
reload or import is `Loads`, `FileBegin` (the first SELECT of the transaction, which fixes its
snapshot of the database) and `FileCommit`; in WAL mode the first write of a transaction whose
snapshot is outdated fails, which is `stale` and `GiveUp`. `Wrote` is that rule of SQLite, the one
external assumption of the module. A document is a function from its keys to entries, since
`normalize` rejects empty and duplicate keys. `TrackerSet` is related to it by reading the rows
with a key as the managed trackers and the others as the user's own; `Overlooked`, a blind update of a
managed tracker, is the one step the refinement allows beside those of `TrackerSet`.

**GHClient.** `Get` (back-off check), `Send` (ETag looked up, request leaves), `Respond` (GitHub,
external: 304 exactly for the current ETag, 200 with or without ETag and possibly cut short,
throttling with either header, other errors, failures), then one action per branch of the code
after the response. A 304 re-reads the cache as it is by then, as the code does.

**Plugins.** One action per request of a `Run`; what the plugin computes from the answers is part of
the action that got the last one. Between requests the remote may `Move` to another state, and `past`
holds the states it was in since the run began, so that a property can say "at some moment of the
run". Any request may fail. Runs share nothing but GitHub's cache, whose effect (an answer that is not
older than the call) is `GHClient`'s; hence one run at a time is enough, and `Plugins` is a choice of
job. Values are as coarse as the code: a check run is its conclusion, a comment whether the author
wrote it, a version its numbers and whether it has a suffix, an end-of-life field the cases
`parseEOL` tells apart. Functions over lists (`latest`, `cumulative`, `Kept`) are folds, written like the
loops they stand for; sorting is by places, as the library's `sort` promises a result and not a way;
and the properties define what they should yield without them. `Direct` selects and orders the entries of a
manifest as the two parsers do: a `go.mod` in its order, a `package.json` by name, where a development
dependency yields to a dependency of its name. `Lists` and `Verdicts` leave the remote alone, since each source is asked once: an
answer is whatever it is when asked.

**Rescan.** `Rescan` holds `Manager.mu`, but each `Get`, `Unregister` and `Register` is an action, and so
is each `describe`, which may fail or take too long. Files change at any moment (`ChangeFile`).

**Settings.** A save is a request of its own (`saves`) in four steps: committed, level set, variable set,
answered. A tab may have several in flight: a drag (`Drag`) and the Live switch (`SwitchLive`) change the tab's
copy and send it whole, and nothing waits for the answer, which replaces the copy whenever it comes; the form
(`SaveForm`) sends what is entered in its boxes with the order of the copy, and only its own button waits. The
debug flag stands for the other box of the form too. A failed request leaves the copy as it is. A restart reads
the row, the flags, the environment and the config file as `main` does; requests under way fail.

**Document.** A key is a sequence of words, a name is its slug plus the look `slugify` drops, so that
names can collide and be empty; "appended id" is a word more, which is how an own key can look like one.

## Runs

Deadlock is checked in every Engine and Trackers run. In `Stream` and `GHClient` versions and time
are bounded, so those models do stop (`CHECK_DEADLOCK FALSE`): the real system does not. A run of a
plugin (`plugins`) ends when it returned, and `control` stops at its bounds on saves and ids.

| Run | Shows | Bounds |
| --- | --- | --- |
| `engine_live` | `InSync`: idle handlers imply the engine has the stored trackers; `CacheIsDurable`: what is served for an idle tracker is what a restart loads; `EventuallyFresh`, `EventuallyQuiet` | 1 tracker id, 2 configurations, 1 handler, SSE client and poller, restarts |
| `engine_faults` | `SingleFlight`: no tracker is run twice at once; `SnapshotHasLastRun`; with failing store operations, unenforced foreign keys, forced requests and restarts | 1 tracker id, 2 configurations, 1 handler, 2 goroutines |
| `engine_slots` | `SlotsAccountedFor`; refinement of `RunSlots` with and without its fairness: slots are neither lost nor doubled, a run that waits for the slot gets it and ends | 2 trackers with a goroutine each competing for 1 slot |
| `engine_force` | `ForceServed` | 1 tracker id, deleted by a handler, queue of 2 |
| `stream` | `NothingLostSilently`, `NeverBackInTime`, `RunsNeverBlocked`, `EventuallyShown` | 2 trackers, 2 runs each, channel of 1 frame, which cuts off the replay too, 1 client that reconnects |
| `trackers` | types (a blank name only by a blind update), `KeysUnique`, `FollowsDocument`, refinement of `TrackerSet` | 1 key, 2 names, 2 ids, 2 concurrent requests, reads that fail, restarts |
| `gh_client` | `MissUnreachable`, `ViewsNotShared`, `FreshUnlessOvertaken`, `RefusedOnlyWhenTold` | 2 concurrent calls, 2 tokens, 1 URL that changes once, clock of 2 instants |
| `plugins` | `AnsweredWasTrue`, `CIWasTrue`, `ReviewWasTrue`, `TotalWasTrue`, `ChecklistWasTrue`: verdicts against what the remote held during the run; `SeriesAccountsForAll`, `ListsHonest`, `VerdictsHonest`, `GreenNeedsEvidence`: results against the answers | 3 states of the remote a run (2 for series and images), pages of 2, 3 comments, check runs or reviews, 4 timestamps, 2 tags, 4 items of 2 repositories, 5 versions, 2 dependencies, 3 reviewers |
| `control` | `ControlTypeOK` (types, `BuiltinsUntouched`, parsed documents have unique keys), `RegisterNeverPanics`, `FoundUnlessReplaced`, `InstallsWhatIsThere`; `SavedIsApplied`, `KeepsTheRest`; `ExportIsFaithful` (`ExportReparses`, `ManagedKeepKeys`), `RoundTrips` | 2 files, 3 ids of which 1 built-in, 2 rescans; 2 tabs, 2 saves in flight, 2 saves committed, 2 tokens and entries of the form, started with and without `-debug`; 3 trackers with 4 names, documents of 2 entries |
| `engine_two_handlers`, `engine_stale_run`, `trackers_blind_update` | counterexamples, [see below](#disagreements-between-code-and-documentation) | a small instance that has one |

The type invariants of `Engine`, `Stream` and `GHClient` are proved (below), so their runs spend their
time on the other properties.

*Why the bounds are enough.* The hazards listed in `PROJECT.json` need at most two actors meeting
over one datum: two runs of one tracker, a run and a reconcile, a replay and a broadcast, two
transactions, two requests of one URL. Each instance has those two and one resource to fight over
(one slot, a channel of one frame, one key). Two configurations tell "old" from "new"; a second
tracker matters for slots, channels and changes of several rows only: the last are left to the proofs of `InSync` and
`CacheIsDurable`, which are about any number of trackers. `MaxIds`/`NumIds` bound AUTOINCREMENT,
`ForceCap` and `SubBuffer` stand for 64, `MaxConcurrent` for 8, `MaxSubs` bounds viewers,
`MaxVersion`, `MaxTime` and `MaxWait` bound runs and clocks. In `plugins` a page of two stands for 30
or 100, so that three items need a second page and four, the budget of two pages; `MaxPast` bounds how
often the remote changes within a run, and three states are one before, one between and one after two
requests; `Logins` are three reviewers, one more than it takes for two to disagree. Two files suffice for every collision of ids, three ids for a built-in, an old and a new one.
Two saves, of one tab or of two (`Tabs`, `Requests`, `MaxSaves`), overlap or follow each other, and two `Entries` of
the form with different tokens tell which was applied; `Launches` is how the process is started; three trackers are what it takes for an appended id to hit a
third one's key. Safety for larger instances is what the
proofs are for.

*Fairness.* `Engine!Fairness`: runs and handlers proceed (`runTimeout` bounds a plugin call, a
statement ends), the semaphore is a Go channel whose waiters are served in order (strong fairness of
`RunAcquire`), `select` chooses at random among ready cases (strong fairness of the three receives),
time passes. Nothing is assumed of users: viewers may come, go, edit and press buttons for ever.
`Stream!FairSpec` assumes only that runs get to their broadcast; `EventuallyShown` is about a client
that reads (`Reads`). `EventuallyQuiet` presupposes, besides the viewers' absence, that forced
requests cease, since `Force` works "regardless of presence". `EventuallyFresh` is checked without
store errors, which break it in the code (`reconcileEngine` ignores them). It holds with restarts, after which
somebody must be watching again: a start serves rows of old configurations, but their runs fall due.

*Mutants.* `PROJECT.json` names one per property: a dropped guard, a missing reset, a swapped order
or a blocking send in a modelled definition, under which TLC finds the property violated with the
same configuration.

## Disagreements between code and documentation

* `engine_two_handlers`: `Reconcile` lists the trackers before it locks. Of two handlers, the one
  with the older list can install it last; a created tracker is then not run, or a deleted one still
  is, until some later change.
* `engine_stale_run`: a run in flight when its tracker is edited caches its result after
  `Reconcile` dropped the old one, and its deferred stamp makes the tracker look freshly run. The
  comment promises it "isn't served stale against the old config". `EventuallyFresh` shows that the
  state heals after an interval, as long as somebody watches.
* `trackers_blind_update`: an update checks the source of the tracker only if it finds one. For an id
  that is not given yet it finds none, and by the time it writes, the row may be a managed tracker an import
  inserted: "cannot be edited from the UI", and is. `FollowsDocument` and the refinement of `TrackerSet` say
  that updates of this kind are the only exception; the next reload repairs it.

Observations that follow from the models' actions and that no run states as a property. The first ones are
disagreements too; the properties beside them name the condition under which the promise is kept:

* A save sets the log level from the toggle alone, while by `docs/CONFIGURATION.md` (lines 107-112) debug logging
  is on if "any" of flag, variable and toggle is. `SavedIsApplied` makes no claim of a process started with debug
  on whose toggle is off.
* Two saves of the settings that overlap may leave one's token in the row and the other's in `GITHUB_TOKEN`
  (`overlapped` in `SavedIsApplied`).
* The Live switch, like the form, saves a copy of everything: sent before a drag and committed after it, or from a tab
  that has not seen another tab's drag, it takes back the order that `app.js` (line 985) saves "so the layout survives
  reloads". `KeepsTheRest` says that a copy that reflects the last save does no harm.
* `Marshal` exports trackers "a", "a 3" and, with id 3, "a" again with the key `a-3` twice, and `Parse` rejects the
  document; a tracker of the user's own that is listed first takes the key of a managed one, which an import of that
  export then replaces. The comment at `config.go:127-130` promises neither happens; `ExportIsFaithful` says that
  these two are the only cases (`NoTrap`, `Taken`).
* Reviews are read one page deep, the oldest first: on a pull request with more than a page "each reviewer's latest
  decisive review" is not what counts. `ReviewWasTrue` is stated while they fit (`OnOnePage`).
* A registry's answer without a version counts as up to date, where the comment at `depfreshness.go:275` promises
  string equality for what cannot be parsed (`NoVersion` in `GreenNeedsEvidence`).
* `setRateLimited` overwrites. Of two calls that are rejected in flight the last to be processed decides, and calls go
  out again before the later deadline, although by `docs/ARCHITECTURE.md` (lines 332-333) they "fail fast until it
  passes". `RefusedOnlyWhenTold` is the other direction.

In the others documents are silent or the effect is small:

* Nothing removes the persisted snapshot of a changed tracker, so a start after a change (an edited
  `--config` file in particular) serves it until the next run.
* `PRAGMA foreign_keys=ON` is executed on one connection of the pool; elsewhere deletes do not
  cascade and late saves are accepted. Because ids are never reused, and `loadSnapshots` skips unknown
  ids, the rows are garbage and no wrong result follows.
* A forced request for id 0 runs every tracker; the replay to a new client stops at 64 frames; an
  update without a name undoes a concurrent rename, and one that found no tracker may store a blank name.
* A start without `--config` whose reconcile fails serves the managed trackers of the document before,
  read-only, although main means to drop them.
* A dashboard that could not fetch the settings saves defaults. A cleared token stays in use until a restart.
* A plugin whose `describe` times out during a rescan, or a directory that cannot be read, is treated
  like one that is gone.
* Check runs are read one page deep; behind the page budget stars lack the newest; a search
  whose repositories are all invalid is about all of GitHub; github-issues skips a repository that fails
  without a row; an index without architectures has none missing; an end-of-life field that cannot be read
  counts as supported; OSV's `next_page_token`
  is not followed; a token endpoint's token replaces the configured one; `startup_failure` is no failure.
  Where a property is touched it names the condition.
* Outside the models: `io.ReadAll`'s dropped error caches a body that was cut short, for as long as
  its ETag lives; an import is cut at 1 MiB without an error; the form resets the (unused) auto-refresh
  interval; `renderDashboard` connects to the stream even if the user has left the view meanwhile, and
  polls of the fallback may be answered out of order.

## Proofs

All theorems are about the specifications TLC checks, for all values of the constants that satisfy
the `ASSUME`s of the modules: any number of trackers, goroutines, handlers, keys, tokens, any slot
count, restarts, and failures unless stated.

| Theorem | States | Under |
| --- | --- | --- |
| `EngineProofs!TypeCorrect`, `NeverTwice`, `SlotsNeverLeak` | `TypeOK`, `SingleFlight`, `SlotsAccountedFor` are invariants | nothing |
| `EngineProofs!SnapshotsAreDated` | `SnapshotHasLastRun` | nothing |
| `EngineProofs!EngineFollowsStore` | `InSync` | one handler, no store errors (`OneAtATime`) |
| `EngineProofs!RestartLosesNothing` | `CacheIsDurable` | no store errors |
| `EngineProofs!EngineImplementsRunSlots` | `Engine` implements `RunSlots` (safety) | nothing |
| `TrackersProofs!TrackersTyped`, `OneTrackerPerKey`, `ManagedFollowDocument` | `TypeOK`, `KeysUnique`, `FollowsDocument`, whatever ids are named and reads fail | nothing |
| `TrackersProofs!TrackersImplementSet` | `ImplementsTrackerSet`: the steps of `TrackerSet`, or `Overlooked` | nothing |
| `StreamProofs!StreamTyped`, `NothingLost`, `PagesNeverGoBack` | `TypeOK`, `NothingLostSilently`, `NeverBackInTime` | nothing |
| `GHClientProofs!ClientTyped`, `MissNeverHappens`, `TokensSeeTheirOwn`, `NothingOlderThanTheStart`, `BackOffOnlyWhenTold` | `TypeOK` and the four properties of `gh_client` | nothing |
| `ControlProofs!RescanNeverPanics`, `BuiltinsStay`, `PluginsAreFound`, `RescanInstalls` | `RegisterNeverPanics`, `BuiltinsUntouched`, `FoundUnlessReplaced`, `InstallsWhatIsThere` | nothing |
| `ControlProofs!SettingsApplied`, `SavesKeepTheRest` | `SavedIsApplied`, `KeepsTheRest`, for any number of tabs and of saves in flight | nothing |
| `ControlProofs!ExportFaithful`, `ImportRoundTrips` | `ExportIsFaithful`, `RoundTrips`, for any number of trackers and any document | nothing but the two conditions in `ExportIsFaithful` |
| `ControlProofs!ControlTyped` | `ControlTypeOK` | nothing |
| `PluginsProofs!AnsweredCorrect`, `CICorrect`, `ReviewCorrect` | `AnsweredWasTrue`, `CIWasTrue`, `ReviewWasTrue`, for pages of any size, any set of reviewers; `ReviewWasTrue` while the reviews fit on a page | nothing |
| `PluginsProofs!TotalCorrect`, `VerdictsProofs!SeriesCorrect` | `TotalWasTrue`, `SeriesAccountsForAll`, for any page budget, buckets and number of points | nothing |
| `PluginsProofs!ChecklistCorrect` | `ChecklistWasTrue` | nothing |
| `VerdictsProofs!ListsCorrect` | `ListsHonest`, for any pool of items | nothing |
| `VerdictsProofs!VerdictsCorrect`, `GreenCorrect` | `VerdictsHonest`, `GreenNeedsEvidence`, for any versions and manifests | nothing |
| `VerdictsProofs!RunsTyped` | `TypeOK` of `Plugins` | nothing |

So every invariant and every action property of the passing runs, and the refinement of both abstract
specifications, is a theorem. The conditions are the ones the code needs: without `OneAtATime` TLC shows `engine_two_handlers`,
and with store errors an unwritten row or an unread list is what the code accepts. "Nothing" leaves the
`ASSUME`s, which say what the constants are and no more: bounds are naturals, placeholders for "none" are
no real value, the parts of a version are naturals (`VerdictAssumption`), dates and tiers are integers
(`PoolAssumption`), the first bucket of a period begins with time and the last with the last day at the
latest (`ActivityAssumption`), names are not blank and handwritten documents have the three fields
(`DocumentAssumption`), a directory lists a file once (`RescanAssumption`), every plugin whose remote
moves has a bound on how often (`MovingAssumption`).

*Loops.* The provers offer no induction over sequences, but the library's finite sets are well-founded
under inclusion; from that `FoldLemmas` obtains induction over numbers as a statement about sets
(`InductNat`, `InductUpTo`), the extremes of sets, and that a fold is the last value of a run with one step per
element (`FoldRun`). What a loop computes is then an invariant of that run. Where the code sorts, an item's place
is how many do not come after it; `StableSorted` shows that places are a permutation and that it sorts.

*Engine.* `Base` = types, the pass only walks its captured list (`WalksItsList`), `SingleFlight`,
`SlotsAccountedFor`. It is inductive together only: that `StartDue` may set a running flag rests on
the map being exactly the set of trackers with a goroutine, and that `RunRelease` keeps `sem` a
natural number rests on the count. `SnapshotHasLastRun` is inductive relative to `Base`: a run that
caches has its flag set until the same step that stamps it. `InSync` needs `ViewFollows`: while the
one handler is between commit and apply its list is the table, otherwise the engine has it.
`CacheIsDurable` needs to know (`Durable`) that ids in use are below `nextId` in every copy of the
table (so that AUTOINCREMENT never brings an old row back to life) and that the row of a tracker is
its cached snapshot except between `RunCache` and `RunPersist` of its one run.

*RunSlots.* A tracker's flight is the phase of its only run; `SingleFlight` makes that well defined,
`SlotsAccountedFor` turns the semaphore guard into the abstract one. Each run step maps to one
abstract step or to stuttering, `Restart` to `Crash`.

*Trackers.* `IInv` adds that ids are given in order, that an update in progress has looked at a row
of the user's own or has found none (`PutsLooked`: rows never change their source, so a check that was made
stays valid until the write; a write after none makes its row `blind`), and that a transaction whose snapshot is current knows exactly the managed rows
(`SnapshotsKnow`), which is why inserting the unknown keys cannot duplicate one.

*TrackerSet.* `KeysUnique` makes the managed trackers a function of their key (`ManagedByRows`), so a
reconcile maps to one `Replace`: known keys keep their id, the others get the fresh ids, and the
user's own rows are untouched. `UpdateWrite` maps to `Edit` because of `PutsLooked`, or to `Overlooked` if nothing was found. Lookups, the
begin of a transaction and failures stutter.

*Stream.* What is cached or about to be broadcast comes from the latest run (`RunsInStep`), and a
client's frames lie between what its page shows and that run, each tracker's in order (`Ordered`). So
a broadcast frame goes behind all others of its tracker, a replay starts no lower than the page, and
a frame that overwrites the cached result on a page can only be that result again.

*GHClient.* The cached entry of a key is a page of that key and of its ETag (`EntriesMatch`), a
request carries an ETag only if its key has an entry, and a call that was not overtaken finds an
entry not older than its start once GitHub has answered 304.

*Control.* For the rescan, `IInv` adds to the types that one rescan at most is not idle and holds `mu`
(`OneRescan`), that an id a rescan deals with is not a built-in's (`OnlyExternal`), and that what is
registered is accounted for: owned from before or seen by the rescan under way (`Accounted`). Between
`LookUp` and `RegisterIt` nobody else changes the registry, so the id is still free. For the settings,
`SInv` says that a tab's copy equals the row whenever its `seen` is the last commit (`Truthful`), that so does,
but for what it is about, the object of a save whose `seen` is the last commit (`Known`), however many are in
flight, which is why an up-to-date save keeps the rest, and that if saves did not overlap, the one under way is the
last one committed (`InTurn`), which is why its two effects are the row's.

What a rescan installs needs more (`CInv`): if nothing changed in the directory since it began, it knows of each id
exactly what the files before the one it is at claim, and its two counts are the sizes of the sets of ids
that came and that went (`Told`), the first as long as no two files claim one id. A file that loses its id to an
earlier one and a plugin that gives way to another are the cases that make the sets overlap.

*Document.* `DInv`: tracker keys are empty or unique, ids are unique, a parsed document has keys, names
and plugins and no key twice. That `normalize` of an export changes nothing rests on `NoTrap`: appended ids make
keys unique unless a key already looks like another with its id. The loop of `Marshal` is a run in which the keys
given so far are known; the round trip follows since a re-parsed export is the export.

*Rows of runs.* `RowInv` keeps, for each plugin, what the run has learnt with the moments at which it was so:
while no comment is deleted, the comments counted are still there and each later one was the last at some
moment (`CountSeen`), which is why the page computed from the count ends with a comment that was the newest
(`AnswerTrue`); the head the checks are asked for was the head (`HeadWas`), before the checks were what the
verdict needs (`CIInv`); the reviewers' latest decisions are those of a page there was (`ReviewTrue`), which is all reviews if they fit.

*Activity.* `PagesInv`: the items fetched are as many as the pages so far hold, which is no more than the
repository has while items only arrive, and for stars they are its first ones. So the page that is not full makes the
total the length of the list at that moment. The series is proved of every list of days: after k sorted days the points
are the last places of the days so far (`Cumulated`); the buckets of the span partition the days, so their counts
add up (`BucketsAddUp`); thinning keeps order, first and last (`Thins`), hence leaves a true series true.

*Images.* `ImageInv`: every candidate of a tag is still to be tried, or was absent at some moment, or hidden from
a credential it was asked with; both stay true as the history and the credentials grow, so a row that says "missing"
has all its candidates behind it, and one that says "there" names a moment.

*Lists and verdicts.* `ListInv` and `VerdictInv` say that the answers are complete when the run returns, each is one
its source can give, and the result is a function of them; the rest is about that function. A list that is
sorted and cut is the best of what qualifies (`ListsBest`); the first part in which two versions differ decides
(`PartsAre`); a plugin is green only in the branches that looked at a full set of answers.

*Types.* `RunsTyped` needs `PastBounded` and `RowBounded` (a run sees no more states of the remote than the bound,
a count is no more than the list) beside the invariants above.

Only model-checked are the liveness properties (`EventuallyFresh`, `EventuallyQuiet`, `ForceServed`,
`RunsNeverBlocked`, `EventuallyShown`) and the refinement of `RunSlots` with fairness, which need ENABLED and
fairness and are beyond the prover.

## Not modelled

Rendering, styling, view switching and the polling fallback of the frontend; themes and static files;
the log ring; what an external plugin's `run` exchanges over its pipes; SQL, YAML and JSON encodings (a
value is read back as it was written); HTTP and text parsing of the plugins below the cases their code
tells apart; github-repo-stats, which copies four counters; the `/user` lookup of
github-review-requested; `phaseOffset`'s arithmetic (only that first runs may be delayed and eventually
are not); the unused auto-refresh interval; directories. The engine's `Stop` is never called while serving.
The engine-less fallback of `/api/run` (`runTracker`) is used by tests only.

## Plan

What is left, in this order:

1. *Dashboard*: view changes, stream, polling fallback and late answers in the browser, composed with
   presence in the engine.
2. *Cadence*: intervals, ages and `phaseOffset` in numbers, with restarts.
3. *External plugin runs*: output limits, timeouts and the processes a killed plugin leaves behind.
4. *Proofs* of the safety of each of these, as for the parts above.
