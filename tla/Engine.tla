------------------------------- MODULE Engine -------------------------------
(***************************************************************************)
(* The scheduler of internal/engine/engine.go together with the two tables *)
(* it shares with the HTTP handlers: the tracker table and the table of    *)
(* persisted snapshots (internal/store/store.go).                          *)
(*                                                                         *)
(* Actors: the scheduler goroutine (loop, runDue), one goroutine per       *)
(* tracker run (runOne), the HTTP handlers that change the tracker table   *)
(* and then call Reconcile, the clients whose presence gates scheduling,   *)
(* and a crash of the process followed by main's start-up.                 *)
(*                                                                         *)
(* Time is abstracted to what runDue compares: a last run is "recent" or   *)
(* its interval has "elapsed".  A snapshot is abstracted to the            *)
(* configuration (plugin, config, interval) of the run that produced it.   *)
(***************************************************************************)
EXTENDS Naturals, Sequences, FiniteSets

CONSTANTS
  NumIds,        \* AUTOINCREMENT hands out the ids 1 .. NumIds (bound)
  Cfgs,          \* tracker configurations trackerChanged tells apart
  Absent,        \* no such tracker, no such snapshot
  Runs,          \* names for the goroutines executing runOne
  Callers,       \* HTTP handler goroutines that end in reconcileEngine
  MaxConcurrent, \* capacity of the run semaphore (8 in the code)
  ForceCap,      \* capacity of forceC (64 in the code)
  MaxSubs,       \* bound on the SSE clients that may be connected at once
  Polls,         \* whether clients may fall back to cached polling
  Forces,        \* whether clients may press a refresh button
  StoreErrors,   \* whether a store operation may fail
  Pooled,        \* whether database/sql may use more than one connection
  Restarts       \* whether the process may crash and restart

ASSUME CountAssumption ==
  /\ NumIds \in Nat \ {0}
  /\ MaxConcurrent \in Nat \ {0}
  /\ ForceCap \in Nat \ {0}
  /\ MaxSubs \in Nat
ASSUME NamesAssumption ==
  /\ Absent \notin Cfgs
  /\ Cfgs # {}
  /\ IsFiniteSet(Runs)
ASSUME FlagAssumption == {Polls, Forces, StoreErrors, Pooled, Restarts} \subseteq BOOLEAN

Ids == 1 .. NumIds
Tables == [Ids -> Cfgs \cup {Absent}]
EmptyTable == [id \in Ids |-> Absent]
Present(t) == {id \in Ids : t[id] # Absent}

VARIABLES
  \* the database
  table, nextId, snapRows,
  \* the engine, guarded by e.mu
  trackers, snaps, lastRun, running,
  \* runOne goroutines and the semaphore they share
  runs, sem,
  \* the scheduler goroutine and its channels
  loop, forceC, wake,
  \* presence, and the start-up window of staggered first runs
  watchers, polled, spread,
  \* handlers on their way through reconcileEngine
  callers

dbVars     == <<table, nextId, snapRows>>
cacheVars  == <<trackers, snaps, lastRun>>
runVars    == <<running, runs, sem>>
loopVars   == <<loop, forceC, wake>>
clientVars == <<watchers, polled, spread>>
vars == <<dbVars, cacheVars, runVars, loopVars, clientVars, callers>>

(***************************************************************************)
(* Shapes of the local state of the goroutines.                            *)
(***************************************************************************)
NoRun == [pc |-> "idle", id |-> 0, cfg |-> Absent]
RunPCs == {"queued", "calling", "cached", "persisted", "released"}
RunStates == [pc : RunPCs, id : Ids, cfg : Cfgs] \cup {NoRun}

\* Where a run sits between its receive from and its send to the semaphore.
HoldingPCs == {"calling", "cached", "persisted"}

AtSelect == [pc |-> "select", force |-> FALSE, only |-> 0,
             list |-> EmptyTable, todo |-> {}]
Entering(force, only) ==
  [AtSelect EXCEPT !.pc = "entering", !.force = force, !.only = only]
LoopStates == [pc : {"select", "entering", "pass"}, force : BOOLEAN,
               only : 0 .. NumIds, list : Tables, todo : SUBSET Ids]

NoCall == [pc |-> "idle", list |-> EmptyTable]
CallerStates == [pc : {"idle", "list", "apply"}, list : Tables]

Ages == {"never", "recent", "elapsed"}

\* clientCount() > 0
Watched == watchers > 0 \/ polled

\* With several pooled connections only the one that ran Open's PRAGMA
\* enforces foreign keys, so whether a statement does is not determined.
Enforced == IF Pooled THEN BOOLEAN ELSE {TRUE}

-----------------------------------------------------------------------------
(***************************************************************************)
(* The store, as handlers change it.                                       *)
(***************************************************************************)
\* The rows left in the snapshots table when the trackers in gone are deleted.
Cascade(rows, gone, enforced) ==
  [id \in Ids |-> IF enforced /\ id \in gone THEN Absent ELSE rows[id]]

Create(cfg) ==
  /\ nextId \in Ids
  /\ table' = [table EXCEPT ![nextId] = cfg]
  /\ nextId' = nextId + 1
  /\ UNCHANGED snapRows

Update(id, cfg) ==
  /\ id \in Present(table)
  /\ table' = [table EXCEPT ![id] = cfg]
  /\ UNCHANGED <<nextId, snapRows>>

\* DELETE of one tracker, or of every tracker (ClearTrackers).
Delete(gone) ==
  /\ gone # {}
  /\ table' = [id \in Ids |-> IF id \in gone THEN Absent ELSE table[id]]
  /\ \E enforced \in Enforced : snapRows' = Cascade(snapRows, gone, enforced)
  /\ UNCHANGED nextId

\* A reload or an import (ReconcileFileTrackers): one transaction updates and
\* deletes some of the rows there are and inserts n.  Which rows are managed by
\* a document is not told here (see Trackers), so they may be any.
Document(n) ==
  LET born == nextId .. nextId + n - 1 IN
  /\ born \subseteq Ids
  /\ table' \in {t \in Tables :
        born \subseteq Present(t) /\ Present(t) \subseteq Present(table) \cup born}
  /\ nextId' = nextId + n
  /\ \E enforced \in Enforced :
       snapRows' = Cascade(snapRows, Present(table) \ Present(table'), enforced)

ChangeTable ==
  \/ \E n \in 0 .. NumIds : Document(n)
  \/ \E cfg \in Cfgs : Create(cfg)
  \/ \E id \in Ids, cfg \in Cfgs : Update(id, cfg)
  \/ \E id \in Present(table) : Delete({id})
  \/ Delete(Present(table))

(***************************************************************************)
(* A handler commits a change and then calls Reconcile; when the statement *)
(* committed but reading the row back failed, it reports an error and      *)
(* returns without reconciling.                                            *)
(***************************************************************************)
\* Mutant: the handler forgets to reconcile the engine.
CommitOnly(c) ==
  /\ callers[c].pc = "idle"
  /\ ChangeTable
  /\ UNCHANGED <<cacheVars, runVars, loopVars, clientVars, callers>>

Commit(c) ==
  /\ callers[c].pc = "idle"
  /\ ChangeTable
  /\ \/ callers' = [callers EXCEPT ![c].pc = "list"]
     \/ StoreErrors /\ UNCHANGED callers
  /\ UNCHANGED <<cacheVars, runVars, loopVars, clientVars>>

\* Reconcile reads the tracker table before it takes the engine's lock.
List(c) ==
  /\ callers[c].pc = "list"
  /\ callers' = [callers EXCEPT ![c] = [pc |-> "apply", list |-> table]]
  /\ UNCHANGED <<dbVars, cacheVars, runVars, loopVars, clientVars>>

\* reconcileEngine ignores the error Reconcile returns.
ListError(c) ==
  /\ StoreErrors
  /\ callers[c].pc = "list"
  /\ callers' = [callers EXCEPT ![c] = NoCall]
  /\ UNCHANGED <<dbVars, cacheVars, runVars, loopVars, clientVars>>

\* Trackers whose cached state Reconcile drops when it installs the list new.
Changed(new) == {id \in Present(trackers) \cap Present(new) : trackers[id] # new[id]}
Orphaned(new) == Present(snaps) \ Present(new)
Invalid(new) == Changed(new) \cup Orphaned(new)

\* Mutant: only additions and removals make the engine take the new list.
ApplyMembership(c) ==
  LET new == callers[c].list IN
  /\ callers[c].pc = "apply"
  /\ snaps' = [id \in Ids |-> IF id \in Invalid(new) THEN Absent ELSE snaps[id]]
  /\ lastRun' = [id \in Ids |-> IF id \in Invalid(new) THEN "never" ELSE lastRun[id]]
  /\ trackers' = IF Present(new) = Present(trackers) THEN trackers ELSE new
  /\ wake' = TRUE
  /\ callers' = [callers EXCEPT ![c] = NoCall]
  /\ UNCHANGED <<dbVars, runVars, loop, forceC, clientVars>>

Apply(c) ==
  LET new == callers[c].list IN
  /\ callers[c].pc = "apply"
  /\ snaps' = [id \in Ids |-> IF id \in Invalid(new) THEN Absent ELSE snaps[id]]
  /\ lastRun' = [id \in Ids |-> IF id \in Invalid(new) THEN "never" ELSE lastRun[id]]
  /\ trackers' = new
  /\ wake' = TRUE
  /\ callers' = [callers EXCEPT ![c] = NoCall]
  /\ UNCHANGED <<dbVars, runVars, loop, forceC, clientVars>>

-----------------------------------------------------------------------------
(***************************************************************************)
(* The scheduler goroutine: loop's select, then runDue.                    *)
(***************************************************************************)
LoopForce ==
  /\ loop.pc = "select"
  /\ forceC # <<>>
  /\ loop' = Entering(TRUE, Head(forceC))
  /\ forceC' = Tail(forceC)
  /\ UNCHANGED <<dbVars, cacheVars, runVars, wake, clientVars, callers>>

LoopWake ==
  /\ loop.pc = "select"
  /\ wake
  /\ wake' = FALSE
  /\ loop' = IF Watched THEN Entering(FALSE, 0) ELSE loop
  /\ UNCHANGED <<dbVars, cacheVars, runVars, forceC, clientVars, callers>>

\* Mutant: ticks do not look at presence.
LoopTickAlways ==
  /\ loop.pc = "select"
  /\ loop' = Entering(FALSE, 0)
  /\ UNCHANGED <<dbVars, cacheVars, runVars, forceC, wake, clientVars, callers>>

\* A tick with nobody watching changes nothing.
LoopTick ==
  /\ loop.pc = "select"
  /\ Watched
  /\ loop' = Entering(FALSE, 0)
  /\ UNCHANGED <<dbVars, cacheVars, runVars, forceC, wake, clientVars, callers>>

\* runDue captures e.trackers once; the list is walked in id order.
Capture ==
  /\ loop.pc = "entering"
  /\ loop' = LET todo == {id \in Present(trackers) : loop.only \in {0, id}}
             IN IF todo = {} THEN AtSelect
                ELSE [loop EXCEPT !.pc = "pass", !.list = trackers, !.todo = todo]
  /\ UNCHANGED <<dbVars, cacheVars, runVars, forceC, wake, clientVars, callers>>

\* Mutant: a forced pass respects intervals like any other.
DueUnforced(id) ==
  IF lastRun[id] = "never" THEN (IF spread THEN {TRUE} ELSE BOOLEAN)
  ELSE {lastRun[id] = "elapsed"}

\* Before the start-up window is over a never-run tracker's slot may or may
\* not have come (phaseOffset); afterwards it has.
Due(id) ==
  CASE loop.force             -> {TRUE}
    [] lastRun[id] = "never"  -> IF spread THEN {TRUE} ELSE BOOLEAN
    [] OTHER                  -> {lastRun[id] = "elapsed"}

Walked(id) ==
  IF loop.todo = {id} THEN AtSelect ELSE [loop EXCEPT !.todo = @ \ {id}]

Spawn(r, id, cfg) ==
  /\ runs[r].pc = "idle"
  /\ runs' = [runs EXCEPT ![r] = [pc |-> "queued", id |-> id, cfg |-> cfg]]
  /\ running' = [running EXCEPT ![id] = TRUE]

NextInList(id) == id \in loop.todo /\ \A other \in loop.todo : id <= other

\* Mutant: a due tracker is started without looking at the running map.
StartDueAgain(id, r) ==
  /\ loop.pc = "pass" /\ NextInList(id)
  /\ TRUE \in Due(id)
  /\ Spawn(r, id, loop.list[id])
  /\ loop' = Walked(id)
  /\ UNCHANGED <<dbVars, cacheVars, sem, forceC, wake, clientVars, callers>>

StartDue(id, r) ==
  /\ loop.pc = "pass" /\ NextInList(id)
  /\ TRUE \in Due(id) /\ ~running[id]
  /\ Spawn(r, id, loop.list[id])
  /\ loop' = Walked(id)
  /\ UNCHANGED <<dbVars, cacheVars, sem, forceC, wake, clientVars, callers>>

SkipNotDue(id) ==
  /\ loop.pc = "pass" /\ NextInList(id)
  /\ FALSE \in Due(id) \/ running[id]
  /\ loop' = Walked(id)
  /\ UNCHANGED <<dbVars, cacheVars, runVars, forceC, wake, clientVars, callers>>

-----------------------------------------------------------------------------
(***************************************************************************)
(* runOne, one step per place where another goroutine can come in between. *)
(***************************************************************************)
RunAcquire(r) ==
  /\ runs[r].pc = "queued"
  /\ sem < MaxConcurrent
  /\ sem' = sem + 1
  /\ runs' = [runs EXCEPT ![r].pc = "calling"]
  /\ UNCHANGED <<dbVars, cacheVars, running, loopVars, clientVars, callers>>

\* Mutant: the running flag is cleared as soon as the result is cached.
RunCacheAndClear(r) ==
  /\ runs[r].pc = "calling"
  /\ snaps' = [snaps EXCEPT ![runs[r].id] = runs[r].cfg]
  /\ running' = [running EXCEPT ![runs[r].id] = FALSE]
  /\ runs' = [runs EXCEPT ![r].pc = "cached"]
  /\ UNCHANGED <<dbVars, trackers, lastRun, sem, loopVars, clientVars, callers>>

\* The plugin call returns, with a result or an error: both are cached.
RunCache(r) ==
  /\ runs[r].pc = "calling"
  /\ snaps' = [snaps EXCEPT ![runs[r].id] = runs[r].cfg]
  /\ runs' = [runs EXCEPT ![r].pc = "cached"]
  /\ UNCHANGED <<dbVars, trackers, lastRun, running, sem, loopVars, clientVars, callers>>

\* SaveSnapshot fails for a deleted tracker when the foreign key is enforced;
\* a failure is logged and ignored.
CanSave(id) == table[id] # Absent \/ FALSE \in Enforced
MayFailToSave(id) == StoreErrors \/ (table[id] = Absent /\ TRUE \in Enforced)

\* Mutant: a row that is already there is not overwritten.
RunPersistOnce(r) ==
  LET id == runs[r].id IN
  /\ runs[r].pc = "cached"
  /\ \/ CanSave(id) /\ snapRows[id] = Absent /\ snapRows' = [snapRows EXCEPT ![id] = runs[r].cfg]
     \/ (MayFailToSave(id) \/ snapRows[id] # Absent) /\ UNCHANGED snapRows
  /\ runs' = [runs EXCEPT ![r].pc = "persisted"]
  /\ UNCHANGED <<table, nextId, cacheVars, running, sem, loopVars, clientVars, callers>>

RunPersist(r) ==
  LET id == runs[r].id IN
  /\ runs[r].pc = "cached"
  /\ \/ CanSave(id) /\ snapRows' = [snapRows EXCEPT ![id] = runs[r].cfg]
     \/ MayFailToSave(id) /\ UNCHANGED snapRows
  /\ runs' = [runs EXCEPT ![r].pc = "persisted"]
  /\ UNCHANGED <<table, nextId, cacheVars, running, sem, loopVars, clientVars, callers>>

\* Mutant: the slot is never given back.
RunReleaseNothing(r) ==
  /\ runs[r].pc = "persisted"
  /\ runs' = [runs EXCEPT ![r].pc = "released"]
  /\ UNCHANGED <<dbVars, cacheVars, running, sem, loopVars, clientVars, callers>>

\* The deferred function: give the semaphore slot back, then, in a separate
\* critical section, clear the running flag and stamp the run.
RunRelease(r) ==
  /\ runs[r].pc = "persisted"
  /\ sem' = sem - 1
  /\ runs' = [runs EXCEPT ![r].pc = "released"]
  /\ UNCHANGED <<dbVars, cacheVars, running, loopVars, clientVars, callers>>

\* Mutant: the run is not stamped.
RunFinishUnstamped(r) ==
  LET id == runs[r].id IN
  /\ runs[r].pc = "released"
  /\ running' = [running EXCEPT ![id] = FALSE]
  /\ runs' = [runs EXCEPT ![r] = NoRun]
  /\ UNCHANGED <<dbVars, cacheVars, sem, loopVars, clientVars, callers>>

RunFinish(r) ==
  LET id == runs[r].id IN
  /\ runs[r].pc = "released"
  /\ running' = [running EXCEPT ![id] = FALSE]
  /\ lastRun' = [lastRun EXCEPT ![id] = "recent"]
  /\ runs' = [runs EXCEPT ![r] = NoRun]
  /\ UNCHANGED <<dbVars, trackers, snaps, sem, loopVars, clientVars, callers>>

-----------------------------------------------------------------------------
(***************************************************************************)
(* Time.  A pass compares against the one clock reading it starts with, so *)
(* nothing elapses, as far as runDue can see, while it is under way.       *)
(***************************************************************************)
IntervalElapses(id) ==
  /\ loop.pc = "select"
  /\ lastRun[id] = "recent"
  /\ lastRun' = [lastRun EXCEPT ![id] = "elapsed"]
  /\ UNCHANGED <<dbVars, trackers, snaps, runVars, loopVars, clientVars, callers>>

SpreadOver ==
  /\ loop.pc = "select"
  /\ ~spread
  /\ spread' = TRUE
  /\ UNCHANGED <<dbVars, cacheVars, runVars, loopVars, watchers, polled, callers>>

(***************************************************************************)
(* Clients: SSE subscribers, pollers, and the refresh button.              *)
(***************************************************************************)
Subscribe ==
  /\ watchers < MaxSubs
  /\ watchers' = watchers + 1
  /\ wake' = TRUE
  /\ UNCHANGED <<dbVars, cacheVars, runVars, loop, forceC, polled, spread, callers>>

Unsubscribe ==
  /\ watchers > 0
  /\ watchers' = watchers - 1
  /\ UNCHANGED <<dbVars, cacheVars, runVars, loopVars, polled, spread, callers>>

\* Only the first poll after a pause nudges the scheduler.
Poll ==
  /\ Polls
  /\ ~polled
  /\ polled' = TRUE
  /\ wake' = TRUE
  /\ UNCHANGED <<dbVars, cacheVars, runVars, loop, forceC, watchers, spread, callers>>

PollExpires ==
  /\ polled
  /\ polled' = FALSE
  /\ UNCHANGED <<dbVars, cacheVars, runVars, loopVars, watchers, spread, callers>>

\* Force never blocks: with the channel full the request is dropped.  The id
\* comes from the request path, so it need not name a tracker.
ForceRequest(id) ==
  /\ Forces
  /\ Len(forceC) < ForceCap
  /\ forceC' = Append(forceC, id)
  /\ UNCHANGED <<dbVars, cacheVars, runVars, loop, wake, clientVars, callers>>

-----------------------------------------------------------------------------
(***************************************************************************)
(* A crash keeps only the database.  main reconciles the --config file     *)
(* into the tracker table (a change of the table, or none), Start then     *)
(* reconciles the engine and loads the persisted snapshots of the trackers *)
(* it knows; errors of either are ignored.                                 *)
(***************************************************************************)
Boot(rows) ==
  /\ \/ trackers' = table' /\ wake' = TRUE
     \/ StoreErrors /\ trackers' = EmptyTable /\ wake' = FALSE
  /\ \/ snaps' = [id \in Ids |-> IF trackers'[id] # Absent THEN rows[id] ELSE Absent]
     \/ StoreErrors /\ snaps' = EmptyTable
  /\ lastRun' \in [Ids -> Ages]
  /\ \A id \in Ids : lastRun'[id] = "never" <=> snaps'[id] = Absent
  /\ running' = [id \in Ids |-> FALSE]
  /\ runs' = [r \in Runs |-> NoRun]
  /\ sem' = 0
  /\ loop' = AtSelect
  /\ forceC' = <<>>
  /\ watchers' = 0
  /\ polled' = FALSE
  /\ spread' = FALSE
  /\ callers' = [c \in Callers |-> NoCall]

Restart ==
  /\ Restarts
  /\ ChangeTable \/ UNCHANGED dbVars
  /\ Boot(snapRows')

\* The first start, on a database that already holds some trackers and no
\* snapshot.
Init ==
  /\ nextId \in 1 .. NumIds + 1
  /\ table \in {t \in Tables : \A id \in Present(t) : id < nextId}
  /\ snapRows = EmptyTable
  /\ trackers = table
  /\ snaps = EmptyTable
  /\ lastRun = [id \in Ids |-> "never"]
  /\ running = [id \in Ids |-> FALSE]
  /\ runs = [r \in Runs |-> NoRun]
  /\ sem = 0
  /\ loop = AtSelect
  /\ forceC = <<>>
  /\ wake = TRUE
  /\ watchers = 0
  /\ polled = FALSE
  /\ spread = FALSE
  /\ callers = [c \in Callers |-> NoCall]

Handlers == \E c \in Callers : Commit(c) \/ List(c) \/ ListError(c) \/ Apply(c)
Scheduler ==
  \/ LoopForce \/ LoopWake \/ LoopTick \/ Capture
  \/ \E id \in Ids : SkipNotDue(id) \/ \E r \in Runs : StartDue(id, r)
RunStep(r) ==
  RunAcquire(r) \/ RunCache(r) \/ RunPersist(r) \/ RunRelease(r) \/ RunFinish(r)
Time == SpreadOver \/ \E id \in Ids : IntervalElapses(id)
Clients ==
  \/ Subscribe \/ Unsubscribe \/ Poll \/ PollExpires
  \/ \E id \in 0 .. NumIds : ForceRequest(id)

Next ==
  \/ Handlers
  \/ Scheduler
  \/ \E r \in Runs : RunStep(r)
  \/ Time
  \/ Clients
  \/ Restart

Spec == Init /\ [][Next]_vars

(***************************************************************************)
(* Fairness.  Handlers and runs keep going (a plugin call ends within      *)
(* runTimeout); waiters on the semaphore channel are served in FIFO order; *)
(* Go's select picks at random among ready cases, so none of the three is  *)
(* passed over for ever; time passes.                                      *)
(***************************************************************************)
Fairness ==
  /\ \A c \in Callers : WF_vars(List(c)) /\ WF_vars(Apply(c))
  /\ SF_vars(LoopForce) /\ SF_vars(LoopWake) /\ SF_vars(LoopTick)
  /\ WF_vars(Capture)
  /\ \A id \in Ids : WF_vars(SkipNotDue(id) \/ \E r \in Runs : StartDue(id, r))
  /\ \A r \in Runs :
       /\ SF_vars(RunAcquire(r))
       /\ WF_vars(RunCache(r) \/ RunPersist(r) \/ RunRelease(r) \/ RunFinish(r))
  /\ SF_vars(SpreadOver)
  /\ \A id \in Ids : SF_vars(IntervalElapses(id))

FairSpec == Spec /\ Fairness

-----------------------------------------------------------------------------
(***************************************************************************)
(* Safety.                                                                 *)
(***************************************************************************)
DbOK == table \in Tables /\ nextId \in 1 .. NumIds + 1 /\ snapRows \in Tables
CacheOK == trackers \in Tables /\ snaps \in Tables /\ lastRun \in [Ids -> Ages]
RunsOK ==
  /\ running \in [Ids -> BOOLEAN]
  /\ runs \in [Runs -> RunStates]
  /\ sem \in 0 .. MaxConcurrent
LoopOK == loop \in LoopStates /\ forceC \in Seq(0 .. NumIds) /\ wake \in BOOLEAN
ClientsOK == watchers \in 0 .. MaxSubs /\ polled \in BOOLEAN /\ spread \in BOOLEAN
CallersOK == callers \in [Callers -> CallerStates]

\* Every variable stays in the set its Go type and its uses give it.
TypeOK == DbOK /\ CacheOK /\ RunsOK /\ LoopOK /\ ClientsOK /\ CallersOK

Active == {r \in Runs : runs[r].pc # "idle"}
Holding == {r \in Runs : runs[r].pc \in HoldingPCs}

\* No tracker is ever run twice at the same time, and the running map is
\* exactly the set of trackers with a runOne goroutine, although forced
\* passes, ticks and reconciles overlap with runs in flight (runDue, runOne).
SingleFlight ==
  /\ \A r1, r2 \in Active : runs[r1].id = runs[r2].id => r1 = r2
  /\ \A id \in Ids : running[id] <=> \E r \in Active : runs[r].id = id

\* The semaphore counts the runs between its two operations, so at most
\* MaxConcurrent plugin calls are under way (runOne's sem).
SlotsAccountedFor == sem = Cardinality(Holding)

\* A tracker that shows a snapshot and is not being run has a last run to
\* measure its interval from: neither a reconcile, a run ending after it, nor
\* a restart leaves a snapshot whose tracker counts as never run.
SnapshotHasLastRun ==
  \A id \in Present(snaps) : ~running[id] => lastRun[id] # "never"

\* With a store that does not fail, what is served for an existing tracker is
\* what a restart would load, once its run is over (SaveSnapshot after the
\* cache update, never two runs racing to save).
CacheIsDurable ==
  \A id \in Present(snaps) \cap Present(table) :
    ~running[id] => snapRows[id] = snaps[id]

\* Reconcile's purpose: when no handler is on its way through it, the engine
\* works with the tracker table as it is in the store.
InSync == (\A c \in Callers : callers[c].pc = "idle") => trackers = table

(***************************************************************************)
(* What the documentation says of reconciles and restarts.                 *)
(***************************************************************************)
\* "invalidate so it re-runs and isn't served stale against the old config"
\* (Reconcile): no snapshot of a configuration the engine no longer has.
NotServedStale ==
  \A id \in Present(snaps) \cap Present(trackers) : snaps[id] = trackers[id]

(***************************************************************************)
(* Liveness.                                                               *)
(***************************************************************************)
\* Once nobody edits trackers and somebody keeps watching, every tracker ends
\* up showing a result of its present configuration, whatever runs of older
\* ones were in flight (Reconcile, runDue, runOne).
EventuallyFresh ==
  <>[](Watched /\ \A c \in Callers : callers[c].pc = "idle")
    => <>[](\A id \in Present(table) : snaps[id] = table[id])

\* Presence gating: once everybody has left, and the forced requests are
\* served, all activity towards the upstream services dies out.
EventuallyQuiet ==
  <>[](~Watched /\ forceC = <<>>) => <>[](Active = {})

\* A forced request the engine accepted is served: its tracker is run (or was
\* being run) unless it is removed in the meantime, even with nobody watching.
ForceServed ==
  \A id \in Ids :
    (trackers[id] # Absent /\ \E k \in 1 .. Len(forceC) : forceC[k] = id)
      ~> (running[id] \/ trackers[id] = Absent)

-----------------------------------------------------------------------------
(***************************************************************************)
(* The engine implements RunSlots: a tracker's flight is where its run is. *)
(* A second run of the same tracker has no counterpart there.              *)
(***************************************************************************)
PhaseOf(pc) ==
  CASE pc = "queued"       -> "waiting"
    [] pc \in HoldingPCs   -> "inSlot"
    [] pc = "released"     -> "leaving"

RunsOf(id) == {r \in Active : runs[r].id = id}

Flight(id) ==
  IF RunsOf(id) = {} THEN "idle"
  ELSE IF \E r \in RunsOf(id) : RunsOf(id) = {r}
       THEN PhaseOf(runs[CHOOSE r \in RunsOf(id) : TRUE].pc)
       ELSE "twice"

Slots == INSTANCE RunSlots WITH
  Trackers <- Ids, flight <- [id \in Ids |-> Flight(id)]

\* Whatever the scheduler, the handlers and the clients do, runs come and go
\* as RunSlots says (runDue, runOne).
ImplementsRunSlots == Slots!Spec

\* And each of them gets its slot and ends.
ImplementsFairRunSlots == Slots!FairSpec
=============================================================================
