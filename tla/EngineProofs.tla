---------------------------- MODULE EngineProofs ----------------------------
(***************************************************************************)
(* Theorems about Engine for any number of trackers, configurations,       *)
(* handlers and slots, with a store that may fail and a process that may   *)
(* restart (unless a theorem says otherwise).                              *)
(***************************************************************************)
EXTENDS Engine, FiniteSetTheorems, SequenceTheorems, TLAPS

-----------------------------------------------------------------------------
(***************************************************************************)
(* The invariant everything else rests on: types, one run per tracker, the *)
(* semaphore, and that a pass only walks trackers of its own list.         *)
(***************************************************************************)
WalksItsList == loop.todo \subseteq Present(loop.list)

Base == TypeOK /\ WalksItsList /\ SingleFlight /\ SlotsAccountedFor

\* The record of a goroutine that is not idle.
LEMMA ActiveRun ==
  ASSUME RunsOK, NEW r \in Runs, runs[r].pc # "idle"
  PROVE  /\ runs[r].id \in Ids /\ runs[r].cfg \in Cfgs /\ runs[r].pc \in RunPCs
         /\ r \in Active
BY DEF RunsOK, RunStates, NoRun, Active

\* Holding is finite, so counting it makes sense.
LEMMA HoldingFinite == IsFiniteSet(Holding) /\ Cardinality(Holding) \in Nat
<1>1. Holding \in SUBSET Runs
  BY DEF Holding
<1>2. QED
  BY <1>1, NamesAssumption, FS_Subset, FS_CardinalityType

\* A step that leaves the goroutines alone keeps what is said of them.
LEMMA RunsUntouched ==
  ASSUME RunsOK, SingleFlight, SlotsAccountedFor, UNCHANGED runVars
  PROVE  RunsOK' /\ SingleFlight' /\ SlotsAccountedFor'
<1>1. runs' = runs /\ running' = running /\ sem' = sem
  BY DEF runVars
<1>2. Active' = Active /\ Holding' = Holding
  BY <1>1 DEF Active, Holding
<1>3. QED
  BY <1>1, <1>2 DEF RunsOK, SingleFlight, SlotsAccountedFor

LEMMA DbUntouched == ASSUME DbOK, UNCHANGED dbVars PROVE DbOK'
BY DEF DbOK, dbVars

LEMMA CacheUntouched == ASSUME CacheOK, UNCHANGED cacheVars PROVE CacheOK'
BY DEF CacheOK, cacheVars

LEMMA LoopUntouched ==
  ASSUME LoopOK, WalksItsList, UNCHANGED loopVars PROVE LoopOK' /\ WalksItsList'
BY DEF LoopOK, WalksItsList, Present, loopVars

LEMMA ClientsUntouched == ASSUME ClientsOK, UNCHANGED clientVars PROVE ClientsOK'
BY DEF ClientsOK, clientVars

\* The records the actions write belong to their types.
LEMMA Records ==
  /\ EmptyTable \in Tables /\ NoRun \in RunStates /\ NoCall \in CallerStates
  /\ AtSelect \in LoopStates /\ AtSelect.todo = {}
  /\ \A force \in BOOLEAN, only \in 0 .. NumIds :
       Entering(force, only) \in LoopStates /\ Entering(force, only).todo = {}
<1>1. EmptyTable \in Tables /\ NoRun \in RunStates /\ NoCall \in CallerStates
  BY DEF EmptyTable, Tables, RunStates, NoRun, NoCall, CallerStates
<1>2. AtSelect \in LoopStates /\ AtSelect.todo = {}
  BY <1>1, CountAssumption DEF AtSelect, LoopStates
<1>3. ASSUME NEW force \in BOOLEAN, NEW only \in 0 .. NumIds
      PROVE  Entering(force, only) \in LoopStates /\ Entering(force, only).todo = {}
  BY <1>1, CountAssumption DEF Entering, AtSelect, LoopStates
<1>4. QED
  BY <1>1, <1>2, <1>3

LEMMA InitBase == Init => Base
<1>1. SUFFICES ASSUME Init PROVE Base
  OBVIOUS
<1>2. Active = {} /\ Holding = {}
  BY <1>1 DEF Init, Active, Holding, NoRun, HoldingPCs
<1>3. DbOK /\ CacheOK
  BY <1>1, Records DEF Init, DbOK, CacheOK, Ages
<1>4. RunsOK
  BY <1>1, Records, CountAssumption DEF Init, RunsOK
<1>5. LoopOK /\ WalksItsList
  <2>1. wake \in BOOLEAN
    BY <1>1 DEF Init
  <2>2. forceC \in Seq(0 .. NumIds)
    BY <1>1 DEF Init
  <2>3. QED
    BY <1>1, <2>1, <2>2, Records DEF Init, LoopOK, WalksItsList
<1>6. ClientsOK
  <2>1. watchers \in 0 .. MaxSubs
    BY <1>1, CountAssumption DEF Init
  <2>2. polled \in BOOLEAN /\ spread \in BOOLEAN
    BY <1>1, Zenon DEF Init
  <2>3. QED
    BY <2>1, <2>2 DEF ClientsOK
<1>7. CallersOK
  BY <1>1, Records DEF Init, CallersOK
<1>8. SingleFlight /\ SlotsAccountedFor
  BY <1>1, <1>2, FS_EmptySet DEF Init, SingleFlight, SlotsAccountedFor
<1>9. QED
  BY <1>3, <1>4, <1>5, <1>6, <1>7, <1>8 DEF Base, TypeOK

-----------------------------------------------------------------------------
(***************************************************************************)
(* The steps of the handlers and of the scheduler.                         *)
(***************************************************************************)
LEMMA ChangeTableType ==
  ASSUME DbOK, ChangeTable PROVE DbOK'
<1>1. CASE \E cfg \in Cfgs : Create(cfg)
  BY <1>1, CountAssumption DEF DbOK, Create, Tables, Ids
<1>2. CASE \E id \in Ids, cfg \in Cfgs : Update(id, cfg)
  BY <1>2 DEF DbOK, Update, Tables
<1>3. ASSUME NEW gone, Delete(gone) PROVE DbOK'
  BY <1>3 DEF DbOK, Delete, Cascade, Tables
<1>4. ASSUME NEW n \in 0 .. NumIds, Document(n) PROVE DbOK'
  <2>1. /\ nextId' = nextId + n /\ nextId \in 1 .. NumIds + 1
        /\ nextId .. nextId + n - 1 \subseteq 1 .. NumIds /\ table' \in Tables
    BY <1>4 DEF Document, DbOK, Ids
  <2>2. n = 0 \/ nextId + n - 1 \in nextId .. nextId + n - 1
    BY <2>1, CountAssumption
  <2>3. nextId' \in 1 .. NumIds + 1
    BY <2>1, <2>2, CountAssumption
  <2>4. snapRows' \in Tables
    <3>1. PICK gone, enforced : snapRows' = Cascade(snapRows, gone, enforced)
      BY <1>4 DEF Document
    <3> QED
      BY <3>1 DEF DbOK, Cascade, Tables
  <2> QED
    BY <2>1, <2>3, <2>4 DEF DbOK
<1>5. QED
  BY <1>1, <1>2, <1>3, <1>4 DEF ChangeTable

LEMMA CommitStep ==
  ASSUME Base, NEW c \in Callers, Commit(c) PROVE Base'
<1>1. DbOK'
  BY ChangeTableType DEF Commit, Base, TypeOK
<1>2. CacheOK' /\ ClientsOK'
  BY CacheUntouched, ClientsUntouched DEF Commit, Base, TypeOK
<1>3. RunsOK' /\ SingleFlight' /\ SlotsAccountedFor'
  BY RunsUntouched DEF Commit, Base, TypeOK
<1>4. LoopOK' /\ WalksItsList'
  BY LoopUntouched DEF Commit, Base, TypeOK
<1>5. CallersOK'
  BY DEF Commit, Base, TypeOK, CallersOK, CallerStates
<1>6. QED
  BY <1>1, <1>2, <1>3, <1>4, <1>5 DEF Base, TypeOK

LEMMA ListStep ==
  ASSUME Base, NEW c \in Callers, List(c) \/ ListError(c) PROVE Base'
<1>1. DbOK' /\ CacheOK' /\ ClientsOK'
  BY DbUntouched, CacheUntouched, ClientsUntouched DEF List, ListError, Base, TypeOK
<1>2. RunsOK' /\ SingleFlight' /\ SlotsAccountedFor'
  BY RunsUntouched DEF List, ListError, Base, TypeOK
<1>3. LoopOK' /\ WalksItsList'
  BY LoopUntouched DEF List, ListError, Base, TypeOK
<1>4. CallersOK'
  BY Records DEF List, ListError, Base, TypeOK, CallersOK, CallerStates, DbOK
<1>5. QED
  BY <1>1, <1>2, <1>3, <1>4 DEF Base, TypeOK

LEMMA ApplyStep ==
  ASSUME Base, NEW c \in Callers, Apply(c) PROVE Base'
<1> DEFINE new == callers[c].list
<1>1. new \in Tables
  BY DEF Base, TypeOK, CallersOK, CallerStates
<1>2. CacheOK'
  BY <1>1 DEF Apply, Base, TypeOK, CacheOK, Tables, Ages
<1>3. DbOK' /\ ClientsOK'
  BY DbUntouched, ClientsUntouched DEF Apply, Base, TypeOK
<1>4. RunsOK' /\ SingleFlight' /\ SlotsAccountedFor'
  BY RunsUntouched DEF Apply, Base, TypeOK
<1>5. LoopOK' /\ WalksItsList'
  BY DEF Apply, Base, TypeOK, LoopOK, WalksItsList, Present
<1>6. CallersOK'
  BY Records DEF Apply, Base, TypeOK, CallersOK
<1>7. QED
  BY <1>2, <1>3, <1>4, <1>5, <1>6 DEF Base, TypeOK

\* What every scheduler step but StartDue leaves alone.
LEMMA SchedulerFrame ==
  ASSUME Base, UNCHANGED <<dbVars, cacheVars, runVars, clientVars, callers>>,
         LoopOK', WalksItsList'
  PROVE  Base'
<1>1. DbOK' /\ CacheOK' /\ ClientsOK'
  BY DbUntouched, CacheUntouched, ClientsUntouched DEF Base, TypeOK
<1>2. RunsOK' /\ SingleFlight' /\ SlotsAccountedFor'
  BY RunsUntouched DEF Base, TypeOK
<1>3. CallersOK'
  BY DEF Base, TypeOK, CallersOK
<1>4. QED
  BY <1>1, <1>2, <1>3 DEF Base, TypeOK

LEMMA LoopForceStep == ASSUME Base, LoopForce PROVE Base'
<1>1. Head(forceC) \in 0 .. NumIds /\ Tail(forceC) \in Seq(0 .. NumIds)
  <2>1. forceC \in Seq(0 .. NumIds) /\ forceC # <<>>
    BY DEF LoopForce, Base, TypeOK, LoopOK
  <2>2. QED
    BY <2>1, HeadTailProperties
<1>2. loop' \in LoopStates /\ loop'.todo = {}
  BY <1>1, Records DEF LoopForce
<1>3. LoopOK' /\ WalksItsList'
  BY <1>1, <1>2 DEF LoopForce, Base, TypeOK, LoopOK, WalksItsList
<1>4. QED
  BY <1>3, SchedulerFrame DEF LoopForce

LEMMA LoopWakeStep == ASSUME Base, LoopWake \/ LoopTick PROVE Base'
<1>1. Entering(FALSE, 0) \in LoopStates /\ Entering(FALSE, 0).todo = {}
  <2>1. 0 \in 0 .. NumIds /\ FALSE \in BOOLEAN
    BY CountAssumption
  <2>2. QED
    BY <2>1, Records, Zenon
<1>2. wake' \in BOOLEAN /\ forceC' = forceC
  BY DEF LoopWake, LoopTick, Base, TypeOK, LoopOK
<1>3. loop' = loop \/ loop' = Entering(FALSE, 0)
  BY DEF LoopWake, LoopTick
<1>4. LoopOK' /\ WalksItsList'
  BY <1>1, <1>2, <1>3 DEF Base, TypeOK, LoopOK, WalksItsList, Present
<1>5. QED
  BY <1>4, SchedulerFrame DEF LoopWake, LoopTick

LEMMA CaptureStep == ASSUME Base, Capture PROVE Base'
<1> DEFINE todo == {id \in Present(trackers) : loop.only \in {0, id}}
<1>1. CASE todo = {}
  <2>1. LoopOK' /\ WalksItsList'
    BY <1>1, Records DEF Capture, Base, TypeOK, LoopOK, WalksItsList
  <2>2. QED
    BY <2>1, SchedulerFrame DEF Capture
<1>2. CASE todo # {}
  <2>1. loop' = [loop EXCEPT !.pc = "pass", !.list = trackers, !.todo = todo]
    BY <1>2 DEF Capture
  <2>2. todo \in SUBSET Ids /\ trackers \in Tables
    BY DEF Present, Base, TypeOK, CacheOK
  <2>3. loop' \in LoopStates /\ loop'.todo = todo /\ loop'.list = trackers
    BY <2>1, <2>2 DEF Base, TypeOK, LoopOK, LoopStates
  <2>4. LoopOK' /\ WalksItsList'
    BY <2>3 DEF Capture, Base, TypeOK, LoopOK, WalksItsList, Present
  <2>5. QED
    BY <2>4, SchedulerFrame DEF Capture
<1>3. QED
  BY <1>1, <1>2

\* Going on to the next tracker of the list.
LEMMA WalkedType ==
  ASSUME LoopOK, WalksItsList, NEW id, loop' = Walked(id), UNCHANGED <<forceC, wake>>
  PROVE  LoopOK' /\ WalksItsList'
<1>1. CASE loop.todo = {id}
  BY <1>1, Records DEF Walked, LoopOK, WalksItsList
<1>2. CASE loop.todo # {id}
  BY <1>2 DEF Walked, LoopOK, LoopStates, WalksItsList, Present
<1>3. QED
  BY <1>1, <1>2

LEMMA SkipStep == ASSUME Base, NEW id \in Ids, SkipNotDue(id) PROVE Base'
<1>1. LoopOK' /\ WalksItsList'
  BY WalkedType DEF SkipNotDue, Base, TypeOK
<1>2. QED
  BY <1>1, SchedulerFrame DEF SkipNotDue

-----------------------------------------------------------------------------
(***************************************************************************)
(* The steps of the goroutines executing runOne.                           *)
(***************************************************************************)
\* The set of goroutines holding a slot after goroutine r moved to rec.
LEMMA HoldingAfterMove ==
  ASSUME RunsOK, NEW r \in Runs, NEW rec, runs' = [runs EXCEPT ![r] = rec]
  PROVE  Holding' = IF rec.pc \in HoldingPCs THEN Holding \cup {r} ELSE Holding \ {r}
BY DEF RunsOK, Holding

LEMMA StartDueStep ==
  ASSUME Base, NEW id \in Ids, NEW r \in Runs, StartDue(id, r) PROVE Base'
<1> DEFINE rec == [pc |-> "queued", id |-> id, cfg |-> loop.list[id]]
<1>1. loop.list[id] \in Cfgs
  BY DEF StartDue, NextInList, Base, TypeOK, LoopOK, LoopStates, WalksItsList, Present, Tables
<1>2. /\ runs[r].pc = "idle" /\ ~running[id]
      /\ runs' = [runs EXCEPT ![r] = rec]
      /\ running' = [running EXCEPT ![id] = TRUE]
      /\ UNCHANGED sem
  BY DEF StartDue, Spawn
<1>3. rec \in RunStates
  BY <1>1 DEF RunStates, RunPCs
<1>4. RunsOK'
  BY <1>2, <1>3 DEF Base, TypeOK, RunsOK
<1>5. SingleFlight'
  <2>1. Active' = Active \cup {r}
    BY <1>2 DEF Active, Base, TypeOK, RunsOK
  <2>2. \A s \in Active : runs[s].id # id
    BY <1>2 DEF Base, SingleFlight
  <2>3. r \notin Active
    BY <1>2 DEF Active
  <2>4. \A s \in Active : s \in Runs /\ runs'[s] = runs[s]
    BY <1>2, <2>3 DEF Active, Base, TypeOK, RunsOK
  <2>5. runs'[r].id = id
    BY <1>2 DEF Base, TypeOK, RunsOK
  <2>6. \A r1, r2 \in Active' : runs'[r1].id = runs'[r2].id => r1 = r2
    BY <2>1, <2>2, <2>4, <2>5 DEF Base, SingleFlight
  <2>7. ASSUME NEW other \in Ids
        PROVE  running'[other] <=> \E s \in Active' : runs'[s].id = other
    <3>1. CASE other = id
      <4>1. running'[id]
        BY <1>2 DEF Base, TypeOK, RunsOK
      <4>2. QED
        BY <3>1, <4>1, <2>1, <2>5
    <3>2. CASE other # id
      <4>1. running'[other] <=> running[other]
        BY <1>2, <3>2 DEF Base, TypeOK, RunsOK
      <4>2. QED
        BY <3>2, <4>1, <2>1, <2>4, <2>5 DEF Base, SingleFlight
    <3>3. QED
      BY <3>1, <3>2
  <2>8. QED
    BY <2>6, <2>7 DEF SingleFlight
<1>6. SlotsAccountedFor'
  <2>1. Holding' = Holding \ {r}
    BY <1>2, HoldingAfterMove DEF HoldingPCs, Base, TypeOK
  <2>2. r \notin Holding
    BY <1>2 DEF Holding, HoldingPCs
  <2>3. Holding' = Holding
    BY <2>1, <2>2
  <2>4. QED
    BY <1>2, <2>3 DEF Base, SlotsAccountedFor
<1>7. DbOK' /\ CacheOK' /\ ClientsOK' /\ CallersOK'
  BY DbUntouched, CacheUntouched, ClientsUntouched DEF StartDue, Base, TypeOK, CallersOK
<1>8. LoopOK' /\ WalksItsList'
  BY WalkedType DEF StartDue, Base, TypeOK
<1>9. QED
  BY <1>4, <1>5, <1>6, <1>7, <1>8 DEF Base, TypeOK

\* A run that goes on to its next step, and keeps its tracker busy.
LEMMA RunContinues ==
  ASSUME RunsOK, SingleFlight, NEW r \in Runs, NEW pc \in RunPCs,
         runs[r].pc # "idle",
         runs' = [runs EXCEPT ![r].pc = pc], UNCHANGED running
  PROVE  /\ runs' \in [Runs -> RunStates]
         /\ SingleFlight'
<1>1. \A s \in Runs : runs'[s].id = runs[s].id /\ (runs'[s].pc # "idle" <=> runs[s].pc # "idle")
  BY ActiveRun DEF RunsOK, RunStates, NoRun, RunPCs
<1>2. Active' = Active
  BY <1>1 DEF Active
<1>3. SingleFlight'
  BY <1>1, <1>2 DEF SingleFlight, Active
<1>4. runs' \in [Runs -> RunStates]
  BY ActiveRun DEF RunsOK, RunStates, NoRun
<1>5. QED
  BY <1>3, <1>4

\* The holders of a slot when goroutine r has gone on to pc.
LEMMA HoldingAfterPC ==
  ASSUME RunsOK, NEW r \in Runs, NEW pc \in RunPCs, runs[r].pc # "idle",
         runs' = [runs EXCEPT ![r].pc = pc]
  PROVE  Holding' = IF pc \in HoldingPCs THEN Holding \cup {r} ELSE Holding \ {r}
BY ActiveRun DEF RunsOK, RunStates, Holding

LEMMA RunAcquireStep == ASSUME Base, NEW r \in Runs, RunAcquire(r) PROVE Base'
<1>1. runs' = [runs EXCEPT ![r].pc = "calling"] /\ runs[r].pc = "queued"
  BY DEF RunAcquire
<1>2. "calling" \in RunPCs /\ "calling" \in HoldingPCs
  BY DEF RunPCs, HoldingPCs
<1>3. runs' \in [Runs -> RunStates] /\ SingleFlight'
  BY <1>1, <1>2, RunContinues DEF RunAcquire, Base, TypeOK
<1>4. Holding' = Holding \cup {r} /\ r \notin Holding
  BY <1>1, <1>2, HoldingAfterPC DEF Base, TypeOK, Holding, HoldingPCs
<1>5. SlotsAccountedFor'
  BY <1>4, HoldingFinite, FS_AddElement DEF RunAcquire, Base, SlotsAccountedFor
<1>6. RunsOK'
  BY <1>3, CountAssumption DEF RunAcquire, Base, TypeOK, RunsOK
<1>7. DbOK' /\ CacheOK' /\ ClientsOK' /\ CallersOK' /\ LoopOK' /\ WalksItsList'
  BY DbUntouched, CacheUntouched, ClientsUntouched, LoopUntouched
  DEF RunAcquire, Base, TypeOK, CallersOK
<1>8. QED
  BY <1>3, <1>5, <1>6, <1>7 DEF Base, TypeOK

LEMMA RunCacheStep == ASSUME Base, NEW r \in Runs, RunCache(r) PROVE Base'
<1>1. runs' = [runs EXCEPT ![r].pc = "cached"] /\ runs[r].pc = "calling"
  BY DEF RunCache
<1>2. "cached" \in RunPCs /\ "cached" \in HoldingPCs
  BY DEF RunPCs, HoldingPCs
<1>3. runs' \in [Runs -> RunStates] /\ SingleFlight'
  BY <1>1, <1>2, RunContinues DEF RunCache, Base, TypeOK
<1>4. Holding' = Holding
  BY <1>1, <1>2, HoldingAfterPC DEF Base, TypeOK, Holding, HoldingPCs
<1>5. RunsOK' /\ SlotsAccountedFor'
  BY <1>3, <1>4 DEF RunCache, Base, TypeOK, RunsOK, SlotsAccountedFor
<1>6. CacheOK'
  BY <1>1, ActiveRun DEF RunCache, Base, TypeOK, CacheOK, Tables
<1>7. DbOK' /\ ClientsOK' /\ CallersOK' /\ LoopOK' /\ WalksItsList'
  BY DbUntouched, ClientsUntouched, LoopUntouched DEF RunCache, Base, TypeOK, CallersOK
<1>8. QED
  BY <1>3, <1>5, <1>6, <1>7 DEF Base, TypeOK

LEMMA RunPersistStep == ASSUME Base, NEW r \in Runs, RunPersist(r) PROVE Base'
<1>1. runs' = [runs EXCEPT ![r].pc = "persisted"] /\ runs[r].pc = "cached"
  BY DEF RunPersist
<1>2. "persisted" \in RunPCs /\ "persisted" \in HoldingPCs
  BY DEF RunPCs, HoldingPCs
<1>3. runs' \in [Runs -> RunStates] /\ SingleFlight'
  BY <1>1, <1>2, RunContinues DEF RunPersist, Base, TypeOK
<1>4. Holding' = Holding
  BY <1>1, <1>2, HoldingAfterPC DEF Base, TypeOK, Holding, HoldingPCs
<1>5. RunsOK' /\ SlotsAccountedFor'
  BY <1>3, <1>4 DEF RunPersist, Base, TypeOK, RunsOK, SlotsAccountedFor
<1>6. DbOK'
  BY <1>1, ActiveRun DEF RunPersist, Base, TypeOK, DbOK, Tables
<1>7. CacheOK' /\ ClientsOK' /\ CallersOK' /\ LoopOK' /\ WalksItsList'
  BY CacheUntouched, ClientsUntouched, LoopUntouched DEF RunPersist, Base, TypeOK, CallersOK
<1>8. QED
  BY <1>3, <1>5, <1>6, <1>7 DEF Base, TypeOK

LEMMA RunReleaseStep == ASSUME Base, NEW r \in Runs, RunRelease(r) PROVE Base'
<1>1. runs' = [runs EXCEPT ![r].pc = "released"] /\ runs[r].pc = "persisted"
  BY DEF RunRelease
<1>2. "released" \in RunPCs /\ "released" \notin HoldingPCs
  BY DEF RunPCs, HoldingPCs
<1>3. runs' \in [Runs -> RunStates] /\ SingleFlight'
  BY <1>1, <1>2, RunContinues DEF RunRelease, Base, TypeOK
<1>4. Holding' = Holding \ {r} /\ r \in Holding
  BY <1>1, <1>2, HoldingAfterPC DEF Base, TypeOK, Holding, HoldingPCs
<1>5. Cardinality(Holding') = Cardinality(Holding) - 1 /\ Cardinality(Holding') \in Nat
  BY <1>4, HoldingFinite, FS_RemoveElement, FS_CardinalityType
<1>6. SlotsAccountedFor' /\ sem' \in 0 .. MaxConcurrent
  BY <1>5, CountAssumption DEF RunRelease, Base, TypeOK, RunsOK, SlotsAccountedFor
<1>7. RunsOK'
  BY <1>3, <1>6 DEF RunRelease, Base, TypeOK, RunsOK
<1>8. DbOK' /\ CacheOK' /\ ClientsOK' /\ CallersOK' /\ LoopOK' /\ WalksItsList'
  BY DbUntouched, CacheUntouched, ClientsUntouched, LoopUntouched
  DEF RunRelease, Base, TypeOK, CallersOK
<1>9. QED
  BY <1>3, <1>6, <1>7, <1>8 DEF Base, TypeOK

LEMMA RunFinishStep == ASSUME Base, NEW r \in Runs, RunFinish(r) PROVE Base'
<1> DEFINE id == runs[r].id
<1>1. /\ runs' = [runs EXCEPT ![r] = NoRun] /\ runs[r].pc = "released"
      /\ running' = [running EXCEPT ![id] = FALSE] /\ UNCHANGED sem
  BY DEF RunFinish
<1>2. id \in Ids /\ r \in Active
  BY <1>1, ActiveRun DEF Base, TypeOK
<1>3. RunsOK'
  BY <1>1, Records DEF Base, TypeOK, RunsOK
<1>4. SingleFlight'
  <2>1. Active' = Active \ {r}
    BY <1>1 DEF Active, NoRun, Base, TypeOK, RunsOK
  <2>2. \A s \in Active' : s \in Active /\ runs'[s] = runs[s]
    BY <1>1, <2>1 DEF Active, Base, TypeOK, RunsOK
  <2>3. \A s \in Active' : runs'[s].id # id
    BY <1>2, <2>1, <2>2 DEF Base, SingleFlight
  <2>4. ASSUME NEW other \in Ids
        PROVE  running'[other] <=> \E s \in Active' : runs'[s].id = other
    <3>1. CASE other = id
      <4>1. ~running'[id]
        BY <1>1, <1>2 DEF Base, TypeOK, RunsOK
      <4>2. QED
        BY <3>1, <4>1, <2>3
    <3>2. CASE other # id
      <4>1. running'[other] <=> running[other]
        BY <1>1, <3>2 DEF Base, TypeOK, RunsOK
      <4>2. QED
        BY <3>2, <4>1, <2>1, <2>2 DEF Base, SingleFlight
    <3>3. QED
      BY <3>1, <3>2
  <2>5. QED
    BY <2>2, <2>4 DEF SingleFlight, Base
<1>5. SlotsAccountedFor'
  <2>1. Holding' = Holding
    BY <1>1, HoldingAfterMove DEF HoldingPCs, NoRun, Holding, Base, TypeOK
  <2>2. QED
    BY <1>1, <2>1 DEF Base, SlotsAccountedFor
<1>6. CacheOK'
  BY <1>2 DEF RunFinish, Base, TypeOK, CacheOK, Ages
<1>7. DbOK' /\ ClientsOK' /\ CallersOK' /\ LoopOK' /\ WalksItsList'
  BY DbUntouched, ClientsUntouched, LoopUntouched DEF RunFinish, Base, TypeOK, CallersOK
<1>8. QED
  BY <1>3, <1>4, <1>5, <1>6, <1>7 DEF Base, TypeOK

-----------------------------------------------------------------------------
(***************************************************************************)
(* Time, clients, restarts; then the theorem.                              *)
(***************************************************************************)
LEMMA TimeStep == ASSUME Base, Time PROVE Base'
<1>1. CASE SpreadOver
  <2>1. ClientsOK'
    BY <1>1 DEF SpreadOver, Base, TypeOK, ClientsOK
  <2>2. DbOK' /\ CacheOK' /\ CallersOK' /\ LoopOK' /\ WalksItsList'
    BY <1>1, DbUntouched, CacheUntouched, LoopUntouched DEF SpreadOver, Base, TypeOK, CallersOK
  <2>3. RunsOK' /\ SingleFlight' /\ SlotsAccountedFor'
    BY <1>1, RunsUntouched DEF SpreadOver, Base, TypeOK
  <2>4. QED
    BY <2>1, <2>2, <2>3 DEF Base, TypeOK
<1>2. ASSUME NEW id \in Ids, IntervalElapses(id) PROVE Base'
  <2>1. CacheOK'
    BY <1>2 DEF IntervalElapses, Base, TypeOK, CacheOK, Ages
  <2>2. DbOK' /\ ClientsOK' /\ CallersOK' /\ LoopOK' /\ WalksItsList'
    BY <1>2, DbUntouched, ClientsUntouched, LoopUntouched
    DEF IntervalElapses, Base, TypeOK, CallersOK
  <2>3. RunsOK' /\ SingleFlight' /\ SlotsAccountedFor'
    BY <1>2, RunsUntouched DEF IntervalElapses, Base, TypeOK
  <2>4. QED
    BY <2>1, <2>2, <2>3 DEF Base, TypeOK
<1>3. QED
  BY <1>1, <1>2 DEF Time

LEMMA ClientStep == ASSUME Base, Clients PROVE Base'
<1>1. DbOK' /\ CacheOK' /\ CallersOK'
  BY DbUntouched, CacheUntouched
  DEF Clients, Subscribe, Unsubscribe, Poll, PollExpires, ForceRequest, Base, TypeOK, CallersOK
<1>2. RunsOK' /\ SingleFlight' /\ SlotsAccountedFor'
  BY RunsUntouched
  DEF Clients, Subscribe, Unsubscribe, Poll, PollExpires, ForceRequest, Base, TypeOK
<1>3. ClientsOK'
  <2>1. CASE Subscribe
    BY <2>1, CountAssumption DEF Subscribe, Base, TypeOK, ClientsOK
  <2>2. CASE Unsubscribe
    BY <2>2, CountAssumption DEF Unsubscribe, Base, TypeOK, ClientsOK
  <2>3. CASE Poll \/ PollExpires
    BY <2>3 DEF Poll, PollExpires, Base, TypeOK, ClientsOK
  <2>4. CASE \E id \in 0 .. NumIds : ForceRequest(id)
    BY <2>4, ClientsUntouched DEF ForceRequest, Base, TypeOK
  <2>5. QED
    BY <2>1, <2>2, <2>3, <2>4 DEF Clients
<1>4. LoopOK'
  <2>1. wake' \in BOOLEAN
    BY DEF Clients, Subscribe, Unsubscribe, Poll, PollExpires, ForceRequest, Base, TypeOK, LoopOK, loopVars
  <2>2. forceC' \in Seq(0 .. NumIds)
    <3>1. CASE \E id \in 0 .. NumIds : ForceRequest(id)
      BY <3>1, AppendProperties DEF ForceRequest, Base, TypeOK, LoopOK
    <3>2. CASE UNCHANGED forceC
      BY <3>2 DEF Base, TypeOK, LoopOK
    <3>3. QED
      BY <3>1, <3>2 DEF Clients, Subscribe, Unsubscribe, Poll, PollExpires, loopVars
  <2>3. loop' = loop
    BY DEF Clients, Subscribe, Unsubscribe, Poll, PollExpires, ForceRequest, loopVars
  <2>4. QED
    BY <2>1, <2>2, <2>3 DEF Base, TypeOK, LoopOK
<1>5. WalksItsList'
  BY DEF Clients, Subscribe, Unsubscribe, Poll, PollExpires, ForceRequest, loopVars,
         Base, WalksItsList, Present
<1>6. QED
  BY <1>1, <1>2, <1>3, <1>4, <1>5 DEF Base, TypeOK

LEMMA RestartStep == ASSUME Base, Restart PROVE Base'
<1>1. DbOK'
  BY ChangeTableType, DbUntouched DEF Restart, Base, TypeOK
<1>2. CacheOK'
  BY <1>1, Records DEF Restart, Boot, CacheOK, DbOK, Tables
<1>3. Active' = {} /\ Holding' = {}
  BY DEF Restart, Boot, Active, Holding, NoRun, HoldingPCs
<1>4. RunsOK' /\ SingleFlight' /\ SlotsAccountedFor'
  BY <1>3, Records, FS_EmptySet, CountAssumption
  DEF Restart, Boot, RunsOK, SingleFlight, SlotsAccountedFor
<1>5. wake' \in BOOLEAN
  BY DEF Restart, Boot
<1>6. LoopOK' /\ WalksItsList'
  BY <1>5, Records DEF Restart, Boot, LoopOK, WalksItsList
<1>7. ClientsOK'
  <2>1. watchers' \in 0 .. MaxSubs
    BY CountAssumption DEF Restart, Boot
  <2>2. polled' \in BOOLEAN /\ spread' \in BOOLEAN
    BY Zenon DEF Restart, Boot
  <2>3. QED
    BY <2>1, <2>2 DEF ClientsOK
<1>8. CallersOK'
  BY Records DEF Restart, Boot, CallersOK
<1>9. QED
  BY <1>1, <1>2, <1>4, <1>6, <1>7, <1>8 DEF Base, TypeOK

\* Every step of the engine keeps Base.
LEMMA NextBase == Base /\ [Next]_vars => Base'
<1>1. SUFFICES ASSUME Base, [Next]_vars PROVE Base'
  OBVIOUS
<1>2. CASE Handlers
  BY <1>1, <1>2, CommitStep, ListStep, ApplyStep DEF Handlers
<1>3. CASE Scheduler
  BY <1>1, <1>3, LoopForceStep, LoopWakeStep, CaptureStep, SkipStep, StartDueStep DEF Scheduler
<1>4. ASSUME NEW r \in Runs, RunStep(r) PROVE Base'
  BY <1>1, <1>4, RunAcquireStep, RunCacheStep, RunPersistStep, RunReleaseStep, RunFinishStep
  DEF RunStep
<1>5. CASE UNCHANGED vars
  <2>1. loop' = loop /\ UNCHANGED <<dbVars, cacheVars, runVars, loopVars, clientVars, callers>>
    BY <1>5 DEF vars, loopVars
  <2>2. LoopOK' /\ WalksItsList'
    BY <1>1, <2>1, LoopUntouched DEF Base, TypeOK
  <2>3. QED
    BY <1>1, <2>1, <2>2, SchedulerFrame
<1>6. QED
  BY <1>1, <1>2, <1>3, <1>4, <1>5, TimeStep, ClientStep, RestartStep DEF Next

\* Base holds throughout.
THEOREM BaseInvariant == Spec => []Base
BY InitBase, NextBase, PTL DEF Spec

\* Every variable keeps its type: in particular the semaphore never counts
\* below zero or beyond its capacity.
THEOREM TypeCorrect == Spec => []TypeOK
BY BaseInvariant, PTL DEF Base

\* runDue and runOne never run a tracker twice at once, and the running map
\* tells exactly which trackers are being run.
THEOREM NeverTwice == Spec => []SingleFlight
BY BaseInvariant, PTL DEF Base

\* The semaphore counts exactly the runs between their receive and send.
THEOREM SlotsNeverLeak == Spec => []SlotsAccountedFor
BY BaseInvariant, PTL DEF Base

-----------------------------------------------------------------------------
(***************************************************************************)
(* The engine implements RunSlots, for any number of trackers, goroutines  *)
(* and slots: what it promises the upstream services about its runs.       *)
(***************************************************************************)
\* The phase of a tracker with a goroutine is that of the goroutine.
LEMMA FlightOfRun ==
  ASSUME SingleFlight, NEW r \in Active
  PROVE  Flight(runs[r].id) = PhaseOf(runs[r].pc)
<1>1. RunsOf(runs[r].id) = {r}
  BY DEF RunsOf, SingleFlight
<1>2. (CHOOSE s \in RunsOf(runs[r].id) : TRUE) = r
  BY <1>1
<1>3. \E s \in RunsOf(runs[r].id) : RunsOf(runs[r].id) = {s}
  BY <1>1
<1>4. RunsOf(runs[r].id) # {}
  BY <1>1
<1>5. QED
  BY <1>2, <1>3, <1>4 DEF Flight

LEMMA FlightOfIdle ==
  ASSUME NEW id, \A r \in Active : runs[r].id # id
  PROVE  Flight(id) = "idle"
BY DEF Flight, RunsOf

LEMMA Phases ==
  /\ PhaseOf("queued") = "waiting" /\ PhaseOf("released") = "leaving"
  /\ \A pc \in HoldingPCs : PhaseOf(pc) = "inSlot"
BY DEF PhaseOf, HoldingPCs

\* Every tracker in a slot has a goroutine of its own that holds one.
LEMMA InSlotHolds ==
  ASSUME RunsOK, SingleFlight, NEW id, Flight(id) = "inSlot"
  PROVE  \E r \in Holding : runs[r].id = id
<1>1. PICK r \in Active : runs[r].id = id
  BY FlightOfIdle
<1>2. runs[r].pc \in RunPCs /\ r \in Runs
  BY ActiveRun DEF Active
<1>3. PhaseOf(runs[r].pc) = "inSlot"
  BY <1>1, FlightOfRun
<1>4. runs[r].pc \in HoldingPCs
  BY <1>2, <1>3, Phases DEF RunPCs, HoldingPCs
<1>5. QED
  BY <1>1, <1>2, <1>4 DEF Holding

\* The instance has a copy of Cardinality of its own.
LEMMA SameCardinality == ASSUME NEW S PROVE Slots!Cardinality(S) = Cardinality(S)
BY Zenon DEF Slots!Cardinality, Cardinality

\* So a free place in the semaphore is a free slot.
LEMMA SlotsWithinSemaphore ==
  ASSUME Base
  PROVE  IsFiniteSet(Slots!InSlot) /\ Cardinality(Slots!InSlot) <= sem
<1> DEFINE holder == [id \in Slots!InSlot |-> CHOOSE r \in Holding : runs[r].id = id]
<1>1. \A id \in Slots!InSlot : Flight(id) = "inSlot"
  BY DEF Slots!InSlot
<1>2. \A id \in Slots!InSlot : holder[id] \in Holding /\ runs[holder[id]].id = id
  BY <1>1, InSlotHolds DEF Base, TypeOK
<1>3. holder \in Injection(Slots!InSlot, Holding)
  BY <1>2 DEF Injection, IsInjective
<1>4. IsFiniteSet(Slots!InSlot) /\ Cardinality(Slots!InSlot) <= Cardinality(Holding)
  BY <1>3, HoldingFinite, FS_Injection
<1>5. QED
  BY <1>4 DEF Base, SlotsAccountedFor

-----------------------------------------------------------------------------
\* The trackers other than the one whose goroutine moves stay where they are.
FlightVar == [id \in Ids |-> Flight(id)]

LEMMA OthersStay ==
  ASSUME RunsOK, NEW r \in Runs, NEW id \in Ids, NEW other \in Ids, other # id,
         r \in Active => runs[r].id = id,
         r \in Active' => runs'[r].id = id,
         \A s \in Runs \ {r} : runs'[s] = runs[s]
  PROVE  Flight(other)' = Flight(other)
<1>1. RunsOf(other)' = RunsOf(other)
  BY DEF RunsOf, Active
<1>2. \A s \in RunsOf(other) : runs'[s] = runs[s]
  BY DEF RunsOf, Active
<1>3. CASE RunsOf(other) = {}
  BY <1>1, <1>3 DEF Flight
<1>4. CASE RunsOf(other) # {}
  <2>1. (CHOOSE s \in RunsOf(other) : TRUE) \in RunsOf(other)
    BY <1>4
  <2>2. (CHOOSE s \in RunsOf(other)' : TRUE) = (CHOOSE s \in RunsOf(other) : TRUE)
    BY <1>1
  <2>3. \A s \in RunsOf(other) : PhaseOf(runs[s].pc)' = PhaseOf(runs[s].pc)
    BY <1>2 DEF PhaseOf
  <2>4. QED
    BY <1>1, <2>1, <2>2, <2>3, <1>2, <1>4 DEF Flight
<1>5. QED
  BY <1>3, <1>4

LEMMA FlightsMove ==
  ASSUME NEW id \in Ids, NEW from, NEW to, Flight(id) = from, Flight(id)' = to,
         \A other \in Ids : other # id => Flight(other)' = Flight(other)
  PROVE  Slots!Move(id, from, to)
BY DEF Slots!Move

LEMMA RunMapped ==
  ASSUME Base, Base', NEW r \in Runs, RunStep(r)
  PROVE  Slots!Next \/ UNCHANGED FlightVar
<1>1. runs[r].pc # "idle"
  BY DEF RunStep, RunAcquire, RunCache, RunPersist, RunRelease, RunFinish
<1>2. PICK id \in Ids : r \in Active /\ runs[r].id = id
  BY <1>1, ActiveRun DEF Base, TypeOK
<1>3. Flight(id) = PhaseOf(runs[r].pc)
  BY <1>2, FlightOfRun DEF Base
<1>4. ASSUME NEW pc \in RunPCs, runs' = [runs EXCEPT ![r].pc = pc]
      PROVE  /\ Flight(id)' = PhaseOf(pc)
             /\ \A other \in Ids : other # id => Flight(other)' = Flight(other)
  <2>1. runs'[r].pc = pc /\ runs'[r].id = id /\ \A s \in Runs \ {r} : runs'[s] = runs[s]
    BY <1>2, <1>4, ActiveRun DEF Base, TypeOK, RunsOK, RunStates
  <2>2. r \in Active'
    BY <2>1 DEF Active, RunPCs
  <2>3. Flight(id)' = PhaseOf(pc)
    <3>1. RunsOf(id)' = {r}
      BY <2>1, <2>2 DEF Base, SingleFlight, RunsOf
    <3>2. (CHOOSE s \in RunsOf(id)' : TRUE) = r
      BY <3>1
    <3>3. \E s \in RunsOf(id)' : RunsOf(id)' = {s}
      BY <3>1
    <3>4. RunsOf(id)' # {}
      BY <3>1
    <3>5. QED
      BY <2>1, <3>2, <3>3, <3>4 DEF Flight, PhaseOf
  <2>4. \A other \in Ids : other # id => Flight(other)' = Flight(other)
    BY <1>2, <2>1, OthersStay DEF Base, TypeOK
  <2>5. QED
    BY <2>3, <2>4
<1>5. CASE RunAcquire(r)
  <2>1. runs' = [runs EXCEPT ![r].pc = "calling"] /\ runs[r].pc = "queued" /\ sem < MaxConcurrent
    BY <1>5 DEF RunAcquire
  <2>2. "calling" \in RunPCs /\ "calling" \in HoldingPCs
    BY DEF RunPCs, HoldingPCs
  <2>3. Slots!Move(id, "waiting", "inSlot")
    <3>1. Flight(id) = "waiting" /\ Flight(id)' = "inSlot"
      BY <1>3, <1>4, <2>1, <2>2, Phases
    <3>2. \A other \in Ids : other # id => Flight(other)' = Flight(other)
      BY <1>4, <2>1, <2>2
    <3>3. QED
      BY <3>1, <3>2, FlightsMove
  <2>4. Cardinality(Slots!InSlot) < MaxConcurrent
    <3>1. Cardinality(Slots!InSlot) \in Nat /\ sem \in Nat /\ MaxConcurrent \in Nat
      BY SlotsWithinSemaphore, FS_CardinalityType, CountAssumption DEF Base, TypeOK, RunsOK
    <3>2. QED
      BY <2>1, <3>1, SlotsWithinSemaphore
  <2>5. Slots!Enter(id)
    BY <2>3, <2>4, SameCardinality DEF Slots!Enter
  <2>6. QED
    BY <1>2, <2>5 DEF Slots!Next
<1>6. CASE RunCache(r) \/ RunPersist(r)
  <2>1. PICK pc \in {"cached", "persisted"} : runs' = [runs EXCEPT ![r].pc = pc]
    BY <1>6 DEF RunCache, RunPersist
  <2>2. pc \in RunPCs /\ pc \in HoldingPCs /\ runs[r].pc \in HoldingPCs
    BY <1>6 DEF RunPCs, HoldingPCs, RunCache, RunPersist
  <2>3. Flight(id)' = Flight(id)
    BY <1>3, <1>4, <2>1, <2>2, Phases
  <2>4. \A other \in Ids : other # id => Flight(other)' = Flight(other)
    BY <1>4, <2>1, <2>2
  <2>5. QED
    BY <2>3, <2>4 DEF FlightVar
<1>7. CASE RunRelease(r)
  <2>1. runs' = [runs EXCEPT ![r].pc = "released"] /\ runs[r].pc = "persisted"
    BY <1>7 DEF RunRelease
  <2>2. "released" \in RunPCs /\ "persisted" \in HoldingPCs
    BY DEF RunPCs, HoldingPCs
  <2>3. Slots!Move(id, "inSlot", "leaving")
    <3>1. Flight(id) = "inSlot" /\ Flight(id)' = "leaving"
      BY <1>3, <1>4, <2>1, <2>2, Phases
    <3>2. \A other \in Ids : other # id => Flight(other)' = Flight(other)
      BY <1>4, <2>1, <2>2
    <3>3. QED
      BY <3>1, <3>2, FlightsMove
  <2>4. QED
    BY <1>2, <2>3 DEF Slots!Next, Slots!Leave
<1>8. CASE RunFinish(r)
  <2>1. runs' = [runs EXCEPT ![r] = NoRun] /\ runs[r].pc = "released"
    BY <1>8 DEF RunFinish
  <2>2. r \notin Active' /\ \A s \in Runs \ {r} : runs'[s] = runs[s]
    BY <2>1 DEF Active, NoRun, Base, TypeOK, RunsOK
  <2>3. \A s \in Active' : runs'[s].id # id
    <3>1. ~running'[id]
      BY <1>2, <1>8 DEF RunFinish, Base, TypeOK, RunsOK
    <3>2. QED
      BY <1>2, <3>1 DEF Base, SingleFlight
  <2>4. Flight(id)' = "idle"
    BY <2>3 DEF Flight, RunsOf
  <2>5. \A other \in Ids : other # id => Flight(other)' = Flight(other)
    BY <1>2, <2>2, OthersStay DEF Base, TypeOK
  <2>6. Slots!Move(id, "leaving", "idle")
    <3>1. Flight(id) = "leaving"
      BY <1>3, <2>1, Phases
    <3>2. QED
      BY <2>4, <2>5, <3>1, FlightsMove
  <2>7. QED
    BY <1>2, <2>6 DEF Slots!Next, Slots!Finish
<1>9. QED
  BY <1>5, <1>6, <1>7, <1>8 DEF RunStep

LEMMA StartMapped ==
  ASSUME Base, Base', NEW id \in Ids, NEW r \in Runs, StartDue(id, r)
  PROVE  Slots!Next
<1>1. /\ runs[r].pc = "idle" /\ ~running[id]
      /\ runs' = [runs EXCEPT ![r] = [pc |-> "queued", id |-> id, cfg |-> loop.list[id]]]
  BY DEF StartDue, Spawn
<1>2. r \notin Active /\ runs'[r].pc = "queued" /\ runs'[r].id = id
  BY <1>1 DEF Active, Base, TypeOK, RunsOK
<1>3. \A s \in Runs \ {r} : runs'[s] = runs[s]
  BY <1>1 DEF Base, TypeOK, RunsOK
<1>4. Flight(id) = "idle"
  BY <1>1, FlightOfIdle DEF Base, SingleFlight
<1>5. Flight(id)' = "waiting"
  <2>1. r \in Active'
    BY <1>2 DEF Active
  <2>2. RunsOf(id)' = {r}
    BY <1>2, <2>1 DEF Base, SingleFlight, RunsOf
  <2>3. (CHOOSE s \in RunsOf(id)' : TRUE) = r
    BY <2>2
  <2>4. \E s \in RunsOf(id)' : RunsOf(id)' = {s}
    BY <2>2
  <2>5. RunsOf(id)' # {}
    BY <2>2
  <2>6. QED
    BY <1>2, <2>3, <2>4, <2>5 DEF Flight, PhaseOf, HoldingPCs
<1>6. \A other \in Ids : other # id => Flight(other)' = Flight(other)
  BY <1>2, <1>3, OthersStay DEF Base, TypeOK
<1>7. Slots!Move(id, "idle", "waiting")
  BY <1>4, <1>5, <1>6, FlightsMove
<1>8. Slots!Start(id)
  BY <1>7 DEF Slots!Start
<1>9. QED
  BY <1>8 DEF Slots!Next

\* A step that leaves the goroutines alone leaves the flights alone.
LEMMA FlightsUntouched ==
  ASSUME runs' = runs PROVE UNCHANGED FlightVar
<1>1. \A id \in Ids : RunsOf(id)' = RunsOf(id)
  BY DEF RunsOf, Active
<1>2. \A id \in Ids : Flight(id)' = Flight(id)
  BY <1>1 DEF Flight
<1>3. QED
  BY <1>2 DEF FlightVar

LEMMA CrashMapped == ASSUME Restart PROVE Slots!Crash
<1>1. Active' = {}
  BY DEF Restart, Boot, Active, NoRun
<1>2. \A id \in Ids : Flight(id)' = "idle"
  BY <1>1 DEF Flight, RunsOf
<1>3. QED
  BY <1>2 DEF Slots!Crash

LEMMA StepMapped ==
  Base /\ Base' /\ [Next]_vars => [Slots!Next]_FlightVar
<1>1. SUFFICES ASSUME Base, Base', [Next]_vars
               PROVE  Slots!Next \/ UNCHANGED FlightVar
  BY DEF FlightVar
<1>2. CASE Handlers
  BY <1>2, FlightsUntouched DEF Handlers, Commit, List, ListError, Apply, runVars
<1>3. CASE Scheduler
  <2>1. CASE \E id \in Ids, r \in Runs : StartDue(id, r)
    BY <1>1, <2>1, StartMapped
  <2>2. CASE runs' = runs
    BY <2>2, FlightsUntouched
  <2>3. QED
    BY <1>3, <2>1, <2>2
    DEF Scheduler, LoopForce, LoopWake, LoopTick, Capture, SkipNotDue, runVars
<1>4. CASE \E r \in Runs : RunStep(r)
  BY <1>1, <1>4, RunMapped
<1>5. CASE Time \/ Clients \/ UNCHANGED vars
  BY <1>5, FlightsUntouched
  DEF Time, SpreadOver, IntervalElapses, Clients, Subscribe, Unsubscribe, Poll, PollExpires,
      ForceRequest, vars, runVars
<1>6. CASE Restart
  BY <1>6, CrashMapped DEF Slots!Next
<1>7. QED
  BY <1>1, <1>2, <1>3, <1>4, <1>5, <1>6 DEF Next

\* Whatever ticks, forced requests, handlers and restarts do, the runs of the
\* engine are those of RunSlots: one per tracker, in at most MaxConcurrent
\* slots, each going through its phases in order.
THEOREM EngineImplementsRunSlots == Spec => ImplementsRunSlots
<1>1. Init => Slots!Init
  <2>1. SUFFICES ASSUME Init PROVE Slots!Init
    OBVIOUS
  <2>2. Active = {}
    BY <2>1 DEF Init, Active, NoRun
  <2>3. \A id \in Ids : Flight(id) = "idle"
    BY <2>2, FlightOfIdle
  <2>4. QED
    BY <2>3 DEF Slots!Init
<1>2. Base /\ Base' /\ [Next]_vars => [Slots!Next]_FlightVar
  BY StepMapped
<1>3. QED
  BY <1>1, <1>2, BaseInvariant, PTL DEF Spec, ImplementsRunSlots, Slots!Spec, FlightVar

-----------------------------------------------------------------------------
(***************************************************************************)
(* A snapshot always comes with a last run.                                *)
(***************************************************************************)
LEMMA InitLastRun == Init => SnapshotHasLastRun
BY DEF Init, SnapshotHasLastRun, Present, EmptyTable

\* Steps that touch neither the cache nor the running map.
LEMMA LastRunUntouched ==
  ASSUME SnapshotHasLastRun, snaps' = snaps, lastRun' = lastRun, running' = running
  PROVE  SnapshotHasLastRun'
BY DEF SnapshotHasLastRun, Present

LEMMA ApplyLastRun ==
  ASSUME Base, SnapshotHasLastRun, NEW c \in Callers, Apply(c)
  PROVE  SnapshotHasLastRun'
<1> DEFINE new == callers[c].list
<1>1. SUFFICES ASSUME NEW id \in Ids, snaps'[id] # Absent, ~running'[id]
               PROVE  lastRun'[id] # "never"
  BY DEF SnapshotHasLastRun, Present
<1>2. /\ snaps' = [i \in Ids |-> IF i \in Invalid(new) THEN Absent ELSE snaps[i]]
      /\ lastRun' = [i \in Ids |-> IF i \in Invalid(new) THEN "never" ELSE lastRun[i]]
      /\ running' = running
  BY DEF Apply, runVars
<1>3. id \notin Invalid(new)
  BY <1>1, <1>2
<1>4. snaps[id] # Absent /\ ~running[id] /\ lastRun'[id] = lastRun[id]
  BY <1>1, <1>2, <1>3
<1>5. QED
  BY <1>4 DEF SnapshotHasLastRun, Present

LEMMA RunLastRun ==
  ASSUME Base, SnapshotHasLastRun, NEW r \in Runs, RunStep(r)
  PROVE  SnapshotHasLastRun'
<1>1. CASE RunAcquire(r) \/ RunPersist(r) \/ RunRelease(r)
  BY <1>1, LastRunUntouched DEF RunAcquire, RunPersist, RunRelease, cacheVars
<1>2. CASE RunCache(r)
  <2>1. runs[r].id \in Ids /\ r \in Active
    BY <1>2, ActiveRun DEF RunCache, Base, TypeOK
  <2>2. running[runs[r].id]
    BY <2>1 DEF Base, SingleFlight
  <2>3. \A id \in Ids : id # runs[r].id => snaps'[id] = snaps[id]
    BY <1>2 DEF RunCache, Base, TypeOK, CacheOK, Tables
  <2>4. lastRun' = lastRun /\ running' = running
    BY <1>2 DEF RunCache
  <2>5. QED
    BY <2>2, <2>3, <2>4 DEF SnapshotHasLastRun, Present
<1>3. CASE RunFinish(r)
  <2> DEFINE id == runs[r].id
  <2>1. /\ lastRun' = [lastRun EXCEPT ![id] = "recent"]
        /\ running' = [running EXCEPT ![id] = FALSE]
        /\ snaps' = snaps
    BY <1>3 DEF RunFinish
  <2>2. SUFFICES ASSUME NEW other \in Ids, snaps'[other] # Absent, ~running'[other]
                 PROVE  lastRun'[other] # "never"
    BY DEF SnapshotHasLastRun, Present
  <2>3. CASE other = id
    BY <2>1, <2>3 DEF Base, TypeOK, CacheOK
  <2>4. CASE other # id
    <3>1. lastRun'[other] = lastRun[other] /\ running'[other] = running[other]
      BY <2>1, <2>4 DEF Base, TypeOK, CacheOK, RunsOK
    <3>2. QED
      BY <2>1, <2>2, <3>1 DEF SnapshotHasLastRun, Present
  <2>5. QED
    BY <2>3, <2>4
<1>4. QED
  BY <1>1, <1>2, <1>3 DEF RunStep

LEMMA SchedulerLastRun ==
  ASSUME Base, SnapshotHasLastRun, Scheduler
  PROVE  SnapshotHasLastRun'
<1>1. ASSUME NEW id \in Ids, NEW r \in Runs, StartDue(id, r)
      PROVE  SnapshotHasLastRun'
  <2>1. snaps' = snaps /\ lastRun' = lastRun /\ running' = [running EXCEPT ![id] = TRUE]
    BY <1>1 DEF StartDue, Spawn, cacheVars
  <2>2. \A other \in Ids : ~running'[other] => ~running[other]
    BY <2>1 DEF Base, TypeOK, RunsOK
  <2>3. QED
    BY <2>1, <2>2 DEF SnapshotHasLastRun, Present
<1>2. CASE LoopForce \/ LoopWake \/ LoopTick \/ Capture
  BY <1>2, LastRunUntouched DEF LoopForce, LoopWake, LoopTick, Capture, cacheVars, runVars
<1>3. ASSUME NEW id \in Ids, SkipNotDue(id) PROVE SnapshotHasLastRun'
  BY <1>3, LastRunUntouched DEF SkipNotDue, cacheVars, runVars
<1>4. QED
  BY <1>1, <1>2, <1>3 DEF Scheduler

LEMMA NextLastRun == Base /\ SnapshotHasLastRun /\ [Next]_vars => SnapshotHasLastRun'
<1>1. SUFFICES ASSUME Base, SnapshotHasLastRun, [Next]_vars PROVE SnapshotHasLastRun'
  OBVIOUS
<1>2. ASSUME NEW c \in Callers, Commit(c) \/ List(c) \/ ListError(c)
      PROVE  SnapshotHasLastRun'
  BY <1>1, <1>2, LastRunUntouched DEF Commit, List, ListError, cacheVars, runVars
<1>3. CASE Handlers
  BY <1>1, <1>2, <1>3, ApplyLastRun DEF Handlers
<1>4. CASE Clients \/ SpreadOver \/ UNCHANGED vars
  BY <1>1, <1>4, LastRunUntouched
  DEF Clients, Subscribe, Unsubscribe, Poll, PollExpires, ForceRequest, SpreadOver,
      vars, cacheVars, runVars
<1>5. ASSUME NEW id \in Ids, IntervalElapses(id) PROVE SnapshotHasLastRun'
  BY <1>1, <1>5
  DEF IntervalElapses, SnapshotHasLastRun, Present, runVars, Base, TypeOK, CacheOK
<1>6. CASE Restart
  BY <1>6 DEF Restart, Boot, SnapshotHasLastRun, Present
<1>7. QED
  BY <1>1, <1>3, <1>4, <1>5, <1>6, SchedulerLastRun, RunLastRun DEF Next, Time

\* No reconcile, late run or restart leaves a tracker with a snapshot and no
\* last run: it would be run again before its interval is over.
THEOREM SnapshotsAreDated == Spec => []SnapshotHasLastRun
<1>1. Init => SnapshotHasLastRun
  BY InitLastRun
<1>2. Base /\ SnapshotHasLastRun /\ [Next]_vars => SnapshotHasLastRun'
  BY NextLastRun
<1>3. QED
  BY <1>1, <1>2, BaseInvariant, PTL DEF Spec

-----------------------------------------------------------------------------
(***************************************************************************)
(* With one handler at a time and a store that does not fail, the engine   *)
(* ends up with the tracker table.  (With two it does not: see the run     *)
(* engine_two_handlers.)                                                   *)
(***************************************************************************)
OneAtATime == (\A c, d \in Callers : c = d) /\ ~StoreErrors

\* What handler c has still to do is all that is missing.
ViewFollows ==
  /\ InSync
  /\ \A c \in Callers : callers[c].pc = "apply" => callers[c].list = table

LEMMA ViewUntouched ==
  ASSUME ViewFollows, callers' = callers, table' = table, trackers' = trackers
  PROVE  ViewFollows'
BY DEF ViewFollows, InSync

LEMMA HandlersView ==
  ASSUME OneAtATime, Base, ViewFollows, Handlers PROVE ViewFollows'
<1>1. PICK c \in Callers : Commit(c) \/ List(c) \/ ListError(c) \/ Apply(c)
  BY DEF Handlers
<1>2. \A d \in Callers : d = c
  BY DEF OneAtATime
<1>3. CASE Commit(c)
  <2>1. callers' = [callers EXCEPT ![c].pc = "list"]
    BY <1>3 DEF Commit, OneAtATime
  <2>2. callers'[c].pc = "list"
    BY <2>1 DEF Base, TypeOK, CallersOK, CallerStates
  <2>3. QED
    BY <1>2, <2>2 DEF ViewFollows, InSync
<1>4. CASE List(c)
  <2>1. callers'[c] = [pc |-> "apply", list |-> table] /\ table' = table
    BY <1>4 DEF List, Base, TypeOK, CallersOK, dbVars
  <2>2. QED
    BY <1>2, <2>1 DEF ViewFollows, InSync
<1>5. CASE Apply(c)
  <2>1. trackers' = table /\ table' = table
    BY <1>5 DEF Apply, ViewFollows, dbVars
  <2>2. callers'[c].pc = "idle"
    BY <1>5 DEF Apply, Base, TypeOK, CallersOK, NoCall
  <2>3. QED
    BY <1>2, <2>1, <2>2 DEF ViewFollows, InSync
<1>6. QED
  BY <1>1, <1>3, <1>4, <1>5 DEF ListError, OneAtATime

LEMMA NextView ==
  ASSUME OneAtATime PROVE Base /\ ViewFollows /\ [Next]_vars => ViewFollows'
<1>1. SUFFICES ASSUME Base, ViewFollows, [Next]_vars PROVE ViewFollows'
  OBVIOUS
<1>2. CASE Restart
  <2>1. trackers' = table' /\ \A c \in Callers : callers'[c].pc = "idle"
    BY <1>2 DEF Restart, Boot, OneAtATime, NoCall
  <2>2. QED
    BY <2>1 DEF ViewFollows, InSync
<1>3. CASE Scheduler
  BY <1>1, <1>3, ViewUntouched
  DEF Scheduler, LoopForce, LoopWake, LoopTick, Capture, SkipNotDue, StartDue, dbVars, cacheVars
<1>4. ASSUME NEW r \in Runs, RunStep(r) PROVE ViewFollows'
  BY <1>1, <1>4, ViewUntouched
  DEF RunStep, RunAcquire, RunCache, RunPersist, RunRelease, RunFinish, dbVars, cacheVars
<1>5. CASE Time \/ Clients \/ UNCHANGED vars
  BY <1>1, <1>5, ViewUntouched
  DEF Time, SpreadOver, IntervalElapses, Clients, Subscribe, Unsubscribe, Poll, PollExpires,
      ForceRequest, vars, dbVars, cacheVars
<1>6. QED
  BY <1>1, <1>2, <1>3, <1>4, <1>5, HandlersView DEF Next

\* Handlers that do not overlap keep the engine's tracker set equal to the
\* stored one, through every interleaving with runs, passes and restarts.
THEOREM EngineFollowsStore == ASSUME OneAtATime PROVE Spec => []InSync
<1>1. Init => ViewFollows
  BY DEF Init, ViewFollows, InSync, NoCall
<1>2. Base /\ ViewFollows /\ [Next]_vars => ViewFollows'
  BY NextView
<1>3. ViewFollows => InSync
  BY DEF ViewFollows
<1>4. QED
  BY <1>1, <1>2, <1>3, BaseInvariant, PTL DEF Spec

-----------------------------------------------------------------------------
(***************************************************************************)
(* What is cached is what a restart would load.  AUTOINCREMENT matters: an *)
(* id that was never handed out is unknown everywhere.                     *)
(***************************************************************************)
Handed(t) == \A id \in Present(t) : id < nextId

IdsHandedOut ==
  /\ Handed(table) /\ Handed(trackers) /\ Handed(snaps) /\ Handed(loop.list)
  /\ \A c \in Callers : Handed(callers[c].list)
  /\ \A r \in Active : runs[r].id < nextId

Saving(id) == \E r \in Active : runs[r].id = id /\ runs[r].pc = "cached"

RowsFollow ==
  /\ \A r \in Active :
       runs[r].pc = "cached" => snaps[runs[r].id] \in {Absent, runs[r].cfg}
  /\ \A id \in Present(snaps) \cap Present(table) :
       Saving(id) \/ snapRows[id] = snaps[id]

Durable == IdsHandedOut /\ RowsFollow

LEMMA InitDurable == Init => Durable
<1>1. SUFFICES ASSUME Init PROVE Durable
  OBVIOUS
<1>2. Active = {} /\ Present(snaps) = {} /\ Present(EmptyTable) = {}
  BY <1>1 DEF Init, Active, NoRun, Present, EmptyTable
<1>3. Handed(table) /\ Handed(trackers)
  BY <1>1 DEF Init, Handed
<1>4. \A c \in Callers : callers[c].list = EmptyTable
  BY <1>1 DEF Init, NoCall
<1>5. loop.list = EmptyTable
  BY <1>1 DEF Init, AtSelect
<1>6. QED
  BY <1>2, <1>3, <1>4, <1>5 DEF Durable, IdsHandedOut, RowsFollow, Handed

\* A change of the table neither revives an id nor touches the rows of the
\* trackers that stay.
LEMMA ChangeTableKeeps ==
  ASSUME Base, IdsHandedOut, ChangeTable
  PROVE  /\ nextId' \in Nat /\ nextId \in Nat /\ nextId <= nextId'
         /\ \A id \in Present(table') : id < nextId'
         /\ \A id \in Present(table') \ Present(table) : nextId <= id
         /\ \A id \in Present(table') \cap Present(table) : snapRows'[id] = snapRows[id]
<1>1. nextId \in Nat /\ Ids \subseteq Nat /\ DbOK
  BY CountAssumption DEF Base, TypeOK, DbOK, Ids
<1>2. CASE \E cfg \in Cfgs : Create(cfg)
  <2>1. /\ nextId' = nextId + 1 /\ snapRows' = snapRows
        /\ \A id \in Ids : id # nextId => table'[id] = table[id]
    BY <1>1, <1>2 DEF Create, DbOK, Tables
  <2>2. \A id \in Present(table') : id \in Nat /\ (id = nextId \/ id \in Present(table))
    BY <1>1, <2>1 DEF Present
  <2>3. \A id \in Present(table') : id < nextId'
    BY <1>1, <2>1, <2>2 DEF IdsHandedOut, Handed
  <2>4. QED
    BY <1>1, <2>1, <2>2, <2>3
<1>3. CASE \E id \in Ids, cfg \in Cfgs : Update(id, cfg)
  <2>1. /\ nextId' = nextId /\ snapRows' = snapRows
        /\ Present(table') \subseteq Present(table)
    BY <1>1, <1>3 DEF Update, DbOK, Tables, Present
  <2>2. QED
    BY <1>1, <2>1 DEF IdsHandedOut, Handed
<1>4. ASSUME NEW gone, Delete(gone)
      PROVE  /\ nextId' = nextId
             /\ Present(table') \subseteq Present(table)
             /\ \A id \in Present(table') : snapRows'[id] = snapRows[id]
  <2>1. /\ nextId' = nextId
        /\ table' = [id \in Ids |-> IF id \in gone THEN Absent ELSE table[id]]
    BY <1>4 DEF Delete
  <2>2. PICK enforced \in Enforced : snapRows' = Cascade(snapRows, gone, enforced)
    BY <1>4 DEF Delete
  <2>3. \A id \in Present(table') : id \in Ids /\ id \notin gone /\ table[id] # Absent
    BY <2>1 DEF Present
  <2>4. QED
    BY <2>1, <2>2, <2>3 DEF Cascade, Present
<1>5. CASE \E gone : Delete(gone)
  BY <1>1, <1>4, <1>5 DEF IdsHandedOut, Handed
<1>6. ASSUME NEW n \in 0 .. NumIds, Document(n)
      PROVE  /\ nextId' = nextId + n
             /\ \A id \in Present(table') :
                  \/ id \in Present(table) /\ id < nextId /\ snapRows'[id] = snapRows[id]
                  \/ id \notin Present(table) /\ nextId <= id /\ id < nextId'
  <2> DEFINE born == nextId .. nextId + n - 1
             gone == Present(table) \ Present(table')
  <2>1. nextId' = nextId + n /\ Present(table') \subseteq Present(table) \cup born
    BY <1>6 DEF Document
  <2>2. PICK enforced \in Enforced : snapRows' = Cascade(snapRows, gone, enforced)
    BY <1>6 DEF Document
  <2>3. \A id \in Present(table) : id \in Nat /\ id < nextId
    BY <1>1 DEF IdsHandedOut, Handed, Present
  <2>4. \A id \in born : nextId <= id /\ id < nextId' /\ id \notin Present(table)
    BY <1>1, <2>1, <2>3
  <2>5. \A id \in Present(table) : id \in Present(table') => snapRows'[id] = snapRows[id]
    BY <2>2 DEF Cascade, Present
  <2> HIDE DEF born
  <2> QED
    BY <2>1, <2>3, <2>4, <2>5
<1>7. CASE \E n \in 0 .. NumIds : Document(n)
  <2>1. PICK n \in 0 .. NumIds : Document(n)
    BY <1>7
  <2>2. \A id \in Present(table') : id \in Nat
    BY <1>1 DEF Present
  <2> QED
    BY <1>1, <1>6, <2>1, <2>2
<1>8. QED
  BY <1>2, <1>3, <1>5, <1>7 DEF ChangeTable

LEMMA CommitDurable ==
  ASSUME Base, Durable, NEW c \in Callers, Commit(c)
  PROVE  Durable'
<1>1. /\ nextId' \in Nat /\ nextId \in Nat /\ nextId <= nextId'
      /\ \A id \in Present(table') : id < nextId'
      /\ \A id \in Present(table') \ Present(table) : nextId <= id
      /\ \A id \in Present(table') \cap Present(table) : snapRows'[id] = snapRows[id]
  BY ChangeTableKeeps DEF Commit, Durable
<1>2. /\ trackers' = trackers /\ snaps' = snaps /\ loop' = loop /\ runs' = runs
      /\ Active' = Active
  BY DEF Commit, cacheVars, runVars, loopVars, Active
<1>3. \A d \in Callers : callers'[d].list = callers[d].list
  BY DEF Commit, Base, TypeOK, CallersOK, CallerStates
<1>4. Ids \subseteq Nat
  BY CountAssumption DEF Ids
<1>5. ASSUME NEW t, Handed(t) PROVE \A id \in Present(t) : id < nextId'
  <2>1. nextId' \in Nat /\ nextId \in Nat /\ nextId <= nextId'
    BY <1>1
  <2>2. QED
    BY <1>4, <1>5, <2>1 DEF Handed, Present
<1>6. ASSUME NEW r \in Active PROVE runs[r].id < nextId'
  <2>1. runs[r].id \in Nat
    BY <1>4, ActiveRun DEF Base, TypeOK, Active
  <2>2. runs[r].id < nextId
    BY DEF Durable, IdsHandedOut
  <2>3. QED
    BY <1>1, <2>1, <2>2
<1>7. IdsHandedOut'
  <2>1. /\ \A id \in Present(trackers) : id < nextId'
        /\ \A id \in Present(snaps) : id < nextId'
        /\ \A id \in Present(loop.list) : id < nextId'
        /\ \A d \in Callers : \A id \in Present(callers[d].list) : id < nextId'
    BY <1>5 DEF Durable, IdsHandedOut
  <2>2. QED
    BY <1>1, <1>2, <1>3, <1>6, <2>1 DEF IdsHandedOut, Handed, Present
<1>8. RowsFollow'
  <2>1. ASSUME NEW id \in Present(snaps) PROVE ~(nextId <= id)
    <3>1. id \in Nat /\ nextId \in Nat /\ id < nextId
      BY <1>1, <1>4 DEF Durable, IdsHandedOut, Handed, Present
    <3>2. QED
      BY <3>1
  <2>2. \A id \in Present(snaps) \cap Present(table') : id \in Present(table)
    BY <1>1, <2>1
  <2>3. \A id : Saving(id)' <=> Saving(id)
    BY <1>2 DEF Saving
  <2>4. Present(snaps)' = Present(snaps) /\ Present(table)' = Present(table')
    BY <1>2 DEF Present
  <2>5. QED
    BY <1>1, <1>2, <2>2, <2>3, <2>4 DEF Durable, RowsFollow
<1>9. QED
  BY <1>7, <1>8 DEF Durable

\* A step that touches neither the tables, the cache, the runs nor a list.
LEMMA DurableUntouched ==
  ASSUME Durable, UNCHANGED <<dbVars, trackers, snaps, runs, callers>>, loop'.list = loop.list
  PROVE  Durable'
<1>1. table' = table /\ nextId' = nextId /\ snapRows' = snapRows
  BY DEF dbVars
<1>2. Active' = Active
  BY DEF Active
<1>3. QED
  BY <1>1, <1>2 DEF Durable, IdsHandedOut, RowsFollow, Handed, Saving, Present

LEMMA ListDurable ==
  ASSUME Base, Durable, NEW c \in Callers, List(c) \/ ListError(c)
  PROVE  Durable'
<1>1. /\ table' = table /\ nextId' = nextId /\ snapRows' = snapRows
      /\ trackers' = trackers /\ snaps' = snaps /\ runs' = runs /\ loop' = loop
  BY DEF List, ListError, dbVars, cacheVars, runVars, loopVars
<1>2. Active' = Active
  BY <1>1 DEF Active
<1>3. \A d \in Callers : callers'[d].list \in {callers[d].list, table, EmptyTable}
  BY DEF List, ListError, Base, TypeOK, CallersOK, NoCall
<1>4. Present(EmptyTable) = {}
  BY DEF Present, EmptyTable
<1>5. \A d \in Callers : Handed(callers'[d].list)
  BY <1>3, <1>4 DEF Durable, IdsHandedOut, Handed
<1>6. QED
  BY <1>1, <1>2, <1>5 DEF Durable, IdsHandedOut, RowsFollow, Handed, Saving, Present

LEMMA ApplyDurable ==
  ASSUME Base, Durable, NEW c \in Callers, Apply(c)
  PROVE  Durable'
<1> DEFINE new == callers[c].list
<1>1. /\ table' = table /\ nextId' = nextId /\ snapRows' = snapRows
      /\ trackers' = new /\ runs' = runs /\ loop' = loop
  BY DEF Apply, dbVars, runVars
<1>2. Active' = Active
  BY <1>1 DEF Active
<1>3. \A id \in Ids : snaps'[id] \in {Absent, snaps[id]}
  BY DEF Apply
<1>4. \A d \in Callers : callers'[d].list \in {callers[d].list, EmptyTable}
  BY DEF Apply, Base, TypeOK, CallersOK, NoCall
<1>5. Present(EmptyTable) = {} /\ Handed(new)
  BY DEF Present, EmptyTable, Durable, IdsHandedOut
<1>6. \A d \in Callers : Handed(callers'[d].list)
  BY <1>4, <1>5 DEF Durable, IdsHandedOut, Handed
<1>7. Present(snaps') \subseteq Present(snaps) /\ \A id \in Present(snaps') : snaps'[id] = snaps[id]
  BY <1>3 DEF Present
<1>8. IdsHandedOut'
  BY <1>1, <1>2, <1>5, <1>6, <1>7 DEF Durable, IdsHandedOut, Handed, Present
<1>9. RowsFollow'
  <2>1. \A r \in Active : runs[r].id \in Ids
    BY ActiveRun DEF Base, TypeOK, Active
  <2>2. ASSUME NEW r \in Active', runs'[r].pc = "cached"
        PROVE  snaps'[runs'[r].id] \in {Absent, runs'[r].cfg}
    BY <1>1, <1>2, <1>3, <2>1, <2>2 DEF Durable, RowsFollow
  <2>3. ASSUME NEW id \in Present(snaps') \cap Present(table')
        PROVE  Saving(id)' \/ snapRows'[id] = snaps'[id]
    BY <1>1, <1>2, <1>7, <2>3 DEF Durable, RowsFollow, Saving
  <2>4. QED
    BY <2>2, <2>3 DEF RowsFollow, Present
<1>10. QED
  BY <1>8, <1>9 DEF Durable

LEMMA CaptureDurable ==
  ASSUME Base, Durable, Capture PROVE Durable'
<1>1. UNCHANGED <<dbVars, trackers, snaps, runs, callers>>
  BY DEF Capture, cacheVars, runVars
<1>2. loop'.list = trackers \/ loop'.list = EmptyTable
  BY DEF Capture, AtSelect, Base, TypeOK, LoopOK, LoopStates
<1>3. Present(EmptyTable) = {}
  BY DEF Present, EmptyTable
<1>4. Handed(loop'.list)
  BY <1>2, <1>3 DEF Durable, IdsHandedOut, Handed
<1>5. Active' = Active /\ nextId' = nextId /\ table' = table /\ snapRows' = snapRows
  BY <1>1 DEF Active, dbVars
<1>6. QED
  BY <1>1, <1>4, <1>5 DEF Durable, IdsHandedOut, RowsFollow, Handed, Saving, Present

\* Entering a pass and leaving it forget the list or keep it.
LEMMA ListForgotten ==
  ASSUME Base, Durable, UNCHANGED <<dbVars, trackers, snaps, callers>>,
         loop'.list \in {loop.list, EmptyTable}
  PROVE  /\ Handed(table)' /\ Handed(trackers)' /\ Handed(snaps)' /\ Handed(loop.list)'
         /\ \A c \in Callers : Handed(callers[c].list)'
         /\ nextId' = nextId
<1>1. Present(EmptyTable) = {}
  BY DEF Present, EmptyTable
<1>2. table' = table /\ nextId' = nextId
  BY DEF dbVars
<1>3. QED
  BY <1>1, <1>2 DEF Durable, IdsHandedOut, Handed, Present

LEMMA WalkDurable ==
  ASSUME Base, Durable,
         UNCHANGED <<dbVars, trackers, snaps, runs, callers>>,
         loop'.list \in {loop.list, EmptyTable}
  PROVE  Durable'
<1>1. Active' = Active /\ table' = table /\ snapRows' = snapRows
  BY DEF Active, dbVars
<1>2. IdsHandedOut'
  BY <1>1, ListForgotten DEF Durable, IdsHandedOut
<1>3. RowsFollow'
  BY <1>1 DEF Durable, RowsFollow, Saving, Present
<1>4. QED
  BY <1>2, <1>3 DEF Durable

LEMMA StartDueDurable ==
  ASSUME Base, Durable, NEW id \in Ids, NEW r \in Runs, StartDue(id, r)
  PROVE  Durable'
<1> DEFINE rec == [pc |-> "queued", id |-> id, cfg |-> loop.list[id]]
<1>1. UNCHANGED <<dbVars, trackers, snaps, callers>> /\ table' = table /\ snapRows' = snapRows
  BY DEF StartDue, cacheVars, dbVars
<1>2. loop'.list \in {loop.list, EmptyTable}
  BY DEF StartDue, Walked, AtSelect, Base, TypeOK, LoopOK, LoopStates
<1>3. runs[r].pc = "idle" /\ runs' = [runs EXCEPT ![r] = rec]
  BY DEF StartDue, Spawn
<1>4. /\ Active' = Active \cup {r} /\ r \notin Active /\ runs'[r] = rec
      /\ \A s \in Active : runs'[s] = runs[s]
  BY <1>3 DEF Active, Base, TypeOK, RunsOK
<1>5. id < nextId
  BY DEF StartDue, NextInList, Base, WalksItsList, Durable, IdsHandedOut, Handed
<1>6. IdsHandedOut'
  BY <1>1, <1>2, <1>4, <1>5, ListForgotten DEF Durable, IdsHandedOut
<1>7. \A other : Saving(other) => Saving(other)'
  BY <1>4 DEF Saving
<1>8. RowsFollow'
  BY <1>1, <1>4, <1>7 DEF Durable, RowsFollow, Present
<1>9. QED
  BY <1>6, <1>8 DEF Durable

LEMMA SchedulerDurable ==
  ASSUME Base, Durable, Scheduler PROVE Durable'
<1>1. CASE LoopForce \/ LoopWake \/ LoopTick
  <2>1. UNCHANGED <<dbVars, trackers, snaps, runs, callers>>
    BY <1>1 DEF LoopForce, LoopWake, LoopTick, cacheVars, runVars
  <2>2. loop'.list \in {loop.list, EmptyTable}
    BY <1>1 DEF LoopForce, LoopWake, LoopTick, Entering, AtSelect
  <2>3. QED
    BY <2>1, <2>2, WalkDurable
<1>2. ASSUME NEW id \in Ids, SkipNotDue(id) PROVE Durable'
  <2>1. UNCHANGED <<dbVars, trackers, snaps, runs, callers>>
    BY <1>2 DEF SkipNotDue, cacheVars, runVars
  <2>2. loop'.list \in {loop.list, EmptyTable}
    BY <1>2 DEF SkipNotDue, Walked, AtSelect, Base, TypeOK, LoopOK, LoopStates
  <2>3. QED
    BY <2>1, <2>2, WalkDurable
<1>3. QED
  BY <1>1, <1>2, CaptureDurable, StartDueDurable DEF Scheduler

\* A goroutine that goes on without changing what is cached or saved, and is
\* not on its way to save something.
LEMMA RunMovesOn ==
  ASSUME Base, Durable, NEW r \in Runs, NEW pc \in RunPCs \ {"cached"},
         runs[r].pc \notin {"idle", "cached"},
         runs' = [runs EXCEPT ![r].pc = pc],
         UNCHANGED <<dbVars, trackers, snaps, loopVars, callers>>
  PROVE  Durable'
<1>1. /\ table' = table /\ nextId' = nextId /\ snapRows' = snapRows
      /\ snaps' = snaps /\ trackers' = trackers /\ loop' = loop /\ callers' = callers
  BY DEF dbVars, loopVars
<1>2. /\ Active' = Active /\ runs'[r].pc = pc /\ runs'[r].id = runs[r].id
      /\ \A s \in Active : s # r => runs'[s] = runs[s]
  BY ActiveRun DEF Active, Base, TypeOK, RunsOK, RunStates, RunPCs, NoRun
<1>3. \A s \in Active : runs'[s].id = runs[s].id
  BY <1>2
<1>4. \A id : Saving(id) => Saving(id)'
  BY <1>2 DEF Saving
<1>5. \A s \in Active : runs'[s].pc = "cached" => s # r
  BY <1>2
<1>6. IdsHandedOut'
  BY <1>1, <1>2, <1>3 DEF Durable, IdsHandedOut, Handed, Present
<1>7. RowsFollow'
  BY <1>1, <1>2, <1>4, <1>5 DEF Durable, RowsFollow, Present
<1>8. QED
  BY <1>6, <1>7 DEF Durable

LEMMA RunCacheDurable ==
  ASSUME Base, Durable, NEW r \in Runs, RunCache(r) PROVE Durable'
<1> DEFINE id == runs[r].id
<1>1. /\ table' = table /\ nextId' = nextId /\ snapRows' = snapRows
      /\ trackers' = trackers /\ loop' = loop /\ callers' = callers
      /\ snaps' = [snaps EXCEPT ![id] = runs[r].cfg]
      /\ runs' = [runs EXCEPT ![r].pc = "cached"] /\ runs[r].pc = "calling"
  BY DEF RunCache, dbVars, loopVars
<1>2. r \in Active /\ id \in Ids
  BY <1>1, ActiveRun DEF Base, TypeOK
<1>3. /\ Active' = Active /\ runs'[r].pc = "cached" /\ runs'[r].id = id
      /\ runs'[r].cfg = runs[r].cfg
      /\ \A s \in Active : s # r => runs'[s] = runs[s]
  BY <1>1, ActiveRun DEF Active, Base, TypeOK, RunsOK, RunStates, RunPCs, NoRun
<1>4. /\ snaps'[id] = runs[r].cfg
      /\ \A other \in Ids : other # id => snaps'[other] = snaps[other]
  BY <1>1, <1>2 DEF Base, TypeOK, CacheOK, Tables
<1>5. \A s \in Active : s # r => runs[s].id # id /\ runs[s].id \in Ids
  BY <1>2, ActiveRun DEF Base, SingleFlight, TypeOK, Active
<1>6. \A other \in Present(snaps') : other < nextId
  <2>1. id < nextId
    BY <1>2 DEF Durable, IdsHandedOut
  <2>2. QED
    BY <1>4, <2>1 DEF Durable, IdsHandedOut, Handed, Present
<1>7. \A s \in Active : runs'[s].id = runs[s].id
  BY <1>3
<1>8. IdsHandedOut'
  BY <1>1, <1>3, <1>6, <1>7 DEF Durable, IdsHandedOut, Handed, Present
<1>9. RowsFollow'
  <2>1. ASSUME NEW s \in Active', runs'[s].pc = "cached"
        PROVE  snaps'[runs'[s].id] \in {Absent, runs'[s].cfg}
    <3>1. CASE s = r
      BY <1>3, <1>4, <3>1
    <3>2. CASE s # r
      BY <1>3, <1>4, <1>5, <2>1, <3>2 DEF Durable, RowsFollow
    <3>3. QED
      BY <3>1, <3>2
  <2>2. ASSUME NEW other \in Present(snaps') \cap Present(table')
        PROVE  Saving(other)' \/ snapRows'[other] = snaps'[other]
    <3>1. CASE other = id
      BY <1>2, <1>3, <3>1 DEF Saving
    <3>2. CASE other # id
      <4>1. other \in Present(snaps) \cap Present(table)
        BY <1>1, <1>4, <3>2 DEF Present
      <4>2. Saving(other) => Saving(other)'
        BY <1>3, <3>2 DEF Saving
      <4>3. QED
        BY <1>1, <1>4, <3>2, <4>1, <4>2 DEF Durable, RowsFollow, Present
    <3>3. QED
      BY <3>1, <3>2
  <2>3. QED
    BY <2>1, <2>2 DEF RowsFollow, Present
<1>10. QED
  BY <1>8, <1>9 DEF Durable

LEMMA RunPersistDurable ==
  ASSUME ~StoreErrors, Base, Durable, NEW r \in Runs, RunPersist(r) PROVE Durable'
<1> DEFINE id == runs[r].id
<1>1. /\ table' = table /\ nextId' = nextId /\ snaps' = snaps
      /\ trackers' = trackers /\ loop' = loop /\ callers' = callers
      /\ runs' = [runs EXCEPT ![r].pc = "persisted"] /\ runs[r].pc = "cached"
  BY DEF RunPersist, cacheVars, loopVars
<1>2. r \in Active /\ id \in Ids
  BY <1>1, ActiveRun DEF Base, TypeOK
<1>3. /\ Active' = Active /\ runs'[r].pc = "persisted" /\ runs'[r].id = id
      /\ \A s \in Active : s # r => runs'[s] = runs[s]
  BY <1>1, ActiveRun DEF Active, Base, TypeOK, RunsOK, RunStates, RunPCs, NoRun
<1>4. \A other \in Ids : other # id => snapRows'[other] = snapRows[other]
  BY DEF RunPersist, Base, TypeOK, DbOK, Tables
<1>5. table[id] # Absent => snapRows'[id] = runs[r].cfg
  BY <1>2 DEF RunPersist, MayFailToSave, Base, TypeOK, DbOK, Tables
<1>6. \A s \in Active : s # r => runs[s].id # id
  BY <1>2 DEF Base, SingleFlight
<1>7. \A s \in Active : runs'[s].id = runs[s].id
  BY <1>3
<1>8. IdsHandedOut'
  BY <1>1, <1>3, <1>7 DEF Durable, IdsHandedOut, Handed, Present
<1>9. RowsFollow'
  <2>1. ASSUME NEW s \in Active', runs'[s].pc = "cached"
        PROVE  snaps'[runs'[s].id] \in {Absent, runs'[s].cfg}
    BY <1>1, <1>3, <2>1 DEF Durable, RowsFollow
  <2>2. ASSUME NEW other \in Present(snaps') \cap Present(table')
        PROVE  Saving(other)' \/ snapRows'[other] = snaps'[other]
    <3>1. CASE other = id
      <4>1. snaps[id] = runs[r].cfg
        BY <1>1, <1>2, <3>1 DEF Durable, RowsFollow, Present
      <4>2. QED
        BY <1>1, <1>5, <3>1, <4>1 DEF Present
    <3>2. CASE other # id
      <4>1. Saving(other) => Saving(other)'
        BY <1>3, <3>2 DEF Saving
      <4>2. QED
        BY <1>1, <1>4, <3>2, <4>1 DEF Durable, RowsFollow, Present
    <3>3. QED
      BY <3>1, <3>2
  <2>3. QED
    BY <2>1, <2>2 DEF RowsFollow, Present
<1>10. QED
  BY <1>8, <1>9 DEF Durable

LEMMA RunFinishDurable ==
  ASSUME Base, Durable, NEW r \in Runs, RunFinish(r) PROVE Durable'
<1>1. /\ table' = table /\ nextId' = nextId /\ snapRows' = snapRows
      /\ snaps' = snaps /\ trackers' = trackers /\ loop' = loop /\ callers' = callers
      /\ runs' = [runs EXCEPT ![r] = NoRun] /\ runs[r].pc = "released"
  BY DEF RunFinish, dbVars, loopVars
<1>2. Active' = Active \ {r} /\ \A s \in Active' : s \in Active /\ runs'[s] = runs[s]
  BY <1>1 DEF Active, NoRun, Base, TypeOK, RunsOK
<1>3. \A id : Saving(id) => Saving(id)'
  BY <1>1, <1>2 DEF Saving
<1>4. IdsHandedOut'
  BY <1>1, <1>2 DEF Durable, IdsHandedOut, Handed, Present
<1>5. RowsFollow'
  BY <1>1, <1>2, <1>3 DEF Durable, RowsFollow, Present
<1>6. QED
  BY <1>4, <1>5 DEF Durable

LEMMA RestartDurable ==
  ASSUME ~StoreErrors, Base, Durable, Restart PROVE Durable'
<1>1. \A id \in Present(table') : id < nextId'
  BY ChangeTableKeeps DEF Restart, Durable, IdsHandedOut, Handed, dbVars, Present
<1>2. /\ trackers' = table' /\ loop' = AtSelect /\ Active' = {}
      /\ snaps' = [id \in Ids |-> IF trackers'[id] # Absent THEN snapRows'[id] ELSE Absent]
      /\ \A c \in Callers : callers'[c] = NoCall
  BY DEF Restart, Boot, Active, NoRun
<1>3. Present(snaps') \subseteq Present(table') /\ \A id \in Present(snaps') : snaps'[id] = snapRows'[id]
  BY <1>2 DEF Present
<1>4. Present(EmptyTable) = {} /\ loop'.list = EmptyTable
      /\ \A c \in Callers : callers'[c].list = EmptyTable
  BY <1>2 DEF Present, EmptyTable, AtSelect, NoCall
<1>5. IdsHandedOut'
  BY <1>1, <1>2, <1>3, <1>4 DEF IdsHandedOut, Handed, Present
<1>6. RowsFollow'
  BY <1>2, <1>3 DEF RowsFollow, Present
<1>7. QED
  BY <1>5, <1>6 DEF Durable

LEMMA NextDurable ==
  ASSUME ~StoreErrors PROVE Base /\ Durable /\ [Next]_vars => Durable'
<1>1. SUFFICES ASSUME Base, Durable, [Next]_vars PROVE Durable'
  OBVIOUS
<1>2. CASE Handlers
  BY <1>1, <1>2, CommitDurable, ListDurable, ApplyDurable DEF Handlers
<1>3. ASSUME NEW r \in Runs, RunStep(r) PROVE Durable'
  <2>1. CASE RunAcquire(r)
    <3>1. "calling" \in RunPCs \ {"cached"} /\ runs[r].pc = "queued"
      BY <2>1 DEF RunAcquire, RunPCs
    <3>2. QED
      BY <1>1, <2>1, <3>1, RunMovesOn DEF RunAcquire, cacheVars
  <2>2. CASE RunRelease(r)
    <3>1. "released" \in RunPCs \ {"cached"} /\ runs[r].pc = "persisted"
      BY <2>2 DEF RunRelease, RunPCs
    <3>2. QED
      BY <1>1, <2>2, <3>1, RunMovesOn DEF RunRelease, cacheVars
  <2>3. QED
    BY <1>1, <1>3, <2>1, <2>2, RunCacheDurable, RunPersistDurable, RunFinishDurable DEF RunStep
<1>4. CASE Time \/ Clients \/ UNCHANGED vars
  BY <1>1, <1>4, DurableUntouched
  DEF Time, SpreadOver, IntervalElapses, Clients, Subscribe, Unsubscribe, Poll, PollExpires,
      ForceRequest, vars, cacheVars, runVars, loopVars
<1>5. QED
  BY <1>1, <1>2, <1>3, <1>4, SchedulerDurable, RestartDurable DEF Next

LEMMA DurableCache == Base /\ Durable => CacheIsDurable
<1>1. SUFFICES ASSUME Base, Durable,
                      NEW id \in Present(snaps) \cap Present(table), ~running[id]
               PROVE  snapRows[id] = snaps[id]
  BY DEF CacheIsDurable
<1>2. ~Saving(id)
  BY <1>1 DEF Saving, Base, SingleFlight, Present
<1>3. QED
  BY <1>1, <1>2 DEF Durable, RowsFollow

\* With a store that does not fail, a restart loads for every tracker that
\* is not being run exactly what was being served, pooled connections or not.
THEOREM RestartLosesNothing == ASSUME ~StoreErrors PROVE Spec => []CacheIsDurable
<1>1. Init => Durable
  BY InitDurable
<1>2. Base /\ Durable /\ [Next]_vars => Durable'
  BY NextDurable
<1>3. Base /\ Durable => CacheIsDurable
  BY DurableCache
<1>4. QED
  BY <1>1, <1>2, <1>3, BaseInvariant, PTL DEF Spec
=============================================================================
