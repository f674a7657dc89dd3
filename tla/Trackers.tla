------------------------------ MODULE Trackers ------------------------------
(***************************************************************************)
(* The trackers table of internal/store/store.go and the handlers of       *)
(* internal/server/server.go that write it, with the file reconcile of     *)
(* cmd/plugdash/main.go at every start.  Handlers run concurrently.        *)
(*                                                                         *)
(* A row's source is told by its key: CreateTracker leaves config_key      *)
(* empty (NoKey), and no document gets through config.Parse with an empty  *)
(* key or with two trackers of one key, so that a document is a function   *)
(* from its keys to entries.  The order of its trackers is left open.      *)
(***************************************************************************)
EXTENDS Integers, FiniteSets, Functions

CONSTANTS
  Keys, NoKey,   \* config keys, and the empty one
  Names, Blank,  \* display names, and the empty one
  Cfgs,          \* plugin, configuration and interval
  Absent,        \* no row
  MaxIds,        \* bound on the ids AUTOINCREMENT gives
  Handlers,      \* HTTP requests in progress
  StoreErrors    \* whether a read by id may fail

ASSUME TrackersAssumption ==
  /\ NoKey \notin Keys /\ Blank \notin Names
  /\ MaxIds \in Nat /\ StoreErrors \in BOOLEAN

Ids == 1 .. MaxIds
Entries == [name : Names, cfg : Cfgs]
Documents == UNION {[K -> Entries] : K \in {S \in SUBSET Keys : IsFiniteSet(S)}}
Empty == [k \in {} |-> Absent]
Rows == [key : Keys \cup {NoKey}, name : Names \cup {Blank}, cfg : Cfgs]
Requests == [name : Names \cup {Blank}, cfg : Cfgs]
Puts == [id : Ids, request : Requests, existing : Rows \cup {Absent}]

ASSUME AbsentAssumption ==
  Absent \notin Rows \cup Puts \cup Requests \cup [id : Ids, entry : Requests]

VARIABLES
  rows,        \* the trackers table
  next,        \* the id AUTOINCREMENT gives next
  file,        \* the config file on disk
  configured,  \* whether this process was started with --config
  pc,          \* where each handler is
  put,         \* an update's id, body and the tracker it found
  doc, seen,   \* a reconcile's items and existing (0 for a key not there)
  stale,       \* transactions whose snapshot of the database is out of date
  applied,     \* history: the document reconciled last
  gone,        \* history: its keys whose tracker was deleted since
  blind        \* history: rows an update wrote whose look had found no tracker

tableVars == <<rows, next>>
bootVars == <<file, configured>>
fileVars == <<doc, seen>>
history == <<applied, gone, blind>>
vars == <<tableVars, bootVars, pc, put, fileVars, stale, history>>

Exists(id) == rows[id] # Absent
Managed(id) == Exists(id) /\ rows[id].key # NoKey

\* Every committed write outdates the snapshots of the open transactions.
Wrote == stale' = {h \in Handlers : pc[h] = "commit"}

-----------------------------------------------------------------------------
(***************************************************************************)
(* Create, delete, clear: one statement each.                              *)
(***************************************************************************)
\* Mutant: an id is given again (a primary key without AUTOINCREMENT).
CreateReusing(entry) ==
  /\ \E id \in Ids : ~Exists(id)
  /\ LET id == CHOOSE i \in Ids : ~Exists(i) IN
       /\ rows' = [rows EXCEPT ![id] = [key |-> NoKey, name |-> entry.name, cfg |-> entry.cfg]]
       /\ next' = IF id = next THEN next + 1 ELSE next
  /\ Wrote
  /\ UNCHANGED <<bootVars, pc, put, fileVars, history>>

\* A blank name becomes the plugin's id before the row is inserted.
Create(entry) ==
  /\ next \in Ids
  /\ rows' = [rows EXCEPT ![next] = [key |-> NoKey, name |-> entry.name, cfg |-> entry.cfg]]
  /\ next' = next + 1
  /\ Wrote
  /\ UNCHANGED <<bootVars, pc, put, fileVars, history>>

Delete(id) ==
  /\ Exists(id)
  /\ rows' = [rows EXCEPT ![id] = Absent]
  /\ gone' = IF Managed(id) THEN gone \cup {rows[id].key} ELSE gone
  /\ blind' = blind \ {id}
  /\ Wrote
  /\ UNCHANGED <<next, bootVars, pc, put, fileVars, applied>>

Clear ==
  /\ rows' = [id \in Ids |-> Absent]
  /\ gone' = DOMAIN applied /\ blind' = {}
  /\ Wrote
  /\ UNCHANGED <<next, bootVars, pc, put, fileVars, applied>>

-----------------------------------------------------------------------------
(***************************************************************************)
(* Update: handleUpdateTracker reads the tracker, then writes it.          *)
(***************************************************************************)
Asks(h, id, request, existing) ==
  /\ pc' = [pc EXCEPT ![h] = "write"]
  /\ put' = [put EXCEPT ![h] = [id |-> id, request |-> request, existing |-> existing]]
  /\ UNCHANGED <<tableVars, bootVars, fileVars, stale, history>>

\* Mutant: the source is not looked at.
UpdateLookAny(h, id, request) ==
  /\ pc[h] = "idle" /\ Exists(id)
  /\ Asks(h, id, request, rows[id])

\* Any id may be named, one no tracker has had yet too.  A managed tracker is
\* refused (403); when GetTracker finds nothing or fails, the handler goes on
\* without having looked.
UpdateLook(h, id, request) ==
  /\ pc[h] = "idle"
  /\ \/ Exists(id) /\ ~Managed(id) /\ Asks(h, id, request, rows[id])
     \/ (~Exists(id) \/ StoreErrors) /\ Asks(h, id, request, Absent)

NewName(p) ==
  IF p.request.name = Blank /\ p.existing # Absent THEN p.existing.name ELSE p.request.name

Unseen == [k \in Keys |-> 0]

\* Back to idle; the locals of the request are gone.
Answers(h) ==
  /\ pc' = [pc EXCEPT ![h] = "idle"]
  /\ put' = [put EXCEPT ![h] = Absent]
  /\ doc' = [doc EXCEPT ![h] = Empty]
  /\ seen' = [seen EXCEPT ![h] = Unseen]

Written(p, name) ==
  rows' = [rows EXCEPT ![p.id].name = name, ![p.id].cfg = p.request.cfg]

Blindly(p) == blind' = IF p.existing = Absent THEN blind \cup {p.id} ELSE blind

\* Mutant: a blank name is stored as it came.
UpdateWriteBlank(h) ==
  /\ pc[h] = "write" /\ Exists(put[h].id)
  /\ Written(put[h], put[h].request.name) /\ Blindly(put[h])
  /\ Wrote
  /\ Answers(h)
  /\ UNCHANGED <<next, bootVars, applied, gone>>

\* UPDATE ... WHERE id: nothing but name, configuration and interval; without
\* such a row, 404.
UpdateWrite(h) ==
  /\ pc[h] = "write"
  /\ \/ Exists(put[h].id) /\ Written(put[h], NewName(put[h])) /\ Blindly(put[h]) /\ Wrote
     \/ ~Exists(put[h].id) /\ UNCHANGED <<rows, blind, stale>>
  /\ Answers(h)
  /\ UNCHANGED <<next, bootVars, applied, gone>>

-----------------------------------------------------------------------------
(***************************************************************************)
(* Reload and import: ReconcileFileTrackers in one transaction.            *)
(***************************************************************************)
EditFile(d) ==
  /\ file' = d
  /\ UNCHANGED <<tableVars, configured, pc, put, fileVars, stale, history>>

Loads(h, d) ==
  /\ pc[h] = "idle"
  /\ pc' = [pc EXCEPT ![h] = "begin"]
  /\ doc' = [doc EXCEPT ![h] = d]
  /\ UNCHANGED <<tableVars, bootVars, put, seen, stale, history>>

Reload(h) == configured /\ Loads(h, file)

Import(h, d) == Loads(h, d)

\* The ids of the file trackers by config_key; the last row of a key counts.
Existing == [k \in Keys |->
  IF \E id \in Ids : Managed(id) /\ rows[id].key = k
  THEN CHOOSE id \in Ids : /\ Managed(id) /\ rows[id].key = k
                           /\ \A i \in Ids : Managed(i) /\ rows[i].key = k => i <= id
  ELSE 0]

\* The SELECT opens the transaction's snapshot.
FileBegin(h) ==
  /\ pc[h] = "begin"
  /\ pc' = [pc EXCEPT ![h] = "commit"]
  /\ seen' = [seen EXCEPT ![h] = Existing]
  /\ stale' = stale \ {h}
  /\ UNCHANGED <<tableVars, bootVars, put, doc, history>>

FileRow(d, k) == [key |-> k, name |-> d[k].name, cfg |-> d[k].cfg]

\* Items with a known key are updated in place, the others inserted, and the
\* known rows whose key has no item deleted.
Reconciled(d, known) ==
  LET new == {k \in DOMAIN d : known[k] = 0}
      last == next + Cardinality(new) - 1
  IN
  /\ last <= MaxIds
  /\ \E born \in Bijection(next .. last, new) :
       rows' = [id \in Ids |->
         IF id \in next .. last THEN FileRow(d, born[id])
         ELSE IF ~Managed(id) \/ known[rows[id].key] # id THEN rows[id]
         ELSE IF rows[id].key \in DOMAIN d THEN FileRow(d, rows[id].key)
         ELSE Absent]
  /\ next' = last + 1

\* History: d is in the table now, and every managed row is as d says.
Applies(d) ==
  /\ applied' = d /\ gone' = {}
  /\ blind' = {id \in blind : ~Managed(id)}

NothingToWrite(h) == DOMAIN doc[h] = {} /\ \A k \in Keys : seen[h][k] = 0

\* Mutant: existing is read outside the transaction.
FileCommitAnyway(h) ==
  /\ pc[h] = "commit"
  /\ Reconciled(doc[h], seen[h])
  /\ Wrote
  /\ Applies(doc[h])
  /\ Answers(h)
  /\ UNCHANGED bootVars

\* The first write of a transaction on an outdated snapshot fails (see
\* GiveUp); one that has nothing to write commits all the same.
FileCommit(h) ==
  /\ pc[h] = "commit"
  /\ \/ /\ h \notin stale
        /\ Reconciled(doc[h], seen[h])
        /\ stale' = {g \in Handlers \ {h} : pc[g] = "commit"}
        /\ Applies(doc[h])
     \/ /\ h \in stale /\ NothingToWrite(h)
        /\ stale' = stale \ {h}
        /\ UNCHANGED <<tableVars, history>>
  /\ Answers(h)
  /\ UNCHANGED bootVars

\* The database is busy or fails: the transaction is rolled back, the answer
\* is 500.
GiveUp(h) ==
  /\ pc[h] # "idle"
  /\ Answers(h)
  /\ stale' = stale \ {h}
  /\ UNCHANGED <<tableVars, bootVars, history>>

-----------------------------------------------------------------------------
\* The process dies, handlers and all, and starts again, with or without
\* --config: the file's trackers, or none, before anything is served.  A
\* reconcile that fails ends a start with --config; without, it is logged, and
\* the trackers of the document before are served.
Restart(withConfig) ==
  /\ configured' = withConfig
  /\ LET d == IF withConfig THEN file ELSE Empty IN
       \/ Reconciled(d, Existing) /\ Applies(d)
       \/ ~withConfig /\ UNCHANGED <<tableVars, history>>
  /\ pc' = [h \in Handlers |-> "idle"]
  /\ put' = [h \in Handlers |-> Absent]
  /\ doc' = [h \in Handlers |-> Empty]
  /\ seen' = [h \in Handlers |-> Unseen]
  /\ stale' = {}
  /\ UNCHANGED file

Init ==
  /\ rows = [id \in Ids |-> Absent] /\ next = 1
  /\ file = Empty /\ configured = FALSE
  /\ pc = [h \in Handlers |-> "idle"]
  /\ put = [h \in Handlers |-> Absent]
  /\ doc = [h \in Handlers |-> Empty]
  /\ seen = [h \in Handlers |-> Unseen]
  /\ stale = {}
  /\ applied = Empty /\ gone = {} /\ blind = {}

Next ==
  \/ \E entry \in Entries : Create(entry)
  \/ \E id \in Ids : Delete(id)
  \/ Clear
  \/ \E h \in Handlers :
       \/ \E id \in Ids, request \in Requests : UpdateLook(h, id, request)
       \/ UpdateWrite(h)
       \/ Reload(h)
       \/ \E d \in Documents : Import(h, d)
       \/ FileBegin(h) \/ FileCommit(h) \/ GiveUp(h)
  \/ \E d \in Documents : EditFile(d)
  \/ \E withConfig \in BOOLEAN : Restart(withConfig)

Spec == Init /\ [][Next]_vars
-----------------------------------------------------------------------------
\* Every variable stays in its set, and a tracker has a blank name only when an
\* update wrote it that had found no tracker to look at: handleUpdateTracker
\* keeps the name it found, so that no request in flight, however old its look,
\* blanks the name of a row it saw.
TableOK == rows \in [Ids -> Rows \cup {Absent}] /\ next \in 1 .. MaxIds + 1
NamesKept == \A id \in Ids : Exists(id) /\ rows[id].name = Blank => id \in blind
HandlersOK ==
  /\ pc \in [Handlers -> {"idle", "write", "begin", "commit"}]
  /\ put \in [Handlers -> Puts \cup {Absent}]
  /\ doc \in [Handlers -> Documents]
  /\ seen \in [Handlers -> [Keys -> 0 .. MaxIds]]
  /\ stale \subseteq Handlers
DocumentsOK ==
  /\ file \in Documents /\ configured \in BOOLEAN
  /\ applied \in Documents /\ gone \subseteq Keys /\ blind \subseteq Ids
TypeOK == TableOK /\ NamesKept /\ HandlersOK /\ DocumentsOK

\* "dedup by key": no two trackers share a config key, although reloads,
\* imports and deletes overlap (the transaction of ReconcileFileTrackers reads
\* and writes one snapshot, or fails).
KeysUnique ==
  \A i, j \in Ids : Managed(i) /\ Managed(j) /\ rows[i].key = rows[j].key => i = j

\* The managed trackers have exactly the keys of the document reconciled last
\* (the --config file, an import, or nothing), less those deleted since, and
\* are as that document says, but for those an update wrote blindly: no request
\* whose look found the tracker ever edits a managed one, and none is left over
\* from a document another was reconciled after.
FollowsDocument ==
  /\ \A id \in Ids : Managed(id) =>
       /\ rows[id].key \in DOMAIN applied \ gone
       /\ id \notin blind => rows[id] = FileRow(applied, rows[id].key)
  /\ \A k \in DOMAIN applied \ gone : \E id \in Ids : Managed(id) /\ rows[id].key = k

\* "tracker is managed by config and cannot be edited from the UI"
\* (server.go:322): a managed tracker is what its document says.
ManagedUnedited ==
  \A id \in Ids : Managed(id) => rows[id] = FileRow(applied, rows[id].key)

\* The hybrid model: the user's own trackers beside those of a document, each
\* with an id of its own for good.  The one step the promise does not know is
\* an update that found no tracker when it looked and a managed one when it
\* wrote.
Entry(row) == [name |-> row.name, cfg |-> row.cfg]
Set == INSTANCE TrackerSet WITH
  Entries <- Requests,
  None <- Absent,
  own <- [id \in Ids |-> IF Exists(id) /\ ~Managed(id) THEN Entry(rows[id]) ELSE Absent],
  managed <- [k \in Keys |-> IF Existing[k] = 0 THEN Absent
               ELSE [id |-> Existing[k], entry |-> Entry(rows[Existing[k]])]],
  used <- {id \in Ids : id < next}
Overlooked == \E h \in Handlers :
  /\ pc[h] = "write" /\ put[h].existing = Absent
  /\ \E k \in Keys, entry \in Requests : Set!EditManaged(k, entry)
ImplementsTrackerSet == Set!Init /\ [][Set!Next \/ Overlooked]_(Set!vars)
=============================================================================
