--------------------------- MODULE TrackersProofs ---------------------------
(***************************************************************************)
(* Theorems about Trackers for any number of keys, names, ids and          *)
(* concurrent handlers, over edits of the file and restarts, whether or    *)
(* not reads by id fail.                                                   *)
(***************************************************************************)
EXTENDS Trackers, FiniteSetTheorems, TLAPS

-----------------------------------------------------------------------------
(***************************************************************************)
(* The inductive invariant: ids from next on were never given; an update   *)
(* that found a tracker names an id whose row, if there still is one, is   *)
(* the user's own, and found a blank name only where an update had written *)
(* blindly; and a transaction that may still commit knows the managed      *)
(* trackers there are.                                                     *)
(***************************************************************************)
IdsInOrder == \A id \in Ids : Exists(id) => id < next

Looked(p) == p.existing # Absent =>
  /\ p.id < next
  /\ Exists(p.id) => ~Managed(p.id) /\ (p.existing.name = Blank => p.id \in blind)
PutsLooked == \A h \in Handlers : pc[h] = "write" => put[h] \in Puts /\ Looked(put[h])

Knows(known) == \A k \in Keys :
  /\ known[k] = 0 => \A id \in Ids : Managed(id) => rows[id].key # k
  /\ known[k] # 0 => known[k] \in Ids /\ Managed(known[k]) /\ rows[known[k]].key = k

SnapshotsKnow == \A h \in Handlers : pc[h] = "commit" /\ h \notin stale => Knows(seen[h])

Table == TableOK /\ IdsInOrder /\ KeysUnique
IInv ==
  /\ Table /\ NamesKept /\ HandlersOK /\ DocumentsOK
  /\ FollowsDocument /\ PutsLooked /\ SnapshotsKnow

\* The records the actions write belong to their types.
LEMMA Initially ==
  /\ Empty \in Documents /\ DOMAIN Empty = {}
  /\ Unseen \in [Keys -> 0 .. MaxIds]
<1>1. Empty \in [{} -> Entries] /\ DOMAIN Empty = {}
  BY DEF Empty
<1>2. IsFiniteSet({})
  BY FS_EmptySet
<1>3. Unseen \in [Keys -> 0 .. MaxIds]
  BY TrackersAssumption DEF Unseen
<1>4. QED
  BY <1>1, <1>2, <1>3 DEF Documents

\* A document is finite, and each of its rows is managed.
LEMMA Rowed ==
  ASSUME NEW d \in Documents
  PROVE  /\ IsFiniteSet(DOMAIN d) /\ DOMAIN d \subseteq Keys
         /\ \A k \in DOMAIN d : /\ FileRow(d, k) \in Rows /\ FileRow(d, k).name # Blank
                                /\ FileRow(d, k).key = k /\ k # NoKey
                                /\ FileRow(d, k) # Absent
<1>1. PICK K \in SUBSET Keys : IsFiniteSet(K) /\ d \in [K -> Entries]
  BY DEF Documents
<1>2. ASSUME NEW k \in K
      PROVE  /\ FileRow(d, k) \in Rows /\ FileRow(d, k).name # Blank
             /\ FileRow(d, k).key = k /\ k # NoKey
  BY <1>1, <1>2, TrackersAssumption DEF FileRow, Rows, Entries
<1>3. QED
  BY <1>1, <1>2, AbsentAssumption

\* What reconcile reads is what there is: with unique keys, the last row of a
\* key is its only one.
LEMMA ExistingKnows ==
  ASSUME Table PROVE Existing \in [Keys -> 0 .. MaxIds] /\ Knows(Existing)
<1>1. ASSUME NEW k \in Keys
      PROVE  /\ Existing[k] \in 0 .. MaxIds
             /\ Existing[k] = 0 => \A id \in Ids : Managed(id) => rows[id].key # k
             /\ Existing[k] # 0 => /\ Existing[k] \in Ids /\ Managed(Existing[k])
                                   /\ rows[Existing[k]].key = k
  <2>1. CASE \E id \in Ids : Managed(id) /\ rows[id].key = k
    <3>1. PICK id \in Ids : Managed(id) /\ rows[id].key = k
      BY <2>1
    <3>2. \A i \in Ids : Managed(i) /\ rows[i].key = k => i = id
      BY <3>1 DEF Table, KeysUnique
    <3>3. \E i \in Ids : /\ Managed(i) /\ rows[i].key = k
                         /\ \A j \in Ids : Managed(j) /\ rows[j].key = k => j <= i
      BY <3>1, <3>2, TrackersAssumption DEF Ids
    <3>4. Existing[k] \in Ids /\ Managed(Existing[k]) /\ rows[Existing[k]].key = k
      BY <2>1, <3>3 DEF Existing
    <3>5. QED
      BY <3>4, TrackersAssumption DEF Ids
  <2>2. CASE ~\E id \in Ids : Managed(id) /\ rows[id].key = k
    <3>1. Existing[k] = 0
      BY <2>2 DEF Existing
    <3>2. QED
      BY <2>2, <3>1, TrackersAssumption
  <2>3. QED
    BY <2>1, <2>2
<1>2. Existing \in [Keys -> 0 .. MaxIds]
  BY <1>1 DEF Existing
<1>3. QED
  BY <1>1, <1>2 DEF Knows

-----------------------------------------------------------------------------
(***************************************************************************)
(* ReconcileFileTrackers: whatever the table was, its managed trackers are *)
(* the document's, one per key.                                            *)
(***************************************************************************)
\* What a row is afterwards, seen from the row: inserted for a key nobody had,
\* untouched, or rewritten or deleted as the document says.
LEMMA ReconciledRows ==
  ASSUME Table, NEW d \in Documents, NEW known \in [Keys -> 0 .. MaxIds], Knows(known),
         Reconciled(d, known)
  PROVE  LET new == {k \in DOMAIN d : known[k] = 0}
             fresh == {id \in Ids : next <= id /\ id < next'}
         IN
         /\ next' \in next .. MaxIds + 1
         /\ \E born \in [fresh -> new] :
              /\ \A i, j \in fresh : born[i] = born[j] => i = j
              /\ \A k \in new : \E i \in fresh : born[i] = k
              /\ rows' \in [Ids -> Rows \cup {Absent}]
              /\ \A id \in Ids :
                   /\ id \in fresh => rows'[id] = FileRow(d, born[id])
                   /\ id \notin fresh /\ ~Managed(id) => rows'[id] = rows[id]
                   /\ id \notin fresh /\ Managed(id) =>
                        rows'[id] = IF rows[id].key \in DOMAIN d
                                    THEN FileRow(d, rows[id].key) ELSE Absent
<1> DEFINE new == {k \in DOMAIN d : known[k] = 0}
           fresh == {id \in Ids : next <= id /\ id < next'}
           last == next + Cardinality(new) - 1
<1>1. IsFiniteSet(new) /\ Cardinality(new) \in Nat
  <2>1. new \in SUBSET DOMAIN d
    OBVIOUS
  <2>2. QED
    BY <2>1, Rowed, FS_Subset, FS_CardinalityType
<1>2. last <= MaxIds /\ next' = last + 1 /\ next \in 1 .. MaxIds + 1
  BY DEF Reconciled, Table, TableOK
<1>3. next' \in next .. MaxIds + 1 /\ next .. last = fresh
  <2> HIDE DEF new
  <2>1. next' \in next .. MaxIds + 1 /\ next \in Nat /\ last \in Int /\ 1 <= next
    BY <1>1, <1>2, TrackersAssumption
  <2> HIDE DEF last
  <2>2. \A id \in Int : id <= last <=> id < next'
    BY <1>2, <2>1
  <2>3. QED
    BY <1>2, <2>1, <2>2, TrackersAssumption DEF Ids
<1>4. PICK born \in Bijection(next .. last, new) :
        rows' = [id \in Ids |->
          IF id \in next .. last THEN FileRow(d, born[id])
          ELSE IF ~Managed(id) \/ known[rows[id].key] # id THEN rows[id]
          ELSE IF rows[id].key \in DOMAIN d THEN FileRow(d, rows[id].key)
          ELSE Absent]
  BY DEF Reconciled
<1>5. /\ born \in [next .. last -> new]
      /\ \A i, j \in next .. last : born[i] = born[j] => i = j
      /\ \A k \in new : \E i \in next .. last : born[i] = k
  <2> HIDE DEF new, last
  <2>1. QED
    BY <1>4 DEF Bijection, Injection, Surjection, IsInjective
<1>6. \A id \in Ids : Managed(id) => rows[id].key \in Keys /\ known[rows[id].key] = id
  <2>1. TAKE id \in Ids
  <2>2. HAVE Managed(id)
  <2>3. rows[id].key \in Keys
    BY <2>2 DEF Table, TableOK, Rows, Managed, Exists
  <2>4. known[rows[id].key] # 0
    BY <2>2, <2>3 DEF Knows
  <2>5. QED
    BY <2>2, <2>3, <2>4 DEF Knows, Table, KeysUnique
<1>7. \A id \in next .. last : id \in Ids
  BY <1>3
<1>8. \A id \in Ids :
        /\ id \in next .. last => rows'[id] = FileRow(d, born[id])
        /\ id \notin next .. last /\ ~Managed(id) => rows'[id] = rows[id]
        /\ id \notin next .. last /\ Managed(id) =>
             rows'[id] = IF rows[id].key \in DOMAIN d
                         THEN FileRow(d, rows[id].key) ELSE Absent
  <2> HIDE DEF new, last
  <2>1. QED
    BY <1>4, <1>6
<1>9. rows' \in [Ids -> Rows \cup {Absent}]
  <2>1. \A k \in DOMAIN d : FileRow(d, k) \in Rows
    BY Rowed
  <2>2. \A id \in next .. last : born[id] \in DOMAIN d
    BY <1>5
  <2>3. \A id \in Ids : rows[id] \in Rows \cup {Absent}
    BY DEF Table, TableOK
  <2>4. rows' = [id \in Ids |-> rows'[id]]
    BY <1>4
  <2>5. \A id \in Ids : rows'[id] \in Rows \cup {Absent}
    <3> HIDE DEF new, last
    <3>1. QED
      BY <1>8, <2>1, <2>2, <2>3
  <2>6. QED
    BY <2>4, <2>5
<1>10. QED
  <2> HIDE DEF new, last
  <2>1. /\ born \in [fresh -> new]
        /\ \A i, j \in fresh : born[i] = born[j] => i = j
        /\ \A k \in new : \E i \in fresh : born[i] = k
        /\ \A id \in Ids :
             /\ id \in fresh => rows'[id] = FileRow(d, born[id])
             /\ id \notin fresh /\ ~Managed(id) => rows'[id] = rows[id]
             /\ id \notin fresh /\ Managed(id) =>
                  rows'[id] = IF rows[id].key \in DOMAIN d
                              THEN FileRow(d, rows[id].key) ELSE Absent
    BY <1>3, <1>5, <1>8
  <2>2. QED
    BY <1>3, <1>9, <2>1 DEF new, fresh

\* A step that gives no row below next a new source, nor brings one back.
SameSource == \A id \in Ids : id < next =>
  id < next' /\ (Exists(id)' => Exists(id) /\ (Managed(id)' <=> Managed(id)))

\* and that no row still the user's own is forgotten to be written blindly.
BlindKept == \A id \in Ids :
  Exists(id)' /\ ~Managed(id)' /\ id \in blind => id \in blind'

\* The managed trackers are those of the document.
LEMMA ReconciledTable ==
  ASSUME Table, NEW d \in Documents, NEW known \in [Keys -> 0 .. MaxIds], Knows(known),
         Reconciled(d, known)
  PROVE  /\ Table'
         /\ \A id \in Ids : Managed(id)' =>
              rows'[id].key \in DOMAIN d /\ rows'[id] = FileRow(d, rows'[id].key)
         /\ \A k \in DOMAIN d : \E id \in Ids : Managed(id)' /\ rows'[id].key = k
         /\ SameSource
<1> DEFINE new == {k \in DOMAIN d : known[k] = 0}
           fresh == {id \in Ids : next <= id /\ id < next'}
<1>1. next' \in next .. MaxIds + 1 /\ next \in 1 .. MaxIds + 1
  BY ReconciledRows DEF Table, TableOK
<1>15. MaxIds \in Nat /\ next \in Nat /\ next' \in Nat /\ 1 <= next /\ next' <= MaxIds + 1
  BY <1>1, TrackersAssumption
<1>2. PICK born \in [fresh -> new] :
        /\ \A i, j \in fresh : born[i] = born[j] => i = j
        /\ \A k \in new : \E i \in fresh : born[i] = k
        /\ rows' \in [Ids -> Rows \cup {Absent}]
        /\ \A id \in Ids :
             /\ id \in fresh => rows'[id] = FileRow(d, born[id])
             /\ id \notin fresh /\ ~Managed(id) => rows'[id] = rows[id]
             /\ id \notin fresh /\ Managed(id) =>
                  rows'[id] = IF rows[id].key \in DOMAIN d
                              THEN FileRow(d, rows[id].key) ELSE Absent
  BY ReconciledRows
<1>3. fresh \subseteq Ids /\ \A id \in fresh : ~Exists(id)
  <2>1. fresh \subseteq Ids /\ \A id \in fresh : ~(id < next)
    BY <1>15 DEF Ids
  <2>2. QED
    BY <2>1 DEF Table, IdsInOrder
<1>4. \A k \in DOMAIN d : /\ FileRow(d, k).key = k /\ k \in Keys /\ k # NoKey
                           /\ FileRow(d, k) # Absent
  BY Rowed
<1> HIDE DEF fresh
<1>5. \A id \in fresh : Managed(id)' /\ rows'[id].key = born[id] /\ born[id] \in new
  BY <1>2, <1>3, <1>4 DEF Managed, Exists
<1>6. \A id \in Ids \ fresh : Managed(id)' =>
        Managed(id) /\ rows[id].key \in DOMAIN d /\ rows'[id] = FileRow(d, rows[id].key)
        /\ rows'[id].key = rows[id].key
  BY <1>2, <1>4 DEF Managed, Exists
<1>7. \A id \in Ids : Managed(id) => id \notin fresh
  BY <1>3 DEF Managed
<1>8. \A id \in Ids : Managed(id) /\ rows[id].key \in DOMAIN d =>
        Managed(id)' /\ rows'[id].key = rows[id].key
  BY <1>2, <1>4, <1>7 DEF Managed, Exists
<1>9. KeysUnique'
  <2>1. SUFFICES ASSUME NEW i \in Ids, NEW j \in Ids, Managed(i)', Managed(j)',
                        rows'[i].key = rows'[j].key
                 PROVE  i = j
    BY DEF KeysUnique, Managed, Exists
  <2>2. \A a \in fresh, b \in Ids \ fresh : Managed(b)' => rows'[a].key # rows'[b].key
    <3>1. \A k \in new : \A id \in Ids : Managed(id) => rows[id].key # k
      BY <1>4 DEF Knows
    <3>2. QED
      BY <1>5, <1>6, <3>1
  <2>3. CASE i \in fresh /\ j \in fresh
    BY <1>2, <1>5, <2>1, <2>3
  <2>4. CASE i \notin fresh /\ j \notin fresh
    BY <1>6, <2>1, <2>4 DEF Table, KeysUnique
  <2>5. QED
    BY <2>1, <2>2, <2>3, <2>4
<1>10. IdsInOrder'
  <2>1. \A id \in Ids \ fresh : Exists(id)' => Exists(id)
    BY <1>2 DEF Managed, Exists
  <2>2. \A id \in Ids : id < next => id < next'
    BY <1>1, TrackersAssumption DEF Ids
  <2>3. \A id \in fresh : id < next'
    BY <1>15 DEF fresh
  <2>4. \A id \in Ids : Exists(id)' => id < next'
    BY <2>1, <2>2, <2>3 DEF Table, IdsInOrder
  <2>5. QED
    BY <2>4 DEF IdsInOrder, Exists
<1>11. TableOK'
  BY <1>1, <1>2, TrackersAssumption DEF TableOK
<1>12. \A id \in Ids : Managed(id)' =>
         rows'[id].key \in DOMAIN d /\ rows'[id] = FileRow(d, rows'[id].key)
  <2>1. \A id \in fresh : rows'[id] = FileRow(d, born[id]) /\ born[id] \in DOMAIN d
    BY <1>2, <1>3
  <2>2. QED
    BY <1>4, <1>6, <2>1
<1>13. ASSUME NEW k \in DOMAIN d
       PROVE  \E id \in Ids : Managed(id)' /\ rows'[id].key = k
  <2>1. CASE k \in new
    BY <1>2, <1>3, <1>5, <2>1
  <2>2. CASE k \notin new
    <3>1. known[k] \in Ids /\ Managed(known[k]) /\ rows[known[k]].key = k
      BY <1>4, <2>2 DEF Knows
    <3>2. QED
      BY <1>8, <3>1
  <2>3. QED
    BY <2>1, <2>2
<1>14. SameSource
  <2>1. \A id \in fresh : ~(id < next)
    BY <1>15 DEF fresh, Ids
  <2>2. \A id \in Ids \ fresh : Exists(id)' => Exists(id) /\ (Managed(id)' <=> Managed(id))
    BY <1>2, <1>4 DEF Managed, Exists
  <2>3. \A id \in Ids : id < next => id < next'
    BY <1>1, TrackersAssumption DEF Ids
  <2>4. QED
    BY <2>1, <2>2, <2>3 DEF SameSource
<1>16. QED
  BY <1>9, <1>10, <1>11, <1>12, <1>13, <1>14 DEF Table

-----------------------------------------------------------------------------
(***************************************************************************)
(* What each kind of step leaves alone.                                    *)
(***************************************************************************)
\* Nothing is said of the table that is not still so.
LEMMA TableUntouched ==
  ASSUME UNCHANGED tableVars
  PROVE  /\ Table => Table'
         /\ \A known \in [Keys -> 0 .. MaxIds] : Knows(known) => Knows(known)'
         /\ SameSource
<1>1. rows' = rows /\ next' = next
  BY DEF tableVars
<1>2. Table => Table'
  BY <1>1 DEF Table, TableOK, IdsInOrder, KeysUnique, Managed, Exists
<1>3. ASSUME NEW known \in [Keys -> 0 .. MaxIds], Knows(known) PROVE Knows(known)'
  BY <1>1, <1>3 DEF Knows, Managed, Exists
<1>4. SameSource
  BY <1>1 DEF SameSource, Managed, Exists
<1>5. QED
  BY <1>2, <1>3, <1>4

\* Updates in flight keep what they looked up, whatever others write.
LEMMA PutsKept ==
  ASSUME PutsLooked, SameSource, BlindKept,
         \A h \in Handlers : pc'[h] = "write" => pc[h] = "write" /\ put'[h] = put[h]
  PROVE  PutsLooked'
<1>1. ASSUME NEW p \in Puts, Looked(p) PROVE Looked(p)'
  <2>1. p.id \in Ids
    BY DEF Puts
  <2>2. p.id < next =>
          p.id < next' /\ (Exists(p.id)' => Exists(p.id) /\ (Managed(p.id)' <=> Managed(p.id)))
    BY <2>1 DEF SameSource
  <2>3. Exists(p.id)' /\ ~Managed(p.id)' /\ p.id \in blind => p.id \in blind'
    BY <2>1 DEF BlindKept
  <2>4. QED
    BY <1>1, <2>2, <2>3 DEF Looked, Managed, Exists
<1>2. ASSUME NEW h \in Handlers, pc'[h] = "write" PROVE put'[h] \in Puts /\ Looked(put[h])'
  <2>1. PICK p \in Puts : p = put[h] /\ put'[h] = p /\ Looked(p)
    BY <1>2 DEF PutsLooked
  <2>2. Looked(p)'
    BY <1>1, <2>1
  <2>3. QED
    BY <2>1, <2>2 DEF Looked, Managed, Exists
<1>3. QED
  BY <1>2 DEF PutsLooked, Looked, Managed, Exists

\* A write outdates every open transaction, and nothing is said of those.
LEMMA OutdatedSnapshots ==
  ASSUME \A h \in Handlers : pc'[h] = "commit" => h \in stale'
  PROVE  SnapshotsKnow'
BY DEF SnapshotsKnow

\* FollowsDocument, of a table whose managed rows stay as they are, or are
\* written blindly.
LEMMA FollowsKept ==
  ASSUME FollowsDocument, UNCHANGED <<applied, gone>>,
         \A id \in Ids :
           /\ Managed(id)' <=> Managed(id)
           /\ Managed(id) => /\ rows'[id].key = rows[id].key
                             /\ id \notin blind' => id \notin blind /\ rows'[id] = rows[id]
  PROVE  FollowsDocument'
<1>1. ASSUME NEW id \in Ids, Managed(id)'
      PROVE  /\ rows'[id].key \in DOMAIN applied \ gone
             /\ id \notin blind' => rows'[id] = FileRow(applied, rows'[id].key)
  BY <1>1 DEF FollowsDocument
<1>2. \A k \in DOMAIN applied \ gone : \E id \in Ids : Managed(id)' /\ rows'[id].key = k
  BY DEF FollowsDocument
<1>3. QED
  BY <1>1, <1>2 DEF FollowsDocument, FileRow, Managed, Exists

\* NamesKept, of a table where a row is as it was, or written blindly, or has a
\* name.
LEMMA NamesKeptToo ==
  ASSUME NamesKept, BlindKept,
         \A id \in Ids : Exists(id)' =>
           \/ Exists(id) /\ rows'[id] = rows[id] /\ (Managed(id) => UNCHANGED blind)
           \/ id \in blind' \/ rows'[id].name # Blank
  PROVE  NamesKept'
<1>1. ASSUME NEW id \in Ids, Exists(id)', rows'[id].name = Blank PROVE id \in blind'
  BY <1>1 DEF NamesKept, BlindKept, Managed, Exists
<1>2. QED
  BY <1>1 DEF NamesKept, Exists

LEMMA InitIInv == Init => IInv
<1>1. SUFFICES ASSUME Init PROVE IInv
  OBVIOUS
<1>2. \A id \in Ids : ~Exists(id) /\ ~Managed(id)
  BY <1>1 DEF Init, Exists, Managed
<1>3. Table
  BY <1>1, <1>2, TrackersAssumption DEF Init, Table, TableOK, IdsInOrder, KeysUnique
<1>4. HandlersOK
  BY <1>1, Initially DEF Init, HandlersOK
<1>5. DocumentsOK
  BY <1>1, Initially DEF Init, DocumentsOK
<1>6. FollowsDocument
  BY <1>1, <1>2, Initially DEF Init, FollowsDocument
<1>7. PutsLooked /\ SnapshotsKnow /\ NamesKept
  BY <1>1, <1>2 DEF Init, PutsLooked, SnapshotsKnow, NamesKept
<1>8. QED
  BY <1>3, <1>4, <1>5, <1>6, <1>7 DEF IInv

-----------------------------------------------------------------------------
(***************************************************************************)
(* One lemma per action.                                                   *)
(***************************************************************************)
LEMMA CreateStep == ASSUME IInv, NEW entry \in Entries, Create(entry) PROVE IInv'
<1> USE DEF IInv
<1> DEFINE row == [key |-> NoKey, name |-> entry.name, cfg |-> entry.cfg]
<1>1. row \in Rows /\ row.key = NoKey /\ row # Absent /\ row.name # Blank
  BY AbsentAssumption, TrackersAssumption DEF Rows, Entries
<1>2. /\ next \in Ids /\ next' = next + 1 /\ rows' = [rows EXCEPT ![next] = row]
      /\ UNCHANGED <<bootVars, pc, put, fileVars, history>> /\ Wrote
  BY DEF Create
<1>3. next' \in 1 .. MaxIds + 1 /\ \A id \in Ids : (id < next => id < next') /\ next < next'
  BY <1>2, TrackersAssumption DEF Ids
<1>4. /\ rows'[next] = row
      /\ \A id \in Ids : id # next => rows'[id] = rows[id]
  BY <1>2 DEF Table, TableOK
<1>5. \A id \in Ids : id = next => ~Exists(id) /\ ~Managed(id) /\ ~Managed(id)'
  <2>1. ~(next < next)
    BY <1>2 DEF Ids
  <2>2. ~Exists(next)
    BY <1>2, <2>1 DEF Table, IdsInOrder
  <2>3. rows'[next].key = NoKey
    BY <1>1, <1>4
  <2>4. QED
    BY <2>2, <2>3 DEF Managed, Exists
<1>6. Table'
  <2>1. TableOK'
    BY <1>1, <1>2, <1>3 DEF Table, TableOK
  <2>2. IdsInOrder'
    BY <1>3, <1>4 DEF Table, IdsInOrder, Exists
  <2>3. QED
    BY <1>1, <1>4, <2>1, <2>2 DEF Table, KeysUnique, Managed, Exists
<1>7. FollowsDocument' /\ NamesKept' /\ BlindKept
  <2> UNCHANGED <<applied, gone, blind>>
    BY <1>2 DEF history
  <2>1. \A id \in Ids : /\ Managed(id)' <=> Managed(id)
                        /\ Managed(id) => rows'[id] = rows[id]
    <3>1. \A id \in Ids : id # next => (Managed(id)' <=> Managed(id)) /\ rows'[id] = rows[id]
      BY <1>4 DEF Managed, Exists
    <3>2. QED
      BY <1>5, <3>1
  <2>2. FollowsDocument' /\ BlindKept
    BY <2>1, FollowsKept DEF BlindKept
  <2>3. \A id \in Ids : Exists(id)' => \/ Exists(id) /\ rows'[id] = rows[id]
                                       \/ rows'[id].name # Blank
    BY <1>1, <1>4 DEF Exists
  <2>4. QED
    BY <2>1, <2>2, <2>3, NamesKeptToo
<1>8. SameSource
  <2>1. \A id \in Ids : id < next => id # next
    BY <1>2 DEF Ids
  <2>2. QED
    BY <1>3, <1>4, <2>1 DEF SameSource, Managed, Exists
<1>9. PutsLooked'
  BY <1>2, <1>7, <1>8, PutsKept
<1>10. SnapshotsKnow'
  BY <1>2, OutdatedSnapshots DEF Wrote
<1>11. HandlersOK' /\ DocumentsOK'
  BY <1>2 DEF HandlersOK, DocumentsOK, Wrote, fileVars, bootVars, history
<1>12. QED
  BY <1>6, <1>7, <1>9, <1>10, <1>11

LEMMA DeleteStep == ASSUME IInv, NEW id \in Ids, Delete(id) PROVE IInv'
<1> USE DEF IInv
<1>1. /\ Exists(id) /\ rows' = [rows EXCEPT ![id] = Absent]
      /\ gone' = (IF Managed(id) THEN gone \cup {rows[id].key} ELSE gone)
      /\ blind' = blind \ {id}
      /\ UNCHANGED <<next, bootVars, pc, put, fileVars, applied>> /\ Wrote
  BY DEF Delete
<1>2. /\ rows'[id] = Absent
      /\ \A i \in Ids : i # id => rows'[i] = rows[i]
  BY <1>1 DEF Table, TableOK
<1>3. /\ \A i \in Ids : i # id => (Exists(i)' <=> Exists(i)) /\ (Managed(i)' <=> Managed(i))
      /\ ~Exists(id)' /\ ~Managed(id)'
  BY <1>2 DEF Exists, Managed
<1>4. Table'
  <2>1. TableOK'
    BY <1>1 DEF Table, TableOK
  <2>2. IdsInOrder'
    BY <1>1, <1>3 DEF Table, IdsInOrder
  <2>3. KeysUnique'
    BY <1>2, <1>3 DEF Table, KeysUnique, Managed, Exists
  <2>4. QED
    BY <2>1, <2>2, <2>3 DEF Table
<1>5. Managed(id) => rows[id].key \in Keys
  BY DEF Table, TableOK, Rows, Managed, Exists
<1>6. FollowsDocument'
  <2>1. ASSUME NEW i \in Ids, Managed(i)'
        PROVE  /\ rows'[i].key \in DOMAIN applied \ gone'
               /\ i \notin blind' => rows'[i] = FileRow(applied, rows'[i].key)
    <3>1. i # id /\ Managed(i) /\ rows'[i] = rows[i]
      BY <1>2, <1>3, <2>1
    <3>2. Managed(id) => rows[i].key # rows[id].key
      BY <3>1 DEF Table, KeysUnique
    <3>3. QED
      BY <1>1, <3>1, <3>2 DEF FollowsDocument
  <2>2. ASSUME NEW k \in DOMAIN applied \ gone'
        PROVE  \E i \in Ids : Managed(i)' /\ rows'[i].key = k
    <3>1. k \in DOMAIN applied \ gone /\ (Managed(id) => k # rows[id].key)
      BY <1>1
    <3>2. PICK i \in Ids : Managed(i) /\ rows[i].key = k
      BY <3>1 DEF FollowsDocument
    <3>3. QED
      BY <1>2, <1>3, <3>1, <3>2
  <2>3. applied' = applied
    BY <1>1
  <2>4. QED
    BY <2>1, <2>2, <2>3 DEF FollowsDocument, FileRow, Managed, Exists
<1>7. PutsLooked' /\ NamesKept'
  <2>1. SameSource /\ BlindKept
    BY <1>1, <1>3 DEF SameSource, BlindKept
  <2>2. NamesKept'
    BY <1>1, <1>2, <1>3 DEF NamesKept, Exists
  <2>3. QED
    BY <1>1, <2>1, <2>2, PutsKept
<1>8. SnapshotsKnow'
  BY <1>1, OutdatedSnapshots DEF Wrote
<1>9. HandlersOK' /\ DocumentsOK'
  BY <1>1, <1>5 DEF HandlersOK, DocumentsOK, Wrote, fileVars, bootVars
<1>10. QED
  BY <1>4, <1>6, <1>7, <1>8, <1>9

LEMMA ClearStep == ASSUME IInv, Clear PROVE IInv'
<1> USE DEF IInv
<1>1. /\ rows' = [id \in Ids |-> Absent] /\ gone' = DOMAIN applied /\ blind' = {}
      /\ UNCHANGED <<next, bootVars, pc, put, fileVars, applied>> /\ Wrote
  BY DEF Clear
<1>2. \A i \in Ids : ~Exists(i)' /\ ~Managed(i)'
  BY <1>1 DEF Exists, Managed
<1>3. Table'
  BY <1>1, <1>2 DEF Table, TableOK, IdsInOrder, KeysUnique
<1>4. FollowsDocument'
  BY <1>1, <1>2 DEF FollowsDocument
<1>5. PutsLooked' /\ NamesKept'
  <2>1. SameSource /\ BlindKept /\ NamesKept'
    BY <1>1, <1>2 DEF SameSource, BlindKept, NamesKept, Exists
  <2>2. QED
    BY <1>1, <2>1, PutsKept
<1>6. SnapshotsKnow'
  BY <1>1, OutdatedSnapshots DEF Wrote
<1>7. HandlersOK' /\ DocumentsOK'
  BY <1>1, Rowed DEF HandlersOK, DocumentsOK, Wrote, fileVars, bootVars
<1>8. QED
  BY <1>3, <1>4, <1>5, <1>6, <1>7

\* Steps that leave the table and the history alone.
LEMMA TableKept ==
  ASSUME IInv, UNCHANGED <<tableVars, history>>
  PROVE  Table' /\ FollowsDocument' /\ NamesKept' /\ SameSource /\ BlindKept
<1>1. Table' /\ SameSource
  BY TableUntouched DEF IInv
<1>2. UNCHANGED <<rows, applied, gone, blind>>
  BY DEF tableVars, history
<1>3. FollowsDocument' /\ NamesKept' /\ BlindKept
  BY <1>2, FollowsKept DEF IInv, NamesKept, BlindKept, Managed, Exists
<1>4. QED
  BY <1>1, <1>3

\* A handler that answers is idle and holds nothing.
LEMMA Answered ==
  ASSUME HandlersOK, NEW h \in Handlers, Answers(h), stale' \subseteq Handlers
  PROVE  /\ HandlersOK'
         /\ pc'[h] = "idle"
         /\ \A g \in Handlers : g # h =>
              pc'[g] = pc[g] /\ put'[g] = put[g] /\ seen'[g] = seen[g]
BY Initially DEF Answers, HandlersOK

\* Transactions that are still current know what they knew.
LEMMA SnapshotsKept ==
  ASSUME IInv, UNCHANGED tableVars,
         \A g \in Handlers : pc'[g] = "commit" /\ g \notin stale' =>
           pc[g] = "commit" /\ g \notin stale /\ seen'[g] = seen[g]
  PROVE  SnapshotsKnow'
<1>1. ASSUME NEW g \in Handlers, pc'[g] = "commit", g \notin stale',
             NEW known \in [Keys -> 0 .. MaxIds], known = seen[g]
      PROVE  seen'[g] = known /\ Knows(known)'
  BY <1>1, TableUntouched DEF IInv, SnapshotsKnow
<1>2. \A g \in Handlers : seen[g] \in [Keys -> 0 .. MaxIds]
  BY DEF IInv, HandlersOK
<1>3. QED
  BY <1>1, <1>2 DEF SnapshotsKnow, Knows, Managed, Exists

LEMMA UpdateLookStep ==
  ASSUME IInv, NEW h \in Handlers, NEW id \in Ids, NEW request \in Requests,
         UpdateLook(h, id, request)
  PROVE  IInv'
<1> USE DEF IInv
<1>1. PICK existing \in Rows \cup {Absent} :
        /\ Asks(h, id, request, existing)
        /\ existing # Absent => Exists(id) /\ ~Managed(id) /\ existing = rows[id]
  BY DEF UpdateLook, Table, TableOK, Exists
<1>2. /\ pc' = [pc EXCEPT ![h] = "write"]
      /\ put' = [put EXCEPT ![h] = [id |-> id, request |-> request, existing |-> existing]]
      /\ UNCHANGED <<tableVars, bootVars, fileVars, stale, history>>
  BY <1>1 DEF Asks
<1>3. [id |-> id, request |-> request, existing |-> existing] \in Puts
  BY DEF Puts
<1>4. HandlersOK' /\ DocumentsOK'
  BY <1>2, <1>3 DEF HandlersOK, DocumentsOK, fileVars, bootVars, history
<1>5. Table' /\ FollowsDocument' /\ NamesKept' /\ SameSource /\ BlindKept
  BY <1>2, TableKept
<1>6. PutsLooked'
  <2>1. rows' = rows /\ next' = next /\ blind' = blind
    BY <1>2 DEF tableVars, history
  <2>2. Looked([id |-> id, request |-> request, existing |-> existing])
    BY <1>1 DEF Looked, Table, IdsInOrder, NamesKept
  <2>3. ASSUME NEW g \in Handlers, pc'[g] = "write"
        PROVE  put'[g] \in Puts /\ Looked(put'[g])
    <3>1. CASE g = h
      BY <1>2, <1>3, <2>2, <3>1 DEF HandlersOK
    <3>2. CASE g # h
      <4>1. pc[g] = "write" /\ put'[g] = put[g]
        BY <1>2, <2>3, <3>2 DEF HandlersOK
      <4>2. QED
        BY <4>1 DEF PutsLooked
    <3>3. QED
      BY <3>1, <3>2
  <2>4. QED
    BY <2>1, <2>3 DEF PutsLooked, Looked, Managed, Exists
<1>7. SnapshotsKnow'
  <2>1. UNCHANGED tableVars
    BY <1>2
  <2>2. \A g \in Handlers : pc'[g] = "commit" /\ g \notin stale' =>
          pc[g] = "commit" /\ g \notin stale /\ seen'[g] = seen[g]
    BY <1>2 DEF HandlersOK, fileVars
  <2>3. QED
    BY <2>1, <2>2, SnapshotsKept
<1>8. QED
  BY <1>4, <1>5, <1>6, <1>7

\* An update writes one row and leaves its key alone; a managed row only when
\* its look found nothing.
LEMMA WrittenRow ==
  ASSUME IInv, NEW h \in Handlers, pc[h] = "write",
         Exists(put[h].id), Written(put[h], NewName(put[h])), Blindly(put[h])
  PROVE  \E id \in Ids :
    /\ id = put[h].id /\ Exists(id)
    /\ \A i \in Ids : i # id => rows'[i] = rows[i]
    /\ rows' \in [Ids -> Rows \cup {Absent}] /\ rows'[id] \in Rows
    /\ rows'[id].key = rows[id].key /\ rows'[id].name = NewName(put[h])
    /\ put[h].existing # Absent => ~Managed(id) /\ (put[h].existing.name = Blank => id \in blind)
<1> USE DEF IInv
<1> DEFINE p == put[h]
           row == [rows[p.id] EXCEPT !.name = NewName(p), !.cfg = p.request.cfg]
<1>1. p \in Puts /\ Written(p, NewName(p))
  BY DEF PutsLooked
<1>2. /\ p.id \in Ids /\ p.existing \in Rows \cup {Absent}
      /\ p.request.name \in Names \cup {Blank} /\ p.request.cfg \in Cfgs
  BY <1>1 DEF Puts, Requests
<1>3. rows[p.id] \in Rows
  BY <1>2 DEF Table, TableOK, Exists
<1>4. NewName(p) \in Names \cup {Blank}
  BY <1>2 DEF NewName, Rows
<1>5. row \in Rows /\ row.key = rows[p.id].key /\ row.name = NewName(p)
  BY <1>2, <1>3, <1>4 DEF Rows
<1>6. rows' = [rows EXCEPT ![p.id] = row]
  BY <1>1, <1>2, <1>3 DEF Written, Rows, Table, TableOK
<1>7. p.existing # Absent => ~Managed(p.id) /\ (p.existing.name = Blank => p.id \in blind)
  BY DEF PutsLooked, Looked
<1> HIDE DEF row
<1>8. /\ rows'[p.id] = row /\ rows' \in [Ids -> Rows \cup {Absent}]
      /\ \A i \in Ids : i # p.id => rows'[i] = rows[i]
  BY <1>2, <1>5, <1>6 DEF Table, TableOK
<1>9. QED
  BY <1>1, <1>2, <1>5, <1>7, <1>8

LEMMA UpdateWriteStep ==
  ASSUME IInv, NEW h \in Handlers, UpdateWrite(h) PROVE IInv'
<1> USE DEF IInv
<1>1. /\ pc[h] = "write" /\ put[h] \in Puts /\ Answers(h)
      /\ UNCHANGED <<next, bootVars, applied, gone>>
  BY DEF UpdateWrite, PutsLooked
<1>2. stale' \subseteq Handlers
  BY DEF UpdateWrite, Wrote, HandlersOK
<1>3. /\ HandlersOK' /\ pc'[h] = "idle"
      /\ \A g \in Handlers : g # h =>
           pc'[g] = pc[g] /\ put'[g] = put[g] /\ seen'[g] = seen[g]
  BY <1>1, <1>2, Answered
<1>4. DocumentsOK'
  BY <1>1 DEF UpdateWrite, Blindly, Puts, DocumentsOK, bootVars
<1>5. CASE Exists(put[h].id) /\ Written(put[h], NewName(put[h])) /\ Blindly(put[h]) /\ Wrote
  <2> DEFINE p == put[h]
  <2>1. PICK id \in Ids :
          /\ id = p.id /\ Exists(id)
          /\ \A i \in Ids : i # id => rows'[i] = rows[i]
          /\ rows' \in [Ids -> Rows \cup {Absent}] /\ rows'[id] \in Rows
          /\ rows'[id].key = rows[id].key /\ rows'[id].name = NewName(p)
          /\ p.existing # Absent => ~Managed(id) /\ (p.existing.name = Blank => id \in blind)
    BY <1>1, <1>5, WrittenRow
  <2>2. rows'[id] # Absent
    BY <2>1, AbsentAssumption
  <2>3. blind \subseteq blind' /\ (p.existing = Absent => id \in blind')
    BY <1>5, <2>1 DEF Blindly
  <2>4. rows'[id].name = Blank => id \in blind'
    BY <2>1, <2>3 DEF NewName
  <2>5. Managed(id) => id \in blind'
    BY <2>1, <2>3
  <2> HIDE DEF p
  <2>6. \A i \in Ids : /\ Exists(i)' <=> Exists(i)
                       /\ Managed(i)' <=> Managed(i)
                       /\ Managed(i) => /\ rows'[i].key = rows[i].key
                                        /\ i \notin blind' => i \notin blind /\ rows'[i] = rows[i]
    BY <2>1, <2>2, <2>3, <2>5 DEF Exists, Managed
  <2>7. Table'
    <3>1. TableOK'
      BY <1>1, <2>1 DEF Table, TableOK
    <3>2. QED
      BY <1>1, <2>6, <3>1 DEF Table, IdsInOrder, KeysUnique
  <2>8. FollowsDocument'
    BY <1>1, <2>6, FollowsKept
  <2>9. SameSource /\ BlindKept
    BY <1>1, <2>3, <2>6 DEF SameSource, BlindKept
  <2>10. NamesKept'
    <3>1. ASSUME NEW i \in Ids, Exists(i)', rows'[i].name = Blank PROVE i \in blind'
      BY <2>1, <2>3, <2>4, <2>6, <3>1 DEF NamesKept
    <3>2. QED
      BY <3>1 DEF NamesKept, Exists
  <2>11. PutsLooked'
    <3>1. \A g \in Handlers : pc'[g] = "write" => pc[g] = "write" /\ put'[g] = put[g]
      BY <1>3
    <3>2. QED
      BY <2>9, <3>1, PutsKept
  <2>12. SnapshotsKnow'
    <3>1. \A g \in Handlers : pc'[g] = "commit" => g \in stale'
      BY <1>3, <1>5 DEF Wrote
    <3>2. QED
      BY <3>1, OutdatedSnapshots
  <2>13. QED
    BY <1>3, <1>4, <2>7, <2>8, <2>10, <2>11, <2>12
<1>6. CASE UNCHANGED <<rows, blind, stale>>
  <2>1. Table' /\ FollowsDocument' /\ NamesKept' /\ SameSource /\ BlindKept
    BY <1>1, <1>6, TableKept DEF tableVars, history
  <2>2. PutsLooked'
    <3>1. \A g \in Handlers : pc'[g] = "write" => pc[g] = "write" /\ put'[g] = put[g]
      BY <1>3
    <3>2. QED
      BY <2>1, <3>1, PutsKept
  <2>3. SnapshotsKnow'
    <3>1. \A g \in Handlers : pc'[g] = "commit" /\ g \notin stale' =>
            pc[g] = "commit" /\ g \notin stale /\ seen'[g] = seen[g]
      BY <1>3, <1>6
    <3>2. QED
      BY <1>1, <1>6, <3>1, SnapshotsKept DEF tableVars
  <2>4. QED
    BY <1>3, <1>4, <2>1, <2>2, <2>3
<1>7. QED
  BY <1>5, <1>6 DEF UpdateWrite

LEMMA EditFileStep == ASSUME IInv, NEW d \in Documents, EditFile(d) PROVE IInv'
<1> USE DEF IInv
<1>1. /\ file' = d
      /\ UNCHANGED <<tableVars, configured, pc, put, fileVars, stale, history>>
  BY DEF EditFile
<1>2. Table' /\ FollowsDocument' /\ NamesKept' /\ SameSource /\ BlindKept
  BY <1>1, TableKept
<1>3. HandlersOK' /\ DocumentsOK'
  BY <1>1 DEF HandlersOK, DocumentsOK, fileVars, history
<1>4. PutsLooked'
  BY <1>1, <1>2, PutsKept
<1>5. SnapshotsKnow'
  <2>1. seen' = seen /\ stale' = stale /\ pc' = pc /\ UNCHANGED tableVars
    BY <1>1 DEF fileVars
  <2>2. QED
    BY <2>1, SnapshotsKept
<1>6. QED
  BY <1>2, <1>3, <1>4, <1>5

LEMMA LoadsStep ==
  ASSUME IInv, NEW h \in Handlers, NEW d \in Documents, Loads(h, d) PROVE IInv'
<1> USE DEF IInv
<1>1. /\ pc[h] = "idle" /\ pc' = [pc EXCEPT ![h] = "begin"] /\ doc' = [doc EXCEPT ![h] = d]
      /\ UNCHANGED <<tableVars, bootVars, put, seen, stale, history>>
  BY DEF Loads
<1>2. Table' /\ FollowsDocument' /\ NamesKept' /\ SameSource /\ BlindKept
  BY <1>1, TableKept
<1>3. HandlersOK' /\ DocumentsOK'
  BY <1>1 DEF HandlersOK, DocumentsOK, bootVars, history
<1>4. \A g \in Handlers : pc'[g] \in {"write", "commit"} => pc'[g] = pc[g]
  BY <1>1 DEF HandlersOK
<1>5. PutsLooked'
  BY <1>1, <1>2, <1>4, PutsKept
<1>6. SnapshotsKnow'
  <2>1. \A g \in Handlers : pc'[g] = "commit" /\ g \notin stale' =>
          pc[g] = "commit" /\ g \notin stale /\ seen'[g] = seen[g]
    BY <1>1, <1>4
  <2>2. QED
    BY <1>1, <2>1, SnapshotsKept
<1>7. QED
  BY <1>2, <1>3, <1>5, <1>6

LEMMA FileBeginStep == ASSUME IInv, NEW h \in Handlers, FileBegin(h) PROVE IInv'
<1> USE DEF IInv
<1>1. /\ pc' = [pc EXCEPT ![h] = "commit"] /\ seen' = [seen EXCEPT ![h] = Existing]
      /\ stale' = stale \ {h}
      /\ UNCHANGED <<tableVars, bootVars, put, doc, history>>
  BY DEF FileBegin
<1>2. Table' /\ FollowsDocument' /\ NamesKept' /\ SameSource /\ BlindKept
  BY <1>1, TableKept
<1>3. Existing \in [Keys -> 0 .. MaxIds] /\ Knows(Existing)
  BY ExistingKnows
<1>4. HandlersOK' /\ DocumentsOK'
  BY <1>1, <1>3 DEF HandlersOK, DocumentsOK, bootVars, history
<1>5. PutsLooked'
  <2>1. \A g \in Handlers : pc'[g] = "write" => pc[g] = "write" /\ put'[g] = put[g]
    BY <1>1 DEF HandlersOK
  <2>2. QED
    BY <1>2, <2>1, PutsKept
<1>6. SnapshotsKnow'
  <2>1. ASSUME NEW g \in Handlers, pc'[g] = "commit", g \notin stale' PROVE Knows(seen'[g])
    <3>1. CASE g = h
      BY <1>1, <1>3, <3>1 DEF HandlersOK
    <3>2. CASE g # h
      <4>1. pc[g] = "commit" /\ g \notin stale /\ seen'[g] = seen[g]
        BY <1>1, <2>1, <3>2 DEF HandlersOK
      <4>2. QED
        BY <4>1 DEF SnapshotsKnow
    <3>3. QED
      BY <3>1, <3>2
  <2>2. rows' = rows
    BY <1>1 DEF tableVars
  <2>3. QED
    BY <2>1, <2>2 DEF SnapshotsKnow, Knows, Managed, Exists
<1>7. QED
  BY <1>2, <1>4, <1>5, <1>6

\* The document is in the table now: FollowsDocument of it.
LEMMA FollowsReconciled ==
  ASSUME Table, NEW d \in Documents, NEW known \in [Keys -> 0 .. MaxIds], Knows(known),
         Reconciled(d, known), Applies(d)
  PROVE  FollowsDocument'
<1>1. \A id \in Ids : Managed(id)' =>
        rows'[id].key \in DOMAIN d /\ rows'[id] = FileRow(d, rows'[id].key)
  BY ReconciledTable
<1>2. \A k \in DOMAIN d : \E id \in Ids : Managed(id)' /\ rows'[id].key = k
  BY ReconciledTable
<1>3. applied' = d /\ DOMAIN d \ gone' = DOMAIN d
  BY DEF Applies
<1>4. QED
  BY <1>1, <1>2, <1>3 DEF FollowsDocument, FileRow, Managed, Exists

\* The document brings names, and the rows written blindly that are still the
\* user's own are remembered.
LEMMA NamesReconciled ==
  ASSUME Table, NamesKept, NEW d \in Documents, NEW known \in [Keys -> 0 .. MaxIds],
         Knows(known), Reconciled(d, known), Applies(d)
  PROVE  NamesKept' /\ BlindKept
<1>1. \A id \in Ids :
        \/ ~Managed(id) /\ rows'[id] = rows[id]
        \/ rows'[id] = Absent
        \/ \E k \in DOMAIN d : rows'[id] = FileRow(d, k)
  <2> DEFINE new == {k \in DOMAIN d : known[k] = 0}
             fresh == {id \in Ids : next <= id /\ id < next'}
  <2>1. PICK born \in [fresh -> new] :
          /\ \A i, j \in fresh : born[i] = born[j] => i = j
          /\ \A k \in new : \E i \in fresh : born[i] = k
          /\ rows' \in [Ids -> Rows \cup {Absent}]
          /\ \A id \in Ids :
               /\ id \in fresh => rows'[id] = FileRow(d, born[id])
               /\ id \notin fresh /\ ~Managed(id) => rows'[id] = rows[id]
               /\ id \notin fresh /\ Managed(id) =>
                    rows'[id] = IF rows[id].key \in DOMAIN d
                                THEN FileRow(d, rows[id].key) ELSE Absent
    BY ReconciledRows
  <2> HIDE DEF fresh
  <2>2. \A id \in fresh : born[id] \in DOMAIN d
    OBVIOUS
  <2>3. QED
    BY <2>1, <2>2
<1>2. \A k \in DOMAIN d : FileRow(d, k).name # Blank /\ FileRow(d, k).key # NoKey
  BY Rowed
<1>3. blind' = {id \in blind : ~Managed(id)}
  BY DEF Applies
<1>4. NamesKept'
  BY <1>1, <1>2, <1>3 DEF NamesKept, Exists
<1>5. BlindKept
  BY <1>1, <1>2, <1>3 DEF BlindKept, Managed, Exists
<1>6. QED
  BY <1>4, <1>5

LEMMA FileCommitStep == ASSUME IInv, NEW h \in Handlers, FileCommit(h) PROVE IInv'
<1> USE DEF IInv
<1>1. pc[h] = "commit" /\ Answers(h) /\ UNCHANGED bootVars
  BY DEF FileCommit
<1>2. stale' \subseteq Handlers
  BY DEF FileCommit, HandlersOK
<1>3. /\ HandlersOK' /\ pc'[h] = "idle"
      /\ \A g \in Handlers : g # h =>
           pc'[g] = pc[g] /\ put'[g] = put[g] /\ seen'[g] = seen[g]
  BY <1>1, <1>2, Answered
<1>4. \A g \in Handlers : pc'[g] = "write" => pc[g] = "write" /\ put'[g] = put[g]
  BY <1>3
<1>5. CASE /\ h \notin stale /\ Reconciled(doc[h], seen[h])
           /\ stale' = {g \in Handlers \ {h} : pc[g] = "commit"}
           /\ Applies(doc[h])
  <2>1. doc[h] \in Documents /\ seen[h] \in [Keys -> 0 .. MaxIds] /\ Knows(seen[h])
    BY <1>1, <1>5 DEF HandlersOK, SnapshotsKnow
  <2>2. Table' /\ SameSource
    BY <1>5, <2>1, ReconciledTable
  <2>3. FollowsDocument' /\ NamesKept' /\ BlindKept
    BY <1>5, <2>1, FollowsReconciled, NamesReconciled
  <2>4. PutsLooked'
    BY <1>4, <2>2, <2>3, PutsKept
  <2>5. SnapshotsKnow'
    <3>1. \A g \in Handlers : pc'[g] = "commit" => g \in stale'
      BY <1>3, <1>5
    <3>2. QED
      BY <3>1, OutdatedSnapshots
  <2>6. DocumentsOK'
    BY <1>1, <1>5, <2>1 DEF DocumentsOK, bootVars, Applies
  <2>7. QED
    BY <1>3, <2>2, <2>3, <2>4, <2>5, <2>6
<1>6. CASE /\ h \in stale /\ NothingToWrite(h) /\ stale' = stale \ {h}
           /\ UNCHANGED <<tableVars, history>>
  <2>1. Table' /\ FollowsDocument' /\ NamesKept' /\ SameSource /\ BlindKept
    BY <1>6, TableKept
  <2>2. PutsLooked'
    BY <1>4, <2>1, PutsKept
  <2>3. SnapshotsKnow'
    <3>1. \A g \in Handlers : pc'[g] = "commit" /\ g \notin stale' =>
            pc[g] = "commit" /\ g \notin stale /\ seen'[g] = seen[g]
      BY <1>3, <1>6
    <3>2. QED
      BY <1>6, <3>1, SnapshotsKept
  <2>4. DocumentsOK'
    BY <1>1, <1>6 DEF DocumentsOK, bootVars, history
  <2>5. QED
    BY <1>3, <2>1, <2>2, <2>3, <2>4
<1>7. QED
  BY <1>5, <1>6 DEF FileCommit

LEMMA GiveUpStep == ASSUME IInv, NEW h \in Handlers, GiveUp(h) PROVE IInv'
<1> USE DEF IInv
<1>1. Answers(h) /\ stale' = stale \ {h} /\ UNCHANGED <<tableVars, bootVars, history>>
  BY DEF GiveUp
<1>2. /\ HandlersOK' /\ pc'[h] = "idle"
      /\ \A g \in Handlers : g # h =>
           pc'[g] = pc[g] /\ put'[g] = put[g] /\ seen'[g] = seen[g]
  <2>1. stale' \subseteq Handlers
    BY <1>1 DEF HandlersOK
  <2>2. QED
    BY <1>1, <2>1, Answered
<1>3. Table' /\ FollowsDocument' /\ NamesKept' /\ SameSource /\ BlindKept
  BY <1>1, TableKept
<1>4. PutsLooked'
  <2>1. \A g \in Handlers : pc'[g] = "write" => pc[g] = "write" /\ put'[g] = put[g]
    BY <1>2
  <2>2. QED
    BY <1>3, <2>1, PutsKept
<1>5. SnapshotsKnow'
  <2>1. \A g \in Handlers : pc'[g] = "commit" /\ g \notin stale' =>
          pc[g] = "commit" /\ g \notin stale /\ seen'[g] = seen[g]
    BY <1>1, <1>2
  <2>2. QED
    BY <1>1, <2>1, SnapshotsKept
<1>6. DocumentsOK'
  BY <1>1 DEF DocumentsOK, bootVars, history
<1>7. QED
  BY <1>2, <1>3, <1>4, <1>5, <1>6

LEMMA RestartStep == ASSUME IInv, NEW withConfig \in BOOLEAN, Restart(withConfig) PROVE IInv'
<1> USE DEF IInv
<1> DEFINE d == IF withConfig THEN file ELSE Empty
<1>1. /\ configured' = withConfig /\ file' = file
      /\ \/ Reconciled(d, Existing) /\ Applies(d)
         \/ UNCHANGED <<tableVars, history>>
      /\ pc' = [h \in Handlers |-> "idle"] /\ put' = [h \in Handlers |-> Absent]
      /\ doc' = [h \in Handlers |-> Empty] /\ seen' = [h \in Handlers |-> Unseen]
      /\ stale' = {}
  BY DEF Restart
<1>2. d \in Documents
  BY Initially DEF DocumentsOK
<1> HIDE DEF d
<1>3. Existing \in [Keys -> 0 .. MaxIds] /\ Knows(Existing)
  BY ExistingKnows
<1>4. HandlersOK'
  BY <1>1, Initially DEF HandlersOK
<1>5. PutsLooked' /\ SnapshotsKnow'
  BY <1>1 DEF PutsLooked, SnapshotsKnow
<1>6. CASE Reconciled(d, Existing) /\ Applies(d)
  <2>1. Table'
    BY <1>2, <1>3, <1>6, ReconciledTable
  <2>2. FollowsDocument' /\ NamesKept'
    BY <1>2, <1>3, <1>6, FollowsReconciled, NamesReconciled
  <2>3. DocumentsOK'
    BY <1>1, <1>2, <1>6 DEF DocumentsOK, Applies
  <2>4. QED
    BY <1>4, <1>5, <2>1, <2>2, <2>3
<1>7. CASE UNCHANGED <<tableVars, history>>
  <2>1. Table' /\ FollowsDocument' /\ NamesKept'
    BY <1>7, TableKept
  <2>2. DocumentsOK'
    BY <1>1, <1>7 DEF DocumentsOK, history
  <2>3. QED
    BY <1>4, <1>5, <2>1, <2>2
<1>8. QED
  BY <1>1, <1>6, <1>7

-----------------------------------------------------------------------------
\* IInv is inductive.
LEMMA NextIInv == ASSUME IInv, [Next]_vars PROVE IInv'
<1>1. CASE \E entry \in Entries : Create(entry)
  BY <1>1, CreateStep
<1>2. CASE \E id \in Ids : Delete(id)
  BY <1>2, DeleteStep
<1>3. CASE Clear
  BY <1>3, ClearStep
<1>4. ASSUME NEW h \in Handlers,
             \/ \E id \in Ids, request \in Requests : UpdateLook(h, id, request)
             \/ UpdateWrite(h)
             \/ Reload(h)
             \/ \E d \in Documents : Import(h, d)
             \/ FileBegin(h) \/ FileCommit(h) \/ GiveUp(h)
      PROVE  IInv'
  <2>1. CASE \E id \in Ids, request \in Requests : UpdateLook(h, id, request)
    BY <2>1, UpdateLookStep
  <2>2. CASE UpdateWrite(h)
    BY <2>2, UpdateWriteStep
  <2>3. CASE Reload(h)
    BY <2>3, LoadsStep DEF Reload, IInv, DocumentsOK
  <2>4. CASE \E d \in Documents : Import(h, d)
    BY <2>4, LoadsStep DEF Import
  <2>5. CASE FileBegin(h)
    BY <2>5, FileBeginStep
  <2>6. CASE FileCommit(h)
    BY <2>6, FileCommitStep
  <2>7. CASE GiveUp(h)
    BY <2>7, GiveUpStep
  <2>8. QED
    BY <1>4, <2>1, <2>2, <2>3, <2>4, <2>5, <2>6, <2>7
<1>5. CASE \E d \in Documents : EditFile(d)
  BY <1>5, EditFileStep
<1>6. CASE \E withConfig \in BOOLEAN : Restart(withConfig)
  BY <1>6, RestartStep
<1>7. CASE UNCHANGED vars
  <2>1. UNCHANGED <<tableVars, configured, pc, put, fileVars, stale, history>> /\ file' = file
    BY <1>7 DEF vars, bootVars
  <2>2. Table' /\ FollowsDocument' /\ NamesKept' /\ SameSource /\ BlindKept
    BY <2>1, TableKept
  <2>3. PutsLooked'
    BY <2>1, <2>2, PutsKept DEF IInv
  <2>4. SnapshotsKnow'
    <3>1. seen' = seen
      BY <2>1 DEF fileVars
    <3>2. QED
      BY <2>1, <3>1, SnapshotsKept
  <2>5. HandlersOK' /\ DocumentsOK'
    BY <2>1 DEF IInv, HandlersOK, DocumentsOK, fileVars, history
  <2>6. QED
    BY <2>2, <2>3, <2>4, <2>5 DEF IInv
<1>8. QED
  BY <1>1, <1>2, <1>3, <1>4, <1>5, <1>6, <1>7 DEF Next

LEMMA Invariance == Spec => []IInv
<1>1. Init => IInv
  BY InitIInv
<1>2. IInv /\ [Next]_vars => IInv'
  BY NextIInv
<1>3. QED
  BY <1>1, <1>2, PTL DEF Spec

\* Tracker rows, requests and documents keep their types (handlers of
\* internal/server/server.go), and a stored tracker has a blank name only where
\* an update wrote whose look had found no tracker.
THEOREM TrackersTyped == Spec => []TypeOK
<1>1. IInv => TypeOK
  BY DEF IInv, Table, TypeOK
<1>2. QED
  BY <1>1, Invariance, PTL

\* ReconcileFileTrackers never gives two trackers one config key, however many
\* reloads, imports, deletes and restarts overlap.
THEOREM OneTrackerPerKey == Spec => []KeysUnique
<1>1. IInv => KeysUnique
  BY DEF IInv, Table
<1>2. QED
  BY <1>1, Invariance, PTL

\* The managed trackers always have the keys of the document reconciled last,
\* less what was deleted since, and are as it says: handleUpdateTracker edits
\* one only when its look found no tracker.
THEOREM ManagedFollowDocument == Spec => []FollowsDocument
<1>1. IInv => FollowsDocument
  BY DEF IInv
<1>2. QED
  BY <1>1, Invariance, PTL

-----------------------------------------------------------------------------
(***************************************************************************)
(* The tracker table and its handlers implement TrackerSet, for any number *)
(* of keys, names, ids and concurrent handlers, but for updates that write *)
(* blindly.                                                                *)
(***************************************************************************)
\* The abstract state a table stands for.
Own == [id \in Ids |-> IF Exists(id) /\ ~Managed(id) THEN Entry(rows[id]) ELSE Absent]
ManagedBy == [k \in Keys |-> IF Existing[k] = 0 THEN Absent
               ELSE [id |-> Existing[k], entry |-> Entry(rows[Existing[k]])]]
Used == {id \in Ids : id < next}

\* A row stands for an entry.
EntriesOfRows == \A id \in Ids : Exists(id) =>
  Entry(rows[id]) \in Requests /\ Entry(rows[id]) # Absent

LEMMA RowsHaveEntries == TableOK => EntriesOfRows
<1> SUFFICES ASSUME TableOK, NEW id \in Ids, Exists(id)
             PROVE  Entry(rows[id]) \in Requests /\ Entry(rows[id]) # Absent
  BY DEF EntriesOfRows
<1>1. rows[id] \in Rows
  BY DEF TableOK, Exists
<1>2. Entry(rows[id]) \in Requests
  BY <1>1 DEF Entry, Rows, Requests
<1> QED
  BY <1>2, AbsentAssumption

\* A key is managed by its only row, or not at all.
ManagedByRows == \A k \in Keys :
  /\ (\A id \in Ids : Managed(id) => rows[id].key # k) => ManagedBy[k] = Absent
  /\ \A id \in Ids : Managed(id) /\ rows[id].key = k =>
       ManagedBy[k] = [id |-> id, entry |-> Entry(rows[id])] /\ ManagedBy[k] # Absent

LEMMA RowsManage == Table => ManagedByRows
<1> SUFFICES ASSUME Table, NEW k \in Keys
             PROVE  /\ (\A id \in Ids : Managed(id) => rows[id].key # k) => ManagedBy[k] = Absent
                    /\ \A id \in Ids : Managed(id) /\ rows[id].key = k =>
                         /\ ManagedBy[k] = [id |-> id, entry |-> Entry(rows[id])]
                         /\ ManagedBy[k] # Absent
  BY DEF ManagedByRows
<1>1. Existing \in [Keys -> 0 .. MaxIds] /\ Knows(Existing)
  BY ExistingKnows
<1>2. ASSUME \A id \in Ids : Managed(id) => rows[id].key # k PROVE ManagedBy[k] = Absent
  <2>1. Existing[k] = 0
    BY <1>1, <1>2 DEF Knows
  <2> QED
    BY <2>1 DEF ManagedBy
<1>3. ASSUME NEW id \in Ids, Managed(id), rows[id].key = k
      PROVE  /\ ManagedBy[k] = [id |-> id, entry |-> Entry(rows[id])]
             /\ ManagedBy[k] # Absent
  <2>1. Existing[k] # 0
    BY <1>1, <1>3 DEF Knows
  <2>2. Existing[k] = id
    BY <1>1, <1>3, <2>1 DEF Knows, Table, KeysUnique
  <2>3. ManagedBy[k] = [id |-> id, entry |-> Entry(rows[id])]
    BY <2>1, <2>2 DEF ManagedBy
  <2>4. [id |-> id, entry |-> Entry(rows[id])] \in [id : Ids, entry : Requests]
    <3> QED
      BY <1>3, RowsHaveEntries DEF EntriesOfRows, Managed, Table
  <2> QED
    BY <2>3, <2>4, AbsentAssumption
<1> QED
  BY <1>2, <1>3

\* The same of the next state.
LEMMA NextTable == Table' => EntriesOfRows' /\ ManagedByRows'
<1>1. Table => EntriesOfRows /\ ManagedByRows
  BY RowsHaveEntries, RowsManage DEF Table
<1> QED
  BY <1>1, PTL

-----------------------------------------------------------------------------
(***************************************************************************)
(* What steps leave alone.                                                 *)
(***************************************************************************)
LEMMA SameManaged ==
  ASSUME Table, Table', \A id \in Ids : Managed(id) \/ Managed(id)' => rows'[id] = rows[id]
  PROVE  ManagedBy' = ManagedBy
<1>1. ManagedByRows /\ ManagedByRows'
  BY RowsManage, NextTable
<1>2. \A id \in Ids : (Managed(id)' <=> Managed(id)) /\ (Managed(id) => rows'[id] = rows[id])
  BY DEF Managed, Exists
<1>3. ASSUME NEW k \in Keys PROVE ManagedBy'[k] = ManagedBy[k]
  <2>1. CASE \E id \in Ids : Managed(id) /\ rows[id].key = k
    <3>1. PICK id \in Ids : Managed(id) /\ rows[id].key = k
      BY <2>1
    <3>2. Managed(id)' /\ rows'[id] = rows[id] /\ rows'[id].key = k
      BY <1>2, <3>1
    <3>3. ManagedBy[k] = [id |-> id, entry |-> Entry(rows[id])]
      BY <1>1, <3>1 DEF ManagedByRows
    <3>4. ManagedBy'[k] = [id |-> id, entry |-> Entry(rows'[id])]
      BY <1>1, <3>2 DEF ManagedByRows, Entry
    <3> QED
      BY <3>2, <3>3, <3>4
  <2>2. CASE ~\E id \in Ids : Managed(id) /\ rows[id].key = k
    <3>1. \A id \in Ids : Managed(id)' => rows'[id].key # k
      BY <1>2, <2>2
    <3> QED
      BY <1>1, <2>2, <3>1 DEF ManagedByRows
  <2> QED
    BY <2>1, <2>2
<1> QED
  BY <1>3 DEF ManagedBy

LEMMA SameTable ==
  ASSUME rows' = rows, next' = next
  PROVE  Own' = Own /\ ManagedBy' = ManagedBy /\ Used' = Used
<1>1. Existing' = Existing
  BY DEF Existing, Managed, Exists
<1> QED
  BY <1>1 DEF Own, ManagedBy, Used, Managed, Exists, Entry

-----------------------------------------------------------------------------
(***************************************************************************)
(* One abstract step for each kind of write.                               *)
(***************************************************************************)
LEMMA CreateMapped ==
  ASSUME Table, Table', NEW entry \in Entries, Create(entry)
  PROVE  Set!Next
<1> DEFINE row == [key |-> NoKey, name |-> entry.name, cfg |-> entry.cfg]
<1>1. PICK id \in Ids : id = next
  BY DEF Create
<1>2. rows' = [rows EXCEPT ![id] = row] /\ next' = id + 1
  BY <1>1 DEF Create
<1>3. ~Exists(id)
  BY <1>1 DEF Table, IdsInOrder, Ids
<1>4. rows'[id] = row /\ \A i \in Ids : i # id => rows'[i] = rows[i]
  BY <1>2 DEF Table, TableOK
<1>5. row \in Rows /\ row # Absent
  BY AbsentAssumption DEF Rows, Entries
<1>6. Exists(id)' /\ ~Managed(id)'
  BY <1>4, <1>5 DEF Managed, Exists
<1>7. Own' = [Own EXCEPT ![id] = Entry(rows[id])']
  BY <1>4, <1>6 DEF Own, Managed, Exists, Entry
<1>8. ManagedBy' = ManagedBy
  <2>1. \A i \in Ids : Managed(i) \/ Managed(i)' => rows'[i] = rows[i]
    BY <1>3, <1>4, <1>6 DEF Managed
  <2> QED
    BY <2>1, SameManaged
<1>9. Used' = Used \cup {id} /\ id \notin Used
  BY <1>1, <1>2, TrackersAssumption DEF Used, Ids
<1>10. Entry(rows[id])' \in Requests
  BY <1>6, NextTable DEF EntriesOfRows
<1> QED
  BY <1>7, <1>8, <1>9, <1>10 DEF Set!Next, Set!Add, Own, ManagedBy, Used

LEMMA UpdateMapped ==
  ASSUME Table, Table', UNCHANGED next, NEW id \in Ids, Exists(id), ~Managed(id),
         Exists(id)', ~Managed(id)', \A i \in Ids : i # id => rows'[i] = rows[i]
  PROVE  Set!Next
<1>1. Own' = [Own EXCEPT ![id] = Entry(rows[id])']
  BY DEF Own, Managed, Exists, Entry
<1>2. ManagedBy' = ManagedBy
  <2>1. \A i \in Ids : Managed(i) \/ Managed(i)' => rows'[i] = rows[i]
    OBVIOUS
  <2> QED
    BY <2>1, SameManaged
<1>3. Used' = Used
  BY DEF Used
<1>4. Entry(rows[id])' \in Requests
  BY NextTable DEF EntriesOfRows
<1>5. Own[id] # Absent
  BY RowsHaveEntries DEF Own, EntriesOfRows, Table
<1> QED
  BY <1>1, <1>2, <1>3, <1>4, <1>5 DEF Set!Next, Set!Edit, Set!Owned, Own, ManagedBy, Used

LEMMA DeleteMapped ==
  ASSUME Table, Table', NEW id \in Ids, Delete(id)
  PROVE  Set!Next
<1>1. Exists(id) /\ next' = next /\ rows' = [rows EXCEPT ![id] = Absent]
  BY DEF Delete
<1>2. rows'[id] = Absent /\ \A i \in Ids : i # id => rows'[i] = rows[i]
  BY <1>1 DEF Table, TableOK
<1>3. Used' = Used
  BY <1>1 DEF Used
<1>4. CASE ~Managed(id)
  <2>1. Own' = [Own EXCEPT ![id] = Absent]
    BY <1>2 DEF Own, Managed, Exists, Entry
  <2>2. ManagedBy' = ManagedBy
    <3>1. \A i \in Ids : Managed(i) \/ Managed(i)' => rows'[i] = rows[i]
      BY <1>2, <1>4 DEF Managed, Exists
    <3> QED
      BY <3>1, SameManaged
  <2>3. Own[id] # Absent
    BY <1>1, <1>4, RowsHaveEntries DEF Own, EntriesOfRows, Table
  <2> QED
    BY <1>3, <2>1, <2>2, <2>3 DEF Set!Next, Set!RemoveOwn, Set!Owned, Own, ManagedBy, Used
<1>5. CASE Managed(id)
  <2> DEFINE key == rows[id].key
  <2>1. key \in Keys
    BY <1>5 DEF Table, TableOK, Rows, Managed, Exists
  <2>2. Own' = Own
    BY <1>2, <1>5 DEF Own, Managed, Exists, Entry
  <2>3. ManagedByRows /\ ManagedByRows'
    BY RowsManage, NextTable
  <2>4. ManagedBy[key] # Absent
    BY <1>5, <2>1, <2>3 DEF ManagedByRows
  <2>5. ManagedBy'[key] = Absent
    <3>1. \A i \in Ids : Managed(i)' => rows'[i].key # key
      BY <1>2, <1>5 DEF Table, KeysUnique, Managed, Exists
    <3> QED
      BY <2>1, <2>3, <3>1 DEF ManagedByRows
  <2>6. ASSUME NEW k \in Keys, k # key PROVE ManagedBy'[k] = ManagedBy[k]
    <3>1. CASE \E i \in Ids : Managed(i) /\ rows[i].key = k
      <4>1. PICK i \in Ids : Managed(i) /\ rows[i].key = k
        BY <3>1
      <4>2. Managed(i)' /\ rows'[i] = rows[i] /\ rows'[i].key = k
        BY <1>2, <2>6, <4>1 DEF Managed, Exists
      <4>3. ManagedBy[k] = [id |-> i, entry |-> Entry(rows[i])]
        BY <2>3, <4>1 DEF ManagedByRows
      <4>4. ManagedBy'[k] = [id |-> i, entry |-> Entry(rows'[i])]
        BY <2>3, <4>2 DEF ManagedByRows, Entry
      <4> QED
        BY <4>2, <4>3, <4>4
    <3>2. CASE ~\E i \in Ids : Managed(i) /\ rows[i].key = k
      <4>1. \A i \in Ids : Managed(i)' => rows'[i].key # k
        BY <1>2, <3>2 DEF Managed, Exists
      <4> QED
        BY <2>3, <3>2, <4>1 DEF ManagedByRows
    <3> QED
      BY <3>1, <3>2
  <2>7. ManagedBy' = [ManagedBy EXCEPT ![key] = Absent]
    BY <2>1, <2>5, <2>6 DEF ManagedBy
  <2> QED
    BY <1>3, <2>1, <2>2, <2>4, <2>7
    DEF Set!Next, Set!RemoveManaged, Set!Managing, Own, ManagedBy, Used
<1> QED
  BY <1>4, <1>5

LEMMA ClearMapped == ASSUME Table, Table', Clear PROVE Set!Next
<1>1. next' = next /\ rows' = [id \in Ids |-> Absent]
  BY DEF Clear
<1>2. \A id \in Ids : ~Exists(id)' /\ ~Managed(id)'
  BY <1>1 DEF Managed, Exists
<1>3. Own' = [id \in Ids |-> Absent]
  BY <1>2 DEF Own
<1>4. ManagedBy' = [k \in Keys |-> Absent]
  <2>1. \A k \in Keys : ManagedBy'[k] = Absent
    BY <1>2, NextTable DEF ManagedByRows
  <2> QED
    BY <2>1 DEF ManagedBy
<1>5. Used' = Used
  BY <1>1 DEF Used
<1> QED
  BY <1>3, <1>4, <1>5 DEF Set!Next, Set!RemoveAll, Own, ManagedBy, Used

\* A reload, an import or a start replaces the managed trackers.
LEMMA ReplaceMapped ==
  ASSUME Table, Table', NEW d \in Documents, NEW known \in [Keys -> 0 .. MaxIds],
         Knows(known), Reconciled(d, known)
  PROVE  Set!Next
<1> DEFINE new == {k \in DOMAIN d : known[k] = 0}
           fresh == {id \in Ids : next <= id /\ id < next'}
<1>1. next' \in next .. MaxIds + 1 /\ next \in Nat /\ next' \in Nat
  BY ReconciledRows, TrackersAssumption DEF Table, TableOK
<1>2. PICK born \in [fresh -> new] :
        /\ \A i, j \in fresh : born[i] = born[j] => i = j
        /\ \A k \in new : \E i \in fresh : born[i] = k
        /\ rows' \in [Ids -> Rows \cup {Absent}]
        /\ \A id \in Ids :
             /\ id \in fresh => rows'[id] = FileRow(d, born[id])
             /\ id \notin fresh /\ ~Managed(id) => rows'[id] = rows[id]
             /\ id \notin fresh /\ Managed(id) =>
                  rows'[id] = IF rows[id].key \in DOMAIN d
                              THEN FileRow(d, rows[id].key) ELSE Absent
  BY ReconciledRows
<1>3. /\ \A id \in fresh : id \in Ids /\ id \notin Used /\ id \in Used' /\ ~Exists(id)
      /\ \A id \in Used' : id \in Ids /\ (id \in fresh \/ id \in Used)
      /\ Used \subseteq Used'
  BY <1>1 DEF Used, Ids, Table, IdsInOrder
<1>4. /\ DOMAIN d \subseteq Keys
      /\ \A k \in DOMAIN d : FileRow(d, k).key = k /\ k # NoKey /\ FileRow(d, k) # Absent
  BY Rowed
<1> HIDE DEF fresh
<1>5. ManagedByRows /\ ManagedByRows'
  BY RowsManage, NextTable
\* The tracker of each key of d, before and after.
<1> DEFINE Of(k, id) ==
             /\ rows'[id] = FileRow(d, k)
             /\ known[k] = 0 => id \in fresh /\ born[id] = k /\ ManagedBy[k] = Absent
             /\ known[k] # 0 => id \in Used /\ ManagedBy[k] # Absent /\ ManagedBy[k].id = id
<1>6. ASSUME NEW k \in DOMAIN d PROVE \E id \in Ids : Of(k, id)
  <2>1. CASE known[k] = 0
    <3>1. PICK id \in fresh : born[id] = k
      BY <1>2, <2>1
    <3>2. id \in Ids /\ rows'[id] = FileRow(d, k)
      BY <1>2, <1>3, <3>1
    <3>3. ManagedBy[k] = Absent
      BY <1>4, <1>5, <2>1 DEF Knows, ManagedByRows
    <3> QED
      BY <2>1, <3>1, <3>2, <3>3
  <2>2. CASE known[k] # 0
    <3>1. PICK id \in Ids : id = known[k] /\ Managed(id) /\ rows[id].key = k
      BY <1>4, <2>2 DEF Knows
    <3>2. id \in Used /\ id \notin fresh
      BY <1>3, <3>1 DEF Used, Table, IdsInOrder, Managed
    <3>3. rows'[id] = FileRow(d, k)
      BY <1>2, <3>1, <3>2
    <3>4. ManagedBy[k] = [id |-> id, entry |-> Entry(rows[id])] /\ ManagedBy[k] # Absent
      BY <1>4, <1>5, <3>1 DEF ManagedByRows
    <3> QED
      BY <2>2, <3>2, <3>3, <3>4
  <2> QED
    BY <2>1, <2>2
<1>7. PICK ids \in [DOMAIN d -> Ids] : \A k \in DOMAIN d : Of(k, ids[k])
  <2> HIDE DEF Of
  <2> DEFINE tracker == [k \in DOMAIN d |-> CHOOSE id \in Ids : Of(k, id)]
  <2>1. tracker \in [DOMAIN d -> Ids] /\ \A k \in DOMAIN d : Of(k, tracker[k])
    BY <1>6
  <2> QED
    BY <2>1
<1>8. \A k, l \in DOMAIN d : ids[k] = ids[l] => k = l
  BY <1>4, <1>7
<1>9. \A k \in DOMAIN d : IF k \in {l \in Keys : ManagedBy[l] # Absent}
                          THEN ids[k] = ManagedBy[k].id ELSE ids[k] \notin Used
  BY <1>3, <1>4, <1>7
<1>10. PICK K \in SUBSET Keys : d \in [K -> Entries]
  BY DEF Documents
<1>11. ManagedBy' = [k \in Keys |->
         IF k \in DOMAIN d THEN [id |-> ids[k], entry |-> d[k]] ELSE Absent]
  <2>1. ASSUME NEW k \in DOMAIN d PROVE ManagedBy'[k] = [id |-> ids[k], entry |-> d[k]]
    <3>1. Entry(FileRow(d, k)) = d[k]
      BY <1>10, <2>1 DEF Entry, FileRow, Entries
    <3>2. rows'[ids[k]] = FileRow(d, k)
      BY <1>7
    <3>3. PICK id \in Ids : id = ids[k]
      BY <1>7
    <3>4. Managed(id)' /\ rows'[id].key = k
      BY <1>4, <3>2, <3>3 DEF Managed, Exists
    <3>5. ManagedBy'[k] = [id |-> id, entry |-> Entry(rows[id])']
      BY <1>4, <1>5, <3>4 DEF ManagedByRows
    <3>6. Entry(rows[id])' = d[k]
      BY <3>1, <3>2, <3>3 DEF Entry
    <3> QED
      BY <3>3, <3>5, <3>6
  <2>2. ASSUME NEW k \in Keys, k \notin DOMAIN d PROVE ManagedBy'[k] = Absent
    <3>1. \A id \in Ids : Managed(id)' => rows'[id].key # k
      <4>1. \A id \in Ids : Managed(id)' => rows'[id].key \in DOMAIN d
        BY ReconciledTable
      <4> QED
        BY <2>2, <4>1
    <3> QED
      BY <1>5, <3>1 DEF ManagedByRows
  <2>3. DOMAIN ManagedBy' = Keys /\ ManagedBy' = [k \in Keys |-> ManagedBy'[k]]
    BY DEF ManagedBy
  <2> QED
    BY <2>1, <2>2, <2>3
<1>12. Used' = Used \cup {ids[k] : k \in DOMAIN d}
  <2>1. \A k \in DOMAIN d : ids[k] \in Used'
    BY <1>3, <1>7
  <2>2. \A id \in fresh : \E k \in DOMAIN d : ids[k] = id
    <3>1. TAKE id \in fresh
    <3>2. born[id] \in DOMAIN d /\ known[born[id]] = 0
      BY <1>2
    <3>3. ids[born[id]] \in fresh /\ born[ids[born[id]]] = born[id]
      BY <1>7, <3>2
    <3>4. ids[born[id]] = id
      BY <1>2, <3>3
    <3> QED
      BY <3>2, <3>4
  <2> QED
    BY <1>3, <2>1, <2>2
<1>13. Own' = Own
  <2>1. ASSUME NEW id \in Ids PROVE Own'[id] = Own[id]
    <3>1. CASE id \in fresh
      <4>1. Managed(id)'
        BY <1>2, <1>4, <3>1 DEF Managed, Exists
      <4> QED
        BY <1>3, <3>1, <4>1 DEF Own
    <3>2. CASE id \notin fresh /\ ~Managed(id)
      BY <1>2, <3>2 DEF Own, Managed, Exists, Entry
    <3>3. CASE id \notin fresh /\ Managed(id)
      <4>1. ~Exists(id)' \/ Managed(id)'
        BY <1>2, <1>4, <3>3 DEF Managed, Exists
      <4> QED
        BY <3>3, <4>1 DEF Own
    <3> QED
      BY <3>1, <3>2, <3>3
  <2> QED
    BY <2>1 DEF Own
<1>14. d \in Set!Documents
  <2>1. Entries \subseteq Requests
    BY DEF Entries, Requests
  <2>2. d \in [K -> Requests]
    BY <1>10, <2>1
  <2> QED
    BY <2>2 DEF Set!Documents
<1>15. Set!Replace(d)
  BY <1>7, <1>8, <1>9, <1>11, <1>12, <1>13
  DEF Set!Replace, Set!Managing, Own, ManagedBy, Used
<1> QED
  BY <1>14, <1>15 DEF Set!Next

-----------------------------------------------------------------------------
abstract == <<Own, ManagedBy, Used>>

\* A blind update of a managed row is the step TrackerSet does not know.
LEMMA BlindMapped ==
  ASSUME Table, Table', UNCHANGED next, NEW id \in Ids, Managed(id),
         rows'[id] \in Rows, rows'[id].key = rows[id].key,
         \A i \in Ids : i # id => rows'[i] = rows[i]
  PROVE  \E k \in Keys, entry \in Requests : Set!EditManaged(k, entry)
<1> DEFINE key == rows[id].key
           entry == Entry(rows[id])'
<1>1. key \in Keys /\ key # NoKey
  BY DEF Table, TableOK, Rows, Managed, Exists
<1>2. Managed(id)' /\ rows'[id].key = key
  BY <1>1, AbsentAssumption DEF Managed, Exists
<1>3. ManagedByRows /\ ManagedByRows'
  BY RowsManage, NextTable
<1>4. ManagedBy[key] = [id |-> id, entry |-> Entry(rows[id])] /\ ManagedBy[key] # Absent
  BY <1>1, <1>3 DEF ManagedByRows
<1>5. ManagedBy'[key] = [id |-> id, entry |-> entry]
  BY <1>1, <1>2, <1>3 DEF ManagedByRows
<1>6. ASSUME NEW k \in Keys, k # key PROVE ManagedBy'[k] = ManagedBy[k]
  <2>1. CASE \E i \in Ids : Managed(i) /\ rows[i].key = k
    <3>1. PICK i \in Ids : Managed(i) /\ rows[i].key = k
      BY <2>1
    <3>2. Managed(i)' /\ rows'[i] = rows[i] /\ rows'[i].key = k
      BY <1>6, <3>1 DEF Managed, Exists
    <3>3. ManagedBy[k] = [id |-> i, entry |-> Entry(rows[i])]
      BY <1>3, <3>1 DEF ManagedByRows
    <3>4. ManagedBy'[k] = [id |-> i, entry |-> Entry(rows'[i])]
      BY <1>3, <3>2 DEF ManagedByRows, Entry
    <3> QED
      BY <3>2, <3>3, <3>4
  <2>2. CASE ~\E i \in Ids : Managed(i) /\ rows[i].key = k
    <3>1. \A i \in Ids : Managed(i)' => rows'[i].key # k
      BY <1>2, <1>6, <2>2 DEF Managed, Exists
    <3> QED
      BY <1>3, <2>2, <3>1 DEF ManagedByRows
  <2> QED
    BY <2>1, <2>2
<1> HIDE DEF key, entry
<1>7. ManagedBy' = [ManagedBy EXCEPT ![key].entry = entry]
  BY <1>1, <1>4, <1>5, <1>6 DEF ManagedBy
<1>8. Own' = Own /\ Used' = Used
  BY <1>2 DEF Own, Used, Managed, Exists, Entry
<1>9. entry \in Requests
  BY <1>2, NextTable DEF EntriesOfRows, Managed, entry
<1> QED
  BY <1>1, <1>4, <1>7, <1>8, <1>9 DEF Set!EditManaged, Set!Managing, Own, ManagedBy, Used

LEMMA UpdateWriteMapped ==
  ASSUME IInv, IInv', NEW h \in Handlers, UpdateWrite(h)
  PROVE  Set!Next \/ Overlooked \/ UNCHANGED abstract
<1> DEFINE p == put[h]
<1>1. pc[h] = "write" /\ next' = next /\ Table /\ Table'
  BY DEF UpdateWrite, IInv
<1>2. CASE rows' = rows
  BY <1>1, <1>2, SameTable DEF abstract
<1>3. CASE Exists(p.id) /\ Written(p, NewName(p)) /\ Blindly(p)
  <2>1. PICK id \in Ids :
          /\ id = p.id /\ Exists(id)
          /\ \A i \in Ids : i # id => rows'[i] = rows[i]
          /\ rows'[id] \in Rows /\ rows'[id].key = rows[id].key
          /\ p.existing # Absent => ~Managed(id)
    BY <1>1, <1>3, WrittenRow
  <2>2. CASE Managed(id)
    <3>1. p.existing = Absent
      BY <2>1, <2>2
    <3>2. \E k \in Keys, entry \in Requests : Set!EditManaged(k, entry)
      BY <1>1, <2>1, <2>2, BlindMapped
    <3> QED
      BY <1>1, <3>1, <3>2 DEF Overlooked
  <2>3. CASE ~Managed(id)
    <3>1. Exists(id)' /\ ~Managed(id)'
      BY <2>1, <2>3, AbsentAssumption DEF Managed, Exists
    <3> QED
      BY <1>1, <2>1, <2>3, <3>1, UpdateMapped
  <2> QED
    BY <2>2, <2>3
<1> QED
  BY <1>2, <1>3 DEF UpdateWrite

LEMMA FileMapped ==
  ASSUME IInv, IInv', (\E h \in Handlers : FileCommit(h))
                      \/ (\E withConfig \in BOOLEAN : Restart(withConfig))
  PROVE  Set!Next \/ UNCHANGED abstract
<1>1. Table /\ Table'
  BY DEF IInv
<1>2. ASSUME NEW h \in Handlers, FileCommit(h) PROVE Set!Next \/ UNCHANGED abstract
  <2>1. CASE h \notin stale /\ Reconciled(doc[h], seen[h])
    <3>1. doc[h] \in Documents /\ seen[h] \in [Keys -> 0 .. MaxIds] /\ Knows(seen[h])
      BY <1>2, <2>1 DEF FileCommit, IInv, HandlersOK, SnapshotsKnow
    <3> QED
      BY <1>1, <2>1, <3>1, ReplaceMapped
  <2>2. CASE UNCHANGED tableVars
    BY <2>2, SameTable DEF tableVars, abstract
  <2> QED
    BY <1>2, <2>1, <2>2 DEF FileCommit
<1>3. ASSUME NEW withConfig \in BOOLEAN, Restart(withConfig)
      PROVE  Set!Next \/ UNCHANGED abstract
  <2> DEFINE d == IF withConfig THEN file ELSE Empty
  <2>1. d \in Documents
    BY Initially DEF IInv, DocumentsOK
  <2>2. Reconciled(d, Existing) \/ UNCHANGED tableVars
    BY <1>3 DEF Restart
  <2> HIDE DEF d
  <2>3. CASE Reconciled(d, Existing)
    BY <1>1, <2>1, <2>3, ExistingKnows, ReplaceMapped
  <2>4. CASE UNCHANGED tableVars
    BY <2>4, SameTable DEF tableVars, abstract
  <2> QED
    BY <2>2, <2>3, <2>4
<1> QED
  BY <1>2, <1>3

LEMMA StepMapped ==
  ASSUME IInv, IInv', [Next]_vars
  PROVE  Set!Next \/ Overlooked \/ UNCHANGED abstract
<1>1. Table /\ Table'
  BY DEF IInv
<1>2. CASE \E entry \in Entries : Create(entry)
  BY <1>1, <1>2, CreateMapped
<1>3. CASE \E id \in Ids : Delete(id)
  BY <1>1, <1>3, DeleteMapped
<1>4. CASE Clear
  BY <1>1, <1>4, ClearMapped
<1>5. CASE \E h \in Handlers : UpdateWrite(h)
  BY <1>5, UpdateWriteMapped
<1>6. CASE \/ \E h \in Handlers : FileCommit(h)
           \/ \E withConfig \in BOOLEAN : Restart(withConfig)
  BY <1>6, FileMapped
<1>7. CASE UNCHANGED tableVars
  BY <1>7, SameTable DEF tableVars, abstract
<1>8. ASSUME NEW h \in Handlers,
             \/ \E id \in Ids, request \in Requests : UpdateLook(h, id, request)
             \/ Reload(h) \/ \E d \in Documents : Import(h, d)
             \/ FileBegin(h) \/ GiveUp(h)
      PROVE  UNCHANGED tableVars
  BY <1>8 DEF UpdateLook, Asks, Reload, Import, Loads, FileBegin, GiveUp, tableVars
<1>9. ASSUME (\E d \in Documents : EditFile(d)) \/ UNCHANGED vars PROVE UNCHANGED tableVars
  BY <1>9 DEF EditFile, vars, tableVars
<1> QED
  BY <1>2, <1>3, <1>4, <1>5, <1>6, <1>7, <1>8, <1>9 DEF Next

\* Whatever requests, reloads, imports and restarts overlap, the trackers are a
\* TrackerSet: an edit reaches only a tracker of the user's own, unless its look
\* had found no tracker, a document replaces the managed ones as a whole and
\* keeps the ids of the keys it still names, and no id is given twice (handlers
\* of internal/server/server.go, ReconcileFileTrackers).
THEOREM TrackersImplementSet == Spec => ImplementsTrackerSet
<1>1. Init => Set!Init
  <2> SUFFICES ASSUME Init PROVE Set!Init
    OBVIOUS
  <2>1. \A id \in Ids : ~Exists(id) /\ ~Managed(id)
    BY DEF Init, Managed, Exists
  <2>2. Own = [id \in Ids |-> Absent]
    BY <2>1 DEF Own
  <2>3. ManagedBy = [k \in Keys |-> Absent]
    <3>1. Existing = [k \in Keys |-> 0]
      BY <2>1 DEF Existing
    <3> QED
      BY <3>1 DEF ManagedBy
  <2>4. Used = {}
    BY TrackersAssumption DEF Init, Used, Ids
  <2> QED
    BY <2>2, <2>3, <2>4 DEF Set!Init, Own, ManagedBy, Used
<1>2. IInv /\ IInv' /\ [Next]_vars => [Set!Next \/ Overlooked]_abstract
  BY StepMapped
<1> QED
  BY <1>1, <1>2, Invariance, PTL
  DEF Spec, ImplementsTrackerSet, Set!vars, abstract, Own, ManagedBy, Used
=============================================================================
