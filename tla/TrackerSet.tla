----------------------------- MODULE TrackerSet -----------------------------
(***************************************************************************)
(* What plugdash promises of its trackers (the hybrid model of             *)
(* internal/config and internal/store): trackers of the user's own, which  *)
(* only their user edits, beside managed ones, which are replaced as a     *)
(* whole by a document, never edited, and keep their id while the document *)
(* names their key.  No id is ever given to a second tracker.              *)
(***************************************************************************)
EXTENDS Naturals

CONSTANTS Keys, Entries, Ids, None

VARIABLES
  own,      \* entry of each tracker of the user's own, by id
  managed,  \* id and entry of each managed tracker, by key
  used      \* ids given so far

vars == <<own, managed, used>>

Owned == {id \in Ids : own[id] # None}
Managing == {k \in Keys : managed[k] # None}

Init ==
  /\ own = [id \in Ids |-> None]
  /\ managed = [k \in Keys |-> None]
  /\ used = {}

\* The user adds a tracker,
Add(id, entry) ==
  /\ id \in Ids \ used
  /\ own' = [own EXCEPT ![id] = entry] /\ used' = used \cup {id}
  /\ UNCHANGED managed

\* edits one of the user's own,
Edit(id, entry) ==
  /\ id \in Owned
  /\ own' = [own EXCEPT ![id] = entry]
  /\ UNCHANGED <<managed, used>>

\* or removes any of them.
RemoveOwn(id) ==
  /\ id \in Owned
  /\ own' = [own EXCEPT ![id] = None]
  /\ UNCHANGED <<managed, used>>

RemoveManaged(k) ==
  /\ k \in Managing
  /\ managed' = [managed EXCEPT ![k] = None]
  /\ UNCHANGED <<own, used>>

\* What the promise excludes, named for those who break it (not in Next): a
\* managed tracker is edited.
EditManaged(k, entry) ==
  /\ k \in Managing
  /\ managed' = [managed EXCEPT ![k].entry = entry]
  /\ UNCHANGED <<own, used>>

RemoveAll ==
  /\ own' = [id \in Ids |-> None]
  /\ managed' = [k \in Keys |-> None]
  /\ UNCHANGED used

\* A document d (entries by key) replaces the managed trackers.
Replace(d) ==
  \E ids \in [DOMAIN d -> Ids] :
    /\ \A k \in DOMAIN d :
         IF k \in Managing THEN ids[k] = managed[k].id ELSE ids[k] \notin used
    /\ \A k, l \in DOMAIN d : ids[k] = ids[l] => k = l
    /\ managed' = [k \in Keys |->
         IF k \in DOMAIN d THEN [id |-> ids[k], entry |-> d[k]] ELSE None]
    /\ used' = used \cup {ids[k] : k \in DOMAIN d}
    /\ UNCHANGED own

Documents == UNION {[K -> Entries] : K \in SUBSET Keys}

Next ==
  \/ \E id \in Ids, entry \in Entries : Add(id, entry) \/ Edit(id, entry)
  \/ \E id \in Ids : RemoveOwn(id)
  \/ \E k \in Keys : RemoveManaged(k)
  \/ RemoveAll
  \/ \E d \in Documents : Replace(d)

Spec == Init /\ [][Next]_vars
=============================================================================
