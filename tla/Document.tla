------------------------------ MODULE Document ------------------------------
(***************************************************************************)
(* The config document: what Marshal writes of the trackers, what Parse    *)
(* makes of a document, and what a round trip through an import leaves.    *)
(*                                                                         *)
(* A key is a sequence of words.  A name is its slug, which is such a      *)
(* sequence too and may be empty, with its look: capitals and punctuation, *)
(* which slugify drops.  Ids count as words, since Marshal appends them.   *)
(***************************************************************************)
EXTENDS Kept

CONSTANTS
  Names,       \* names of trackers: [slug, look]
  Handwritten, \* documents somebody wrote: sequences of [plugin, key, name]
  MaxId        \* bound on ids

NoName == [slug |-> <<>>, look |-> "blank"]
IsSeq(s) == s \in Seq(ToSet(s))
(* The server refuses a blank name; a document may leave out a name, but no field. *)
ASSUME DocumentAssumption ==
  /\ MaxId \in Nat \ {0}
  /\ \A n \in Names : n # NoName /\ IsSeq(n.slug)
  /\ \A d \in Handwritten :
       /\ IsSeq(d)
       /\ \A i \in DOMAIN d :
            /\ d[i] = [plugin |-> d[i].plugin, key |-> d[i].key, name |-> d[i].name]
            /\ IsSeq(d[i].key) /\ IsSeq(d[i].name.slug)

VARIABLES
  listed,      \* the trackers as ListTrackers returns them: [id, key, name], key <<>> for the user's own
  doc,         \* a document
  stage        \* what comes next of it: "trackers" (no matter), "written", "parsed", "rejected"

documentVars == <<listed, doc, stage>>

TrackerWord == 0                              \* the "tracker" of "tracker-<id>"
slugify(name) == name.slug
Named(key) == [slug |-> key, look |-> "key"]  \* a key as a name
Keys(entries) == {entries[i].key : i \in DOMAIN entries}

-----------------------------------------------------------------------------
(* The key a tracker has or, of its own, would get. *)
BaseKey(t) ==
  IF t.key # <<>> THEN t.key
  ELSE IF slugify(t.name) # <<>> THEN slugify(t.name) ELSE <<TrackerWord, t.id>>

\* Mutant: keys that collide stay as they are.
MarshalBare(trackers) == [i \in DOMAIN trackers |->
  [plugin |-> "p", name |-> trackers[i].name, key |-> BaseKey(trackers[i])]]

Marshal(trackers) ==
  FoldLeft(LAMBDA out, t :
             Append(out, [plugin |-> "p", name |-> t.name,
                          key |-> IF BaseKey(t) \in Keys(out) THEN Append(BaseKey(t), t.id) ELSE BaseKey(t)]),
           <<>>, trackers)

\* Mutant: two trackers may have one key.
normalizeLenient(entries) ==
  LET key(i) == IF entries[i].key # <<>> THEN entries[i].key ELSE slugify(entries[i].name)
      full == [i \in DOMAIN entries |->
                [entries[i] EXCEPT !.key = key(i), !.name = IF @ = NoName THEN Named(key(i)) ELSE @]]
  IN [doc |-> full, ok |-> \A i \in DOMAIN full : full[i].plugin # "" /\ full[i].key # <<>>]

(* Missing keys come from the names and missing names from the keys. *)
normalize(entries) ==
  LET key(i) == IF entries[i].key # <<>> THEN entries[i].key ELSE slugify(entries[i].name)
      full == [i \in DOMAIN entries |->
                [entries[i] EXCEPT !.key = key(i), !.name = IF @ = NoName THEN Named(key(i)) ELSE @]]
  IN [doc |-> full,
      ok  |-> /\ \A i \in DOMAIN full : full[i].plugin # "" /\ full[i].key # <<>>
              /\ \A i, j \in DOMAIN full : full[i].key = full[j].key => i = j]

\* Mutant: trackers that are known are not updated.
FileTrackersOnce(entries) ==
  LET kept == Kept(listed, {t \in ToSet(listed) : t.key = <<>> \/ t.key \in Keys(entries)})
      new == Kept(entries, {e \in ToSet(entries) : e.key \notin Keys(listed)})
      free == Max({listed[i].id : i \in DOMAIN listed} \cup {0})
  IN kept \o [i \in DOMAIN new |-> [id |-> free + i, key |-> new[i].key, name |-> new[i].name]]

(* The reconcile of the document: managed trackers the document has keep   *)
(* their place and id, the others go, and new ones come last.  An id is    *)
(* never used again, but of those that are gone nothing here remembers     *)
(* any, so the next is the least above the rest.                           *)
FileTrackers(entries) ==
  LET entry(key) == entries[CHOOSE i \in DOMAIN entries : entries[i].key = key]
      kept == Kept(listed, {t \in ToSet(listed) : t.key = <<>> \/ t.key \in Keys(entries)})
      new == Kept(entries, {e \in ToSet(entries) : e.key \notin Keys(listed)})
      free == Max({listed[i].id : i \in DOMAIN listed} \cup {0})
  IN [i \in DOMAIN kept |-> IF kept[i].key = <<>> THEN kept[i] ELSE [kept[i] EXCEPT !.name = entry(kept[i].key).name]]
     \o [i \in DOMAIN new |-> [id |-> free + i, key |-> new[i].key, name |-> new[i].name]]

-----------------------------------------------------------------------------
DocumentInit ==
  /\ listed \in {<<>>} \cup {<<[id |-> 1, key |-> <<>>, name |-> n]>> : n \in Names}
  /\ doc \in Handwritten /\ stage = "trackers"

(* The user adds a tracker. *)
Create(n) ==
  /\ stage = "trackers"
  /\ LET id == Max({listed[i].id : i \in DOMAIN listed} \cup {0}) + 1 IN
     /\ id <= MaxId
     /\ listed' = Append(listed, [id |-> id, key |-> <<>>, name |-> n])
  /\ UNCHANGED <<doc, stage>>

Export == stage = "trackers" /\ doc' = Marshal(listed) /\ stage' = "written" /\ UNCHANGED listed

(* Somebody writes another one instead. *)
Write(d) == stage = "trackers" /\ doc' = d /\ stage' = "written" /\ UNCHANGED listed

Parse ==
  /\ stage = "written"
  /\ doc' = normalize(doc).doc
  /\ stage' = IF normalize(doc).ok THEN "parsed" ELSE "rejected"
  /\ UNCHANGED listed

(* A document that is rejected changes nothing. *)
Import ==
  /\ stage \in {"parsed", "rejected"} /\ stage' = "trackers"
  /\ listed' = IF stage = "parsed" THEN FileTrackers(doc) ELSE listed
  /\ \A i \in DOMAIN listed' : listed'[i].id <= MaxId
  /\ UNCHANGED doc

DocumentNext ==
  \/ \E n \in Names : Create(n)
  \/ Export \/ Parse \/ Import
  \/ \E d \in Handwritten : Write(d)

-----------------------------------------------------------------------------
(***************************************************************************)
(* An export is as long as the list and, unless a tracker's own key is     *)
(* another's with that tracker's id behind it (NoTrap: not "a" twice and   *)
(* "a 3", since Marshal does not look again at a key to which it appended  *)
(* the id), Parse accepts it and reads back what was written.              *)
(***************************************************************************)
NoTrap == \A i, j \in DOMAIN listed : BaseKey(listed[i]) # Append(BaseKey(listed[j]), listed[j].id)
ExportReparses ==
  LET out == Marshal(listed) IN
  /\ Len(out) = Len(listed)
  /\ NoTrap => normalize(out) = [doc |-> out, ok |-> TRUE]

(***************************************************************************)
(* Under the same condition a managed tracker keeps its key through an     *)
(* export, so that importing it leaves the tracker its id; except one      *)
(* listed behind a tracker of the user's own that slugs to the same key    *)
(* and takes it (Taken).                                                   *)
(***************************************************************************)
Taken(i) == \E j \in 1 .. i - 1 : listed[j].key = <<>> /\ Marshal(listed)[j].key = listed[i].key
ManagedKeepKeys ==
  NoTrap => \A i \in DOMAIN listed :
    listed[i].key # <<>> => Taken(i) \/ Marshal(listed)[i].key = listed[i].key

(***************************************************************************)
(* Unless a tracker's own key looks like another's with the id appended,   *)
(* an export can be imported, and then leaves what they are the managed    *)
(* trackers whose keys no earlier tracker of the user's own took.  The     *)
(* comment of Marshal promises both without a condition, which the code    *)
(* does not keep: own trackers "a", "a 3" and, with id 3, "a" again give   *)
(* a-3 twice, and an own tracker listed first gives a managed one of the   *)
(* same key another, under which an import makes a new tracker of it.      *)
(***************************************************************************)
ExportIsFaithful == ExportReparses /\ ManagedKeepKeys

(***************************************************************************)
(* Without trackers of the user's own, an import followed by an export     *)
(* gives the document back, in whatever order it lists the trackers.       *)
(***************************************************************************)
AsSet(entries) == {<<entries[i].key, entries[i].name>> : i \in DOMAIN entries}
RoundTrips ==
  stage = "parsed" /\ (\A i \in DOMAIN listed : listed[i].key # <<>>) =>
    AsSet(Marshal(FileTrackers(doc))) = AsSet(doc)
=============================================================================
