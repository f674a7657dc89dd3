------------------------------- MODULE Stream -------------------------------
(***************************************************************************)
(* The push path of internal/engine/engine.go (Subscribe, broadcast) and   *)
(* internal/server/server.go (handleStream): how snapshots travel from the *)
(* engine's cache through one bounded channel per SSE client to what the   *)
(* client shows.                                                           *)
(*                                                                         *)
(* A snapshot is its version: the number of the run of its tracker that    *)
(* produced it, 0 for none.                                                *)
(***************************************************************************)
EXTENDS Naturals, Sequences, FiniteSets, Functions

CONSTANTS
  NumIds,     \* trackers are 1 .. NumIds, in dashboard order
  Clients,    \* browsers
  SubBuffer,  \* capacity of a subscriber's channel (64 in the code)
  MaxVersion, \* bound on the runs of one tracker
  Removals    \* whether reconciles drop trackers or their snapshots

ASSUME StreamAssumption ==
  NumIds \in Nat \ {0} /\ SubBuffer \in Nat \ {0} /\ MaxVersion \in Nat
  /\ Removals \in BOOLEAN

Ids == 1 .. NumIds
Versions == 0 .. MaxVersion
Frames == [id : Ids, version : Versions \ {0}]

VARIABLES
  tracked,  \* ids in e.trackers
  cache,    \* e.snaps: version of each tracker's cached snapshot
  made,     \* number of runs of each tracker so far
  running,  \* ids in e.running
  pending,  \* versions that runs have cached and not broadcast yet
  subs,     \* clients whose channel is in e.subs
  chan,     \* frames in each client's channel
  writing,  \* frame handleStream has taken from the channel, <<>> or <<frame>>
  view,     \* version each client shows of each tracker
  missed    \* history: trackers of which the client lost the latest frame

engineVars == <<tracked, cache, made, running, pending>>
clientVars == <<subs, chan, writing, view, missed>>
vars == <<engineVars, clientVars>>

-----------------------------------------------------------------------------
(***************************************************************************)
(* The engine's side.                                                      *)
(***************************************************************************)
\* runDue starts a tracker that is not already running.
Start(id) ==
  /\ id \in tracked \ running /\ made[id] < MaxVersion
  /\ running' = running \cup {id}
  /\ UNCHANGED <<tracked, cache, made, pending, clientVars>>

\* Mutant: a second run of the tracker goes on while the first has still to
\* broadcast.
CachedOverlapping(id) ==
  /\ id \in tracked /\ made[id] < MaxVersion
  /\ made' = [made EXCEPT ![id] = @ + 1]
  /\ cache' = [cache EXCEPT ![id] = made'[id]]
  /\ pending' = [pending EXCEPT ![id] = @ \cup {made'[id]}]
  /\ UNCHANGED <<tracked, running, clientVars>>

\* runOne puts its snapshot into the cache ...
Cached(id) ==
  /\ id \in running /\ pending[id] = {}
  /\ made' = [made EXCEPT ![id] = @ + 1]
  /\ cache' = [cache EXCEPT ![id] = made'[id]]
  /\ pending' = [pending EXCEPT ![id] = {made'[id]}]
  /\ UNCHANGED <<tracked, running, clientVars>>

\* Mutant: a full channel makes room by discarding its oldest frame.
OfferNewest(c, frame) ==
  IF Len(chan[c]) < SubBuffer THEN Append(chan[c], frame)
  ELSE Append(Tail(chan[c]), frame)

\* A send that does not block: with the channel full the frame is dropped.
Offer(c, frame) == IF Len(chan[c]) < SubBuffer THEN Append(chan[c], frame) ELSE chan[c]

\* Mutant: broadcast waits for room in every channel.
BroadcastBlocking(id) == \E version \in pending[id] :
  /\ \A c \in subs : Len(chan[c]) < SubBuffer
  /\ chan' = [c \in Clients |-> IF c \in subs
                THEN Offer(c, [id |-> id, version |-> version]) ELSE chan[c]]
  /\ missed' = [c \in Clients |-> IF c \in subs THEN missed[c] \ {id} ELSE missed[c]]
  /\ pending' = [pending EXCEPT ![id] = @ \ {version}]
  /\ running' = running \ {id}
  /\ UNCHANGED <<tracked, cache, made, subs, writing, view>>

\* ... and then sends it to every subscriber, under the engine's lock; the run
\* is over.
Broadcast(id) == \E version \in pending[id] :
  /\ chan' = [c \in Clients |-> IF c \in subs
                THEN Offer(c, [id |-> id, version |-> version]) ELSE chan[c]]
  /\ missed' = [c \in Clients |->
       IF c \notin subs THEN missed[c]
       ELSE IF Len(chan[c]) < SubBuffer THEN missed[c] \ {id} ELSE missed[c] \cup {id}]
  /\ pending' = [pending EXCEPT ![id] = @ \ {version}]
  /\ running' = running \ {id}
  /\ UNCHANGED <<tracked, cache, made, subs, writing, view>>

\* Reconcile: a changed tracker loses its snapshot; a removed one is gone, and
\* what its last run caches since goes with the next Reconcile.
Invalidate(id) ==
  /\ Removals
  /\ id \in tracked \/ cache[id] # 0
  /\ cache' = [cache EXCEPT ![id] = 0]
  /\ \/ UNCHANGED tracked
     \/ tracked' = tracked \ {id}
  /\ UNCHANGED <<made, running, pending, clientVars>>

-----------------------------------------------------------------------------
(***************************************************************************)
(* The client's side: Subscribe and handleStream.                          *)
(***************************************************************************)
\* The snapshots Subscribe replays, in the trackers' order, one frame each.
Shown == {id \in tracked : cache[id] # 0}
InOrder(S) == {order \in Bijection(1 .. Cardinality(S), S) :
  \A i, j \in 1 .. Cardinality(S) : i < j => order[i] < order[j]}
Replay(order) ==
  [k \in 1 .. Cardinality(Shown) |-> [id |-> order[k], version |-> cache[order[k]]]]

\* The replay, too, drops what the channel has no room for.
Fitting(frames) == SubSeq(frames, 1, IF Len(frames) < SubBuffer THEN Len(frames) ELSE SubBuffer)

\* Mutant: the snapshots are read before the subscriber is registered, so the
\* replay may miss a run broadcast in between.
SubscribeBlind(c) ==
  /\ c \notin subs /\ writing[c] = <<>>
  /\ chan' = [chan EXCEPT ![c] = <<>>]
  /\ missed' = [missed EXCEPT ![c] = {}]
  /\ subs' = subs \cup {c}
  /\ UNCHANGED <<engineVars, writing, view>>

\* Replaying and registering happen in one critical section.
Subscribe(c) ==
  /\ c \notin subs /\ writing[c] = <<>>
  /\ \E order \in InOrder(Shown) :
       /\ chan' = [chan EXCEPT ![c] = Fitting(Replay(order))]
       /\ missed' = [missed EXCEPT ![c] =
            {order[k] : k \in {n \in 1 .. Cardinality(Shown) : n > SubBuffer}}]
  /\ subs' = subs \cup {c}
  /\ UNCHANGED <<engineVars, writing, view>>

Take(c) ==
  /\ c \in subs /\ writing[c] = <<>> /\ chan[c] # <<>>
  /\ writing' = [writing EXCEPT ![c] = <<Head(chan[c])>>]
  /\ chan' = [chan EXCEPT ![c] = Tail(@)]
  /\ UNCHANGED <<engineVars, subs, view, missed>>

Show(c) ==
  /\ writing[c] # <<>>
  /\ view' = [view EXCEPT ![c][writing[c][1].id] = writing[c][1].version]
  /\ writing' = [writing EXCEPT ![c] = <<>>]
  /\ UNCHANGED <<engineVars, subs, chan, missed>>

\* The request context is done, or a write failed: handleStream returns and
\* unsubscribes.  What was under way is lost; the page keeps what it shows.
Disconnect(c) ==
  /\ c \in subs
  /\ subs' = subs \ {c}
  /\ chan' = [chan EXCEPT ![c] = <<>>]
  /\ writing' = [writing EXCEPT ![c] = <<>>]
  /\ missed' = [missed EXCEPT ![c] = {}]
  /\ UNCHANGED <<engineVars, view>>

Init ==
  /\ tracked = Ids
  /\ cache = [id \in Ids |-> 0]
  /\ made = [id \in Ids |-> 0]
  /\ running = {}
  /\ pending = [id \in Ids |-> {}]
  /\ subs = {}
  /\ chan = [c \in Clients |-> <<>>]
  /\ writing = [c \in Clients |-> <<>>]
  /\ view = [c \in Clients |-> [id \in Ids |-> 0]]
  /\ missed = [c \in Clients |-> {}]

Next ==
  \/ \E id \in Ids : Start(id) \/ Cached(id) \/ Broadcast(id) \/ Invalidate(id)
  \/ \E c \in Clients : Subscribe(c) \/ Take(c) \/ Show(c) \/ Disconnect(c)

Spec == Init /\ [][Next]_vars

\* Runs finish on their own; nothing is assumed of the clients.
FairSpec == Spec /\ \A id \in Ids : WF_vars(Broadcast(id))

\* Client c reads its stream for as long as it is connected.
Reads(c) == WF_vars(Take(c)) /\ WF_vars(Show(c))

-----------------------------------------------------------------------------
\* Every variable stays in its set, and no channel holds more than its
\* capacity (make(chan []byte, subBuffer)).
TypeOK ==
  /\ tracked \subseteq Ids
  /\ cache \in [Ids -> Versions] /\ made \in [Ids -> Versions]
  /\ running \subseteq Ids /\ pending \in [Ids -> SUBSET (Versions \ {0})]
  /\ subs \subseteq Clients
  /\ chan \in [Clients -> Seq(Frames)] /\ \A c \in Clients : Len(chan[c]) <= SubBuffer
  /\ writing \in [Clients -> {<<>>} \cup {<<frame>> : frame \in Frames}]
  /\ missed \in [Clients -> SUBSET Ids]
  /\ view \in [Clients -> [Ids -> Versions]]

Forward == \A c \in Clients, id \in Ids : view'[c][id] >= view[c][id]

\* Frames of one tracker never overtake each other: a page that is showing a
\* result is never sent an older one, over reconnections, dropped frames and
\* runs that end while a client subscribes (Subscribe replays under the lock).
NeverBackInTime == [][Forward]_vars

\* The frames client c has still to be shown.
OnItsWay(c) == Range(writing[c]) \cup Range(chan[c])

\* A subscriber is never left behind silently: it shows the cached snapshot or
\* has it on its way, unless that one is still to be broadcast, was dropped on a
\* full channel or invalidated.
NothingLostSilently ==
  \A c \in subs, id \in tracked :
    cache[id] # 0 /\ pending[id] = {} /\ id \notin missed[c] =>
      \/ view[c][id] = cache[id]
      \/ [id |-> id, version |-> cache[id]] \in OnItsWay(c)

\* "drops frames rather than blocking": a run gets rid of its result even if
\* no client ever reads (broadcast).
RunsNeverBlocked == \A id \in Ids : pending[id] # {} ~> pending[id] = {}

\* A client that stays connected and reads ends up showing the cached snapshot
\* of every tracker, except those whose last frame it was too slow for.
EventuallyShown ==
  \A c \in Clients :
    Reads(c) /\ <>[](c \in subs) =>
      <>[](\A id \in tracked \ missed[c] : cache[id] # 0 => view[c][id] = cache[id])
=============================================================================
