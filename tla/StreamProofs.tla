---------------------------- MODULE StreamProofs ----------------------------
(***************************************************************************)
(* The safety of the push path for any number of trackers, clients and     *)
(* runs, and channels of any capacity.                                     *)
(***************************************************************************)
EXTENDS Stream, FiniteSetTheorems, TLAPS

\* What is cached or about to be broadcast comes from the latest run.
RunsInStep == \A id \in Ids :
  /\ cache[id] \in {0, made[id]}
  /\ pending[id] \subseteq {made[id]}
  /\ pending[id] # {} => id \in running
  /\ id \in running /\ pending[id] = {} => made[id] < MaxVersion

\* A client's frames lie between what it shows and what was made, each tracker's
\* in the order of its runs; a client that left has none.
Between(c, frame) == view[c][frame.id] <= frame.version /\ frame.version <= made[frame.id]

Ordered(c) ==
  /\ \A id \in Ids : view[c][id] <= made[id]
  /\ \A k \in 1 .. Len(chan[c]) : Between(c, chan[c][k])
  /\ \A j, k \in 1 .. Len(chan[c]) :
       j < k /\ chan[c][j].id = chan[c][k].id => chan[c][j].version <= chan[c][k].version
  /\ \A frame \in Frames : writing[c] = <<frame>> =>
       /\ Between(c, frame)
       /\ \A k \in 1 .. Len(chan[c]) : chan[c][k].id = frame.id => frame.version <= chan[c][k].version
  /\ c \notin subs => chan[c] = <<>> /\ writing[c] = <<>>

IInv == TypeOK /\ RunsInStep /\ (\A c \in Clients : Ordered(c)) /\ NothingLostSilently

LEMMA InitIInv == Init => IInv
<1> SUFFICES ASSUME Init PROVE IInv
  OBVIOUS
<1>1. TypeOK
  BY StreamAssumption DEF Init, TypeOK, Versions, Ids
<1>2. RunsInStep /\ NothingLostSilently
  BY DEF Init, RunsInStep, NothingLostSilently
<1>3. ASSUME NEW c \in Clients PROVE Ordered(c)
  BY DEF Init, Ordered
<1> QED
  BY <1>1, <1>2, <1>3 DEF IInv

-----------------------------------------------------------------------------
(***************************************************************************)
(* The engine's side.  Runs only move forward, and what they do before     *)
(* their broadcast is no concern of the clients.                           *)
(***************************************************************************)
LEMMA OrderedKept ==
  ASSUME TypeOK, UNCHANGED clientVars, made' \in [Ids -> Versions],
         \A id \in Ids : made[id] <= made'[id],
         NEW c \in Clients, Ordered(c)
  PROVE  Ordered(c)'
<1>1. /\ \A id \in Ids : made[id] \in Nat /\ made'[id] \in Nat
      /\ \A id \in Ids : view[c][id] \in Nat
      /\ \A frame \in Frames : frame.id \in Ids /\ frame.version \in Nat
      /\ \A k \in 1 .. Len(chan[c]) : chan[c][k] \in Frames
  <2>1. made \in [Ids -> Versions] /\ view[c] \in [Ids -> Versions] /\ chan[c] \in Seq(Frames)
    BY DEF TypeOK
  <2>2. \A frame \in Frames : frame.id \in Ids /\ frame.version \in Nat
    BY DEF Frames, Versions
  <2> QED
    BY <2>1, <2>2 DEF Versions
<1>2. UNCHANGED <<subs, chan, writing, view>>
  BY DEF clientVars
<1>3. \A id \in Ids : view[c][id] <= made'[id]
  BY <1>1 DEF Ordered
<1>4. \A frame \in Frames : Between(c, frame) => Between(c, frame)'
  BY <1>1, <1>2 DEF Between
<1> QED
  BY <1>1, <1>2, <1>3, <1>4 DEF Ordered

LEMMA StartStep == ASSUME IInv, NEW id \in Ids, Start(id) PROVE IInv'
<1>1. TypeOK'
  BY DEF Start, IInv, TypeOK, clientVars
<1>2. RunsInStep'
  BY DEF Start, IInv, RunsInStep
<1>3. \A c \in Clients : Ordered(c)'
  BY OrderedKept DEF Start, IInv, TypeOK, Versions
<1>4. NothingLostSilently'
  BY DEF Start, IInv, NothingLostSilently, OnItsWay, clientVars
<1> QED
  BY <1>1, <1>2, <1>3, <1>4 DEF IInv

LEMMA CachedStep == ASSUME IInv, NEW id \in Ids, Cached(id) PROVE IInv'
<1>1. /\ id \in running /\ pending[id] = {}
      /\ made \in [Ids -> Versions] /\ cache \in [Ids -> Versions]
      /\ pending \in [Ids -> SUBSET (Versions \ {0})]
  BY DEF Cached, IInv, TypeOK
<1>2. PICK version \in Versions \ {0} : version = made[id] + 1
  BY <1>1, StreamAssumption DEF IInv, RunsInStep, Versions
<1>3. /\ made' = [made EXCEPT ![id] = version] /\ cache' = [cache EXCEPT ![id] = version]
      /\ pending' = [pending EXCEPT ![id] = {version}]
      /\ UNCHANGED <<tracked, running, clientVars>>
  BY <1>1, <1>2 DEF Cached
<1>4. TypeOK'
  BY <1>1, <1>2, <1>3 DEF IInv, TypeOK, clientVars
<1>5. RunsInStep'
  BY <1>1, <1>2, <1>3 DEF IInv, RunsInStep
<1>6. \A c \in Clients : Ordered(c)'
  <2>1. made' \in [Ids -> Versions] /\ \A i \in Ids : made[i] <= made'[i]
    BY <1>1, <1>2, <1>3 DEF Versions
  <2> QED
    BY <1>3, <2>1, OrderedKept DEF IInv
<1>7. NothingLostSilently'
  BY <1>1, <1>3 DEF IInv, TypeOK, NothingLostSilently, OnItsWay, clientVars
<1> QED
  BY <1>4, <1>5, <1>6, <1>7 DEF IInv

LEMMA InvalidateStep == ASSUME IInv, NEW id \in Ids, Invalidate(id) PROVE IInv'
<1>1. /\ cache' = [cache EXCEPT ![id] = 0] /\ tracked' \subseteq tracked
      /\ UNCHANGED <<made, running, pending, clientVars>>
  BY DEF Invalidate
<1>2. TypeOK'
  BY <1>1, StreamAssumption DEF IInv, TypeOK, clientVars, Versions
<1>3. RunsInStep'
  BY <1>1 DEF IInv, TypeOK, RunsInStep
<1>4. \A c \in Clients : Ordered(c)'
  BY <1>1, OrderedKept DEF IInv, TypeOK, Versions
<1>5. NothingLostSilently'
  BY <1>1 DEF IInv, TypeOK, NothingLostSilently, OnItsWay, clientVars
<1> QED
  BY <1>2, <1>3, <1>4, <1>5 DEF IInv

-----------------------------------------------------------------------------
(***************************************************************************)
(* Broadcast: the frame of the latest run goes behind all others.          *)
(***************************************************************************)
LEMMA Offered ==
  ASSUME TypeOK, NEW c \in Clients, NEW frame \in Frames
  PROVE  /\ Offer(c, frame) \in Seq(Frames) /\ Len(Offer(c, frame)) <= SubBuffer
         /\ Range(chan[c]) \subseteq Range(Offer(c, frame))
         /\ \A k \in 1 .. Len(Offer(c, frame)) :
              \/ k \in 1 .. Len(chan[c]) /\ Offer(c, frame)[k] = chan[c][k]
              \/ k = Len(chan[c]) + 1 /\ Offer(c, frame)[k] = frame
         /\ Len(chan[c]) < SubBuffer => frame \in Range(Offer(c, frame))
<1>1. chan[c] \in Seq(Frames) /\ Len(chan[c]) <= SubBuffer /\ Len(chan[c]) \in Nat
  BY DEF TypeOK
<1>2. CASE Len(chan[c]) < SubBuffer
  <2>1. Offer(c, frame) = Append(chan[c], frame)
    BY <1>2 DEF Offer
  <2> QED
    BY <1>1, <1>2, <2>1, StreamAssumption DEF Range
<1>3. CASE ~(Len(chan[c]) < SubBuffer)
  BY <1>1, <1>3 DEF Offer
<1> QED
  BY <1>2, <1>3

LEMMA BroadcastStep == ASSUME IInv, NEW id \in Ids, Broadcast(id) PROVE IInv'
<1>1. PICK version \in pending[id] :
        /\ chan' = [c \in Clients |-> IF c \in subs
                      THEN Offer(c, [id |-> id, version |-> version]) ELSE chan[c]]
        /\ missed' = [c \in Clients |->
             IF c \notin subs THEN missed[c]
             ELSE IF Len(chan[c]) < SubBuffer THEN missed[c] \ {id} ELSE missed[c] \cup {id}]
        /\ pending' = [pending EXCEPT ![id] = @ \ {version}]
        /\ running' = running \ {id}
        /\ UNCHANGED <<tracked, cache, made, subs, writing, view>>
  BY DEF Broadcast
<1> DEFINE frame == [id |-> id, version |-> version]
<1>2. version = made[id] /\ version \in Versions \ {0} /\ frame \in Frames
  BY <1>1 DEF IInv, TypeOK, RunsInStep, Frames
<1>3. frame.id = id /\ frame.version = made[id]
  BY <1>2
<1> HIDE DEF frame
<1>4. TypeOK'
  <2>1. chan' \in [Clients -> Seq(Frames)] /\ \A c \in Clients : Len(chan'[c]) <= SubBuffer
    BY <1>1, <1>2, Offered DEF IInv, TypeOK, frame
  <2>2. missed' \in [Clients -> SUBSET Ids]
    BY <1>1 DEF IInv, TypeOK
  <2>3. pending' \in [Ids -> SUBSET (Versions \ {0})]
    BY <1>1 DEF IInv, TypeOK
  <2> QED
    BY <1>1, <2>1, <2>2, <2>3 DEF IInv, TypeOK
<1>5. RunsInStep'
  BY <1>1, <1>2 DEF IInv, TypeOK, RunsInStep
<1>6. ASSUME NEW c \in Clients PROVE Ordered(c)'
  <2>1. CASE c \notin subs
    <3>1. chan'[c] = chan[c] /\ UNCHANGED <<made, subs, writing, view>>
      BY <1>1, <2>1
    <3> QED
      BY <3>1 DEF IInv, Ordered, Between
  <2>2. CASE c \in subs
    <3>1. /\ chan'[c] = Offer(c, frame) /\ UNCHANGED <<made, subs, writing, view>>
      BY <1>1, <2>2 DEF frame
    <3>2. Ordered(c)
      BY DEF IInv
    <3>3. Between(c, frame)
      BY <1>2, <1>3, <3>2 DEF Ordered, Between, IInv, TypeOK, Versions
    <3>4. \A k \in 1 .. Len(chan'[c]) :
            \/ k \in 1 .. Len(chan[c]) /\ chan'[c][k] = chan[c][k]
            \/ k = Len(chan[c]) + 1 /\ chan'[c][k] = frame
      BY <1>2, <3>1, Offered DEF IInv
    <3>5. \A k \in 1 .. Len(chan'[c]) : Between(c, chan'[c][k])
      BY <3>2, <3>3, <3>4 DEF Ordered
    <3>6. \A j, k \in 1 .. Len(chan'[c]) :
            j < k /\ chan'[c][j].id = chan'[c][k].id => chan'[c][j].version <= chan'[c][k].version
      <4>1. TAKE j, k \in 1 .. Len(chan'[c])
      <4>2. HAVE j < k /\ chan'[c][j].id = chan'[c][k].id
      <4>3. Len(chan[c]) \in Nat
        BY DEF IInv, TypeOK
      <4>4. j \in 1 .. Len(chan[c]) /\ chan'[c][j] = chan[c][j]
        BY <3>4, <4>2, <4>3
      <4>5. CASE chan'[c][k] = frame
        BY <1>3, <3>2, <4>2, <4>4, <4>5 DEF Ordered, Between
      <4>6. CASE k \in 1 .. Len(chan[c]) /\ chan'[c][k] = chan[c][k]
        BY <3>2, <4>2, <4>4, <4>6 DEF Ordered
      <4> QED
        BY <3>4, <4>5, <4>6
    <3>7. ASSUME NEW f \in Frames, writing[c] = <<f>>
          PROVE  /\ Between(c, f)
                 /\ \A k \in 1 .. Len(chan'[c]) : chan'[c][k].id = f.id => f.version <= chan'[c][k].version
      BY <1>3, <3>2, <3>4, <3>7 DEF Ordered, Between
    <3> QED
      BY <2>2, <3>1, <3>2, <3>5, <3>6, <3>7 DEF Ordered, Between
  <2> QED
    BY <2>1, <2>2
<1>7. NothingLostSilently'
  <2> SUFFICES ASSUME NEW c \in subs, NEW i \in tracked,
                      cache[i] # 0, pending'[i] = {}, i \notin missed'[c]
               PROVE  view[c][i] = cache[i] \/ [id |-> i, version |-> cache[i]] \in OnItsWay(c)'
    BY <1>1 DEF NothingLostSilently
  <2>1. c \in Clients /\ i \in Ids
    BY DEF IInv, TypeOK
  <2>2. /\ chan'[c] = Offer(c, frame) /\ writing' = writing
        /\ Range(chan[c]) \subseteq Range(Offer(c, frame))
        /\ Len(chan[c]) < SubBuffer => frame \in Range(Offer(c, frame))
    BY <1>1, <1>2, <2>1, Offered DEF frame, IInv
  <2>3. CASE i = id
    <3>1. cache[id] = made[id]
      BY <2>3 DEF IInv, RunsInStep
    <3>2. Len(chan[c]) < SubBuffer
      BY <1>1, <2>1, <2>3
    <3> QED
      BY <1>2, <2>2, <2>3, <3>1, <3>2 DEF frame, OnItsWay
  <2>4. CASE i # id
    <3>1. pending[i] = {} /\ i \notin missed[c]
      BY <1>1, <2>1, <2>4 DEF IInv, TypeOK
    <3> QED
      BY <2>2, <3>1 DEF IInv, NothingLostSilently, OnItsWay
  <2> QED
    BY <2>3, <2>4
<1> QED
  BY <1>4, <1>5, <1>6, <1>7 DEF IInv

-----------------------------------------------------------------------------
(***************************************************************************)
(* The client's side.                                                      *)
(***************************************************************************)
\* A step of one client is no concern of the others.
LEMMA OtherClients ==
  ASSUME IInv, NEW c \in Clients, UNCHANGED engineVars,
         \A d \in Clients : d # c => /\ chan'[d] = chan[d] /\ writing'[d] = writing[d]
                                     /\ view'[d] = view[d] /\ missed'[d] = missed[d]
                                     /\ (d \in subs' <=> d \in subs),
         subs' \subseteq Clients,
         Ordered(c)',
         \A i \in tracked : c \in subs' /\ cache[i] # 0 /\ pending[i] = {} /\ i \notin missed'[c] =>
           view'[c][i] = cache[i] \/ [id |-> i, version |-> cache[i]] \in OnItsWay(c)'
  PROVE  RunsInStep' /\ (\A d \in Clients : Ordered(d)') /\ NothingLostSilently'
<1>1. UNCHANGED <<tracked, cache, made, running, pending>>
  BY DEF engineVars
<1>2. RunsInStep'
  BY <1>1 DEF IInv, RunsInStep
<1>3. ASSUME NEW d \in Clients, d # c PROVE Ordered(d)'
  BY <1>1, <1>3 DEF IInv, Ordered, Between
<1>4. ASSUME NEW d \in subs', NEW i \in tracked,
             cache[i] # 0, pending[i] = {}, i \notin missed'[d]
      PROVE  view'[d][i] = cache[i] \/ [id |-> i, version |-> cache[i]] \in OnItsWay(d)'
  <2>1. CASE d = c
    BY <1>4, <2>1
  <2>2. CASE d # c
    <3>1. d \in subs /\ d \in Clients /\ i \notin missed[d]
      BY <1>4, <2>2
    <3>2. view[d][i] = cache[i] \/ [id |-> i, version |-> cache[i]] \in OnItsWay(d)
      BY <1>4, <3>1 DEF IInv, NothingLostSilently
    <3> QED
      BY <2>2, <3>1, <3>2 DEF OnItsWay
  <2> QED
    BY <2>1, <2>2
<1>5. NothingLostSilently'
  BY <1>1, <1>4 DEF NothingLostSilently
<1> QED
  BY <1>2, <1>3, <1>5

\* The replay holds the cached snapshots, up to the capacity of the channel.
LEMMA Replayed ==
  ASSUME TypeOK, NEW order \in InOrder(Shown)
  PROVE  /\ Fitting(Replay(order)) \in Seq(Frames)
         /\ Len(Fitting(Replay(order))) <= SubBuffer
         /\ \A k \in 1 .. Len(Fitting(Replay(order))) :
              /\ order[k] \in Shown
              /\ Fitting(Replay(order))[k] = [id |-> order[k], version |-> cache[order[k]]]
         /\ \A i \in Shown :
              \/ [id |-> i, version |-> cache[i]] \in Range(Fitting(Replay(order)))
              \/ i \in {order[k] : k \in {n \in 1 .. Cardinality(Shown) : n > SubBuffer}}
<1> DEFINE n == Cardinality(Shown)
           frames == Replay(order)
           fits == IF n < SubBuffer THEN n ELSE SubBuffer
<1>1. n \in Nat
  <2>1. Shown \in SUBSET Ids
    BY DEF TypeOK, Shown
  <2>2. IsFiniteSet(1 .. NumIds)
    BY FS_Interval, StreamAssumption
  <2> QED
    BY <2>1, <2>2, FS_Subset, FS_CardinalityType DEF Ids
<1>2. order \in [1 .. n -> Shown] /\ \A i \in Shown : \E k \in 1 .. n : order[k] = i
  BY DEF InOrder, Bijection, Injection, Surjection
<1>3. \A i \in Shown : [id |-> i, version |-> cache[i]] \in Frames
  BY DEF TypeOK, Shown, Frames
<1> HIDE DEF n
<1>4. frames = [k \in 1 .. n |-> [id |-> order[k], version |-> cache[order[k]]]]
  BY DEF Replay, n
<1>5. frames \in Seq(Frames) /\ Len(frames) = n
  BY <1>1, <1>2, <1>3, <1>4
<1> HIDE DEF frames
<1>6. Fitting(frames) = SubSeq(frames, 1, fits) /\ fits \in 0 .. n /\ fits <= SubBuffer
  BY <1>1, <1>5, StreamAssumption DEF Fitting
<1>7. /\ Fitting(frames) \in Seq(Frames) /\ Len(Fitting(frames)) = fits
      /\ \A k \in 1 .. fits : Fitting(frames)[k] = frames[k]
  BY <1>1, <1>5, <1>6
<1>8. \A k \in 1 .. fits : k \in 1 .. n
  BY <1>1, <1>6
<1>9. ASSUME NEW i \in Shown
      PROVE  \/ [id |-> i, version |-> cache[i]] \in Range(Fitting(frames))
             \/ i \in {order[k] : k \in {m \in 1 .. n : m > SubBuffer}}
  <2>1. PICK k \in 1 .. n : order[k] = i
    BY <1>2
  <2>2. CASE k > SubBuffer
    BY <2>1, <2>2
  <2>3. CASE ~(k > SubBuffer)
    <3>1. k \in 1 .. fits
      BY <1>1, <2>3, StreamAssumption
    <3>2. Fitting(frames)[k] = [id |-> i, version |-> cache[i]]
      BY <1>4, <1>7, <2>1, <3>1
    <3>3. DOMAIN Fitting(frames) = 1 .. fits
      BY <1>7
    <3> QED
      BY <3>1, <3>2, <3>3 DEF Range
  <2> QED
    BY <2>2, <2>3
<1> QED
  BY <1>2, <1>4, <1>6, <1>7, <1>8, <1>9 DEF n, frames

LEMMA SubscribeStep == ASSUME IInv, NEW c \in Clients, Subscribe(c) PROVE IInv'
<1>1. PICK order \in InOrder(Shown) :
        /\ chan' = [chan EXCEPT ![c] = Fitting(Replay(order))]
        /\ missed' = [missed EXCEPT ![c] =
             {order[k] : k \in {n \in 1 .. Cardinality(Shown) : n > SubBuffer}}]
  BY DEF Subscribe
<1>2. /\ writing[c] = <<>> /\ subs' = subs \cup {c}
      /\ UNCHANGED <<tracked, cache, made, running, pending, writing, view>>
      /\ UNCHANGED engineVars
  BY DEF Subscribe, engineVars
<1> DEFINE frames == Fitting(Replay(order))
           left == {order[k] : k \in {n \in 1 .. Cardinality(Shown) : n > SubBuffer}}
<1>3. /\ frames \in Seq(Frames) /\ Len(frames) <= SubBuffer
      /\ \A k \in 1 .. Len(frames) :
           order[k] \in Shown /\ frames[k] = [id |-> order[k], version |-> cache[order[k]]]
      /\ \A i \in Shown : [id |-> i, version |-> cache[i]] \in Range(frames) \/ i \in left
  BY Replayed DEF IInv
<1>4. left \subseteq Ids
  BY DEF InOrder, Bijection, Injection, Shown, IInv, TypeOK
<1> HIDE DEF frames, left
<1>5. /\ chan' = [chan EXCEPT ![c] = frames] /\ missed' = [missed EXCEPT ![c] = left]
  BY <1>1 DEF frames, left
<1>6. TypeOK'
  BY <1>2, <1>3, <1>4, <1>5 DEF IInv, TypeOK
<1>7. chan'[c] = frames /\ missed'[c] = left
  BY <1>5 DEF IInv, TypeOK
<1>8. Ordered(c)'
  <2>1. \A i \in Shown : i \in Ids /\ cache[i] = made[i] /\ view[c][i] <= made[i] /\ made[i] \in Nat
    BY DEF Shown, IInv, TypeOK, RunsInStep, Ordered, Versions
  <2>2. \A k \in 1 .. Len(frames) :
          frames[k].id \in Shown /\ frames[k].version = made[frames[k].id]
    <3>1. TAKE k \in 1 .. Len(frames)
    <3>2. frames[k] = [id |-> order[k], version |-> cache[order[k]]] /\ order[k] \in Shown
      BY <1>3
    <3>3. frames[k].id = order[k] /\ frames[k].version = cache[order[k]]
      BY <3>2
    <3> QED
      BY <2>1, <3>2, <3>3
  <2>3. \A k \in 1 .. Len(frames) : Between(c, frames[k])
    BY <2>1, <2>2 DEF Between
  <2>4. \A j, k \in 1 .. Len(frames) : frames[j].id = frames[k].id =>
          frames[j].version <= frames[k].version
    BY <2>1, <2>2
  <2>5. \A frame \in Frames : writing[c] # <<frame>>
    BY <1>2
  <2>6. \A i \in Ids : view[c][i] <= made[i]
    BY DEF IInv, Ordered
  <2> QED
    BY <1>2, <1>7, <2>3, <2>4, <2>5, <2>6 DEF Ordered, Between
<1>9. ASSUME NEW i \in tracked, cache[i] # 0, i \notin missed'[c]
      PROVE  [id |-> i, version |-> cache[i]] \in OnItsWay(c)'
  <2>1. i \in Shown
    BY <1>9 DEF Shown
  <2> QED
    BY <1>3, <1>7, <1>9, <2>1 DEF OnItsWay
<1>10. /\ \A d \in Clients : d # c => /\ chan'[d] = chan[d] /\ writing'[d] = writing[d]
                                      /\ view'[d] = view[d] /\ missed'[d] = missed[d]
                                      /\ (d \in subs' <=> d \in subs)
       /\ subs' \subseteq Clients
  BY <1>2, <1>5 DEF IInv, TypeOK
<1> QED
  BY <1>2, <1>6, <1>8, <1>9, <1>10, OtherClients DEF IInv

LEMMA TakeStep == ASSUME IInv, NEW c \in Clients, Take(c) PROVE IInv'
<1>1. /\ c \in subs /\ writing[c] = <<>> /\ chan[c] # <<>>
      /\ writing' = [writing EXCEPT ![c] = <<Head(chan[c])>>]
      /\ chan' = [chan EXCEPT ![c] = Tail(chan[c])]
      /\ UNCHANGED <<tracked, cache, made, running, pending, subs, view, missed>>
      /\ UNCHANGED engineVars
  BY DEF Take, engineVars
<1> DEFINE frame == chan[c][1]
           rest == Tail(chan[c])
<1>2. chan[c] \in Seq(Frames) /\ Len(chan[c]) \in Nat \ {0} /\ Len(chan[c]) <= SubBuffer
  BY <1>1 DEF IInv, TypeOK
<1>3. /\ frame \in Frames /\ Head(chan[c]) = frame
      /\ rest \in Seq(Frames) /\ Len(rest) = Len(chan[c]) - 1
      /\ \A k \in 1 .. Len(rest) : rest[k] = chan[c][k + 1]
  BY <1>2
<1>4. \A k \in 1 .. Len(rest) : k + 1 \in 1 .. Len(chan[c])
  BY <1>2, <1>3
<1> HIDE DEF frame, rest
<1>5. writing'[c] = <<frame>> /\ chan'[c] = rest
  BY <1>1, <1>3 DEF IInv, TypeOK, rest
<1>6. TypeOK'
  <2>1. Len(rest) <= SubBuffer
    BY <1>2, <1>3, StreamAssumption
  <2>2. writing' = [writing EXCEPT ![c] = <<frame>>] /\ chan' = [chan EXCEPT ![c] = rest]
    BY <1>1, <1>3 DEF rest
  <2> QED
    BY <1>1, <1>3, <2>1, <2>2 DEF IInv, TypeOK
<1>7. Ordered(c)'
  <2>1. /\ \A k \in 1 .. Len(chan[c]) : Between(c, chan[c][k])
        /\ \A j, k \in 1 .. Len(chan[c]) :
             j < k /\ chan[c][j].id = chan[c][k].id => chan[c][j].version <= chan[c][k].version
        /\ \A i \in Ids : view[c][i] <= made[i]
    BY DEF IInv, Ordered
  <2>2. Between(c, frame) /\ \A k \in 1 .. Len(rest) : Between(c, rest[k])
    BY <1>2, <1>3, <1>4, <2>1 DEF frame
  <2>3. \A j, k \in 1 .. Len(rest) :
          j < k /\ rest[j].id = rest[k].id => rest[j].version <= rest[k].version
    <3>1. TAKE j, k \in 1 .. Len(rest)
    <3>2. HAVE j < k /\ rest[j].id = rest[k].id
    <3>3. j + 1 \in 1 .. Len(chan[c]) /\ k + 1 \in 1 .. Len(chan[c]) /\ j + 1 < k + 1
      BY <1>4, <3>2
    <3>4. rest[j] = chan[c][j + 1] /\ rest[k] = chan[c][k + 1]
      BY <1>3
    <3> QED
      BY <2>1, <3>2, <3>3, <3>4
  <2>4. \A k \in 1 .. Len(rest) : rest[k].id = frame.id => frame.version <= rest[k].version
    BY <1>2, <1>3, <1>4, <2>1 DEF frame
  <2>5. \A f \in Frames : writing'[c] = <<f>> => f = frame
    BY <1>5
  <2> QED
    BY <1>1, <1>5, <2>1, <2>2, <2>3, <2>4, <2>5 DEF Ordered, Between
<1>8. OnItsWay(c) \subseteq OnItsWay(c)'
  <2>1. \A k \in 1 .. Len(chan[c]) : chan[c][k] = frame \/ chan[c][k] \in Range(rest)
    <3>1. TAKE k \in 1 .. Len(chan[c])
    <3>2. CASE k = 1
      BY <3>2 DEF frame
    <3>3. CASE k # 1
      <4>1. PICK j \in 1 .. Len(rest) : k = j + 1
        BY <1>2, <1>3, <3>3
      <4> QED
        BY <1>3, <4>1 DEF Range
    <3> QED
      BY <3>2, <3>3
  <2>2. Range(<<frame>>) = {frame} /\ Range(writing[c]) = {}
    BY <1>1 DEF Range
  <2>3. Range(chan[c]) \subseteq {frame} \cup Range(rest)
    <3>1. DOMAIN chan[c] = 1 .. Len(chan[c])
      BY <1>2
    <3> QED
      BY <2>1, <3>1 DEF Range
  <2> QED
    BY <1>5, <2>2, <2>3 DEF OnItsWay
<1>9. \A i \in tracked : cache[i] # 0 /\ pending[i] = {} /\ i \notin missed'[c] =>
        view'[c][i] = cache[i] \/ [id |-> i, version |-> cache[i]] \in OnItsWay(c)'
  BY <1>1, <1>8 DEF IInv, NothingLostSilently
<1>10. \A d \in Clients : d # c => /\ chan'[d] = chan[d] /\ writing'[d] = writing[d]
                                   /\ view'[d] = view[d] /\ missed'[d] = missed[d]
                                   /\ (d \in subs' <=> d \in subs)
  BY <1>1 DEF IInv, TypeOK
<1> QED
  BY <1>1, <1>6, <1>7, <1>9, <1>10, OtherClients DEF IInv, TypeOK

\* What the frame being written says is at least as new as what is shown.
LEMMA Shows ==
  ASSUME IInv, NEW c \in Clients, Show(c)
  PROVE  \E frame \in Frames :
           /\ writing[c] = <<frame>> /\ Between(c, frame)
           /\ view' = [view EXCEPT ![c][frame.id] = frame.version]
           /\ \A i \in Ids : view'[c][i] = IF i = frame.id THEN frame.version ELSE view[c][i]
           /\ \A d \in Clients : d # c => view'[d] = view[d]
<1>1. PICK frame \in Frames : writing[c] = <<frame>>
  BY DEF Show, IInv, TypeOK
<1>2. view' = [view EXCEPT ![c][frame.id] = frame.version]
  BY <1>1 DEF Show
<1>3. Between(c, frame)
  BY <1>1 DEF IInv, Ordered
<1> QED
  BY <1>1, <1>2, <1>3 DEF IInv, TypeOK

LEMMA ShowStep == ASSUME IInv, NEW c \in Clients, Show(c) PROVE IInv'
<1>1. PICK frame \in Frames :
        /\ writing[c] = <<frame>> /\ Between(c, frame)
        /\ view' = [view EXCEPT ![c][frame.id] = frame.version]
        /\ \A i \in Ids : view'[c][i] = IF i = frame.id THEN frame.version ELSE view[c][i]
        /\ \A d \in Clients : d # c => view'[d] = view[d]
  BY Shows
<1>2. /\ writing' = [writing EXCEPT ![c] = <<>>] /\ writing'[c] = <<>>
      /\ UNCHANGED <<tracked, cache, made, running, pending, subs, chan, missed>>
      /\ UNCHANGED engineVars
  BY DEF Show, engineVars, IInv, TypeOK
<1>3. frame.id \in Ids /\ frame.version \in Versions
  BY DEF Frames
<1>4. TypeOK'
  BY <1>1, <1>2, <1>3 DEF IInv, TypeOK
<1>5. /\ \A k \in 1 .. Len(chan[c]) : chan[c][k].id = frame.id => frame.version <= chan[c][k].version
      /\ \A k \in 1 .. Len(chan[c]) : Between(c, chan[c][k]) /\ chan[c][k].id \in Ids
      /\ \A i \in Ids : view[c][i] <= made[i]
      /\ c \in subs
  <2>1. Ordered(c) /\ chan[c] \in Seq(Frames)
    BY DEF IInv, TypeOK
  <2>2. \A k \in 1 .. Len(chan[c]) : chan[c][k].id \in Ids
    <3>1. \A k \in 1 .. Len(chan[c]) : chan[c][k] \in Frames
      BY <2>1
    <3> QED
      BY <3>1 DEF Frames
  <2> QED
    BY <1>1, <2>1, <2>2 DEF Ordered
<1>6. Ordered(c)'
  <2>1. \A i \in Ids : view'[c][i] <= made[i]
    BY <1>1, <1>5 DEF Between
  <2>2. \A k \in 1 .. Len(chan[c]) : Between(c, chan[c][k])'
    BY <1>1, <1>2, <1>5 DEF Between
  <2>3. \A f \in Frames : writing'[c] # <<f>>
    BY <1>2
  <2> QED
    BY <1>2, <1>5, <2>1, <2>2, <2>3 DEF IInv, Ordered
<1>7. ASSUME NEW i \in tracked, cache[i] # 0, pending[i] = {}, i \notin missed'[c]
      PROVE  view'[c][i] = cache[i] \/ [id |-> i, version |-> cache[i]] \in OnItsWay(c)'
  <2>1. i \in Ids /\ cache[i] = made[i] /\ made[i] \in Nat
    BY <1>7 DEF IInv, TypeOK, RunsInStep, Versions
  <2>2. view[c][i] = cache[i] \/ [id |-> i, version |-> cache[i]] \in OnItsWay(c)
    BY <1>2, <1>5, <1>7 DEF IInv, NothingLostSilently
  <2>3. CASE view[c][i] = cache[i]
    BY <1>1, <1>3, <2>1, <2>3 DEF Between, Versions
  <2>4. CASE [id |-> i, version |-> cache[i]] = frame
    BY <1>1, <2>1, <2>4
  <2>5. CASE [id |-> i, version |-> cache[i]] \in Range(chan[c])
    BY <1>2, <2>5 DEF OnItsWay
  <2>6. Range(<<frame>>) = {frame}
    BY DEF Range
  <2> QED
    BY <1>1, <2>2, <2>3, <2>4, <2>5, <2>6 DEF OnItsWay
<1>8. \A d \in Clients : d # c => /\ chan'[d] = chan[d] /\ writing'[d] = writing[d]
                                  /\ view'[d] = view[d] /\ missed'[d] = missed[d]
                                  /\ (d \in subs' <=> d \in subs)
  BY <1>1, <1>2 DEF IInv, TypeOK
<1> QED
  BY <1>2, <1>4, <1>6, <1>7, <1>8, OtherClients DEF IInv, TypeOK

LEMMA DisconnectStep == ASSUME IInv, NEW c \in Clients, Disconnect(c) PROVE IInv'
<1>1. /\ subs' = subs \ {c}
      /\ chan' = [chan EXCEPT ![c] = <<>>] /\ writing' = [writing EXCEPT ![c] = <<>>]
      /\ missed' = [missed EXCEPT ![c] = {}]
      /\ UNCHANGED <<tracked, cache, made, running, pending, view>>
      /\ UNCHANGED engineVars
  BY DEF Disconnect, engineVars
<1>2. chan'[c] = <<>> /\ writing'[c] = <<>> /\ c \notin subs'
  BY <1>1 DEF IInv, TypeOK
<1>3. TypeOK'
  BY <1>1, StreamAssumption DEF IInv, TypeOK
<1>4. Ordered(c)'
  BY <1>1, <1>2 DEF IInv, Ordered
<1>5. \A d \in Clients : d # c => /\ chan'[d] = chan[d] /\ writing'[d] = writing[d]
                                  /\ view'[d] = view[d] /\ missed'[d] = missed[d]
                                  /\ (d \in subs' <=> d \in subs)
  BY <1>1 DEF IInv, TypeOK
<1> QED
  BY <1>1, <1>2, <1>3, <1>4, <1>5, OtherClients DEF IInv, TypeOK

-----------------------------------------------------------------------------
LEMMA NextIInv == IInv /\ [Next]_vars => IInv'
<1> SUFFICES ASSUME IInv, [Next]_vars PROVE IInv'
  OBVIOUS
<1>1. ASSUME NEW id \in Ids, Start(id) \/ Cached(id) \/ Broadcast(id) \/ Invalidate(id)
      PROVE  IInv'
  BY <1>1, StartStep, CachedStep, BroadcastStep, InvalidateStep
<1>2. ASSUME NEW c \in Clients, Subscribe(c) \/ Take(c) \/ Show(c) \/ Disconnect(c)
      PROVE  IInv'
  BY <1>2, SubscribeStep, TakeStep, ShowStep, DisconnectStep
<1>3. CASE UNCHANGED vars
  BY <1>3 DEF vars, engineVars, clientVars, IInv, TypeOK, RunsInStep, Ordered, Between,
              NothingLostSilently, OnItsWay
<1> QED
  BY <1>1, <1>2, <1>3 DEF Next

LEMMA Invariance == Spec => []IInv
BY InitIInv, NextIInv, PTL DEF Spec

\* Every variable keeps its type, and no channel ever exceeds its capacity
\* (Subscribe, broadcast).
THEOREM StreamTyped == Spec => []TypeOK
<1>1. IInv => TypeOK
  BY DEF IInv
<1> QED
  BY <1>1, Invariance, PTL

\* A subscriber shows what is cached or has it on its way, unless it is still to
\* be broadcast, was dropped on a full channel or invalidated (Subscribe,
\* broadcast, handleStream).
THEOREM NothingLost == Spec => []NothingLostSilently
<1>1. IInv => NothingLostSilently
  BY DEF IInv
<1> QED
  BY <1>1, Invariance, PTL

\* No page is ever sent a result older than the one it shows, over reconnections
\* and dropped frames: the frames of one tracker keep the order of its runs.
THEOREM PagesNeverGoBack == Spec => NeverBackInTime
<1>1. ASSUME IInv, [Next]_vars, NEW c \in Clients, NEW id \in Ids
      PROVE  view'[c][id] >= view[c][id]
  <2>1. view[c][id] \in Nat
    BY <1>1 DEF IInv, TypeOK, Versions
  <2>2. CASE view' = view
    BY <2>1, <2>2
  <2>3. ASSUME NEW d \in Clients, Show(d) PROVE view'[c][id] >= view[c][id]
    <3>1. PICK frame \in Frames :
            /\ Between(d, frame)
            /\ \A j \in Ids : view'[d][j] = IF j = frame.id THEN frame.version ELSE view[d][j]
            /\ \A e \in Clients : e # d => view'[e] = view[e]
      BY <1>1, <2>3, Shows
    <3>2. frame.version \in Nat
      BY DEF Frames, Versions
    <3> QED
      BY <2>1, <3>1, <3>2 DEF Between
  <2> QED
    BY <1>1, <2>2, <2>3
    DEF Next, Start, Cached, Broadcast, Invalidate, Subscribe, Take, Disconnect,
        vars, engineVars, clientVars
<1>2. IInv /\ [Next]_vars => [Forward]_vars
  BY <1>1 DEF Forward
<1> QED
  BY <1>2, Invariance, PTL DEF Spec, NeverBackInTime
=============================================================================
