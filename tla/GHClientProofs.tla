--------------------------- MODULE GHClientProofs ---------------------------
(***************************************************************************)
(* The properties of GHClient hold for any number of concurrent calls,     *)
(* tokens and URLs.                                                        *)
(***************************************************************************)
EXTENDS GHClient, TLAPS

\* An entry is what GitHub sent with its ETag, for this token and URL.
EntriesMatch == \A k \in Keys : cache[k] # Absent =>
  /\ cache[k].etag = cache[k].body.from
  /\ cache[k].etag.token = k.token /\ cache[k].etag.url = k.url

\* A call started in the past, and only an entry lets it send an ETag; while it
\* is not overtaken that entry stays the one it knows, or one that is newer than
\* its start.
Conditional(c) == calls[c].pc = "sent" /\ calls[c].etag # Absent =>
  /\ cache[calls[c].key] # Absent
  /\ ~calls[c].overtaken => \/ cache[calls[c].key].etag = calls[c].etag
                            \/ cache[calls[c].key].etag.version >= calls[c].since

\* What an answer promises the code that reads it.
Usable(c) == calls[c].pc = "answered" =>
  /\ calls[c].answer # Absent
  /\ calls[c].answer.kind = "ok" =>
       /\ calls[c].answer.body.from.token = calls[c].key.token
       /\ calls[c].answer.body.from.url = calls[c].key.url
       /\ calls[c].answer.body.from.version >= calls[c].since
  /\ calls[c].answer.kind = "notModified" =>
       /\ cache[calls[c].key] # Absent
       /\ ~calls[c].overtaken => cache[calls[c].key].etag.version >= calls[c].since

Underway(c) == calls[c].pc # "idle" =>
  calls[c].since <= version[calls[c].key.url] /\ Conditional(c) /\ Usable(c)

TokensTold == \A t \in Tokens : until[t] <= told[t]

IInv == TypeOK /\ EntriesMatch /\ (\A c \in Calls : Underway(c)) /\ TokensTold

\* The invariant gives the properties.
LEMMA Consequences ==
  IInv => MissUnreachable /\ ViewsNotShared /\ FreshUnlessOvertaken /\ RefusedOnlyWhenTold
<1> SUFFICES ASSUME IInv PROVE MissUnreachable /\ ViewsNotShared /\ FreshUnlessOvertaken
                               /\ RefusedOnlyWhenTold
  OBVIOUS
<1>1. MissUnreachable
  BY DEF IInv, MissUnreachable, Underway, Usable, CacheKey
<1>2. ASSUME NEW c \in Calls, calls[c].pc = "answered", NEW body \in Served(c)
      PROVE  /\ body.from.token = calls[c].key.token /\ body.from.url = calls[c].key.url
             /\ ~calls[c].overtaken => body.from.version >= calls[c].since
  <2>1. calls[c].key \in Keys
    BY <1>2 DEF IInv, TypeOK, CallStates, NoCall
  <2>2. CASE calls[c].answer.kind = "ok"
    BY <1>2, <2>2 DEF IInv, Underway, Usable, Served
  <2>3. CASE calls[c].answer.kind = "notModified"
    BY <1>2, <2>1, <2>3 DEF IInv, Underway, Usable, Served, EntriesMatch, CacheKey
  <2> QED
    BY <1>2, <2>2, <2>3 DEF Served
<1>3. RefusedOnlyWhenTold
  BY DEF IInv, TypeOK, TokensTold, RefusedOnlyWhenTold, Limited, Times, Deadlines
<1> QED
  BY <1>1, <1>2, <1>3 DEF ViewsNotShared, FreshUnlessOvertaken

LEMMA InitIInv == Init => IInv
<1> SUFFICES ASSUME Init PROVE IInv
  OBVIOUS
<1>1. TypeOK
  BY BoundsAssumption DEF Init, TypeOK, Versions, Times, Deadlines
<1> QED
  BY <1>1, BoundsAssumption DEF Init, IInv, EntriesMatch, Underway, NoCall, TokensTold

\* What IInv says of a call that is underway.
LEMMA CallFacts ==
  ASSUME IInv, NEW c \in Calls, calls[c].pc # "idle"
  PROVE  /\ calls[c] \in CallStates
         /\ calls[c].key \in Keys /\ calls[c].key.url \in Urls /\ calls[c].key.token \in Tokens
         /\ calls[c].since \in Nat /\ version[calls[c].key.url] \in Versions
         /\ calls[c].answer # Absent => calls[c].answer \in Answers
<1>1. calls[c] \in CallStates
  BY DEF IInv, TypeOK, NoCall
<1>2. calls[c].key \in Keys /\ calls[c].since \in Versions /\ calls[c].answer \in Answers \cup {Absent}
  BY <1>1 DEF CallStates
<1>3. calls[c].key.url \in Urls /\ calls[c].key.token \in Tokens
  BY <1>2 DEF Keys
<1> QED
  BY <1>1, <1>2, <1>3 DEF Versions, IInv, TypeOK

\* The end of a call keeps the types.
LEMMA ReturnTyped ==
  ASSUME TypeOK, NEW c \in Calls, NEW entry, Return(c, entry)
  PROVE  calls' \in [Calls -> CallStates \cup {NoCall}]
<1>1. ASSUME NEW d \in Calls, calls[d].pc # "idle"
      PROVE  [calls[d] EXCEPT !.overtaken = TRUE] \in CallStates
  <2>1. calls[d] \in CallStates
    BY <1>1 DEF TypeOK, NoCall
  <2> QED
    BY <2>1 DEF CallStates
<1> QED
  BY <1>1 DEF TypeOK, Return

\* The end of a call that caches nothing touches no other call.
LEMMA ReturnKeeps ==
  ASSUME IInv, NEW c \in Calls, Return(c, Absent), UNCHANGED <<version, cache>>
  PROVE  \A d \in Calls : Underway(d)'
<1> SUFFICES ASSUME NEW d \in Calls PROVE Underway(d)'
  OBVIOUS
<1>1. calls'[d] = calls[d] \/ calls'[d] = NoCall
  BY DEF Return
<1>2. CASE calls'[d] = calls[d]
  BY <1>2 DEF IInv, Underway, Conditional, Usable
<1>3. CASE calls'[d] = NoCall
  BY <1>3 DEF Underway, NoCall
<1> QED
  BY <1>1, <1>2, <1>3

\* Steps that move one call and nothing else.
LEMMA OneCall ==
  ASSUME IInv, NEW c \in Calls, NEW call \in CallStates,
         calls' = [calls EXCEPT ![c] = call],
         UNCHANGED <<version, now, cache, told>>,
         until' \in [Tokens -> Deadlines], \A t \in Tokens : until'[t] <= told[t],
         Underway(c)'
  PROVE  IInv'
<1>1. TypeOK'
  BY DEF IInv, TypeOK
<1>2. ASSUME NEW d \in Calls, d # c PROVE Underway(d)'
  <2>1. calls'[d] = calls[d]
    BY <1>2 DEF IInv, TypeOK
  <2> QED
    BY <2>1 DEF IInv, Underway, Conditional, Usable
<1> QED
  BY <1>1, <1>2 DEF IInv, EntriesMatch, TokensTold

LEMMA GetStep ==
  ASSUME IInv, NEW c \in Calls, NEW key \in Keys, Get(c, key)
  PROVE  IInv'
<1> DEFINE call == [NoCall EXCEPT !.pc = "checked", !.key = key, !.since = version[key.url]]
<1>1. call \in CallStates
  BY DEF IInv, TypeOK, CallStates, NoCall, Keys
<1>2. calls' = [calls EXCEPT ![c] = call]
  BY DEF Get
<1>3. calls'[c] = call
  BY <1>2 DEF IInv, TypeOK
<1>4. Underway(c)'
  <2>1. version'[key.url] \in Nat /\ version'[key.url] = version[key.url]
    BY DEF IInv, TypeOK, Get, Keys, Versions
  <2> QED
    BY <1>3, <2>1 DEF Underway, Conditional, Usable, NoCall
<1>5. until' \in [Tokens -> Deadlines] /\ \A t \in Tokens : until'[t] <= told[t]
  <2>1. until \in [Tokens -> Deadlines] /\ told \in [Tokens -> Deadlines] /\ 0 \in Deadlines
    BY BoundsAssumption DEF IInv, TypeOK, Deadlines
  <2>2. \A t \in Tokens : until[t] <= told[t] /\ 0 <= told[t]
    BY <2>1 DEF IInv, TokensTold, Deadlines
  <2>3. until' = [until EXCEPT ![key.token] = 0]
    BY DEF Get
  <2> QED
    BY <2>1, <2>2, <2>3
<1> QED
  BY <1>1, <1>2, <1>4, <1>5, OneCall DEF Get

LEMMA SendStep ==
  ASSUME IInv, NEW c \in Calls, Send(c)
  PROVE  IInv'
<1> DEFINE key == calls[c].key
           etag == IF cache[key] = Absent THEN Absent ELSE cache[key].etag
           call == [calls[c] EXCEPT !.pc = "sent", !.etag = etag]
<1>1. calls[c] \in CallStates /\ key \in Keys
  BY CallFacts DEF Send
<1>2. etag \in ETags \cup {Absent}
  BY <1>1 DEF IInv, TypeOK, Entries
<1>3. call \in CallStates
  BY <1>1, <1>2 DEF CallStates
<1>4. calls' = [calls EXCEPT ![c] = call]
  BY DEF Send, CacheKey
<1>5. calls'[c] = call
  BY <1>4 DEF IInv, TypeOK
<1>6. /\ call.pc = "sent" /\ call.key = key /\ call.etag = etag /\ call.since = calls[c].since
  BY <1>1 DEF CallStates
<1>7. calls[c].since <= version[key.url]
  BY DEF IInv, Underway, Send
<1>8. Underway(c)'
  BY <1>5, <1>6, <1>7 DEF Underway, Conditional, Usable, Send
<1> QED
  BY <1>3, <1>4, <1>8, OneCall DEF Send, IInv, TypeOK, TokensTold

\* GitHub answers with what it is modelled to.
LEMMA AnswersTyped ==
  ASSUME IInv, NEW key \in Keys, NEW etag, NEW answer \in AnswersTo(key, etag)
  PROVE  answer \in Answers
<1>1. Latest(key) \in ETags
  BY DEF IInv, TypeOK, Latest, Keys, ETags
<1>2. CASE etag = Latest(key) /\ answer \in {[kind |-> "notModified", etag |-> etag]}
  BY <1>1, <1>2 DEF Answers
<1>3. CASE answer \in {[kind |-> "ok", body |-> [from |-> Latest(key), whole |-> whole],
                        tagged |-> tagged] : whole, tagged \in BOOLEAN}
  BY <1>1, <1>3 DEF Answers, Pages
<1>4. CASE answer \in {[kind |-> "retryAfter", wait |-> n] : n \in 0 .. MaxWait}
  BY <1>4 DEF Answers
<1>5. CASE answer \in {[kind |-> "reset", at |-> now + n] : n \in 0 .. MaxWait}
  <2>1. \A n \in 0 .. MaxWait : now + n \in Deadlines
    BY BoundsAssumption DEF IInv, TypeOK, Times, Deadlines
  <2> QED
    BY <1>5, <2>1 DEF Answers
<1>6. CASE answer \in {[kind |-> k] : k \in {"rejected", "failed"}}
  BY <1>6 DEF Answers
<1> QED
  BY <1>2, <1>3, <1>4, <1>5, <1>6 DEF AnswersTo

LEMMA RespondStep ==
  ASSUME IInv, NEW c \in Calls, Respond(c)
  PROVE  IInv'
<1> DEFINE key == calls[c].key
<1>1. PICK answer \in AnswersTo(key, calls[c].etag) :
        calls' = [calls EXCEPT ![c].pc = "answered", ![c].answer = answer]
  BY DEF Respond
<1> DEFINE call == [calls[c] EXCEPT !.pc = "answered", !.answer = answer]
<1>2. calls[c] \in CallStates /\ key \in Keys /\ version[key.url] \in Versions
  BY CallFacts DEF Respond
<1>3. answer \in Answers
  BY <1>2, AnswersTyped
<1>4. call \in CallStates
  BY <1>2, <1>3 DEF CallStates
<1>5. calls' = [calls EXCEPT ![c] = call] /\ calls'[c] = call
  BY <1>1 DEF IInv, TypeOK
<1>6. /\ call.pc = "answered" /\ call.key = key /\ call.since = calls[c].since
      /\ call.answer = answer /\ call.overtaken = calls[c].overtaken
  BY <1>2 DEF CallStates
<1>7. calls[c].since <= version[key.url] /\ Conditional(c)
  BY DEF IInv, Underway, Respond
<1>8. answer # Absent
  BY <1>3, AbsentAssumption
<1>9. answer.kind = "ok" =>
        /\ answer.body.from.token = key.token /\ answer.body.from.url = key.url
        /\ answer.body.from.version = version[key.url]
  BY DEF AnswersTo, Latest
<1>10. answer.kind = "notModified" => calls[c].etag = Latest(key)
  BY DEF AnswersTo
<1>11. Latest(key) \in ETags /\ Latest(key).version = version[key.url]
  BY <1>2 DEF Latest, ETags, Keys
<1>12. ASSUME answer.kind = "notModified"
       PROVE  /\ cache[key] # Absent
              /\ ~calls[c].overtaken => cache[key].etag.version >= calls[c].since
  <2>1. calls[c].etag # Absent
    BY <1>10, <1>11, <1>12, AbsentAssumption
  <2>2. /\ cache[key] # Absent
        /\ ~calls[c].overtaken => \/ cache[key].etag = Latest(key)
                                  \/ cache[key].etag.version >= calls[c].since
    BY <1>7, <1>10, <1>12, <2>1 DEF Conditional, Respond
  <2> QED
    BY <1>7, <1>11, <2>2
<1>13. Underway(c)'
  <2>1. UNCHANGED <<version, cache>>
    BY DEF Respond
  <2>2. Usable(c)'
    BY <1>5, <1>6, <1>7, <1>8, <1>9, <1>12, <2>1 DEF Usable
  <2> QED
    BY <1>5, <1>6, <1>7, <2>1, <2>2 DEF Underway, Conditional
<1> QED
  BY <1>4, <1>5, <1>13, OneCall DEF Respond, IInv, TypeOK, TokensTold

\* The ends of a call that cache nothing.
LEMMA EndStep ==
  ASSUME IInv, NEW c \in Calls, Return(c, Absent),
         UNCHANGED <<version, now, cache>>,
         until' \in [Tokens -> Deadlines], told' \in [Tokens -> Deadlines], TokensTold'
  PROVE  IInv'
<1>1. TypeOK'
  BY ReturnTyped DEF IInv, TypeOK
<1>2. \A d \in Calls : Underway(d)'
  BY ReturnKeeps
<1> QED
  BY <1>1, <1>2 DEF IInv, EntriesMatch

LEMMA QuietEndStep ==
  ASSUME IInv, NEW c \in Calls, NotModified(c) \/ Failed(c)
  PROVE  IInv'
BY EndStep DEF NotModified, Failed, IInv, TypeOK, TokensTold

LEMMA RejectedStep ==
  ASSUME IInv, NEW c \in Calls, Rejected(c)
  PROVE  IInv'
<1> DEFINE token == calls[c].key.token
           answer == calls[c].answer
<1>1. token \in Tokens /\ answer \in Answers
  BY CallFacts DEF Rejected, IInv, Underway, Usable
<1>2. /\ until \in [Tokens -> Deadlines] /\ told \in [Tokens -> Deadlines]
      /\ now \in Nat /\ \A n \in 0 .. MaxWait : now + n \in Deadlines
      /\ \A t \in Tokens : until[t] <= told[t]
  BY BoundsAssumption DEF IInv, TypeOK, Times, Deadlines, TokensTold
<1>3. /\ answer.kind = "retryAfter" => answer.wait \in 0 .. MaxWait
      /\ answer.kind = "reset" => answer.at \in Deadlines
  BY <1>1 DEF Answers
<1> DEFINE latest == Told(told[token], answer)
<1>4. /\ latest \in Deadlines /\ told[token] <= latest
      /\ \A t \in Reset(answer) : t \in Deadlines /\ t <= latest
  <2>1. CASE answer.kind = "retryAfter"
    BY <1>1, <1>2, <1>3, <2>1 DEF Told, Reset, Later, Deadlines
  <2>2. CASE answer.kind = "reset"
    BY <1>1, <1>2, <1>3, <2>2 DEF Told, Reset, Later, Deadlines
  <2>3. CASE answer.kind \notin {"retryAfter", "reset"}
    BY <1>1, <1>2, <2>3 DEF Told, Reset, Deadlines
  <2> QED
    BY <2>1, <2>2, <2>3
<1>5. told' = [told EXCEPT ![token] = latest]
  BY DEF Rejected
<1>6. until' = until \/ \E t \in Reset(answer) : until' = [until EXCEPT ![token] = t]
  BY DEF Rejected
<1> HIDE DEF token, answer, latest
<1>7. told' \in [Tokens -> Deadlines] /\ until' \in [Tokens -> Deadlines]
  BY <1>1, <1>2, <1>4, <1>5, <1>6
<1>8. ASSUME NEW t \in Tokens PROVE until'[t] <= told'[t]
  BY <1>1, <1>2, <1>4, <1>5, <1>6 DEF Deadlines
<1> QED
  BY <1>7, <1>8, EndStep DEF Rejected, TokensTold

\* A response that is cached overtakes the calls of its key that started later.
LEMMA CachedStep ==
  ASSUME IInv, NEW c \in Calls, calls[c].pc = "answered", calls[c].answer.kind = "ok",
         NEW entry,
         entry = [etag |-> calls[c].answer.body.from, body |-> calls[c].answer.body],
         cache' = [cache EXCEPT ![calls[c].key] = entry],
         Return(c, entry),
         UNCHANGED <<version, now, until, told>>
  PROVE  IInv'
<1> DEFINE key == calls[c].key
           body == calls[c].answer.body
<1>1. key \in Keys /\ calls[c].answer \in Answers
  BY CallFacts DEF IInv, Underway, Usable
<1>2. /\ body \in Pages /\ body.from \in ETags
      /\ body.from.token = key.token /\ body.from.url = key.url
  BY <1>1 DEF IInv, Underway, Usable, Answers, Pages
<1>3. entry \in Entries /\ entry # Absent /\ entry.etag \in ETags /\ entry.etag.version \in Nat
  BY <1>2, AbsentAssumption DEF Entries, ETags, Versions
<1>4. TypeOK'
  <2>1. cache' \in [Keys -> Entries \cup {Absent}]
    BY <1>3 DEF IInv, TypeOK
  <2> QED
    BY <2>1, ReturnTyped DEF IInv, TypeOK
<1>5. EntriesMatch'
  <2> SUFFICES ASSUME NEW k \in Keys, cache'[k] # Absent
               PROVE  /\ cache'[k].etag = cache'[k].body.from
                      /\ cache'[k].etag.token = k.token /\ cache'[k].etag.url = k.url
    BY DEF EntriesMatch
  <2>1. CASE k = key
    BY <1>1, <1>2, <2>1 DEF IInv, TypeOK
  <2>2. CASE k # key
    BY <2>2 DEF IInv, TypeOK, EntriesMatch
  <2> QED
    BY <2>1, <2>2
<1>6. ASSUME NEW d \in Calls PROVE Underway(d)'
  <2>1. CASE d = c \/ calls[d].pc = "idle"
    <3>1. calls'[d].pc = "idle"
      BY <2>1 DEF Return, NoCall
    <3> QED
      BY <3>1 DEF Underway
  <2>2. CASE d # c /\ calls[d].pc # "idle" /\ calls[d].key # key
    <3>1. calls'[d] = calls[d] /\ calls[d].key \in Keys
      BY <2>2, CallFacts DEF Return
    <3>2. cache'[calls[d].key] = cache[calls[d].key]
      BY <2>2, <3>1 DEF IInv, TypeOK
    <3> QED
      BY <3>1, <3>2 DEF IInv, Underway, Conditional, Usable
  <2>3. CASE d # c /\ calls[d].pc # "idle" /\ calls[d].key = key
    <3>1. calls[d] \in CallStates /\ calls[d].since \in Nat
      BY <2>3, CallFacts
    <3>2. cache'[key] = entry
      BY <1>1 DEF IInv, TypeOK
    <3>3. /\ calls'[d].pc = calls[d].pc /\ calls'[d].key = key
          /\ calls'[d].since = calls[d].since /\ calls'[d].answer = calls[d].answer
          /\ ~calls'[d].overtaken => entry.etag.version >= calls[d].since
      <4>1. CASE entry.etag.version < calls[d].since
        <5>1. calls'[d] = [calls[d] EXCEPT !.overtaken = TRUE]
          BY <1>3, <2>3, <4>1 DEF Return
        <5> QED
          BY <2>3, <3>1, <5>1 DEF CallStates
      <4>2. CASE ~(entry.etag.version < calls[d].since)
        <5>1. calls'[d] = calls[d]
          BY <1>3, <2>3, <4>2 DEF Return
        <5> QED
          BY <1>3, <2>3, <3>1, <4>2, <5>1
      <4> QED
        BY <4>1, <4>2
    <3>4. Underway(d)
      BY DEF IInv
    <3>5. Conditional(d)'
      BY <1>3, <3>2, <3>3 DEF Conditional
    <3>6. Usable(d)'
      BY <1>3, <2>3, <3>2, <3>3, <3>4 DEF Underway, Usable
    <3> QED
      BY <2>3, <3>3, <3>4, <3>5, <3>6 DEF Underway
  <2> QED
    BY <2>1, <2>2, <2>3
<1> QED
  BY <1>4, <1>5, <1>6 DEF IInv, TokensTold

LEMMA OkStep ==
  ASSUME IInv, NEW c \in Calls, Ok(c)
  PROVE  IInv'
<1>1. CASE calls[c].answer.tagged
  BY <1>1, CachedStep DEF Ok, CacheKey
<1>2. CASE ~calls[c].answer.tagged
  <2>1. Return(c, Absent) /\ UNCHANGED <<version, now, cache, until, told>>
    BY <1>2 DEF Ok
  <2> QED
    BY <2>1, EndStep DEF IInv, TypeOK, TokensTold
<1> QED
  BY <1>1, <1>2

\* The world outside: a resource only gets newer, and time passes.
LEMMA ChangeStep ==
  ASSUME IInv, NEW url \in Urls, Change(url)
  PROVE  IInv'
<1>1. /\ version \in [Urls -> Versions] /\ version' \in [Urls -> Versions]
      /\ \A u \in Urls : version[u] <= version'[u]
  BY BoundsAssumption DEF IInv, TypeOK, Change, Versions
<1>2. ASSUME NEW d \in Calls PROVE Underway(d)'
  <2>1. CASE calls[d].pc = "idle"
    BY <2>1 DEF Change, Underway
  <2>2. CASE calls[d].pc # "idle"
    <3>1. calls[d].key.url \in Urls /\ calls[d].since \in Nat
      BY <2>2, CallFacts
    <3>2. calls[d].since <= version'[calls[d].key.url]
      BY <1>1, <2>2, <3>1 DEF IInv, Underway, Versions
    <3> QED
      BY <2>2, <3>2 DEF Change, IInv, Underway, Conditional, Usable
  <2> QED
    BY <2>1, <2>2
<1> QED
  BY <1>1, <1>2 DEF Change, IInv, TypeOK, EntriesMatch, TokensTold

LEMMA ClockStep ==
  ASSUME IInv, Tick \/ UNCHANGED vars
  PROVE  IInv'
<1>1. /\ now' \in Times /\ UNCHANGED <<version, cache, until, calls, told>>
  BY BoundsAssumption DEF Tick, vars, IInv, TypeOK, Times
<1>2. ASSUME NEW d \in Calls PROVE Underway(d)'
  BY <1>1 DEF IInv, Underway, Conditional, Usable
<1> QED
  BY <1>1, <1>2 DEF IInv, TypeOK, EntriesMatch, TokensTold

LEMMA NextIInv == IInv /\ [Next]_vars => IInv'
<1> SUFFICES ASSUME IInv, [Next]_vars PROVE IInv'
  OBVIOUS
<1>1. ASSUME NEW c \in Calls, NEW key \in Keys, Get(c, key) PROVE IInv'
  BY <1>1, GetStep
<1>2. ASSUME NEW c \in Calls, Send(c) PROVE IInv'
  BY <1>2, SendStep
<1>3. ASSUME NEW c \in Calls, Respond(c) PROVE IInv'
  BY <1>3, RespondStep
<1>4. ASSUME NEW c \in Calls, NotModified(c) \/ Failed(c) PROVE IInv'
  BY <1>4, QuietEndStep
<1>5. ASSUME NEW c \in Calls, Ok(c) PROVE IInv'
  BY <1>5, OkStep
<1>6. ASSUME NEW c \in Calls, Rejected(c) PROVE IInv'
  BY <1>6, RejectedStep
<1>7. ASSUME NEW url \in Urls, Change(url) PROVE IInv'
  BY <1>7, ChangeStep
<1>8. CASE Tick \/ UNCHANGED vars
  BY <1>8, ClockStep
<1> QED
  BY <1>1, <1>2, <1>3, <1>4, <1>5, <1>6, <1>7, <1>8 DEF Next

LEMMA Invariance == Spec => []IInv
BY InitIInv, NextIInv, PTL DEF Spec

-----------------------------------------------------------------------------
\* Calls, cache and back-off table keep their types for any number of concurrent
\* calls: nothing but the body of a 200 response is ever cached (Get).
THEOREM ClientTyped == Spec => []TypeOK
<1>1. IInv => TypeOK
  BY DEF IInv
<1> QED
  BY <1>1, Invariance, PTL

\* The "effectively unreachable" branch of Get is unreachable: a 304 finds the
\* entry it revalidates.
THEOREM MissNeverHappens == Spec => []MissUnreachable
BY Consequences, Invariance, PTL

\* No call decodes a body that was sent to another token or for another URL
\* (ghCacheKey).
THEOREM TokensSeeTheirOwn == Spec => []ViewsNotShared
BY Consequences, Invariance, PTL

\* A call that no older response overtook reports nothing older than the state
\* of the resource at its start, though a 304 is answered from the cache as it
\* is at the end of the call (Get).
THEOREM NothingOlderThanTheStart == Spec => []FreshUnlessOvertaken
BY Consequences, Invariance, PTL

\* Calls are refused only under a deadline that GitHub gave their own token
\* (parseRateLimitReset, rateLimitedUntil).
THEOREM BackOffOnlyWhenTold == Spec => []RefusedOnlyWhenTold
BY Consequences, Invariance, PTL
=============================================================================
