------------------------------ MODULE GHClient ------------------------------
(***************************************************************************)
(* GHClient.Get of internal/plugins/github.go: conditional requests over   *)
(* the process-wide ETag cache (ghCache) and the per-token back-off        *)
(* (ghRate), used by concurrent runs of GitHub plugins.                    *)
(*                                                                         *)
(* GitHub itself is external: a resource has a version that only grows, a  *)
(* token's view of a version is one representation with one ETag, and a    *)
(* request may be rejected, fail, or have its body cut short.  A body is   *)
(* abstracted to the representation it comes from and whether all of it    *)
(* arrived, which is what json.Unmarshal finds out.                        *)
(***************************************************************************)
EXTENDS Naturals

CONSTANTS
  Calls,       \* goroutines in GHClient.Get
  Tokens,      \* token fingerprints, "anon" included
  Urls,        \* request URLs
  Absent,      \* no entry, no ETag, no call
  MaxVersion,  \* bound on how often a resource changes
  MaxTime,     \* bound on the clock
  MaxWait      \* bound on how far ahead a back-off deadline lies

ASSUME BoundsAssumption == {MaxVersion, MaxTime, MaxWait} \subseteq Nat

Versions == 0 .. MaxVersion
Times == 0 .. MaxTime
Deadlines == 0 .. MaxTime + MaxWait
Keys == [token : Tokens, url : Urls]
ETags == [token : Tokens, url : Urls, version : Versions]
Pages == [from : ETags, whole : BOOLEAN]
Entries == [etag : ETags, body : Pages]

Answers ==
  [kind : {"ok"}, body : Pages, tagged : BOOLEAN]
    \cup [kind : {"notModified"}, etag : ETags]
    \cup [kind : {"retryAfter"}, wait : 0 .. MaxWait]
    \cup [kind : {"reset"}, at : Deadlines]
    \cup [kind : {"rejected", "failed"}]

ASSUME AbsentAssumption ==
  Absent \notin Entries /\ Absent \notin ETags /\ Absent \notin Answers /\ Absent \notin Pages

VARIABLES
  version,  \* GitHub's resources
  now,      \* the clock
  cache,    \* ghCache.m
  until,    \* ghRate.until, 0 for no entry
  calls,    \* calls of Get
  told      \* history: the latest deadline GitHub gave each token

vars == <<version, now, cache, until, calls, told>>

NoCall == [pc |-> "idle", key |-> Absent, etag |-> Absent, answer |-> Absent,
           since |-> 0, overtaken |-> FALSE]

Latest(key) == [token |-> key.token, url |-> key.url, version |-> version[key.url]]

\* Mutant: authenticated and anonymous requests share their entries.
UrlOnly(key) == [key EXCEPT !.token = CHOOSE t \in Tokens : TRUE]

\* ghCacheKey
CacheKey(key) == key

(***************************************************************************)
(* A call of Get.  It fails fast while its token is backed off; an expired *)
(* deadline is forgotten.                                                  *)
(***************************************************************************)
Limited(token) == now < until[token]

Get(c, key) ==
  /\ calls[c].pc = "idle"
  /\ ~Limited(key.token)
  /\ until' = [until EXCEPT ![key.token] = 0]
  /\ calls' = [calls EXCEPT ![c] = [NoCall EXCEPT
       !.pc = "checked", !.key = key, !.since = version[key.url]]]
  /\ UNCHANGED <<version, now, cache, told>>

Send(c) ==
  LET entry == cache[CacheKey(calls[c].key)] IN
  /\ calls[c].pc = "checked"
  /\ calls' = [calls EXCEPT ![c].pc = "sent",
       ![c].etag = IF entry = Absent THEN Absent ELSE entry.etag]
  /\ UNCHANGED <<version, now, cache, until, told>>

\* What GitHub may answer to a conditional request.
AnswersTo(key, etag) ==
  LET latest == Latest(key) IN
  (IF etag = latest
   THEN {[kind |-> "notModified", etag |-> etag]}
   ELSE {[kind |-> "ok", body |-> [from |-> latest, whole |-> whole], tagged |-> tagged] :
           whole, tagged \in BOOLEAN})
    \cup {[kind |-> "retryAfter", wait |-> n] : n \in 0 .. MaxWait}
    \cup {[kind |-> "reset", at |-> now + n] : n \in 0 .. MaxWait}
    \cup {[kind |-> k] : k \in {"rejected", "failed"}}

Respond(c) ==
  /\ calls[c].pc = "sent"
  /\ \E answer \in AnswersTo(calls[c].key, calls[c].etag) :
       calls' = [calls EXCEPT ![c].pc = "answered", ![c].answer = answer]
  /\ UNCHANGED <<version, now, cache, until, told>>

\* The end of call c, in which the entry of its key becomes entry: calls of the
\* same key that started from a newer version have been overtaken.
Return(c, entry) ==
  calls' = [d \in Calls |->
    IF d = c THEN NoCall
    ELSE IF /\ calls[d].pc # "idle" /\ calls[d].key = calls[c].key
            /\ entry # Absent /\ entry.etag.version < calls[d].since
         THEN [calls[d] EXCEPT !.overtaken = TRUE]
         ELSE calls[d]]

\* 304: the body is read from the cache as it is now.
NotModified(c) ==
  /\ calls[c].pc = "answered" /\ calls[c].answer.kind = "notModified"
  /\ Return(c, Absent)
  /\ UNCHANGED <<version, now, cache, until, told>>

\* Mutant: a response without an ETag evicts the entry.
OkEvicting(c) ==
  LET key == calls[c].key
      body == calls[c].answer.body
      entry == IF calls[c].answer.tagged THEN [etag |-> body.from, body |-> body] ELSE Absent
  IN
  /\ calls[c].pc = "answered" /\ calls[c].answer.kind = "ok"
  /\ cache' = [cache EXCEPT ![CacheKey(key)] = entry]
  /\ Return(c, entry)
  /\ UNCHANGED <<version, now, until, told>>

\* Mutant: a body already cached is kept beside the new ETag.
OkKeepingBody(c) ==
  LET key == calls[c].key
      body == calls[c].answer.body
      old == cache[CacheKey(key)]
      entry == [etag |-> body.from, body |-> IF old = Absent THEN body ELSE old.body]
  IN
  /\ calls[c].pc = "answered" /\ calls[c].answer.kind = "ok"
  /\ IF calls[c].answer.tagged
     THEN cache' = [cache EXCEPT ![CacheKey(key)] = entry] /\ Return(c, entry)
     ELSE UNCHANGED cache /\ Return(c, Absent)
  /\ UNCHANGED <<version, now, until, told>>

\* 200: the body is cached before it is decoded, whole or not.
Ok(c) ==
  LET key == calls[c].key
      body == calls[c].answer.body
      entry == [etag |-> body.from, body |-> body]
  IN
  /\ calls[c].pc = "answered" /\ calls[c].answer.kind = "ok"
  /\ IF calls[c].answer.tagged
     THEN cache' = [cache EXCEPT ![CacheKey(key)] = entry] /\ Return(c, entry)
     ELSE UNCHANGED cache /\ Return(c, Absent)
  /\ UNCHANGED <<version, now, until, told>>

\* Mutant: every rejection trips the back-off, for as long as it may last.
ResetOfAll(answer) ==
  CASE answer.kind = "retryAfter" -> {now + answer.wait}
    [] answer.kind = "reset"      -> {answer.at}
    [] OTHER                      -> {now + MaxWait}

\* parseRateLimitReset: the deadline of a rejection that carries one.
Reset(answer) ==
  CASE answer.kind = "retryAfter" -> {now + answer.wait}
    [] answer.kind = "reset"      -> {answer.at}
    [] OTHER                      -> {}

\* The latest deadline GitHub has given, after an answer (history).
Later(s, t) == IF s < t THEN t ELSE s
Told(before, answer) ==
  CASE answer.kind = "retryAfter" -> Later(before, now + answer.wait)
    [] answer.kind = "reset"      -> Later(before, answer.at)
    [] OTHER                      -> before

\* Any other status: the last deadline to arrive replaces the one before.
Rejected(c) ==
  LET token == calls[c].key.token
      answer == calls[c].answer
  IN
  /\ calls[c].pc = "answered" /\ answer.kind \in {"rejected", "retryAfter", "reset"}
  /\ IF Reset(answer) = {} THEN UNCHANGED until
     ELSE \E deadline \in Reset(answer) : until' = [until EXCEPT ![token] = deadline]
  /\ told' = [told EXCEPT ![token] = Told(@, answer)]
  /\ Return(c, Absent)
  /\ UNCHANGED <<version, now, cache>>

\* The request fails or times out.
Failed(c) ==
  /\ calls[c].pc = "answered" /\ calls[c].answer.kind = "failed"
  /\ Return(c, Absent)
  /\ UNCHANGED <<version, now, cache, until, told>>

\* The resource changes upstream, and time passes.
Change(url) ==
  /\ version[url] < MaxVersion
  /\ version' = [version EXCEPT ![url] = @ + 1]
  /\ UNCHANGED <<now, cache, until, calls, told>>

Tick ==
  /\ now < MaxTime
  /\ now' = now + 1
  /\ UNCHANGED <<version, cache, until, calls, told>>

Init ==
  /\ version = [u \in Urls |-> 0]
  /\ now = 0
  /\ cache = [k \in Keys |-> Absent]
  /\ until = [t \in Tokens |-> 0]
  /\ calls = [c \in Calls |-> NoCall]
  /\ told = [t \in Tokens |-> 0]

Next ==
  \/ \E c \in Calls :
       \/ \E key \in Keys : Get(c, key)
       \/ Send(c) \/ Respond(c) \/ NotModified(c) \/ Ok(c) \/ Rejected(c) \/ Failed(c)
  \/ \E u \in Urls : Change(u)
  \/ Tick

Spec == Init /\ [][Next]_vars

-----------------------------------------------------------------------------
CallStates ==
  [pc : {"checked", "sent", "answered"}, key : Keys, etag : ETags \cup {Absent},
   answer : Answers \cup {Absent}, since : Versions, overtaken : BOOLEAN]

\* Every variable stays in its set; in particular nothing but the body of a
\* 200 response is ever cached.
TypeOK ==
  /\ version \in [Urls -> Versions]
  /\ now \in Times
  /\ cache \in [Keys -> Entries \cup {Absent}]
  /\ until \in [Tokens -> Deadlines] /\ told \in [Tokens -> Deadlines]
  /\ calls \in [Calls -> CallStates \cup {NoCall}]

\* "The cache never evicts and we only send If-None-Match when an entry exists,
\* so this is effectively unreachable" (Get): a 304 always finds its entry,
\* whatever other calls cached since the ETag was sent.
MissUnreachable ==
  \A c \in Calls : calls[c].pc = "answered" /\ calls[c].answer.kind = "notModified"
    => cache[CacheKey(calls[c].key)] # Absent

Served(c) ==
  CASE calls[c].answer.kind = "ok"          -> {calls[c].answer.body}
    [] calls[c].answer.kind = "notModified" -> {cache[CacheKey(calls[c].key)].body}
    [] OTHER                                -> {}

\* "unauthenticated and authenticated views, or different tokens, never share
\* an entry" (ghCache): the body a call is about to decode was sent to its own
\* token, for its own URL.
ViewsNotShared ==
  \A c \in Calls : calls[c].pc = "answered" =>
    \A body \in Served(c) :
      body.from.token = calls[c].key.token /\ body.from.url = calls[c].key.url

\* A call reports no state of the resource older than the one it started from,
\* unless another call of the same resource cached an older response under its
\* feet (a 304 is answered with the entry of that moment, not with the one whose
\* ETag was sent).
FreshUnlessOvertaken ==
  \A c \in Calls : calls[c].pc = "answered" /\ ~calls[c].overtaken =>
    \A body \in Served(c) : body.from.version >= calls[c].since

\* Calls fail fast only while a deadline GitHub gave their own token lies ahead:
\* ordinary failures and other tokens' limits never trip the back-off
\* (parseRateLimitReset, ghRate).  The converse does not hold: setRateLimited
\* overwrites, so of two rejections the later one to be processed may take the
\* later deadline away.
RefusedOnlyWhenTold == \A t \in Tokens : Limited(t) => now < told[t]
=============================================================================
