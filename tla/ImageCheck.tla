----------------------------- MODULE ImageCheck -----------------------------
(***************************************************************************)
(* docker-image: whether tags of an image (and architectures) are in its   *)
(* registry.  Every candidate tag is a little protocol of its own: a token *)
(* fetched in advance, the manifest, and on 401 the token of the challenge *)
(* and the manifest once more; meanwhile tags are pushed and removed.      *)
(***************************************************************************)
EXTENDS PluginRun

CONSTANTS Tags, Arches

(* An image reference: the part before the first "/" if that is a host, and the path. *)
Images == {[host |-> "", path |-> <<"nginx">>], [host |-> "docker.io", path |-> <<"nginx">>],
           [host |-> "ghcr.io", path |-> <<"org", "app">>], [host |-> "localhost:5000", path |-> <<"app">>]}
DockerHosts == {"", "docker.io", "index.docker.io", "registry-1.docker.io"}
Ported == {"localhost", "127.0.0.1", "localhost:5000"}

(* Where an image is asked for; bare names of Docker Hub live under library. *)
parseImage(image) ==
  IF image.host \in DockerHosts
  THEN [registry |-> "registry-1.docker.io", scheme |-> "https",
        repo |-> IF Len(image.path) = 1 THEN <<"library">> \o image.path ELSE image.path]
  ELSE [registry |-> image.host, repo |-> image.path,
        scheme |-> IF image.host \in Ported THEN "http" ELSE "https"]

(***************************************************************************)
(* The registry, external.  It holds the image under one address, accepts  *)
(* some tokens for it ("none": anybody), and refuses others in its way;    *)
(* its token endpoint and its challenge may or may not give tokens out.    *)
(***************************************************************************)
Bearers == {"none", "prefetched", "challenged", "configured"}
Manifest == [index : {FALSE}, platforms : {{}}] \cup [index : {TRUE}, platforms : SUBSET Arches]
Address == CASE job.image.host \in {"", "docker.io"} ->
                  [registry |-> "registry-1.docker.io", repo |-> <<"library", "nginx">>, scheme |-> "https"]
             [] job.image.host = "ghcr.io" -> [registry |-> "ghcr.io", repo |-> <<"org", "app">>, scheme |-> "https"]
             [] OTHER -> [registry |-> "localhost:5000", repo |-> <<"app">>, scheme |-> "http"]
Status(bearer, tag) ==
  IF parseImage(job.image) # Address THEN "404"
  ELSE IF bearer \notin remote.accepts THEN remote.refusal
  ELSE IF tag \in DOMAIN remote.tags THEN "200" ELSE "404"

PushTag == job.plugin = "image" /\ \E t \in Tags, m \in Manifest :
  Move([remote EXCEPT !.tags = (t :> m) @@ @])
RemoveTag == job.plugin = "image" /\ \E t \in DOMAIN remote.tags :
  Move([remote EXCEPT !.tags = Restrict(@, DOMAIN @ \ {t})])

(***************************************************************************)
(* The answers.                                                            *)
(***************************************************************************)
(* Index entries without an architecture are left out; a single manifest has none. *)
decodePlatforms(m) == IF m.index THEN m.platforms ELSE {}

(* No platforms to look at counts as present. *)
evalArch(row, arch) == row.exists /\ (row.platforms = {} \/ arch \in row.platforms)

(* The checklist: an item per tag, or per tag and architecture. *)
Checklist(rows) ==
  LET ok(row) == IF job.arches = {} THEN row.exists ELSE \A a \in job.arches : evalArch(row, a)
  IN [rows |-> rows, all_ok |-> \A i \in DOMAIN rows : ok(rows[i])]

(***************************************************************************)
(* The requests.  got.specs: the tags not yet decided, each the candidates *)
(* it has (of) and those still to try (left); got.sent: the credentials a  *)
(* manifest was asked for with.                                            *)
(***************************************************************************)
Spec1(candidates) == [of |-> ToSet(candidates), left |-> candidates]
Tag == Head(Head(got.specs).left)

(* A release tag is also tried without its v. *)
ReleaseTag ==
  /\ step = "release"
  /\ \/ Abort
     \/ Proceed("token", [got EXCEPT !.specs = Append(@, Spec1(<<"v1", "1">>))])

(* A token in advance replaces the configured one. *)
PrefetchToken ==
  /\ step = "token"
  /\ \/ Proceed("manifest", [got EXCEPT !.bearer = job.token])
     \/ /\ remote.prefetch
        /\ Proceed("manifest", [got EXCEPT !.bearer = "prefetched"])

(* The tag is decided: next tag, or the result. *)
Decide(exists, tag, platforms, g0) ==
  LET row == [exists |-> exists, tag |-> tag, platforms |-> platforms, of |-> Head(g0.specs).of]
      g == [g0 EXCEPT !.specs = Tail(@), !.rows = Append(@, row)] IN
  IF g.specs = <<>> THEN Return(Checklist(g.rows), g) ELSE Proceed("token", g)

\* Mutant: whatever is no 200 means that the tag is missing.
resolveTagLenient(status, g) ==
  IF status = "200"
  THEN Decide(TRUE, Tag, decodePlatforms(remote.tags[Tag]), g)
  ELSE Decide(FALSE, "", {}, g)

(* 200 and 404 are answers, and after a 404 the next candidate is tried; anything else is an error. *)
resolveTag(status, g) ==
  CASE status = "200" ->
         Decide(TRUE, Tag, decodePlatforms(remote.tags[Tag]), g)
    [] status = "404" ->
         IF Len(Head(got.specs).left) > 1
         THEN Proceed("token", [g EXCEPT !.specs[1].left = Tail(@)])
         ELSE Decide(FALSE, "", {}, g)
    [] OTHER -> Abort

doManifest ==
  /\ step = "manifest"
  /\ LET status == Status(got.bearer, Tag)
         g == [got EXCEPT !.sent = @ \cup {got.bearer}]
     IN \/ Abort
        \/ IF status = "401" THEN Proceed("challenge", g) ELSE resolveTag(status, g)

(* The challenge is followed once; without a token the 401 stands. *)
FollowChallenge ==
  /\ step = "challenge"
  /\ \/ Abort
     \/ /\ remote.challenge
        /\ Proceed("retry", [got EXCEPT !.bearer = "challenged", !.challenged = TRUE])
Retry ==
  /\ step = "retry"
  /\ \/ Abort
     \/ resolveTag(Status(got.bearer, Tag), [got EXCEPT !.sent = @ \cup {got.bearer}])

-----------------------------------------------------------------------------
ImageJobs == [plugin : {"image"}, image : Images, token : {"none", "configured"},
              manual : BOOLEAN, source : BOOLEAN, arches : SUBSET Arches]

ImageInit ==
  /\ job \in ImageJobs /\ (job.manual \/ job.source)
  /\ \E accepts \in {Bearers, {"prefetched", "challenged"}, {"configured"}},
        tags \in UNION {{[t \in ts |-> m] : ts \in SUBSET Tags} : m \in Manifest},
        refusal \in {"401", "403", "404"}, prefetch, challenge \in BOOLEAN :
       (* how the image is written matters for its address only *)
       /\ job.image.host # "" => accepts = Bearers /\ refusal = "401"
       /\ remote = [accepts |-> accepts, tags |-> tags, refusal |-> refusal,
                 prefetch |-> prefetch, challenge |-> challenge]
  /\ step = IF job.source THEN "release" ELSE "token"
  /\ got = [specs |-> IF job.manual THEN <<Spec1(<<"1">>)>> ELSE <<>>, bearer |-> "none", sent |-> {},
            challenged |-> FALSE, rows |-> <<>>]
  /\ out = Pending
  /\ past = <<remote>>

ImageNext ==
  \/ ReleaseTag \/ PrefetchToken \/ doManifest \/ FollowChallenge \/ Retry
  \/ PushTag \/ RemoveTag

-----------------------------------------------------------------------------
(***************************************************************************)
(* A check mark means that the tag, under the image's own address, was     *)
(* there at some moment of the run with that architecture, or without any  *)
(* platform to verify; a missing tag means that at some moment it was not  *)
(* there, or that the registry hid it from the credentials it was asked    *)
(* with.  Between the requests for two candidates both may have moved.     *)
(***************************************************************************)
HasIt(s, row) == row.tag \in DOMAIN s.tags /\ decodePlatforms(s.tags[row.tag]) = row.platforms
Hidden(s) == s.refusal = "404" /\ ~(got.sent \subseteq s.accepts)
ChecklistWasTrue ==
  Returned /\ job.plugin = "image" =>
    /\ \A n \in DOMAIN out.rows :
         LET row == out.rows[n] IN
         /\ row.exists => row.tag \in row.of /\ \E i \in DOMAIN past : HasIt(past[i], row)
         /\ ~row.exists => \A c \in row.of : \E i \in DOMAIN past : c \notin DOMAIN past[i].tags \/ Hidden(past[i])
    /\ out.all_ok => \A n \in DOMAIN out.rows, a \in job.arches :
         out.rows[n].exists /\ (out.rows[n].platforms = {} \/ a \in out.rows[n].platforms)
=============================================================================
