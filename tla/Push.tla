-------------------------------- MODULE Push --------------------------------
(***************************************************************************)
(* helpers/docker/push.py and transport.get_auth_token(): `push` finds out *)
(* how the registry authenticates, then uploads each layer the registry    *)
(* has not got, the image config, and last the manifest under the tag.     *)
(* Requests and answers get lost on the way, in either direction, and      *)
(* other commands drop blobs from the layer cache meanwhile.               *)
(***************************************************************************)
EXTENDS HttpClient, Sequences

CONSTANTS
  Layer,    \* layer blobs, by digest
  Layers,   \* the layers of the cached manifest, in order
  Config    \* its image config, a blob like any other to the registry

ASSUME PushAssumption ==
  Layers \in Seq(Layer) /\ Len(Layers) > 0 /\ Config \notin Layer

LayerSet == {Layers[i] : i \in 1..Len(Layers)}
Blobs == LayerSet \cup {Config}

VARIABLES
  push,     \* where push_image() is
  hub,      \* the registry is Docker Hub
  creds,    \* PD_DOCKER_AUTH
  unjudged, \* a check of the password was answered by one who was not shown it
  base,     \* the origin get_auth_token() settled on, or None
  auth,     \* the Authorization it settled on
  next,     \* the blob to upload next; past the last, the manifest
  cache,    \* cache[d]: the layer cache's blob
  stored,   \* the blobs the registry has
  tagged    \* the registry has the manifest under the tag

pushVars == <<push, hub, creds, unjudged, base, auth, next, cache, stored, tagged>>
account == <<hub, creds, unjudged>>

PushTypeOK ==
  /\ push \in {"idle", "start", "auth", "blob", "done", "failed", "dead"}
  /\ hub \in BOOLEAN /\ unjudged \in BOOLEAN /\ tagged \in BOOLEAN
  /\ creds \in {"none", "right", "wrong", "malformed"}
  /\ base \in Url \cup {None}
  /\ auth \in {"none", "basic", "bearer"}
  /\ next \in 1..(Len(Layers) + 2)
  /\ cache \in [LayerSet -> {"whole", "spoilt", "absent"}]
  /\ stored \subseteq Blobs

PushInit ==
  /\ hub \in BOOLEAN /\ creds \in {"none", "right", "wrong", "malformed"}
  /\ unjudged = FALSE /\ base = None /\ auth = "none" /\ next = 1 /\ tagged = FALSE
  /\ cache \in [LayerSet -> {"whole", "spoilt", "absent"}]
  /\ stored \in SUBSET Blobs

\* Another command.
NoPush ==
  /\ hub = FALSE /\ creds = "none" /\ unjudged = FALSE
  /\ base = None /\ auth = "none" /\ next = 1
  /\ cache = [d \in LayerSet |-> "absent"] /\ stored = {} /\ tagged = FALSE

Blob == IF next <= Len(Layers) THEN Layers[next] ELSE Config
\* insecure_for(): the flag does not reach Docker Hub.
FlagReaches == hub => ~insecure

-----------------------------------------------------------------------------

Send(op, url, cred) == wire' = Sent(op, url, cred)
OnlyWire == UNCHANGED <<insecure, speaks, pushVars>>

Fail ==
  /\ push' = "failed" /\ wire' = None
  /\ UNCHANGED <<insecure, speaks, account, base, auth, next, cache, stored, tagged>>

\* No manifest in the cache, none with layers, or a config that does not hash to
\* what the manifest says, is any failure here.
BeginPush ==
  /\ push = "start"
  /\ \/ Fail
     \/ /\ \A d \in LayerSet : cache[d] # "absent"
        /\ creds # "malformed"
        /\ push' = "auth"
        /\ IF hub
             THEN IF creds = "none" THEN Send("hubToken", Origin("https", "realm"), "none")
                                    ELSE Send("hubCheck", Origin("https", "realm"), "basic")
             ELSE Send("probe", Origin("https", "registry"), "none")
        /\ UNCHANGED <<insecure, speaks, account, base, auth, next, cache, stored, tagged>>

-----------------------------------------------------------------------------
(* get_auth_token().                                                       *)

\* It returns: every request from here on carries `a` to the origin `b`.
Authorized(a, b) ==
  /\ push' = "blob" /\ wire' = None
  /\ auth' = a /\ base' = b
  /\ UNCHANGED <<insecure, speaks, hub, creds, next, cache, stored, tagged>>

\* Any 2xx passes.  Who judges the password it is shown answers so to the right
\* one only; a redirect elsewhere leads to one who is not shown it and may
\* answer so to anything.
CheckPassed(op) ==
  /\ Answered(op)
  /\ creds = "right" \/ wire.cred # "basic"
  /\ unjudged' = (unjudged \/ wire.cred # "basic")

\* The password is now redeemed.
Redeem(op, url) ==
  /\ Send(op, url, "basic")
  /\ UNCHANGED <<insecure, speaks, push, hub, creds, base, auth, next, cache, stored, tagged>>

HubChecked == CheckPassed("hubCheck") /\ Redeem("hubToken", Origin("https", "realm"))

\* A grant may be empty (nothing is asked for), or none a header can carry.
Granted(op, b) ==
  /\ Answered(op)
  /\ \/ (Authorized("bearer", b) \/ Authorized("none", b)) /\ UNCHANGED unjudged
     \/ Fail

HubGranted == Granted("hubToken", Origin("https", "registry"))

ProbeOpen == Answered("probe") /\ Authorized("none", wire.start) /\ UNCHANGED unjudged

\* The probe is answered 401 with a challenge.
ChallengedBasic ==
  /\ Answered("probe")
  /\ IF creds = "none" THEN Authorized("none", wire.start) /\ UNCHANGED unjudged
       ELSE Send("basicCheck", wire.start, "basic") /\ OnlyWire

\* _require_usable_realm().  None is a realm that is no http(s) URL.
UsableRealm(r) == r # None /\ (r.scheme = "http" => insecure)

ChallengedBearer ==
  /\ Answered("probe")
  /\ \/ Authorized("none", wire.start) /\ UNCHANGED unjudged   \* no realm, or another scheme
     \/ \E r \in {Origin("https", "realm"), Origin("http", "realm"), None} :
          IF UsableRealm(r)
            THEN /\ IF creds = "none" THEN Send("realmToken", r, "none")
                                      ELSE Send("realmCheck", r, "basic")
                 /\ base' = wire.start
                 /\ UNCHANGED <<insecure, speaks, push, account, auth, next, cache, stored, tagged>>
            ELSE Fail

BasicChecked == CheckPassed("basicCheck") /\ Authorized("basic", wire.start)

RealmChecked == CheckPassed("realmCheck") /\ Redeem("realmToken", wire.start)

RealmGranted == Granted("realmToken", base)

\* Mutant: the retry of the probe stays with https.
ProbeAgainHttps ==
  /\ push = "auth" /\ wire.op = "probe" /\ wire.start.scheme = "https" /\ insecure
  /\ \E e \in GivenUp : e.kind \in {"plaintext", "cut"}
  /\ Send("probe", Origin("https", "registry"), "none")
  /\ OnlyWire

\* An https probe answered in plain HTTP, or failed while http:// answers
\* (_http_registry_reachable), is repeated over http under --allow-insecure.
ProbeAgain ==
  /\ push = "auth" /\ wire.op = "probe" /\ wire.start.scheme = "https" /\ insecure
  /\ \E e \in GivenUp : e.kind \in {"plaintext", "cut"}
  /\ Send("probe", Origin("http", "registry"), "none")
  /\ OnlyWire

-----------------------------------------------------------------------------
(* Blobs, config and manifest.                                             *)

AskExists ==
  /\ push = "blob" /\ wire = None /\ next <= Len(Layers) + 1
  /\ Send("head", base, auth)
  /\ OnlyWire

Advance ==
  /\ next' = next + 1 /\ wire' = None
  /\ UNCHANGED <<insecure, speaks, push, account, base, auth, cache>>

Exists == Answered("head") /\ Blob \in stored /\ Advance /\ UNCHANGED <<stored, tagged>>

\* 404: the blob is opened, and its digest checked on the descriptor that the
\* upload then reads, so that it may vanish from the cache from here on.
Missing ==
  /\ Answered("head")
  /\ IF Blob = Config \/ (Blob \in LayerSet /\ cache[Blob] = "whole")
       THEN Send("post", base, auth) /\ OnlyWire
       ELSE Fail

\* _headers_for(): the credential is for the registry alone.
CredentialFor(to) == IF SameAuthOrigin(base, to) THEN auth ELSE "none"

\* POST answered with an upload Location, relative or not; None is none at all
\* or one that is no URL.
UploadOpened ==
  /\ Answered("post")
  /\ \E l \in Locations \cup {base} :
       IF l = None THEN Fail
       ELSE wire' = [wire EXCEPT !.op = "put", !.url = l, !.cred = CredentialFor(l),
                                 !.hops = 0] /\ OnlyWire

Uploaded ==
  /\ Answered("put")
  /\ stored' = stored \cup {Blob}
  /\ Advance /\ UNCHANGED tagged

\* The registry has the blob, or the manifest, but its answer does not arrive.
AnswerLost ==
  /\ wire # None /\ wire.op \in {"put", "manifest"} /\ Handshake(wire.url) = "fine"
  /\ IF wire.op = "put"
       THEN stored' = stored \cup {Blob} /\ UNCHANGED tagged
       ELSE tagged' = TRUE /\ UNCHANGED stored
  /\ IF wire.attempt < MaxRetries THEN wire' = Restarted /\ UNCHANGED push
                                  ELSE wire' = None /\ push' = "failed"
  /\ UNCHANGED <<insecure, speaks, account, base, auth, next, cache>>

\* Mutant: the manifest goes up before the image config.
PutManifestEarly ==
  /\ push = "blob" /\ wire = None /\ next >= Len(Layers) + 1
  /\ Send("manifest", base, auth)
  /\ OnlyWire

PutManifest ==
  /\ push = "blob" /\ wire = None /\ next = Len(Layers) + 2
  /\ Send("manifest", base, auth)
  /\ OnlyWire

Tagged ==
  /\ Answered("manifest")
  /\ tagged' = TRUE /\ push' = "done" /\ wire' = None
  /\ UNCHANGED <<insecure, speaks, account, base, auth, next, cache, stored>>

-----------------------------------------------------------------------------

Pushing == push \in {"auth", "blob"} /\ wire # None

RetryPush == Pushing /\ Retry /\ UNCHANGED pushVars
RedirectPush == Pushing /\ Redirect /\ UNCHANGED pushVars
FailPush == Pushing /\ (GivenUp # {} \/ Refused) /\ Fail

PushStep ==
  \/ BeginPush
  \/ HubChecked \/ HubGranted
  \/ ProbeOpen \/ ChallengedBasic \/ ChallengedBearer \/ ProbeAgain
  \/ BasicChecked \/ RealmChecked \/ RealmGranted
  \/ AskExists \/ Exists \/ Missing \/ UploadOpened \/ Uploaded \/ AnswerLost
  \/ PutManifest \/ Tagged
  \/ RetryPush \/ RedirectPush \/ FailPush

\* clear-cache, remove --image, or a disk that rots.
LoseBlob ==
  /\ push \in {"start", "auth", "blob"}
  /\ \E d \in LayerSet, c \in {"spoilt", "absent"} :
       cache[d] = "whole" /\ cache' = [cache EXCEPT ![d] = c]
  /\ UNCHANGED <<insecure, speaks, wire, push, account, base, auth, next, stored, tagged>>

KillPush ==
  /\ push \in {"start", "auth", "blob"}
  /\ push' = "dead" /\ wire' = None
  /\ UNCHANGED <<insecure, speaks, account, base, auth, next, cache, stored, tagged>>

-----------------------------------------------------------------------------
(* Properties.                                                             *)

\* A credential is only ever on the wire to the host it was addressed to, and in
\* clear only under --allow-insecure, whatever redirects and upload Locations
\* say, in whatever order, over any number of attempts (same_auth_origin); and a
\* wrong password never gets as far as a request that names a repository: it is
\* checked before it is used or redeemed, unless its judge has the check answered
\* by somebody else.
CredentialsStayHome ==
  /\ AddressedOnly
  /\ (push \in {"blob", "done"} /\ creds = "wrong") => (auth = "none" \/ unjudged)

\* Whatever was retried, lost, refused or killed, a tag that the registry has
\* names a manifest of which it has every layer and the config.
TagWhole == tagged => stored = Blobs
=============================================================================
