--------------------------- MODULE TransferProofs ---------------------------
(***************************************************************************)
(* Theorems about Transfer, for any number of layers, retries and          *)
(* redirects.  A request is judged by what it was addressed to, and a      *)
(* retry goes back there: the invariant speaks of both ends of a chain of  *)
(* redirects.                                                              *)
(***************************************************************************)
EXTENDS Transfer, TLAPS

AuthOps == {"hubCheck", "hubToken", "probe", "basicCheck", "realmCheck", "realmToken"}
BlobOps == {"head", "post", "put", "manifest"}
Creds == {"none", "basic", "bearer"}

\* What may be sent a credential for `op`.
HomeOf(op, url) == url.host = Home(op) /\ (url.scheme = "http" => insecure)

\* A request, at its start and where it is now.
Addressed(w) ==
  /\ w.cred0 # "none" => HomeOf(w.op, w.start)
  /\ w.cred # "none" =>
       /\ HomeOf(w.op, w.url)
       /\ w.start.scheme = "https" => w.url.scheme = "https"
       /\ w.url.scheme = w.start.scheme => w.url.port = w.start.port
  /\ w.op # "put" /\ w.start.scheme = "https" /\ ~insecure => w.url.scheme = "https"

\* Whose request it is.
WireSound ==
  /\ push = "idle" \/ fetch = "idle"
  /\ wire # None =>
       /\ Addressed(wire)
       /\ \/ fetch \in {"head", "body"} /\ wire.op = "get"
          \/ push = "auth" /\ wire.op \in AuthOps
          \/ push = "blob" /\ wire.op \in BlobOps

\* get_auth_token() has an origin before it has a token, and the password has
\* been judged before a token is asked for.
AuthSound ==
  /\ base # None => HomeOf("head", base)
  /\ push = "blob" => base # None
  /\ push \notin {"blob", "done", "failed", "dead"} => auth = "none"
  /\ (push \in {"blob", "done"} /\ creds = "wrong") => (auth = "none" \/ unjudged)
  /\ wire # None /\ push = "auth" =>
       /\ wire.op \in {"probe", "basicCheck"} => HomeOf("probe", wire.start)
       /\ wire.op \in {"realmCheck", "realmToken"} => base # None
       /\ wire.op = "realmCheck" => creds # "none"
       /\ wire.op \in {"realmCheck", "realmToken"} /\ creds # "none" =>
            HomeOf("realmToken", wire.start)
       /\ wire.op \in {"hubToken", "realmToken"} => (creds # "wrong" \/ unjudged)
  /\ wire # None /\ push = "blob" => wire.start = base /\ wire.cred0 = auth

\* The blobs before `next` are there; the manifest is for the end.
BlobAt(i) == IF i <= Len(Layers) THEN Layers[i] ELSE Config
UploadSound ==
  /\ \A i \in 1..(next - 1) : BlobAt(i) \in stored
  /\ wire # None /\ push = "blob" =>
       /\ wire.op = "manifest" => next = Len(Layers) + 2
       /\ wire.op # "manifest" => next <= Len(Layers) + 1
  /\ TagWhole

DownloadSound == DownloadAtomic /\ (fetch # "done" => dest = "old")

PushInv == HttpTypeOK /\ PushTypeOK /\ WireSound /\ AuthSound /\ UploadSound
IInv == DownloadTypeOK /\ PushInv /\ DownloadSound

-----------------------------------------------------------------------------
(* Requests.                                                               *)

LEMMA LocationUrls == \A l \in Locations : l # None => l \in Url
  BY DEF Locations, Url, Origin, DefaultPort

LEMMA OriginUrls ==
  \A s \in {"http", "https"}, h \in {"registry", "realm", "store"} :
    /\ Origin(s, h) \in Url
    /\ Origin(s, h).scheme = s /\ Origin(s, h).host = h
  BY DEF Url, Origin, DefaultPort

\* A request goes to where it is addressed at first.
LEMMA SentSound ==
  ASSUME NEW op \in Ops, NEW url \in Url, NEW cred \in Creds,
         cred # "none" => HomeOf(op, url)
  PROVE  /\ Sent(op, url, cred) \in Request /\ Sent(op, url, cred) # None
         /\ Addressed(Sent(op, url, cred))
         /\ Sent(op, url, cred).op = op
         /\ Sent(op, url, cred).start = url
         /\ Sent(op, url, cred).cred0 = cred
<1>1. Sent(op, url, cred) \in Request
  BY HttpAssumption DEF Sent, Request, Creds
<1>2. Sent(op, url, cred) # None
  BY <1>1, HttpAssumption
<1> QED
  BY <1>1, <1>2 DEF Sent, Addressed

\* retry_http() begins where the operation began, with what it carried there.
LEMMA RestartedSound ==
  ASSUME wire \in Request, wire.attempt < MaxRetries, Addressed(wire)
  PROVE  /\ Restarted \in Request /\ Restarted # None
         /\ Addressed(Restarted)
         /\ Restarted.op = IF wire.op = "put" THEN "post" ELSE wire.op
         /\ Restarted.start = wire.start
         /\ Restarted.cred0 = wire.cred0
<1>0. /\ wire.op \in Ops /\ (IF wire.op = "put" THEN "post" ELSE wire.op) \in Ops
      /\ wire.start \in Url /\ wire.cred0 \in Creds
      /\ wire.attempt + 1 \in 1..MaxRetries /\ 0 \in 0..MaxHops
  BY HttpAssumption DEF Request, Creds, Ops
<1>1. Restarted \in Request
  BY <1>0 DEF Restarted, Request, Creds
<1>2. Restarted # None
  BY <1>1, HttpAssumption
<1>3. /\ Restarted.op = IF wire.op = "put" THEN "post" ELSE wire.op
      /\ Restarted.start = wire.start /\ Restarted.cred0 = wire.cred0
      /\ Restarted.url = wire.start /\ Restarted.cred = wire.cred0
  BY DEF Restarted, Request
<1>4. Home("put") = Home("post")
  BY DEF Home
<1> QED
  BY <1>1, <1>2, <1>3, <1>4 DEF Addressed, HomeOf

\* A redirect that is followed leads out of TLS for nobody who did not ask for
\* it, and the credential goes along to its own origin only.
LEMMA RedirectedSound ==
  ASSUME wire \in Request, Addressed(wire), Redirect
  PROVE  /\ wire' \in Request /\ wire' # None
         /\ Addressed(wire)'
         /\ wire'.op = wire.op /\ wire'.start = wire.start /\ wire'.cred0 = wire.cred0
<1>1. PICK l \in Locations :
        /\ CheckRedirect(wire.url, l)
        /\ wire' = [wire EXCEPT !.url = l, !.hops = @ + 1,
                                !.cred = IF SameAuthOrigin(wire.url, l) THEN @ ELSE "none"]
  BY DEF Redirect
<1>2. l \in Url
  BY <1>1, LocationUrls DEF CheckRedirect
<1>0. /\ wire.hops + 1 \in 0..MaxHops
      /\ (IF SameAuthOrigin(wire.url, l) THEN wire.cred ELSE "none") \in {"none", "basic", "bearer"}
  BY HttpAssumption DEF Redirect, Request
<1>3. wire' \in Request
  BY <1>0, <1>1, <1>2 DEF Request
<1>4. wire' # None
  BY <1>3, HttpAssumption
<1>5. /\ wire'.op = wire.op /\ wire'.start = wire.start /\ wire'.cred0 = wire.cred0
      /\ wire'.url = l
      /\ wire'.cred = IF SameAuthOrigin(wire.url, l) THEN wire.cred ELSE "none"
  BY <1>1 DEF Request
<1>6. insecure' = insecure /\ wire.op # "put"
  BY DEF Redirect, Redirectable
<1>7. /\ l.scheme \in {"http", "https"} /\ wire.url.scheme \in {"http", "https"}
      /\ wire.start.scheme \in {"http", "https"}
  BY <1>2 DEF Request, Url
<1>8. Addressed(wire)'
  BY <1>1, <1>5, <1>6, <1>7 DEF Addressed, HomeOf, CheckRedirect, SameAuthOrigin
<1> QED
  BY <1>3, <1>4, <1>5, <1>8

-----------------------------------------------------------------------------
(* What the steps of a push have in common.                                *)

Account == UNCHANGED <<insecure, speaks, hub, creds, cache>>

LEMMA FailKeeps ==
  ASSUME PushInv, push # "idle", fetch' = fetch, Fail
  PROVE  PushInv'
  BY DEF PushInv, HttpTypeOK, PushTypeOK, WireSound, AuthSound, UploadSound, TagWhole,
         Fail, account, HomeOf, BlobAt, Blobs, LayerSet

\* A request of get_auth_token().
LEMMA AuthSends ==
  ASSUME PushInv, push \in {"start", "auth"}, push' = "auth", fetch' = fetch,
         NEW op \in AuthOps, NEW url \in Url, NEW cred \in {"none", "basic"},
         Send(op, url, cred), Account, UNCHANGED <<auth, next, stored, tagged>>,
         cred # "none" => HomeOf(op, url),
         base' = base \/ (base' \in Url /\ HomeOf("head", base')),
         op \in {"probe", "basicCheck"} => HomeOf("probe", url),
         op \in {"realmCheck", "realmToken"} =>
           base' # None /\ (creds # "none" => HomeOf("realmToken", url)),
         op = "realmCheck" => creds # "none",
         unjudged' \in BOOLEAN, unjudged => unjudged',
         op \in {"hubToken", "realmToken"} => (creds # "wrong" \/ unjudged')
  PROVE  PushInv'
<1>1. op \in Ops /\ cred \in Creds
  BY DEF AuthOps, Ops, Creds
<1>2. /\ wire' \in Request /\ wire' # None /\ Addressed(wire)'
      /\ wire'.op = op /\ wire'.start = url
  BY <1>1, SentSound DEF Send, Account, Addressed, HomeOf
<1>3. HttpTypeOK'
  BY <1>2 DEF PushInv, HttpTypeOK, Account
<1>4. PushTypeOK'
  BY DEF PushInv, PushTypeOK, Account
<1>5. WireSound'
  BY <1>2 DEF PushInv, WireSound
<1>6. AuthSound'
  BY <1>2 DEF PushInv, AuthSound, Account, HomeOf
<1>7. UploadSound'
  BY DEF PushInv, UploadSound, TagWhole, BlobAt, Blobs, LayerSet
<1> QED
  BY <1>3, <1>4, <1>5, <1>6, <1>7 DEF PushInv

\* get_auth_token() returns.
LEMMA AuthorizedKeeps ==
  ASSUME PushInv, push = "auth", fetch' = fetch,
         NEW a \in Creds, NEW b \in Url, HomeOf("head", b),
         unjudged' \in BOOLEAN, a # "none" => (creds # "wrong" \/ unjudged'),
         Authorized(a, b)
  PROVE  PushInv'
<1>1. b # None
  BY HttpAssumption
<1> QED
  BY <1>1 DEF PushInv, HttpTypeOK, PushTypeOK, WireSound, AuthSound, UploadSound, TagWhole,
              Authorized, account, HomeOf, BlobAt, Blobs, LayerSet, Creds

\* A request about a blob, or the manifest.
LEMMA BlobSends ==
  ASSUME PushInv, push = "blob", fetch' = fetch,
         NEW op \in {"head", "post", "manifest"},
         Send(op, base, auth), OnlyWire,
         op = "manifest" => next = Len(Layers) + 2,
         op # "manifest" => next <= Len(Layers) + 1
  PROVE  PushInv'
<1>1. op \in Ops /\ base \in Url /\ auth \in Creds
  BY DEF Ops, PushInv, AuthSound, PushTypeOK, Creds
<1>2. HomeOf(op, base)
  BY DEF PushInv, AuthSound, HomeOf, Home
<1>3. /\ wire' \in Request /\ wire' # None /\ Addressed(wire)'
      /\ wire'.op = op /\ wire'.start = base /\ wire'.cred0 = auth
  BY <1>1, <1>2, SentSound DEF Send, OnlyWire, Addressed, HomeOf
<1> QED
  BY <1>3 DEF PushInv, HttpTypeOK, PushTypeOK, WireSound, AuthSound, UploadSound, TagWhole,
              OnlyWire, pushVars, HomeOf, BlobAt, Blobs, LayerSet, BlobOps

\* The blob at hand has been uploaded or was there.
LEMMA AdvanceKeeps ==
  ASSUME PushInv, push = "blob", wire # None, wire.op # "manifest", fetch' = fetch,
         Advance, stored' = stored \cup {Blob}, UNCHANGED tagged
  PROVE  PushInv'
<1>1. next \in 1..(Len(Layers) + 1) /\ Len(Layers) \in Nat
  BY PushAssumption DEF PushInv, UploadSound, PushTypeOK
<1>2. Blob = BlobAt(next) /\ Blob \in Blobs
  BY <1>1 DEF Blob, BlobAt, Blobs, LayerSet
<1>3. next' \in 1..(Len(Layers) + 2) /\ 1..(next' - 1) = 1..(next - 1) \cup {next}
  BY <1>1 DEF Advance
<1>4. stored' \subseteq Blobs /\ (tagged' => stored' = Blobs)
  BY <1>2 DEF PushInv, PushTypeOK, UploadSound, TagWhole
<1>5. \A i \in 1..(next' - 1) : BlobAt(i) \in stored'
  BY <1>1, <1>2, <1>3 DEF PushInv, UploadSound
<1>6. HttpTypeOK' /\ PushTypeOK'
  BY <1>3, <1>4 DEF PushInv, HttpTypeOK, PushTypeOK, Advance, account, Blobs, LayerSet
<1>7. WireSound' /\ AuthSound'
  BY DEF PushInv, WireSound, AuthSound, Advance, account, HomeOf
<1>8. UploadSound'
  BY <1>4, <1>5 DEF UploadSound, TagWhole, Advance, BlobAt, Blobs, LayerSet
<1> QED
  BY <1>6, <1>7, <1>8 DEF PushInv

\* When the manifest goes up, the registry has all it names.
LEMMA AllThere ==
  ASSUME PushInv, push = "blob", wire # None, wire.op = "manifest"
  PROVE  stored = Blobs
<1>1. next = Len(Layers) + 2 /\ Len(Layers) \in Nat
  BY PushAssumption DEF PushInv, UploadSound
<1>2. \A i \in 1..(Len(Layers) + 1) : BlobAt(i) \in stored
  BY <1>1 DEF PushInv, UploadSound
<1>3. Config \in stored
  BY <1>1, <1>2 DEF BlobAt
<1>4. \A i \in 1..Len(Layers) : Layers[i] \in stored
  BY <1>1, <1>2 DEF BlobAt
<1> QED
  BY <1>3, <1>4 DEF PushInv, PushTypeOK, Blobs, LayerSet

-----------------------------------------------------------------------------
(* A push, action by action.                                               *)

\* Whose request is in flight is told by what it asks.
LEMMA OpTells ==
  ASSUME PushInv, wire # None
  PROVE  /\ wire \in Request /\ Addressed(wire) /\ wire.start \in Url
         /\ wire.op \in AuthOps => push = "auth"
         /\ wire.op \in BlobOps => push = "blob"
         /\ push = "auth" => wire.op \in AuthOps
         /\ push = "blob" => wire.op \in BlobOps
  BY DEF PushInv, WireSound, HttpTypeOK, Request, AuthOps, BlobOps

LEMMA GrantedKeeps ==
  ASSUME PushInv, push = "auth", fetch' = fetch, NEW op, NEW b \in Url,
         HomeOf("head", b), creds # "wrong" \/ unjudged, Granted(op, b)
  PROVE  PushInv'
<1>0. unjudged \in BOOLEAN
  BY DEF PushInv, PushTypeOK
<1>1. CASE Fail
  BY <1>1, FailKeeps
<1>2. CASE Authorized("bearer", b) /\ UNCHANGED unjudged
  BY <1>0, <1>2, AuthorizedKeeps DEF Creds
<1>3. CASE Authorized("none", b) /\ UNCHANGED unjudged
  BY <1>0, <1>3, AuthorizedKeeps DEF Creds
<1> QED
  BY <1>1, <1>2, <1>3 DEF Granted

LEMMA AuthStepKeeps ==
  ASSUME PushInv, fetch' = fetch,
         \/ BeginPush \/ HubChecked \/ HubGranted \/ ProbeOpen \/ ChallengedBasic
         \/ ChallengedBearer \/ BasicChecked \/ RealmChecked \/ RealmGranted \/ ProbeAgain
  PROVE  PushInv'
<1> USE DEF Answered, CheckPassed
<1> DEFINE registry == Origin("https", "registry")
           realm == Origin("https", "realm")
<1>0. /\ registry \in Url /\ HomeOf("probe", registry) /\ HomeOf("head", registry)
      /\ realm \in Url /\ \A op \in {"hubToken", "hubCheck", "realmToken"} : HomeOf(op, realm)
  BY OriginUrls DEF HomeOf, Home
<1>u. unjudged \in BOOLEAN
  BY DEF PushInv, PushTypeOK
<1>1. CASE BeginPush
  <2>1. CASE Fail
    BY <1>1, <2>1, FailKeeps DEF BeginPush
  <2>2. CASE ~Fail
    <3>1. /\ push = "start" /\ push' = "auth" /\ Account
          /\ UNCHANGED <<auth, next, stored, tagged, base, unjudged>>
      BY <1>1, <2>2 DEF BeginPush, Account, account
    <3>2. \/ creds = "none" /\ Send("hubToken", realm, "none")
          \/ Send("hubCheck", realm, "basic")
          \/ Send("probe", registry, "none")
      BY <1>1, <2>2 DEF BeginPush
    <3>3. CASE creds = "none" /\ Send("hubToken", realm, "none")
      BY <1>0, <1>u, <3>1, <3>3, AuthSends DEF AuthOps
    <3>4. CASE Send("hubCheck", realm, "basic")
      BY <1>0, <1>u, <3>1, <3>4, AuthSends DEF AuthOps
    <3>5. CASE Send("probe", registry, "none")
      BY <1>0, <1>u, <3>1, <3>5, AuthSends DEF AuthOps
    <3> QED
      BY <3>2, <3>3, <3>4, <3>5
  <2> QED
    BY <2>1, <2>2
<1>2. CASE HubChecked
  <2>1. push = "auth"
    BY <1>2, OpTells DEF HubChecked, AuthOps
  <2>2. /\ Send("hubToken", realm, "basic") /\ push' = push
        /\ Account /\ UNCHANGED <<auth, next, stored, tagged, base>>
    BY <1>2 DEF HubChecked, Redeem, Account
  <2>3. unjudged' \in BOOLEAN /\ (unjudged => unjudged') /\ (creds # "wrong" \/ unjudged')
    BY <1>u, <1>2 DEF HubChecked
  <2> QED
    BY <1>0, <2>1, <2>2, <2>3, AuthSends DEF AuthOps
<1>3. CASE HubGranted
  <2>1. push = "auth" /\ (creds # "wrong" \/ unjudged)
    BY <1>3, OpTells DEF HubGranted, Granted, PushInv, AuthSound, AuthOps
  <2> QED
    BY <1>0, <1>3, <2>1, GrantedKeeps DEF HubGranted
<1>4. ASSUME Answered("probe")
      PROVE  /\ push = "auth" /\ wire.start \in Url
             /\ HomeOf("head", wire.start) /\ HomeOf("basicCheck", wire.start)
  BY <1>4, OpTells DEF AuthOps, PushInv, AuthSound, HomeOf, Home
<1>5. CASE ProbeOpen
  BY <1>u, <1>4, <1>5, AuthorizedKeeps DEF ProbeOpen, Creds
<1>6. CASE ChallengedBasic
  <2>1. CASE creds = "none"
    BY <1>u, <1>4, <1>6, <2>1, AuthorizedKeeps DEF ChallengedBasic, Creds
  <2>2. CASE creds # "none"
    <3>1. HomeOf("probe", wire.start)
      BY <1>4, <1>6 DEF ChallengedBasic, HomeOf, Home
    <3> QED
      BY <1>u, <1>4, <1>6, <2>2, <3>1, AuthSends
      DEF ChallengedBasic, OnlyWire, pushVars, Account, AuthOps
  <2> QED
    BY <2>1, <2>2
<1>7. CASE ChallengedBearer
  <2>1. CASE Authorized("none", wire.start) /\ UNCHANGED unjudged
    BY <1>u, <1>4, <1>7, <2>1, AuthorizedKeeps DEF ChallengedBearer, Creds
  <2>2. CASE ~(Authorized("none", wire.start) /\ UNCHANGED unjudged)
    <3>1. PICK r \in {realm, Origin("http", "realm"), None} :
            IF UsableRealm(r)
              THEN /\ IF creds = "none" THEN Send("realmToken", r, "none")
                                        ELSE Send("realmCheck", r, "basic")
                   /\ base' = wire.start
                   /\ UNCHANGED <<insecure, speaks, push, account, auth, next, cache, stored, tagged>>
              ELSE Fail
      BY <1>7, <2>2 DEF ChallengedBearer
    <3>2. CASE ~UsableRealm(r)
      BY <1>4, <1>7, <3>1, <3>2, FailKeeps DEF ChallengedBearer
    <3>3. CASE UsableRealm(r)
      <4>1. /\ r \in Url /\ HomeOf("realmToken", r) /\ HomeOf("realmCheck", r)
        BY <3>3, OriginUrls DEF UsableRealm, HomeOf, Home
      <4>2. /\ push = "auth" /\ push' = "auth" /\ Account
            /\ UNCHANGED <<auth, next, stored, tagged, unjudged>>
            /\ base' \in Url /\ base' # None /\ HomeOf("head", base')
        BY <1>4, <1>7, <3>1, <3>3, HttpAssumption DEF ChallengedBearer, Account, account
      <4>3. CASE creds = "none"
        <5>1. Send("realmToken", r, "none")
          BY <3>1, <3>3, <4>3
        <5> QED
          BY <1>u, <4>1, <4>2, <4>3, <5>1, AuthSends DEF AuthOps
      <4>4. CASE creds # "none"
        <5>1. Send("realmCheck", r, "basic")
          BY <3>1, <3>3, <4>4
        <5> QED
          BY <1>u, <4>1, <4>2, <4>4, <5>1, AuthSends DEF AuthOps
      <4> QED
        BY <4>3, <4>4
    <3> QED
      BY <3>2, <3>3
  <2> QED
    BY <2>1, <2>2
<1>8. CASE BasicChecked
  <2>1. push = "auth" /\ wire.start \in Url /\ HomeOf("head", wire.start)
    BY <1>8, OpTells DEF BasicChecked, AuthOps, PushInv, AuthSound, HomeOf, Home
  <2>2. unjudged' \in BOOLEAN /\ (creds # "wrong" \/ unjudged')
    BY <1>u, <1>8 DEF BasicChecked
  <2> QED
    BY <1>8, <2>1, <2>2, AuthorizedKeeps DEF BasicChecked, Creds
<1>9. CASE RealmChecked
  <2>1. push = "auth" /\ wire.start \in Url
    BY <1>9, OpTells DEF RealmChecked, AuthOps
  <2>2. creds # "none" /\ HomeOf("realmToken", wire.start) /\ base # None
    BY <1>9, <2>1 DEF RealmChecked, PushInv, AuthSound
  <2>3. unjudged' \in BOOLEAN /\ (unjudged => unjudged') /\ (creds # "wrong" \/ unjudged')
    BY <1>u, <1>9 DEF RealmChecked
  <2> QED
    BY <1>9, <2>1, <2>2, <2>3, AuthSends DEF RealmChecked, Redeem, Account, AuthOps
<1>10. CASE RealmGranted
  <2>1. push = "auth" /\ (creds # "wrong" \/ unjudged) /\ base \in Url /\ HomeOf("head", base)
    BY <1>10, OpTells DEF RealmGranted, Granted, PushInv, AuthSound, PushTypeOK, AuthOps
  <2> QED
    BY <1>10, <2>1, GrantedKeeps DEF RealmGranted
<1>11. CASE ProbeAgain
  <2>1. LET http == Origin("http", "registry") IN http \in Url /\ HomeOf("probe", http)
    BY <1>11, OriginUrls DEF ProbeAgain, HomeOf, Home
  <2>2. Send("probe", Origin("http", "registry"), "none") /\ OnlyWire /\ push = "auth"
    BY <1>11 DEF ProbeAgain
  <2> QED
    BY <1>u, <2>1, <2>2, AuthSends DEF OnlyWire, pushVars, Account, AuthOps, account
<1> QED
  BY <1>1, <1>2, <1>3, <1>5, <1>6, <1>7, <1>8, <1>9, <1>10, <1>11

LEMMA BlobStepKeeps ==
  ASSUME PushInv, fetch' = fetch,
         \/ AskExists \/ Exists \/ Missing \/ UploadOpened \/ Uploaded \/ AnswerLost
         \/ PutManifest \/ Tagged
  PROVE  PushInv'
<1> USE DEF Answered
<1>0. \A op \in BlobOps : wire # None /\ wire.op = op =>
        /\ push = "blob" /\ wire \in Request
        /\ op = "manifest" => next = Len(Layers) + 2
        /\ op # "manifest" => next <= Len(Layers) + 1
  BY OpTells DEF PushInv, UploadSound, BlobOps
<1>1. CASE AskExists
  BY <1>1, BlobSends DEF AskExists
<1>2. CASE Exists
  <2>1. stored' = stored \cup {Blob}
    BY <1>2 DEF Exists
  <2> QED
    BY <1>0, <1>2, <2>1, AdvanceKeeps DEF Exists, BlobOps
<1>3. CASE Missing
  <2>1. CASE Fail
    BY <1>0, <1>3, <2>1, FailKeeps DEF Missing, BlobOps
  <2>2. CASE Send("post", base, auth) /\ OnlyWire
    BY <1>0, <1>3, <2>2, BlobSends DEF Missing, BlobOps
  <2> QED
    BY <1>3, <2>1, <2>2 DEF Missing
<1>4. CASE UploadOpened
  <2>1. PICK l \in Locations \cup {base} :
          IF l = None THEN Fail
          ELSE wire' = [wire EXCEPT !.op = "put", !.url = l, !.cred = CredentialFor(l),
                                    !.hops = 0] /\ OnlyWire
    BY <1>4 DEF UploadOpened
  <2>2. CASE l = None
    BY <1>0, <1>4, <2>1, <2>2, FailKeeps DEF UploadOpened, BlobOps
  <2>3. CASE l # None
    <3>1. /\ push = "blob" /\ wire # None /\ wire.op = "post" /\ wire \in Request
          /\ Addressed(wire) /\ next <= Len(Layers) + 1
          /\ wire.start = base /\ wire.cred0 = auth
          /\ base \in Url /\ HomeOf("head", base)
      BY <1>0, <1>4, OpTells DEF UploadOpened, BlobOps, PushInv, AuthSound, PushTypeOK
    <3>2. l \in Url /\ CredentialFor(l) \in Creds /\ "put" \in Ops /\ 0 \in 0..MaxHops
      BY <2>3, <3>1, LocationUrls, HttpAssumption
      DEF CredentialFor, PushInv, PushTypeOK, Creds, Ops
    <3>3. wire' \in Request
      BY <2>1, <2>3, <3>1, <3>2 DEF Request, Creds
    <3>4. wire' # None
      BY <3>3, HttpAssumption
    <3>5. /\ wire'.op = "put" /\ wire'.start = base /\ wire'.cred0 = auth
          /\ wire'.url = l /\ wire'.cred = CredentialFor(l)
      BY <2>1, <2>3, <3>1 DEF Request
    <3>6. HomeOf("put", base) /\ insecure' = insecure
      BY <2>1, <2>3, <3>1 DEF HomeOf, Home, OnlyWire
    <3>7. l.scheme \in {"http", "https"} /\ base.scheme \in {"http", "https"}
      BY <3>1, <3>2 DEF Url
    <3>8. Addressed(wire)'
      BY <3>5, <3>6, <3>7 DEF Addressed, HomeOf, CredentialFor, SameAuthOrigin
    <3> QED
      BY <2>1, <2>3, <3>1, <3>3, <3>4, <3>5, <3>8
      DEF PushInv, HttpTypeOK, PushTypeOK, WireSound, AuthSound, UploadSound, TagWhole,
          OnlyWire, pushVars, HomeOf, BlobAt, Blobs, LayerSet, BlobOps
  <2> QED
    BY <2>2, <2>3
<1>5. CASE Uploaded
  BY <1>0, <1>5, AdvanceKeeps DEF Uploaded, BlobOps
<1>6. CASE AnswerLost
  <2>1. /\ push = "blob" /\ wire # None /\ wire \in Request /\ Addressed(wire)
        /\ wire.op \in {"put", "manifest"}
        /\ wire.start = base /\ wire.cred0 = auth
    BY <1>0, <1>6, OpTells DEF AnswerLost, BlobOps, PushInv, AuthSound
  <2>2. /\ stored \subseteq stored' /\ stored' \subseteq Blobs
        /\ tagged' => stored' = Blobs
    <3>1. CASE wire.op = "put"
      <4>1. next \in 1..(Len(Layers) + 1) /\ Len(Layers) \in Nat
        BY <1>0, <2>1, <3>1, PushAssumption DEF PushInv, PushTypeOK, BlobOps
      <4>2. Blob \in Blobs
        BY <4>1 DEF Blob, Blobs, LayerSet
      <4> QED
        BY <1>6, <3>1, <4>2 DEF AnswerLost, PushInv, PushTypeOK, UploadSound, TagWhole
    <3>2. CASE wire.op = "manifest"
      BY <1>6, <2>1, <3>2, AllThere DEF AnswerLost
    <3> QED
      BY <2>1, <3>1, <3>2
  <2>3. /\ Account /\ UNCHANGED <<base, auth, next, unjudged>> /\ tagged' \in BOOLEAN
    BY <1>6 DEF AnswerLost, Account, account, PushInv, PushTypeOK
  <2>4. UploadSound'
    <3>1. wire' # None => wire'.op = IF wire.op = "put" THEN "post" ELSE wire.op
      BY <1>6, <2>1, RestartedSound DEF AnswerLost
    <3> QED
      BY <1>0, <2>1, <2>2, <2>3, <3>1 DEF UploadSound, TagWhole, PushInv, BlobAt, Blobs, LayerSet, BlobOps
  <2>5. CASE wire.attempt < MaxRetries
    <3>1. wire' = Restarted /\ push' = push
      BY <1>6, <2>5 DEF AnswerLost
    <3>2. /\ wire' \in Request /\ wire' # None /\ Addressed(wire)'
          /\ wire'.op \in BlobOps
          /\ wire'.start = base /\ wire'.cred0 = auth
      BY <2>1, <2>3, <2>5, <3>1, RestartedSound DEF Account, Addressed, HomeOf, BlobOps
    <3> QED
      BY <2>1, <2>2, <2>3, <2>4, <3>1, <3>2
      DEF PushInv, HttpTypeOK, PushTypeOK, WireSound, AuthSound, Account, HomeOf, Blobs, LayerSet
  <2>6. CASE ~(wire.attempt < MaxRetries)
    <3>1. wire' = None /\ push' = "failed"
      BY <1>6, <2>6 DEF AnswerLost
    <3> QED
      BY <2>1, <2>2, <2>3, <2>4, <3>1
      DEF PushInv, HttpTypeOK, PushTypeOK, WireSound, AuthSound, Account, HomeOf, Blobs, LayerSet
  <2> QED
    BY <2>5, <2>6
<1>7. CASE PutManifest
  BY <1>7, BlobSends DEF PutManifest
<1>8. CASE Tagged
  <2>1. push = "blob" /\ stored = Blobs
    BY <1>0, <1>8, AllThere DEF Tagged, BlobOps
  <2> QED
    BY <1>8, <2>1
    DEF PushInv, HttpTypeOK, PushTypeOK, WireSound, AuthSound, UploadSound, TagWhole,
        Tagged, account, HomeOf, BlobAt, Blobs, LayerSet
<1> QED
  BY <1>1, <1>2, <1>3, <1>4, <1>5, <1>6, <1>7, <1>8

\* A retry and a redirect keep what the operation asks and for whom.
LEMMA SameOperation ==
  ASSUME PushInv, wire # None, wire' \in Request, wire' # None, Addressed(wire)',
         UNCHANGED <<insecure, speaks, fetch>>, UNCHANGED pushVars,
         wire'.op = wire.op \/ (wire.op = "put" /\ wire'.op = "post"),
         wire'.start = wire.start, wire'.cred0 = wire.cred0
  PROVE  PushInv'
<1>1. HttpTypeOK' /\ PushTypeOK'
  BY DEF PushInv, HttpTypeOK, PushTypeOK, pushVars, Blobs, LayerSet
<1>2. WireSound'
  BY DEF PushInv, WireSound, pushVars, AuthOps, BlobOps
<1>3. AuthSound'
  BY DEF PushInv, AuthSound, WireSound, pushVars, HomeOf, AuthOps
<1>4. UploadSound'
  BY DEF PushInv, UploadSound, TagWhole, pushVars, BlobAt, Blobs, LayerSet
<1> QED
  BY <1>1, <1>2, <1>3, <1>4 DEF PushInv

LEMMA RetryKeeps ==
  ASSUME PushInv, Retry, UNCHANGED pushVars, fetch' = fetch
  PROVE  PushInv'
<1>1. /\ wire # None /\ wire \in Request /\ Addressed(wire)
      /\ wire.attempt < MaxRetries /\ wire' = Restarted
      /\ UNCHANGED <<insecure, speaks>>
  BY OpTells DEF Retry, Again
<1>2. Addressed(wire)'
  BY <1>1, RestartedSound DEF Addressed, HomeOf
<1> QED
  BY <1>1, <1>2, RestartedSound, SameOperation

LEMMA RedirectKeeps ==
  ASSUME PushInv, Redirect, UNCHANGED pushVars, fetch' = fetch
  PROVE  PushInv'
<1>1. /\ wire # None /\ wire \in Request /\ Addressed(wire)
      /\ UNCHANGED <<insecure, speaks>>
  BY OpTells DEF Redirect
<1> QED
  BY <1>1, RedirectedSound, SameOperation

LEMMA PushKeeps ==
  ASSUME PushInv, fetch' = fetch, PushStep \/ LoseBlob \/ KillPush
  PROVE  PushInv'
<1>1. CASE RetryPush
  BY <1>1, RetryKeeps DEF RetryPush
<1>2. CASE RedirectPush
  BY <1>2, RedirectKeeps DEF RedirectPush
<1>3. CASE FailPush
  BY <1>3, FailKeeps DEF FailPush, Pushing
<1>4. CASE LoseBlob
  <2>1. cache' \in [LayerSet -> {"whole", "spoilt", "absent"}]
    BY <1>4 DEF LoseBlob, PushInv, PushTypeOK
  <2>2. UNCHANGED <<insecure, speaks, wire, push, hub, creds, unjudged, base, auth, next, stored, tagged>>
    BY <1>4 DEF LoseBlob, account
  <2>3. Blobs' = Blobs /\ LayerSet' = LayerSet
    BY DEF Blobs, LayerSet
  <2> QED
    BY <2>1, <2>2, <2>3
    DEF PushInv, HttpTypeOK, PushTypeOK, WireSound, AuthSound, UploadSound, TagWhole,
        HomeOf, Addressed, BlobAt
<1>5. CASE KillPush
  BY <1>5
  DEF KillPush, PushInv, HttpTypeOK, PushTypeOK, WireSound, AuthSound, UploadSound, TagWhole,
      account, HomeOf, BlobAt, Blobs, LayerSet
<1> QED
  BY <1>1, <1>2, <1>3, <1>4, <1>5, AuthStepKeeps, BlobStepKeeps DEF PushStep

-----------------------------------------------------------------------------
(* A download.                                                             *)

LEMMA DownloadKeeps ==
  ASSUME IInv, DownloadStep \/ Chunk \/ KillDownload, UNCHANGED pushVars
  PROVE  IInv'
<1> USE DEF IInv
<1>0. fetch # "idle" => push = "idle"
  BY DEF PushInv, WireSound
<1>1. ASSUME fetch \in {"head", "body"}, wire # None
      PROVE  wire.op = "get" /\ wire.op \notin AuthOps \cup BlobOps
  BY <1>0, <1>1 DEF PushInv, WireSound, AuthOps, BlobOps
<1>2. CASE BeginDownload
  <2>1. PICK s \in {"http", "https"} : wire' = Sent("get", Origin(s, "store"), "none")
    BY <1>2 DEF BeginDownload
  <2>2. /\ wire' \in Request /\ wire' # None /\ Addressed(wire)' /\ wire'.op = "get"
    BY <1>2, <2>1, OriginUrls, SentSound DEF BeginDownload, Ops, Creds, Addressed, HomeOf
  <2> QED
    BY <1>0, <1>2, <2>2
    DEF BeginDownload, PushInv, HttpTypeOK, PushTypeOK, WireSound, AuthSound, UploadSound,
        TagWhole, DownloadTypeOK, DownloadSound, DownloadAtomic, pushVars, HomeOf, BlobAt,
        Blobs, LayerSet
<1>3. ASSUME UNCHANGED wire, UNCHANGED <<insecure, speaks>>,
             fetch \in {"head", "body"}, fetch' \in {"head", "body"}
      PROVE  PushInv'
  BY <1>0, <1>3
  DEF PushInv, HttpTypeOK, PushTypeOK, WireSound, AuthSound, UploadSound, TagWhole, pushVars,
      HomeOf, Addressed, BlobAt, Blobs, LayerSet
<1>4. ASSUME wire' = None, UNCHANGED <<insecure, speaks>>, fetch # "idle"
      PROVE  PushInv'
  BY <1>0, <1>4
  DEF PushInv, HttpTypeOK, PushTypeOK, WireSound, AuthSound, UploadSound, TagWhole, pushVars,
      HomeOf, BlobAt, Blobs, LayerSet
<1>5. CASE Headers
  BY <1>3, <1>5 DEF Headers, DownloadTypeOK, DownloadSound, DownloadAtomic
<1>6. CASE Silence \/ Chunk \/ LastChunk
  BY <1>3, <1>6
  DEF Silence, Chunk, LastChunk, Reading, DownloadTypeOK, DownloadSound, DownloadAtomic
<1>7. CASE Publish
  BY <1>4, <1>7 DEF Publish, Complete, DownloadTypeOK, DownloadSound, DownloadAtomic
<1>8. CASE FailDownload
  BY <1>4, <1>8 DEF FailDownload, DownloadTypeOK, DownloadSound, DownloadAtomic
<1>9. CASE KillDownload
  BY <1>4, <1>9 DEF KillDownload, DownloadTypeOK, DownloadSound, DownloadAtomic
<1>10. CASE RedirectDownload
  <2>1. PushInv'
    BY <1>10, RedirectKeeps DEF RedirectDownload, downloadVars
  <2> QED
    BY <1>10, <2>1
    DEF RedirectDownload, downloadVars, DownloadTypeOK, DownloadSound, DownloadAtomic
<1>11. CASE RetryDownload
  <2>1. /\ wire # None /\ wire \in Request /\ Addressed(wire) /\ wire.op = "get"
        /\ wire.attempt < MaxRetries /\ wire' = Restarted
        /\ UNCHANGED <<insecure, speaks>>
    BY <1>1, <1>11, OpTells DEF RetryDownload, Retry, Again
  <2>2. /\ wire' \in Request /\ wire' # None /\ Addressed(wire)' /\ wire'.op = "get"
    BY <2>1, RestartedSound DEF Addressed, HomeOf
  <2> QED
    BY <1>0, <1>11, <2>1, <2>2
    DEF RetryDownload, PushInv, HttpTypeOK, PushTypeOK, WireSound, AuthSound, UploadSound,
        TagWhole, DownloadTypeOK, DownloadSound, DownloadAtomic, pushVars, HomeOf, BlobAt,
        Blobs, LayerSet
<1> QED
  BY <1>2, <1>5, <1>6, <1>7, <1>8, <1>9, <1>10, <1>11 DEF DownloadStep

-----------------------------------------------------------------------------

LEMMA InitIInv == Init => IInv
<1> SUFFICES ASSUME Init PROVE IInv
  OBVIOUS
<1>1. wire = None /\ next = 1 /\ tagged = FALSE /\ unjudged = FALSE /\ base = None /\ auth = "none"
  BY DEF Init, PushInit, NoPush
<1>2. HttpTypeOK
  BY DEF Init, HttpTypeOK
<1>3. PushTypeOK
  <2>1. Len(Layers) \in Nat
    BY PushAssumption
  <2>2. tagged \in BOOLEAN /\ unjudged \in BOOLEAN
    BY <1>1
  <2>3. hub \in BOOLEAN
    BY DEF Init, PushInit, NoPush
  <2>4. push \in {"idle", "start"} /\ creds \in {"none", "right", "wrong", "malformed"}
    BY DEF Init, PushInit, NoPush
  <2>5. cache \in [LayerSet -> {"whole", "spoilt", "absent"}] /\ stored \subseteq Blobs
    BY DEF Init, PushInit, NoPush
  <2> QED
    BY <1>1, <2>1, <2>2, <2>3, <2>4, <2>5 DEF PushTypeOK
<1>4. DownloadTypeOK /\ DownloadSound
  BY DEF Init, DownloadInit, DownloadTypeOK, DownloadSound, DownloadAtomic
<1>5. WireSound /\ AuthSound
  BY <1>1 DEF Init, WireSound, AuthSound
<1>6. UploadSound
  BY <1>1 DEF Init, UploadSound, TagWhole
<1> QED
  BY <1>2, <1>3, <1>4, <1>5, <1>6 DEF IInv, PushInv

LEMMA NextIInv == IInv /\ [Next]_vars => IInv'
<1> SUFFICES ASSUME IInv, [Next]_vars PROVE IInv'
  OBVIOUS
<1>1. ASSUME UNCHANGED downloadVars
      PROVE  DownloadTypeOK' /\ DownloadSound' /\ fetch' = fetch
  BY <1>1 DEF IInv, downloadVars, DownloadTypeOK, DownloadSound, DownloadAtomic
<1>2. CASE (PushStep \/ LoseBlob \/ KillPush) /\ UNCHANGED downloadVars
  BY <1>1, <1>2, PushKeeps DEF IInv
<1>3. CASE (DownloadStep \/ Chunk \/ KillDownload) /\ UNCHANGED pushVars
  BY <1>3, DownloadKeeps
<1>4. CASE UNCHANGED vars
  <2>1. UNCHANGED <<insecure, speaks, wire>> /\ UNCHANGED pushVars /\ UNCHANGED downloadVars
    BY <1>4 DEF vars
  <2>2. PushInv'
    BY <1>1, <2>1
    DEF IInv, PushInv, HttpTypeOK, PushTypeOK, WireSound, AuthSound, UploadSound, TagWhole,
        pushVars, HomeOf, Addressed, BlobAt, Blobs, LayerSet
  <2> QED
    BY <1>1, <2>1, <2>2 DEF IInv
<1> QED
  BY <1>2, <1>3, <1>4 DEF Next, Step

\* Everything above, always: whose request is in flight, where it may carry a
\* credential, which blobs the registry has, what is under the name.
THEOREM TransferInvariant == Spec => []IInv
<1> QED
  BY InitIInv, NextIInv, PTL DEF Spec

\* Every variable of a transfer keeps its type, however many attempts and hops.
THEOREM TransferTypeCorrect == Spec => []TypeOK
<1>1. IInv => TypeOK
  BY DEF IInv, PushInv, TypeOK
<1> QED
  BY <1>1, TransferInvariant, PTL

\* The credential of get_auth_token() is on the wire to its own host only, in
\* clear only under --allow-insecure; a wrong password gets nowhere unless somebody
\* who was not shown it passed it.
THEOREM TransferCredentialsStayHome == Spec => []CredentialsStayHome
<1>1. IInv => CredentialsStayHome
  BY DEF IInv, PushInv, CredentialsStayHome, AddressedOnly, WireSound, AuthSound, Addressed, HomeOf
<1> QED
  BY <1>1, TransferInvariant, PTL

\* check_redirect(), applied hop by hop, keeps a whole chain under TLS.
THEOREM TransferTlsKept == Spec => []TlsKept
<1>1. IInv => TlsKept
  BY DEF IInv, PushInv, TlsKept, WireSound, Addressed
<1> QED
  BY <1>1, TransferInvariant, PTL

\* push_image() puts the manifest up when the registry has all that it names.
THEOREM TransferTagWhole == Spec => []TagWhole
<1>1. IInv => TagWhole
  BY DEF IInv, PushInv, UploadSound
<1> QED
  BY <1>1, TransferInvariant, PTL

\* download_file() leaves the old file or a whole one under the name, and no
\* temporary behind.
THEOREM TransferDownloadAtomic == Spec => []DownloadAtomic
<1>1. IInv => DownloadAtomic
  BY DEF IInv, DownloadSound
<1> QED
  BY <1>1, TransferInvariant, PTL
=============================================================================
