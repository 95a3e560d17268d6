----------------------------- MODULE HttpClient -----------------------------
(***************************************************************************)
(* helpers/download.py and helpers/docker/transport.py: one HTTP operation *)
(* of a command, from its first request over redirects and retries to the  *)
(* answer its caller acts upon.  The servers are not this program's: any   *)
(* of them may answer anything, late, twice or never.                      *)
(*                                                                         *)
(* An operation is a function handed to retry_http(): `start` is where it  *)
(* begins again, the rest of `wire` is the request now in flight.          *)
(***************************************************************************)
EXTENDS Naturals, FiniteSets

CONSTANTS
  MaxRetries,   \* max_retries of retry_http
  MaxHops,      \* the redirects urllib follows for one request
  None

VARIABLES
  insecure,   \* --allow-insecure
  speaks,     \* what the registry's port speaks
  wire        \* the request in flight, or None

\* An origin; the path does not matter to any of the rules.  Port 5000 is
\* any that is no scheme's default.
Url == [scheme : {"http", "https"}, host : {"registry", "realm", "store"},
        port : {80, 443, 5000}]

DefaultPort(scheme) == IF scheme = "https" THEN 443 ELSE 80
Origin(scheme, host) == [scheme |-> scheme, host |-> host, port |-> DefaultPort(scheme)]

\* Where a server may send a client on to: other schemes, hosts and ports of
\* its own, and None for a Location that is no http(s) URL.
Locations ==
  {Origin(s, h) : s \in {"http", "https"}, h \in {"registry", "store"}}
  \cup {[scheme |-> "https", host |-> "registry", port |-> 5000], None}

Ops == {"hubCheck", "hubToken", "probe", "basicCheck", "realmCheck", "realmToken",
        "head", "post", "put", "manifest", "get"}

Request == [op : Ops, start : Url, cred0 : {"none", "basic", "bearer"},
            url : Url, cred : {"none", "basic", "bearer"},
            attempt : 1..MaxRetries, hops : 0..MaxHops]

ASSUME HttpAssumption ==
  /\ MaxRetries \in Nat \ {0} /\ MaxHops \in Nat
  /\ None \notin Url \cup Request

HttpTypeOK ==
  /\ insecure \in BOOLEAN
  /\ speaks \in {"tls", "untrusted", "plain"}
  /\ wire \in Request \cup {None}

-----------------------------------------------------------------------------
(* The two rules for credentials and redirects.                            *)

\* Mutant: netlocs were once compared, whatever the scheme.
SameHost(from, to) == from.host = to.host

SameAuthOrigin(from, to) ==
  /\ from.host = to.host
  /\ \/ from.scheme = to.scheme /\ from.port = to.port
     \/ /\ from.scheme = "http" /\ to.scheme = "https"
        /\ from.port = 80 /\ to.port = 443

\* Mutant: the redirect policy of plain urllib.
FollowAll(from, to) == to # None

CheckRedirect(from, to) ==
  /\ to # None
  /\ ~(from.scheme = "https" /\ to.scheme = "http" /\ ~insecure)

-----------------------------------------------------------------------------
(* Failures.                                                               *)

HttpErrors == [kind : {"http"}, code : {302, 400, 401, 403, 404, 408, 429, 500, 503},
               wait : {"none", "soon", "long"}, spent : BOOLEAN]

IsRetryable(e) ==
  CASE e.kind = "http" /\ e.code \in {429, 503} ->
         IF e.wait # "none" THEN e.wait = "soon" ELSE ~(e.code = 429 /\ e.spent)
    [] e.kind = "http" /\ e.code \notin {429, 503} ->
         ~(e.code \in 400..499 /\ e.code # 408)
    [] OTHER -> e.kind \in {"cut", "short"}

\* What may happen to a connection, by what the other side speaks.  "cut" is a
\* reset, a timeout or no DNS, "short" a body that ended early.
Tls(url) == url.scheme = "https"
Handshake(url) ==
  CASE url.host # "registry" -> "fine"
    [] Tls(url) /\ speaks = "plain" -> "plaintext"
    [] Tls(url) /\ speaks = "untrusted" /\ ~insecure -> "cert"
    [] ~Tls(url) /\ speaks # "plain" -> "cut"
    [] OTHER -> "fine"

Failures ==
  LET h == Handshake(wire.url) IN
  {[kind |-> "cut"]} \cup
  IF h = "fine" THEN HttpErrors \cup {[kind |-> "short"]} ELSE {[kind |-> h]}

-----------------------------------------------------------------------------
(* The operation in flight.                                                *)

Sent(op, url, cred) ==
  [op |-> op, start |-> url, cred0 |-> cred, url |-> url, cred |-> cred,
   attempt |-> 1, hops |-> 0]

\* An upload is a POST and the PUT to where it was told: a retry is of both.
Restarted ==
  [wire EXCEPT !.op = IF @ = "put" THEN "post" ELSE @, !.url = wire.start,
               !.cred = wire.cred0, !.attempt = @ + 1, !.hops = 0]

\* retry_http(): again, as long as it is worth it and attempts are left.
Again(e) == IsRetryable(e) /\ wire.attempt < MaxRetries

Retry ==
  /\ wire # None
  /\ \E e \in Failures : Again(e)
  /\ wire' = Restarted
  /\ UNCHANGED <<insecure, speaks>>

\* The failures that get through to the caller.
GivenUp == {e \in Failures : ~Again(e)}

\* urllib repeats GET and HEAD at a redirect's target, a POST as a GET; a PUT
\* that is redirected is an HTTP error like any other.
Redirectable == wire.op \notin {"put", "manifest"}

Redirect ==
  /\ wire # None /\ Redirectable /\ Handshake(wire.url) = "fine"
  /\ wire.hops < MaxHops
  /\ \E l \in Locations :
       /\ CheckRedirect(wire.url, l)
       /\ wire' = [wire EXCEPT !.url = l, !.hops = @ + 1,
                               !.cred = IF SameAuthOrigin(wire.url, l) THEN @ ELSE "none"]
  /\ UNCHANGED <<insecure, speaks>>

\* A redirect that is not followed ends the operation.
Refused ==
  /\ Redirectable /\ Handshake(wire.url) = "fine"
  /\ \E l \in Locations : ~CheckRedirect(wire.url, l)

Answered(op) == wire # None /\ wire.op = op /\ Handshake(wire.url) = "fine"

-----------------------------------------------------------------------------
(* Properties.                                                             *)

Home(op) == IF op \in {"hubCheck", "hubToken", "realmCheck", "realmToken"}
              THEN "realm" ELSE "registry"

\* A request with a credential goes to the host it was addressed to, and in clear
\* only under --allow-insecure.
AddressedOnly ==
  (wire # None /\ wire.cred # "none") =>
    /\ wire.url.host = Home(wire.op)
    /\ wire.url.scheme = "http" => insecure
    /\ wire.url.scheme = wire.start.scheme => wire.url.port = wire.start.port

\* What began under TLS ends under TLS, however long the chain of redirects
\* (check_redirect is applied per hop).  A PUT goes where the POST was told.
TlsKept ==
  (wire # None /\ wire.op # "put" /\ wire.start.scheme = "https" /\ ~insecure)
    => wire.url.scheme = "https"
=============================================================================
