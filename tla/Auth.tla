--------------------------------- MODULE Auth ---------------------------------
(***************************************************************************)
(* The gateway's side of a tribe's sessions: the handlers of               *)
(* src/src/auth/auth.controller.ts for tokens, AuthService and the three   *)
(* providers under them, the guard JwtAuthGuard and, for a call, the scope *)
(* check of the proxy.  One tribe, one service it may consume.             *)
(*                                                                         *)
(* A handler awaits the provider and the token store, so requests of all   *)
(* containers interleave between its steps.  A request whose client has    *)
(* given up (live = FALSE) is still handled.  Publishing to Kafka is not   *)
(* awaited and is left out.  Tokens are numbered in the order of issue: a  *)
(* grant is an access token with the refresh token that came with it.      *)
(* Times are ticks left.                                                   *)
(***************************************************************************)
EXTENDS Integers

CONSTANTS
  Ops,          \* method calls on the SDK client
  MaxGrants,    \* tokens issued
  AccessTtl,    \* expiresIn
  RefreshTtl,   \* expiresIn * refreshTtlMultiplier
  MaxFaults,    \* failures of the provider
  Providers,    \* values of AUTH_PROVIDER
  Manifests,    \* what the registry may hold on the tribe
  StoresUp,     \* whether the token store can have reached Redis
  None

ASSUME AuthAssumption ==
  /\ MaxGrants \in Nat
  /\ AccessTtl \in Nat \ {0}
  /\ RefreshTtl \in Nat \ {0}
  /\ MaxFaults \in Nat
  /\ Providers \subseteq {"dev-jwt", "keycloak", "google"}
  /\ Manifests \subseteq {"absent", "closed", "open"}
  /\ StoresUp \subseteq BOOLEAN
  /\ None \notin Nat

VARIABLES
  provider,   \* the configured AuthProvider
  storeUp,    \* the token store reached Redis at boot
  secretOk,   \* the client's secret is the one whose hash is configured
  manifest,   \* the tribe is unknown, may not consume the service, or may
  grants,     \* per grant: time left to its tokens, and its scopes
  issued,     \* grants issued so far
  records,    \* grants whose refresh token has a record in the token store
  revoked,    \* history: grants whose revocation was answered with 204
  net,        \* requests and answers on their way
  executed,   \* history: how often the service executed a call
  faults

serverVars == <<provider, storeUp, secretOk, manifest, grants, issued, records,
                revoked, net, executed, faults>>

Grants == 1 .. MaxGrants

Less(n) == IF n > 0 THEN n - 1 ELSE n

NoGrant == [life |-> 0, refreshLife |-> 0, scoped |-> FALSE]

Answers == {"ok", "refused", "forbidden", "unavailable"}
Stages == {"sent", "provider", "persist", "upstream"}

\* bearer: the Authorization header; grant: the refresh token in the body;
\* got: what was issued; age: how long the client has waited.
Message ==
  [op : Ops, kind : {"token", "refresh", "revoke", "call"},
   bearer : Grants \union {None}, grant : Grants \union {None}, all : BOOLEAN,
   try : Nat, at : Stages \union Answers,
   got : Grants \union {None}, scoped : BOOLEAN, age : Nat, live : BOOLEAN]

AuthInit ==
  /\ provider \in Providers
  /\ storeUp \in StoresUp
  /\ secretOk \in BOOLEAN
  /\ manifest \in Manifests
  /\ grants = [g \in Grants |-> NoGrant]
  /\ issued = 0
  /\ records = {}
  /\ revoked = {}
  /\ net = {}
  /\ executed = [o \in Ops |-> 0]
  /\ faults = 0

-----------------------------------------------------------------------------
\* validateToken() of the providers, of an access token: the development
\* provider and Keycloak verify what they signed; what Google answers a
\* service account is not a JWT that Google's keys verify.
DevAccepts(g) == provider = "dev-jwt" /\ grants[g].life > 0
KeycloakAccepts(g) == provider = "keycloak" /\ grants[g].life > 0
GoogleAccepts(g) == FALSE

\* JwtAuthGuard.canActivate(): a bearer token that the provider accepts.
Accepts(g) == g # None /\ (DevAccepts(g) \/ KeycloakAccepts(g) \/ GoogleAccepts(g))

\* validateToken() of a refresh token, which only the development provider
\* signs with the key it verifies with.
Readable(g) == provider = "dev-jwt" /\ grants[g].refreshLife > 0

\* Does a readable refresh token carry a jti?  signJwt() sets none.
HasJti(g) == FALSE

\* An answer says no more than the client reads.
Answer(m, answer) ==
  [m EXCEPT !.at = answer, !.bearer = None, !.grant = None, !.all = FALSE, !.scoped = FALSE]

Reply(m, answer) == net' = (net \ {m}) \union (IF m.live THEN {Answer(m, answer)} ELSE {})

MoveOn(m, n) == net' = (net \ {m}) \union {n}

\* A new grant for m, and what follows: its record, or the answer.
Grant(m, scoped, withRefresh, persists) ==
  LET g == issued + 1
      n == [m EXCEPT !.got = g, !.at = "persist"]
  IN  /\ issued < MaxGrants
      /\ issued' = g
      /\ grants' = [grants EXCEPT ![g] =
                      [life |-> AccessTtl,
                       refreshLife |-> IF withRefresh THEN RefreshTtl ELSE 0,
                       scoped |-> scoped]]
      /\ IF withRefresh /\ persists
         THEN MoveOn(m, n)
         ELSE net' = (net \ {m}) \union (IF m.live THEN {Answer(n, "ok")} ELSE {})

-----------------------------------------------------------------------------
\* TribeThrottlerGuard comes before every other guard: 429.
TooManyRequests(m) ==
  /\ m.at = "sent"
  /\ Reply(m, "refused")
  /\ UNCHANGED <<provider, storeUp, secretOk, manifest, grants, issued, records, revoked, executed, faults>>

\* POST auth/token: unknown service, wrong secret, or the scopes that the
\* registry gives the tribe now.
IssueRequest(m) ==
  /\ m.kind = "token" /\ m.at = "sent"
  /\ IF manifest = "absent" \/ ~secretOk
     THEN Reply(m, "refused")
     ELSE MoveOn(m, [m EXCEPT !.at = "provider", !.scoped = (manifest = "open")])
  /\ UNCHANGED <<provider, storeUp, secretOk, manifest, grants, issued, records, revoked, executed, faults>>

\* ... AuthService.issueToken(): what the provider issues.  The development
\* provider always signs a refresh token too, Keycloak may send one, Google
\* sends a service account none.
DevIssues(m) == provider = "dev-jwt" /\ Grant(m, m.scoped, TRUE, TRUE)

KeycloakIssues(m) ==
  provider = "keycloak" /\ \E withRefresh \in BOOLEAN : Grant(m, m.scoped, withRefresh, TRUE)

GoogleIssues(m) == provider = "google" /\ Grant(m, m.scoped, FALSE, TRUE)

IssueGrant(m) ==
  /\ m.kind = "token" /\ m.at = "provider"
  /\ DevIssues(m) \/ KeycloakIssues(m) \/ GoogleIssues(m)
  /\ UNCHANGED <<provider, storeUp, secretOk, manifest, records, revoked, executed, faults>>

\* POST auth/token/refresh: the test against the store, of a token with a jti.
RefreshRequest(m) ==
  /\ m.kind = "refresh" /\ m.at = "sent"
  /\ IF Readable(m.grant) /\ HasJti(m.grant) /\ storeUp /\ m.grant \notin records
     THEN Reply(m, "refused")
     ELSE MoveOn(m, [m EXCEPT !.at = "provider"])
  /\ UNCHANGED <<provider, storeUp, secretOk, manifest, grants, issued, records, revoked, executed, faults>>

\* ... what the provider exchanges the token for.  DevJwtProvider copies the
\* scopes from the refresh token, which has none.
DevRefreshes(m) == provider = "dev-jwt" /\ Grant(m, FALSE, TRUE, TRUE)

\* The scopes of a Keycloak session stay.  Nobody can read the new refresh
\* token's subject, so it gets no record.
KeycloakRefreshes(m) ==
  /\ provider = "keycloak"
  /\ \E withRefresh \in BOOLEAN : Grant(m, grants[m.grant].scoped, withRefresh, FALSE)

ExchangeGrant(m) ==
  /\ m.kind = "refresh" /\ m.at = "provider"
  /\ grants[m.grant].refreshLife > 0
  /\ DevRefreshes(m) \/ KeycloakRefreshes(m)
  /\ UNCHANGED <<provider, storeUp, secretOk, manifest, records, revoked, executed, faults>>

\* ... the provider refuses or fails.
ProviderFails(m) ==
  /\ m.at = "provider"
  /\ \/ m.kind = "refresh" /\ grants[m.grant].refreshLife = 0 /\ UNCHANGED faults
     \/ issued = MaxGrants /\ UNCHANGED faults
     \/ faults < MaxFaults /\ faults' = faults + 1
  /\ Reply(m, "refused")
  /\ UNCHANGED <<provider, storeUp, secretOk, manifest, grants, issued, records, revoked, executed>>

\* ... rotation and the new record.  An error of store() is only logged.
Persist(m) ==
  /\ m.kind \in {"token", "refresh"} /\ m.at = "persist"
  /\ LET rotated == IF m.kind = "refresh" /\ HasJti(m.grant) THEN records \ {m.grant} ELSE records
     IN  records' \in IF storeUp THEN {rotated, rotated \union {m.got}} ELSE {records}
  /\ Reply(m, "ok")
  /\ UNCHANGED <<provider, storeUp, secretOk, manifest, grants, issued, revoked, executed, faults>>

-----------------------------------------------------------------------------
\* POST auth/token/revoke: JwtAuthGuard, then a refresh token that must be
\* readable.
RevokeRequest(m) ==
  /\ m.kind = "revoke" /\ m.at = "sent"
  /\ IF Accepts(m.bearer) /\ m.grant # None /\ Readable(m.grant)
     THEN MoveOn(m, [m EXCEPT !.at = "persist"])
     ELSE Reply(m, "refused")
  /\ UNCHANGED <<provider, storeUp, secretOk, manifest, grants, issued, records, revoked, executed, faults>>

\* ... the records it removes: all, the one of the jti, or none; 204 follows.
RevokeRecords(m) ==
  /\ m.kind = "revoke" /\ m.at = "persist"
  /\ records' = IF ~storeUp THEN records
                ELSE IF m.all THEN {}
                ELSE IF HasJti(m.grant) THEN records \ {m.grant}
                ELSE records
  /\ revoked' = revoked \union (IF m.all THEN records ELSE {}) \union {m.grant}
  /\ Reply(m, "ok")
  /\ UNCHANGED <<provider, storeUp, secretOk, manifest, grants, issued, executed, faults>>

-----------------------------------------------------------------------------
\* GET tribes/:serviceId/...: JwtAuthGuard, then the checks of proxyRequest().
CallRequest(m) ==
  /\ m.kind = "call" /\ m.at = "sent"
  /\ \/ Accepts(m.bearer) /\ manifest = "open" /\ grants[m.bearer].scoped
        /\ MoveOn(m, [m EXCEPT !.at = "upstream"])
     \/ Accepts(m.bearer) /\ ~(manifest = "open" /\ grants[m.bearer].scoped)
        /\ Reply(m, "forbidden")
     \/ ~Accepts(m.bearer) /\ Reply(m, "refused")
  /\ UNCHANGED <<provider, storeUp, secretOk, manifest, grants, issued, records, revoked, executed, faults>>

\* The service executes the call; its answer may get lost behind the proxy.
Execute(m) ==
  /\ m.kind = "call" /\ m.at = "upstream"
  /\ executed' = [executed EXCEPT ![m.op] = @ + 1]
  /\ \E answer \in {"ok", "unavailable"} : Reply(m, answer)
  /\ UNCHANGED <<provider, storeUp, secretOk, manifest, grants, issued, records, revoked, faults>>

\* The load balancer, the breaker or the proxy answers 502, 503 or 504, or the
\* connection breaks, before anything is done.
Unreachable(m) ==
  /\ m.at \in {"sent", "upstream"}
  /\ Reply(m, "unavailable")
  /\ UNCHANGED <<provider, storeUp, secretOk, manifest, grants, issued, records, revoked, executed, faults>>

\* The tribe is registered, registered anew or deregistered.
Reregister ==
  /\ manifest' \in Manifests \ {manifest}
  /\ UNCHANGED <<provider, storeUp, secretOk, grants, issued, records, revoked, net, executed, faults>>

Handle(m) ==
  \/ TooManyRequests(m)
  \/ IssueRequest(m) \/ IssueGrant(m)
  \/ RefreshRequest(m) \/ ExchangeGrant(m)
  \/ ProviderFails(m) \/ Persist(m)
  \/ RevokeRequest(m) \/ RevokeRecords(m)
  \/ CallRequest(m) \/ Execute(m)
  \/ Unreachable(m)
=============================================================================
