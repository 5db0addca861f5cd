----------------------------- MODULE TribeClient -----------------------------
(***************************************************************************)
(* The SDK of src/src/sdk/TribeClient.ts in front of the gateway of module *)
(* Auth: one client object, whose methods are called concurrently and      *)
(* share its three token fields.  Between two awaits a method is one step: *)
(* an answer is applied, and the request that follows is built from the    *)
(* fields, in the same step.                                               *)
(*                                                                         *)
(* A client waits for an answer for Timeout ticks at most (axios' timeout, *)
(* 30 s); it replaces a token Margin ticks (30 s) before its expiry.       *)
(***************************************************************************)
EXTENDS Auth, FiniteSets

CONSTANTS
  Methods,   \* the methods that are called
  MaxRetries,
  MaxLate,   \* requests on their way that are handled too late
  Timeout,
  Margin

ASSUME ClientAssumption ==
  /\ Methods \subseteq {"authenticate", "refresh", "call", "revoke"}
  /\ Timeout \in Nat \ {0}
  /\ Margin \in Nat
  /\ MaxRetries \in Nat
  /\ MaxLate \in Nat
  /\ Timeout <= Margin
  /\ Timeout < AccessTtl

VARIABLES
  access,    \* accessToken
  refresh,   \* refreshToken
  left,      \* time left until tokenExpiry
  op         \* per operation: its method, where it is, its retries and outcome

clientVars == <<access, refresh, left, op>>
vars == <<serverVars, clientVars>>

\* all: the argument of revoke(); bearer: the header of a call, which its
\* retries send again.
NotCalled == [method |-> "none", at |-> "idle", all |-> FALSE, bearer |-> None, try |-> 0]

Operation ==
  [method : Methods \union {"none"},
   at : {"idle", "token", "refresh", "call", "revoke", "backoff", "ok", "failed"},
   all : BOOLEAN, bearer : Grants \union {None}, try : Nat]

Init ==
  /\ AuthInit
  /\ access = None
  /\ refresh = None
  /\ left = 0
  /\ op = [o \in Ops |-> NotCalled]

-----------------------------------------------------------------------------
(* The steps below set net and op: rest are the messages that stay on their  *)
(* way, r is what is known of the operation o.                               *)

\* A request is posted.
Post(o, r, rest, kind, bearer, grant) ==
  /\ op' = [op EXCEPT ![o] = [r EXCEPT !.at = kind, !.bearer = IF kind = "call" THEN bearer ELSE None]]
  /\ net' = rest \union
       {[op |-> o, kind |-> kind, bearer |-> bearer, grant |-> grant, all |-> r.all,
         try |-> r.try, at |-> "sent", got |-> None, scoped |-> FALSE, age |-> 0, live |-> TRUE]}

\* The method returns or throws.
Finish(o, r, rest, outcome) ==
  /\ op' = [op EXCEPT ![o] = [r EXCEPT !.at = outcome,
                                       !.bearer = IF outcome = "backoff" THEN @ ELSE None]]
  /\ net' = rest

\* authenticate()
Authenticate(o, r, rest) == Post(o, r, rest, "token", None, None)

\* refresh(), without a refresh token and with one.
Refresh(o, r, rest) ==
  \/ refresh = None /\ Authenticate(o, r, rest)
  \/ refresh # None /\ Post(o, r, rest, "refresh", None, refresh)

\* What a method does when ensureAuth() returns, with the tokens acc and ref:
\* the header is built at once.
Proceed(o, r, rest, acc, ref) ==
  \/ r.method \in {"authenticate", "refresh"} /\ Finish(o, r, rest, "ok")
  \/ r.method = "call" /\ Post(o, r, rest, "call", acc, None)
  \/ r.method = "revoke" /\ Post(o, r, rest, "revoke", acc, ref)

\* Mistaken test: a token is used until it has expired.
NeedsTokenWhenExpired == access = None \/ left = 0

\* ensureAuth(): the test.
NeedsToken == access = None \/ left <= Margin

\* A method is called, and runs up to its first await.
Begin(o) ==
  /\ op[o].at = "idle"
  /\ \E method \in Methods, all \in BOOLEAN :
       LET r == [NotCalled EXCEPT !.method = method, !.all = all] IN
         /\ all => method = "revoke"
         /\ \/ method = "authenticate" /\ Authenticate(o, r, net)
            \/ method = "refresh" /\ Refresh(o, r, net)
            \/ method = "revoke" /\ refresh = None /\ Finish(o, r, net, "ok")
            \/ /\ method = "call" \/ (method = "revoke" /\ refresh # None)
               /\ \/ NeedsToken /\ Refresh(o, r, net)
                  \/ ~NeedsToken /\ Proceed(o, r, net, access, refresh)
  /\ UNCHANGED <<provider, storeUp, secretOk, manifest, grants, issued, records, revoked,
                 executed, faults, access, refresh, left>>

\* Mistaken update: without a new refresh token the former one is kept.
ApplyKeepingRefresh(g) ==
  /\ access' = g
  /\ refresh' = IF grants[g].refreshLife > 0 THEN g ELSE refresh
  /\ left' = AccessTtl

\* applyToken()
Apply(g) ==
  /\ access' = g
  /\ refresh' = IF grants[g].refreshLife > 0 THEN g ELSE None
  /\ left' = AccessTtl

\* Mistaken handling: authenticate() tries again when it is refused.
TokenRefusedRetried(o, rest) == Authenticate(o, op[o], rest)

\* authenticate() throws.
TokenRefused(o, rest) == Finish(o, op[o], rest, "failed")

\* Mistaken count: one attempt more.
MayRetryOnceMore(r) == r.try <= MaxRetries

\* attempt === this.maxRetries
MayRetry(r) == r.try < MaxRetries

\* isRetryable(): 502, 503, 504 and no answer at all.
Retryable(answer) == answer = "unavailable"

\* wrapAxiosError(): everything but an answer with data is thrown.
Outcome(answer) == IF answer = "ok" THEN "ok" ELSE "failed"

\* The request of o ends with an answer, or without one ("unavailable").
React(o, m, answer, rest) ==
  LET r == op[o] IN
    \/ /\ m.kind \in {"token", "refresh"} /\ answer = "ok"
       /\ Apply(m.got)
       /\ Proceed(o, r, rest, access', refresh')
    \/ /\ m.kind = "token" /\ answer # "ok"
       /\ TokenRefused(o, rest)
       /\ UNCHANGED <<access, refresh, left>>
    \/ /\ m.kind = "refresh" /\ answer # "ok"
       /\ Authenticate(o, r, rest)
       /\ UNCHANGED <<access, refresh, left>>
    \/ /\ m.kind = "revoke"
       /\ Finish(o, r, rest, Outcome(answer))
       /\ access' = None
       /\ refresh' = None
       /\ left' = 0
    \/ /\ m.kind = "call"
       /\ IF Retryable(answer) /\ MayRetry(r)
          THEN Finish(o, r, rest, "backoff")
          ELSE Finish(o, r, rest, Outcome(answer))
       /\ UNCHANGED <<access, refresh, left>>

\* An answer arrives.
Receive(o) ==
  /\ \E m \in net : m.op = o /\ m.live /\ m.at \in Answers /\ React(o, m, m.at, net \ {m})
  /\ UNCHANGED <<provider, storeUp, secretOk, manifest, grants, issued, records, revoked, executed, faults>>

\* No answer arrived in time; the gateway goes on with the request, unless it
\* or the answer was lost.
TimeOut(o) ==
  /\ \E m \in net :
       /\ m.op = o /\ m.live /\ m.age = Timeout
       /\ \/ React(o, m, "unavailable", net \ {m})
          \/ /\ m.at \in Stages
             /\ Cardinality({n \in net : ~n.live}) < MaxLate
             /\ React(o, m, "unavailable", (net \ {m}) \union {[m EXCEPT !.live = FALSE]})
  /\ UNCHANGED <<provider, storeUp, secretOk, manifest, grants, issued, records, revoked, executed, faults>>

\* request(): the next attempt, after the back-off.
Retry(o) ==
  /\ op[o].at = "backoff"
  /\ Post(o, [op[o] EXCEPT !.try = @ + 1], net, "call", op[o].bearer, None)
  /\ UNCHANGED <<provider, storeUp, secretOk, manifest, grants, issued, records, revoked,
                 executed, faults, access, refresh, left>>

\* Time passes, but not past the moment a client gives up.
Tick ==
  /\ ~\E m \in net : m.live /\ m.age = Timeout
  /\ \/ left > 0
     \/ \E g \in Grants : grants[g].life > 0 \/ grants[g].refreshLife > 0
     \/ \E m \in net : m.live
  /\ left' = Less(left)
  /\ grants' = [g \in Grants |-> [grants[g] EXCEPT !.life = Less(@), !.refreshLife = Less(@)]]
  /\ net' = {IF m.live THEN [m EXCEPT !.age = @ + 1] ELSE m : m \in net}
  /\ UNCHANGED <<provider, storeUp, secretOk, manifest, issued, records, revoked,
                 executed, faults, access, refresh, op>>

Gateway ==
  /\ \/ \E m \in net : Handle(m)
     \/ Reregister
  /\ UNCHANGED clientVars

Next ==
  \/ \E o \in Ops : Begin(o) \/ Receive(o) \/ TimeOut(o) \/ Retry(o)
  \/ Tick
  \/ Gateway

Spec == Init /\ [][Next]_vars

\* The client's timers and time; the gateway may never answer.
FairSpec ==
  /\ Spec
  /\ \A o \in Ops : WF_vars(Receive(o) \/ TimeOut(o) \/ Retry(o))
  /\ WF_vars(Tick)

-----------------------------------------------------------------------------
TypeOK ==
  /\ provider \in Providers
  /\ storeUp \in StoresUp
  /\ secretOk \in BOOLEAN
  /\ manifest \in Manifests
  /\ grants \in [Grants -> [life : 0 .. AccessTtl, refreshLife : 0 .. RefreshTtl, scoped : BOOLEAN]]
  /\ issued \in 0 .. MaxGrants
  /\ records \subseteq 1 .. issued
  /\ revoked \subseteq 1 .. issued
  /\ net \subseteq Message
  /\ executed \in [Ops -> Nat]
  /\ faults \in 0 .. MaxFaults
  /\ access \in Grants \union {None}
  /\ refresh \in {access, None}
  /\ left \in 0 .. AccessTtl
  /\ op \in [Ops -> Operation]

\* A call is sent with a token, and its first attempt with one that has not
\* expired at the gateway: other methods renew and revoke the tokens while it
\* waits, and the client counts the token's life from the answer's arrival
\* (ensureAuth(), applyToken() and request()).
FirstTryIsFresh ==
  \A m \in net :
    m.kind \in {"call", "revoke"} /\ m.live /\ m.at = "sent" =>
      /\ m.bearer # None
      /\ m.try = 0 /\ m.age = 0 => grants[m.bearer].life > 0

\* The service executes a call no more often than the client tried, and a call
\* that returned was executed, although requests that were given up are still
\* handled (request()).
ExecutionsBounded ==
  \A o \in Ops :
    /\ executed[o] <= MaxRetries + 1
    /\ executed[o] <= op[o].try + 1
    /\ op[o].method = "call" /\ op[o].at = "ok" => executed[o] > 0

\* Every method returns or throws, whatever the gateway answers or does not:
\* there is always a time at which nothing is under way.
Settles == []<>(\A o \in Ops : op[o].at \in {"idle", "ok", "failed"})

\* What AuthService.refreshToken() says it validates: a refresh token whose
\* revocation was answered with 204 is not exchanged afterwards.
RevokedIsRefused ==
  [][\A m \in net :
       m.kind = "refresh" /\ m.at = "sent" /\ m.grant \in revoked =>
         [m EXCEPT !.at = "provider"] \notin net']_vars

\* What the documentation of authenticate() promises: renewal keeps the client
\* going, so a tribe that may consume the service is never told that it may
\* not.  (For runs in which the manifest stays as it is.)
StaysAuthorized == \A m \in net : m.at # "forbidden"
=============================================================================
