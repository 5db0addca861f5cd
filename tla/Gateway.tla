------------------------------- MODULE Gateway -------------------------------
(***************************************************************************)
(* The proxy handlers (src/src/shared/proxy-handler.ts) of the gateway     *)
(* instances, on top of the registry that decides where a request goes.    *)
(* Each instance has one handler for /tribes and one for /shared; each     *)
(* handler keeps, per service, the proxy it made for the first request,    *)
(* and the registry tells it when register() has replaced an entry.        *)
(*                                                                         *)
(* proxyRequest() does not await anything, so a request is routed in one   *)
(* step.  A refused request changes nothing and is the absence of a step.  *)
(* The circuit breaker of the service may refuse any request; its state is *)
(* that of CircuitBreaker.                                                 *)
(***************************************************************************)
EXTENDS Registry

CONSTANTS
  Upstreams,    \* base URLs
  BaseUrl,      \* Manifests -> Upstreams
  ServiceType,  \* Manifests -> {"tribe", "shared"}
  Consumes      \* Manifests -> the services its owner may call

ASSUME GatewayAssumption ==
  /\ BaseUrl \in [Manifests -> Upstreams]
  /\ ServiceType \in [Manifests -> {"tribe", "shared"}]
  /\ Consumes \in [Manifests -> SUBSET Services]
  /\ Absent \notin Upstreams

Namespaces == {"tribe", "shared"}

VARIABLE proxies    \* per instance, namespace and service: the target of the
                    \* cached proxy, or Absent

gatewayVars == <<vars, proxies>>

NoProxy == [n \in Namespaces |-> [s \in Services |-> Absent]]

-----------------------------------------------------------------------------
\* canConsume(): the caller is a registered service that lists s.
MayConsume(i, caller, s) ==
  /\ services[i][caller] # Absent
  /\ s \in Consumes[services[i][caller].manifest]

\* What proxyRequest() checks before the scopes and the breaker: the service
\* is registered (404), belongs to this namespace (404), is not retired
\* (410), and the caller may consume it (403).
Admitted(i, n, caller, s) ==
  /\ services[i][s] # Absent
  /\ ServiceType[services[i][s].manifest] = n
  /\ services[i][s].status # "retired"
  /\ MayConsume(i, caller, s)

\* A request that is forwarded: through the cached proxy, or a new one.
Forward(i, n, caller, s) ==
  /\ Admitted(i, n, caller, s)
  /\ proxies' = IF proxies[i][n][s] = Absent
                THEN [proxies EXCEPT ![i][n][s] = BaseUrl[services[i][s].manifest]]
                ELSE proxies
  /\ UNCHANGED vars

\* Mistaken listener: only the handler of /tribes subscribes.
NotifyTribesOnly(i, s) == proxies' = [proxies EXCEPT ![i]["tribe"][s] = Absent]

\* notifyCacheInvalidation(): both handlers of the instance drop the proxy.
Notify(i, s) ==
  proxies' = [proxies EXCEPT ![i] = [n \in Namespaces |-> [@[n] EXCEPT ![s] = Absent]]]

\* register(): in memory-only mode it does not wait and notifies at once.
RegisterHere(i, s, m, t) ==
  /\ Register(i, s, m, t)
  /\ IF mode[i] = "memoryOnly" /\ services[i][s] # Absent
     THEN Notify(i, s)
     ELSE UNCHANGED proxies

\* Redis answers: a register() that replaced an entry notifies.
ExecuteWriteHere(i) ==
  /\ ExecuteWrite(i)
  /\ IF Head(sent[i]).caller = "update"
     THEN Notify(i, Head(sent[i]).sid)
     ELSE UNCHANGED proxies

\* onModuleDestroy() and a crash: the caches are gone.
CrashHere(i) ==
  /\ Crash(i)
  /\ proxies' = [proxies EXCEPT ![i] = NoProxy]

\* Every other step of the registry leaves the caches alone.
Unnoticed(i) ==
  /\ \/ \E s \in Services, t \in 0 .. MaxClock :
          Deprecate(i, s, t) \/ Retire(i, s, t) \/ Activate(i, s, t)
     \/ \E s \in Services : Deregister(i, s)
     \/ StartSweep(i)
     \/ \E s \in Services, h \in BOOLEAN, t \in 0 .. MaxClock : ProbeAnswered(i, s, h, t)
     \/ StartReconciliation(i)
     \/ CompareSnapshot(i)
     \/ LoadSnapshot(i)
     \/ ExecuteRead(i)
     \/ DropWrite(i)
     \/ DropRead(i)
     \/ \E k \in 1 .. (MaxQueue + 1) : Timeout(i, k)
     \/ Boot(i)
     \/ BootMemoryOnly(i)
  /\ UNCHANGED proxies

GatewayInit ==
  /\ Init
  /\ proxies = [i \in Instances |-> NoProxy]

GatewayNext ==
  \E i \in Instances :
    \/ \E n \in Namespaces : \E caller, s \in Services : Forward(i, n, caller, s)
    \/ \E s \in Services, m \in Manifests, t \in 0 .. MaxClock : RegisterHere(i, s, m, t)
    \/ ExecuteWriteHere(i)
    \/ CrashHere(i)
    \/ Unnoticed(i)

GatewaySpec == GatewayInit /\ [][GatewayNext]_gatewayVars

-----------------------------------------------------------------------------
GatewayTypeOK ==
  /\ TypeOK
  /\ proxies \in [Instances -> [Namespaces -> [Services -> Upstreams \union {Absent}]]]

\* A proxy is current when it leads where the entry in memory says, or will
\* be dropped because register() still waits for Redis.
Current(i, n, s) ==
  \/ proxies[i][n][s] = Absent
  \/ services[i][s] # Absent /\ proxies[i][n][s] = BaseUrl[services[i][s].manifest]
  \/ \E k \in Writes(i, s) : sent[i][k].caller = "update"

\* However registrations, requests, time-outs and lost connections overlap, a
\* cached proxy stops being current only because the entry was removed from
\* memory, or was replaced by a reload from Redis; no returning register()
\* leaves behind a proxy to a former base URL.
StaleOnlyByRemovalOrReload ==
  [][\A i \in Instances, n \in Namespaces, s \in Services :
       Current(i, n, s) /\ ~Current(i, n, s)'
       => services'[i][s] = Absent \/ LoadSnapshot(i)]_gatewayVars

-----------------------------------------------------------------------------
\* Claims of the documentation that the code does not keep.

\* proxy-handler.ts line 11: "stale proxy instances are dropped on
\* re-registration".  When nothing is under way and the instances agree with
\* Redis, no proxy leads to another base URL than the entry's.
NoStaleRoute ==
  (\A i \in Instances :
     mode[i] = "connected" => sent[i] = <<>> /\ phase[i] = "idle" /\ services[i] = redis)
  => \A i \in Instances, n \in Namespaces, s \in Services :
       services[i][s] # Absent => Current(i, n, s)

\* health-monitor.service.ts lines 8-9: "mark the service as unhealthy so the
\* proxy stops routing traffic to it".
UnhealthyNotRouted ==
  \A i \in Instances, n \in Namespaces : \A caller, s \in Services :
    Admitted(i, n, caller, s) => services[i][s].healthy
=============================================================================
