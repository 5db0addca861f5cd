------------------------------- MODULE Registry -------------------------------
(***************************************************************************)
(* The service registry (src/src/registry/registry.service.ts) of several  *)
(* gateway instances that share one Redis hash, with the two cron jobs of  *)
(* health-monitor.service.ts that write to it.                             *)
(*                                                                         *)
(* Each instance serves every lookup from its own memory.  A change is     *)
(* made in memory first; the Redis command that stores it travels on the   *)
(* instance's one connection, behind the commands sent before it.          *)
(* register() and deregister() wait for their command, at most             *)
(* REDIS_WRITE_TIMEOUT_MS; the other operations do not wait.               *)
(*                                                                         *)
(* An action is the code between two awaits.  The reply to a write is      *)
(* handled when Redis executes it; the reply to HGETALL arrives later,     *)
(* before the next command of that connection is executed.                 *)
(***************************************************************************)
EXTENDS Naturals, Sequences, FiniteSets

CONSTANTS
  Instances,    \* gateway containers
  Services,     \* service ids
  Manifests,    \* manifests a service may be registered with
  Major,        \* Manifests -> the major version, or NoSemver
  NoSemver,     \* version missing or not semver: governance does not apply
  Absent,       \* no entry under this service id
  Crons,        \* the cron jobs that run: a subset of {"health", "drift"}
  FaultKinds,   \* what may fail: a subset of {"drop", "timeout", "crash", "outage"}
  MinGap,       \* 1 when no two changes share a millisecond, 0 when they may
  MaxClock,     \* bound: number of distinct timestamps
  MaxQueue,     \* bound: Redis commands waiting on one connection
  MaxFaults     \* bound: number of faults in a behaviour

\* 'proposed' is declared too, but nothing sets it.
Status == {"active", "deprecated", "retired"}

\* ServiceRegistryEntry, reduced to what decisions are made on.
Entry == [manifest: Manifests, status: Status, healthy: BOOLEAN, updatedAt: 0 .. MaxClock]
Slot == Entry \union {Absent}
Hash == [Services -> Slot]

ASSUME RegistryAssumption ==
  /\ Major \in [Manifests -> Nat \union {NoSemver}]
  /\ NoSemver \notin Nat
  /\ MinGap \in {0, 1}
  /\ MaxClock \in Nat
  /\ MaxQueue \in Nat
  /\ MaxFaults \in Nat
  /\ IsFiniteSet(Services)
  /\ Absent \notin Entry
  /\ Absent \notin Hash

VARIABLES
  clock,       \* Date.now(), shared by the instances of one host
  mode,        \* per instance: "down", "connected", or "memoryOnly" (redis = null)
  services,    \* per instance: the in-memory map
  redis,       \* the hash api-center:registry:services
  sent,        \* per instance: Redis commands not executed yet, oldest first
  phase,       \* per instance: what the drift job awaits
  snapshot,    \* per instance: an HGETALL reply on its way, or Absent
  probing,     \* per instance: services the running health sweep still awaits
  gauge,       \* per instance: the registry_services_total metric
  faults,      \* faults still allowed
  acked        \* history: services whose last register() was acknowledged from
               \* Redis, with no deregistration under way or requested since

vars == <<clock, mode, services, redis, sent, phase, snapshot, probing, gauge, faults, acked>>

\* A write stores value under sid (HSET), or removes sid when it is Absent
\* (HDEL).  caller is who awaits it: "update" is a register() that replaces.
Strict == {"register", "update", "deregister"}
Write == [sid: Services, value: Slot, caller: Strict \union {"none"}]
Read == [caller: {"compare", "load"}]
Command == Write \union Read

IsRead(c) == c.caller \in {"compare", "load"}

-----------------------------------------------------------------------------
\* syncMetricsGauge(): what the gauge is set to.
Routable(map) ==
  {s \in Services : map[s] # Absent /\ map[s].status \in {"active", "deprecated"}}
GaugeOf(map) == Cardinality(Routable(map))

\* Mistaken governance: one major version down is let through.
UpgradableOffByOne(old, new) ==
  Major[old] # NoSemver /\ Major[new] # NoSemver => Major[new] + 1 >= Major[old]

\* validateVersionUpgrade(): the major version does not go down.
Upgradable(old, new) ==
  Major[old] # NoSemver /\ Major[new] # NoSemver => Major[new] >= Major[old]

\* The time of the next change: the bound on time is MaxClock.
Stamp(t) ==
  /\ t \in {clock + MinGap, clock + 1}
  /\ t <= MaxClock
  /\ clock' = t

\* Mistaken client: a command overtakes the ones that wait.
SendFirst(i, c) ==
  IF mode[i] = "connected"
  THEN /\ IsRead(c) \/ Len(sent[i]) < MaxQueue
       /\ sent' = [sent EXCEPT ![i] = <<c>> \o @]
  ELSE UNCHANGED sent

\* Hand a command to the Redis client; with redis = null there is none.
Send(i, c) ==
  IF mode[i] = "connected"
  THEN /\ IsRead(c) \/ Len(sent[i]) < MaxQueue
       /\ sent' = [sent EXCEPT ![i] = Append(@, c)]
  ELSE UNCHANGED sent

Put(i, s, e) == services' = [services EXCEPT ![i][s] = e]

SyncGauge(i) == gauge' = [gauge EXCEPT ![i] = GaugeOf(services'[i])]

DeregistrationUnderWay(s, queues) ==
  \E i \in Instances : \E k \in DOMAIN queues[i] :
    LET c == queues[i][k] IN ~IsRead(c) /\ c.sid = s /\ c.value = Absent

-----------------------------------------------------------------------------
\* Mistaken register(): every registration activates the service.
NewEntryActive(old, m, t) ==
  [manifest |-> m, status |-> "active", healthy |-> TRUE, updatedAt |-> t]

\* Mistaken register(): a first registration waits for activate().
NewEntryProposed(old, m, t) ==
  [manifest |-> m,
   status |-> IF old # Absent THEN old.status ELSE "proposed",
   healthy |-> TRUE,
   updatedAt |-> t]

\* The entry register() builds: a deprecated service stays deprecated, any
\* other becomes active, and healthy is not carried over.
NewEntry(old, m, t) ==
  [manifest |-> m,
   status |-> IF old # Absent /\ old.status = "deprecated" THEN "deprecated" ELSE "active",
   healthy |-> TRUE,
   updatedAt |-> t]

\* register(), up to its await.
Register(i, s, m, t) ==
  LET old == services[i][s]
      entry == NewEntry(old, m, t)
      caller == IF old = Absent THEN "register" ELSE "update"
  IN /\ mode[i] # "down"
     /\ old # Absent => Upgradable(old.manifest, m) /\ old.status # "retired"
     /\ Stamp(t)
     /\ Put(i, s, entry)
     /\ SyncGauge(i)
     /\ Send(i, [sid |-> s, value |-> entry, caller |-> caller])
     /\ UNCHANGED <<mode, redis, phase, snapshot, probing, faults, acked>>

\* deregister(), up to its await.
Deregister(i, s) ==
  /\ services[i][s] # Absent
  /\ Put(i, s, Absent)
  /\ SyncGauge(i)
  /\ Send(i, [sid |-> s, value |-> Absent, caller |-> "deregister"])
  /\ acked' = [acked EXCEPT ![s] = FALSE]
  /\ UNCHANGED <<clock, mode, redis, phase, snapshot, probing, faults>>

\* Mistaken amendment: memory only.
AmendUnsaved(i, s, e) ==
  /\ Put(i, s, e)
  /\ UNCHANGED sent

\* A change of one field of an entry, stored without waiting.
Amend(i, s, e) ==
  /\ Put(i, s, e)
  /\ Send(i, [sid |-> s, value |-> e, caller |-> "none"])

Deprecate(i, s, t) ==
  LET old == services[i][s]
  IN /\ old # Absent
     /\ old.status # "retired"
     /\ Stamp(t)
     /\ Amend(i, s, [old EXCEPT !.status = "deprecated", !.updatedAt = t])
     /\ UNCHANGED <<mode, redis, phase, snapshot, probing, gauge, faults, acked>>

Retire(i, s, t) ==
  LET old == services[i][s]
  IN /\ old # Absent
     /\ Stamp(t)
     /\ Amend(i, s, [old EXCEPT !.status = "retired", !.updatedAt = t])
     /\ SyncGauge(i)
     /\ UNCHANGED <<mode, redis, phase, snapshot, probing, faults, acked>>

Activate(i, s, t) ==
  LET old == services[i][s]
  IN /\ old # Absent
     /\ old.status = "deprecated"
     /\ Stamp(t)
     /\ Amend(i, s, [old EXCEPT !.status = "active", !.updatedAt = t])
     /\ SyncGauge(i)
     /\ UNCHANGED <<mode, redis, phase, snapshot, probing, faults, acked>>

-----------------------------------------------------------------------------
\* handleHealthChecks(): a sweep probes what is registered when it starts;
\* no other sweep of this instance starts before its last answer.
StartSweep(i) ==
  /\ "health" \in Crons
  /\ mode[i] # "down"
  /\ probing[i] = {}
  /\ Routable(services[i]) # {}
  /\ probing' = [probing EXCEPT ![i] = Routable(services[i])]
  /\ UNCHANGED <<clock, mode, services, redis, sent, phase, snapshot, gauge, faults, acked>>

\* Mistaken setHealthStatus(): the flag changes, updatedAt does not.
SetHealthUnstamped(i, s, h, t) ==
  LET old == services[i][s]
  IN \/ /\ old # Absent
        /\ old.healthy # h
        /\ Stamp(t)
        /\ Amend(i, s, [old EXCEPT !.healthy = h])
     \/ /\ old # Absent => old.healthy = h
        /\ UNCHANGED <<clock, services, sent>>

\* setHealthStatus(): only a change is stamped and stored.
SetHealth(i, s, h, t) ==
  LET old == services[i][s]
  IN \/ /\ old # Absent
        /\ old.healthy # h
        /\ Stamp(t)
        /\ Amend(i, s, [old EXCEPT !.healthy = h, !.updatedAt = t])
     \/ /\ old # Absent => old.healthy = h
        /\ UNCHANGED <<clock, services, sent>>

\* The answer of one probe, for whatever is registered under that id by now.
ProbeAnswered(i, s, h, t) ==
  /\ s \in probing[i]
  /\ probing' = [probing EXCEPT ![i] = @ \ {s}]
  /\ SetHealth(i, s, h, t)
  /\ UNCHANGED <<mode, redis, phase, snapshot, gauge, faults, acked>>

\* handleRedisDriftReconciliation(), up to the reply of getRedisEntries().
StartReconciliation(i) ==
  /\ "drift" \in Crons
  /\ mode[i] = "connected"
  /\ phase[i] = "idle"
  /\ phase' = [phase EXCEPT ![i] = "comparing"]
  /\ Send(i, [caller |-> "compare"])
  /\ UNCHANGED <<clock, mode, services, redis, snapshot, probing, gauge, faults, acked>>

\* Mistaken comparison: the keys only.
DriftedKeys(map, stored) ==
  \E s \in Services : (map[s] = Absent) # (stored[s] = Absent)

\* A key on one side only, or two different updatedAt.
Drifted(map, stored) ==
  \E s \in Services :
    \/ (map[s] = Absent) # (stored[s] = Absent)
    \/ /\ map[s] # Absent /\ stored[s] # Absent
       /\ map[s].updatedAt # stored[s].updatedAt

\* The comparison: no drift ends the job, drift asks for the hash again.
CompareSnapshot(i) ==
  /\ phase[i] = "comparing"
  /\ snapshot[i] # Absent
  /\ snapshot' = [snapshot EXCEPT ![i] = Absent]
  /\ \/ /\ Drifted(services[i], snapshot[i])
        /\ phase' = [phase EXCEPT ![i] = "loading"]
        /\ Send(i, [caller |-> "load"])
     \/ /\ ~Drifted(services[i], snapshot[i])
        /\ phase' = [phase EXCEPT ![i] = "idle"]
        /\ UNCHANGED sent
  /\ UNCHANGED <<clock, mode, services, redis, probing, gauge, faults, acked>>

\* loadFromRedis(): every stored entry replaces the one in memory; an entry
\* that is not stored stays.
Loaded(map, stored) ==
  [s \in Services |-> IF stored[s] # Absent THEN stored[s] ELSE map[s]]

LoadSnapshot(i) ==
  /\ phase[i] = "loading"
  /\ snapshot[i] # Absent
  /\ services' = [services EXCEPT ![i] = Loaded(services[i], snapshot[i])]
  /\ snapshot' = [snapshot EXCEPT ![i] = Absent]
  /\ phase' = [phase EXCEPT ![i] = "idle"]
  /\ UNCHANGED <<clock, mode, redis, sent, probing, gauge, faults, acked>>

-----------------------------------------------------------------------------
\* Redis executes the oldest command of a connection and the reply resumes
\* whoever awaits it; register() then returns to its caller.
ExecuteWrite(i) ==
  /\ sent[i] # <<>>
  /\ ~IsRead(Head(sent[i]))
  /\ snapshot[i] = Absent
  /\ LET c == Head(sent[i])
     IN /\ redis' = [redis EXCEPT ![c.sid] = c.value]
        /\ sent' = [sent EXCEPT ![i] = Tail(@)]
        /\ acked' = IF c.caller \in {"register", "update"}
                    THEN [acked EXCEPT ![c.sid] = ~DeregistrationUnderWay(c.sid, sent')]
                    ELSE acked
  /\ UNCHANGED <<clock, mode, services, phase, snapshot, probing, gauge, faults>>

ExecuteRead(i) ==
  /\ sent[i] # <<>>
  /\ IsRead(Head(sent[i]))
  /\ snapshot[i] = Absent
  /\ snapshot' = [snapshot EXCEPT ![i] = redis]
  /\ sent' = [sent EXCEPT ![i] = Tail(@)]
  /\ UNCHANGED <<clock, mode, services, redis, phase, probing, gauge, faults, acked>>

Fault(kind) ==
  /\ kind \in FaultKinds
  /\ faults > 0
  /\ faults' = faults - 1

\* Mistaken rollback: the entry goes, the gauge stays.
RejectedUncounted(i, c) ==
  /\ IF c.caller \in {"register", "update"}
     THEN Put(i, c.sid, Absent)
     ELSE UNCHANGED services
  /\ UNCHANGED <<gauge, acked>>

\* Mistaken rollback: as in removeFromRedisStrict(), the error is only
\* logged, and register() returns as if Redis had answered.
RejectedSwallowed(i, c) ==
  /\ acked' = IF c.caller \in {"register", "update"}
              THEN [acked EXCEPT ![c.sid] = TRUE]
              ELSE acked
  /\ UNCHANGED <<services, gauge>>

\* The catch of persistToRedisStrict() deletes what is in memory by then;
\* that of removeFromRedisStrict() only logs.
Rejected(i, c) ==
  /\ IF c.caller \in {"register", "update"}
     THEN Put(i, c.sid, Absent) /\ SyncGauge(i)
     ELSE UNCHANGED <<services, gauge>>
  /\ UNCHANGED acked

\* The connection fails under a write, before or after Redis executed it.
DropWrite(i) ==
  /\ Fault("drop")
  /\ sent[i] # <<>>
  /\ ~IsRead(Head(sent[i]))
  /\ snapshot[i] = Absent
  /\ LET c == Head(sent[i])
     IN /\ redis' \in {redis, [redis EXCEPT ![c.sid] = c.value]}
        /\ Rejected(i, c)
  /\ sent' = [sent EXCEPT ![i] = Tail(@)]
  /\ UNCHANGED <<clock, mode, phase, snapshot, probing>>

\* Mistaken job: the error passes by the line that clears the running flag.
DropReadStuck(i) ==
  /\ Fault("drop")
  /\ sent[i] # <<>>
  /\ IsRead(Head(sent[i]))
  /\ sent' = [sent EXCEPT ![i] = Tail(@)]
  /\ UNCHANGED <<clock, mode, services, redis, phase, snapshot, probing, gauge, acked>>

\* The connection fails under an HGETALL: the drift job logs and ends.
DropRead(i) ==
  /\ Fault("drop")
  /\ sent[i] # <<>>
  /\ IsRead(Head(sent[i]))
  /\ sent' = [sent EXCEPT ![i] = Tail(@)]
  /\ phase' = [phase EXCEPT ![i] = "idle"]
  /\ UNCHANGED <<clock, mode, services, redis, snapshot, probing, gauge, acked>>

\* REDIS_WRITE_TIMEOUT_MS is over for the oldest strict command; the command
\* itself stays on the connection.
Timeout(i, k) ==
  /\ Fault("timeout")
  /\ k \in DOMAIN sent[i]
  /\ sent[i][k].caller \in Strict
  /\ \A j \in 1 .. (k - 1) : sent[i][j].caller \notin Strict
  /\ Rejected(i, sent[i][k])
  /\ sent' = [sent EXCEPT ![i][k].caller = "none"]
  /\ UNCHANGED <<clock, mode, redis, phase, snapshot, probing>>

\* The process dies: its memory and the commands not executed are gone.
Crash(i) ==
  /\ Fault("crash")
  /\ mode[i] # "down"
  /\ mode' = [mode EXCEPT ![i] = "down"]
  /\ services' = [services EXCEPT ![i] = [s \in Services |-> Absent]]
  /\ sent' = [sent EXCEPT ![i] = <<>>]
  /\ phase' = [phase EXCEPT ![i] = "idle"]
  /\ snapshot' = [snapshot EXCEPT ![i] = Absent]
  /\ probing' = [probing EXCEPT ![i] = {}]
  /\ gauge' = [gauge EXCEPT ![i] = 0]
  /\ UNCHANGED <<clock, redis, acked>>

\* onModuleInit(): connect and hydrate before the first request, or run in
\* memory-only mode for the life of the process.
Boot(i) ==
  /\ mode[i] = "down"
  /\ mode' = [mode EXCEPT ![i] = "connected"]
  /\ services' = [services EXCEPT ![i] = Loaded(services[i], redis)]
  /\ UNCHANGED <<clock, redis, sent, phase, snapshot, probing, gauge, faults, acked>>

BootMemoryOnly(i) ==
  /\ Fault("outage")
  /\ mode[i] = "down"
  /\ mode' = [mode EXCEPT ![i] = "memoryOnly"]
  /\ UNCHANGED <<clock, services, redis, sent, phase, snapshot, probing, gauge, acked>>

-----------------------------------------------------------------------------
Init ==
  /\ clock = 0
  /\ mode = [i \in Instances |-> "down"]
  /\ services = [i \in Instances |-> [s \in Services |-> Absent]]
  /\ redis = [s \in Services |-> Absent]
  /\ sent = [i \in Instances |-> <<>>]
  /\ phase = [i \in Instances |-> "idle"]
  /\ snapshot = [i \in Instances |-> Absent]
  /\ probing = [i \in Instances |-> {}]
  /\ gauge = [i \in Instances |-> 0]
  /\ faults = MaxFaults
  /\ acked = [s \in Services |-> FALSE]

Admin(i, s, t) ==
  \/ \E m \in Manifests : Register(i, s, m, t)
  \/ Deprecate(i, s, t)
  \/ Retire(i, s, t)
  \/ Activate(i, s, t)

Next ==
  \E i \in Instances :
    \/ \E s \in Services, t \in 0 .. MaxClock : Admin(i, s, t)
    \/ \E s \in Services : Deregister(i, s)
    \/ StartSweep(i)
    \/ \E s \in Services, h \in BOOLEAN, t \in 0 .. MaxClock : ProbeAnswered(i, s, h, t)
    \/ StartReconciliation(i)
    \/ CompareSnapshot(i)
    \/ LoadSnapshot(i)
    \/ ExecuteWrite(i)
    \/ ExecuteRead(i)
    \/ DropWrite(i)
    \/ DropRead(i)
    \/ \E k \in 1 .. (MaxQueue + 1) : Timeout(i, k)
    \/ Crash(i)
    \/ Boot(i)
    \/ BootMemoryOnly(i)

Spec == Init /\ [][Next]_vars

\* Redis answers, a reply is handled, and the drift job is started again
\* every five minutes.
Fairness ==
  \A i \in Instances :
    /\ WF_vars(ExecuteWrite(i))
    /\ WF_vars(ExecuteRead(i))
    /\ WF_vars(CompareSnapshot(i))
    /\ WF_vars(LoadSnapshot(i))
    /\ WF_vars(StartReconciliation(i))

FairSpec == Spec /\ Fairness

-----------------------------------------------------------------------------
TypeOK ==
  /\ clock \in 0 .. MaxClock
  /\ mode \in [Instances -> {"down", "connected", "memoryOnly"}]
  /\ services \in [Instances -> Hash]
  /\ redis \in Hash
  /\ sent \in [Instances -> Seq(Command)]
  /\ phase \in [Instances -> {"idle", "comparing", "loading"}]
  /\ snapshot \in [Instances -> Hash \union {Absent}]
  /\ probing \in [Instances -> SUBSET Services]
  /\ gauge \in [Instances -> Nat]
  /\ faults \in 0 .. MaxFaults
  /\ acked \in [Services -> BOOLEAN]

NothingFailed == faults = MaxFaults

Writes(i, s) == {k \in DOMAIN sent[i] : ~IsRead(sent[i][k]) /\ sent[i][k].sid = s}

\* Every entry kept under s: in a memory, in Redis, on its way to or from it.
Copies(s) ==
  ({services[i][s] : i \in Instances}
   \union {redis[s]}
   \union {snapshot[i][s] : i \in {j \in Instances : snapshot[j] # Absent}}
   \union UNION {{sent[i][k].value : k \in Writes(i, s)} : i \in Instances})
  \ {Absent}

\* Two copies of a service with the same updatedAt are the same entry,
\* wherever they are and whoever wrote them: the drift job compares nothing
\* but updatedAt and the keys, and misses no difference between two entries.
\* It holds when no two changes share a millisecond (MinGap = 1).
StampIdentifiesEntry ==
  \A s \in Services : \A e, f \in Copies(s) : e.updatedAt = f.updatedAt => e = f

\* A registration that Redis acknowledged is in Redis, through every later
\* failed registration, reload, time-out, lost connection and restart of any
\* instance, until somebody asks for the service to be deregistered.
AckedInRedis == \A s \in Services : acked[s] => redis[s] # Absent

\* What one instance has in memory is what Redis will hold once the commands
\* on the way are executed: register(), deregister() and the operations that
\* do not wait cannot overtake each other.
WillBeStored(i, s) ==
  \/ Writes(i, s) = {} /\ redis[s] = services[i][s]
  \/ \E k \in Writes(i, s) :
       /\ sent[i][k].value = services[i][s]
       /\ \A j \in Writes(i, s) : j <= k

WriteThrough ==
  \A i \in Instances, s \in Services :
    mode[i] = "connected" /\ NothingFailed => WillBeStored(i, s)

\* With the drift job running beside the other operations of one instance, an
\* entry in memory that is newer than the one in Redis is still on its way
\* to Redis: a reload with an old reply does not lose the command.
NoUnsavedChange ==
  \A i \in Instances, s \in Services :
    /\ NothingFailed
    /\ services[i][s] # Absent /\ redis[s] # Absent
    /\ services[i][s].updatedAt > redis[s].updatedAt
    => \E k \in Writes(i, s) : sent[i][k].value = services[i][s]

\* What was sent last about a service is what memory holds, on any number of
\* instances: the operations of one instance do not overtake each other.  A
\* step makes them part only when it reloads memory or something fails.
LastSent(i, s) ==
  Writes(i, s) # {} =>
    \E k \in Writes(i, s) :
      /\ sent[i][k].value = services[i][s]
      /\ \A j \in Writes(i, s) : j <= k

PartsOnlyByReloadOrFault ==
  [][\A i \in Instances, s \in Services :
       LastSent(i, s) /\ ~LastSent(i, s)' => LoadSnapshot(i) \/ faults' # faults]_vars

\* The drift job waits for exactly one HGETALL, or holds its reply, until it
\* ends (handleRedisDriftReconciliation() between its awaits): its running
\* flag does not stay set, and no reply to an earlier run is left to a later
\* one, through lost connections and restarts.
Reads(i) == {k \in DOMAIN sent[i] : IsRead(sent[i][k])}

ReloadIsAnswered ==
  \A i \in Instances :
    \/ /\ phase[i] = "idle"
       /\ Reads(i) = {} /\ snapshot[i] = Absent
    \/ /\ phase[i] # "idle"
       /\ Reads(i) = {} /\ snapshot[i] # Absent
    \/ /\ snapshot[i] = Absent
       /\ \E k \in DOMAIN sent[i] :
            /\ Reads(i) = {k}
            /\ phase[i] = IF sent[i][k].caller = "compare" THEN "comparing" ELSE "loading"

\* registry_services_total is the number of services that are not retired,
\* after every operation that changes a status or removes an entry, the
\* rollback of a failed registration included.
GaugeAccurate == \A i \in Instances : gauge[i] = GaugeOf(services[i])

\* Where several instances reload from one Redis, only a load takes the gauge
\* away from the map (loadFromRedis() leaves it alone): no operation, probe,
\* rollback, time-out or crash does.
GaugeLostOnlyByLoad ==
  [][\A i \in Instances :
       gauge[i] = GaugeOf(services[i]) /\ gauge'[i] # GaugeOf(services'[i])
       => LoadSnapshot(i) \/ Boot(i)]_vars

\* As long as nothing fails, Redis never holds a lower major version of a
\* service than before, except after the service was deregistered:
\* validateVersionUpgrade only compares with memory, and what it let through
\* is stored later.
NoDowngrade ==
  [][\A s \in Services :
       NothingFailed' /\ redis[s] # Absent /\ redis'[s] # Absent
       => LET from == Major[redis[s].manifest]
              to == Major[redis'[s].manifest]
          IN from # NoSemver /\ to # NoSemver => to >= from]_vars

\* Redis never takes an older entry of a service over a newer one, whatever
\* timed out, was lost with the connection or was forgotten in a crash: a
\* command whose caller has given up is still executed in its turn.
RedisForward ==
  [][\A s \in Services :
       redis[s] # Absent /\ redis'[s] # Absent
       => redis[s].updatedAt <= redis'[s].updatedAt]_vars

\* What the callers of one instance see of a service is a lifecycle: retired
\* is final unless the service is removed, a deprecated service stays
\* deprecated when it is registered again, and its major version does not go
\* down, also when registrations fail half way.
Lifecycle == INSTANCE ServiceLifecycle WITH
  Services <- Instances \X Services,
  Follows <- LAMBDA new, old : Upgradable(old, new),
  Nothing <- Absent,
  status <- [p \in Instances \X Services |->
               LET e == services[p[1]][p[2]] IN IF e = Absent THEN "absent" ELSE e.status],
  manifest <- [p \in Instances \X Services |->
               LET e == services[p[1]][p[2]] IN IF e = Absent THEN Absent ELSE e.manifest]

KeepsLifecycle == Lifecycle!Spec

\* Once the administrators pause and Redis answers, every connected instance
\* comes to hold every entry of Redis as it is there, whatever was lost or
\* reordered before: the drift job repairs entries.
Converges ==
  <>[](\A i \in Instances, s \in Services :
         mode[i] = "connected" /\ redis[s] # Absent => services[i][s] = redis[s])

-----------------------------------------------------------------------------
\* Claims of the documentation that the code does not keep.

\* registry.service.ts lines 120-121: registration fails "so in-memory and
\* Redis never drift".
NeverDrift ==
  \A i \in Instances :
    mode[i] = "connected" /\ sent[i] = <<>> /\ phase[i] = "idle"
    => services[i] = redis

\* health-monitor.service.ts lines 13-16: on missing keys in either direction
\* the job makes the local memory what Redis holds.
AgreesWithRedis ==
  <>[](\A i \in Instances : mode[i] = "connected" => services[i] = redis)

\* registry.controller.ts line 172: "Permanently retire a service".
RetiredForGood ==
  [][\A i \in Instances, s \in Services :
       /\ services[i][s] # Absent /\ services[i][s].status = "retired"
       /\ services'[i][s] # Absent
       => services'[i][s].status = "retired"]_vars
=============================================================================
