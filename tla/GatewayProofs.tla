---------------------------- MODULE GatewayProofs ----------------------------
(***************************************************************************)
(* Facts about Gateway for any number of instances, services and base      *)
(* URLs, any cron jobs and faults, and any value of the bounds.            *)
(***************************************************************************)
EXTENDS Gateway, RegistryAloneProofs

-----------------------------------------------------------------------------
(* The handlers only watch the registry.                                   *)

\* What a step of the gateway does to the registry is a step of the registry.
LEMMA StepIsRegistryStep == [GatewayNext]_gatewayVars => [Next]_vars
<1> SUFFICES ASSUME [GatewayNext]_gatewayVars PROVE [Next]_vars
  OBVIOUS
<1>1. CASE UNCHANGED gatewayVars
  BY <1>1 DEF gatewayVars
<1>2. ASSUME NEW i \in Instances, NEW n \in Namespaces, NEW caller \in Services,
             NEW s \in Services, Forward(i, n, caller, s)
      PROVE  UNCHANGED vars
  BY <1>2 DEF Forward
<1>3. ASSUME NEW i \in Instances, NEW s \in Services, NEW m \in Manifests,
             NEW t \in 0 .. MaxClock, RegisterHere(i, s, m, t)
      PROVE  Next
  BY <1>3 DEF RegisterHere, Next, Admin
<1>4. ASSUME NEW i \in Instances, ExecuteWriteHere(i) \/ CrashHere(i)
      PROVE  Next
  BY <1>4 DEF ExecuteWriteHere, CrashHere, Next
<1>5. ASSUME NEW i \in Instances, Unnoticed(i)
      PROVE  Next
  BY <1>5 DEF Unnoticed, Next, Admin
<1>6. QED
  BY <1>1, <1>2, <1>3, <1>4, <1>5 DEF GatewayNext

\* The registry below the proxy handlers behaves as the registry alone: what
\* is proved of Registry holds of every gateway.
THEOREM GatewayIsRegistry == GatewaySpec => Spec
<1>1. GatewayInit => Init
  BY DEF GatewayInit
<1>2. QED
  BY <1>1, StepIsRegistryStep, PTL DEF GatewaySpec, Spec

\* Below the handlers of one container, an entry in memory that is newer than
\* the one in Redis is on its way there, whatever reloads beside them.
THEOREM GatewayLosesNoChange ==
  ASSUME Alone
  PROVE  GatewaySpec => []NoUnsavedChange
<1>1. QED
  BY GatewayIsRegistry, NewerEntryIsOnTheWay

\* Below the handlers of one container, Redis takes no older entry of a
\* service over a newer one.
THEOREM GatewayGoesForward ==
  ASSUME Alone
  PROVE  GatewaySpec => RedisForward
<1>1. QED
  BY GatewayIsRegistry, RedisGoesForward

-----------------------------------------------------------------------------
(* Types.                                                                  *)

ProxiesOK ==
  proxies \in [Instances -> [Namespaces -> [Services -> Upstreams \union {Absent}]]]

\* Dropping the proxies of a service keeps their type.
LEMMA NotifyType ==
  ASSUME ProxiesOK, NEW i \in Instances, NEW s \in Services, Notify(i, s)
  PROVE  ProxiesOK'
<1> DEFINE left == [n \in Namespaces |-> [proxies[i][n] EXCEPT ![s] = Absent]]
<1>1. proxies' = [proxies EXCEPT ![i] = left]
  BY DEF Notify
<1>2. left \in [Namespaces -> [Services -> Upstreams \union {Absent}]]
  BY DEF ProxiesOK
<1> HIDE DEF left
<1>3. QED
  BY <1>1, <1>2 DEF ProxiesOK

\* Every step of the gateway keeps the types.
LEMMA GatewayNextType ==
  TypeOK /\ ProxiesOK /\ [GatewayNext]_gatewayVars => ProxiesOK'
<1> SUFFICES ASSUME TypeOK, ProxiesOK, [GatewayNext]_gatewayVars PROVE ProxiesOK'
  OBVIOUS
<1>1. CASE UNCHANGED gatewayVars
  BY <1>1 DEF gatewayVars, ProxiesOK
<1>2. ASSUME NEW i \in Instances, NEW n \in Namespaces, NEW caller \in Services,
             NEW s \in Services, Forward(i, n, caller, s)
      PROVE  ProxiesOK'
  <2>1. services[i][s] \in Entry
    BY <1>2 DEF Forward, Admitted, TypeOK, Hash, Slot
  <2>2. BaseUrl[services[i][s].manifest] \in Upstreams
    BY <2>1, GatewayAssumption DEF Entry
  <2>3. QED
    BY <1>2, <2>2 DEF Forward, ProxiesOK
<1>3. ASSUME NEW i \in Instances, NEW s \in Services, NEW m \in Manifests,
             NEW t \in 0 .. MaxClock, RegisterHere(i, s, m, t)
      PROVE  ProxiesOK'
  BY <1>3, NotifyType DEF RegisterHere, ProxiesOK
<1>4. ASSUME NEW i \in Instances, ExecuteWriteHere(i)
      PROVE  ProxiesOK'
  <2>1. Head(sent[i]).sid \in Services
    BY <1>4, HeadWrite DEF ExecuteWriteHere, ExecuteWrite, Write
  <2>2. QED
    BY <1>4, <2>1, NotifyType DEF ExecuteWriteHere, ProxiesOK
<1>5. ASSUME NEW i \in Instances, CrashHere(i)
      PROVE  ProxiesOK'
  BY <1>5 DEF CrashHere, NoProxy, ProxiesOK
<1>6. ASSUME NEW i \in Instances, Unnoticed(i)
      PROVE  ProxiesOK'
  BY <1>6 DEF Unnoticed, ProxiesOK
<1>7. QED
  BY <1>1, <1>2, <1>3, <1>4, <1>5, <1>6 DEF GatewayNext

\* Every variable of the gateway keeps its type: a cached proxy leads to a
\* base URL of a manifest.
THEOREM GatewayTypeCorrect == GatewaySpec => []GatewayTypeOK
<1>1. GatewayInit => TypeOK /\ ProxiesOK
  BY InitType DEF GatewayInit, NoProxy, ProxiesOK
<1>2. TypeOK /\ ProxiesOK /\ [GatewayNext]_gatewayVars => (TypeOK /\ ProxiesOK)'
  BY GatewayNextType, NextType, StepIsRegistryStep
<1>3. TypeOK /\ ProxiesOK => GatewayTypeOK
  BY DEF GatewayTypeOK, ProxiesOK
<1>4. QED
  BY <1>1, <1>2, <1>3, PTL DEF GatewaySpec

-----------------------------------------------------------------------------
(* A stopped instance.                                                     *)

\* An instance that is down has nothing in memory, runs no drift job and has
\* no proxy: what it caches after its boot is made from what it loaded.
DownInv ==
  \A i \in Instances :
    mode[i] = "down" => /\ \A s \in Services : services[i][s] = Absent
                        /\ phase[i] = "idle"
                        /\ proxies[i] = NoProxy

GatewayInv == TypeOK /\ ProxiesOK /\ DownInv

\* Dropping proxies of an instance without proxies changes nothing.
LEMMA NotifyDown ==
  ASSUME ProxiesOK, NEW i \in Instances, NEW s \in Services, Notify(i, s)
  PROVE  /\ proxies[i] = NoProxy => proxies'[i] = NoProxy
         /\ \A j \in Instances \ {i} : proxies'[j] = proxies[j]
<1> DEFINE left == [n \in Namespaces |-> [proxies[i][n] EXCEPT ![s] = Absent]]
<1>1. proxies' = [proxies EXCEPT ![i] = left]
  BY DEF Notify
<1>2. proxies[i] = NoProxy => left = NoProxy
  BY DEF NoProxy
<1> HIDE DEF left
<1>3. QED
  BY <1>1, <1>2 DEF ProxiesOK

\* A step that puts entries only in place of entries, and starts no job,
\* leaves a stopped instance as it is.
LEMMA DownKept ==
  ASSUME DownInv,
         \A j \in Instances : mode'[j] = "down" =>
           /\ mode[j] = "down"
           /\ \A s \in Services : services[j][s] = Absent => services'[j][s] = Absent
           /\ phase[j] = "idle" => phase'[j] = "idle"
           /\ proxies[j] = NoProxy => proxies'[j] = NoProxy
  PROVE  DownInv'
BY DEF DownInv

\* Memory after one entry was put.
LEMMA PutEffect ==
  ASSUME TypeOK, NEW i \in Instances, NEW s \in Services, NEW e, Put(i, s, e)
  PROVE  \A j \in Instances, r \in Services :
           services'[j][r] = IF j = i /\ r = s THEN e ELSE services[j][r]
BY DEF Put, TypeOK, Hash

\* What the rejection of a command does to the other entries of memory.
LEMMA RejectedKeeps ==
  ASSUME TypeOK, NEW i \in Instances, NEW c \in Write, Rejected(i, c)
  PROVE  /\ \A j \in Instances, s \in Services :
              services'[j][s] # services[j][s] => services'[j][s] = Absent
         /\ c.caller = "update" => services'[i][c.sid] = Absent
<1>1. c.sid \in Services
  BY DEF Write
<1>2. CASE Put(i, c.sid, Absent)
  BY <1>1, <1>2, PutEffect
<1>3. CASE UNCHANGED services /\ c.caller # "update"
  BY <1>3
<1>4. QED
  BY <1>2, <1>3 DEF Rejected

LEMMA DownNext == GatewayInv /\ [GatewayNext]_gatewayVars => DownInv'
<1> SUFFICES ASSUME GatewayInv, [GatewayNext]_gatewayVars PROVE DownInv'
  OBVIOUS
<1> USE DEF GatewayInv
<1>1. CASE UNCHANGED gatewayVars
  BY <1>1 DEF gatewayVars, vars, DownInv
<1>2. ASSUME NEW i \in Instances, NEW n \in Namespaces, NEW caller \in Services,
             NEW s \in Services, Forward(i, n, caller, s)
      PROVE  DownInv'
  <2>1. mode[i] # "down"
    BY <1>2 DEF Forward, Admitted, DownInv
  <2>2. \A j \in Instances \ {i} : proxies'[j] = proxies[j]
    BY <1>2 DEF Forward, ProxiesOK
  <2>3. QED
    BY <1>2, <2>1, <2>2 DEF Forward, vars, DownInv
<1>3. ASSUME NEW i \in Instances, NEW s \in Services, NEW m \in Manifests,
             NEW t \in 0 .. MaxClock, RegisterHere(i, s, m, t)
      PROVE  DownInv'
  <2>1. mode[i] # "down" /\ mode' = mode /\ phase' = phase
    BY <1>3 DEF RegisterHere, Register
  <2>2. \A j \in Instances \ {i} : services'[j] = services[j]
    BY <1>3 DEF RegisterHere, Register, Put, TypeOK
  <2>3. \A j \in Instances \ {i} : proxies'[j] = proxies[j]
    BY <1>3, NotifyDown DEF RegisterHere
  <2>4. QED
    BY <2>1, <2>2, <2>3 DEF DownInv
<1>4. ASSUME NEW i \in Instances, ExecuteWriteHere(i)
      PROVE  DownInv'
  <2>1. UNCHANGED <<mode, services, phase>>
    BY <1>4 DEF ExecuteWriteHere, ExecuteWrite
  <2>2. Head(sent[i]).sid \in Services
    BY <1>4, HeadWrite DEF ExecuteWriteHere, ExecuteWrite, Write
  <2>3. \A j \in Instances : proxies[j] = NoProxy => proxies'[j] = NoProxy
    BY <1>4, <2>2, NotifyDown DEF ExecuteWriteHere
  <2>4. QED
    BY <2>1, <2>3, DownKept
<1>5. ASSUME NEW i \in Instances, CrashHere(i)
      PROVE  DownInv'
  BY <1>5 DEF CrashHere, Crash, DownInv, TypeOK, ProxiesOK
<1>6. ASSUME NEW i \in Instances, Unnoticed(i)
      PROVE  DownInv'
  <2>0. proxies' = proxies
    BY <1>6 DEF Unnoticed
  <2>1. ASSUME NEW s \in Services, NEW t \in 0 .. MaxClock,
               Deprecate(i, s, t) \/ Retire(i, s, t) \/ Activate(i, s, t)
        PROVE  DownInv'
    <3>1. services[i][s] # Absent /\ UNCHANGED <<mode, phase>>
      BY <2>1 DEF Deprecate, Retire, Activate
    <3>2. PICK e : Put(i, s, e)
      BY <2>1 DEF Deprecate, Retire, Activate, Amend
    <3>3. \A j \in Instances, r \in Services :
            services[j][r] = Absent => services'[j][r] = Absent
      BY <3>1, <3>2, PutEffect
    <3>4. QED
      BY <2>0, <3>1, <3>3, DownKept
  <2>2. ASSUME NEW s \in Services, Deregister(i, s)
        PROVE  DownInv'
    <3>1. UNCHANGED <<mode, phase>>
      BY <2>2 DEF Deregister
    <3>2. \A j \in Instances, r \in Services :
            services[j][r] = Absent => services'[j][r] = Absent
      BY <2>2 DEF Deregister, Put, TypeOK, Hash
    <3>3. QED
      BY <2>0, <3>1, <3>2, DownKept
  <2>3. ASSUME NEW s \in Services, NEW h \in BOOLEAN, NEW t \in 0 .. MaxClock,
               ProbeAnswered(i, s, h, t)
        PROVE  DownInv'
    <3>1. UNCHANGED <<mode, phase>>
      BY <2>3 DEF ProbeAnswered
    <3>2. \A j \in Instances, r \in Services :
            services[j][r] = Absent => services'[j][r] = Absent
      <4>1. CASE UNCHANGED services
        BY <4>1
      <4>2. CASE services[i][s] # Absent /\ \E e : Put(i, s, e)
        BY <4>2, PutEffect
      <4>3. QED
        BY <2>3, <4>1, <4>2 DEF ProbeAnswered, SetHealth, Amend
    <3>3. QED
      BY <2>0, <3>1, <3>2, DownKept
  <2>4. CASE StartSweep(i) \/ ExecuteRead(i)
    BY <2>0, <2>4 DEF StartSweep, ExecuteRead, DownInv
  <2>5. CASE StartReconciliation(i) \/ CompareSnapshot(i) \/ LoadSnapshot(i)
    <3>1. mode[i] # "down"
      BY <2>5 DEF StartReconciliation, CompareSnapshot, LoadSnapshot, DownInv
    <3>2. mode' = mode /\ \A j \in Instances \ {i} :
            services'[j] = services[j] /\ phase'[j] = phase[j]
      BY <2>5 DEF StartReconciliation, CompareSnapshot, LoadSnapshot, TypeOK
    <3>3. QED
      BY <2>0, <3>1, <3>2 DEF DownInv
  <2>6. CASE DropWrite(i)
    <3>1. Head(sent[i]) \in Write
      BY <2>6, HeadWrite DEF DropWrite
    <3>2. \A j \in Instances, r \in Services :
            services'[j][r] # services[j][r] => services'[j][r] = Absent
      BY <2>6, <3>1, RejectedKeeps DEF DropWrite
    <3>3. QED
      BY <2>0, <2>6, <3>2, DownKept DEF DropWrite
  <2>7. CASE DropRead(i)
    BY <2>0, <2>7, DownKept DEF DropRead, TypeOK
  <2>8. ASSUME NEW k \in 1 .. (MaxQueue + 1), Timeout(i, k)
        PROVE  DownInv'
    <3>1. sent[i][k] \in Write
      BY <2>8, TimedOutWrite
    <3>2. \A j \in Instances, r \in Services :
            services'[j][r] # services[j][r] => services'[j][r] = Absent
      BY <2>8, <3>1, RejectedKeeps DEF Timeout
    <3>3. QED
      BY <2>0, <2>8, <3>2, DownKept DEF Timeout
  <2>9. CASE Boot(i) \/ BootMemoryOnly(i)
    <3>1. mode'[i] # "down" /\ phase' = phase
      BY <2>9 DEF Boot, BootMemoryOnly, TypeOK
    <3>2. \A j \in Instances \ {i} : services'[j] = services[j] /\ mode'[j] = mode[j]
      BY <2>9 DEF Boot, BootMemoryOnly, TypeOK
    <3>3. QED
      BY <2>0, <3>1, <3>2 DEF DownInv
  <2>10. QED
    BY <1>6, <2>1, <2>2, <2>3, <2>4, <2>5, <2>6, <2>7, <2>8, <2>9 DEF Unnoticed
<1>7. QED
  BY <1>1, <1>2, <1>3, <1>4, <1>5, <1>6 DEF GatewayNext

LEMMA GatewayInvariant == GatewaySpec => []GatewayInv
<1>1. GatewayInit => GatewayInv
  BY InitType DEF GatewayInit, Init, NoProxy, ProxiesOK, GatewayInv, DownInv
<1>2. GatewayInv /\ [GatewayNext]_gatewayVars => GatewayInv'
  BY DownNext, GatewayNextType, NextType, StepIsRegistryStep DEF GatewayInv
<1>3. QED
  BY <1>1, <1>2, PTL DEF GatewaySpec

-----------------------------------------------------------------------------
(* Cached proxies.                                                         *)

\* A register() that replaced s waits for Redis.
UpdateWaits(i, s) == \E k \in Writes(i, s) : sent[i][k].caller = "update"

\* Sending a command leaves those that wait; one of "update" waits itself.
LEMMA SendKeepsUpdate ==
  ASSUME TypeOK, NEW i \in Instances, NEW c \in Command, Send(i, c),
         NEW s \in Services
  PROVE  /\ UpdateWaits(i, s) => UpdateWaits(i, s)'
         /\ mode[i] = "connected" /\ c.caller = "update" /\ c.sid = s
            => UpdateWaits(i, s)'
<1>1. CASE UNCHANGED sent /\ mode[i] # "connected"
  BY <1>1 DEF UpdateWaits, Writes
<1>2. CASE mode[i] = "connected"
  <2>1. sent[i] \in Seq(Command) /\ sent'[i] = Append(sent[i], c)
    BY <1>2 DEF Send, TypeOK
  <2>2. /\ DOMAIN sent'[i] = 1 .. (Len(sent[i]) + 1)
        /\ \A k \in DOMAIN sent[i] : k \in DOMAIN sent'[i] /\ sent'[i][k] = sent[i][k]
        /\ sent'[i][Len(sent[i]) + 1] = c
        /\ Len(sent[i]) + 1 \in DOMAIN sent'[i]
    BY <2>1
  <2>3. UpdateWaits(i, s) => UpdateWaits(i, s)'
    BY <2>2 DEF UpdateWaits, Writes
  <2>4. c.caller = "update" /\ c.sid = s => UpdateWaits(i, s)'
    BY <2>2 DEF UpdateWaits, Writes, IsRead
  <2>5. QED
    BY <2>3, <2>4
<1>3. QED
  BY <1>1, <1>2 DEF Send

\* The loss of the oldest command leaves the others.
LEMMA TailKeepsUpdate ==
  ASSUME TypeOK, NEW i \in Instances, sent[i] # <<>>,
         sent' = [sent EXCEPT ![i] = Tail(@)],
         NEW s \in Services, UpdateWaits(i, s)
  PROVE  \/ UpdateWaits(i, s)'
         \/ /\ ~IsRead(Head(sent[i]))
            /\ Head(sent[i]).sid = s
            /\ Head(sent[i]).caller = "update"
<1>1. sent[i] \in Seq(Command) /\ sent'[i] = Tail(sent[i])
  BY DEF TypeOK
<1>2. PICK k \in DOMAIN sent[i] : /\ ~IsRead(sent[i][k])
                                 /\ sent[i][k].sid = s
                                 /\ sent[i][k].caller = "update"
  BY DEF UpdateWaits, Writes
<1>3. CASE k = 1
  <2>1. Head(sent[i]) = sent[i][1]
    BY <1>1
  <2>2. QED
    BY <1>2, <1>3, <2>1
<1>4. CASE k # 1
  <2> DEFINE len == Len(sent[i])
  <2>1. /\ k \in 1 .. len /\ len \in Nat
        /\ DOMAIN sent'[i] = 1 .. (len - 1)
        /\ \A l \in 1 .. (len - 1) : sent'[i][l] = sent[i][l + 1]
    <3>1. /\ Len(Tail(sent[i])) = len - 1
          /\ \A l \in 1 .. (len - 1) : Tail(sent[i])[l] = sent[i][l + 1]
      BY <1>1
    <3>2. Tail(sent[i]) \in Seq(Command) /\ len \in Nat /\ k \in 1 .. len
      BY <1>1, <1>2
    <3>3. DOMAIN Tail(sent[i]) = 1 .. (len - 1)
      BY <3>1, <3>2
    <3>4. QED
      BY <1>1, <3>1, <3>2, <3>3
  <2> HIDE DEF len
  <2>2. k - 1 \in 1 .. (len - 1) /\ (k - 1) + 1 = k
    BY <1>4, <2>1
  <2>3. sent'[i][k - 1] = sent[i][(k - 1) + 1]
    BY <2>1, <2>2
  <2>4. k - 1 \in DOMAIN sent'[i] /\ sent'[i][k - 1] = sent[i][k]
    BY <2>1, <2>2, <2>3
  <2>5. QED
    BY <1>2, <2>4 DEF UpdateWaits, Writes
<1>5. QED
  BY <1>3, <1>4

\* A time-out leaves the commands that others await.
LEMMA TimeoutKeepsUpdate ==
  ASSUME TypeOK, NEW i \in Instances, NEW k \in 1 .. (MaxQueue + 1), Timeout(i, k),
         NEW s \in Services, UpdateWaits(i, s)
  PROVE  \/ UpdateWaits(i, s)'
         \/ sent[i][k].sid = s /\ sent[i][k].caller = "update"
<1> DEFINE c == [sent[i][k] EXCEPT !.caller = "none"]
<1>1. sent[i] \in Seq(Command) /\ k \in DOMAIN sent[i]
  BY DEF Timeout, TypeOK
<1>2. sent'[i] = [sent[i] EXCEPT ![k] = c]
  BY DEF Timeout, TypeOK
<1> HIDE DEF c
<1>3. PICK j \in DOMAIN sent[i] : /\ ~IsRead(sent[i][j])
                                 /\ sent[i][j].sid = s
                                 /\ sent[i][j].caller = "update"
  BY DEF UpdateWaits, Writes
<1>4. CASE j = k
  BY <1>3, <1>4
<1>5. CASE j # k
  <2>1. j \in DOMAIN sent'[i] /\ sent'[i][j] = sent[i][j]
    BY <1>1, <1>2, <1>3, <1>5
  <2>2. QED
    BY <1>3, <2>1 DEF UpdateWaits, Writes
<1>6. QED
  BY <1>4, <1>5

\* What is shown of every step, for one proxy.
StaysCurrent(i, n, s) ==
  Current(i, n, s) /\ ~Current(i, n, s)'
  => services'[i][s] = Absent \/ LoadSnapshot(i)

\* A step that changes neither the proxy nor the manifest, and leaves a
\* waiting register() waiting, or removes the entry.
LEMMA QuietStep ==
  ASSUME NEW i \in Instances, NEW n \in Namespaces, NEW s \in Services,
         proxies'[i][n][s] = proxies[i][n][s],
         services[i][s] # Absent /\ services'[i][s] # Absent
         => services'[i][s].manifest = services[i][s].manifest,
         UpdateWaits(i, s) => UpdateWaits(i, s)' \/ services'[i][s] = Absent
  PROVE  StaysCurrent(i, n, s)
<1> SUFFICES ASSUME Current(i, n, s), services'[i][s] # Absent
             PROVE  Current(i, n, s)'
  BY DEF StaysCurrent
<1>1. CASE UpdateWaits(i, s)
  BY <1>1 DEF Current, UpdateWaits
<1>2. CASE proxies[i][n][s] = Absent
  BY <1>2 DEF Current
<1>3. CASE services[i][s] # Absent /\ proxies[i][n][s] = BaseUrl[services[i][s].manifest]
  BY <1>3 DEF Current
<1>4. QED
  BY <1>1, <1>2, <1>3 DEF Current, UpdateWaits

\* What another instance does is not noticed.
LEMMA ElsewhereStep ==
  ASSUME NEW i \in Instances, NEW n \in Namespaces, NEW s \in Services,
         proxies'[i] = proxies[i], services'[i] = services[i], sent'[i] = sent[i]
  PROVE  StaysCurrent(i, n, s)
<1>1. UpdateWaits(i, s) => UpdateWaits(i, s)'
  BY DEF UpdateWaits, Writes
<1>2. QED
  BY <1>1, QuietStep

\* A proxy that was dropped is current.
LEMMA DroppedStep ==
  ASSUME NEW i \in Instances, NEW n \in Namespaces, NEW s \in Services,
         proxies'[i][n][s] = Absent
  PROVE  StaysCurrent(i, n, s)
BY DEF StaysCurrent, Current

\* Notify drops the proxies of its service in both namespaces, and no other.
LEMMA NotifyEffect ==
  ASSUME ProxiesOK, NEW i \in Instances, NEW r \in Services, Notify(i, r)
  PROVE  \A n \in Namespaces, s \in Services :
           proxies'[i][n][s] = IF s = r THEN Absent ELSE proxies[i][n][s]
<1> DEFINE left == [n \in Namespaces |-> [proxies[i][n] EXCEPT ![r] = Absent]]
<1>1. proxies' = [proxies EXCEPT ![i] = left]
  BY DEF Notify
<1>2. proxies'[i] = left
  BY <1>1 DEF ProxiesOK
<1>3. QED
  BY <1>2 DEF ProxiesOK

-----------------------------------------------------------------------------
(* Each step of the gateway, for a proxy of the instance that takes it.    *)

\* A forwarded request makes a proxy to where the entry says.
LEMMA ForwardCurrent ==
  ASSUME GatewayInv, NEW i \in Instances, NEW m \in Namespaces, NEW caller \in Services,
         NEW r \in Services, Forward(i, m, caller, r),
         NEW n \in Namespaces, NEW s \in Services
  PROVE  StaysCurrent(i, n, s)
<1>1. UNCHANGED <<services, sent>>
  BY DEF Forward, vars
<1>2. CASE proxies'[i][n][s] = proxies[i][n][s]
  <2>1. UpdateWaits(i, s) => UpdateWaits(i, s)'
    BY <1>1 DEF UpdateWaits, Writes
  <2>2. QED
    BY <1>1, <1>2, <2>1, QuietStep
<1>3. CASE proxies'[i][n][s] # proxies[i][n][s]
  <2>1. services[i][r] # Absent
    BY DEF Forward, Admitted
  <2> DEFINE url == BaseUrl[services[i][r].manifest]
  <2>2. \/ proxies' = proxies
        \/ proxies' = [proxies EXCEPT ![i][m][r] = url]
    BY DEF Forward
  <2> HIDE DEF url
  <2>3. r = s /\ proxies'[i][n][s] = url
    BY <1>3, <2>2 DEF GatewayInv, ProxiesOK
  <2>4. Current(i, n, s)'
    BY <1>1, <2>1, <2>3 DEF Current, url
  <2>5. QED
    BY <2>4 DEF StaysCurrent
<1>4. QED
  BY <1>2, <1>3

\* register() either waits for Redis or drops the proxies itself.
LEMMA RegisterCurrent ==
  ASSUME GatewayInv, NEW i \in Instances, NEW r \in Services, NEW m \in Manifests,
         NEW t \in 0 .. MaxClock, RegisterHere(i, r, m, t),
         NEW n \in Namespaces, NEW s \in Services
  PROVE  StaysCurrent(i, n, s)
<1> DEFINE entry == NewEntry(services[i][r], m, t)
           who == IF services[i][r] = Absent THEN "register" ELSE "update"
           c == [sid |-> r, value |-> entry, caller |-> who]
<1>1. /\ TypeOK /\ ProxiesOK
      /\ Put(i, r, entry) /\ Send(i, c)
      /\ mode[i] \in {"connected", "memoryOnly"}
  BY DEF RegisterHere, Register, GatewayInv, TypeOK
<1>2. c \in Command
  <2>1. entry \in Slot
    BY DEF NewEntry, Entry, Slot, Status
  <2>2. who \in Strict \union {"none"}
    BY DEF Strict
  <2> HIDE DEF entry, who
  <2>3. QED
    BY <2>1, <2>2, WriteType
<1>3. c.sid = r /\ c.caller = who
  OBVIOUS
<1> HIDE DEF entry, c
<1>4. \A p \in Services : p # r => services'[i][p] = services[i][p]
  BY <1>1, PutEffect
<1>5. UpdateWaits(i, s) => UpdateWaits(i, s)'
  BY <1>1, <1>2, SendKeepsUpdate
<1>6. CASE s # r
  <2>1. proxies'[i][n][s] = proxies[i][n][s]
    BY <1>1, <1>6, NotifyEffect DEF RegisterHere
  <2>2. QED
    BY <1>4, <1>5, <1>6, <2>1, QuietStep
<1>7. CASE s = r /\ services[i][r] = Absent
  BY <1>5, <1>7, QuietStep DEF RegisterHere
<1>8. CASE s = r /\ services[i][r] # Absent /\ mode[i] = "memoryOnly"
  BY <1>1, <1>8, NotifyEffect, DroppedStep DEF RegisterHere
<1>9. CASE s = r /\ services[i][r] # Absent /\ mode[i] = "connected"
  <2>1. UpdateWaits(i, s)'
    BY <1>1, <1>2, <1>3, <1>9, SendKeepsUpdate
  <2>2. QED
    BY <2>1 DEF StaysCurrent, Current, UpdateWaits
<1>10. QED
  BY <1>1, <1>6, <1>7, <1>8, <1>9

\* The answer of Redis to a waiting register() drops the proxies.
LEMMA ExecuteWriteCurrent ==
  ASSUME GatewayInv, NEW i \in Instances, ExecuteWriteHere(i),
         NEW n \in Namespaces, NEW s \in Services
  PROVE  StaysCurrent(i, n, s)
<1> DEFINE c == Head(sent[i])
<1>1. /\ TypeOK /\ ProxiesOK
      /\ sent[i] # <<>> /\ ~IsRead(c)
      /\ services' = services
      /\ sent' = [sent EXCEPT ![i] = Tail(@)]
  BY DEF ExecuteWriteHere, ExecuteWrite, GatewayInv
<1>2. c.sid \in Services
  BY <1>1, HeadWrite DEF Write
<1>3. IF c.caller = "update" THEN Notify(i, c.sid) ELSE UNCHANGED proxies
  BY DEF ExecuteWriteHere
<1>4. UpdateWaits(i, s) => UpdateWaits(i, s)' \/ (c.sid = s /\ c.caller = "update")
  BY <1>1, TailKeepsUpdate
<1> HIDE DEF c
<1>5. CASE c.caller = "update" /\ c.sid = s
  BY <1>1, <1>2, <1>3, <1>5, NotifyEffect, DroppedStep
<1>6. CASE ~(c.caller = "update" /\ c.sid = s)
  <2>1. proxies'[i][n][s] = proxies[i][n][s]
    BY <1>1, <1>2, <1>3, <1>6, NotifyEffect
  <2>2. QED
    BY <1>1, <1>4, <1>6, <2>1, QuietStep
<1>7. QED
  BY <1>5, <1>6

\* A crash empties the cache.
LEMMA CrashCurrent ==
  ASSUME GatewayInv, NEW i \in Instances, CrashHere(i),
         NEW n \in Namespaces, NEW s \in Services
  PROVE  StaysCurrent(i, n, s)
<1>1. proxies'[i] = NoProxy
  BY DEF CrashHere, GatewayInv, ProxiesOK
<1>2. QED
  BY <1>1, DroppedStep DEF NoProxy

\* The lifecycle operations and the health sweep keep the manifest.
LEMMA AmendCurrent ==
  ASSUME GatewayInv, NEW i \in Instances, NEW r \in Services, NEW e \in Entry,
         services[i][r] # Absent, e.manifest = services[i][r].manifest, Amend(i, r, e),
         UNCHANGED proxies, NEW n \in Namespaces, NEW s \in Services
  PROVE  StaysCurrent(i, n, s)
<1>1. TypeOK /\ Put(i, r, e)
  BY DEF GatewayInv, Amend
<1>2. [sid |-> r, value |-> e, caller |-> "none"] \in Command
  BY WriteType DEF Slot
<1>3. UpdateWaits(i, s) => UpdateWaits(i, s)'
  BY <1>1, <1>2, SendKeepsUpdate DEF Amend
<1>4. services'[i][s] = IF s = r THEN e ELSE services[i][s]
  BY <1>1, PutEffect
<1>5. QED
  BY <1>3, <1>4, QuietStep

LEMMA LifecycleCurrent ==
  ASSUME GatewayInv, NEW i \in Instances, NEW r \in Services, NEW t \in 0 .. MaxClock,
         Deprecate(i, r, t) \/ Retire(i, r, t) \/ Activate(i, r, t),
         UNCHANGED proxies, NEW n \in Namespaces, NEW s \in Services
  PROVE  StaysCurrent(i, n, s)
<1>1. TypeOK /\ services[i][r] # Absent
  BY DEF GatewayInv, Deprecate, Retire, Activate
<1>2. ASSUME NEW x \in Status,
             Amend(i, r, [services[i][r] EXCEPT !.status = x, !.updatedAt = t])
      PROVE  StaysCurrent(i, n, s)
  <2> DEFINE e == [services[i][r] EXCEPT !.status = x, !.updatedAt = t]
  <2>1. e \in Entry /\ e.manifest = services[i][r].manifest
    <3>1. services[i][r] \in Entry
      BY <1>1 DEF TypeOK, Hash, Slot
    <3>2. QED
      BY <3>1 DEF Entry
  <2>2. Amend(i, r, e)
    BY <1>2
  <2> HIDE DEF e
  <2>3. QED
    BY <1>1, <2>1, <2>2, AmendCurrent
<1>3. QED
  BY <1>2 DEF Deprecate, Retire, Activate, Status

LEMMA ProbeCurrent ==
  ASSUME GatewayInv, NEW i \in Instances, NEW r \in Services, NEW h \in BOOLEAN,
         NEW t \in 0 .. MaxClock, ProbeAnswered(i, r, h, t),
         UNCHANGED proxies, NEW n \in Namespaces, NEW s \in Services
  PROVE  StaysCurrent(i, n, s)
<1>1. TypeOK
  BY DEF GatewayInv
<1>2. CASE UNCHANGED <<services, sent>>
  BY <1>2, ElsewhereStep
<1>3. CASE /\ services[i][r] # Absent
           /\ Amend(i, r, [services[i][r] EXCEPT !.healthy = h, !.updatedAt = t])
  <2> DEFINE e == [services[i][r] EXCEPT !.healthy = h, !.updatedAt = t]
  <2>1. e \in Entry /\ e.manifest = services[i][r].manifest
    <3>1. services[i][r] \in Entry
      BY <1>1, <1>3 DEF TypeOK, Hash, Slot
    <3>2. QED
      BY <3>1 DEF Entry
  <2>2. Amend(i, r, e)
    BY <1>3
  <2> HIDE DEF e
  <2>3. QED
    BY <1>3, <2>1, <2>2, AmendCurrent
<1>4. QED
  BY <1>2, <1>3 DEF ProbeAnswered, SetHealth

LEMMA DeregisterCurrent ==
  ASSUME GatewayInv, NEW i \in Instances, NEW r \in Services, Deregister(i, r),
         UNCHANGED proxies, NEW n \in Namespaces, NEW s \in Services
  PROVE  StaysCurrent(i, n, s)
<1>1. TypeOK /\ Put(i, r, Absent)
  BY DEF GatewayInv, Deregister
<1>2. [sid |-> r, value |-> Absent, caller |-> "deregister"] \in Command
  BY DEF Command, Write, Strict, Slot
<1>3. UpdateWaits(i, s) => UpdateWaits(i, s)'
  BY <1>1, <1>2, SendKeepsUpdate DEF Deregister
<1>4. services'[i][s] = IF s = r THEN Absent ELSE services[i][s]
  BY <1>1, PutEffect
<1>5. QED
  BY <1>3, <1>4, QuietStep

\* The drift job only reads, except when it loads.
LEMMA DriftCurrent ==
  ASSUME GatewayInv, NEW i \in Instances,
         \/ StartReconciliation(i)
         \/ CompareSnapshot(i)
         \/ LoadSnapshot(i)
         \/ ExecuteRead(i)
         \/ DropRead(i),
         UNCHANGED proxies, NEW n \in Namespaces, NEW s \in Services
  PROVE  StaysCurrent(i, n, s)
<1>1. TypeOK
  BY DEF GatewayInv
<1>2. CASE LoadSnapshot(i)
  BY <1>2 DEF StaysCurrent
<1>3. CASE /\ services' = services
           /\ sent[i] # <<>> /\ IsRead(Head(sent[i]))
           /\ sent' = [sent EXCEPT ![i] = Tail(@)]
  <2>1. UpdateWaits(i, s) => UpdateWaits(i, s)'
    BY <1>1, <1>3, TailKeepsUpdate
  <2>2. QED
    BY <1>3, <2>1, QuietStep
<1>4. CASE services' = services /\ \E k \in {"compare", "load"} : Send(i, [caller |-> k])
  <2>1. PICK k \in {"compare", "load"} : Send(i, [caller |-> k])
    BY <1>4
  <2>2. [caller |-> k] \in Command
    BY DEF Command, Read
  <2>3. UpdateWaits(i, s) => UpdateWaits(i, s)'
    BY <1>1, <2>1, <2>2, SendKeepsUpdate
  <2>4. QED
    BY <1>4, <2>3, QuietStep
<1>5. CASE UNCHANGED <<services, sent>>
  BY <1>5, ElsewhereStep
<1>6. QED
  BY <1>2, <1>3, <1>4, <1>5 DEF StartReconciliation, CompareSnapshot, ExecuteRead, DropRead

\* A register() that fails takes the entry out of memory.
LEMMA RejectedCurrent ==
  ASSUME GatewayInv, NEW i \in Instances, NEW c \in Write, Rejected(i, c),
         UNCHANGED proxies, NEW n \in Namespaces, NEW s \in Services,
         UpdateWaits(i, s) => UpdateWaits(i, s)' \/ (c.sid = s /\ c.caller = "update")
  PROVE  StaysCurrent(i, n, s)
<1>1. TypeOK
  BY DEF GatewayInv
<1>2. /\ services'[i][s] # services[i][s] => services'[i][s] = Absent
      /\ c.caller = "update" => services'[i][c.sid] = Absent
  BY <1>1, RejectedKeeps
<1>3. QED
  BY <1>2, QuietStep

LEMMA FailedWriteCurrent ==
  ASSUME GatewayInv, NEW i \in Instances,
         DropWrite(i) \/ \E k \in 1 .. (MaxQueue + 1) : Timeout(i, k),
         UNCHANGED proxies, NEW n \in Namespaces, NEW s \in Services
  PROVE  StaysCurrent(i, n, s)
<1>1. TypeOK
  BY DEF GatewayInv
<1>2. CASE DropWrite(i)
  <2>1. /\ sent[i] # <<>> /\ ~IsRead(Head(sent[i]))
        /\ sent' = [sent EXCEPT ![i] = Tail(@)]
        /\ Rejected(i, Head(sent[i]))
    BY <1>2 DEF DropWrite
  <2>2. Head(sent[i]) \in Write
    BY <1>1, <2>1, HeadWrite
  <2>3. UpdateWaits(i, s)
        => UpdateWaits(i, s)' \/ (Head(sent[i]).sid = s /\ Head(sent[i]).caller = "update")
    BY <1>1, <2>1, TailKeepsUpdate
  <2>4. QED
    BY <2>1, <2>2, <2>3, RejectedCurrent
<1>3. ASSUME NEW k \in 1 .. (MaxQueue + 1), Timeout(i, k)
      PROVE  StaysCurrent(i, n, s)
  <2>1. sent[i][k] \in Write /\ Rejected(i, sent[i][k])
    BY <1>1, <1>3, TimedOutWrite DEF Timeout
  <2>2. UpdateWaits(i, s)
        => UpdateWaits(i, s)' \/ (sent[i][k].sid = s /\ sent[i][k].caller = "update")
    BY <1>1, <1>3, TimeoutKeepsUpdate
  <2>3. QED
    BY <2>1, <2>2, RejectedCurrent
<1>4. QED
  BY <1>2, <1>3

\* Nothing is cached when an instance boots.
LEMMA BootCurrent ==
  ASSUME GatewayInv, NEW i \in Instances, Boot(i) \/ BootMemoryOnly(i),
         UNCHANGED proxies, NEW n \in Namespaces, NEW s \in Services
  PROVE  StaysCurrent(i, n, s)
<1>1. proxies[i] = NoProxy
  BY DEF GatewayInv, DownInv, Boot, BootMemoryOnly
<1>2. QED
  BY <1>1, DroppedStep DEF NoProxy

\* Every step that an instance takes.
LEMMA OwnStepCurrent ==
  ASSUME GatewayInv, NEW i \in Instances, NEW n \in Namespaces, NEW s \in Services,
         \/ \E m \in Namespaces : \E caller, r \in Services : Forward(i, m, caller, r)
         \/ \E r \in Services, m \in Manifests, t \in 0 .. MaxClock : RegisterHere(i, r, m, t)
         \/ ExecuteWriteHere(i)
         \/ CrashHere(i)
         \/ Unnoticed(i)
  PROVE  StaysCurrent(i, n, s)
<1>1. CASE Unnoticed(i)
  <2>1. UNCHANGED proxies
    BY <1>1 DEF Unnoticed
  <2>2. CASE StartSweep(i)
    BY <2>1, <2>2, ElsewhereStep DEF StartSweep
  <2>3. QED
    BY <1>1, <2>1, <2>2, LifecycleCurrent, ProbeCurrent, DeregisterCurrent, DriftCurrent,
       FailedWriteCurrent, BootCurrent DEF Unnoticed
<1>2. QED
  BY <1>1, ForwardCurrent, RegisterCurrent, ExecuteWriteCurrent, CrashCurrent

\* A step of one instance changes nothing of another.
LEMMA OthersUntouched ==
  ASSUME GatewayInv, NEW i \in Instances,
         \/ \E m \in Namespaces : \E caller, r \in Services : Forward(i, m, caller, r)
         \/ \E r \in Services, m \in Manifests, t \in 0 .. MaxClock : RegisterHere(i, r, m, t)
         \/ ExecuteWriteHere(i)
         \/ CrashHere(i)
         \/ Unnoticed(i),
         NEW j \in Instances \ {i}
  PROVE  proxies'[j] = proxies[j] /\ services'[j] = services[j] /\ sent'[j] = sent[j]
<1>1. TypeOK /\ ProxiesOK
  BY DEF GatewayInv
<1>2. ASSUME NEW m \in Namespaces, NEW caller \in Services, NEW r \in Services,
             Forward(i, m, caller, r)
      PROVE  proxies'[j] = proxies[j] /\ services'[j] = services[j] /\ sent'[j] = sent[j]
  BY <1>1, <1>2 DEF Forward, vars, ProxiesOK
<1>3. ASSUME NEW r \in Services, NEW m \in Manifests, NEW t \in 0 .. MaxClock,
             RegisterHere(i, r, m, t)
      PROVE  proxies'[j] = proxies[j] /\ services'[j] = services[j] /\ sent'[j] = sent[j]
  <2>1. proxies'[j] = proxies[j]
    BY <1>1, <1>3, NotifyDown DEF RegisterHere
  <2>2. services'[j] = services[j] /\ sent'[j] = sent[j]
    BY <1>1, <1>3 DEF RegisterHere, Register, Put, Send, TypeOK
  <2>3. QED
    BY <2>1, <2>2
<1>4. CASE ExecuteWriteHere(i)
  <2>1. Head(sent[i]).sid \in Services
    BY <1>1, <1>4, HeadWrite DEF ExecuteWriteHere, ExecuteWrite, Write
  <2>2. proxies'[j] = proxies[j]
    BY <1>1, <1>4, <2>1, NotifyDown DEF ExecuteWriteHere
  <2>3. services'[j] = services[j] /\ sent'[j] = sent[j]
    BY <1>1, <1>4 DEF ExecuteWriteHere, ExecuteWrite, TypeOK
  <2>4. QED
    BY <2>2, <2>3
<1>5. CASE CrashHere(i)
  BY <1>1, <1>5 DEF CrashHere, Crash, TypeOK, ProxiesOK
<1>6. CASE Unnoticed(i)
  <2>1. proxies' = proxies
    BY <1>6 DEF Unnoticed
  <2>2. ASSUME NEW r \in Services, NEW e, Amend(i, r, e)
        PROVE  services'[j] = services[j] /\ sent'[j] = sent[j]
    BY <1>1, <2>2 DEF Amend, Put, Send, TypeOK
  <2>3. ASSUME NEW r \in Services, NEW t \in 0 .. MaxClock,
               Deprecate(i, r, t) \/ Retire(i, r, t) \/ Activate(i, r, t)
        PROVE  services'[j] = services[j] /\ sent'[j] = sent[j]
    <3>1. PICK e : Amend(i, r, e)
      BY <2>3 DEF Deprecate, Retire, Activate
    <3>2. QED
      BY <3>1, <2>2
  <2>4. ASSUME NEW r \in Services, NEW h \in BOOLEAN, NEW t \in 0 .. MaxClock,
               ProbeAnswered(i, r, h, t)
        PROVE  services'[j] = services[j] /\ sent'[j] = sent[j]
    <3>1. UNCHANGED <<services, sent>> \/ \E e : Amend(i, r, e)
      BY <2>4 DEF ProbeAnswered, SetHealth
    <3>2. QED
      BY <3>1, <2>2
  <2>5. ASSUME NEW r \in Services, Deregister(i, r)
        PROVE  services'[j] = services[j] /\ sent'[j] = sent[j]
    BY <1>1, <2>5 DEF Deregister, Put, Send, TypeOK
  <2>6. CASE \/ StartSweep(i)
             \/ StartReconciliation(i)
             \/ CompareSnapshot(i)
             \/ LoadSnapshot(i)
             \/ ExecuteRead(i)
             \/ DropRead(i)
             \/ Boot(i)
             \/ BootMemoryOnly(i)
    BY <1>1, <2>1, <2>6 DEF StartSweep, StartReconciliation, CompareSnapshot, LoadSnapshot,
       ExecuteRead, DropRead, Boot, BootMemoryOnly, Send, TypeOK
  <2>7. ASSUME NEW c, Rejected(i, c)
        PROVE  services'[j] = services[j]
    BY <1>1, <2>7 DEF Rejected, Put, TypeOK
  <2>8. CASE DropWrite(i)
    BY <1>1, <2>1, <2>7, <2>8 DEF DropWrite, TypeOK
  <2>9. ASSUME NEW k \in 1 .. (MaxQueue + 1), Timeout(i, k)
        PROVE  services'[j] = services[j] /\ sent'[j] = sent[j]
    <3>1. services'[j] = services[j]
      BY <2>7, <2>9 DEF Timeout
    <3>2. PICK v : sent' = [sent EXCEPT ![i] = v]
      BY <2>9 DEF Timeout
    <3>3. QED
      BY <1>1, <3>1, <3>2 DEF TypeOK
  <2>10. QED
    BY <1>6, <2>1, <2>3, <2>4, <2>5, <2>6, <2>8, <2>9 DEF Unnoticed
<1>7. QED
  BY <1>2, <1>3, <1>4, <1>5, <1>6

\* However registrations, requests, time-outs and lost connections overlap,
\* on any number of instances, a cached proxy stops leading where the entry
\* in memory says only when the entry was removed, or replaced by a reload.
THEOREM RoutesFollowRegistrations == GatewaySpec => StaleOnlyByRemovalOrReload
<1>1. ASSUME GatewayInv, [GatewayNext]_gatewayVars,
             NEW j \in Instances, NEW n \in Namespaces, NEW s \in Services
      PROVE  StaysCurrent(j, n, s)
  <2>1. CASE UNCHANGED gatewayVars
    BY <2>1, ElsewhereStep DEF gatewayVars, vars
  <2>2. CASE GatewayNext
    <3>1. PICK i \in Instances :
            \/ \E m \in Namespaces : \E caller, r \in Services : Forward(i, m, caller, r)
            \/ \E r \in Services, m \in Manifests, t \in 0 .. MaxClock :
                 RegisterHere(i, r, m, t)
            \/ ExecuteWriteHere(i)
            \/ CrashHere(i)
            \/ Unnoticed(i)
      BY <2>2 DEF GatewayNext
    <3>2. CASE i = j
      BY <1>1, <3>1, <3>2, OwnStepCurrent
    <3>3. CASE i # j
      BY <1>1, <3>1, <3>3, OthersUntouched, ElsewhereStep
    <3>4. QED
      BY <3>2, <3>3
  <2>3. QED
    BY <1>1, <2>1, <2>2
<1>2. GatewayInv /\ [GatewayNext]_gatewayVars
      => [\A i \in Instances, n \in Namespaces, s \in Services :
            Current(i, n, s) /\ ~Current(i, n, s)'
            => services'[i][s] = Absent \/ LoadSnapshot(i)]_gatewayVars
  BY <1>1 DEF StaysCurrent
<1>3. QED
  BY <1>2, GatewayInvariant, PTL DEF GatewaySpec, StaleOnlyByRemovalOrReload
=============================================================================
