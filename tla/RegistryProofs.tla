---------------------------- MODULE RegistryProofs ----------------------------
(***************************************************************************)
(* Facts about Registry for any number of instances and services, any      *)
(* manifests, any cron jobs and faults, and any value of the bounds.       *)
(***************************************************************************)
EXTENDS Registry, FiniteSetTheorems, TLAPS

-----------------------------------------------------------------------------
(* Types.                                                                  *)

\* The gauge counts a subset of the services.
LEMMA GaugeIsNat ==
  ASSUME NEW map
  PROVE  GaugeOf(map) \in Nat
<1>1. Routable(map) \subseteq Services
  BY DEF Routable
<1>2. IsFiniteSet(Routable(map))
  BY <1>1, RegistryAssumption, FS_Subset
<1>3. QED
  BY <1>2, FS_CardinalityType DEF GaugeOf

\* Queueing a command keeps the type of the connections.
LEMMA SendType ==
  ASSUME TypeOK, NEW i \in Instances, NEW c \in Command, Send(i, c)
  PROVE  sent' \in [Instances -> Seq(Command)]
<1>1. Append(sent[i], c) \in Seq(Command)
  BY DEF TypeOK
<1>2. QED
  BY <1>1 DEF Send, TypeOK

\* So does executing or losing the oldest one.
LEMMA TailType ==
  ASSUME TypeOK, NEW i \in Instances, sent[i] # <<>>,
         sent' = [sent EXCEPT ![i] = Tail(@)]
  PROVE  sent' \in [Instances -> Seq(Command)]
<1>1. Tail(sent[i]) \in Seq(Command)
  BY DEF TypeOK
<1>2. QED
  BY <1>1 DEF TypeOK

\* Storing an entry, or none, in memory keeps the type of the memories.
LEMMA PutType ==
  ASSUME TypeOK, NEW i \in Instances, NEW s \in Services, NEW e \in Slot, Put(i, s, e)
  PROVE  services' \in [Instances -> Hash]
BY DEF Put, TypeOK, Hash

LEMMA SyncGaugeType ==
  ASSUME TypeOK, NEW i \in Instances, SyncGauge(i)
  PROVE  gauge' \in [Instances -> Nat]
<1>1. GaugeOf(services'[i]) \in Nat
  BY GaugeIsNat
<1>2. QED
  BY <1>1 DEF SyncGauge, TypeOK

\* A stamp is a time of the model and becomes the clock.
LEMMA StampType ==
  ASSUME TypeOK, NEW t \in 0 .. MaxClock, Stamp(t)
  PROVE  clock' \in 0 .. MaxClock /\ clock' = t
BY DEF Stamp, TypeOK

LEMMA WriteType ==
  ASSUME NEW s \in Services, NEW v \in Slot, NEW c \in Strict \union {"none"}
  PROVE  [sid |-> s, value |-> v, caller |-> c] \in Command
BY DEF Command, Write

LEMMA AmendType ==
  ASSUME TypeOK, NEW i \in Instances, NEW s \in Services, NEW e \in Slot, Amend(i, s, e)
  PROVE  /\ services' \in [Instances -> Hash]
         /\ sent' \in [Instances -> Seq(Command)]
<1>1. [sid |-> s, value |-> e, caller |-> "none"] \in Command
  BY WriteType
<1>2. QED
  BY <1>1, SendType, PutType DEF Amend

LEMMA InitType == Init => TypeOK
BY RegistryAssumption DEF Init, TypeOK, Hash, Slot

LEMMA RegisterType ==
  ASSUME TypeOK, NEW i \in Instances, NEW s \in Services, NEW m \in Manifests,
         NEW t \in 0 .. MaxClock, Register(i, s, m, t)
  PROVE  TypeOK'
<1> DEFINE old == services[i][s]
           entry == NewEntry(old, m, t)
           caller == IF old = Absent THEN "register" ELSE "update"
<1>1. entry \in Entry /\ entry \in Slot
  BY DEF NewEntry, Entry, Slot, Status
<1>2. [sid |-> s, value |-> entry, caller |-> caller] \in Command
  BY <1>1 DEF Command, Write, Strict
<1>3. sent' \in [Instances -> Seq(Command)]
  BY <1>2, SendType DEF Register
<1>4. services' \in [Instances -> Hash]
  BY <1>1, PutType DEF Register
<1>5. gauge' \in [Instances -> Nat]
  BY SyncGaugeType DEF Register
<1>6. clock' \in 0 .. MaxClock
  BY StampType DEF Register
<1>7. QED
  BY <1>3, <1>4, <1>5, <1>6 DEF Register, TypeOK

LEMMA DeregisterType ==
  ASSUME TypeOK, NEW i \in Instances, NEW s \in Services, Deregister(i, s)
  PROVE  TypeOK'
<1>1. [sid |-> s, value |-> Absent, caller |-> "deregister"] \in Command
  BY DEF Command, Write, Strict, Slot
<1>2. sent' \in [Instances -> Seq(Command)]
  BY <1>1, SendType DEF Deregister
<1>3. services' \in [Instances -> Hash]
  BY PutType DEF Deregister, Slot
<1>4. gauge' \in [Instances -> Nat]
  BY SyncGaugeType DEF Deregister
<1>5. QED
  BY <1>2, <1>3, <1>4 DEF Deregister, TypeOK

\* The amended entries of the lifecycle operations and of setHealthStatus().
LEMMA AmendedEntry ==
  ASSUME TypeOK, NEW i \in Instances, NEW s \in Services, NEW t \in 0 .. MaxClock,
         services[i][s] # Absent
  PROVE  /\ \A x \in Status :
              [services[i][s] EXCEPT !.status = x, !.updatedAt = t] \in Slot
         /\ \A h \in BOOLEAN :
              [services[i][s] EXCEPT !.healthy = h, !.updatedAt = t] \in Slot
<1>1. services[i][s] \in Entry
  BY DEF TypeOK, Hash, Slot
<1>2. QED
  BY <1>1 DEF Entry, Slot

LEMMA DeprecateType ==
  ASSUME TypeOK, NEW i \in Instances, NEW s \in Services, NEW t \in 0 .. MaxClock,
         Deprecate(i, s, t)
  PROVE  TypeOK'
<1>1. [services[i][s] EXCEPT !.status = "deprecated", !.updatedAt = t] \in Slot
  BY AmendedEntry DEF Deprecate, Status
<1>2. services' \in [Instances -> Hash] /\ sent' \in [Instances -> Seq(Command)]
  BY <1>1, AmendType DEF Deprecate
<1>3. QED
  BY <1>2, StampType DEF Deprecate, TypeOK

LEMMA RetireType ==
  ASSUME TypeOK, NEW i \in Instances, NEW s \in Services, NEW t \in 0 .. MaxClock,
         Retire(i, s, t)
  PROVE  TypeOK'
<1>1. [services[i][s] EXCEPT !.status = "retired", !.updatedAt = t] \in Slot
  BY AmendedEntry DEF Retire, Status
<1>2. services' \in [Instances -> Hash] /\ sent' \in [Instances -> Seq(Command)]
  BY <1>1, AmendType DEF Retire
<1>3. gauge' \in [Instances -> Nat]
  BY SyncGaugeType DEF Retire
<1>4. QED
  BY <1>2, <1>3, StampType DEF Retire, TypeOK

LEMMA ActivateType ==
  ASSUME TypeOK, NEW i \in Instances, NEW s \in Services, NEW t \in 0 .. MaxClock,
         Activate(i, s, t)
  PROVE  TypeOK'
<1>1. [services[i][s] EXCEPT !.status = "active", !.updatedAt = t] \in Slot
  BY AmendedEntry DEF Activate, Status
<1>2. services' \in [Instances -> Hash] /\ sent' \in [Instances -> Seq(Command)]
  BY <1>1, AmendType DEF Activate
<1>3. gauge' \in [Instances -> Nat]
  BY SyncGaugeType DEF Activate
<1>4. QED
  BY <1>2, <1>3, StampType DEF Activate, TypeOK

LEMMA StartSweepType ==
  ASSUME TypeOK, NEW i \in Instances, StartSweep(i)
  PROVE  TypeOK'
<1>1. Routable(services[i]) \in SUBSET Services
  BY DEF Routable
<1>2. QED
  BY <1>1 DEF StartSweep, TypeOK

LEMMA ProbeAnsweredType ==
  ASSUME TypeOK, NEW i \in Instances, NEW s \in Services, NEW h \in BOOLEAN,
         NEW t \in 0 .. MaxClock, ProbeAnswered(i, s, h, t)
  PROVE  TypeOK'
<1>1. /\ clock' \in 0 .. MaxClock
      /\ services' \in [Instances -> Hash]
      /\ sent' \in [Instances -> Seq(Command)]
  <2>1. SetHealth(i, s, h, t)
    BY DEF ProbeAnswered
  <2>2. CASE services[i][s] # Absent /\ services[i][s].healthy # h
    <3>1. [services[i][s] EXCEPT !.healthy = h, !.updatedAt = t] \in Slot
      BY <2>2, AmendedEntry
    <3>2. Stamp(t) /\ Amend(i, s, [services[i][s] EXCEPT !.healthy = h, !.updatedAt = t])
      BY <2>1, <2>2 DEF SetHealth
    <3>3. QED
      BY <3>1, <3>2, AmendType, StampType
  <2>3. CASE UNCHANGED <<clock, services, sent>>
    BY <2>3 DEF TypeOK
  <2>4. QED
    BY <2>1, <2>2, <2>3 DEF SetHealth
<1>2. probing' \in [Instances -> SUBSET Services]
  BY DEF ProbeAnswered, TypeOK
<1>3. QED
  BY <1>1, <1>2 DEF ProbeAnswered, TypeOK

LEMMA StartReconciliationType ==
  ASSUME TypeOK, NEW i \in Instances, StartReconciliation(i)
  PROVE  TypeOK'
<1>1. [caller |-> "compare"] \in Command
  BY DEF Command, Read
<1>2. sent' \in [Instances -> Seq(Command)]
  BY <1>1, SendType DEF StartReconciliation
<1>3. QED
  BY <1>2 DEF StartReconciliation, TypeOK

LEMMA CompareSnapshotType ==
  ASSUME TypeOK, NEW i \in Instances, CompareSnapshot(i)
  PROVE  TypeOK'
<1>1. [caller |-> "load"] \in Command
  BY DEF Command, Read
<1>2. sent' \in [Instances -> Seq(Command)]
  BY <1>1, SendType DEF CompareSnapshot, TypeOK
<1>3. QED
  BY <1>2 DEF CompareSnapshot, TypeOK

\* A merge of two hashes is a hash.
LEMMA LoadedType ==
  ASSUME NEW map \in Hash, NEW stored \in Hash
  PROVE  Loaded(map, stored) \in Hash
BY DEF Loaded, Hash

LEMMA LoadSnapshotType ==
  ASSUME TypeOK, NEW i \in Instances, LoadSnapshot(i)
  PROVE  TypeOK'
<1>1. Loaded(services[i], snapshot[i]) \in Hash
  BY LoadedType DEF LoadSnapshot, TypeOK
<1>2. QED
  BY <1>1 DEF LoadSnapshot, TypeOK

\* The oldest command, when it is not a read, is a write.
LEMMA HeadWrite ==
  ASSUME TypeOK, NEW i \in Instances, sent[i] # <<>>, ~IsRead(Head(sent[i]))
  PROVE  Head(sent[i]) \in Write
BY DEF TypeOK, Command, Read, IsRead

LEMMA ExecuteWriteType ==
  ASSUME TypeOK, NEW i \in Instances, ExecuteWrite(i)
  PROVE  TypeOK'
<1>1. Head(sent[i]) \in Write
  BY HeadWrite DEF ExecuteWrite
<1>2. redis' \in Hash
  BY <1>1 DEF ExecuteWrite, TypeOK, Hash, Write
<1>3. sent' \in [Instances -> Seq(Command)]
  BY TailType DEF ExecuteWrite
<1>4. acked' \in [Services -> BOOLEAN]
  BY <1>1 DEF ExecuteWrite, TypeOK, DeregistrationUnderWay
<1>5. QED
  BY <1>2, <1>3, <1>4 DEF ExecuteWrite, TypeOK

LEMMA ExecuteReadType ==
  ASSUME TypeOK, NEW i \in Instances, ExecuteRead(i)
  PROVE  TypeOK'
<1>1. sent' \in [Instances -> Seq(Command)]
  BY TailType DEF ExecuteRead
<1>2. QED
  BY <1>1 DEF ExecuteRead, TypeOK

\* What a rejected command does to memory and to the gauge.
LEMMA RejectedType ==
  ASSUME TypeOK, NEW i \in Instances, NEW c \in Write, Rejected(i, c)
  PROVE  /\ services' \in [Instances -> Hash]
         /\ gauge' \in [Instances -> Nat]
         /\ acked' = acked
<1>1. c.sid \in Services /\ Absent \in Slot
  BY DEF Write, Slot
<1>2. CASE Put(i, c.sid, Absent) /\ SyncGauge(i)
  BY <1>1, <1>2, PutType, SyncGaugeType DEF Rejected
<1>3. CASE UNCHANGED <<services, gauge>>
  BY <1>3 DEF TypeOK, Rejected
<1>4. QED
  BY <1>2, <1>3 DEF Rejected

LEMMA FaultType ==
  ASSUME TypeOK, NEW kind, Fault(kind)
  PROVE  faults' \in 0 .. MaxFaults
BY RegistryAssumption DEF Fault, TypeOK

LEMMA DropWriteType ==
  ASSUME TypeOK, NEW i \in Instances, DropWrite(i)
  PROVE  TypeOK'
<1>1. Head(sent[i]) \in Write
  BY HeadWrite DEF DropWrite
<1>2. redis' \in Hash
  BY <1>1 DEF DropWrite, TypeOK, Hash, Write
<1>3. sent' \in [Instances -> Seq(Command)]
  BY TailType DEF DropWrite
<1>4. QED
  BY <1>1, <1>2, <1>3, RejectedType, FaultType DEF DropWrite, TypeOK

LEMMA DropReadType ==
  ASSUME TypeOK, NEW i \in Instances, DropRead(i)
  PROVE  TypeOK'
<1>1. sent' \in [Instances -> Seq(Command)]
  BY TailType DEF DropRead
<1>2. QED
  BY <1>1, FaultType DEF DropRead, TypeOK

\* Whoever a time-out hits awaits a write.
LEMMA TimedOutWrite ==
  ASSUME TypeOK, NEW i \in Instances, NEW k \in 1 .. (MaxQueue + 1), Timeout(i, k)
  PROVE  sent[i][k] \in Write
<1>1. sent[i] \in Seq(Command) /\ k \in DOMAIN sent[i]
  BY DEF Timeout, TypeOK
<1>2. QED
  BY <1>1 DEF Timeout, Command, Read, Strict

LEMMA TimeoutType ==
  ASSUME TypeOK, NEW i \in Instances, NEW k \in 1 .. (MaxQueue + 1), Timeout(i, k)
  PROVE  TypeOK'
<1>1. sent[i] \in Seq(Command) /\ k \in DOMAIN sent[i]
  BY DEF Timeout, TypeOK
<1>2. sent[i][k] \in Write
  BY TimedOutWrite
<1>3. [sent[i][k] EXCEPT !.caller = "none"] \in Command
  BY <1>2 DEF Command, Write
<1>4. [sent[i] EXCEPT ![k] = [sent[i][k] EXCEPT !.caller = "none"]] \in Seq(Command)
  BY <1>1, <1>3
<1>5. sent' \in [Instances -> Seq(Command)]
  BY <1>4 DEF Timeout, TypeOK
<1>6. QED
  BY <1>2, <1>5, RejectedType, FaultType DEF Timeout, TypeOK

LEMMA CrashType ==
  ASSUME TypeOK, NEW i \in Instances, Crash(i)
  PROVE  TypeOK'
<1>1. [s \in Services |-> Absent] \in Hash
  BY DEF Hash, Slot
<1>2. QED
  BY <1>1, FaultType DEF Crash, TypeOK

LEMMA BootType ==
  ASSUME TypeOK, NEW i \in Instances, Boot(i) \/ BootMemoryOnly(i)
  PROVE  TypeOK'
<1>1. Loaded(services[i], redis) \in Hash
  BY LoadedType DEF TypeOK
<1>2. CASE Boot(i)
  BY <1>1, <1>2 DEF Boot, TypeOK
<1>3. CASE BootMemoryOnly(i)
  BY <1>3, FaultType DEF BootMemoryOnly, TypeOK
<1>4. QED
  BY <1>2, <1>3

\* Every step keeps the types.
LEMMA NextType == TypeOK /\ [Next]_vars => TypeOK'
<1> SUFFICES ASSUME TypeOK, [Next]_vars PROVE TypeOK'
  OBVIOUS
<1>1. CASE UNCHANGED vars
  BY <1>1 DEF vars, TypeOK
<1>2. ASSUME NEW i \in Instances, NEW s \in Services, NEW t \in 0 .. MaxClock,
             Admin(i, s, t)
      PROVE  TypeOK'
  BY <1>2, RegisterType, DeprecateType, RetireType, ActivateType DEF Admin
<1>3. ASSUME NEW i \in Instances, NEW s \in Services, NEW h \in BOOLEAN,
             NEW t \in 0 .. MaxClock, ProbeAnswered(i, s, h, t)
      PROVE  TypeOK'
  BY <1>3, ProbeAnsweredType
<1>4. ASSUME NEW i \in Instances, NEW k \in 1 .. (MaxQueue + 1), Timeout(i, k)
      PROVE  TypeOK'
  BY <1>4, TimeoutType
<1>5. ASSUME NEW i \in Instances,
             \/ \E s \in Services : Deregister(i, s)
             \/ StartSweep(i)
             \/ StartReconciliation(i)
             \/ CompareSnapshot(i)
             \/ LoadSnapshot(i)
             \/ ExecuteWrite(i)
             \/ ExecuteRead(i)
             \/ DropWrite(i)
             \/ DropRead(i)
             \/ Crash(i)
             \/ Boot(i)
             \/ BootMemoryOnly(i)
      PROVE  TypeOK'
  BY <1>5, DeregisterType, StartSweepType, StartReconciliationType, CompareSnapshotType,
     LoadSnapshotType, ExecuteWriteType, ExecuteReadType, DropWriteType, DropReadType,
     CrashType, BootType
<1>6. QED
  BY <1>1, <1>2, <1>3, <1>4, <1>5 DEF Next

\* Every variable of the registry keeps its type: in particular nothing ever
\* sets the status 'proposed'.
THEOREM RegistryTypeCorrect == Spec => []TypeOK
BY InitType, NextType, PTL DEF Spec

-----------------------------------------------------------------------------
(* The commands on the connections.                                        *)

OnTheWay(c) == \E i \in Instances : \E k \in DOMAIN sent[i] : sent[i][k] = c

\* A service whose HDEL waits somewhere, by its command.
LEMMA UnderWayIsHdel ==
  ASSUME NEW s \in Services
  PROVE  DeregistrationUnderWay(s, sent)
         <=> \E c : OnTheWay(c) /\ ~IsRead(c) /\ c.sid = s /\ c.value = Absent
BY DEF DeregistrationUnderWay, OnTheWay

\* Send adds at most its command.
LEMMA SendAdds ==
  ASSUME TypeOK, NEW i \in Instances, NEW c \in Command, Send(i, c), NEW d, OnTheWay(d)'
  PROVE  OnTheWay(d) \/ d = c
<1>1. CASE UNCHANGED sent
  BY <1>1 DEF OnTheWay
<1>2. CASE sent' = [sent EXCEPT ![i] = Append(@, c)]
  <2>0. PICK j \in Instances : \E k \in DOMAIN sent'[j] : sent'[j][k] = d
    BY DEF OnTheWay
  <2>1. PICK k \in DOMAIN sent'[j] : sent'[j][k] = d
    BY <2>0
  <2>2. CASE j # i
    BY <1>2, <2>1, <2>2 DEF OnTheWay, TypeOK
  <2>3. CASE j = i
    <3>1. sent[i] \in Seq(Command) /\ sent'[i] = Append(sent[i], c)
      BY <1>2 DEF TypeOK
    <3>2. k \in 1 .. (Len(sent[i]) + 1)
      BY <2>1, <2>3, <3>1
    <3>3. CASE k = Len(sent[i]) + 1
      BY <2>1, <2>3, <3>1, <3>3
    <3>4. CASE k \in 1 .. Len(sent[i])
      <4>1. sent[i][k] = d /\ k \in DOMAIN sent[i]
        BY <2>1, <2>3, <3>1, <3>4
      <4>2. QED
        BY <4>1 DEF OnTheWay
    <3>5. QED
      BY <3>2, <3>3, <3>4, <3>1
  <2>4. QED
    BY <2>2, <2>3
<1>3. QED
  BY <1>1, <1>2 DEF Send

\* Executing or losing the oldest command adds none.
LEMMA TailAdds ==
  ASSUME TypeOK, NEW i \in Instances, sent[i] # <<>>,
         sent' = [sent EXCEPT ![i] = Tail(@)], NEW d, OnTheWay(d)'
  PROVE  OnTheWay(d)
<1>0. PICK j \in Instances : \E k \in DOMAIN sent'[j] : sent'[j][k] = d
  BY DEF OnTheWay
<1>1. PICK k \in DOMAIN sent'[j] : sent'[j][k] = d
  BY <1>0
<1>2. CASE j # i
  BY <1>1, <1>2 DEF OnTheWay, TypeOK
<1>3. CASE j = i
  <2>1. sent[i] \in Seq(Command) /\ sent'[i] = Tail(sent[i])
    BY DEF TypeOK
  <2>2. /\ Len(Tail(sent[i])) = Len(sent[i]) - 1
        /\ \A l \in 1 .. (Len(sent[i]) - 1) : Tail(sent[i])[l] = sent[i][l + 1]
    BY <2>1
  <2>3. Tail(sent[i]) \in Seq(Command) /\ Len(sent[i]) \in Nat
    BY <2>1
  <2>4. k \in DOMAIN Tail(sent[i]) /\ Tail(sent[i])[k] = d
    BY <1>1, <1>3, <2>1
  <2>5. k \in 1 .. (Len(sent[i]) - 1)
    BY <2>2, <2>3, <2>4
  <2>6. k + 1 \in DOMAIN sent[i] /\ sent[i][k + 1] = d
    BY <2>1, <2>2, <2>3, <2>4, <2>5
  <2>7. QED
    BY <2>6 DEF OnTheWay
<1>4. QED
  BY <1>2, <1>3

\* The oldest command is on the way.
LEMMA HeadOnTheWay ==
  ASSUME TypeOK, NEW i \in Instances, sent[i] # <<>>
  PROVE  OnTheWay(Head(sent[i]))
<1>1. sent[i] \in Seq(Command) /\ 1 \in DOMAIN sent[i] /\ sent[i][1] = Head(sent[i])
  BY DEF TypeOK
<1>2. QED
  BY <1>1 DEF OnTheWay

\* A time-out replaces one command by the same one that nobody awaits.
LEMMA TimeoutAdds ==
  ASSUME TypeOK, NEW i \in Instances, NEW k \in 1 .. (MaxQueue + 1), Timeout(i, k),
         NEW d, OnTheWay(d)'
  PROVE  \/ OnTheWay(d)
         \/ /\ OnTheWay(sent[i][k]) /\ sent[i][k] \in Write
            /\ d = [sent[i][k] EXCEPT !.caller = "none"]
<1>1. /\ sent[i] \in Seq(Command) /\ k \in DOMAIN sent[i]
      /\ sent' = [sent EXCEPT ![i][k].caller = "none"]
  BY DEF Timeout, TypeOK
<1>2. sent[i][k] \in Write
  BY <1>1 DEF Timeout, Command, Read, Strict
<1>2a. PICK j \in Instances : \E l \in DOMAIN sent'[j] : sent'[j][l] = d
  BY DEF OnTheWay
<1>3. PICK l \in DOMAIN sent'[j] : sent'[j][l] = d
  BY <1>2a
<1>4. CASE j # i
  BY <1>1, <1>3, <1>4 DEF OnTheWay, TypeOK
<1>5. CASE j = i
  <2>1. sent'[i] = [sent[i] EXCEPT ![k] = [sent[i][k] EXCEPT !.caller = "none"]]
    BY <1>1 DEF TypeOK
  <2>2. l \in DOMAIN sent[i]
    BY <1>1, <1>3, <1>5, <2>1
  <2>3. CASE l = k
    BY <1>1, <1>2, <1>3, <1>5, <2>1, <2>3 DEF OnTheWay
  <2>4. CASE l # k
    <3>1. sent[i][l] = d
      BY <1>3, <1>5, <2>1, <2>2, <2>4
    <3>2. QED
      BY <3>1, <2>2 DEF OnTheWay
  <2>5. QED
    BY <2>3, <2>4
<1>6. QED
  BY <1>4, <1>5

-----------------------------------------------------------------------------
(* Acknowledged registrations are in Redis.                                *)

\* A command that removes s from Redis is on the way.
HdelOnTheWay(s) == \E c : OnTheWay(c) /\ ~IsRead(c) /\ c.sid = s /\ c.value = Absent

\* A registration sends an entry.
CarriesEntry(c) == ~IsRead(c) /\ c.caller \in {"register", "update"} => c.value # Absent

\* The inductive invariant.  Redis may lose an acknowledged service only to
\* an HDEL, and none is on the way.
AckInv ==
  /\ TypeOK
  /\ \A c : OnTheWay(c) => CarriesEntry(c)
  /\ \A s \in Services : acked[s] => redis[s] # Absent /\ ~HdelOnTheWay(s)

LEMMA InitAck == Init => AckInv
BY InitType DEF Init, AckInv, OnTheWay, HdelOnTheWay

\* A step that leaves Redis and the acknowledgements alone and adds no HDEL.
LEMMA AckQuietStep ==
  ASSUME AckInv, TypeOK', UNCHANGED <<redis, acked>>,
         \A d : OnTheWay(d)' =>
                  \/ OnTheWay(d)
                  \/ IsRead(d)
                  \/ d.value # Absent
  PROVE  AckInv'
<1>1. ASSUME NEW d, OnTheWay(d)' PROVE CarriesEntry(d)
  BY <1>1 DEF AckInv, CarriesEntry
<1>2. ASSUME NEW s \in Services, HdelOnTheWay(s)' PROVE HdelOnTheWay(s)
  BY <1>2 DEF HdelOnTheWay
<1>3. QED
  BY <1>1, <1>2 DEF AckInv, CarriesEntry

\* An entry is not Absent, also after an amendment.
LEMMA EntryNotAbsent == \A e \in Entry : e # Absent
BY RegistryAssumption

LEMMA AmendedNotAbsent ==
  ASSUME TypeOK, NEW i \in Instances, NEW s \in Services, NEW t \in 0 .. MaxClock,
         services[i][s] # Absent
  PROVE  /\ \A x \in Status :
              [services[i][s] EXCEPT !.status = x, !.updatedAt = t] \in Entry
         /\ \A h \in BOOLEAN :
              [services[i][s] EXCEPT !.healthy = h, !.updatedAt = t] \in Entry
<1>1. services[i][s] \in Entry
  BY DEF TypeOK, Hash, Slot
<1>2. QED
  BY <1>1 DEF Entry

\* Amending an entry adds a command that stores it.
LEMMA AmendSends ==
  ASSUME TypeOK, NEW i \in Instances, NEW s \in Services, NEW e \in Entry, Amend(i, s, e),
         NEW d, OnTheWay(d)'
  PROVE  OnTheWay(d) \/ d = [sid |-> s, value |-> e, caller |-> "none"]
<1>1. [sid |-> s, value |-> e, caller |-> "none"] \in Command
  BY WriteType DEF Slot
<1>2. QED
  BY <1>1, SendAdds DEF Amend

\* register() adds a command that stores the new entry.
LEMMA RegisterSends ==
  ASSUME TypeOK, NEW i \in Instances, NEW s \in Services, NEW m \in Manifests,
         NEW t \in 0 .. MaxClock, Register(i, s, m, t), NEW d, OnTheWay(d)'
  PROVE  \/ OnTheWay(d)
         \/ d.value = NewEntry(services[i][s], m, t) /\ ~IsRead(d) /\ d.sid = s
<1> DEFINE old == services[i][s]
           entry == NewEntry(old, m, t)
           caller == IF old = Absent THEN "register" ELSE "update"
<1>1. [sid |-> s, value |-> entry, caller |-> caller] \in Command
  BY DEF NewEntry, Entry, Slot, Status, Command, Write, Strict
<1>2. Send(i, [sid |-> s, value |-> entry, caller |-> caller])
  BY DEF Register
<1>3. OnTheWay(d) \/ d = [sid |-> s, value |-> entry, caller |-> caller]
  BY <1>1, <1>2, SendAdds
<1>4. QED
  BY <1>3 DEF IsRead

LEMMA NewEntryIsEntry ==
  ASSUME NEW old, NEW m \in Manifests, NEW t \in 0 .. MaxClock
  PROVE  NewEntry(old, m, t) \in Entry /\ NewEntry(old, m, t).updatedAt = t
BY DEF NewEntry, Entry, Status

LEMMA RegisterAck ==
  ASSUME AckInv, NEW i \in Instances, NEW s \in Services, NEW m \in Manifests,
         NEW t \in 0 .. MaxClock, Register(i, s, m, t)
  PROVE  AckInv'
<1>1. TypeOK /\ TypeOK'
  BY RegisterType DEF AckInv
<1>2. NewEntry(services[i][s], m, t) # Absent
  BY NewEntryIsEntry, EntryNotAbsent
<1>3. QED
  BY <1>1, <1>2, RegisterSends, AckQuietStep DEF Register

LEMMA DeregisterAck ==
  ASSUME AckInv, NEW i \in Instances, NEW s \in Services, Deregister(i, s)
  PROVE  AckInv'
<1> DEFINE cmd == [sid |-> s, value |-> Absent, caller |-> "deregister"]
<1>1. TypeOK /\ TypeOK'
  BY DeregisterType DEF AckInv
<1>2. cmd \in Command
  BY DEF Command, Write, Strict, Slot
<1>3. ASSUME NEW d, OnTheWay(d)' PROVE OnTheWay(d) \/ d = cmd
  BY <1>1, <1>2, <1>3, SendAdds DEF Deregister
<1>4. ASSUME NEW d, OnTheWay(d)' PROVE CarriesEntry(d)
  BY <1>3, <1>4 DEF AckInv, CarriesEntry
<1>5. ASSUME NEW r \in Services, acked'[r] PROVE redis'[r] # Absent /\ ~HdelOnTheWay(r)'
  <2>1. r # s /\ acked[r]
    BY <1>1, <1>5 DEF Deregister, TypeOK
  <2>2. redis[r] # Absent /\ ~HdelOnTheWay(r)
    BY <2>1 DEF AckInv
  <2>3. ~HdelOnTheWay(r)'
    BY <2>1, <2>2, <1>3 DEF HdelOnTheWay
  <2>4. QED
    BY <2>2, <2>3 DEF Deregister
<1>6. QED
  BY <1>1, <1>4, <1>5 DEF AckInv, CarriesEntry

\* The operations that amend an entry without waiting.
LEMMA AmendAck ==
  ASSUME AckInv, TypeOK', NEW i \in Instances, NEW s \in Services, NEW e \in Entry,
         Amend(i, s, e), UNCHANGED <<redis, acked>>
  PROVE  AckInv'
<1>1. TypeOK
  BY DEF AckInv
<1>2. QED
  BY <1>1, AmendSends, EntryNotAbsent, AckQuietStep

LEMMA LifecycleAck ==
  ASSUME AckInv, NEW i \in Instances, NEW s \in Services, NEW t \in 0 .. MaxClock,
         Deprecate(i, s, t) \/ Retire(i, s, t) \/ Activate(i, s, t)
  PROVE  AckInv'
<1>1. TypeOK /\ TypeOK'
  BY DeprecateType, RetireType, ActivateType DEF AckInv
<1>2. services[i][s] # Absent
  BY DEF Deprecate, Retire, Activate
<1>3. PICK x \in Status :
        Amend(i, s, [services[i][s] EXCEPT !.status = x, !.updatedAt = t])
  BY DEF Deprecate, Retire, Activate, Status
<1>4. [services[i][s] EXCEPT !.status = x, !.updatedAt = t] \in Entry
  BY <1>1, <1>2, AmendedNotAbsent
<1>5. UNCHANGED <<redis, acked>>
  BY DEF Deprecate, Retire, Activate
<1>6. QED
  BY <1>1, <1>3, <1>4, <1>5, AmendAck

LEMMA ProbeAnsweredAck ==
  ASSUME AckInv, NEW i \in Instances, NEW s \in Services, NEW h \in BOOLEAN,
         NEW t \in 0 .. MaxClock, ProbeAnswered(i, s, h, t)
  PROVE  AckInv'
<1>1. TypeOK /\ TypeOK'
  BY ProbeAnsweredType DEF AckInv
<1>2. UNCHANGED <<redis, acked>>
  BY DEF ProbeAnswered
<1>3. CASE UNCHANGED sent
  BY <1>1, <1>2, <1>3, AckQuietStep DEF OnTheWay
<1>4. CASE /\ services[i][s] # Absent
           /\ Amend(i, s, [services[i][s] EXCEPT !.healthy = h, !.updatedAt = t])
  BY <1>1, <1>2, <1>4, AmendedNotAbsent, AmendAck
<1>5. QED
  BY <1>3, <1>4 DEF ProbeAnswered, SetHealth

\* The drift job sends nothing but reads.
LEMMA DriftAck ==
  ASSUME AckInv, NEW i \in Instances,
         StartReconciliation(i) \/ CompareSnapshot(i) \/ LoadSnapshot(i)
  PROVE  AckInv'
<1>1. TypeOK /\ TypeOK'
  BY StartReconciliationType, CompareSnapshotType, LoadSnapshotType DEF AckInv
<1>2. UNCHANGED <<redis, acked>>
  BY DEF StartReconciliation, CompareSnapshot, LoadSnapshot
<1>3. \/ UNCHANGED sent
      \/ Send(i, [caller |-> "compare"])
      \/ Send(i, [caller |-> "load"])
  BY DEF StartReconciliation, CompareSnapshot, LoadSnapshot
<1>4. [caller |-> "compare"] \in Command /\ [caller |-> "load"] \in Command
  BY DEF Command, Read
<1>5. ASSUME NEW d, OnTheWay(d)' PROVE OnTheWay(d) \/ IsRead(d)
  <2>1. CASE UNCHANGED sent
    BY <1>5, <2>1 DEF OnTheWay
  <2>2. CASE Send(i, [caller |-> "compare"])
    BY <1>1, <1>4, <1>5, <2>2, SendAdds DEF IsRead
  <2>3. CASE Send(i, [caller |-> "load"])
    BY <1>1, <1>4, <1>5, <2>3, SendAdds DEF IsRead
  <2>4. QED
    BY <1>3, <2>1, <2>2, <2>3
<1>6. QED
  BY <1>1, <1>2, <1>5, AckQuietStep

\* Redis executes an HSET, or an HDEL that was on the way.
LEMMA StoreAck ==
  ASSUME AckInv, NEW i \in Instances, sent[i] # <<>>, ~IsRead(Head(sent[i])),
         NEW s \in Services, acked[s],
         redis' \in {redis, [redis EXCEPT ![Head(sent[i]).sid] = Head(sent[i]).value]}
  PROVE  redis'[s] # Absent
<1> DEFINE c == Head(sent[i])
<1>1. OnTheWay(c) /\ ~IsRead(c) /\ c \in Write
  BY HeadOnTheWay, HeadWrite DEF AckInv
<1>2. redis[s] # Absent /\ ~HdelOnTheWay(s)
  BY DEF AckInv
<1>3. c.sid = s => c.value # Absent
  BY <1>1, <1>2 DEF HdelOnTheWay
<1>4. QED
  BY <1>2, <1>3 DEF AckInv, TypeOK, Hash

LEMMA ExecuteWriteAck ==
  ASSUME AckInv, NEW i \in Instances, ExecuteWrite(i)
  PROVE  AckInv'
<1> DEFINE c == Head(sent[i])
<1>1. TypeOK /\ TypeOK'
  BY ExecuteWriteType DEF AckInv
<1>2. /\ OnTheWay(c) /\ ~IsRead(c) /\ c \in Write
      /\ sent[i] # <<>>
      /\ sent' = [sent EXCEPT ![i] = Tail(@)]
      /\ redis' = [redis EXCEPT ![c.sid] = c.value]
  BY <1>1, HeadOnTheWay, HeadWrite DEF ExecuteWrite
<1>3. ASSUME NEW d, OnTheWay(d)' PROVE OnTheWay(d)
  BY <1>1, <1>2, <1>3, TailAdds
<1>4. ASSUME NEW s \in Services, acked'[s] PROVE redis'[s] # Absent /\ ~HdelOnTheWay(s)'
  <2>1. CASE acked[s] /\ acked'[s] = acked[s]
    <3>1. redis'[s] # Absent
      BY <1>2, <2>1, StoreAck
    <3>2. ~HdelOnTheWay(s)
      BY <2>1 DEF AckInv
    <3>3. QED
      BY <3>1, <3>2, <1>3 DEF HdelOnTheWay
  <2>2. CASE /\ c.caller \in {"register", "update"} /\ c.sid = s
             /\ acked'[s] = ~DeregistrationUnderWay(s, sent')
    <3>1. c.value # Absent
      BY <1>2, <2>2 DEF AckInv, CarriesEntry
    <3>2. redis'[s] # Absent
      BY <1>1, <1>2, <2>2, <3>1 DEF TypeOK, Hash
    <3>3. ~DeregistrationUnderWay(s, sent')
      BY <1>4, <2>2
    <3>4. ~HdelOnTheWay(s)'
      BY <3>3 DEF DeregistrationUnderWay, HdelOnTheWay, OnTheWay
    <3>5. QED
      BY <3>2, <3>4
  <2>3. QED
    BY <1>1, <1>2, <1>4, <2>1, <2>2 DEF ExecuteWrite, TypeOK
<1>5. QED
  BY <1>1, <1>3, <1>4 DEF AckInv, CarriesEntry

LEMMA DropWriteAck ==
  ASSUME AckInv, NEW i \in Instances, DropWrite(i)
  PROVE  AckInv'
<1> DEFINE c == Head(sent[i])
<1>1. TypeOK /\ TypeOK'
  BY DropWriteType DEF AckInv
<1>2. /\ sent[i] # <<>> /\ ~IsRead(c)
      /\ sent' = [sent EXCEPT ![i] = Tail(@)]
      /\ redis' \in {redis, [redis EXCEPT ![c.sid] = c.value]}
      /\ acked' = acked
  BY DEF DropWrite, Rejected
<1>3. ASSUME NEW d, OnTheWay(d)' PROVE OnTheWay(d)
  BY <1>1, <1>2, <1>3, TailAdds
<1>4. ASSUME NEW s \in Services, acked'[s] PROVE redis'[s] # Absent /\ ~HdelOnTheWay(s)'
  <2>1. redis'[s] # Absent
    BY <1>2, <1>4, StoreAck
  <2>2. ~HdelOnTheWay(s)
    BY <1>2, <1>4 DEF AckInv
  <2>3. QED
    BY <2>1, <2>2, <1>3 DEF HdelOnTheWay
<1>5. QED
  BY <1>1, <1>3, <1>4 DEF AckInv, CarriesEntry

\* Reads leave the connection without touching Redis.
LEMMA ReadGoneAck ==
  ASSUME AckInv, NEW i \in Instances, ExecuteRead(i) \/ DropRead(i)
  PROVE  AckInv'
<1>1. TypeOK /\ TypeOK'
  BY ExecuteReadType, DropReadType DEF AckInv
<1>2. /\ sent[i] # <<>>
      /\ sent' = [sent EXCEPT ![i] = Tail(@)]
      /\ UNCHANGED <<redis, acked>>
  BY DEF ExecuteRead, DropRead
<1>3. ASSUME NEW d, OnTheWay(d)' PROVE OnTheWay(d)
  BY <1>1, <1>2, <1>3, TailAdds
<1>4. QED
  BY <1>1, <1>2, <1>3, AckQuietStep

LEMMA TimeoutAck ==
  ASSUME AckInv, NEW i \in Instances, NEW k \in 1 .. (MaxQueue + 1), Timeout(i, k)
  PROVE  AckInv'
<1> DEFINE c == sent[i][k]
<1>1. TypeOK /\ TypeOK'
  BY TimeoutType DEF AckInv
<1>2. UNCHANGED <<redis, acked>>
  BY DEF Timeout, Rejected
<1>3. ASSUME NEW d, OnTheWay(d)'
      PROVE  \/ OnTheWay(d)
             \/ OnTheWay(c) /\ c \in Write /\ d = [c EXCEPT !.caller = "none"]
  BY <1>1, <1>3, TimeoutAdds
<1>4. ASSUME NEW d, OnTheWay(d)' PROVE CarriesEntry(d)
  <2>1. CASE OnTheWay(d)
    BY <2>1 DEF AckInv
  <2>2. CASE c \in Write /\ d = [c EXCEPT !.caller = "none"]
    BY <2>2 DEF CarriesEntry, Write
  <2>3. QED
    BY <1>3, <1>4, <2>1, <2>2
<1>5. ASSUME NEW s \in Services, HdelOnTheWay(s)' PROVE HdelOnTheWay(s)
  <2>1. PICK d : OnTheWay(d)' /\ ~IsRead(d) /\ d.sid = s /\ d.value = Absent
    BY <1>5 DEF HdelOnTheWay
  <2>2. CASE OnTheWay(d)
    BY <2>1, <2>2 DEF HdelOnTheWay
  <2>3. CASE OnTheWay(c) /\ c \in Write /\ d = [c EXCEPT !.caller = "none"]
    <3>1. c.sid = s /\ c.value = Absent /\ ~IsRead(c)
      BY <2>1, <2>3 DEF Write, IsRead, Strict
    <3>2. QED
      BY <2>3, <3>1 DEF HdelOnTheWay
  <2>4. QED
    BY <1>3, <2>1, <2>2, <2>3
<1>6. QED
  BY <1>1, <1>2, <1>4, <1>5 DEF AckInv, CarriesEntry

LEMMA CrashAck ==
  ASSUME AckInv, NEW i \in Instances, Crash(i)
  PROVE  AckInv'
<1>1. TypeOK /\ TypeOK'
  BY CrashType DEF AckInv
<1>2. UNCHANGED <<redis, acked>> /\ sent' = [sent EXCEPT ![i] = <<>>]
  BY DEF Crash
<1>3. ASSUME NEW d, OnTheWay(d)' PROVE OnTheWay(d)
  BY <1>1, <1>2, <1>3 DEF OnTheWay, TypeOK
<1>4. QED
  BY <1>1, <1>2, <1>3, AckQuietStep

\* Steps that touch neither the connections nor Redis.
LEMMA LocalAck ==
  ASSUME AckInv, TypeOK', UNCHANGED <<redis, acked, sent>>
  PROVE  AckInv'
BY AckQuietStep DEF OnTheWay

\* The invariant is inductive.
LEMMA NextAck == AckInv /\ [Next]_vars => AckInv'
<1> SUFFICES ASSUME AckInv, [Next]_vars PROVE AckInv'
  OBVIOUS
<1>0. TypeOK'
  BY NextType DEF AckInv
<1>1. CASE UNCHANGED vars
  BY <1>0, <1>1, LocalAck DEF vars
<1>2. ASSUME NEW i \in Instances, NEW s \in Services, NEW t \in 0 .. MaxClock,
             Admin(i, s, t)
      PROVE  AckInv'
  BY <1>2, RegisterAck, LifecycleAck DEF Admin
<1>3. ASSUME NEW i \in Instances, NEW s \in Services, NEW h \in BOOLEAN,
             NEW t \in 0 .. MaxClock, ProbeAnswered(i, s, h, t)
      PROVE  AckInv'
  BY <1>3, ProbeAnsweredAck
<1>4. ASSUME NEW i \in Instances, NEW k \in 1 .. (MaxQueue + 1), Timeout(i, k)
      PROVE  AckInv'
  BY <1>4, TimeoutAck
<1>5. ASSUME NEW i \in Instances, StartSweep(i) \/ Boot(i) \/ BootMemoryOnly(i)
      PROVE  AckInv'
  BY <1>0, <1>5, LocalAck DEF StartSweep, Boot, BootMemoryOnly
<1>6. ASSUME NEW i \in Instances,
             \/ \E s \in Services : Deregister(i, s)
             \/ StartReconciliation(i)
             \/ CompareSnapshot(i)
             \/ LoadSnapshot(i)
             \/ ExecuteWrite(i)
             \/ ExecuteRead(i)
             \/ DropWrite(i)
             \/ DropRead(i)
             \/ Crash(i)
      PROVE  AckInv'
  BY <1>6, DeregisterAck, DriftAck, ExecuteWriteAck, ReadGoneAck, DropWriteAck, CrashAck
<1>7. QED
  BY <1>1, <1>2, <1>3, <1>4, <1>5, <1>6 DEF Next

\* A registration that was acknowledged from Redis stays in Redis until a
\* deregistration of the service is requested, whatever instances fail,
\* restart, time out or reload in the meantime.
THEOREM AcknowledgedRegistrationsAreDurable == Spec => []AckedInRedis
<1>1. AckInv => AckedInRedis
  BY DEF AckInv, AckedInRedis
<1>2. QED
  BY <1>1, InitAck, NextAck, PTL DEF Spec

-----------------------------------------------------------------------------
(* Equal time stamps mean equal entries: the fact behind the drift job,    *)
(* which compares nothing but keys and updatedAt.                          *)


\* The places an entry is kept in under s.
InMemory(s, e) == \E i \in Instances : services[i][s] = e
InReply(s, e) == \E i \in Instances : snapshot[i] # Absent /\ snapshot[i][s] = e
InCommand(s, e) == \E c : OnTheWay(c) /\ ~IsRead(c) /\ c.sid = s /\ c.value = e

IsCopy(s, e) ==
  /\ e # Absent
  /\ InMemory(s, e) \/ redis[s] = e \/ InReply(s, e) \/ InCommand(s, e)

\* The inductive invariant: no copy is younger than the clock, so the next
\* stamp is new.
StampInv ==
  /\ TypeOK
  /\ MinGap = 1 =>
       \A s \in Services : \A e, f :
         IsCopy(s, e) /\ IsCopy(s, f)
         => e.updatedAt <= clock /\ (e.updatedAt = f.updatedAt => e = f)

LEMMA CopyIsEntry ==
  ASSUME TypeOK, NEW s \in Services, NEW e, IsCopy(s, e)
  PROVE  e \in Entry
<1>1. CASE InMemory(s, e)
  BY <1>1 DEF IsCopy, InMemory, TypeOK, Hash, Slot
<1>2. CASE redis[s] = e
  BY <1>2 DEF IsCopy, TypeOK, Hash, Slot
<1>3. CASE InReply(s, e)
  BY <1>3 DEF IsCopy, InReply, TypeOK, Hash, Slot
<1>4. CASE InCommand(s, e)
  <2>1. PICK c : OnTheWay(c) /\ ~IsRead(c) /\ c.value = e
    BY <1>4 DEF InCommand
  <2>2. c \in Command
    BY <2>1 DEF OnTheWay, TypeOK
  <2>3. c \in Write
    BY <2>1, <2>2 DEF Command, Read, IsRead
  <2>4. QED
    BY <2>1, <2>3 DEF IsCopy, Write, Slot
<1>5. QED
  BY <1>1, <1>2, <1>3, <1>4 DEF IsCopy

LEMMA InitStamp == Init => StampInv
BY InitType DEF Init, StampInv, IsCopy, InMemory, InReply, InCommand, OnTheWay

\* A step that makes no copy of anything new.
LEMMA ShrinkStep ==
  ASSUME StampInv, TypeOK', clock' = clock,
         \A s \in Services : \A e : IsCopy(s, e)' => IsCopy(s, e)
  PROVE  StampInv'
BY DEF StampInv

\* A step that makes one new entry, with a new stamp.
LEMMA GrowStep ==
  ASSUME StampInv, TypeOK', NEW r \in Services, NEW x, NEW t \in 0 .. MaxClock,
         Stamp(t), x.updatedAt = t,
         \A s \in Services : \A e : IsCopy(s, e)' => IsCopy(s, e) \/ (s = r /\ e = x)
  PROVE  StampInv'
<1> SUFFICES ASSUME MinGap = 1, NEW s \in Services, NEW e, NEW f, IsCopy(s, e)', IsCopy(s, f)'
             PROVE  /\ e.updatedAt <= clock'
                    /\ e.updatedAt = f.updatedAt => e = f
  BY DEF StampInv
<1>1. t = clock + 1 /\ clock' = t /\ clock \in Nat /\ TypeOK
  BY DEF Stamp, StampInv, TypeOK
<1>2. ASSUME NEW g, IsCopy(s, g) PROVE g.updatedAt \in Nat /\ g.updatedAt <= clock
  <2>1. g.updatedAt \in Nat
    BY <1>1, <1>2, CopyIsEntry, RegistryAssumption DEF Entry
  <2>2. QED
    BY <1>2, <2>1 DEF StampInv
<1>3. CASE IsCopy(s, e) /\ IsCopy(s, f)
  BY <1>1, <1>2, <1>3 DEF StampInv
<1>4. CASE e = x /\ f = x
  BY <1>1, <1>4
<1>5. CASE e = x /\ IsCopy(s, f)
  BY <1>1, <1>2, <1>5
<1>6. CASE IsCopy(s, e) /\ f = x
  BY <1>1, <1>2, <1>6
<1>7. QED
  BY <1>3, <1>4, <1>5, <1>6

\* Where new copies come from, place by place.
LEMMA PutCopies ==
  ASSUME TypeOK, NEW i \in Instances, NEW r \in Services, NEW x, Put(i, r, x),
         NEW s \in Services, NEW e, InMemory(s, e)'
  PROVE  InMemory(s, e) \/ (s = r /\ e = x)
BY DEF Put, InMemory, TypeOK, Hash

LEMMA SendCopies ==
  ASSUME NEW r, NEW x,
         \A d : OnTheWay(d)' => OnTheWay(d) \/ (d.sid = r /\ d.value = x),
         NEW s \in Services, NEW e, InCommand(s, e)'
  PROVE  InCommand(s, e) \/ (s = r /\ e = x)
BY DEF InCommand

-----------------------------------------------------------------------------
(* The actions.                                                            *)

\* A change: a stamped entry in memory, and on its way to Redis.
LEMMA ChangeStamp ==
  ASSUME StampInv, TypeOK', NEW i \in Instances, NEW r \in Services, NEW x,
         NEW t \in 0 .. MaxClock, Stamp(t), x.updatedAt = t,
         Put(i, r, x), UNCHANGED <<redis, snapshot>>,
         \A d : OnTheWay(d)' => OnTheWay(d) \/ (d.sid = r /\ d.value = x)
  PROVE  StampInv'
<1>1. ASSUME NEW s \in Services, NEW e, IsCopy(s, e)'
      PROVE  IsCopy(s, e) \/ (s = r /\ e = x)
  <2>1. InMemory(s, e)' => InMemory(s, e) \/ (s = r /\ e = x)
    BY PutCopies DEF StampInv
  <2>2. InReply(s, e)' => InReply(s, e)
    BY DEF InReply
  <2>3. InCommand(s, e)' => InCommand(s, e) \/ (s = r /\ e = x)
    BY SendCopies
  <2>4. QED
    BY <1>1, <2>1, <2>2, <2>3 DEF IsCopy
<1>2. QED
  BY <1>1, GrowStep

LEMMA RegisterStamp ==
  ASSUME StampInv, NEW i \in Instances, NEW s \in Services, NEW m \in Manifests,
         NEW t \in 0 .. MaxClock, Register(i, s, m, t)
  PROVE  StampInv'
<1> DEFINE x == NewEntry(services[i][s], m, t)
<1>1. TypeOK /\ TypeOK'
  BY RegisterType DEF StampInv
<1>2. Stamp(t) /\ Put(i, s, x) /\ UNCHANGED <<redis, snapshot>>
  BY DEF Register
<1>3. x.updatedAt = t
  BY DEF NewEntry
<1>4. \A d : OnTheWay(d)' => OnTheWay(d) \/ (d.sid = s /\ d.value = x)
  BY <1>1, RegisterSends
<1>5. QED
  BY <1>1, <1>2, <1>3, <1>4, ChangeStamp

LEMMA AmendStamp ==
  ASSUME StampInv, TypeOK', NEW i \in Instances, NEW s \in Services, NEW e \in Entry,
         NEW t \in 0 .. MaxClock, Stamp(t), e.updatedAt = t, Amend(i, s, e),
         UNCHANGED <<redis, snapshot>>
  PROVE  StampInv'
<1>1. TypeOK /\ Put(i, s, e)
  BY DEF StampInv, Amend
<1>2. \A d : OnTheWay(d)' => OnTheWay(d) \/ (d.sid = s /\ d.value = e)
  BY <1>1, AmendSends
<1>3. QED
  BY <1>1, <1>2, ChangeStamp

LEMMA KnownEntry ==
  ASSUME TypeOK, NEW i \in Instances, NEW s \in Services, services[i][s] # Absent
  PROVE  services[i][s] \in Entry
BY DEF TypeOK, Hash, Slot

LEMMA LifecycleStamp ==
  ASSUME StampInv, NEW i \in Instances, NEW s \in Services, NEW t \in 0 .. MaxClock,
         Deprecate(i, s, t) \/ Retire(i, s, t) \/ Activate(i, s, t)
  PROVE  StampInv'
<1>1. TypeOK /\ TypeOK'
  BY DeprecateType, RetireType, ActivateType DEF StampInv
<1>2. services[i][s] # Absent /\ Stamp(t) /\ UNCHANGED <<redis, snapshot>>
  BY DEF Deprecate, Retire, Activate
<1>3. PICK x \in Status :
        Amend(i, s, [services[i][s] EXCEPT !.status = x, !.updatedAt = t])
  BY DEF Deprecate, Retire, Activate, Status
<1> DEFINE e == [services[i][s] EXCEPT !.status = x, !.updatedAt = t]
<1>4. e \in Entry /\ e.updatedAt = t
  <2>1. services[i][s] \in Entry
    BY <1>1, <1>2, KnownEntry
  <2>2. QED
    BY <2>1 DEF Entry
<1>5. QED
  BY <1>1, <1>2, <1>3, <1>4, AmendStamp

LEMMA ProbeAnsweredStamp ==
  ASSUME StampInv, NEW i \in Instances, NEW s \in Services, NEW h \in BOOLEAN,
         NEW t \in 0 .. MaxClock, ProbeAnswered(i, s, h, t)
  PROVE  StampInv'
<1>1. TypeOK /\ TypeOK'
  BY ProbeAnsweredType DEF StampInv
<1>2. UNCHANGED <<redis, snapshot>>
  BY DEF ProbeAnswered
<1>3. CASE UNCHANGED <<clock, services, sent>>
  <2>1. \A r \in Services : \A e : IsCopy(r, e)' => IsCopy(r, e)
    BY <1>2, <1>3 DEF IsCopy, InMemory, InReply, InCommand, OnTheWay
  <2>2. QED
    BY <1>1, <1>3, <2>1, ShrinkStep
<1> DEFINE e == [services[i][s] EXCEPT !.healthy = h, !.updatedAt = t]
<1>4. CASE services[i][s] # Absent /\ Stamp(t) /\ Amend(i, s, e)
  <2>1. services[i][s] \in Entry
    BY <1>1, <1>4, KnownEntry
  <2>2. e \in Entry /\ e.updatedAt = t
    BY <2>1 DEF Entry
  <2>3. QED
    BY <1>1, <1>2, <1>4, <2>2, AmendStamp
<1>5. QED
  BY <1>3, <1>4 DEF ProbeAnswered, SetHealth

LEMMA DeregisterStamp ==
  ASSUME StampInv, NEW i \in Instances, NEW s \in Services, Deregister(i, s)
  PROVE  StampInv'
<1> DEFINE cmd == [sid |-> s, value |-> Absent, caller |-> "deregister"]
<1>1. TypeOK /\ TypeOK'
  BY DeregisterType DEF StampInv
<1>2. Put(i, s, Absent) /\ clock' = clock /\ UNCHANGED <<redis, snapshot>> /\ Send(i, cmd)
  BY DEF Deregister
<1>3. cmd \in Command
  BY DEF Command, Write, Strict, Slot
<1>4. \A d : OnTheWay(d)' => OnTheWay(d) \/ (d.sid = s /\ d.value = Absent)
  BY <1>1, <1>2, <1>3, SendAdds
<1>5. ASSUME NEW r \in Services, NEW e, IsCopy(r, e)' PROVE IsCopy(r, e)
  <2>1. InMemory(r, e)' => InMemory(r, e) \/ e = Absent
    BY <1>1, <1>2, PutCopies
  <2>2. InCommand(r, e)' => InCommand(r, e) \/ e = Absent
    BY <1>4 DEF InCommand
  <2>3. InReply(r, e)' => InReply(r, e)
    BY <1>2 DEF InReply
  <2>4. QED
    BY <1>2, <1>5, <2>1, <2>2, <2>3 DEF IsCopy
<1>6. QED
  BY <1>1, <1>2, <1>5, ShrinkStep

\* The drift job sends reads and forgets its reply.
LEMMA CompareStamp ==
  ASSUME StampInv, NEW i \in Instances, StartReconciliation(i) \/ CompareSnapshot(i)
  PROVE  StampInv'
<1>1. TypeOK /\ TypeOK'
  BY StartReconciliationType, CompareSnapshotType DEF StampInv
<1>2. UNCHANGED <<clock, redis, services>>
  BY DEF StartReconciliation, CompareSnapshot
<1>3. UNCHANGED snapshot \/ snapshot' = [snapshot EXCEPT ![i] = Absent]
  BY DEF StartReconciliation, CompareSnapshot
<1>4. \/ UNCHANGED sent
      \/ Send(i, [caller |-> "compare"])
      \/ Send(i, [caller |-> "load"])
  BY DEF StartReconciliation, CompareSnapshot
<1>5. [caller |-> "compare"] \in Command /\ [caller |-> "load"] \in Command
  BY DEF Command, Read
<1>6. ASSUME NEW d, OnTheWay(d)' PROVE OnTheWay(d) \/ IsRead(d)
  BY <1>1, <1>4, <1>5, <1>6, SendAdds DEF IsRead, OnTheWay
<1>7. ASSUME NEW s \in Services, NEW e, IsCopy(s, e)' PROVE IsCopy(s, e)
  <2>1. InReply(s, e)' => InReply(s, e)
    BY <1>1, <1>3 DEF InReply, TypeOK
  <2>2. InCommand(s, e)' => InCommand(s, e)
    BY <1>6 DEF InCommand
  <2>3. QED
    BY <1>2, <1>7, <2>1, <2>2 DEF IsCopy, InMemory
<1>8. QED
  BY <1>1, <1>2, <1>7, ShrinkStep

\* A load copies the reply into memory.
LEMMA LoadSnapshotStamp ==
  ASSUME StampInv, NEW i \in Instances, LoadSnapshot(i)
  PROVE  StampInv'
<1>1. TypeOK /\ TypeOK'
  BY LoadSnapshotType DEF StampInv
<1>2. /\ snapshot[i] # Absent
      /\ services' = [services EXCEPT ![i] = Loaded(services[i], snapshot[i])]
      /\ snapshot' = [snapshot EXCEPT ![i] = Absent]
      /\ UNCHANGED <<clock, redis, sent>>
  BY DEF LoadSnapshot
<1>3. ASSUME NEW s \in Services, NEW e, IsCopy(s, e)' PROVE IsCopy(s, e)
  <2>1. InMemory(s, e)' => InMemory(s, e) \/ InReply(s, e)
    BY <1>1, <1>2 DEF InMemory, InReply, Loaded, TypeOK
  <2>2. InReply(s, e)' => InReply(s, e)
    BY <1>1, <1>2 DEF InReply, TypeOK
  <2>3. InCommand(s, e)' => InCommand(s, e)
    BY <1>2 DEF InCommand, OnTheWay
  <2>4. QED
    BY <1>2, <1>3, <2>1, <2>2, <2>3 DEF IsCopy
<1>4. QED
  BY <1>1, <1>2, <1>3, ShrinkStep

\* Redis executes a write, or the connection fails under it: the value was on
\* the way, and memory may lose an entry.
LEMMA WriteGoneStamp ==
  ASSUME StampInv, NEW i \in Instances, ExecuteWrite(i) \/ DropWrite(i)
  PROVE  StampInv'
<1> DEFINE c == Head(sent[i])
<1>1. TypeOK /\ TypeOK'
  BY ExecuteWriteType, DropWriteType DEF StampInv
<1>2. /\ sent[i] # <<>> /\ ~IsRead(c)
      /\ sent' = [sent EXCEPT ![i] = Tail(@)]
      /\ redis' \in {redis, [redis EXCEPT ![c.sid] = c.value]}
      /\ UNCHANGED <<clock, snapshot>>
  BY DEF ExecuteWrite, DropWrite
<1>3. UNCHANGED services \/ Put(i, c.sid, Absent)
  BY DEF ExecuteWrite, DropWrite, Rejected
<1>4. c \in Write /\ OnTheWay(c)
  BY <1>1, <1>2, HeadWrite, HeadOnTheWay
<1>5. ASSUME NEW s \in Services, NEW e, IsCopy(s, e)' PROVE IsCopy(s, e)
  <2>1. InMemory(s, e)' => InMemory(s, e) \/ e = Absent
    <3>1. c.sid \in Services
      BY <1>4 DEF Write
    <3>2. CASE UNCHANGED services
      BY <3>2 DEF InMemory
    <3>3. CASE Put(i, c.sid, Absent)
      BY <1>1, <3>1, <3>3, PutCopies
    <3>4. QED
      BY <1>3, <3>2, <3>3
  <2>2. redis'[s] = e => redis[s] = e \/ InCommand(s, e)
    BY <1>1, <1>2, <1>4 DEF InCommand, TypeOK, Hash
  <2>3. InReply(s, e)' => InReply(s, e)
    BY <1>2 DEF InReply
  <2>4. \A d : OnTheWay(d)' => OnTheWay(d)
    BY <1>1, <1>2, TailAdds
  <2>5. InCommand(s, e)' => InCommand(s, e)
    BY <2>4 DEF InCommand
  <2>6. QED
    BY <1>5, <2>1, <2>2, <2>3, <2>5 DEF IsCopy
<1>6. QED
  BY <1>1, <1>2, <1>5, ShrinkStep

LEMMA ReadGoneStamp ==
  ASSUME StampInv, NEW i \in Instances, ExecuteRead(i) \/ DropRead(i)
  PROVE  StampInv'
<1>1. TypeOK /\ TypeOK'
  BY ExecuteReadType, DropReadType DEF StampInv
<1>2. /\ sent[i] # <<>>
      /\ sent' = [sent EXCEPT ![i] = Tail(@)]
      /\ snapshot' \in {snapshot, [snapshot EXCEPT ![i] = redis]}
      /\ UNCHANGED <<clock, services, redis>>
  BY DEF ExecuteRead, DropRead
<1>3. ASSUME NEW s \in Services, NEW e, IsCopy(s, e)' PROVE IsCopy(s, e)
  <2>1. InReply(s, e)' => InReply(s, e) \/ redis[s] = e
    BY <1>1, <1>2 DEF InReply, TypeOK
  <2>2. \A d : OnTheWay(d)' => OnTheWay(d)
    BY <1>1, <1>2, TailAdds
  <2>3. InCommand(s, e)' => InCommand(s, e)
    BY <2>2 DEF InCommand
  <2>4. QED
    BY <1>2, <1>3, <2>1, <2>3 DEF IsCopy, InMemory
<1>4. QED
  BY <1>1, <1>2, <1>3, ShrinkStep

LEMMA TimeoutStamp ==
  ASSUME StampInv, NEW i \in Instances, NEW k \in 1 .. (MaxQueue + 1), Timeout(i, k)
  PROVE  StampInv'
<1> DEFINE c == sent[i][k]
<1>1. TypeOK /\ TypeOK'
  BY TimeoutType DEF StampInv
<1>2. UNCHANGED <<clock, redis, snapshot>>
  BY DEF Timeout
<1>3. c \in Write
  <2>1. c \in Command /\ c.caller \in Strict
    BY <1>1 DEF Timeout, TypeOK
  <2>2. QED
    BY <2>1 DEF Command, Read, Strict
<1>4. UNCHANGED services \/ Put(i, c.sid, Absent)
  BY DEF Timeout, Rejected
<1>5. ASSUME NEW s \in Services, NEW e, IsCopy(s, e)' PROVE IsCopy(s, e)
  <2>1. InMemory(s, e)' => InMemory(s, e) \/ e = Absent
    <3>1. c.sid \in Services
      BY <1>3 DEF Write
    <3>2. CASE UNCHANGED services
      BY <3>2 DEF InMemory
    <3>3. CASE Put(i, c.sid, Absent)
      BY <1>1, <3>1, <3>3, PutCopies
    <3>4. QED
      BY <1>4, <3>2, <3>3
  <2>2. InCommand(s, e)' => InCommand(s, e)
    <3>1. SUFFICES ASSUME NEW d, OnTheWay(d)', ~IsRead(d), d.sid = s, d.value = e
                   PROVE  InCommand(s, e)
      BY DEF InCommand
    <3>2. CASE OnTheWay(d)
      BY <3>1, <3>2 DEF InCommand
    <3>3. CASE OnTheWay(c) /\ c \in Write /\ d = [c EXCEPT !.caller = "none"]
      <4>1. c.sid = s /\ c.value = e /\ ~IsRead(c)
        BY <3>1, <3>3 DEF Write, IsRead, Strict
      <4>2. QED
        BY <3>3, <4>1 DEF InCommand
    <3>4. QED
      BY <1>1, <3>1, <3>2, <3>3, TimeoutAdds
  <2>3. InReply(s, e)' => InReply(s, e)
    BY <1>2 DEF InReply
  <2>4. QED
    BY <1>2, <1>5, <2>1, <2>2, <2>3 DEF IsCopy
<1>6. QED
  BY <1>1, <1>2, <1>5, ShrinkStep

\* A process dies, or starts with what Redis holds.
LEMMA RestartStamp ==
  ASSUME StampInv, NEW i \in Instances, Crash(i) \/ Boot(i) \/ BootMemoryOnly(i)
  PROVE  StampInv'
<1>1. TypeOK /\ TypeOK'
  BY CrashType, BootType DEF StampInv
<1>2. UNCHANGED <<clock, redis>>
  BY DEF Crash, Boot, BootMemoryOnly
<1>3. ASSUME NEW s \in Services, NEW e, IsCopy(s, e)' PROVE IsCopy(s, e)
  <2>1. InMemory(s, e)' => InMemory(s, e) \/ redis[s] = e \/ e = Absent
    <3>1. CASE Crash(i)
      BY <1>1, <3>1 DEF Crash, InMemory, TypeOK
    <3>2. CASE Boot(i)
      <4>1. services' = [services EXCEPT ![i] = Loaded(services[i], redis)]
        BY <3>2 DEF Boot
      <4>2. \A r \in Services :
              Loaded(services[i], redis)[r] \in {services[i][r], redis[r]}
        BY DEF Loaded
      <4>3. /\ services'[i] = Loaded(services[i], redis)
            /\ \A j \in Instances \ {i} : services'[j] = services[j]
        BY <1>1, <4>1 DEF TypeOK
      <4>4. QED
        BY <1>3, <4>2, <4>3 DEF InMemory
    <3>3. CASE BootMemoryOnly(i)
      BY <3>3 DEF BootMemoryOnly, InMemory
    <3>4. QED
      BY <3>1, <3>2, <3>3
  <2>2. InReply(s, e)' => InReply(s, e)
    BY <1>1 DEF Crash, Boot, BootMemoryOnly, InReply, TypeOK
  <2>3. ASSUME NEW d, OnTheWay(d)' PROVE OnTheWay(d)
    <3>1. \A j \in Instances : sent'[j] = sent[j] \/ DOMAIN sent'[j] = {}
      BY <1>1 DEF Crash, Boot, BootMemoryOnly, TypeOK
    <3>2. QED
      BY <2>3, <3>1 DEF OnTheWay
  <2>4. InCommand(s, e)' => InCommand(s, e)
    BY <2>3 DEF InCommand
  <2>5. QED
    BY <1>2, <1>3, <2>1, <2>2, <2>4 DEF IsCopy
<1>4. QED
  BY <1>1, <1>2, <1>3, ShrinkStep

\* Steps that touch no copy.
LEMMA ElsewhereStamp ==
  ASSUME StampInv, TypeOK', UNCHANGED <<clock, services, redis, snapshot, sent>>
  PROVE  StampInv'
<1>1. \A s \in Services : \A e : IsCopy(s, e)' => IsCopy(s, e)
  BY DEF IsCopy, InMemory, InReply, InCommand, OnTheWay
<1>2. QED
  BY <1>1, ShrinkStep

\* The invariant is inductive.
LEMMA NextStamp == StampInv /\ [Next]_vars => StampInv'
<1> SUFFICES ASSUME StampInv, [Next]_vars PROVE StampInv'
  OBVIOUS
<1>0. TypeOK'
  BY NextType DEF StampInv
<1>1. CASE UNCHANGED vars
  BY <1>0, <1>1, ElsewhereStamp DEF vars
<1>2. ASSUME NEW i \in Instances, NEW s \in Services, NEW t \in 0 .. MaxClock,
             Admin(i, s, t)
      PROVE  StampInv'
  BY <1>2, RegisterStamp, LifecycleStamp DEF Admin
<1>3. ASSUME NEW i \in Instances, NEW s \in Services, NEW h \in BOOLEAN,
             NEW t \in 0 .. MaxClock, ProbeAnswered(i, s, h, t)
      PROVE  StampInv'
  BY <1>3, ProbeAnsweredStamp
<1>4. ASSUME NEW i \in Instances, NEW k \in 1 .. (MaxQueue + 1), Timeout(i, k)
      PROVE  StampInv'
  BY <1>4, TimeoutStamp
<1>5. ASSUME NEW i \in Instances, StartSweep(i) PROVE StampInv'
  BY <1>0, <1>5, ElsewhereStamp DEF StartSweep
<1>6. ASSUME NEW i \in Instances,
             \/ \E s \in Services : Deregister(i, s)
             \/ StartReconciliation(i)
             \/ CompareSnapshot(i)
             \/ LoadSnapshot(i)
             \/ ExecuteWrite(i)
             \/ ExecuteRead(i)
             \/ DropWrite(i)
             \/ DropRead(i)
             \/ Crash(i)
             \/ Boot(i)
             \/ BootMemoryOnly(i)
      PROVE  StampInv'
  BY <1>6, DeregisterStamp, CompareStamp, LoadSnapshotStamp, WriteGoneStamp,
     ReadGoneStamp, RestartStamp
<1>7. QED
  BY <1>1, <1>2, <1>3, <1>4, <1>5, <1>6 DEF Next

-----------------------------------------------------------------------------
\* Copies() collects what IsCopy describes.
LEMMA CopiesAreCopies ==
  ASSUME NEW s \in Services, NEW e \in Copies(s)
  PROVE  IsCopy(s, e)
<1>1. e # Absent
  BY DEF Copies
<1>2. CASE e \in {services[i][s] : i \in Instances} \/ e = redis[s]
  BY <1>1, <1>2 DEF IsCopy, InMemory
<1>3. CASE e \in {snapshot[i][s] : i \in {j \in Instances : snapshot[j] # Absent}}
  BY <1>1, <1>3 DEF IsCopy, InReply
<1>4. CASE e \in UNION {{sent[i][k].value : k \in Writes(i, s)} : i \in Instances}
  <2>1. PICK i \in Instances : e \in {sent[i][k].value : k \in Writes(i, s)}
    BY <1>4
  <2>2. PICK k \in Writes(i, s) : e = sent[i][k].value
    BY <2>1
  <2>3. OnTheWay(sent[i][k]) /\ ~IsRead(sent[i][k]) /\ sent[i][k].sid = s
    BY <2>2 DEF Writes, OnTheWay
  <2>4. QED
    BY <1>1, <2>2, <2>3 DEF IsCopy, InCommand
<1>5. QED
  BY <1>2, <1>3, <1>4 DEF Copies

\* Wherever two copies of a service are (a memory, Redis, a command or a reply
\* on its way), and whatever failed in between, equal updatedAt means equal
\* entries: the comparison of handleRedisDriftReconciliation() misses nothing.
THEOREM StampsIdentifyEntries ==
  ASSUME MinGap = 1
  PROVE  Spec => []StampIdentifiesEntry
<1>1. StampInv => StampIdentifiesEntry
  BY CopiesAreCopies DEF StampInv, StampIdentifiesEntry
<1>2. QED
  BY <1>1, InitStamp, NextStamp, PTL DEF Spec

\* handleRedisDriftReconciliation() compares keys and updatedAt alone; when no
\* two changes share a millisecond that is as good as comparing the entries:
\* it finds drift exactly when memory differs from the hash it was sent.
THEOREM ComparisonIsExact ==
  ASSUME MinGap = 1
  PROVE  Spec => [](\A i \in Instances : snapshot[i] # Absent =>
                      (Drifted(services[i], snapshot[i]) <=> services[i] # snapshot[i]))
<1>1. TypeOK /\ StampIdentifiesEntry =>
        \A i \in Instances : snapshot[i] # Absent =>
          (Drifted(services[i], snapshot[i]) <=> services[i] # snapshot[i])
  <2> SUFFICES ASSUME TypeOK, StampIdentifiesEntry,
                      NEW i \in Instances, snapshot[i] # Absent
               PROVE  Drifted(services[i], snapshot[i]) <=> services[i] # snapshot[i]
    OBVIOUS
  <2>1. services[i] \in Hash /\ snapshot[i] \in Hash
    BY DEF TypeOK
  <2>2. Drifted(services[i], snapshot[i]) => services[i] # snapshot[i]
    BY DEF Drifted
  <2>3. ASSUME ~Drifted(services[i], snapshot[i]), NEW s \in Services
        PROVE  services[i][s] = snapshot[i][s]
    <3>1. (services[i][s] = Absent) = (snapshot[i][s] = Absent)
      BY <2>3 DEF Drifted
    <3>2. CASE services[i][s] # Absent
      <4>1. services[i][s] \in Copies(s) /\ snapshot[i][s] \in Copies(s)
        BY <3>1, <3>2 DEF Copies
      <4>2. services[i][s].updatedAt = snapshot[i][s].updatedAt
        BY <2>3, <3>1, <3>2 DEF Drifted
      <4>3. QED
        BY <4>1, <4>2 DEF StampIdentifiesEntry
    <3>3. QED
      BY <3>1, <3>2
  <2>4. ~Drifted(services[i], snapshot[i]) => services[i] = snapshot[i]
    BY <2>1, <2>3 DEF Hash
  <2>5. QED
    BY <2>2, <2>4
<1>2. QED
  BY <1>1, StampsIdentifyEntries, RegistryTypeCorrect, PTL

-----------------------------------------------------------------------------
(* What a step does to the map in memory.                                  *)

\* register() with what validateVersionUpgrade() lets through.
Registers(i, s, e) ==
  /\ e \in Entry
  /\ services[i][s] = Absent => e.status = "active"
  /\ services[i][s] # Absent =>
       /\ e.status = services[i][s].status
       /\ e.status # "retired"
       /\ Upgradable(services[i][s].manifest, e.manifest)

\* The lifecycle operations and the health sweep.
Amends(i, s, e) ==
  /\ e \in Entry
  /\ services[i][s] # Absent
  /\ e.manifest = services[i][s].manifest
  /\ \/ e.status = services[i][s].status
     \/ services[i][s].status = "active" /\ e.status \in {"deprecated", "retired"}
     \/ services[i][s].status = "deprecated" /\ e.status \in {"active", "retired"}

\* One entry changes, and the gauge with it unless it counts both alike.
Changes(i, s, e) ==
  /\ Put(i, s, e)
  /\ Registers(i, s, e) \/ Amends(i, s, e) \/ e = Absent
  /\ \/ SyncGauge(i)
     \/ /\ UNCHANGED gauge
        /\ services[i][s] # Absent /\ e # Absent
        /\ services[i][s].status = "retired" <=> e.status = "retired"

LEMMA RegisterChanges ==
  ASSUME TypeOK, NEW i \in Instances, NEW s \in Services, NEW m \in Manifests,
         NEW t \in 0 .. MaxClock, Register(i, s, m, t)
  PROVE  Changes(i, s, NewEntry(services[i][s], m, t))
<1> DEFINE e == NewEntry(services[i][s], m, t)
<1>1. e \in Entry /\ e.manifest = m
  BY DEF NewEntry, Entry, Status
<1>2. services[i][s] # Absent => services[i][s] \in Entry
  BY KnownEntry
<1>3. Registers(i, s, e)
  BY <1>1, <1>2 DEF Registers, Register, NewEntry, Entry, Status
<1>4. QED
  BY <1>3 DEF Changes, Register

LEMMA LifecycleChanges ==
  ASSUME TypeOK, NEW i \in Instances, NEW s \in Services, NEW t \in 0 .. MaxClock,
         Deprecate(i, s, t) \/ Retire(i, s, t) \/ Activate(i, s, t)
  PROVE  \E e : Changes(i, s, e)
<1>1. services[i][s] # Absent
  BY DEF Deprecate, Retire, Activate
<1>2. services[i][s] \in Entry
  BY <1>1, KnownEntry
<1>3. ASSUME NEW x \in Status
      PROVE  LET e == [services[i][s] EXCEPT !.status = x, !.updatedAt = t]
             IN  /\ e \in Entry
                 /\ e.manifest = services[i][s].manifest
                 /\ e.status = x
  BY <1>2 DEF Entry
<1>4. services[i][s].status \in Status
  BY <1>2 DEF Entry
<1>5. \A e \in Entry : e # Absent
  BY EntryNotAbsent
<1>6. CASE Deprecate(i, s, t)
  <2> DEFINE e == [services[i][s] EXCEPT !.status = "deprecated", !.updatedAt = t]
  <2>1. /\ e \in Entry /\ e.manifest = services[i][s].manifest
        /\ e.status = "deprecated"
    BY <1>3 DEF Status
  <2>2. Put(i, s, e) /\ UNCHANGED gauge /\ services[i][s].status # "retired"
    BY <1>6 DEF Deprecate, Amend
  <2> HIDE DEF e
  <2>3. QED
    BY <1>1, <1>4, <1>5, <2>1, <2>2 DEF Changes, Amends, Status
<1>7. CASE Retire(i, s, t)
  <2> DEFINE e == [services[i][s] EXCEPT !.status = "retired", !.updatedAt = t]
  <2>1. /\ e \in Entry /\ e.manifest = services[i][s].manifest
        /\ e.status = "retired"
    BY <1>3 DEF Status
  <2>2. Put(i, s, e) /\ SyncGauge(i)
    BY <1>7 DEF Retire, Amend
  <2> HIDE DEF e
  <2>3. QED
    BY <1>1, <1>4, <1>5, <2>1, <2>2 DEF Changes, Amends, Status
<1>8. CASE Activate(i, s, t)
  <2> DEFINE e == [services[i][s] EXCEPT !.status = "active", !.updatedAt = t]
  <2>1. /\ e \in Entry /\ e.manifest = services[i][s].manifest
        /\ e.status = "active"
    BY <1>3 DEF Status
  <2>2. Put(i, s, e) /\ SyncGauge(i) /\ services[i][s].status = "deprecated"
    BY <1>8 DEF Activate, Amend
  <2> HIDE DEF e
  <2>3. QED
    BY <1>1, <1>4, <1>5, <2>1, <2>2 DEF Changes, Amends, Status
<1>9. QED
  BY <1>6, <1>7, <1>8

LEMMA ProbeChanges ==
  ASSUME TypeOK, NEW i \in Instances, NEW s \in Services, NEW h \in BOOLEAN,
         NEW t \in 0 .. MaxClock, ProbeAnswered(i, s, h, t)
  PROVE  UNCHANGED <<services, gauge>> \/ \E e : Changes(i, s, e)
<1> DEFINE e == [services[i][s] EXCEPT !.healthy = h, !.updatedAt = t]
<1>1. CASE UNCHANGED services
  BY <1>1 DEF ProbeAnswered
<1>2. CASE services[i][s] # Absent /\ Amend(i, s, e)
  <2>1. services[i][s] \in Entry
    BY <1>2, KnownEntry
  <2>2. /\ e \in Entry /\ e.manifest = services[i][s].manifest
        /\ e.status = services[i][s].status
    BY <2>1 DEF Entry
  <2>3. Put(i, s, e) /\ UNCHANGED gauge
    BY <1>2 DEF ProbeAnswered, Amend
  <2>4. e # Absent
    BY <2>2, EntryNotAbsent
  <2> HIDE DEF e
  <2>5. QED
    BY <1>2, <2>2, <2>3, <2>4 DEF Changes, Amends
<1>3. QED
  BY <1>1, <1>2 DEF ProbeAnswered, SetHealth

\* Every step changes at most one entry of one instance, but for a load and
\* for the end of a process.
LEMMA StepChanges ==
  ASSUME TypeOK, [Next]_vars
  PROVE  \/ UNCHANGED <<services, gauge>>
         \/ \E i \in Instances : LoadSnapshot(i) \/ Boot(i) \/ Crash(i)
         \/ \E i \in Instances, s \in Services : \E e : Changes(i, s, e)
<1>1. CASE UNCHANGED vars
  BY <1>1 DEF vars
<1>2. ASSUME NEW i \in Instances, NEW s \in Services, NEW t \in 0 .. MaxClock,
             Admin(i, s, t)
      PROVE  \E e : Changes(i, s, e)
  BY <1>2, RegisterChanges, LifecycleChanges DEF Admin
<1>3. ASSUME NEW i \in Instances, NEW s \in Services, NEW h \in BOOLEAN,
             NEW t \in 0 .. MaxClock, ProbeAnswered(i, s, h, t)
      PROVE  UNCHANGED <<services, gauge>> \/ \E e : Changes(i, s, e)
  BY <1>3, ProbeChanges
<1>4. ASSUME NEW i \in Instances, NEW s \in Services, Deregister(i, s)
      PROVE  Changes(i, s, Absent)
  BY <1>4 DEF Deregister, Changes
<1>5. ASSUME NEW i \in Instances,
             \/ StartSweep(i)
             \/ StartReconciliation(i)
             \/ CompareSnapshot(i)
             \/ ExecuteWrite(i)
             \/ ExecuteRead(i)
             \/ DropRead(i)
             \/ BootMemoryOnly(i)
      PROVE  UNCHANGED <<services, gauge>>
  BY <1>5 DEF StartSweep, StartReconciliation, CompareSnapshot, ExecuteWrite, ExecuteRead,
     DropRead, BootMemoryOnly
<1>6. ASSUME NEW i \in Instances, NEW c \in Write, Rejected(i, c)
      PROVE  UNCHANGED <<services, gauge>> \/ Changes(i, c.sid, Absent)
  BY <1>6 DEF Rejected, Changes
<1>7. ASSUME NEW i \in Instances, DropWrite(i)
      PROVE  \E c \in Write : Rejected(i, c)
  <2>1. Head(sent[i]) \in Write
    BY <1>7, HeadWrite DEF DropWrite
  <2>2. QED
    BY <1>7, <2>1 DEF DropWrite
<1>8. ASSUME NEW i \in Instances, NEW k \in 1 .. (MaxQueue + 1), Timeout(i, k)
      PROVE  \E c \in Write : Rejected(i, c)
  BY <1>8, TimedOutWrite DEF Timeout
<1>9. \A c \in Write : c.sid \in Services
  BY DEF Write
<1>10. QED
  BY <1>1, <1>2, <1>3, <1>4, <1>5, <1>6, <1>7, <1>8, <1>9 DEF Next

-----------------------------------------------------------------------------
(* The gauge of several instances.                                         *)

\* The gauge counts the entries that are not retired.
LEMMA SameCount ==
  ASSUME TypeOK, NEW i \in Instances, NEW s \in Services, NEW e \in Entry, Put(i, s, e),
         services[i][s] # Absent,
         services[i][s].status = "retired" <=> e.status = "retired"
  PROVE  GaugeOf(services'[i]) = GaugeOf(services[i])
<1>1. e # Absent
  BY EntryNotAbsent
<1>2. services[i][s] \in Entry
  BY KnownEntry
<1>3. e.status \in Status /\ services[i][s].status \in Status
  BY <1>2 DEF Entry
<1>4. \A r \in Services : services'[i][r] = IF r = s THEN e ELSE services[i][r]
  BY DEF Put, TypeOK, Hash
<1>5. Routable(services'[i]) = Routable(services[i])
  BY <1>1, <1>3, <1>4 DEF Routable, Status
<1>6. QED
  BY <1>5 DEF GaugeOf

\* Nothing is counted before the first registration or after a crash.
LEMMA NothingCounted == GaugeOf([s \in Services |-> Absent]) = 0
<1>1. Routable([s \in Services |-> Absent]) = {}
  BY DEF Routable
<1>2. QED
  BY <1>1, FS_EmptySet DEF GaugeOf

\* A change of one entry does not take the gauge away from any map.
LEMMA ChangesCount ==
  ASSUME TypeOK, NEW i \in Instances, NEW s \in Services, NEW e, Changes(i, s, e),
         NEW j \in Instances, gauge[j] = GaugeOf(services[j])
  PROVE  gauge'[j] = GaugeOf(services'[j])
<1>1. Put(i, s, e)
  BY DEF Changes
<1>2. CASE j # i
  <2>1. services'[j] = services[j]
    BY <1>1, <1>2 DEF Put, TypeOK
  <2>2. gauge'[j] = gauge[j]
    BY <1>2 DEF Changes, SyncGauge, TypeOK
  <2>3. QED
    BY <2>1, <2>2
<1>3. CASE j = i /\ SyncGauge(i)
  BY <1>3 DEF SyncGauge, TypeOK
<1>4. CASE /\ j = i /\ UNCHANGED gauge
           /\ services[i][s] # Absent /\ e # Absent
           /\ services[i][s].status = "retired" <=> e.status = "retired"
  <2>1. e \in Entry
    BY <1>4 DEF Changes, Registers, Amends
  <2>2. GaugeOf(services'[i]) = GaugeOf(services[i])
    BY <1>1, <1>4, <2>1, SameCount
  <2>3. QED
    BY <1>4, <2>2
<1>5. QED
  BY <1>2, <1>3, <1>4 DEF Changes

\* A crash leaves nothing to count.
LEMMA CrashCount ==
  ASSUME TypeOK, NEW i \in Instances, Crash(i),
         NEW j \in Instances, gauge[j] = GaugeOf(services[j])
  PROVE  gauge'[j] = GaugeOf(services'[j])
<1>1. CASE j = i
  <2>1. services'[i] = [s \in Services |-> Absent] /\ gauge'[i] = 0
    BY DEF Crash, TypeOK
  <2>2. QED
    BY <1>1, <2>1, NothingCounted
<1>2. CASE j # i
  BY <1>2 DEF Crash, TypeOK
<1>3. QED
  BY <1>1, <1>2

\* A load changes one instance only.
LEMMA LoadCount ==
  ASSUME TypeOK, NEW i \in Instances, LoadSnapshot(i) \/ Boot(i), NEW j \in Instances, j # i
  PROVE  gauge'[j] = gauge[j] /\ services'[j] = services[j]
BY DEF LoadSnapshot, Boot, TypeOK

\* On any number of instances, with both cron jobs and every fault, a gauge
\* that agrees with its map goes on agreeing with it until loadFromRedis()
\* replaces entries: register(), its rollback, deregister(), retire() and
\* activate() set it, deprecate() and setHealthStatus() change nothing that
\* is counted.
THEOREM GaugeFollowsLocalChanges == Spec => GaugeLostOnlyByLoad
<1>1. ASSUME TypeOK, [Next]_vars, NEW j \in Instances,
             gauge[j] = GaugeOf(services[j]), gauge'[j] # GaugeOf(services'[j])
      PROVE  LoadSnapshot(j) \/ Boot(j)
  <2>1. ~ UNCHANGED <<services, gauge>>
    BY <1>1
  <2>2. \A i \in Instances, s \in Services : \A e : ~Changes(i, s, e)
    BY <1>1, ChangesCount
  <2>3. PICK i \in Instances : LoadSnapshot(i) \/ Boot(i) \/ Crash(i)
    BY <1>1, <2>1, <2>2, StepChanges
  <2>4. ~Crash(i)
    BY <1>1, CrashCount
  <2>5. i = j
    BY <1>1, <2>3, <2>4, LoadCount
  <2>6. QED
    BY <2>3, <2>4, <2>5
<1>2. TypeOK /\ [Next]_vars
      => [\A i \in Instances :
            gauge[i] = GaugeOf(services[i]) /\ gauge'[i] # GaugeOf(services'[i])
            => LoadSnapshot(i) \/ Boot(i)]_vars
  BY <1>1
<1>3. QED
  BY <1>2, RegistryTypeCorrect, PTL DEF Spec, GaugeLostOnlyByLoad

-----------------------------------------------------------------------------
(* The drift job and its HGETALL.                                          *)

\* Places of a connection once a command is added, or its oldest is gone.
LEMMA AppendPlaces ==
  ASSUME NEW q \in Seq(Command), NEW c \in Command
  PROVE  /\ Len(q) \in Nat
         /\ DOMAIN q = 1 .. Len(q)
         /\ DOMAIN Append(q, c) = 1 .. (Len(q) + 1)
         /\ Append(q, c)[Len(q) + 1] = c
         /\ \A k \in 1 .. Len(q) : Append(q, c)[k] = q[k]
BY Z3

LEMMA TailPlaces ==
  ASSUME NEW q \in Seq(Command), q # <<>>
  PROVE  /\ Len(q) \in Nat /\ Len(q) >= 1
         /\ DOMAIN q = 1 .. Len(q)
         /\ Head(q) = q[1]
         /\ DOMAIN Tail(q) = 1 .. (Len(q) - 1)
         /\ \A k \in 1 .. (Len(q) - 1) : Tail(q)[k] = q[k + 1]
<1>1. /\ Len(q) \in Nat /\ DOMAIN q = 1 .. Len(q) /\ Head(q) = q[1]
      /\ Len(q) # 0
  OBVIOUS
<1>2. Tail(q) \in Seq(Command) /\ Len(Tail(q)) = Len(q) - 1
  BY <1>1
<1>3. \A k \in 1 .. (Len(q) - 1) : Tail(q)[k] = q[k + 1]
  BY <1>1, <1>2
<1>4. DOMAIN Tail(q) = 1 .. (Len(q) - 1)
  BY <1>2
<1>5. QED
  BY <1>1, <1>3, <1>4

ReadsOf(q) == {k \in DOMAIN q : IsRead(q[k])}

\* What ReloadIsAnswered says of one instance.
Awaited(ph, r, q) ==
  \/ ph = "idle" /\ ReadsOf(q) = {} /\ r = Absent
  \/ ph # "idle" /\ ReadsOf(q) = {} /\ r # Absent
  \/ /\ r = Absent
     /\ \E k \in DOMAIN q :
          /\ ReadsOf(q) = {k}
          /\ ph = IF q[k].caller = "compare" THEN "comparing" ELSE "loading"

LEMMA AwaitedByAll ==
  ReloadIsAnswered <=> \A i \in Instances : Awaited(phase[i], snapshot[i], sent[i])
BY DEF ReloadIsAnswered, Awaited, Reads, ReadsOf

\* A connection with the same reads at the same places is as good.
LEMMA SameReads ==
  ASSUME NEW p, NEW q, ReadsOf(p) = ReadsOf(q), NEW ph, NEW r,
         \A k \in ReadsOf(q) : p[k] = q[k],
         Awaited(ph, r, q)
  PROVE  Awaited(ph, r, p)
<1>1. CASE ReadsOf(q) = {}
  BY <1>1 DEF Awaited
<1>2. CASE ReadsOf(q) # {}
  <2>1. PICK k \in DOMAIN q :
          /\ r = Absent /\ ReadsOf(q) = {k}
          /\ ph = IF q[k].caller = "compare" THEN "comparing" ELSE "loading"
    BY <1>2 DEF Awaited
  <2>2. k \in DOMAIN p /\ p[k] = q[k]
    BY <2>1 DEF ReadsOf
  <2>3. QED
    BY <2>1, <2>2 DEF Awaited
<1>3. QED
  BY <1>1, <1>2

\* A write behind the others is none of the job's business,
LEMMA WriteBehind ==
  ASSUME NEW q \in Seq(Command), NEW c \in Command, ~IsRead(c), NEW ph, NEW r,
         Awaited(ph, r, q)
  PROVE  Awaited(ph, r, Append(q, c))
<1>1. ReadsOf(Append(q, c)) = ReadsOf(q)
  BY AppendPlaces DEF ReadsOf
<1>2. \A k \in ReadsOf(q) : Append(q, c)[k] = q[k]
  BY AppendPlaces DEF ReadsOf
<1>3. QED
  BY <1>1, <1>2, SameReads

\* its own HGETALL is,
LEMMA ReadBehind ==
  ASSUME NEW q \in Seq(Command), NEW c \in Command, IsRead(c), ReadsOf(q) = {},
         NEW ph, ph = IF c.caller = "compare" THEN "comparing" ELSE "loading"
  PROVE  Awaited(ph, Absent, Append(q, c))
<1> DEFINE p == Append(q, c)
           n == Len(q) + 1
<1>1. DOMAIN p = 1 .. n /\ p[n] = c /\ n \in Nat /\ n >= 1
  BY AppendPlaces
<1>2. \A k \in DOMAIN p : k # n => ~IsRead(p[k])
  BY AppendPlaces DEF ReadsOf
<1> HIDE DEF p, n
<1>3. ReadsOf(p) = {n}
  BY <1>1, <1>2 DEF ReadsOf
<1>4. Awaited(ph, Absent, p)
  BY <1>1, <1>3 DEF Awaited
<1>5. QED
  BY <1>4 DEF p

\* the oldest command is not, when it is a write,
LEMMA WriteGone ==
  ASSUME NEW q \in Seq(Command), q # <<>>, ~IsRead(Head(q)), NEW ph, NEW r,
         Awaited(ph, r, q)
  PROVE  Awaited(ph, r, Tail(q))
<1>1. \A k \in ReadsOf(q) : \E l \in ReadsOf(Tail(q)) : k = l + 1
  <2>1. ASSUME NEW k \in ReadsOf(q) PROVE k - 1 \in ReadsOf(Tail(q)) /\ k = (k - 1) + 1
    BY TailPlaces DEF ReadsOf
  <2>2. QED
    BY <2>1
<1>2. \A l \in ReadsOf(Tail(q)) : l \in Nat /\ l + 1 \in ReadsOf(q)
  BY TailPlaces DEF ReadsOf
<1>3. CASE ReadsOf(q) = {}
  <2>1. ReadsOf(Tail(q)) = {}
    BY <1>2, <1>3
  <2>2. QED
    BY <1>3, <2>1 DEF Awaited
<1>4. CASE ReadsOf(q) # {}
  <2>1. PICK k \in DOMAIN q :
          /\ r = Absent /\ ReadsOf(q) = {k}
          /\ ph = IF q[k].caller = "compare" THEN "comparing" ELSE "loading"
    BY <1>4 DEF Awaited
  <2>2. PICK l \in ReadsOf(Tail(q)) : k = l + 1
    BY <1>1, <2>1
  <2>3. l \in DOMAIN Tail(q) /\ l \in Nat /\ Tail(q)[l] = q[k]
    BY <2>2, TailPlaces DEF ReadsOf
  <2>4. ASSUME NEW m \in ReadsOf(Tail(q)) PROVE m = l
    <3>1. m \in Nat /\ m + 1 = l + 1
      BY <1>2, <2>1, <2>2
    <3>2. QED
      BY <2>3, <3>1
  <2>5. ReadsOf(Tail(q)) = {l}
    BY <2>4
  <2>6. QED
    BY <2>1, <2>3, <2>5 DEF Awaited
<1>5. QED
  BY <1>3, <1>4

\* and when it is a read, it is the only one.
LEMMA ReadGone ==
  ASSUME NEW q \in Seq(Command), q # <<>>, IsRead(Head(q)), NEW ph, NEW r,
         Awaited(ph, r, q)
  PROVE  ReadsOf(Tail(q)) = {} /\ ph # "idle" /\ r = Absent
<1>1. 1 \in ReadsOf(q)
  BY TailPlaces DEF ReadsOf
<1>2. ReadsOf(q) = {1} /\ ph # "idle" /\ r = Absent
  BY <1>1 DEF Awaited
<1>3. ASSUME NEW k \in ReadsOf(Tail(q)) PROVE FALSE
  <2>1. k \in Nat /\ k >= 1 /\ k + 1 \in ReadsOf(q)
    BY TailPlaces DEF ReadsOf
  <2>2. QED
    BY <1>2, <2>1
<1>4. QED
  BY <1>2, <1>3

\* What an operation tells Redis is what it has put into memory.
Tells(i, s) ==
  \E e \in Slot, c \in Strict \union {"none"} :
    /\ Put(i, s, e)
    /\ Send(i, [sid |-> s, value |-> e, caller |-> c])
    /\ UNCHANGED <<mode, phase, snapshot, faults>>

LEMMA AdminTells ==
  ASSUME TypeOK, NEW i \in Instances, NEW s \in Services, NEW t \in 0 .. MaxClock,
         Admin(i, s, t)
  PROVE  Tells(i, s)
<1>1. ASSUME NEW m \in Manifests, Register(i, s, m, t)
      PROVE  Tells(i, s)
  <2> DEFINE e == NewEntry(services[i][s], m, t)
             c == IF services[i][s] = Absent THEN "register" ELSE "update"
  <2>1. e \in Slot /\ c \in Strict \union {"none"}
    BY NewEntryIsEntry DEF Slot, Strict
  <2>2. /\ Put(i, s, e)
        /\ Send(i, [sid |-> s, value |-> e, caller |-> c])
        /\ UNCHANGED <<mode, phase, snapshot, faults>>
    BY <1>1 DEF Register
  <2> HIDE DEF e, c
  <2>3. QED
    BY <2>1, <2>2 DEF Tells
<1>2. ASSUME Deprecate(i, s, t) \/ Retire(i, s, t) \/ Activate(i, s, t)
      PROVE  Tells(i, s)
  <2>1. services[i][s] # Absent /\ UNCHANGED <<mode, phase, snapshot, faults>>
    BY <1>2 DEF Deprecate, Retire, Activate
  <2>2. PICK x \in Status :
          Amend(i, s, [services[i][s] EXCEPT !.status = x, !.updatedAt = t])
    BY <1>2 DEF Deprecate, Retire, Activate, Status
  <2> DEFINE e == [services[i][s] EXCEPT !.status = x, !.updatedAt = t]
  <2>3. e \in Slot
    BY <2>1, AmendedEntry
  <2>4. Put(i, s, e) /\ Send(i, [sid |-> s, value |-> e, caller |-> "none"])
    BY <2>2 DEF Amend
  <2> HIDE DEF e
  <2>5. QED
    BY <2>1, <2>3, <2>4 DEF Tells
<1>3. QED
  BY <1>1, <1>2 DEF Admin

LEMMA DeregisterTells ==
  ASSUME NEW i \in Instances, NEW s \in Services, Deregister(i, s)
  PROVE  Tells(i, s)
<1>1. Absent \in Slot /\ "deregister" \in Strict \union {"none"}
  BY DEF Slot, Strict
<1>2. QED
  BY <1>1 DEF Deregister, Tells

LEMMA ProbeTells ==
  ASSUME TypeOK, NEW i \in Instances, NEW s \in Services, NEW h \in BOOLEAN,
         NEW t \in 0 .. MaxClock, ProbeAnswered(i, s, h, t)
  PROVE  Tells(i, s) \/ UNCHANGED <<mode, services, sent, phase, snapshot, faults>>
<1> DEFINE e == [services[i][s] EXCEPT !.healthy = h, !.updatedAt = t]
<1>1. UNCHANGED <<mode, phase, snapshot, faults>>
  BY DEF ProbeAnswered
<1>2. CASE services[i][s] # Absent /\ Amend(i, s, e)
  <2>1. e \in Slot
    BY <1>2, AmendedEntry
  <2>2. Put(i, s, e) /\ Send(i, [sid |-> s, value |-> e, caller |-> "none"])
    BY <1>2 DEF Amend
  <2> HIDE DEF e
  <2>3. QED
    BY <1>1, <2>1, <2>2 DEF Tells
<1>3. CASE UNCHANGED <<services, sent>>
  BY <1>1, <1>3
<1>4. QED
  BY <1>2, <1>3 DEF ProbeAnswered, SetHealth

\* The steps, as a connection sees them.
Elsewhere(i) ==
  /\ UNCHANGED mode[i] /\ UNCHANGED services[i] /\ UNCHANGED sent[i]
  /\ UNCHANGED phase[i] /\ UNCHANGED snapshot[i]

\* The steps that concern one connection without telling Redis of a change.
Serves(i) ==
  \/ StartReconciliation(i)
  \/ CompareSnapshot(i)
  \/ LoadSnapshot(i)
  \/ ExecuteWrite(i)
  \/ ExecuteRead(i)
  \/ Boot(i)

Fails(i) ==
  \/ DropWrite(i)
  \/ DropRead(i)
  \/ \E k \in 1 .. (MaxQueue + 1) : Timeout(i, k)
  \/ Crash(i)
  \/ BootMemoryOnly(i)

LEMMA ConnectionStep ==
  ASSUME TypeOK, [Next]_vars, NEW i \in Instances
  PROVE  \/ Elsewhere(i)
         \/ \E s \in Services : Tells(i, s)
         \/ Serves(i)
         \/ Fails(i)
<1>1. CASE UNCHANGED vars
  BY <1>1 DEF vars, Elsewhere
<1>2. ASSUME NEW j \in Instances, j # i, NEW s \in Services, Tells(j, s)
      PROVE  Elsewhere(i)
  BY <1>2 DEF Tells, Put, Send, Elsewhere, TypeOK
<1>3. ASSUME NEW j \in Instances, j # i, Serves(j) \/ Fails(j)
      PROVE  Elsewhere(i)
  <2>1. ASSUME DropWrite(j) \/ \E k \in 1 .. (MaxQueue + 1) : Timeout(j, k)
        PROVE  Elsewhere(i)
    BY <1>3, <2>1 DEF DropWrite, Timeout, Rejected, Put, Elsewhere, TypeOK
  <2>2. ASSUME ExecuteWrite(j) \/ ExecuteRead(j) \/ DropRead(j)
        PROVE  Elsewhere(i)
    BY <1>3, <2>2 DEF ExecuteWrite, ExecuteRead, DropRead, Elsewhere, TypeOK
  <2>3. ASSUME StartReconciliation(j) \/ CompareSnapshot(j) \/ LoadSnapshot(j)
        PROVE  Elsewhere(i)
    BY <1>3, <2>3 DEF StartReconciliation, CompareSnapshot, LoadSnapshot, Send, Elsewhere,
       TypeOK
  <2>4. ASSUME Boot(j) \/ BootMemoryOnly(j) \/ Crash(j)
        PROVE  Elsewhere(i)
    BY <1>3, <2>4 DEF Boot, BootMemoryOnly, Crash, Elsewhere, TypeOK
  <2>5. QED
    BY <1>3, <2>1, <2>2, <2>3, <2>4 DEF Serves, Fails
<1>4. ASSUME NEW j \in Instances, NEW s \in Services, NEW t \in 0 .. MaxClock, Admin(j, s, t)
      PROVE  Tells(j, s)
  BY <1>4, AdminTells
<1>5. ASSUME NEW j \in Instances, NEW s \in Services, Deregister(j, s)
      PROVE  Tells(j, s)
  BY <1>5, DeregisterTells
<1>6. ASSUME NEW j \in Instances, NEW s \in Services, NEW h \in BOOLEAN,
             NEW t \in 0 .. MaxClock, ProbeAnswered(j, s, h, t)
      PROVE  Tells(j, s) \/ Elsewhere(i)
  BY <1>6, ProbeTells DEF Elsewhere
<1>7. ASSUME NEW j \in Instances, StartSweep(j)
      PROVE  Elsewhere(i)
  BY <1>7 DEF StartSweep, Elsewhere
<1>8. \/ Elsewhere(i)
      \/ \E j \in Instances : \/ \E s \in Services : Tells(j, s)
                              \/ Serves(j)
                              \/ Fails(j)
  BY <1>1, <1>4, <1>5, <1>6, <1>7 DEF Next, Serves, Fails
<1>9. QED
  BY <1>2, <1>3, <1>8

\* Without a connection nothing is asked of Redis; with one, what is asked is
\* awaited.
Waits(m, ph, r, q) ==
  /\ m # "connected" => ph = "idle" /\ q = <<>>
  /\ Awaited(ph, r, q)

\* The inductive invariant.
ReloadInv ==
  /\ TypeOK
  /\ \A i \in Instances : Waits(mode[i], phase[i], snapshot[i], sent[i])

WaitsNext(i) == Waits(mode'[i], phase'[i], snapshot'[i], sent'[i])

LEMMA NoReads == ReadsOf(<<>>) = {}
BY DEF ReadsOf

LEMMA InitReload == Init => ReloadInv
BY InitType, NoReads DEF Init, ReloadInv, Waits, Awaited

\* A write is queued on a connection, or nothing is.
LEMMA TellsWaits ==
  ASSUME ReloadInv, NEW i \in Instances, NEW s \in Services, Tells(i, s)
  PROVE  WaitsNext(i)
<1>1. PICK e \in Slot, c \in Strict \union {"none"} :
        Send(i, [sid |-> s, value |-> e, caller |-> c])
  BY DEF Tells
<1> DEFINE cmd == [sid |-> s, value |-> e, caller |-> c]
<1>2. cmd \in Command /\ ~IsRead(cmd)
  BY WriteType DEF IsRead, Strict
<1>3. /\ mode'[i] = mode[i] /\ phase'[i] = phase[i] /\ snapshot'[i] = snapshot[i]
      /\ Waits(mode[i], phase[i], snapshot[i], sent[i])
      /\ sent[i] \in Seq(Command)
  BY DEF Tells, ReloadInv, TypeOK
<1>4. \/ sent'[i] = sent[i]
      \/ mode[i] = "connected" /\ sent'[i] = Append(sent[i], cmd)
  BY <1>1 DEF Send, ReloadInv, TypeOK
<1> HIDE DEF cmd
<1>5. QED
  BY <1>2, <1>3, <1>4, WriteBehind DEF Waits, WaitsNext

\* The drift job asks for the hash,
LEMMA StartWaits ==
  ASSUME ReloadInv, NEW i \in Instances, StartReconciliation(i)
  PROVE  WaitsNext(i)
<1> DEFINE cmd == [caller |-> "compare"]
<1>1. cmd \in Command /\ IsRead(cmd) /\ cmd.caller = "compare"
  BY DEF Command, Read, IsRead
<1>2. /\ mode'[i] = "connected" /\ phase'[i] = "comparing" /\ snapshot'[i] = snapshot[i]
      /\ sent'[i] = Append(sent[i], cmd) /\ sent[i] \in Seq(Command)
  BY DEF StartReconciliation, Send, ReloadInv, TypeOK
<1>3. ReadsOf(sent[i]) = {} /\ snapshot[i] = Absent
  <2>1. Awaited("idle", snapshot[i], sent[i])
    BY DEF StartReconciliation, ReloadInv, Waits
  <2>2. QED
    BY <2>1 DEF Awaited
<1> HIDE DEF cmd
<1>4. QED
  BY <1>1, <1>2, <1>3, ReadBehind DEF Waits, WaitsNext

\* compares the reply and ends or asks again,
LEMMA CompareWaits ==
  ASSUME ReloadInv, NEW i \in Instances, CompareSnapshot(i)
  PROVE  WaitsNext(i)
<1> DEFINE cmd == [caller |-> "load"]
<1>1. cmd \in Command /\ IsRead(cmd) /\ cmd.caller = "load"
  BY DEF Command, Read, IsRead
<1>2. mode[i] = "connected" /\ ReadsOf(sent[i]) = {}
  <2>1. /\ Waits(mode[i], phase[i], snapshot[i], sent[i])
        /\ phase[i] = "comparing" /\ snapshot[i] # Absent
    BY DEF CompareSnapshot, ReloadInv
  <2>2. QED
    BY <2>1 DEF Waits, Awaited
<1>3. mode'[i] = "connected" /\ snapshot'[i] = Absent /\ sent[i] \in Seq(Command)
  BY <1>2 DEF CompareSnapshot, ReloadInv, TypeOK
<1>4. \/ phase'[i] = "loading" /\ sent'[i] = Append(sent[i], cmd)
      \/ phase'[i] = "idle" /\ sent'[i] = sent[i]
  BY <1>2 DEF CompareSnapshot, Send, ReloadInv, TypeOK
<1> HIDE DEF cmd
<1>5. ASSUME phase'[i] = "loading", sent'[i] = Append(sent[i], cmd)
      PROVE  Awaited(phase'[i], Absent, sent'[i])
  BY <1>1, <1>2, <1>3, <1>5, ReadBehind
<1>6. ASSUME phase'[i] = "idle", sent'[i] = sent[i]
      PROVE  Awaited(phase'[i], Absent, sent'[i])
  BY <1>2, <1>6 DEF Awaited
<1>7. QED
  BY <1>3, <1>4, <1>5, <1>6 DEF Waits, WaitsNext

\* and ends once it has loaded it.
LEMMA LoadWaits ==
  ASSUME ReloadInv, NEW i \in Instances, LoadSnapshot(i)
  PROVE  WaitsNext(i)
<1>1. /\ Waits(mode[i], phase[i], snapshot[i], sent[i])
      /\ phase[i] = "loading" /\ snapshot[i] # Absent
  BY DEF LoadSnapshot, ReloadInv
<1>2. mode[i] = "connected" /\ ReadsOf(sent[i]) = {}
  BY <1>1 DEF Waits, Awaited
<1>3. /\ mode'[i] = mode[i] /\ phase'[i] = "idle" /\ snapshot'[i] = Absent
      /\ sent'[i] = sent[i]
  BY DEF LoadSnapshot, ReloadInv, TypeOK
<1>4. QED
  BY <1>2, <1>3 DEF Waits, WaitsNext, Awaited

\* Redis answers, or the connection fails under the oldest command.
LEMMA HeadWaits ==
  ASSUME ReloadInv, NEW i \in Instances,
         ExecuteWrite(i) \/ ExecuteRead(i) \/ DropWrite(i) \/ DropRead(i)
  PROVE  WaitsNext(i)
<1> DEFINE q == sent[i]
<1>1. /\ q \in Seq(Command) /\ q # <<>> /\ sent'[i] = Tail(q) /\ mode'[i] = mode[i]
      /\ Waits(mode[i], phase[i], snapshot[i], q)
  BY DEF ExecuteWrite, ExecuteRead, DropWrite, DropRead, ReloadInv, TypeOK
<1>2. mode[i] = "connected" /\ Awaited(phase[i], snapshot[i], q)
  BY <1>1 DEF Waits
<1>3. ASSUME ExecuteWrite(i) \/ DropWrite(i)
      PROVE  Awaited(phase'[i], snapshot'[i], Tail(q))
  <2>1. ~IsRead(Head(q)) /\ phase'[i] = phase[i] /\ snapshot'[i] = snapshot[i]
    BY <1>3 DEF ExecuteWrite, DropWrite
  <2>2. QED
    BY <1>1, <1>2, <2>1, WriteGone
<1>4. ASSUME ExecuteRead(i)
      PROVE  Awaited(phase'[i], snapshot'[i], Tail(q))
  <2>1. IsRead(Head(q)) /\ phase'[i] = phase[i] /\ snapshot'[i] = redis
    BY <1>4 DEF ExecuteRead, ReloadInv, TypeOK
  <2>2. redis # Absent
    BY RegistryAssumption DEF ReloadInv, TypeOK
  <2>3. ReadsOf(Tail(q)) = {} /\ phase[i] # "idle"
    BY <1>1, <1>2, <2>1, ReadGone
  <2>4. QED
    BY <2>1, <2>2, <2>3 DEF Awaited
<1>5. ASSUME DropRead(i)
      PROVE  Awaited(phase'[i], snapshot'[i], Tail(q))
  <2>1. IsRead(Head(q)) /\ phase'[i] = "idle" /\ snapshot'[i] = snapshot[i]
    BY <1>5 DEF DropRead, ReloadInv, TypeOK
  <2>2. ReadsOf(Tail(q)) = {} /\ snapshot[i] = Absent
    BY <1>1, <1>2, <2>1, ReadGone
  <2>3. QED
    BY <2>1, <2>2 DEF Awaited
<1>6. QED
  BY <1>1, <1>2, <1>3, <1>4, <1>5 DEF Waits, WaitsNext

\* A time-out only changes who awaits a write.
LEMMA TimeoutWaits ==
  ASSUME ReloadInv, NEW i \in Instances, NEW k \in 1 .. (MaxQueue + 1), Timeout(i, k)
  PROVE  WaitsNext(i)
<1>1. TypeOK /\ sent[i][k] \in Write /\ k \in DOMAIN sent[i]
  BY TimedOutWrite DEF ReloadInv, Timeout
<1> DEFINE q == sent[i]
           c == [q[k] EXCEPT !.caller = "none"]
           p == [q EXCEPT ![k] = c]
<1>2. sent'[i] = p /\ q \in Seq(Command)
  BY <1>1 DEF Timeout, TypeOK
<1>3. ~IsRead(c) /\ ~IsRead(q[k])
  BY <1>1 DEF IsRead, Write, Strict
<1>4. /\ mode'[i] = mode[i] /\ phase'[i] = phase[i] /\ snapshot'[i] = snapshot[i]
      /\ Waits(mode[i], phase[i], snapshot[i], q)
  BY DEF Timeout, ReloadInv
<1> HIDE DEF c
<1>5. DOMAIN p = DOMAIN q /\ p[k] = c /\ \A l \in DOMAIN q : l # k => p[l] = q[l]
  BY <1>1
<1>6. q # <<>>
  BY <1>1
<1> HIDE DEF p, q
<1>7. ReadsOf(p) = ReadsOf(q) /\ \A l \in ReadsOf(q) : p[l] = q[l]
  BY <1>3, <1>5 DEF ReadsOf
<1>8. Awaited(phase[i], snapshot[i], p)
  BY <1>4, <1>7, SameReads DEF Waits
<1>9. mode[i] = "connected"
  BY <1>4, <1>6 DEF Waits
<1>10. QED
  BY <1>2, <1>4, <1>8, <1>9 DEF Waits, WaitsNext

\* A process ends with its connection, and starts with a new one or none.
LEMMA RestartWaits ==
  ASSUME ReloadInv, NEW i \in Instances, Crash(i) \/ Boot(i) \/ BootMemoryOnly(i)
  PROVE  WaitsNext(i)
<1>1. CASE Crash(i)
  <2>1. phase'[i] = "idle" /\ snapshot'[i] = Absent /\ sent'[i] = <<>>
    BY <1>1 DEF Crash, ReloadInv, TypeOK
  <2>2. QED
    BY <2>1, NoReads DEF Waits, WaitsNext, Awaited
<1>2. CASE Boot(i) \/ BootMemoryOnly(i)
  <2>1. /\ mode[i] = "down" /\ phase'[i] = phase[i] /\ snapshot'[i] = snapshot[i]
        /\ sent'[i] = sent[i] /\ Waits(mode[i], phase[i], snapshot[i], sent[i])
    BY <1>2 DEF Boot, BootMemoryOnly, ReloadInv
  <2>2. QED
    BY <2>1 DEF Waits, WaitsNext
<1>3. QED
  BY <1>1, <1>2

LEMMA NextReload ==
  ASSUME ReloadInv, [Next]_vars
  PROVE  ReloadInv'
<1>1. TypeOK /\ TypeOK'
  BY NextType DEF ReloadInv
<1>2. ASSUME NEW i \in Instances
      PROVE  WaitsNext(i)
  <2>1. CASE Elsewhere(i)
    BY <2>1 DEF Elsewhere, ReloadInv, WaitsNext
  <2>2. CASE \E s \in Services : Tells(i, s)
    BY <2>2, TellsWaits
  <2>3. CASE Serves(i)
    BY <2>3, StartWaits, CompareWaits, LoadWaits, HeadWaits, RestartWaits DEF Serves
  <2>4. CASE Fails(i)
    BY <2>4, HeadWaits, TimeoutWaits, RestartWaits DEF Fails
  <2>5. QED
    BY <1>1, <2>1, <2>2, <2>3, <2>4, ConnectionStep
<1>3. QED
  BY <1>1, <1>2 DEF ReloadInv, WaitsNext

\* handleRedisDriftReconciliation() always has exactly one HGETALL under way
\* or one reply in hand while it runs, and none when it does not: no lost
\* connection, time-out or restart leaves its flag set with nothing to wait for,
\* and no reply to an earlier run reaches a later one.
THEOREM DriftJobIsAnswered == Spec => []ReloadIsAnswered
<1>1. ReloadInv => ReloadIsAnswered
  BY AwaitedByAll DEF ReloadInv, Waits
<1>2. ReloadInv /\ [Next]_vars => ReloadInv'
  BY NextReload
<1>3. QED
  BY <1>1, <1>2, InitReload, PTL DEF Spec

-----------------------------------------------------------------------------
(* The order of the commands about a service.                              *)

WritesOf(q, s) == {k \in DOMAIN q : ~IsRead(q[k]) /\ q[k].sid = s}

\* What LastSent says of one instance and service.
LastIs(q, s, v) ==
  WritesOf(q, s) # {} =>
    \E k \in WritesOf(q, s) : q[k].value = v /\ \A j \in WritesOf(q, s) : j <= k

LEMMA LastSentIs ==
  ASSUME NEW i \in Instances, NEW s \in Services
  PROVE  /\ LastSent(i, s) <=> LastIs(sent[i], s, services[i][s])
         /\ LastSent(i, s)' <=> LastIs(sent'[i], s, services'[i][s])
BY DEF LastSent, LastIs, Writes, WritesOf

\* The newest command is the last one about its service,
LEMMA OwnBehind ==
  ASSUME NEW q \in Seq(Command), NEW c \in Command, ~IsRead(c)
  PROVE  LastIs(Append(q, c), c.sid, c.value)
<1> DEFINE p == Append(q, c)
           n == Len(q) + 1
<1>1. DOMAIN p = 1 .. n /\ p[n] = c /\ n \in Nat /\ n >= 1
  BY AppendPlaces
<1> HIDE DEF p, n
<1>2. n \in WritesOf(p, c.sid) /\ \A j \in WritesOf(p, c.sid) : j <= n
  BY <1>1 DEF WritesOf
<1>3. LastIs(p, c.sid, c.value)
  BY <1>1, <1>2 DEF LastIs
<1>4. QED
  BY <1>3 DEF p

\* and the last one about any other service is the one it was.
LEMMA OtherBehind ==
  ASSUME NEW q \in Seq(Command), NEW c \in Command, NEW s, IsRead(c) \/ c.sid # s,
         NEW v, LastIs(q, s, v)
  PROVE  LastIs(Append(q, c), s, v)
<1> DEFINE p == Append(q, c)
<1>1. /\ Len(q) \in Nat /\ DOMAIN q = 1 .. Len(q) /\ DOMAIN p = 1 .. (Len(q) + 1)
      /\ p[Len(q) + 1] = c /\ \A k \in 1 .. Len(q) : p[k] = q[k]
  BY AppendPlaces
<1> HIDE DEF p
<1>2. WritesOf(p, s) = WritesOf(q, s) /\ \A k \in WritesOf(q, s) : p[k] = q[k]
  BY <1>1 DEF WritesOf
<1>3. LastIs(p, s, v)
  BY <1>2 DEF LastIs
<1>4. QED
  BY <1>3 DEF p

\* When the oldest command is gone, the last one is still the last.
LEMMA LastStays ==
  ASSUME NEW q \in Seq(Command), q # <<>>, NEW s, NEW v, LastIs(q, s, v)
  PROVE  LastIs(Tail(q), s, v)
<1> DEFINE p == Tail(q)
<1>1. /\ Len(q) \in Nat /\ DOMAIN q = 1 .. Len(q) /\ DOMAIN p = 1 .. (Len(q) - 1)
      /\ \A k \in 1 .. (Len(q) - 1) : p[k] = q[k + 1]
  BY TailPlaces
<1> HIDE DEF p
<1>2. \A k \in WritesOf(p, s) : k \in Nat /\ k >= 1 /\ k + 1 \in WritesOf(q, s)
  BY <1>1 DEF WritesOf
<1>3. ASSUME NEW j \in WritesOf(p, s)
      PROVE  \E k \in WritesOf(p, s) : p[k].value = v /\ \A l \in WritesOf(p, s) : l <= k
  <2>1. PICK m \in WritesOf(q, s) : q[m].value = v /\ \A l \in WritesOf(q, s) : l <= m
    BY <1>2 DEF LastIs
  <2>2. m \in 1 .. Len(q) /\ j + 1 <= m /\ j \in Nat /\ j >= 1
    BY <1>1, <1>2, <2>1 DEF WritesOf
  <2>3. m - 1 \in 1 .. (Len(q) - 1) /\ p[m - 1] = q[m]
    BY <1>1, <2>2
  <2>4. m - 1 \in WritesOf(p, s) /\ p[m - 1].value = v
    BY <1>1, <2>1, <2>3 DEF WritesOf
  <2>5. ASSUME NEW l \in WritesOf(p, s) PROVE l <= m - 1
    <3>1. l \in Nat /\ l + 1 <= m
      BY <1>2, <2>1
    <3>2. QED
      BY <2>2, <3>1
  <2>6. QED
    BY <2>4, <2>5
<1>4. LastIs(p, s, v)
  BY <1>3 DEF LastIs
<1>5. QED
  BY <1>4 DEF p

LEMMA NothingSent == \A s, v : LastIs(<<>>, s, v)
BY DEF LastIs, WritesOf

\* An operation sends what it puts into memory.
LEMMA TellsLast ==
  ASSUME ReloadInv, NEW i \in Instances, NEW r \in Services, Tells(i, r),
         NEW s \in Services, LastIs(sent[i], s, services[i][s])
  PROVE  LastIs(sent'[i], s, services'[i][s])
<1>1. PICK e \in Slot, c \in Strict \union {"none"} :
        /\ Put(i, r, e)
        /\ Send(i, [sid |-> r, value |-> e, caller |-> c])
  BY DEF Tells
<1> DEFINE cmd == [sid |-> r, value |-> e, caller |-> c]
<1>2. cmd \in Command /\ ~IsRead(cmd) /\ cmd.sid = r /\ cmd.value = e
  BY WriteType DEF IsRead, Strict
<1>3. services'[i][s] = IF s = r THEN e ELSE services[i][s]
  BY <1>1 DEF Put, ReloadInv, TypeOK, Hash
<1>4. sent[i] \in Seq(Command)
  BY DEF ReloadInv, TypeOK
<1>5. CASE mode[i] = "connected"
  <2>1. sent'[i] = Append(sent[i], cmd)
    BY <1>1, <1>5 DEF Send, ReloadInv, TypeOK
  <2> HIDE DEF cmd
  <2>2. CASE s = r
    BY <1>2, <1>3, <1>4, <2>1, <2>2, OwnBehind
  <2>3. CASE s # r
    BY <1>2, <1>3, <1>4, <2>1, <2>3, OtherBehind
  <2>4. QED
    BY <2>2, <2>3
<1>6. CASE mode[i] # "connected"
  <2>1. sent[i] = <<>>
    BY <1>6 DEF ReloadInv, Waits
  <2>2. sent'[i] = sent[i]
    BY <1>1, <1>6 DEF Send
  <2>3. QED
    BY <2>1, <2>2, NothingSent
<1>7. QED
  BY <1>5, <1>6

\* The drift job asks, Redis answers or a process starts: memory stays.
LEMMA ServesLast ==
  ASSUME ReloadInv, NEW i \in Instances, Serves(i), ~LoadSnapshot(i),
         NEW s \in Services, LastIs(sent[i], s, services[i][s])
  PROVE  LastIs(sent'[i], s, services'[i][s])
<1>1. TypeOK /\ sent[i] \in Seq(Command)
  BY DEF ReloadInv, TypeOK
<1>2. CASE StartReconciliation(i) \/ CompareSnapshot(i)
  <2>1. ASSUME NEW x \in {"compare", "load"}
        PROVE  [caller |-> x] \in Command /\ IsRead([caller |-> x])
    BY DEF Command, Read, IsRead
  <2>2. services'[i] = services[i]
    BY <1>2 DEF StartReconciliation, CompareSnapshot
  <2>3. \/ sent'[i] = sent[i]
        \/ \E x \in {"compare", "load"} : sent'[i] = Append(sent[i], [caller |-> x])
    BY <1>1, <1>2 DEF StartReconciliation, CompareSnapshot, Send, TypeOK
  <2>4. QED
    BY <1>1, <2>1, <2>2, <2>3, OtherBehind
<1>3. CASE ExecuteWrite(i) \/ ExecuteRead(i)
  <2>1. services'[i] = services[i] /\ sent[i] # <<>> /\ sent'[i] = Tail(sent[i])
    BY <1>1, <1>3 DEF ExecuteWrite, ExecuteRead, TypeOK
  <2>2. QED
    BY <1>1, <2>1, LastStays
<1>4. CASE Boot(i)
  <2>1. sent[i] = <<>> /\ sent'[i] = sent[i]
    BY <1>4 DEF Boot, ReloadInv, Waits
  <2>2. QED
    BY <2>1, NothingSent
<1>5. QED
  BY <1>2, <1>3, <1>4 DEF Serves

\* A fault is counted.
LEMMA FailsCounts ==
  ASSUME TypeOK, NEW i \in Instances, Fails(i)
  PROVE  faults' # faults
<1>1. PICK kind \in {"drop", "timeout", "crash", "outage"} : Fault(kind)
  BY DEF Fails, DropWrite, DropRead, Timeout, Crash, BootMemoryOnly
<1>2. faults \in Nat
  BY RegistryAssumption DEF TypeOK
<1>3. QED
  BY <1>1, <1>2 DEF Fault

\* On any number of instances, with both cron jobs and every fault: what an
\* instance sent last about a service is what it has in memory, until
\* loadFromRedis() puts something else there or something fails.  An
\* operation changes memory and sends its command between two awaits, so that
\* no other one comes between.
THEOREM OperationsStayInOrder == Spec => PartsOnlyByReloadOrFault
<1>1. ASSUME ReloadInv, [Next]_vars, NEW i \in Instances, NEW s \in Services,
             LastIs(sent[i], s, services[i][s]), ~LastIs(sent'[i], s, services'[i][s])
      PROVE  LoadSnapshot(i) \/ faults' # faults
  <2>1. TypeOK
    BY <1>1 DEF ReloadInv
  <2>2. ~Elsewhere(i)
    BY <1>1 DEF Elsewhere
  <2>3. \A r \in Services : ~Tells(i, r)
    BY <1>1, TellsLast
  <2>4. Serves(i) => LoadSnapshot(i)
    BY <1>1, ServesLast
  <2>5. QED
    BY <1>1, <2>1, <2>2, <2>3, <2>4, ConnectionStep, FailsCounts
<1>2. ReloadInv /\ [Next]_vars
      => [\A i \in Instances, s \in Services :
            LastSent(i, s) /\ ~LastSent(i, s)' => LoadSnapshot(i) \/ faults' # faults]_vars
  BY <1>1, LastSentIs
<1>3. ReloadInv /\ [Next]_vars => ReloadInv'
  BY NextReload
<1>4. QED
  BY <1>2, <1>3, InitReload, PTL DEF Spec, PartsOnlyByReloadOrFault
=============================================================================
