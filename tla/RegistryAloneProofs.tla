------------------------- MODULE RegistryAloneProofs -------------------------
(***************************************************************************)
(* Facts about the registry of a gateway that runs as one container: for   *)
(* any services and manifests and any value of the bounds.  With a second  *)
(* container, whose writes arrive in Redis between its own, none of them   *)
(* holds but OperationsFollowLifecycle; that is what the drift job is for. *)
(***************************************************************************)
EXTENDS RegistryProofs

\* One container at most.
Alone == \A i, j \in Instances : i = j

-----------------------------------------------------------------------------
(* Before the first boot there is nothing.                                 *)

Fresh(i) ==
  /\ \A s \in Services : services[i][s] = Absent /\ redis[s] = Absent
  /\ sent[i] = <<>>
  /\ snapshot[i] = Absent
  /\ phase[i] = "idle"
  /\ probing[i] = {}

\* A container that is down has not run yet, unless it crashed; and without a
\* fault it does not run in memory only.
FreshInv ==
  /\ TypeOK
  /\ NothingFailed \/ "crash" \notin FaultKinds =>
       \A i \in Instances : mode[i] = "down" => Fresh(i)
  /\ NothingFailed => \A i \in Instances : mode[i] # "memoryOnly"

\* Faults only become fewer.
LEMMA FaultsFall ==
  ASSUME TypeOK, [Next]_vars
  PROVE  /\ faults' = faults \/ \E kind \in FaultKinds : Fault(kind)
         /\ NothingFailed' => NothingFailed /\ faults' = faults
<1>1. faults' = faults \/ \E kind \in FaultKinds : Fault(kind)
  <2>1. CASE UNCHANGED vars
    BY <2>1 DEF vars
  <2>2. ASSUME NEW i \in Instances, NEW s \in Services, NEW t \in 0 .. MaxClock,
               Admin(i, s, t)
        PROVE  faults' = faults
    BY <2>2 DEF Admin, Register, Deprecate, Retire, Activate
  <2>3. ASSUME NEW i \in Instances, NEW s \in Services, NEW h \in BOOLEAN,
               NEW t \in 0 .. MaxClock, ProbeAnswered(i, s, h, t)
        PROVE  faults' = faults
    BY <2>3 DEF ProbeAnswered
  <2>4. ASSUME NEW i \in Instances,
               \/ \E s \in Services : Deregister(i, s)
               \/ StartSweep(i)
               \/ StartReconciliation(i)
               \/ CompareSnapshot(i)
               \/ LoadSnapshot(i)
               \/ ExecuteWrite(i)
               \/ ExecuteRead(i)
               \/ Boot(i)
        PROVE  faults' = faults
    BY <2>4 DEF Deregister, StartSweep, StartReconciliation, CompareSnapshot, LoadSnapshot,
       ExecuteWrite, ExecuteRead, Boot
  <2>5. ASSUME NEW i \in Instances,
               \/ DropWrite(i)
               \/ DropRead(i)
               \/ \E k \in 1 .. (MaxQueue + 1) : Timeout(i, k)
               \/ Crash(i)
               \/ BootMemoryOnly(i)
        PROVE  \E kind \in FaultKinds : Fault(kind)
    BY <2>5 DEF DropWrite, DropRead, Timeout, Crash, BootMemoryOnly, Fault
  <2>6. QED
    BY <2>1, <2>2, <2>3, <2>4, <2>5 DEF Next
<1>2. faults \in Nat /\ faults <= MaxFaults /\ MaxFaults \in Nat
  BY RegistryAssumption DEF TypeOK
<1>3. QED
  BY <1>1, <1>2 DEF Fault, NothingFailed

\* Without a fault none of the faulty steps is taken.
LEMMA FaultIsSeen ==
  ASSUME TypeOK, NEW kind, Fault(kind)
  PROVE  ~NothingFailed'
BY RegistryAssumption DEF TypeOK, Fault, NothingFailed

\* A container that has not run can only boot.
LEMMA FreshStaysDown ==
  ASSUME Alone, TypeOK, [Next]_vars, NEW i \in Instances, mode[i] = "down", Fresh(i)
  PROVE  Fresh(i)' \/ mode'[i] # "down"
<1>1. CASE UNCHANGED vars
  BY <1>1 DEF vars, Fresh
<1>2. ASSUME NEW s \in Services, NEW t \in 0 .. MaxClock, Admin(i, s, t)
      PROVE  FALSE
  BY <1>2 DEF Admin, Register, Deprecate, Retire, Activate, Fresh
<1>3. ASSUME NEW s \in Services, NEW h \in BOOLEAN, NEW t \in 0 .. MaxClock,
             ProbeAnswered(i, s, h, t)
      PROVE  FALSE
  BY <1>3 DEF ProbeAnswered, Fresh
<1>4. ASSUME \/ \E s \in Services : Deregister(i, s)
             \/ StartSweep(i)
             \/ StartReconciliation(i)
             \/ CompareSnapshot(i)
             \/ LoadSnapshot(i)
             \/ ExecuteWrite(i)
             \/ ExecuteRead(i)
             \/ DropWrite(i)
             \/ DropRead(i)
             \/ Crash(i)
      PROVE  FALSE
  BY <1>4 DEF Deregister, StartSweep, StartReconciliation, CompareSnapshot, LoadSnapshot,
     ExecuteWrite, ExecuteRead, DropWrite, DropRead, Crash, Fresh
<1>5. ASSUME NEW k \in 1 .. (MaxQueue + 1), Timeout(i, k)
      PROVE  FALSE
  BY <1>5 DEF Timeout, Fresh
<1>6. ASSUME Boot(i) \/ BootMemoryOnly(i)
      PROVE  mode'[i] # "down"
  BY <1>6 DEF Boot, BootMemoryOnly, TypeOK
<1>7. QED
  BY <1>1, <1>2, <1>3, <1>4, <1>5, <1>6 DEF Next, Alone

\* A container changes its mode when it crashes or boots.
LEMMA ModeChange ==
  ASSUME [Next]_vars
  PROVE  mode' = mode \/ \E i \in Instances : Crash(i) \/ Boot(i) \/ BootMemoryOnly(i)
<1>1. CASE UNCHANGED vars
  BY <1>1 DEF vars
<1>2. ASSUME NEW i \in Instances, NEW s \in Services, NEW t \in 0 .. MaxClock,
             Admin(i, s, t)
      PROVE  mode' = mode
  BY <1>2 DEF Admin, Register, Deprecate, Retire, Activate
<1>3. ASSUME NEW i \in Instances, NEW s \in Services, NEW h \in BOOLEAN,
             NEW t \in 0 .. MaxClock, ProbeAnswered(i, s, h, t)
      PROVE  mode' = mode
  BY <1>3 DEF ProbeAnswered
<1>4. ASSUME NEW i \in Instances,
             \/ \E s \in Services : Deregister(i, s)
             \/ StartSweep(i)
             \/ StartReconciliation(i)
             \/ CompareSnapshot(i)
             \/ LoadSnapshot(i)
             \/ ExecuteWrite(i)
             \/ ExecuteRead(i)
             \/ DropWrite(i)
             \/ DropRead(i)
             \/ \E k \in 1 .. (MaxQueue + 1) : Timeout(i, k)
      PROVE  mode' = mode
  BY <1>4 DEF Deregister, StartSweep, StartReconciliation, CompareSnapshot, LoadSnapshot,
     ExecuteWrite, ExecuteRead, DropWrite, DropRead, Timeout
<1>5. QED
  BY <1>1, <1>2, <1>3, <1>4 DEF Next

\* It goes down by a crash, and runs in memory only when Redis is not reached.
LEMMA ModeByFault ==
  ASSUME TypeOK, [Next]_vars, NEW i \in Instances, mode'[i] # mode[i]
  PROVE  /\ mode'[i] = "down" => ~NothingFailed' /\ "crash" \in FaultKinds
         /\ mode'[i] = "memoryOnly" => ~NothingFailed'
<1>1. PICK j \in Instances : Crash(j) \/ Boot(j) \/ BootMemoryOnly(j)
  BY ModeChange
<1>2. CASE Crash(j)
  BY <1>2, FaultIsSeen DEF Crash, Fault, TypeOK
<1>3. CASE Boot(j)
  BY <1>3 DEF Boot, TypeOK
<1>4. CASE BootMemoryOnly(j)
  BY <1>4, FaultIsSeen DEF BootMemoryOnly, TypeOK
<1>5. QED
  BY <1>1, <1>2, <1>3, <1>4

LEMMA NextFresh ==
  ASSUME Alone, FreshInv, [Next]_vars
  PROVE  FreshInv'
<1>1. TypeOK /\ TypeOK'
  BY NextType DEF FreshInv
<1>2. NothingFailed' => NothingFailed
  BY <1>1, FaultsFall
<1>3. ASSUME NothingFailed' \/ "crash" \notin FaultKinds, NEW i \in Instances, mode'[i] = "down"
      PROVE  Fresh(i)'
  <2>1. mode[i] = "down"
    BY <1>1, <1>3, ModeByFault
  <2>2. Fresh(i)
    BY <1>2, <1>3, <2>1 DEF FreshInv
  <2>3. QED
    BY <1>1, <1>3, <2>1, <2>2, FreshStaysDown
<1>4. ASSUME NothingFailed', NEW i \in Instances
      PROVE  mode'[i] # "memoryOnly"
  BY <1>1, <1>2, <1>4, ModeByFault DEF FreshInv
<1>5. QED
  BY <1>1, <1>3, <1>4 DEF FreshInv

LEMMA InitFresh == Init => FreshInv
BY InitType DEF Init, FreshInv, Fresh

\* The first boot finds nothing in Redis.
LEMMA BootLoadsNothing ==
  ASSUME FreshInv, NothingFailed \/ "crash" \notin FaultKinds, NEW i \in Instances, Boot(i)
  PROVE  services' = services
<1>1. Fresh(i) /\ TypeOK
  BY DEF FreshInv, Boot
<1>2. Loaded(services[i], redis) = services[i]
  BY <1>1 DEF Loaded, Fresh, TypeOK, Hash
<1>3. QED
  BY <1>1, <1>2 DEF Boot, TypeOK

\* Without the drift job nothing is loaded later.
IdleInv == "drift" \notin Crons => \A i \in Instances : phase[i] = "idle"

LEMMA NextIdle ==
  ASSUME TypeOK, IdleInv, [Next]_vars
  PROVE  IdleInv'
<1> SUFFICES ASSUME "drift" \notin Crons PROVE \A i \in Instances : phase'[i] = "idle"
  BY DEF IdleInv
<1>0. \A i \in Instances : phase[i] = "idle"
  BY DEF IdleInv
<1>1. CASE UNCHANGED vars
  BY <1>0, <1>1 DEF vars
<1>2. ASSUME NEW i \in Instances, NEW s \in Services, NEW t \in 0 .. MaxClock,
             Admin(i, s, t)
      PROVE  phase' = phase
  BY <1>2 DEF Admin, Register, Deprecate, Retire, Activate
<1>3. ASSUME NEW i \in Instances, NEW s \in Services, NEW h \in BOOLEAN,
             NEW t \in 0 .. MaxClock, ProbeAnswered(i, s, h, t)
      PROVE  phase' = phase
  BY <1>3 DEF ProbeAnswered
<1>4. ASSUME NEW i \in Instances,
             \/ \E s \in Services : Deregister(i, s)
             \/ StartSweep(i)
             \/ ExecuteWrite(i)
             \/ ExecuteRead(i)
             \/ DropWrite(i)
             \/ \E k \in 1 .. (MaxQueue + 1) : Timeout(i, k)
             \/ Boot(i)
             \/ BootMemoryOnly(i)
      PROVE  phase' = phase
  BY <1>4 DEF Deregister, StartSweep, ExecuteWrite, ExecuteRead, DropWrite, Timeout, Boot,
     BootMemoryOnly
<1>5. ASSUME NEW i \in Instances, Crash(i) \/ DropRead(i)
      PROVE  phase' = [phase EXCEPT ![i] = "idle"]
  BY <1>5 DEF Crash, DropRead
<1>6. ASSUME NEW i \in Instances,
             StartReconciliation(i) \/ CompareSnapshot(i) \/ LoadSnapshot(i)
      PROVE  FALSE
  BY <1>0, <1>6 DEF StartReconciliation, CompareSnapshot, LoadSnapshot
<1>7. phase' = phase \/ \E i \in Instances : phase' = [phase EXCEPT ![i] = "idle"]
  BY <1>1, <1>2, <1>3, <1>4, <1>5, <1>6 DEF Next, vars
<1>8. QED
  BY <1>0, <1>7 DEF TypeOK

-----------------------------------------------------------------------------
(* When nothing is loaded into the map.                                    *)

\* Every step changes at most one entry.
LEMMA AloneChanges ==
  ASSUME FreshInv, IdleInv, [Next]_vars,
         "crash" \notin FaultKinds, "drift" \notin Crons
  PROVE  \/ UNCHANGED <<services, gauge>>
         \/ \E i \in Instances, s \in Services : \E e : Changes(i, s, e)
<1>1. TypeOK
  BY DEF FreshInv
<1>2. ASSUME NEW i \in Instances, LoadSnapshot(i) \/ Crash(i)
      PROVE  FALSE
  BY <1>2 DEF LoadSnapshot, Crash, Fault, IdleInv
<1>3. ASSUME NEW i \in Instances, Boot(i)
      PROVE  UNCHANGED <<services, gauge>>
  BY <1>3, BootLoadsNothing DEF Boot
<1>4. QED
  BY <1>1, <1>2, <1>3, StepChanges

-----------------------------------------------------------------------------
(* The gauge.                                                              *)

GaugeInv == FreshInv /\ IdleInv /\ GaugeAccurate

LEMMA NextGauge ==
  ASSUME Alone, "crash" \notin FaultKinds, "drift" \notin Crons, GaugeInv, [Next]_vars
  PROVE  GaugeAccurate'
<1>1. TypeOK
  BY DEF GaugeInv, FreshInv
<1>2. CASE UNCHANGED <<services, gauge>>
  BY <1>2 DEF GaugeInv, GaugeAccurate
<1>3. ASSUME NEW i \in Instances, NEW s \in Services, NEW e, Changes(i, s, e)
      PROVE  GaugeAccurate'
  BY <1>1, <1>3, ChangesCount DEF GaugeInv, GaugeAccurate
<1>4. QED
  BY <1>2, <1>3, AloneChanges DEF GaugeInv

\* registry_services_total is the number of services that are not retired,
\* through registrations that fail, time out or are lost: every operation of
\* registry.service.ts that changes what is counted calls syncMetricsGauge().
THEOREM GaugeFollowsServices ==
  ASSUME Alone, "crash" \notin FaultKinds, "drift" \notin Crons
  PROVE  Spec => []GaugeAccurate
<1>1. Init => GaugeInv
  BY InitFresh, NothingCounted DEF Init, GaugeInv, GaugeAccurate, IdleInv
<1>2. GaugeInv /\ [Next]_vars => GaugeInv'
  BY NextFresh, NextIdle, NextGauge DEF GaugeInv, FreshInv
<1>3. GaugeInv => GaugeAccurate
  BY DEF GaugeInv
<1>4. QED
  BY <1>1, <1>2, <1>3, PTL DEF Spec

-----------------------------------------------------------------------------
(* The lifecycle of the services, as ServiceLifecycle states it.           *)

StatusOf(e) == IF e = Absent THEN "absent" ELSE e.status
ManifestOf(e) == IF e = Absent THEN Absent ELSE e.manifest

\* What ServiceLifecycle is told of the memories.
Statuses == [p \in Instances \X Services |-> StatusOf(services[p[1]][p[2]])]
ManifestsOf == [p \in Instances \X Services |-> ManifestOf(services[p[1]][p[2]])]

\* One entry in memory is one place of the lifecycle.
LEMMA PutAbstract ==
  ASSUME TypeOK, NEW i \in Instances, NEW s \in Services, NEW e, Put(i, s, e)
  PROVE  /\ Statuses' = [Statuses EXCEPT ![<<i, s>>] = StatusOf(e)]
         /\ ManifestsOf' = [ManifestsOf EXCEPT ![<<i, s>>] = ManifestOf(e)]
<1>1. \A p \in Instances \X Services :
        services'[p[1]][p[2]] = IF p = <<i, s>> THEN e ELSE services[p[1]][p[2]]
  <2>1. \A j \in Instances, r \in Services :
          services'[j][r] = IF j = i /\ r = s THEN e ELSE services[j][r]
    BY DEF Put, TypeOK, Hash
  <2>2. QED
    BY <2>1
<1>2. Statuses' = [Statuses EXCEPT ![<<i, s>>] = StatusOf(e)]
  BY <1>1 DEF Statuses
<1>3. ManifestsOf' = [ManifestsOf EXCEPT ![<<i, s>>] = ManifestOf(e)]
  BY <1>1 DEF ManifestsOf
<1>4. QED
  BY <1>2, <1>3

\* Storing what is there changes nothing.
LEMMA SameValue ==
  ASSUME NEW S, NEW f, f = [x \in S |-> f[x]], NEW p \in S
  PROVE  [f EXCEPT ![p] = f[p]] = f
OBVIOUS

\* A changed entry is a step of the lifecycle, or nothing it tells of.
LEMMA ChangeIsLifecycle ==
  ASSUME TypeOK, NEW i \in Instances, NEW s \in Services, NEW e, Changes(i, s, e)
  PROVE  [Lifecycle!Next]_Lifecycle!vars
<1> DEFINE p == <<i, s>>
           old == services[i][s]
<1>1. /\ Statuses' = [Statuses EXCEPT ![p] = StatusOf(e)]
      /\ ManifestsOf' = [ManifestsOf EXCEPT ![p] = ManifestOf(e)]
  BY PutAbstract DEF Changes
<1>2. /\ p \in Instances \X Services
      /\ Statuses[p] = StatusOf(old)
      /\ ManifestsOf[p] = ManifestOf(old)
  BY DEF Statuses, ManifestsOf
<1>3. \A x \in Entry : /\ x # Absent /\ x.status \in Status /\ x.manifest \in Manifests
                       /\ StatusOf(x) = x.status /\ ManifestOf(x) = x.manifest
  BY EntryNotAbsent DEF Entry, StatusOf, ManifestOf
<1>4. /\ StatusOf(Absent) = "absent" /\ ManifestOf(Absent) = Absent
      /\ old # Absent => old \in Entry
  BY KnownEntry DEF StatusOf, ManifestOf
<1>5. /\ StatusOf(e) = Statuses[p] => Statuses' = Statuses
      /\ ManifestOf(e) = ManifestsOf[p] => ManifestsOf' = ManifestsOf
  <2>1. /\ Statuses = [x \in Instances \X Services |-> Statuses[x]]
        /\ ManifestsOf = [x \in Instances \X Services |-> ManifestsOf[x]]
    BY DEF Statuses, ManifestsOf
  <2> HIDE DEF p
  <2>2. ASSUME StatusOf(e) = Statuses[p]
        PROVE  Statuses' = Statuses
    <3>1. Statuses' = [Statuses EXCEPT ![p] = Statuses[p]]
      BY <1>1, <2>2
    <3>2. QED
      BY <1>2, <2>1, <3>1, SameValue
  <2>3. ASSUME ManifestOf(e) = ManifestsOf[p]
        PROVE  ManifestsOf' = ManifestsOf
    <3>1. ManifestsOf' = [ManifestsOf EXCEPT ![p] = ManifestsOf[p]]
      BY <1>1, <2>3
    <3>2. QED
      BY <1>2, <2>1, <3>1, SameValue
  <2>4. QED
    BY <2>2, <2>3
<1> HIDE DEF p, old
<1>6. CASE Registers(i, s, e)
  <2>0. e \in Entry /\ e.manifest \in Manifests
    BY <1>3, <1>6 DEF Registers
  <2>1. CASE old = Absent
    <3>1. /\ Statuses[p] = "absent"
          /\ Statuses' = [Statuses EXCEPT ![p] = "active"]
          /\ ManifestsOf' = [ManifestsOf EXCEPT ![p] = e.manifest]
      BY <1>1, <1>2, <1>3, <1>4, <1>6, <2>0, <2>1 DEF Registers, old
    <3>2. Lifecycle!Introduce(p, e.manifest)
      BY <3>1 DEF Lifecycle!Introduce, Statuses, ManifestsOf, StatusOf, ManifestOf
    <3>3. QED
      BY <1>2, <2>0, <3>2 DEF Lifecycle!Next
  <2>2. CASE old # Absent
    <3>1. old \in Entry /\ StatusOf(old) = old.status /\ ManifestOf(old) = old.manifest
      BY <1>3, <1>4, <2>2
    <3>2. /\ Statuses[p] \in {"active", "deprecated"}
          /\ Upgradable(ManifestsOf[p], e.manifest)
          /\ StatusOf(e) = Statuses[p]
      BY <1>2, <1>3, <1>6, <2>0, <2>2, <3>1 DEF Registers, Status, old
    <3>3. Statuses' = Statuses /\ ManifestsOf' = [ManifestsOf EXCEPT ![p] = e.manifest]
      BY <1>1, <1>3, <1>5, <2>0, <3>2
    <3>4. Lifecycle!Replace(p, e.manifest)
      BY <3>2, <3>3 DEF Lifecycle!Replace, Statuses, ManifestsOf, StatusOf, ManifestOf
    <3>5. QED
      BY <1>2, <2>0, <3>4 DEF Lifecycle!Next
  <2>3. QED
    BY <2>1, <2>2
<1>7. CASE Amends(i, s, e)
  <2>1. /\ e \in Entry /\ old \in Entry
        /\ Statuses[p] = old.status /\ StatusOf(e) = e.status
        /\ ManifestOf(e) = ManifestsOf[p]
    BY <1>2, <1>3, <1>4, <1>7 DEF Amends, old
  <2>2. ManifestsOf' = ManifestsOf
    BY <1>5, <2>1
  <2>3. CASE e.status = old.status
    <3>1. Statuses' = Statuses
      BY <1>5, <2>1, <2>3
    <3>2. QED
      BY <2>2, <3>1 DEF Lifecycle!vars, Statuses, ManifestsOf, StatusOf, ManifestOf
  <2>4. CASE Statuses[p] = "active" /\ e.status = "deprecated"
    <3>1. Statuses' = [Statuses EXCEPT ![p] = "deprecated"]
      BY <1>1, <2>1, <2>4
    <3>2. Lifecycle!Deprecate(p)
      BY <2>2, <2>4, <3>1 DEF Lifecycle!Deprecate, Statuses, ManifestsOf, StatusOf, ManifestOf
    <3>3. QED
      BY <1>2, <3>2 DEF Lifecycle!Next
  <2>5. CASE Statuses[p] = "deprecated" /\ e.status = "active"
    <3>1. Statuses' = [Statuses EXCEPT ![p] = "active"]
      BY <1>1, <2>1, <2>5
    <3>2. Lifecycle!Activate(p)
      BY <2>2, <2>5, <3>1 DEF Lifecycle!Activate, Statuses, ManifestsOf, StatusOf, ManifestOf
    <3>3. QED
      BY <1>2, <3>2 DEF Lifecycle!Next
  <2>6. CASE Statuses[p] \in {"active", "deprecated"} /\ e.status = "retired"
    <3>1. Statuses' = [Statuses EXCEPT ![p] = "retired"]
      BY <1>1, <2>1, <2>6
    <3>2. Lifecycle!Retire(p)
      BY <2>2, <2>6, <3>1 DEF Lifecycle!Retire, Statuses, ManifestsOf, StatusOf, ManifestOf
    <3>3. QED
      BY <1>2, <3>2 DEF Lifecycle!Next
  <2>7. QED
    BY <1>7, <2>1, <2>3, <2>4, <2>5, <2>6 DEF Amends, old
<1>8. CASE e = Absent
  <2>1. CASE old = Absent
    <3>1. Statuses' = Statuses /\ ManifestsOf' = ManifestsOf
      BY <1>2, <1>5, <1>8, <2>1
    <3>2. QED
      BY <3>1 DEF Lifecycle!vars, Statuses, ManifestsOf, StatusOf, ManifestOf
  <2>2. CASE old # Absent
    <3>1. /\ Statuses[p] # "absent"
          /\ Statuses' = [Statuses EXCEPT ![p] = "absent"]
          /\ ManifestsOf' = [ManifestsOf EXCEPT ![p] = Absent]
      BY <1>1, <1>2, <1>3, <1>4, <1>8, <2>2 DEF Status
    <3>2. Lifecycle!Remove(p)
      BY <3>1 DEF Lifecycle!Remove, Statuses, ManifestsOf, StatusOf, ManifestOf
    <3>3. QED
      BY <1>2, <3>2 DEF Lifecycle!Next
  <2>3. QED
    BY <2>1, <2>2
<1>9. QED
  BY <1>6, <1>7, <1>8 DEF Changes

LifecycleInv == FreshInv /\ IdleInv

\* One container keeps the lifecycle of ServiceLifecycle, step by step: what
\* its callers see of a service follows register(), deprecate(), activate(),
\* retire(), deregister() and the rollback of a failed registration.
THEOREM RegistryKeepsLifecycle ==
  ASSUME Alone, "crash" \notin FaultKinds, "drift" \notin Crons
  PROVE  Spec => KeepsLifecycle
<1>1. Init => LifecycleInv
  BY InitFresh DEF Init, LifecycleInv, IdleInv
<1>2. LifecycleInv /\ [Next]_vars => LifecycleInv'
  BY NextFresh, NextIdle DEF LifecycleInv, FreshInv
<1>3. Init => Lifecycle!Init
  BY DEF Init, Lifecycle!Init
<1>4. LifecycleInv /\ [Next]_vars => [Lifecycle!Next]_Lifecycle!vars
  <2> SUFFICES ASSUME LifecycleInv, [Next]_vars PROVE [Lifecycle!Next]_Lifecycle!vars
    OBVIOUS
  <2>1. CASE UNCHANGED services
    BY <2>1 DEF Lifecycle!vars
  <2>2. ASSUME NEW i \in Instances, NEW s \in Services, NEW e, Changes(i, s, e)
        PROVE  [Lifecycle!Next]_Lifecycle!vars
    BY <2>2, ChangeIsLifecycle DEF LifecycleInv, FreshInv
  <2>3. QED
    BY <2>1, <2>2, AloneChanges DEF LifecycleInv
<1>5. QED
  BY <1>1, <1>2, <1>3, <1>4, PTL DEF Spec, KeepsLifecycle, Lifecycle!Spec

\* What leaves the lifecycle, on any number of instances: a load, which takes
\* over what another instance did, and the end of a process.
LifecycleLeftOnlyByLoad ==
  [][\/ [Lifecycle!Next]_Lifecycle!vars
     \/ \E i \in Instances : LoadSnapshot(i) \/ Boot(i) \/ Crash(i)]_vars

\* On any number of instances, with both cron jobs and every fault, a step
\* changes at most one service of one instance, as the lifecycle lets it:
\* register() and its rollback, deprecate(), activate(), retire(),
\* deregister() and setHealthStatus().  Only loadFromRedis() and a crash do
\* otherwise.
THEOREM OperationsFollowLifecycle == Spec => LifecycleLeftOnlyByLoad
<1>1. ASSUME TypeOK, [Next]_vars
      PROVE  \/ [Lifecycle!Next]_Lifecycle!vars
             \/ \E i \in Instances : LoadSnapshot(i) \/ Boot(i) \/ Crash(i)
  <2>1. CASE UNCHANGED services
    BY <2>1 DEF Lifecycle!vars
  <2>2. ASSUME NEW i \in Instances, NEW s \in Services, NEW e, Changes(i, s, e)
        PROVE  [Lifecycle!Next]_Lifecycle!vars
    BY <1>1, <2>2, ChangeIsLifecycle
  <2>3. QED
    BY <1>1, <2>1, <2>2, StepChanges
<1>2. TypeOK /\ [Next]_vars
      => [\/ [Lifecycle!Next]_Lifecycle!vars
          \/ \E i \in Instances : LoadSnapshot(i) \/ Boot(i) \/ Crash(i)]_vars
  BY <1>1
<1>3. QED
  BY <1>2, RegistryTypeCorrect, PTL DEF Spec, LifecycleLeftOnlyByLoad

-----------------------------------------------------------------------------
(* The line of values of a service: what Redis holds, followed by what the *)
(* commands on the way will make it hold.  A line is a function on some    *)
(* numbers; its place 0 is Redis, place k the k-th command of queue q.     *)

Line(q, v, s) ==
  [k \in {0} \union {n \in DOMAIN q : ~IsRead(q[n]) /\ q[n].sid = s} |->
     IF k = 0 THEN v ELSE q[k].value]

IsLine(f) == DOMAIN f \subseteq Nat /\ 0 \in DOMAIN f /\ \A k \in DOMAIN f : f[k] \in Slot

\* A step leaves the line, puts a value at its end, or moves its places by
\* one, so that Redis holds the value of place b.
Grows(f, g, e) ==
  \E n \in Nat :
    /\ DOMAIN g = DOMAIN f \union {n}
    /\ g[n] = e
    /\ \A k \in DOMAIN f : k < n /\ g[k] = f[k]

Place(b, k) == IF k = 0 THEN b ELSE k + 1

\* What a connection that fails, or a crash, leaves of the line.
Shrinks(f, g) ==
  \E b \in {0, 1} :
    \A k \in DOMAIN g : Place(b, k) \in DOMAIN f /\ g[k] = f[Place(b, k)]

Advances(f, g) ==
  \E b \in {0, 1} :
    /\ \A k \in DOMAIN g : Place(b, k) \in DOMAIN f /\ g[k] = f[Place(b, k)]
    /\ \A k \in DOMAIN f : k >= b => \E j \in DOMAIN g : Place(b, j) = k

LEMMA LineType ==
  ASSUME NEW q \in Seq(Command), NEW v \in Slot, NEW s
  PROVE  IsLine(Line(q, v, s))
<1>1. DOMAIN q = 1 .. Len(q) /\ Len(q) \in Nat
  OBVIOUS
<1>2. ASSUME NEW k \in DOMAIN q, ~IsRead(q[k])
      PROVE  q[k].value \in Slot
  <2>1. q[k] \in Command
    BY <1>2
  <2>2. QED
    BY <1>2, <2>1 DEF Command, Write, Read, IsRead
<1>3. QED
  BY <1>1, <1>2 DEF Line, IsLine

\* A command behind the others.
LEMMA LineAppended ==
  ASSUME NEW q \in Seq(Command), NEW v \in Slot, NEW s, NEW c \in Command
  PROVE  IF ~IsRead(c) /\ c.sid = s
         THEN Grows(Line(q, v, s), Line(Append(q, c), v, s), c.value)
         ELSE Line(Append(q, c), v, s) = Line(q, v, s)
<1> DEFINE n == Len(q) + 1
           r == Append(q, c)
<1>1. /\ DOMAIN q = 1 .. Len(q) /\ Len(q) \in Nat
      /\ DOMAIN r = 1 .. n
      /\ r[n] = c
      /\ \A k \in 1 .. Len(q) : r[k] = q[k]
  OBVIOUS
<1> HIDE DEF r
<1>2. n \in Nat /\ n # 0 /\ DOMAIN r = DOMAIN q \union {n}
  BY <1>1
<1>3. \A k \in DOMAIN q : r[k] = q[k] /\ k < n
  BY <1>1
<1> HIDE DEF n
<1>4. CASE ~IsRead(c) /\ c.sid = s
  <2>1. DOMAIN Line(r, v, s) = DOMAIN Line(q, v, s) \union {n}
    BY <1>1, <1>2, <1>3, <1>4 DEF Line
  <2>2. Line(r, v, s)[n] = c.value
    BY <1>1, <1>2, <1>4 DEF Line
  <2>3. \A k \in DOMAIN Line(q, v, s) : k < n /\ Line(r, v, s)[k] = Line(q, v, s)[k]
    BY <1>1, <1>2, <1>3 DEF Line
  <2>4. QED
    BY <1>2, <1>4, <2>1, <2>2, <2>3 DEF Grows, r
<1>5. CASE ~(~IsRead(c) /\ c.sid = s)
  BY <1>1, <1>2, <1>3, <1>5 DEF Line, r
<1>6. QED
  BY <1>4, <1>5

\* The oldest command is executed.
LEMMA LineExecuted ==
  ASSUME NEW q \in Seq(Command), q # <<>>, NEW v \in Slot, NEW s
  PROVE  LET w == IF ~IsRead(Head(q)) /\ Head(q).sid = s THEN Head(q).value ELSE v
         IN  Advances(Line(q, v, s), Line(Tail(q), w, s))
<1> DEFINE c == Head(q)
           b == IF ~IsRead(c) /\ c.sid = s THEN 1 ELSE 0
           w == IF ~IsRead(c) /\ c.sid = s THEN c.value ELSE v
           r == Tail(q)
           n == Len(q)
           f == Line(q, v, s)
           g == Line(r, w, s)
<1>1. n \in Nat /\ n # 0 /\ DOMAIN q = 1 .. n /\ q[1] = c
  OBVIOUS
<1>2. DOMAIN r = 1 .. (n - 1) /\ \A k \in 1 .. (n - 1) : r[k] = q[k + 1]
  <2>1. Len(Tail(q)) = n - 1 /\ Tail(q) \in Seq(Command)
    OBVIOUS
  <2>2. \A k \in 1 .. (n - 1) : Tail(q)[k] = q[k + 1]
    OBVIOUS
  <2>3. QED
    BY <2>1, <2>2
<1> HIDE DEF c, r, n
<1>3. \/ ~IsRead(c) /\ c.sid = s /\ b = 1 /\ w = c.value
      \/ ~(~IsRead(c) /\ c.sid = s) /\ b = 0 /\ w = v
  OBVIOUS
<1> HIDE DEF w, b
<1>4. DOMAIN f \subseteq 0 .. n /\ DOMAIN g \subseteq 0 .. (n - 1)
  BY <1>1, <1>2 DEF Line
<1>5. 0 \in DOMAIN f /\ f[0] = v /\ 0 \in DOMAIN g /\ g[0] = w
  BY DEF Line
<1>6. b = 1 => 1 \in DOMAIN f /\ f[1] = c.value
  BY <1>1, <1>3 DEF Line
<1>7. 1 \in DOMAIN f => b = 1
  BY <1>1, <1>3 DEF Line
<1>8. \A k \in 1 .. (n - 1) : k \in DOMAIN g <=> k + 1 \in DOMAIN f
  <2>1. \A k \in 1 .. (n - 1) : k # 0 /\ k + 1 # 0 /\ k + 1 \in 1 .. n
    BY <1>1
  <2>2. QED
    BY <1>1, <1>2, <2>1 DEF Line
<1>9. \A k \in 1 .. (n - 1) : k \in DOMAIN g => g[k] = f[k + 1]
  <2>1. \A k \in 1 .. (n - 1) : k # 0 /\ k + 1 # 0
    BY <1>1
  <2>2. QED
    BY <1>2, <1>8, <2>1 DEF Line
<1> HIDE DEF f, g
<1>10. ASSUME NEW k \in DOMAIN g
       PROVE  Place(b, k) \in DOMAIN f /\ g[k] = f[Place(b, k)]
  <2>1. CASE k = 0
    BY <1>3, <1>5, <1>6, <2>1 DEF Place
  <2>2. CASE k # 0
    <3>1. k \in 1 .. (n - 1)
      BY <1>1, <1>4, <1>10, <2>2
    <3>2. QED
      BY <1>8, <1>9, <1>10, <2>2, <3>1 DEF Place
  <2>3. QED
    BY <2>1, <2>2
<1>11. ASSUME NEW k \in DOMAIN f, k >= b
       PROVE  \E j \in DOMAIN g : Place(b, j) = k
  <2>1. CASE k = b
    BY <1>5, <2>1 DEF Place
  <2>2. CASE k # b
    <3>1. k - 1 \in 1 .. (n - 1) /\ (k - 1) + 1 = k /\ k - 1 # 0
      BY <1>1, <1>3, <1>4, <1>7, <1>11, <2>2
    <3>2. k - 1 \in DOMAIN g
      BY <1>8, <3>1
    <3>3. QED
      BY <3>1, <3>2 DEF Place
  <2>3. QED
    BY <2>1, <2>2
<1>12. Advances(f, g)
  BY <1>3, <1>10, <1>11 DEF Advances
<1>13. QED
  BY <1>12 DEF f, g, r, w, c

\* The oldest command is lost.
LEMMA LineDropped ==
  ASSUME NEW q \in Seq(Command), q # <<>>, NEW v \in Slot, NEW s
  PROVE  Shrinks(Line(q, v, s), Line(Tail(q), v, s))
<1> DEFINE f == Line(q, v, s)
           g == Line(Tail(q), v, s)
<1>1. /\ Len(Tail(q)) = Len(q) - 1 /\ Tail(q) \in Seq(Command) /\ Len(q) \in Nat
      /\ \A k \in 1 .. (Len(q) - 1) : Tail(q)[k] = q[k + 1]
  OBVIOUS
<1>2. DOMAIN Tail(q) = 1 .. (Len(q) - 1) /\ DOMAIN q = 1 .. Len(q)
  BY <1>1
<1>3. ASSUME NEW k \in DOMAIN g, k # 0
      PROVE  k + 1 \in DOMAIN f /\ g[k] = f[k + 1]
  <2>1. /\ k \in 1 .. (Len(q) - 1) /\ ~IsRead(Tail(q)[k]) /\ Tail(q)[k].sid = s
        /\ g[k] = Tail(q)[k].value
    BY <1>2, <1>3 DEF Line
  <2>2. k + 1 \in 1 .. Len(q) /\ k + 1 # 0 /\ Tail(q)[k] = q[k + 1]
    BY <1>1, <2>1
  <2>3. QED
    BY <1>2, <2>1, <2>2 DEF Line
<1>4. 0 \in DOMAIN f /\ 0 \in DOMAIN g /\ f[0] = v /\ g[0] = v
  BY DEF Line
<1> HIDE DEF f, g
<1>5. \A k \in DOMAIN g : Place(0, k) \in DOMAIN f /\ g[k] = f[Place(0, k)]
  BY <1>3, <1>4 DEF Place
<1>6. Shrinks(f, g)
  BY <1>5 DEF Shrinks
<1>7. QED
  BY <1>6 DEF f, g

-----------------------------------------------------------------------------
(* Properties of a line that its moves keep.                               *)

\* b may be stored after a.
Follows(a, b) == a # Absent /\ b # Absent => Upgradable(a.manifest, b.manifest)
Older(a, b) == a # Absent /\ b # Absent => a.updatedAt <= b.updatedAt

EndsWith(f, e) == \E k \in DOMAIN f : f[k] = e /\ \A j \in DOMAIN f : j <= k
OnLine(e, f) == \E k \in DOMAIN f : f[k] = e
Behind(e, f) == \A k \in DOMAIN f : Older(e, f[k])
Ordered(f) == \A j, k \in DOMAIN f : j < k => Older(f[j], f[k])
Chained(f) ==
  \A j, k \in DOMAIN f :
    j < k /\ (\A l \in DOMAIN f : l <= j \/ k <= l) => Follows(f[j], f[k])

LEMMA FollowsItself ==
  ASSUME NEW a \in Slot, NEW b \in Slot,
         a # Absent /\ b # Absent => b.manifest = a.manifest
  PROVE  Follows(a, b)
<1> SUFFICES ASSUME a # Absent, b # Absent PROVE Upgradable(a.manifest, b.manifest)
  BY DEF Follows
<1>1. a.manifest \in Manifests
  BY DEF Slot, Entry
<1>2. Major[a.manifest] # NoSemver => Major[a.manifest] \in Nat
  BY <1>1, RegistryAssumption
<1>3. QED
  BY <1>2 DEF Upgradable

LEMMA OlderItself == \A e \in Slot : Older(e, e)
BY RegistryAssumption DEF Older, Slot, Entry

\* A value more.
LEMMA GrowsKeeps ==
  ASSUME NEW f, IsLine(f), NEW g, IsLine(g), NEW e, Grows(f, g, e)
  PROVE  /\ EndsWith(g, e)
         /\ g[0] = f[0]
         /\ \A d : EndsWith(f, d) /\ Follows(d, e) /\ Chained(f) => Chained(g)
         /\ \A d : Behind(d, f) /\ Older(d, e) => Behind(d, g)
         /\ Ordered(f) /\ (\A k \in DOMAIN f : Older(f[k], e)) => Ordered(g)
<1>1. PICK n \in Nat : /\ DOMAIN g = DOMAIN f \union {n}
                       /\ g[n] = e
                       /\ \A k \in DOMAIN f : k < n /\ g[k] = f[k]
  BY DEF Grows
<1>2. DOMAIN f \subseteq Nat /\ 0 \in DOMAIN f
  BY DEF IsLine
<1>3. EndsWith(g, e)
  BY <1>1, <1>2 DEF EndsWith
<1>4. g[0] = f[0]
  BY <1>1, <1>2
<1>5. ASSUME NEW d, EndsWith(f, d), Follows(d, e), Chained(f),
             NEW j \in DOMAIN g, NEW k \in DOMAIN g,
             j < k, \A l \in DOMAIN g : l <= j \/ k <= l
      PROVE  Follows(g[j], g[k])
  <2>0. j \in DOMAIN f
    BY <1>1, <1>2, <1>5
  <2>1. CASE k \in DOMAIN f
    BY <1>1, <1>5, <2>0, <2>1 DEF Chained
  <2>2. CASE k = n
    <3>1. PICK m \in DOMAIN f : f[m] = d /\ \A l \in DOMAIN f : l <= m
      BY <1>5 DEF EndsWith
    <3>2. m <= j
      BY <1>1, <1>2, <1>5, <2>2, <3>1
    <3>3. j = m
      BY <1>2, <2>0, <3>1, <3>2
    <3>4. QED
      BY <1>1, <1>5, <2>2, <3>1, <3>3
  <2>3. QED
    BY <1>1, <2>1, <2>2
<1>6. ASSUME NEW d, Behind(d, f), Older(d, e)
      PROVE  Behind(d, g)
  BY <1>1, <1>6 DEF Behind
<1>7. ASSUME Ordered(f), \A k \in DOMAIN f : Older(f[k], e),
             NEW j \in DOMAIN g, NEW k \in DOMAIN g, j < k
      PROVE  Older(g[j], g[k])
  <2>1. j \in DOMAIN f
    BY <1>1, <1>2, <1>7
  <2>2. QED
    BY <1>1, <1>7, <2>1 DEF Ordered
<1>8. QED
  BY <1>3, <1>4, <1>5, <1>6, <1>7 DEF Chained, Ordered

\* A command less.
LEMMA AdvancesKeeps ==
  ASSUME NEW f, IsLine(f), NEW g, IsLine(g), Advances(f, g)
  PROVE  /\ \A d : EndsWith(f, d) => EndsWith(g, d)
         /\ \A d : Behind(d, f) => Behind(d, g)
         /\ Chained(f) => Chained(g) /\ Follows(f[0], g[0])
         /\ Ordered(f) => Ordered(g) /\ Behind(f[0], g)
         /\ \A d : OnLine(d, f) /\ Ordered(f) => OnLine(d, g) \/ Behind(d, g)
<1>1. PICK b \in {0, 1} :
        /\ \A k \in DOMAIN g : Place(b, k) \in DOMAIN f /\ g[k] = f[Place(b, k)]
        /\ \A k \in DOMAIN f : k >= b => \E j \in DOMAIN g : Place(b, j) = k
  BY DEF Advances
<1>2. /\ DOMAIN f \subseteq Nat /\ 0 \in DOMAIN f /\ \A k \in DOMAIN f : f[k] \in Slot
      /\ DOMAIN g \subseteq Nat /\ 0 \in DOMAIN g
  BY DEF IsLine
<1>3. \A j, k \in Nat : /\ j < k <=> Place(b, j) < Place(b, k)
                        /\ Place(b, j) \in Nat /\ Place(b, j) >= b
  BY DEF Place
<1>4. Place(b, 0) = b /\ b \in DOMAIN f /\ g[0] = f[b]
  BY <1>1, <1>2 DEF Place
<1>5. ASSUME NEW d, EndsWith(f, d)
      PROVE  EndsWith(g, d)
  <2>1. PICK k \in DOMAIN f : f[k] = d /\ \A j \in DOMAIN f : j <= k
    BY <1>5 DEF EndsWith
  <2>2. k >= b
    BY <1>2, <1>4, <2>1
  <2>3. PICK m \in DOMAIN g : Place(b, m) = k
    BY <1>1, <2>2
  <2>4. \A j \in DOMAIN g : j <= m
    BY <1>1, <1>2, <1>3, <2>1, <2>3
  <2>5. QED
    BY <1>1, <2>1, <2>3, <2>4 DEF EndsWith
<1>6. ASSUME NEW d, Behind(d, f)
      PROVE  Behind(d, g)
  BY <1>1, <1>6 DEF Behind
<1>7. ASSUME Chained(f)
      PROVE  Chained(g) /\ Follows(f[0], g[0])
  <2>1. ASSUME NEW j \in DOMAIN g, NEW k \in DOMAIN g,
               j < k, \A l \in DOMAIN g : l <= j \/ k <= l
        PROVE  Follows(g[j], g[k])
    <3>1. Place(b, j) < Place(b, k)
      BY <1>2, <1>3, <2>1
    <3>2. ASSUME NEW l \in DOMAIN f
          PROVE  l <= Place(b, j) \/ Place(b, k) <= l
      <4>1. CASE l >= b
        <5>1. PICK m \in DOMAIN g : Place(b, m) = l
          BY <1>1, <4>1
        <5>2. m <= j \/ k <= m
          BY <2>1
        <5>3. ~(j < m) \/ ~(m < k)
          BY <1>2, <5>2
        <5>4. ~(Place(b, j) < l) \/ ~(l < Place(b, k))
          BY <1>2, <1>3, <5>1, <5>3
        <5>5. QED
          BY <1>2, <1>3, <5>4
      <4>2. CASE l < b
        BY <1>2, <1>3, <4>2
      <4>3. QED
        BY <1>2, <4>1, <4>2
    <3>3. Follows(f[Place(b, j)], f[Place(b, k)])
      BY <1>1, <1>7, <3>1, <3>2 DEF Chained
    <3>4. QED
      BY <1>1, <3>3
  <2>2. ASSUME b = 0
        PROVE  Follows(f[0], g[0])
    <3>1. f[0] \in Slot
      BY <1>2
    <3>2. QED
      BY <1>4, <2>2, <3>1, FollowsItself
  <2>3. ASSUME b = 1
        PROVE  Follows(f[0], g[0])
    <3>1. \A l \in DOMAIN f : l <= 0 \/ 1 <= l
      BY <1>2
    <3>2. Follows(f[0], f[1])
      BY <1>2, <1>4, <1>7, <2>3, <3>1 DEF Chained
    <3>3. QED
      BY <1>4, <2>3, <3>2
  <2>4. QED
    BY <2>1, <2>2, <2>3 DEF Chained
<1>8. ASSUME Ordered(f)
      PROVE  Ordered(g) /\ Behind(f[0], g)
  <2>1. ASSUME NEW j \in DOMAIN g, NEW k \in DOMAIN g, j < k
        PROVE  Older(g[j], g[k])
    BY <1>1, <1>2, <1>3, <1>8, <2>1 DEF Ordered
  <2>2. ASSUME NEW k \in DOMAIN f
        PROVE  Older(f[0], f[k])
    BY <1>2, <1>8, <2>2, OlderItself DEF Ordered
  <2>3. QED
    BY <1>1, <2>1, <2>2 DEF Ordered, Behind
<1>9. ASSUME NEW d, OnLine(d, f), Ordered(f)
      PROVE  OnLine(d, g) \/ Behind(d, g)
  <2>1. PICK k \in DOMAIN f : f[k] = d
    BY <1>9 DEF OnLine
  <2>2. CASE k >= b
    BY <1>1, <2>1, <2>2 DEF OnLine
  <2>3. CASE k < b
    <3>1. k = 0
      BY <1>2, <2>3
    <3>2. QED
      BY <1>8, <1>9, <2>1, <3>1
  <2>4. QED
    BY <1>2, <2>2, <2>3
<1>10. QED
  BY <1>5, <1>6, <1>7, <1>8, <1>9

\* A command less, or several.
LEMMA ShrinksKeeps ==
  ASSUME NEW f, IsLine(f), NEW g, IsLine(g), Shrinks(f, g), Ordered(f)
  PROVE  /\ Ordered(g)
         /\ Older(f[0], g[0])
         /\ \A k \in DOMAIN g : \E j \in DOMAIN f : g[k] = f[j]
<1>1. PICK b \in {0, 1} :
        \A k \in DOMAIN g : Place(b, k) \in DOMAIN f /\ g[k] = f[Place(b, k)]
  BY DEF Shrinks
<1>2. /\ DOMAIN f \subseteq Nat /\ 0 \in DOMAIN f /\ f[0] \in Slot
      /\ DOMAIN g \subseteq Nat /\ 0 \in DOMAIN g
  BY DEF IsLine
<1>3. \A j, k \in Nat : j < k => Place(b, j) < Place(b, k)
  BY DEF Place
<1>4. ASSUME NEW j \in DOMAIN g, NEW k \in DOMAIN g, j < k
      PROVE  Older(g[j], g[k])
  BY <1>1, <1>2, <1>3, <1>4 DEF Ordered
<1>5. Older(f[0], g[0])
  <2>1. b \in DOMAIN f /\ g[0] = f[b]
    BY <1>1, <1>2 DEF Place
  <2>2. CASE b = 0
    BY <1>2, <2>1, <2>2, OlderItself
  <2>3. CASE b = 1
    BY <1>2, <2>1, <2>3 DEF Ordered
  <2>4. QED
    BY <2>2, <2>3
<1>6. QED
  BY <1>1, <1>4, <1>5 DEF Ordered

-----------------------------------------------------------------------------
(* The steps of a container as long as nothing fails.                      *)

LineOf(i, s) == Line(sent[i], redis[s], s)

\* An operation changes an entry in memory and hands the new value to Redis:
\* stamped with the time, and of no lower major version.
Saves(i, s, e) ==
  /\ e \in Slot
  /\ mode[i] # "down" \/ services[i][s] # Absent
  /\ Put(i, s, e)
  /\ \E c \in Strict \union {"none"} : Send(i, [sid |-> s, value |-> e, caller |-> c])
  /\ Follows(services[i][s], e)
  /\ clock <= clock'
  /\ e # Absent => e.updatedAt = clock'
  /\ UNCHANGED <<redis, snapshot>>

LEMMA StampAdvances ==
  ASSUME TypeOK, NEW t \in 0 .. MaxClock, Stamp(t)
  PROVE  clock' = t /\ clock <= clock'
BY RegistryAssumption DEF Stamp, TypeOK

LEMMA AmendSaves ==
  ASSUME TypeOK, NEW i \in Instances, NEW s \in Services, NEW e \in Entry,
         NEW t \in 0 .. MaxClock, services[i][s] # Absent,
         e.manifest = services[i][s].manifest, e.updatedAt = t,
         Stamp(t), Amend(i, s, e), UNCHANGED <<redis, snapshot>>
  PROVE  Saves(i, s, e)
<1>1. services[i][s] \in Slot /\ e \in Slot
  BY DEF TypeOK, Hash, Slot
<1>2. Follows(services[i][s], e)
  BY <1>1, FollowsItself
<1>3. QED
  BY <1>1, <1>2, StampAdvances DEF Saves, Amend

LEMMA LifecycleSaves ==
  ASSUME TypeOK, NEW i \in Instances, NEW s \in Services,
         NEW t \in 0 .. MaxClock, Deprecate(i, s, t) \/ Retire(i, s, t) \/ Activate(i, s, t)
  PROVE  \E e : Saves(i, s, e)
<1>1. services[i][s] # Absent /\ Stamp(t) /\ UNCHANGED <<redis, snapshot>>
  BY DEF Deprecate, Retire, Activate
<1>2. services[i][s] \in Entry
  BY <1>1, KnownEntry
<1>3. PICK x \in Status :
        Amend(i, s, [services[i][s] EXCEPT !.status = x, !.updatedAt = t])
  BY DEF Deprecate, Retire, Activate, Status
<1> DEFINE e == [services[i][s] EXCEPT !.status = x, !.updatedAt = t]
<1>4. e \in Entry /\ e.manifest = services[i][s].manifest /\ e.updatedAt = t
  BY <1>2 DEF Entry
<1>5. Amend(i, s, e)
  BY <1>3
<1> HIDE DEF e
<1>6. Saves(i, s, e)
  BY <1>1, <1>4, <1>5, AmendSaves
<1>7. QED
  BY <1>6

LEMMA ProbeSaves ==
  ASSUME TypeOK, NEW i \in Instances, NEW s \in Services, NEW h \in BOOLEAN,
         NEW t \in 0 .. MaxClock, ProbeAnswered(i, s, h, t)
  PROVE  \/ UNCHANGED <<clock, services, redis, sent, snapshot>>
         \/ \E e : Saves(i, s, e)
<1>0. UNCHANGED <<redis, snapshot>>
  BY DEF ProbeAnswered
<1> DEFINE e == [services[i][s] EXCEPT !.healthy = h, !.updatedAt = t]
<1>1. CASE UNCHANGED <<clock, services, sent>>
  BY <1>0, <1>1
<1>2. CASE services[i][s] # Absent /\ Stamp(t) /\ Amend(i, s, e)
  <2>1. services[i][s] \in Entry
    BY <1>2, KnownEntry
  <2>2. e \in Entry /\ e.manifest = services[i][s].manifest /\ e.updatedAt = t
    BY <2>1 DEF Entry
  <2>3. Amend(i, s, e)
    BY <1>2
  <2> HIDE DEF e
  <2>4. Saves(i, s, e)
    BY <1>0, <1>2, <2>2, <2>3, AmendSaves
  <2>5. QED
    BY <2>4
<1>3. QED
  BY <1>1, <1>2 DEF ProbeAnswered, SetHealth

LEMMA RegisterSaves ==
  ASSUME TypeOK, NEW i \in Instances, NEW s \in Services, NEW m \in Manifests,
         NEW t \in 0 .. MaxClock, Register(i, s, m, t)
  PROVE  Saves(i, s, NewEntry(services[i][s], m, t))
<1> DEFINE e == NewEntry(services[i][s], m, t)
<1>1. e \in Entry /\ e.updatedAt = t
  BY NewEntryIsEntry
<1>2. e.manifest = m
  BY DEF NewEntry
<1>3. /\ mode[i] # "down" /\ Put(i, s, e) /\ Stamp(t)
      /\ services[i][s] # Absent => Upgradable(services[i][s].manifest, m)
      /\ UNCHANGED <<redis, snapshot>>
      /\ Send(i, [sid |-> s, value |-> e,
                  caller |-> IF services[i][s] = Absent THEN "register" ELSE "update"])
  BY DEF Register
<1> HIDE DEF e
<1>4. \E c \in Strict \union {"none"} : Send(i, [sid |-> s, value |-> e, caller |-> c])
  BY <1>3 DEF Strict
<1>5. Follows(services[i][s], e)
  BY <1>2, <1>3 DEF Follows
<1>6. Saves(i, s, e)
  BY <1>1, <1>3, <1>4, <1>5, StampAdvances DEF Saves, Slot
<1>7. QED
  BY <1>6 DEF e

LEMMA DeregisterSaves ==
  ASSUME TypeOK, NEW i \in Instances, NEW s \in Services, Deregister(i, s)
  PROVE  Saves(i, s, Absent)
<1>1. services[i][s] # Absent /\ clock' = clock /\ clock <= clock
  BY DEF Deregister, TypeOK
<1>2. Follows(services[i][s], Absent) /\ Absent \in Slot
  BY DEF Follows, Slot
<1>3. \E c \in Strict \union {"none"} :
        Send(i, [sid |-> s, value |-> Absent, caller |-> c])
  BY DEF Deregister, Strict
<1>4. QED
  BY <1>1, <1>2, <1>3 DEF Saves, Deregister

\* Steps that leave memory and Redis alone.
Idles(i) ==
  /\ UNCHANGED <<clock, services, redis>>
  /\ snapshot'[i] \in {snapshot[i], Absent}
  /\ \/ sent' = sent
     \/ \E c \in Read : sent' = [sent EXCEPT ![i] = Append(@, c)]

LEMMA DriftIdles ==
  ASSUME TypeOK, NEW i \in Instances, StartReconciliation(i) \/ CompareSnapshot(i)
  PROVE  Idles(i)
<1>1. [caller |-> "compare"] \in Read /\ [caller |-> "load"] \in Read
  BY DEF Read
<1>2. CASE StartReconciliation(i)
  BY <1>1, <1>2 DEF StartReconciliation, Send, Idles
<1>3. CASE CompareSnapshot(i)
  <2>1. snapshot'[i] = Absent
    BY <1>3 DEF CompareSnapshot, TypeOK
  <2>2. QED
    BY <1>1, <1>3, <2>1 DEF CompareSnapshot, Send, Idles
<1>4. QED
  BY <1>2, <1>3

\* The steps of a container when no fault has happened.
LEMMA FaultlessStep ==
  ASSUME Alone, FreshInv, [Next]_vars, NothingFailed', NEW i \in Instances
  PROVE  \/ \E s \in Services : \E e : Saves(i, s, e)
         \/ Idles(i)
         \/ LoadSnapshot(i)
         \/ ExecuteWrite(i)
         \/ ExecuteRead(i)
<1>0. TypeOK /\ NothingFailed
  BY FaultsFall DEF FreshInv
<1>1. CASE UNCHANGED vars
  BY <1>1 DEF vars, Idles
<1>2. ASSUME NEW s \in Services, NEW t \in 0 .. MaxClock, Admin(i, s, t)
      PROVE  \E e : Saves(i, s, e)
  BY <1>0, <1>2, RegisterSaves, LifecycleSaves DEF Admin
<1>3. ASSUME NEW s \in Services, NEW h \in BOOLEAN, NEW t \in 0 .. MaxClock,
             ProbeAnswered(i, s, h, t)
      PROVE  Idles(i) \/ \E e : Saves(i, s, e)
  BY <1>0, <1>3, ProbeSaves DEF Idles
<1>4. ASSUME NEW s \in Services, Deregister(i, s)
      PROVE  \E e : Saves(i, s, e)
  BY <1>0, <1>4, DeregisterSaves
<1>5. ASSUME StartSweep(i)
      PROVE  Idles(i)
  BY <1>5 DEF StartSweep, Idles
<1>6. ASSUME StartReconciliation(i) \/ CompareSnapshot(i)
      PROVE  Idles(i)
  BY <1>0, <1>6, DriftIdles
<1>7. ASSUME Boot(i)
      PROVE  Idles(i)
  BY <1>0, <1>7, BootLoadsNothing DEF Boot, Idles
<1>8. ASSUME \/ DropWrite(i)
             \/ DropRead(i)
             \/ \E k \in 1 .. (MaxQueue + 1) : Timeout(i, k)
             \/ Crash(i)
             \/ BootMemoryOnly(i)
      PROVE  FALSE
  <2>1. \E kind \in {"drop", "timeout", "crash", "outage"} : Fault(kind)
    BY <1>8 DEF DropWrite, DropRead, Timeout, Crash, BootMemoryOnly
  <2>2. QED
    BY <1>0, <2>1, FaultIsSeen
<1>9. QED
  BY <1>1, <1>2, <1>3, <1>4, <1>5, <1>6, <1>7, <1>8 DEF Next, Alone

\* What these steps do to the line of a service and to its entry.
LineStays(i, s) ==
  /\ UNCHANGED LineOf(i, s)
  /\ services'[i][s] = services[i][s]
  /\ clock <= clock'
  /\ snapshot'[i] \in {snapshot[i], Absent}

LineGrows(i, s) ==
  \E e \in Slot :
    /\ Grows(LineOf(i, s), LineOf(i, s)', e)
    /\ services'[i][s] = e
    /\ Follows(services[i][s], e)
    /\ clock <= clock'
    /\ e # Absent => e.updatedAt = clock'
    /\ snapshot'[i] = snapshot[i]

LineAdvances(i, s) ==
  /\ Advances(LineOf(i, s), LineOf(i, s)')
  /\ services'[i][s] = services[i][s]
  /\ clock' = clock
  /\ snapshot'[i] # Absent => snapshot'[i][s] = redis[s]

LineIsLoaded(i, s) ==
  /\ phase[i] = "loading" /\ snapshot[i] # Absent
  /\ UNCHANGED LineOf(i, s)
  /\ services'[i][s] = IF snapshot[i][s] # Absent THEN snapshot[i][s] ELSE services[i][s]
  /\ clock' = clock
  /\ snapshot'[i] = Absent

\* Before and after a step it is a line, and place 0 is what Redis holds.
LEMMA LineOfType ==
  ASSUME TypeOK, TypeOK', NEW i \in Instances, NEW s \in Services
  PROVE  /\ IsLine(LineOf(i, s)) /\ LineOf(i, s)[0] = redis[s]
         /\ IsLine(LineOf(i, s)') /\ LineOf(i, s)'[0] = redis'[s]
<1>1. /\ sent[i] \in Seq(Command) /\ redis[s] \in Slot
      /\ sent'[i] \in Seq(Command) /\ redis'[s] \in Slot
  BY DEF TypeOK, Hash
<1>2. LineOf(i, s)[0] = redis[s] /\ LineOf(i, s)'[0] = redis'[s]
  BY DEF LineOf, Line
<1>3. QED
  BY <1>1, <1>2, LineType DEF LineOf

LEMMA SavesLine ==
  ASSUME FreshInv, NothingFailed, NEW i \in Instances, NEW r \in Services, NEW e,
         Saves(i, r, e), NEW s \in Services
  PROVE  LineStays(i, s) \/ LineGrows(i, s)
<1>0. /\ TypeOK
      /\ sent[i] \in Seq(Command)
      /\ redis[s] \in Slot
      /\ e \in Slot
  BY DEF FreshInv, TypeOK, Hash, Saves
<1>1. PICK a \in Strict \union {"none"} : Send(i, [sid |-> r, value |-> e, caller |-> a])
  BY DEF Saves
<1> DEFINE c == [sid |-> r, value |-> e, caller |-> a]
<1>2. c \in Command /\ ~IsRead(c) /\ c.sid = r /\ c.value = e
  BY <1>0, WriteType DEF IsRead, Strict
<1>3. mode[i] = "connected"
  <2>1. mode[i] \in {"down", "connected", "memoryOnly"}
    BY <1>0 DEF TypeOK
  <2>2. QED
    BY <2>1 DEF FreshInv, Fresh, Saves
<1>4. sent' = [sent EXCEPT ![i] = Append(@, c)]
  BY <1>1, <1>3 DEF Send
<1> HIDE DEF c
<1>5. sent'[i] = Append(sent[i], c)
  BY <1>0, <1>4 DEF TypeOK
<1>6. services'[i][s] = IF s = r THEN e ELSE services[i][s]
  BY <1>0 DEF Saves, Put, TypeOK, Hash
<1>7. IF c.sid = s
      THEN Grows(LineOf(i, s), LineOf(i, s)', e)
      ELSE LineOf(i, s)' = LineOf(i, s)
  <2>1. LineOf(i, s)' = Line(Append(sent[i], c), redis[s], s)
    BY <1>5 DEF Saves, LineOf
  <2>2. IF ~IsRead(c) /\ c.sid = s
        THEN Grows(Line(sent[i], redis[s], s), Line(Append(sent[i], c), redis[s], s), c.value)
        ELSE Line(Append(sent[i], c), redis[s], s) = Line(sent[i], redis[s], s)
    BY <1>0, <1>2, LineAppended
  <2>3. LineOf(i, s) = Line(sent[i], redis[s], s)
    BY DEF LineOf
  <2>4. QED
    BY <1>2, <2>1, <2>2, <2>3
<1>8. QED
  BY <1>0, <1>2, <1>6, <1>7 DEF Saves, LineStays, LineGrows

LEMMA IdlesLine ==
  ASSUME TypeOK, NEW i \in Instances, Idles(i), NEW s \in Services
  PROVE  LineStays(i, s)
<1>1. sent[i] \in Seq(Command) /\ redis[s] \in Slot /\ clock <= clock
  BY DEF TypeOK, Hash
<1>2. UNCHANGED LineOf(i, s)
  <2>1. CASE sent' = sent
    BY <2>1 DEF Idles, LineOf
  <2>2. ASSUME NEW c \in Read, sent' = [sent EXCEPT ![i] = Append(@, c)]
        PROVE  UNCHANGED LineOf(i, s)
    <3>1. sent'[i] = Append(sent[i], c) /\ redis' = redis
      BY <2>2 DEF Idles, TypeOK
    <3>2. c \in Command /\ IsRead(c)
      BY DEF Command, Read, IsRead
    <3>3. Line(Append(sent[i], c), redis[s], s) = Line(sent[i], redis[s], s)
      BY <1>1, <3>2, LineAppended
    <3>4. QED
      BY <3>1, <3>3 DEF LineOf
  <2>3. QED
    BY <2>1, <2>2 DEF Idles
<1>3. QED
  BY <1>1, <1>2 DEF Idles, LineStays

LEMMA ExecuteLine ==
  ASSUME TypeOK, NEW i \in Instances, ExecuteWrite(i) \/ ExecuteRead(i), NEW s \in Services
  PROVE  LineAdvances(i, s)
<1> DEFINE c == Head(sent[i])
           w == IF ~IsRead(c) /\ c.sid = s THEN c.value ELSE redis[s]
<1>1. /\ sent[i] \in Seq(Command) /\ sent[i] # <<>> /\ redis[s] \in Slot
      /\ sent'[i] = Tail(sent[i])
      /\ UNCHANGED <<clock, services>>
  BY DEF TypeOK, Hash, ExecuteWrite, ExecuteRead
<1>2. redis'[s] = w
  <2>1. CASE ExecuteWrite(i)
    BY <2>1 DEF ExecuteWrite, TypeOK, Hash
  <2>2. CASE ExecuteRead(i)
    BY <2>2 DEF ExecuteRead
  <2>3. QED
    BY <2>1, <2>2
<1>3. snapshot'[i] # Absent => snapshot'[i][s] = redis[s]
  BY DEF ExecuteWrite, ExecuteRead, TypeOK
<1>4. Advances(Line(sent[i], redis[s], s), Line(Tail(sent[i]), w, s))
  BY <1>1, LineExecuted
<1> HIDE DEF c, w
<1>5. Advances(LineOf(i, s), LineOf(i, s)')
  BY <1>1, <1>2, <1>4 DEF LineOf
<1>6. QED
  BY <1>1, <1>3, <1>5 DEF LineAdvances

\* Every step, as it is seen by one service.
LEMMA StepOfLine ==
  ASSUME Alone, FreshInv, [Next]_vars, NothingFailed',
         NEW i \in Instances, NEW s \in Services
  PROVE  \/ LineStays(i, s)
         \/ LineGrows(i, s)
         \/ LineAdvances(i, s)
         \/ LineIsLoaded(i, s)
<1>0. TypeOK /\ NothingFailed
  BY FaultsFall DEF FreshInv
<1>1. ASSUME NEW r \in Services, NEW e, Saves(i, r, e)
      PROVE  LineStays(i, s) \/ LineGrows(i, s)
  BY <1>0, <1>1, SavesLine
<1>2. CASE Idles(i)
  BY <1>0, <1>2, IdlesLine
<1>3. CASE ExecuteWrite(i) \/ ExecuteRead(i)
  BY <1>0, <1>3, ExecuteLine
<1>4. CASE LoadSnapshot(i)
  <2>1. UNCHANGED LineOf(i, s)
    BY <1>4 DEF LoadSnapshot, LineOf
  <2>2. /\ services'[i][s] = Loaded(services[i], snapshot[i])[s]
        /\ snapshot'[i] = Absent
    BY <1>0, <1>4 DEF LoadSnapshot, TypeOK
  <2>3. QED
    BY <1>4, <2>1, <2>2 DEF LoadSnapshot, Loaded, LineIsLoaded
<1>5. QED
  BY <1>1, <1>2, <1>3, <1>4, FaultlessStep

-----------------------------------------------------------------------------
(* What the line says of memory and Redis.                                 *)

\* Without the drift job the line ends with what memory holds, and each of
\* its values may be stored after the one before.
ChainInv ==
  /\ FreshInv
  /\ IdleInv
  /\ NothingFailed =>
       \A i \in Instances, s \in Services :
         EndsWith(LineOf(i, s), services[i][s]) /\ Chained(LineOf(i, s))

\* At first there is one value, in Redis and in memory.
LEMMA FirstLine ==
  ASSUME Init, NEW i \in Instances, NEW s \in Services
  PROVE  /\ LineOf(i, s) = [k \in {0} |-> Absent]
         /\ services[i][s] = Absent /\ snapshot[i] = Absent
<1>1. sent[i] = <<>> /\ redis[s] = Absent
  BY DEF Init
<1>2. {n \in DOMAIN <<>> : ~IsRead(<<>>[n]) /\ <<>>[n].sid = s} = {}
  OBVIOUS
<1>3. LineOf(i, s) = [k \in {0} |-> Absent]
  BY <1>1, <1>2 DEF LineOf, Line
<1>4. QED
  BY <1>3 DEF Init

LEMMA InitChain == Init => ChainInv
<1> SUFFICES ASSUME Init PROVE ChainInv
  OBVIOUS
<1>1. ASSUME NEW i \in Instances, NEW s \in Services
      PROVE  EndsWith(LineOf(i, s), services[i][s]) /\ Chained(LineOf(i, s))
  BY FirstLine DEF EndsWith, Chained
<1>2. QED
  BY <1>1, InitFresh DEF Init, ChainInv, IdleInv

LEMMA NextChain ==
  ASSUME Alone, "drift" \notin Crons, ChainInv, [Next]_vars
  PROVE  ChainInv'
<1>0. FreshInv /\ IdleInv /\ TypeOK /\ TypeOK'
  BY NextType DEF ChainInv, FreshInv
<1>1. FreshInv' /\ IdleInv'
  BY <1>0, NextFresh, NextIdle
<1>2. ASSUME NothingFailed', NEW i \in Instances, NEW s \in Services
      PROVE  EndsWith(LineOf(i, s), services[i][s])' /\ Chained(LineOf(i, s))'
  <2> DEFINE f == LineOf(i, s)
             g == LineOf(i, s)'
  <2>1. EndsWith(f, services[i][s]) /\ Chained(f)
    BY <1>0, <1>2, FaultsFall DEF ChainInv
  <2>2. IsLine(f) /\ IsLine(g)
    BY <1>0, LineOfType
  <2>3. LineStays(i, s) \/ LineGrows(i, s) \/ LineAdvances(i, s)
    BY <1>0, <1>2, StepOfLine DEF IdleInv, LineIsLoaded
  <2>4. CASE LineStays(i, s)
    BY <2>1, <2>4 DEF LineStays
  <2>5. CASE LineGrows(i, s)
    <3>1. PICK e \in Slot : /\ Grows(f, g, e)
                            /\ services'[i][s] = e /\ Follows(services[i][s], e)
      BY <2>5 DEF LineGrows
    <3> HIDE DEF f, g
    <3>2. EndsWith(g, e) /\ Chained(g)
      BY <2>1, <2>2, <3>1, GrowsKeeps
    <3>3. EndsWith(g, services'[i][s])
      BY <3>1, <3>2
    <3>4. QED
      BY <3>2, <3>3 DEF g
  <2>6. CASE LineAdvances(i, s)
    <3>1. Advances(f, g) /\ services'[i][s] = services[i][s]
      BY <2>6 DEF LineAdvances
    <3> HIDE DEF f, g
    <3>2. EndsWith(g, services[i][s]) /\ Chained(g)
      BY <2>1, <2>2, <3>1, AdvancesKeeps
    <3>3. QED
      BY <3>1, <3>2 DEF g
  <2>7. QED
    BY <2>3, <2>4, <2>5, <2>6
<1>3. QED
  BY <1>1, <1>2 DEF ChainInv

LEMMA ChainIsInvariant ==
  ASSUME Alone, "drift" \notin Crons
  PROVE  Spec => []ChainInv
<1>1. ChainInv /\ [Next]_vars => ChainInv'
  BY NextChain
<1>2. QED
  BY <1>1, InitChain, PTL DEF Spec

\* What one container has in memory is what Redis will hold once the commands
\* on the way are executed, whatever register(), deregister(), the lifecycle
\* operations and the health sweep changed, in any order.
THEOREM MemoryWillBeStored ==
  ASSUME Alone, "drift" \notin Crons
  PROVE  Spec => []WriteThrough
<1>1. ChainInv => WriteThrough
  <2> SUFFICES ASSUME ChainInv, NothingFailed, NEW i \in Instances, NEW s \in Services
               PROVE  WillBeStored(i, s)
    BY DEF WriteThrough
  <2> DEFINE f == LineOf(i, s)
  <2>1. PICK k \in DOMAIN f : f[k] = services[i][s] /\ \A j \in DOMAIN f : j <= k
    BY DEF ChainInv, EndsWith
  <2>2. sent[i] \in Seq(Command)
    BY DEF ChainInv, FreshInv, TypeOK
  <2>3. DOMAIN sent[i] = 1 .. Len(sent[i]) /\ Len(sent[i]) \in Nat
    BY <2>2
  <2>4. /\ DOMAIN f = {0} \union Writes(i, s)
        /\ f[0] = redis[s]
        /\ \A j \in Writes(i, s) : j # 0 /\ f[j] = sent[i][j].value
    BY <2>3 DEF LineOf, Line, Writes
  <2>5. CASE k = 0
    <3>1. Writes(i, s) = {}
      BY <2>1, <2>3, <2>4, <2>5 DEF Writes
    <3>2. QED
      BY <2>1, <2>4, <2>5, <3>1 DEF WillBeStored
  <2>6. CASE k # 0
    BY <2>1, <2>4, <2>6 DEF WillBeStored
  <2>7. QED
    BY <2>5, <2>6
<1>2. QED
  BY <1>1, ChainIsInvariant, PTL

\* Redis never takes a lower major version of a service over a higher one
\* while nothing fails: what validateVersionUpgrade() compared with memory
\* still holds when the HSET is executed.
THEOREM RedisKeepsMajorVersions ==
  ASSUME Alone, "drift" \notin Crons
  PROVE  Spec => NoDowngrade
<1>1. ChainInv /\ [Next]_vars
      => [\A s \in Services :
            NothingFailed' /\ redis[s] # Absent /\ redis'[s] # Absent
            => LET from == Major[redis[s].manifest]
                   to == Major[redis'[s].manifest]
               IN from # NoSemver /\ to # NoSemver => to >= from]_vars
  <2> SUFFICES ASSUME ChainInv, Next, NothingFailed', NEW s \in Services
               PROVE  Follows(redis[s], redis'[s])
    BY DEF Follows, Upgradable
  <2>0. FreshInv /\ IdleInv /\ TypeOK /\ TypeOK'
    BY NextType DEF ChainInv, FreshInv
  <2>1. PICK i \in Instances : TRUE
    BY DEF Next
  <2> DEFINE f == LineOf(i, s)
             g == LineOf(i, s)'
  <2>2. IsLine(f) /\ f[0] = redis[s] /\ IsLine(g) /\ g[0] = redis'[s]
    BY <2>0, LineOfType
  <2>3. LineStays(i, s) \/ LineGrows(i, s) \/ LineAdvances(i, s)
    BY <2>0, StepOfLine DEF IdleInv, LineIsLoaded
  <2>4. Chained(f)
    BY <2>0, FaultsFall DEF ChainInv
  <2>5. g = f \/ (\E e : Grows(f, g, e)) \/ Advances(f, g)
    BY <2>3 DEF LineStays, LineGrows, LineAdvances
  <2>6. f[0] \in Slot
    BY <2>2 DEF IsLine
  <2> HIDE DEF f, g
  <2>7. g[0] = f[0] \/ Follows(f[0], g[0])
    BY <2>2, <2>4, <2>5, GrowsKeeps, AdvancesKeeps
  <2>8. Follows(f[0], f[0])
    BY <2>6, FollowsItself
  <2>9. QED
    BY <2>2, <2>7, <2>8
<1>2. QED
  BY <1>1, ChainIsInvariant, PTL DEF Spec, NoDowngrade

-----------------------------------------------------------------------------
(* Time, under every fault and with the drift job.                         *)

Recent(e) == e # Absent => e.updatedAt <= clock

\* The line is in the order of time, and nothing is newer than now.
TimeInv ==
  /\ TypeOK
  /\ \A i \in Instances, s \in Services :
       /\ Ordered(LineOf(i, s))
       /\ \A k \in DOMAIN LineOf(i, s) : Recent(LineOf(i, s)[k])

\* What any step does to a line.
LineMoves(i, s) ==
  /\ clock <= clock'
  /\ \/ UNCHANGED LineOf(i, s)
     \/ \E e \in Slot : /\ Grows(LineOf(i, s), LineOf(i, s)', e)
                        /\ e # Absent => e.updatedAt = clock'
     \/ Shrinks(LineOf(i, s), LineOf(i, s)')

LEMMA SavesMoves ==
  ASSUME TypeOK, NEW i \in Instances, NEW r \in Services, NEW e, Saves(i, r, e),
         NEW s \in Services
  PROVE  LineMoves(i, s)
<1>0. sent[i] \in Seq(Command) /\ redis[s] \in Slot /\ e \in Slot
  BY DEF TypeOK, Hash, Saves
<1>1. PICK a \in Strict \union {"none"} : Send(i, [sid |-> r, value |-> e, caller |-> a])
  BY DEF Saves
<1> DEFINE c == [sid |-> r, value |-> e, caller |-> a]
<1>2. c \in Command /\ ~IsRead(c) /\ c.sid = r /\ c.value = e
  BY <1>0, WriteType DEF IsRead, Strict
<1>3. CASE sent' = sent
  BY <1>3 DEF LineMoves, LineOf, Saves
<1>4. CASE sent' = [sent EXCEPT ![i] = Append(@, c)]
  <2> HIDE DEF c
  <2>1. LineOf(i, s)' = Line(Append(sent[i], c), redis[s], s)
    BY <1>4 DEF Saves, LineOf, TypeOK
  <2>2. IF ~IsRead(c) /\ c.sid = s
        THEN Grows(Line(sent[i], redis[s], s), Line(Append(sent[i], c), redis[s], s), c.value)
        ELSE Line(Append(sent[i], c), redis[s], s) = Line(sent[i], redis[s], s)
    BY <1>0, <1>2, LineAppended
  <2>3. LineOf(i, s) = Line(sent[i], redis[s], s)
    BY DEF LineOf
  <2>4. QED
    BY <1>0, <1>2, <2>1, <2>2, <2>3 DEF LineMoves, Saves
<1>5. QED
  BY <1>1, <1>3, <1>4 DEF Send

LEMMA FaultMoves ==
  ASSUME TypeOK, NEW i \in Instances, NEW s \in Services,
         \/ DropWrite(i)
         \/ DropRead(i)
         \/ \E k \in 1 .. (MaxQueue + 1) : Timeout(i, k)
         \/ Crash(i)
         \/ BootMemoryOnly(i)
  PROVE  LineMoves(i, s)
<1> DEFINE q == sent[i]
           v == redis[s]
<1>0. q \in Seq(Command) /\ v \in Slot
  BY DEF TypeOK, Hash
<1>1. clock' = clock /\ clock <= clock'
  BY DEF TypeOK, DropWrite, DropRead, Timeout, Crash, BootMemoryOnly
<1>2. CASE DropWrite(i) \/ DropRead(i)
  <2>1. q # <<>> /\ sent'[i] = Tail(q)
    BY <1>2 DEF DropWrite, DropRead, TypeOK
  <2> DEFINE w == IF ~IsRead(Head(q)) /\ Head(q).sid = s THEN Head(q).value ELSE v
  <2>2. redis'[s] = v \/ redis'[s] = w
    BY <1>2 DEF DropWrite, DropRead, TypeOK, Hash
  <2>3. Shrinks(Line(q, v, s), Line(Tail(q), v, s))
    BY <1>0, <2>1, LineDropped
  <2>4. Shrinks(Line(q, v, s), Line(Tail(q), w, s))
    <3>1. Advances(Line(q, v, s), Line(Tail(q), w, s))
      BY <1>0, <2>1, LineExecuted
    <3>2. QED
      BY <3>1 DEF Advances, Shrinks
  <2>5. LineOf(i, s) = Line(q, v, s) /\ LineOf(i, s)' = Line(Tail(q), redis'[s], s)
    BY <2>1 DEF LineOf
  <2> HIDE DEF w, q, v
  <2>6. QED
    BY <1>1, <2>2, <2>3, <2>4, <2>5 DEF LineMoves
<1>3. ASSUME NEW k \in 1 .. (MaxQueue + 1), Timeout(i, k)
      PROVE  LineMoves(i, s)
  <2>1. sent'[i] = [q EXCEPT ![k].caller = "none"] /\ redis' = redis
    BY <1>3 DEF Timeout, TypeOK
  <2>2. q[k] \in Write /\ k \in DOMAIN q /\ q[k].caller \in Strict
    BY <1>3, TimedOutWrite DEF Timeout
  <2>3. DOMAIN sent'[i] = DOMAIN q
    BY <1>0, <2>1
  <2>4. \A n \in DOMAIN q :
          sent'[i][n] = IF n = k THEN [q[k] EXCEPT !.caller = "none"] ELSE q[n]
    BY <1>0, <2>1
  <2>5. LET c == [q[k] EXCEPT !.caller = "none"]
        IN  /\ c.sid = q[k].sid /\ c.value = q[k].value
            /\ ~IsRead(c) /\ ~IsRead(q[k])
    BY <2>2 DEF Write, IsRead, Strict
  <2>6. LineOf(i, s)' = LineOf(i, s)
    BY <2>1, <2>3, <2>4, <2>5 DEF LineOf, Line
  <2>7. QED
    BY <1>1, <2>6 DEF LineMoves
<1>4. CASE Crash(i)
  <2>1. sent'[i] = <<>> /\ redis' = redis
    BY <1>4 DEF Crash, TypeOK
  <2>2. DOMAIN LineOf(i, s)' = {0} /\ LineOf(i, s)'[0] = v
    <3>1. {n \in DOMAIN <<>> : ~IsRead(<<>>[n]) /\ <<>>[n].sid = s} = {}
      OBVIOUS
    <3>2. QED
      BY <2>1, <3>1 DEF LineOf, Line
  <2>3. 0 \in DOMAIN LineOf(i, s) /\ LineOf(i, s)[0] = v
    BY DEF LineOf, Line
  <2>4. \A k \in DOMAIN LineOf(i, s)' :
          /\ Place(0, k) \in DOMAIN LineOf(i, s)
          /\ LineOf(i, s)'[k] = LineOf(i, s)[Place(0, k)]
    BY <2>2, <2>3 DEF Place
  <2>5. Shrinks(LineOf(i, s), LineOf(i, s)')
    BY <2>4 DEF Shrinks
  <2>6. QED
    BY <1>1, <2>5 DEF LineMoves
<1>5. CASE BootMemoryOnly(i)
  <2>1. LineOf(i, s)' = LineOf(i, s)
    BY <1>5 DEF BootMemoryOnly, LineOf
  <2>2. QED
    BY <1>1, <2>1 DEF LineMoves
<1>6. QED
  BY <1>2, <1>3, <1>4, <1>5

LEMMA StepMoves ==
  ASSUME Alone, TypeOK, [Next]_vars, NEW i \in Instances, NEW s \in Services
  PROVE  LineMoves(i, s)
<1>1. ASSUME NEW r \in Services, NEW e, Saves(i, r, e)
      PROVE  LineMoves(i, s)
  BY <1>1, SavesMoves
<1>2. ASSUME LineStays(i, s)
      PROVE  LineMoves(i, s)
  BY <1>2 DEF LineStays, LineMoves
<1>3. CASE UNCHANGED vars
  BY <1>3 DEF vars, TypeOK, LineMoves, LineOf
<1>4. ASSUME NEW r \in Services, NEW t \in 0 .. MaxClock, Admin(i, r, t)
      PROVE  \E e : Saves(i, r, e)
  BY <1>4, RegisterSaves, LifecycleSaves DEF Admin
<1>5. ASSUME NEW r \in Services, NEW h \in BOOLEAN, NEW t \in 0 .. MaxClock,
             ProbeAnswered(i, r, h, t)
      PROVE  LineMoves(i, s)
  <2>1. CASE UNCHANGED <<clock, services, redis, sent, snapshot>>
    BY <2>1 DEF TypeOK, LineMoves, LineOf
  <2>2. QED
    BY <1>1, <1>5, <2>1, ProbeSaves
<1>6. ASSUME NEW r \in Services, Deregister(i, r)
      PROVE  LineMoves(i, s)
  BY <1>1, <1>6, DeregisterSaves
<1>7. CASE ExecuteWrite(i) \/ ExecuteRead(i)
  <2>1. LineAdvances(i, s)
    BY <1>7, ExecuteLine
  <2>2. Shrinks(LineOf(i, s), LineOf(i, s)')
    BY <2>1 DEF LineAdvances, Advances, Shrinks
  <2>3. QED
    BY <2>1, <2>2 DEF LineAdvances, LineMoves, TypeOK
<1>8. CASE StartSweep(i) \/ LoadSnapshot(i) \/ Boot(i)
  BY <1>8 DEF StartSweep, LoadSnapshot, Boot, LineMoves, LineOf, TypeOK
<1>9. CASE StartReconciliation(i) \/ CompareSnapshot(i)
  BY <1>2, <1>9, DriftIdles, IdlesLine
<1>10. QED
  BY <1>1, <1>3, <1>4, <1>5, <1>6, <1>7, <1>8, <1>9, FaultMoves DEF Next, Alone

LEMMA InitTime == Init => TimeInv
<1> SUFFICES ASSUME Init PROVE TimeInv
  OBVIOUS
<1>1. ASSUME NEW i \in Instances, NEW s \in Services
      PROVE  /\ Ordered(LineOf(i, s))
             /\ \A k \in DOMAIN LineOf(i, s) : Recent(LineOf(i, s)[k])
  BY FirstLine DEF Ordered, Recent
<1>2. QED
  BY <1>1, InitType DEF TimeInv

\* Time does not go back.
LEMMA StaysRecent ==
  ASSUME TypeOK, TypeOK', clock <= clock', NEW e \in Slot, Recent(e)
  PROVE  e # Absent => e.updatedAt <= clock'
<1>1. clock \in Nat /\ clock' \in Nat
  BY RegistryAssumption DEF TypeOK
<1>2. e # Absent => e.updatedAt \in Nat
  BY RegistryAssumption DEF Slot, Entry
<1>3. QED
  BY <1>1, <1>2 DEF Recent

LEMMA NextTime ==
  ASSUME Alone, TimeInv, [Next]_vars
  PROVE  TimeInv'
<1>0. TypeOK /\ TypeOK'
  BY NextType DEF TimeInv
<1>1. ASSUME NEW i \in Instances, NEW s \in Services
      PROVE  /\ Ordered(LineOf(i, s)')
             /\ \A k \in DOMAIN LineOf(i, s)' :
                  LineOf(i, s)'[k] # Absent => LineOf(i, s)'[k].updatedAt <= clock'
  <2> DEFINE f == LineOf(i, s)
             g == LineOf(i, s)'
  <2>1. Ordered(f) /\ \A k \in DOMAIN f : Recent(f[k])
    BY DEF TimeInv
  <2>2. IsLine(f) /\ IsLine(g) /\ \A k \in DOMAIN f : f[k] \in Slot
    BY <1>0, LineOfType DEF IsLine
  <2>3. clock <= clock' /\ clock' \in Nat
    BY <1>0, StepMoves, RegistryAssumption DEF LineMoves, TypeOK
  <2>4. \A k \in DOMAIN f : f[k] # Absent => f[k].updatedAt <= clock'
    BY <1>0, <2>1, <2>2, <2>3, StaysRecent
  <2>5. \/ g = f
        \/ \E e \in Slot : Grows(f, g, e) /\ (e # Absent => e.updatedAt = clock')
        \/ Shrinks(f, g)
    BY <1>0, StepMoves DEF LineMoves
  <2> HIDE DEF f, g
  <2>6. ASSUME NEW e \in Slot, Grows(f, g, e), e # Absent => e.updatedAt = clock'
        PROVE  Ordered(g) /\ \A k \in DOMAIN g : g[k] # Absent => g[k].updatedAt <= clock'
    <3>1. \A k \in DOMAIN f : Older(f[k], e)
      BY <2>4, <2>6 DEF Older
    <3>2. Ordered(g)
      BY <2>1, <2>2, <2>6, <3>1, GrowsKeeps
    <3>3. \A k \in DOMAIN g : g[k] = e \/ (k \in DOMAIN f /\ g[k] = f[k])
      BY <2>6 DEF Grows
    <3>4. QED
      BY <2>3, <2>4, <2>6, <3>2, <3>3
  <2>7. CASE Shrinks(f, g)
    BY <2>1, <2>2, <2>4, <2>7, ShrinksKeeps DEF g
  <2>8. QED
    BY <2>1, <2>4, <2>5, <2>6, <2>7 DEF f, g
<1>2. QED
  BY <1>0, <1>1 DEF TimeInv, Recent

\* Redis never takes an older entry of a service over a newer one, although
\* commands are executed after their caller's time-out, lost with the
\* connection, or forgotten in a crash, and reloads overwrite memory.
THEOREM RedisGoesForward ==
  ASSUME Alone
  PROVE  Spec => RedisForward
<1>1. TimeInv /\ [Next]_vars
      => [\A s \in Services :
            redis[s] # Absent /\ redis'[s] # Absent
            => redis[s].updatedAt <= redis'[s].updatedAt]_vars
  <2> SUFFICES ASSUME TimeInv, Next, NEW s \in Services
               PROVE  Older(redis[s], redis'[s])
    BY DEF Older
  <2>0. TypeOK /\ TypeOK'
    BY NextType DEF TimeInv
  <2>1. PICK i \in Instances : TRUE
    BY DEF Next
  <2> DEFINE f == LineOf(i, s)
             g == LineOf(i, s)'
  <2>2. IsLine(f) /\ f[0] = redis[s] /\ IsLine(g) /\ g[0] = redis'[s]
    BY <2>0, LineOfType
  <2>3. g = f \/ (\E e : Grows(f, g, e)) \/ Shrinks(f, g)
    BY <2>0, StepMoves DEF LineMoves
  <2>4. Ordered(f)
    BY DEF TimeInv
  <2>5. f[0] \in Slot
    BY <2>2 DEF IsLine
  <2> HIDE DEF f, g
  <2>6. g[0] = f[0] \/ Older(f[0], g[0])
    BY <2>2, <2>3, <2>4, GrowsKeeps, ShrinksKeeps
  <2>7. QED
    BY <2>2, <2>5, <2>6, OlderItself
<1>2. TimeInv /\ [Next]_vars => TimeInv'
  BY NextTime
<1>3. QED
  BY <1>1, <1>2, InitTime, PTL DEF Spec, RedisForward
-----------------------------------------------------------------------------
(* The drift job beside the other operations.                              *)

\* A reply on its way to the drift job is no newer than any value of the line;
\* and so is what memory holds, unless it is itself on the line.
OrderInv ==
  /\ TimeInv
  /\ FreshInv
  /\ NothingFailed =>
       \A i \in Instances, s \in Services :
         /\ snapshot[i] # Absent =>
              Recent(snapshot[i][s]) /\ Behind(snapshot[i][s], LineOf(i, s))
         /\ OnLine(services[i][s], LineOf(i, s)) \/ Behind(services[i][s], LineOf(i, s))

LEMMA InitOrder == Init => OrderInv
<1> SUFFICES ASSUME Init PROVE OrderInv
  OBVIOUS
<1>1. ASSUME NEW i \in Instances, NEW s \in Services
      PROVE  OnLine(services[i][s], LineOf(i, s)) /\ snapshot[i] = Absent
  BY FirstLine DEF OnLine
<1>2. QED
  BY <1>1, InitFresh, InitTime DEF OrderInv

LEMMA NextOrder ==
  ASSUME Alone, OrderInv, [Next]_vars
  PROVE  OrderInv'
<1>0. FreshInv /\ TypeOK /\ TypeOK'
  BY NextType DEF OrderInv, FreshInv
<1>1. TimeInv' /\ FreshInv'
  BY <1>0, NextTime, NextFresh DEF OrderInv
<1>2. ASSUME NothingFailed', NEW i \in Instances, NEW s \in Services
      PROVE  /\ snapshot'[i] # Absent =>
                  /\ snapshot'[i][s] # Absent => snapshot'[i][s].updatedAt <= clock'
                  /\ Behind(snapshot'[i][s], LineOf(i, s)')
             /\ \/ OnLine(services'[i][s], LineOf(i, s)')
                \/ Behind(services'[i][s], LineOf(i, s)')
  <2> DEFINE f == LineOf(i, s)
             g == LineOf(i, s)'
             m == services[i][s]
             d == snapshot[i][s]
  <2>1. /\ Ordered(f) /\ (\A k \in DOMAIN f : Recent(f[k]))
        /\ snapshot[i] # Absent => Recent(d) /\ Behind(d, f)
        /\ OnLine(m, f) \/ Behind(m, f)
    BY <1>0, <1>2, FaultsFall DEF OrderInv, TimeInv
  <2>2. /\ IsLine(f) /\ IsLine(g) /\ f[0] = redis[s]
        /\ \A k \in DOMAIN f : f[k] \in Slot
        /\ 0 \in DOMAIN f
    BY <1>0, LineOfType DEF IsLine
  <2>3. snapshot[i] # Absent => d \in Slot
    BY <1>0 DEF TypeOK, Hash
  <2>4. LineStays(i, s) \/ LineGrows(i, s) \/ LineAdvances(i, s) \/ LineIsLoaded(i, s)
    BY <1>0, <1>2, StepOfLine
  <2>5. clock \in Nat /\ clock' \in Nat
    BY <1>0, RegistryAssumption DEF TypeOK
  <2>6. CASE LineStays(i, s)
    <3>1. /\ g = f /\ services'[i][s] = m /\ clock <= clock'
          /\ snapshot'[i] \in {snapshot[i], Absent}
      BY <2>6 DEF LineStays
    <3> HIDE DEF f, g
    <3>2. snapshot'[i] # Absent => (d # Absent => d.updatedAt <= clock')
      BY <1>0, <2>1, <2>3, <3>1, StaysRecent
    <3>3. QED
      BY <2>1, <3>1, <3>2 DEF g
  <2>7. CASE LineGrows(i, s)
    <3>1. PICK e \in Slot : /\ Grows(f, g, e) /\ services'[i][s] = e
                            /\ clock <= clock'
                            /\ e # Absent => e.updatedAt = clock'
                            /\ snapshot'[i] = snapshot[i]
      BY <2>7 DEF LineGrows
    <3> HIDE DEF f, g
    <3>2. ASSUME NEW x \in Slot, Recent(x)
          PROVE  Older(x, e) /\ (x # Absent => x.updatedAt <= clock')
      BY <1>0, <3>1, <3>2, StaysRecent DEF Older
    <3>3. OnLine(e, g)
      BY <2>2, <3>1, GrowsKeeps DEF OnLine, EndsWith
    <3>4. snapshot[i] # Absent => Behind(d, g) /\ (d # Absent => d.updatedAt <= clock')
      BY <2>1, <2>2, <2>3, <3>1, <3>2, GrowsKeeps
    <3>5. QED
      BY <3>1, <3>3, <3>4 DEF g
  <2>8. CASE LineAdvances(i, s)
    <3>1. /\ Advances(f, g) /\ services'[i][s] = m /\ clock' = clock
          /\ snapshot'[i] # Absent => snapshot'[i][s] = redis[s]
      BY <2>8 DEF LineAdvances
    <3> HIDE DEF f, g
    <3>2. Behind(f[0], g) /\ (OnLine(m, g) \/ Behind(m, g))
      BY <2>1, <2>2, <3>1, AdvancesKeeps
    <3>3. Recent(f[0])
      BY <2>1, <2>2
    <3>4. QED
      BY <2>2, <3>1, <3>2, <3>3 DEF g, Recent
  <2>9. CASE LineIsLoaded(i, s)
    <3>1. /\ snapshot[i] # Absent /\ g = f /\ clock' = clock /\ snapshot'[i] = Absent
          /\ services'[i][s] = IF d # Absent THEN d ELSE m
      BY <2>9 DEF LineIsLoaded
    <3> HIDE DEF f, g
    <3>2. QED
      BY <2>1, <3>1 DEF g, Recent
  <2>10. QED
    BY <2>4, <2>6, <2>7, <2>8, <2>9
<1>3. QED
  BY <1>1, <1>2 DEF OrderInv, Recent

\* With the drift job running beside the other operations of one container, an
\* entry in memory that is newer than the one in Redis is still on its way:
\* an HGETALL reply that was overtaken by changes does not lose their HSET.
THEOREM NewerEntryIsOnTheWay ==
  ASSUME Alone
  PROVE  Spec => []NoUnsavedChange
<1>1. OrderInv /\ [Next]_vars => OrderInv'
  BY NextOrder
<1>2. OrderInv => NoUnsavedChange
  <2> SUFFICES ASSUME OrderInv, NothingFailed, NEW i \in Instances, NEW s \in Services,
                      services[i][s] # Absent, redis[s] # Absent,
                      services[i][s].updatedAt > redis[s].updatedAt
               PROVE  \E k \in Writes(i, s) : sent[i][k].value = services[i][s]
    BY DEF NoUnsavedChange
  <2> DEFINE f == LineOf(i, s)
  <2>0. services[i][s] \in Entry /\ redis[s] \in Entry
    BY DEF OrderInv, FreshInv, TypeOK, Hash, Slot
  <2>1. services[i][s].updatedAt \in Nat /\ redis[s].updatedAt \in Nat
    BY <2>0, RegistryAssumption DEF Entry
  <2>2. /\ 0 \in DOMAIN f /\ f[0] = redis[s]
        /\ \A k \in DOMAIN f : k = 0 \/ (k \in Writes(i, s) /\ f[k] = sent[i][k].value)
    BY DEF LineOf, Line, Writes
  <2>3. OnLine(services[i][s], LineOf(i, s)) \/ Behind(services[i][s], LineOf(i, s))
    BY DEF OrderInv
  <2> HIDE DEF f
  <2>4. ~Behind(services[i][s], f)
    BY <2>1, <2>2 DEF Behind, Older
  <2>5. PICK k \in DOMAIN f : f[k] = services[i][s]
    BY <2>3, <2>4 DEF OnLine, f
  <2>6. k # 0
    BY <2>1, <2>2, <2>5
  <2>7. QED
    BY <2>2, <2>5, <2>6
<1>3. QED
  BY <1>1, <1>2, InitOrder, PTL DEF Spec
=============================================================================
