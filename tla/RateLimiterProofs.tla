-------------------------- MODULE RateLimiterProofs --------------------------
(***************************************************************************)
(* RateLimiter keeps its invariants for any number of containers and       *)
(* requests, every limit, every window and any number of faults.           *)
(***************************************************************************)
EXTENDS RateLimiter, TLAPS

\* What a request can be.
RequestState == [at : {"idle", "incr", "expire", "block"}, answer : Answers]

LEMMA RequestStates ==
  /\ \A a \in Answers : Idle(a) \in RequestState
  /\ \A x \in {"incr", "expire", "block"} : At(x) \in RequestState
BY DEF Idle, At, RequestState, Answers

\* A cut counter stays in its range, and counts from nothing to one.
LEMMA CountUpRange ==
  ASSUME NEW n \in 0 .. (Limit + 1)
  PROVE  /\ CountUp(n) \in 1 .. (Limit + 1)
         /\ CountUp(n) = 1 <=> n = 0
BY RateAssumption DEF CountUp

LEMMA LessRange ==
  ASSUME NEW n \in 0 .. Window
  PROVE  Less(n) \in 0 .. Window /\ Less(n) <= n
BY RateAssumption DEF Less

LEMMA LessOfLife ==
  ASSUME NEW n \in NoExpiry .. Window
  PROVE  /\ Less(n) \in NoExpiry .. Window
         /\ Less(n) = NoExpiry => n = NoExpiry
BY RateAssumption DEF Less, NoExpiry

LEMMA LessMonotone ==
  ASSUME NEW m \in 0 .. Window, NEW n \in 0 .. Window, m <= n
  PROVE  Less(m) <= Less(n)
BY RateAssumption DEF Less

-----------------------------------------------------------------------------
(* Types.                                                                  *)

LEMMA InitType == Init => TypeOK
BY RateAssumption, RequestStates
   DEF Init, TypeOK, NoRecord, RequestState, Answers, NoExpiry

LEMMA CheckType ==
  ASSUME TypeOK, NEW r \in Requests, Check(r)
  PROVE  TypeOK'
<1>1. request' \in [Requests -> RequestState]
  BY RequestStates DEF Check, TypeOK, RequestState, Answers
<1>2. promised' \in 0 .. Window
  BY DEF Check, TypeOK
<1>3. QED
  BY <1>1, <1>2 DEF Check, TypeOK, RequestState

LEMMA IncrementType ==
  ASSUME TypeOK, NEW r \in Requests, Increment(r)
  PROVE  TypeOK'
<1>1. hits' \in 0 .. (Limit + 1)
  BY CountUpRange, RateAssumption DEF Increment, TypeOK
<1>2. hitsLife' \in NoExpiry .. Window
  BY RateAssumption DEF Increment, TypeOK, NoExpiry
<1>3. age' \in [Stores -> 0 .. Window]
  <2>1. 0 \in 0 .. Window
    BY RateAssumption
  <2>2. CASE hits = 0
    BY <2>1, <2>2 DEF Increment, TypeOK
  <2>3. CASE hits # 0
    BY <2>3 DEF Increment, TypeOK
  <2>4. QED
    BY <2>2, <2>3
<1>4. request' \in [Requests -> RequestState]
  BY RequestStates DEF Increment, TypeOK, RequestState, Answers
<1>5. QED
  BY <1>1, <1>2, <1>3, <1>4 DEF Increment, TypeOK, RequestState

LEMMA ExpireType ==
  ASSUME TypeOK, NEW r \in Requests, Expire(r)
  PROVE  TypeOK'
<1>1. hitsLife' \in NoExpiry .. Window
  BY RateAssumption DEF Expire, NoExpiry
<1>2. request' \in [Requests -> RequestState]
  BY RequestStates DEF Expire, TypeOK, RequestState, Answers
<1>3. QED
  BY <1>1, <1>2 DEF Expire, TypeOK, RequestState

LEMMA SetBlockType ==
  ASSUME TypeOK, NEW r \in Requests, SetBlock(r)
  PROVE  TypeOK'
<1>1. blockLife' \in 0 .. Window /\ promised' \in 0 .. Window
  BY RateAssumption DEF SetBlock, BlockFor
<1>2. request' \in [Requests -> RequestState]
  BY RequestStates DEF SetBlock, TypeOK, RequestState, Answers
<1>3. QED
  BY <1>1, <1>2 DEF SetBlock, TypeOK, RequestState

\* A record of memoryStore.
Record == [hits : 0 .. (Limit + 1), life : 0 .. Window, block : 0 .. Window]

LEMMA CleanedRecord ==
  ASSUME NEW rec \in Record
  PROVE  Cleaned(rec) \in Record
BY RateAssumption DEF Cleaned, NoRecord, Record

LEMMA CountedRecord ==
  ASSUME NEW rec \in Record
  PROVE  /\ Counted(rec) \in Record
         /\ Counted(rec).hits = CountUp(rec.hits)
         /\ [Counted(rec) EXCEPT !.block = Window] \in Record
<1>1. CASE rec.hits = 0
  BY <1>1, RateAssumption DEF Counted, CountUp, Record
<1>2. CASE rec.hits # 0
  <2>1. CountUp(rec.hits) \in 0 .. (Limit + 1)
    BY CountUpRange, RateAssumption DEF Record
  <2>2. Counted(rec) = [rec EXCEPT !.hits = CountUp(rec.hits)]
    BY <1>2 DEF Counted
  <2>3. Window \in 0 .. Window
    BY RateAssumption
  <2>4. QED
    BY <2>1, <2>2, <2>3 DEF Record
<1>3. QED
  BY <1>1, <1>2

LEMMA HitMemoryType ==
  ASSUME TypeOK, NEW r \in Requests, HitMemory(r)
  PROVE  TypeOK'
<1> DEFINE i == r[1]
           found == memory[i]
           counted == Counted(Cleaned(found))
<1>1. i \in Instances
  BY DEF Requests
<1>2. found \in Record /\ Cleaned(found) \in Record /\ counted \in Record
      /\ [counted EXCEPT !.block = Window] \in Record
  BY <1>1, CleanedRecord, CountedRecord DEF TypeOK, Record
<1>3. memory' \in [Instances -> Record]
  <2> HIDE DEF counted, found
  <2>1. memory \in [Instances -> Record]
    BY DEF TypeOK, Record
  <2>2. QED
    BY <1>2, <2>1 DEF HitMemory, counted, found
<1>4. request' \in [Requests -> RequestState]
  BY RequestStates DEF HitMemory, TypeOK, RequestState, Answers
<1>5. age' \in [Stores -> 0 .. Window]
  BY RateAssumption DEF HitMemory, TypeOK
<1>6. QED
  BY <1>3, <1>4, <1>5 DEF HitMemory, TypeOK, RequestState, Record

LEMMA BreakOffType ==
  ASSUME TypeOK, NEW r \in Requests, BreakOff(r)
  PROVE  TypeOK'
<1>1. request' \in [Requests -> RequestState]
  BY RequestStates DEF BreakOff, TypeOK, RequestState, Answers
<1>2. faults' \in 0 .. MaxFaults
  BY RateAssumption DEF BreakOff, TypeOK
<1>3. QED
  BY <1>1, <1>2 DEF BreakOff, TypeOK, RequestState

LEMMA TickType ==
  ASSUME TypeOK, Tick
  PROVE  TypeOK'
<1>1. hitsLife' \in NoExpiry .. Window /\ hits' \in 0 .. (Limit + 1)
  <2>1. hits' \in {0, hits} /\ hitsLife' = Less(hitsLife)
    BY DEF Tick
  <2>2. hits \in 0 .. (Limit + 1) /\ 0 \in 0 .. (Limit + 1) /\ hitsLife \in NoExpiry .. Window
    BY RateAssumption DEF TypeOK
  <2>3. QED
    BY <2>1, <2>2, LessOfLife
<1>2. blockLife' \in 0 .. Window /\ promised' \in 0 .. Window
  BY LessRange DEF Tick, TypeOK
<1>3. memory' \in [Instances -> Record]
  <2>1. \A i \in Instances : [memory[i] EXCEPT !.life = Less(@), !.block = Less(@)] \in Record
    <3>1. SUFFICES ASSUME NEW i \in Instances
                   PROVE  [memory[i] EXCEPT !.life = Less(@), !.block = Less(@)] \in Record
      OBVIOUS
    <3>2. memory[i] \in Record
      BY DEF TypeOK, Record
    <3>3. Less(memory[i].life) \in 0 .. Window /\ Less(memory[i].block) \in 0 .. Window
      BY <3>2, LessRange DEF Record
    <3>4. QED
      BY <3>2, <3>3 DEF Record
  <2>2. QED
    BY <2>1 DEF Tick
<1>4. age' \in [Stores -> 0 .. Window]
  <2>1. \A n \in 0 .. Window : (IF n < Window THEN n + 1 ELSE Window) \in 0 .. Window
    BY RateAssumption
  <2>2. age' = [s \in Stores |-> IF age[s] < Window THEN age[s] + 1 ELSE Window]
    BY DEF Tick
  <2>3. age \in [Stores -> 0 .. Window]
    BY DEF TypeOK
  <2>4. QED
    BY <2>1, <2>2, <2>3
<1>5. QED
  BY <1>1, <1>2, <1>3, <1>4 DEF Tick, TypeOK, Record

LEMMA NextType ==
  ASSUME TypeOK, [Next]_vars
  PROVE  TypeOK'
<1>1. ASSUME NEW r \in Requests, Arrive(r)
      PROVE  TypeOK'
  BY <1>1, CheckType, HitMemoryType DEF Arrive
<1>2. ASSUME NEW r \in Requests, Continue(r)
      PROVE  TypeOK'
  BY <1>2, IncrementType, ExpireType, SetBlockType DEF Continue
<1>3. CASE UNCHANGED vars
  BY <1>3 DEF vars, TypeOK
<1>4. QED
  BY <1>1, <1>2, <1>3, BreakOffType, TickType DEF Next

\* Every variable of the limiter keeps its type: in particular no time left
\* exceeds a window (redisIncrement(), memoryIncrement()).
THEOREM RateTypeCorrect == Spec => []TypeOK
<1>1. QED
  BY InitType, NextType, PTL DEF Spec

-----------------------------------------------------------------------------
(* Counters and blocks end.                                                *)

CounterInv == TypeOK /\ CounterExpires

LEMMA NextCounter ==
  ASSUME CounterInv, [Next]_vars
  PROVE  CounterExpires'
<1> USE DEF CounterInv
<1>1. TypeOK'
  BY NextType
<1>2. ASSUME NEW r \in Requests, Increment(r)
      PROVE  CounterExpires'
  <2>1. CASE hits = 0
    <3>1. hits' = 1
      BY <1>2, <2>1, RateAssumption DEF Increment, CountUp
    <3>2. request'[r].at = "expire"
      BY <1>2, <3>1 DEF Increment, TypeOK, Creates, At
    <3>3. QED
      BY <3>2 DEF CounterExpires
  <2>2. CASE hits # 0
    <3>1. \A q \in Requests : request[q].at = "expire" => request'[q].at = "expire"
      BY <1>2 DEF Increment, TypeOK
    <3>2. hitsLife' = hitsLife /\ faults' = faults
      BY <1>2, <2>2 DEF Increment
    <3>3. hits > 0
      BY <2>2 DEF TypeOK
    <3>4. QED
      BY <3>1, <3>2, <3>3 DEF CounterExpires
  <2>3. QED
    BY <2>1, <2>2
<1>3. ASSUME NEW r \in Requests, Expire(r)
      PROVE  CounterExpires'
  BY <1>3, RateAssumption DEF Expire, CounterExpires, NoExpiry
<1>4. ASSUME NEW r \in Requests, Check(r) \/ HitMemory(r) \/ SetBlock(r)
      PROVE  CounterExpires'
  <2>1. \A q \in Requests : request[q].at = "expire" => request'[q].at = "expire"
    BY <1>4 DEF Check, HitMemory, SetBlock, TypeOK
  <2>2. UNCHANGED <<hits, hitsLife, faults>>
    BY <1>4 DEF Check, HitMemory, SetBlock
  <2>3. QED
    BY <2>1, <2>2 DEF CounterExpires
<1>5. ASSUME NEW r \in Requests, BreakOff(r)
      PROVE  CounterExpires'
  BY <1>5 DEF BreakOff, CounterExpires, TypeOK
<1>6. CASE Tick
  <2>1. hits' > 0 /\ hitsLife' = NoExpiry => hits > 0 /\ hitsLife = NoExpiry
    <3>1. hits' \in {0, hits} /\ hitsLife' = Less(hitsLife)
      BY <1>6 DEF Tick
    <3>2. hits' > 0 => hits > 0
      BY <3>1
    <3>3. hitsLife \in NoExpiry .. Window
      BY DEF TypeOK
    <3>4. QED
      BY <3>1, <3>2, <3>3, LessOfLife
  <2>2. UNCHANGED <<request, faults>>
    BY <1>6 DEF Tick
  <2>3. QED
    BY <2>1, <2>2 DEF CounterExpires
<1>7. CASE UNCHANGED vars
  BY <1>7 DEF vars, CounterExpires
<1>8. QED
  BY <1>2, <1>3, <1>4, <1>5, <1>6, <1>7 DEF Next, Arrive, Continue

\* A counter without a time to live is one whose first request is still to
\* send EXPIRE, or broke off (redisIncrement()).
THEOREM CountersEnd == Spec => []CounterExpires
<1>1. Init => CounterInv
  BY InitType DEF Init, CounterInv, CounterExpires
<1>2. CounterInv /\ [Next]_vars => CounterInv'
  BY NextType, NextCounter DEF CounterInv
<1>3. QED
  BY <1>1, <1>2, PTL DEF Spec, CounterInv

WaitInv == TypeOK /\ WaitIsHeld

LEMMA NextWait ==
  ASSUME WaitInv, [Next]_vars
  PROVE  WaitIsHeld'
<1> USE DEF WaitInv, WaitIsHeld
<1>1. ASSUME NEW r \in Requests, Check(r)
      PROVE  WaitIsHeld'
  BY <1>1 DEF Check, TypeOK
<1>2. ASSUME NEW r \in Requests, SetBlock(r)
      PROVE  WaitIsHeld'
  BY <1>2, RateAssumption DEF SetBlock, BlockFor
<1>3. ASSUME NEW r \in Requests, HitMemory(r) \/ Increment(r) \/ Expire(r) \/ BreakOff(r)
      PROVE  WaitIsHeld'
  BY <1>3 DEF HitMemory, Increment, Expire, BreakOff
<1>4. CASE Tick
  <2>1. promised' = Less(promised) /\ blockLife' = Less(blockLife)
    BY <1>4 DEF Tick
  <2>2. QED
    BY <2>1, LessMonotone DEF TypeOK
<1>5. CASE UNCHANGED vars
  BY <1>5 DEF vars
<1>6. QED
  BY <1>1, <1>2, <1>3, <1>4, <1>5 DEF Next, Arrive, Continue

\* The wait that a client was last told is over only when the block is
\* (redisIncrement(): timeToBlockExpire).
THEOREM WaitsAreHeld == Spec => []WaitIsHeld
<1>1. Init => WaitInv
  BY InitType DEF Init, WaitInv, WaitIsHeld
<1>2. WaitInv /\ [Next]_vars => WaitInv'
  BY NextType, NextWait DEF WaitInv
<1>3. QED
  BY <1>1, <1>2, PTL DEF Spec, WaitInv

-----------------------------------------------------------------------------
(* The contract.                                                           *)

\* A counter, or a record, does not end before its window does; and only a
\* request of an attached container is between two commands.
WindowsLast ==
  /\ hits > 0 /\ hitsLife # NoExpiry => hitsLife + age[Redis] >= Window
  /\ \A i \in Instances : memory[i].hits > 0 => memory[i].life + age[i] >= Window

AttachedOnly == \A r \in Requests : request[r].at # "idle" => r[1] \in attached

StoreInv == TypeOK /\ WindowsLast /\ AttachedOnly

LEMMA InitStore == Init => StoreInv
<1>1. Init => WindowsLast
  BY DEF Init, WindowsLast, NoRecord
<1>2. Init => AttachedOnly
  BY DEF Init, AttachedOnly, Idle
<1>3. QED
  BY <1>1, <1>2, InitType DEF StoreInv

\* The stores that a request does not use are not those it changes.
LEMMA StoreFacts ==
  ASSUME TypeOK, NEW r \in Requests
  PROVE  /\ r[1] \in Instances /\ Redis \in Stores /\ r[1] \in Stores
         /\ StoreOf(r[1]) \in Stores
         /\ r[1] # Redis
         /\ r[1] \in attached => StoreOf(r[1]) = Redis
         /\ r[1] \notin attached => StoreOf(r[1]) = r[1]
BY RateAssumption DEF Requests, Stores, Redis, StoreOf

LEMMA NextAttached ==
  ASSUME StoreInv, [Next]_vars
  PROVE  AttachedOnly'
<1> USE DEF StoreInv, AttachedOnly
<1>1. ASSUME NEW r \in Requests, Arrive(r) \/ Continue(r) \/ BreakOff(r)
      PROVE  AttachedOnly'
  BY <1>1 DEF Arrive, Continue, Check, HitMemory, Increment, Expire, SetBlock, BreakOff,
              TypeOK, Idle, At
<1>2. CASE Tick \/ UNCHANGED vars
  BY <1>2 DEF Tick, vars
<1>3. QED
  BY <1>1, <1>2 DEF Next

\* The record that memoryIncrement() leaves is as old as its window.
LEMMA HitMemoryWindows ==
  ASSUME StoreInv, NEW r \in Requests, HitMemory(r)
  PROVE  WindowsLast'
<1> DEFINE i == r[1]
           found == memory[i]
           counted == Counted(Cleaned(found))
<1> USE DEF StoreInv
<1>1. i \in Instances /\ i # Redis /\ i \in Stores /\ Redis \in Stores
  BY StoreFacts
<1>2. found \in Record /\ Cleaned(found) \in Record /\ counted \in Record
      /\ counted.hits = CountUp(Cleaned(found).hits)
  BY <1>1, CleanedRecord, CountedRecord DEF TypeOK, Record
<1>3. age \in [Stores -> 0 .. Window]
  BY DEF TypeOK
<1>4. UNCHANGED <<hits, hitsLife>> /\ age'[Redis] = age[Redis]
  BY <1>1, <1>3 DEF HitMemory
<1>5. \A j \in Instances \ {i} : memory'[j] = memory[j] /\ age'[j] = age[j]
  BY <1>1, <1>3 DEF HitMemory, TypeOK, Stores
<1>6. memory'[i].hits > 0 => memory'[i].life + age'[i] >= Window
  <2>1. CASE found.block > 0
    <3>1. memory'[i] = Cleaned(found) /\ age' = age
      BY <1>1, <2>1 DEF HitMemory, TypeOK
    <3>2. QED
      BY <1>1, <3>1 DEF Cleaned, NoRecord, WindowsLast
  <2>2. CASE found.block = 0
    <3>1. memory'[i].hits = counted.hits /\ memory'[i].life = counted.life
      <4> HIDE DEF counted
      <4>1. memory'[i] \in {counted, [counted EXCEPT !.block = Window]}
        BY <1>1, <2>2 DEF HitMemory, TypeOK, counted
      <4>2. QED
        BY <1>2, <4>1 DEF Record
    <3>2. counted.hits = 1 <=> Cleaned(found).hits = 0
      BY <1>2, CountUpRange DEF Record
    <3>3. age'[i] = IF counted.hits = 1 THEN 0 ELSE age[i]
      <4> HIDE DEF counted
      <4>1. age' = IF counted.hits = 1 THEN [age EXCEPT ![i] = 0] ELSE age
        BY <2>2 DEF HitMemory, counted
      <4>2. QED
        BY <1>1, <1>3, <4>1
    <3>4. CASE Cleaned(found).hits = 0
      <4>1. counted.life = Window
        BY <3>4 DEF Counted
      <4>2. QED
        BY <3>1, <3>2, <3>3, <3>4, <4>1, RateAssumption
    <3>5. CASE Cleaned(found).hits # 0
      <4>1. Cleaned(found) = found
        BY <3>5 DEF Cleaned, NoRecord
      <4>2. counted.life = found.life
        BY <1>2, <3>5, <4>1 DEF Counted, Record
      <4>3. found.hits > 0
        BY <1>2, <3>5, <4>1 DEF Record
      <4>4. found.life + age[i] >= Window
        BY <1>1, <4>3 DEF WindowsLast
      <4>5. QED
        BY <3>1, <3>2, <3>3, <3>5, <4>2, <4>4
    <3>6. QED
      BY <3>4, <3>5
  <2>3. QED
    BY <1>2, <2>1, <2>2 DEF Record
<1>7. QED
  BY <1>4, <1>5, <1>6 DEF WindowsLast

\* Time uses up a life no faster than a window.
LEMMA OlderTogether ==
  ASSUME NEW life \in 1 .. Window, NEW a \in 0 .. Window, life + a >= Window
  PROVE  /\ Less(life) + (IF a < Window THEN a + 1 ELSE Window) >= Window
         /\ life = 1 => (IF a < Window THEN a + 1 ELSE Window) = Window
BY RateAssumption DEF Less

LEMMA TickWindows ==
  ASSUME StoreInv, Tick
  PROVE  WindowsLast'
<1> USE DEF StoreInv
<1>1. age \in [Stores -> 0 .. Window] /\ Redis \in Stores /\ Instances \subseteq Stores
  BY DEF TypeOK, Stores
<1>2. \A s \in Stores : age'[s] = IF age[s] < Window THEN age[s] + 1 ELSE Window
  BY DEF Tick
<1>3. hits' > 0 /\ hitsLife' # NoExpiry => hitsLife' + age'[Redis] >= Window
  <2>1. SUFFICES ASSUME hits' > 0, hitsLife' # NoExpiry
                 PROVE  hitsLife' + age'[Redis] >= Window
    OBVIOUS
  <2>2. hits > 0 /\ hitsLife # 1 /\ hitsLife' = Less(hitsLife)
    <3>1. hits' = (IF hitsLife = 1 THEN 0 ELSE hits) /\ hitsLife' = Less(hitsLife)
      BY DEF Tick
    <3>2. QED
      BY <2>1, <3>1
  <2>3. hitsLife \in NoExpiry .. Window
    BY DEF TypeOK
  <2>4. hitsLife # NoExpiry
    BY <2>1, <2>2 DEF Less, NoExpiry
  <2>5. hitsLife + age[Redis] >= Window
    BY <2>2, <2>4 DEF WindowsLast
  <2>6. CASE hitsLife = 0
    <3>1. age[Redis] = Window /\ hitsLife' = 0
      BY <1>1, <2>2, <2>5, <2>6, RateAssumption DEF Less
    <3>2. QED
      BY <1>1, <1>2, <3>1, RateAssumption
  <2>7. CASE hitsLife # 0
    <3>1. hitsLife \in 1 .. Window
      BY <2>3, <2>4, <2>7, RateAssumption DEF NoExpiry
    <3>2. QED
      BY <1>1, <1>2, <2>2, <2>5, <3>1, OlderTogether
  <2>8. QED
    BY <2>6, <2>7
<1>4. \A i \in Instances : memory'[i].hits > 0 => memory'[i].life + age'[i] >= Window
  <2>1. SUFFICES ASSUME NEW i \in Instances, memory'[i].hits > 0
                 PROVE  memory'[i].life + age'[i] >= Window
    OBVIOUS
  <2>2. memory[i] \in Record
    BY DEF TypeOK, Record
  <2>3. memory'[i].hits = memory[i].hits /\ memory'[i].life = Less(memory[i].life)
    BY <2>2 DEF Tick, Record
  <2>4. memory[i].life + age[i] >= Window /\ memory[i].life \in 0 .. Window
    BY <2>1, <2>2, <2>3 DEF WindowsLast, Record
  <2>5. age[i] \in 0 .. Window /\ age'[i] = IF age[i] < Window THEN age[i] + 1 ELSE Window
    BY <1>1, <1>2
  <2>6. CASE memory[i].life = 0
    <3>1. age[i] = Window /\ memory'[i].life = 0
      BY <2>3, <2>4, <2>5, <2>6, RateAssumption DEF Less
    <3>2. QED
      BY <2>5, <3>1, RateAssumption
  <2>7. CASE memory[i].life # 0
    <3>1. memory[i].life \in 1 .. Window
      BY <2>4, <2>7, RateAssumption
    <3>2. QED
      BY <2>3, <2>4, <2>5, <3>1, OlderTogether
  <2>8. QED
    BY <2>6, <2>7
<1>5. QED
  BY <1>3, <1>4 DEF WindowsLast

LEMMA NextWindows ==
  ASSUME StoreInv, [Next]_vars
  PROVE  WindowsLast'
<1> USE DEF StoreInv
<1>1. ASSUME NEW r \in Requests, Check(r) \/ SetBlock(r) \/ BreakOff(r)
      PROVE  WindowsLast'
  BY <1>1 DEF Check, SetBlock, BreakOff, WindowsLast
<1>2. ASSUME NEW r \in Requests, Increment(r)
      PROVE  WindowsLast'
  <2>1. \A i \in Instances : age'[i] = age[i]
    BY <1>2, RateAssumption DEF Increment, TypeOK, Stores, Redis
  <2>2. hits' > 0 /\ hitsLife' # NoExpiry => hitsLife' + age'[Redis] >= Window
    <3>1. CASE hits = 0
      BY <1>2, <3>1 DEF Increment
    <3>2. CASE hits # 0
      BY <1>2, <3>2 DEF Increment, WindowsLast, TypeOK
    <3>3. QED
      BY <3>1, <3>2
  <2>3. QED
    BY <1>2, <2>1, <2>2 DEF Increment, WindowsLast
<1>3. ASSUME NEW r \in Requests, Expire(r)
      PROVE  WindowsLast'
  <2>1. age[Redis] \in 0 .. Window
    BY DEF TypeOK, Stores
  <2>2. hits' > 0 => hitsLife' + age'[Redis] >= Window
    BY <1>3, <2>1, RateAssumption DEF Expire
  <2>3. QED
    BY <1>3, <2>2 DEF Expire, WindowsLast
<1>4. CASE UNCHANGED vars
  BY <1>4 DEF vars, WindowsLast
<1>5. QED
  BY <1>1, <1>2, <1>3, <1>4, HitMemoryWindows, TickWindows DEF Next, Arrive, Continue

LEMMA NextStore ==
  ASSUME StoreInv, [Next]_vars
  PROVE  StoreInv'
BY NextType, NextAttached, NextWindows DEF StoreInv

\* An answer to one request is what its own store sees of it, and no other
\* store sees anything.
LEMMA VerdictStep ==
  ASSUME TypeOK, NEW r \in Requests, NEW x, NEW s \in Stores,
         request' = [request EXCEPT ![r] = x], attached' = attached
  PROVE  /\ StoreOf(r[1]) # s => Verdict(s)' = Verdict(s)
         /\ StoreOf(r[1]) = s => Verdict(s)' = [Verdict(s) EXCEPT ![r] = Said(r)']
BY DEF Verdict, StoreOf, Said, TypeOK

LEMMA OtherStores ==
  ASSUME TypeOK, NEW r \in Requests, NEW x, NEW s \in Stores, StoreOf(r[1]) # s,
         request' = [request EXCEPT ![r] = x], attached' = attached,
         Used(s)' = Used(s), age'[s] = age[s]
  PROVE  UNCHANGED Contract(s)!vars
BY VerdictStep DEF Contract!vars

\* What a store does is a step of the contract, or none.
StoreStep(s) == Contract(s)!Next \/ UNCHANGED Contract(s)!vars

\* The three ways in which an answer leaves the window alone.
LEMMA SameWindow ==
  ASSUME TypeOK, NEW r \in Requests, NEW x, NEW s \in Stores, StoreOf(r[1]) = s,
         request' = [request EXCEPT ![r] = x], attached' = attached,
         Used(s)' = Used(s), age'[s] = age[s],
         Said(r)' \in {"none", "refuse", Said(r)}
  PROVE  StoreStep(s)
<1>1. Verdict(s)' = [Verdict(s) EXCEPT ![r] = Said(r)']
  BY VerdictStep
<1>2. CASE Said(r)' = "none"
  BY <1>1, <1>2 DEF StoreStep, Contract!Next, Contract!Forget
<1>3. CASE Said(r)' = "refuse"
  BY <1>1, <1>3 DEF StoreStep, Contract!Next, Contract!Refuse
<1>4. CASE Said(r)' = Said(r)
  <2>1. Verdict(s)' = Verdict(s)
    BY <1>1, <1>4 DEF Verdict
  <2>2. QED
    BY <2>1 DEF StoreStep, Contract!vars
<1>5. QED
  BY <1>2, <1>3, <1>4

LEMMA UsedOfRedis == Used(Redis) = IF hits <= Limit THEN hits ELSE Limit
BY DEF Used

\* The commands that do not count keep the contract.
LEMMA QuietStep ==
  ASSUME StoreInv, NEW r \in Requests,
         Check(r) \/ Expire(r) \/ SetBlock(r) \/ BreakOff(r),
         NEW s \in Stores
  PROVE  StoreStep(s)
<1> USE DEF StoreInv
<1>1. UNCHANGED <<attached, hits, memory, age>>
  BY DEF Check, Expire, SetBlock, BreakOff
<1>2. Used(s)' = Used(s)
  BY <1>1 DEF Used
<1>3. PICK x \in RequestState : request' = [request EXCEPT ![r] = x]
  BY RequestStates DEF Check, Expire, SetBlock, BreakOff, Answers
<1>4. Said(r)' \in {"none", "refuse", Said(r)}
  BY DEF Check, Expire, SetBlock, BreakOff, Said, TypeOK, Idle, At
<1>5. QED
  BY <1>1, <1>2, <1>3, <1>4, OtherStores, SameWindow DEF StoreStep

\* INCR opens a window, passes or refuses.
LEMMA IncrementStep ==
  ASSUME StoreInv, NEW r \in Requests, Increment(r), NEW s \in Stores
  PROVE  StoreStep(s)
<1> USE DEF StoreInv
<1>1. StoreOf(r[1]) = Redis /\ Redis \in Stores
  BY StoreFacts DEF AttachedOnly, Increment
<1>2. hits \in 0 .. (Limit + 1) /\ age \in [Stores -> 0 .. Window]
  BY DEF TypeOK
<1>3. PICK x \in RequestState : request' = [request EXCEPT ![r] = x]
  BY RequestStates DEF Increment, Answers
<1>4. attached' = attached /\ memory' = memory /\ hits' = CountUp(hits)
  BY DEF Increment
<1>5. CASE s # Redis
  <2>1. age'[s] = age[s] /\ Used(s)' = Used(s)
    BY <1>2, <1>4, <1>5 DEF Increment, Used
  <2>2. QED
    BY <1>1, <1>3, <1>4, <1>5, <2>1, OtherStores DEF StoreStep
<1>6. CASE s = Redis
  <2>1. Verdict(s)' = [Verdict(s) EXCEPT ![r] = Said(r)']
    BY <1>1, <1>3, <1>4, <1>6, VerdictStep
  <2>2. CASE hits = 0
    <3>1. hits' = 1
      BY <1>4, <2>2, RateAssumption DEF CountUp
    <3>2. Said(r)' = "pass"
      BY <3>1 DEF Increment, Said, TypeOK, Creates, At
    <3>3. age'[s] = 0
      BY <1>1, <1>2, <1>6, <2>2 DEF Increment
    <3>4. Used(s) = 0 /\ Used(s)' = 1
      BY <1>6, <2>2, <3>1, UsedOfRedis, RateAssumption DEF Used
    <3>5. QED
      BY <2>1, <3>2, <3>3, <3>4 DEF StoreStep, Contract!Next, Contract!Open
  <2>3. CASE hits # 0 /\ ~OverLimit(hits')
    <3>1. hits \in 1 .. (Limit - 1) /\ hits' = hits + 1 /\ hits' <= Limit
      BY <1>2, <1>4, <2>3, RateAssumption DEF CountUp, OverLimit
    <3>2. Said(r)' = "pass"
      BY <1>2, <2>3, <3>1 DEF Increment, Said, TypeOK, Creates, At, Idle
    <3>3. age'[s] = age[s]
      BY <2>3 DEF Increment
    <3>4. Used(s) = hits /\ Used(s)' = hits + 1
      BY <1>6, <3>1, RateAssumption DEF Used
    <3>5. QED
      BY <2>1, <3>1, <3>2, <3>3, <3>4 DEF StoreStep, Contract!Next, Contract!Pass
  <2>4. CASE hits # 0 /\ OverLimit(hits')
    <3>1. hits >= Limit /\ hits' > Limit /\ ~Creates(hits')
      BY <1>2, <1>4, <2>4, RateAssumption DEF CountUp, OverLimit, Creates
    <3>2. Said(r)' = "refuse"
      BY <2>4, <3>1 DEF Increment, Said, TypeOK, At
    <3>3. age'[s] = age[s]
      BY <2>4 DEF Increment
    <3>4. Used(s) = Limit /\ Used(s)' = Limit
      BY <1>2, <1>4, <1>6, <3>1, RateAssumption DEF Used, CountUp
    <3>5. QED
      BY <1>1, <1>3, <1>4, <1>6, <3>2, <3>3, <3>4, SameWindow
  <2>5. QED
    BY <2>2, <2>3, <2>4
<1>7. QED
  BY <1>5, <1>6

\* In memory an old record may be closed, or replaced, by the request itself.
LEMMA HitMemoryStep ==
  ASSUME StoreInv, NEW r \in Requests, HitMemory(r), NEW s \in Stores
  PROVE  StoreStep(s)
<1> DEFINE i == r[1]
           found == memory[i]
           counted == Counted(Cleaned(found))
<1> USE DEF StoreInv
<1>1. StoreOf(i) = i /\ i \in Instances /\ i # Redis /\ i \in Stores
  BY StoreFacts DEF HitMemory
<1>2. found \in Record /\ Cleaned(found) \in Record /\ counted \in Record
      /\ counted.hits = CountUp(Cleaned(found).hits)
  BY <1>1, CleanedRecord, CountedRecord DEF TypeOK, Record
<1>3. PICK x \in RequestState : request' = [request EXCEPT ![r] = x]
  <2>1. request' \in {[request EXCEPT ![r] = Idle("refuse")], [request EXCEPT ![r] = Idle("pass")]}
    BY DEF HitMemory
  <2>2. QED
    BY <2>1, RequestStates DEF Answers
<1>4. UNCHANGED <<attached, hits>> /\ age \in [Stores -> 0 .. Window]
  BY DEF HitMemory, TypeOK
<1>5. CASE s # i
  <2>1. age'[s] = age[s]
    BY <1>1, <1>4, <1>5 DEF HitMemory
  <2>2. s # Redis => memory'[s] = memory[s]
    BY <1>1, <1>5 DEF HitMemory, TypeOK, Stores
  <2>3. Used(s)' = Used(s)
    BY <1>4, <2>2 DEF Used
  <2>4. QED
    BY <1>1, <1>3, <1>4, <1>5, <2>1, <2>3, OtherStores DEF StoreStep
<1>6. CASE s = i
  <2>1. Verdict(s)' = [Verdict(s) EXCEPT ![r] = Said(r)']
    BY <1>1, <1>3, <1>4, <1>6, VerdictStep
  <2>2. Used(s) = (IF found.hits <= Limit THEN found.hits ELSE Limit)
        /\ Used(s)' = (IF memory'[i].hits <= Limit THEN memory'[i].hits ELSE Limit)
    BY <1>1, <1>6 DEF Used
  <2>3. age[s] \in 0 .. Window
    BY <1>4
  <2>4. found.life = 0 /\ found.hits > 0 => age[s] = Window
    <3>1. found.hits > 0 => found.life + age[s] >= Window
      BY <1>1, <1>6 DEF WindowsLast
    <3>2. QED
      BY <2>3, <3>1, RateAssumption
  <2>5. CASE found.block > 0
    <3>1. memory'[i] = Cleaned(found) /\ age' = age
      BY <1>1, <2>5 DEF HitMemory, TypeOK
    <3>2. Said(r)' = "refuse"
      BY <2>5 DEF HitMemory, TypeOK, Said, Idle
    <3>3. CASE found.life = 0 /\ found.hits > 0
      <4>1. Used(s)' = 0
        BY <2>2, <3>1, <3>3, RateAssumption DEF Cleaned, NoRecord
      <4>2. QED
        BY <2>1, <2>4, <3>1, <3>2, <3>3, <4>1 DEF StoreStep, Contract!Next, Contract!Close
    <3>4. CASE ~(found.life = 0 /\ found.hits > 0)
      <4>1. memory'[i].hits = found.hits
        BY <1>2, <3>1, <3>4 DEF Cleaned, NoRecord, Record
      <4>2. Used(s)' = Used(s)
        BY <2>2, <4>1
      <4>3. QED
        BY <1>1, <1>3, <1>4, <1>6, <3>1, <3>2, <4>2, SameWindow
    <3>5. QED
      BY <3>3, <3>4
  <2>6. CASE found.block = 0
    <3>1. memory'[i].hits = counted.hits
      <4> HIDE DEF counted
      <4>1. memory'[i] \in {counted, [counted EXCEPT !.block = Window]}
        BY <1>1, <2>6 DEF HitMemory, TypeOK, counted
      <4>2. QED
        BY <1>2, <4>1 DEF Record
    <3>2. Said(r)' = IF OverLimit(counted.hits) THEN "refuse" ELSE "pass"
      <4> HIDE DEF counted
      <4>1. request' = [request EXCEPT ![r] =
                          Idle(IF OverLimit(counted.hits) THEN "refuse" ELSE "pass")]
        BY <2>6 DEF HitMemory, counted
      <4>2. QED
        BY <4>1 DEF TypeOK, Said, Idle
    <3>3. age'[s] = IF counted.hits = 1 THEN 0 ELSE age[s]
      <4> HIDE DEF counted
      <4>1. age' = IF counted.hits = 1 THEN [age EXCEPT ![i] = 0] ELSE age
        BY <2>6 DEF HitMemory, counted
      <4>2. QED
        BY <1>1, <1>4, <1>6, <4>1
    <3> HIDE DEF counted
    <3>4. counted.hits \in 1 .. (Limit + 1) /\ (counted.hits = 1 <=> Cleaned(found).hits = 0)
      BY <1>2, CountUpRange DEF Record
    <3>5. CASE Cleaned(found).hits = 0
      <4>1. counted.hits = 1
        BY <3>4, <3>5
      <4>2. Used(s)' = 1 /\ Said(r)' = "pass" /\ age'[s] = 0
        BY <2>2, <3>1, <3>2, <3>3, <4>1, RateAssumption DEF OverLimit
      <4>3. CASE found.hits = 0
        <5>1. Used(s) = 0
          BY <2>2, <4>3, RateAssumption
        <5>2. QED
          BY <2>1, <4>2, <5>1 DEF StoreStep, Contract!Next, Contract!Open
      <4>4. CASE found.hits # 0
        <5>1. age[s] = Window
          BY <1>2, <2>4, <3>5, <4>4 DEF Cleaned, Record
        <5>2. QED
          BY <2>1, <4>2, <5>1 DEF StoreStep, Contract!Next, Contract!Reopen
      <4>5. QED
        BY <4>3, <4>4
    <3>6. CASE Cleaned(found).hits # 0
      <4>1. Cleaned(found) = found /\ found.hits \in 1 .. (Limit + 1)
        BY <1>2, <3>6 DEF Cleaned, NoRecord, Record
      <4>2. age'[s] = age[s]
        BY <3>3, <3>4, <3>6
      <4>3. CASE counted.hits <= Limit
        <5>1. counted.hits = found.hits + 1 /\ found.hits \in 1 .. (Limit - 1)
          BY <1>2, <4>1, <4>3, RateAssumption DEF CountUp
        <5>2. Said(r)' = "pass" /\ Used(s) = found.hits /\ Used(s)' = found.hits + 1
          BY <2>2, <3>1, <3>2, <4>3, <5>1, RateAssumption DEF OverLimit
        <5>3. QED
          BY <2>1, <4>2, <5>1, <5>2 DEF StoreStep, Contract!Next, Contract!Pass
      <4>4. CASE ~(counted.hits <= Limit)
        <5>1. Said(r)' = "refuse" /\ found.hits >= Limit
          BY <1>2, <3>2, <3>4, <4>1, <4>4, RateAssumption DEF OverLimit, CountUp
        <5>2. Used(s)' = Used(s)
          BY <2>2, <3>1, <4>1, <4>4, <5>1, RateAssumption
        <5>3. QED
          BY <1>1, <1>3, <1>4, <1>6, <4>2, <5>1, <5>2, SameWindow
      <4>5. QED
        BY <4>3, <4>4
    <3>7. QED
      BY <3>5, <3>6
  <2>7. QED
    BY <1>2, <2>5, <2>6 DEF Record
<1>7. QED
  BY <1>5, <1>6

\* A window of Redis closes when the counter expires, no earlier than due.
LEMMA TickStep ==
  ASSUME StoreInv, Tick, NEW s \in Stores
  PROVE  StoreStep(s)
<1> USE DEF StoreInv
<1>1. age'[s] = (IF age[s] < Window THEN age[s] + 1 ELSE Window) /\ age[s] \in 0 .. Window
  BY DEF Tick, TypeOK
<1>2. Verdict(s)' = Verdict(s)
  BY DEF Tick, Verdict, StoreOf, Said
<1>3. CASE s # Redis
  <2>1. s \in Instances /\ memory[s] \in Record
    BY <1>3 DEF Stores, TypeOK, Record
  <2>2. memory'[s].hits = memory[s].hits
    BY <2>1 DEF Tick, Record
  <2>3. Used(s)' = Used(s)
    BY <1>3, <2>2 DEF Used
  <2>4. QED
    BY <1>1, <1>2, <2>3 DEF StoreStep, Contract!Next, Contract!Tick
<1>4. CASE s = Redis
  <2>1. hits' = (IF hitsLife = 1 THEN 0 ELSE hits)
    BY DEF Tick
  <2>2. CASE hitsLife = 1 /\ hits > 0
    <3>1. age'[s] = Window
      <4>1. hitsLife + age[s] >= Window
        BY <1>4, <2>2 DEF WindowsLast, NoExpiry
      <4>2. QED
        BY <1>1, <2>2, <4>1, RateAssumption
    <3>2. Used(s)' = 0
      BY <1>4, <2>1, <2>2, RateAssumption DEF Used
    <3>3. QED
      BY <1>1, <1>2, <3>1, <3>2 DEF StoreStep, Contract!Next, Contract!Tick
  <2>3. CASE ~(hitsLife = 1 /\ hits > 0)
    <3>1. hits' = hits
      BY <2>1, <2>3 DEF TypeOK
    <3>2. Used(s)' = Used(s)
      BY <1>4, <3>1 DEF Used
    <3>3. QED
      BY <1>1, <1>2, <3>2 DEF StoreStep, Contract!Next, Contract!Tick
  <2>4. QED
    BY <2>2, <2>3
<1>5. QED
  BY <1>3, <1>4

\* Every store of the limiter, in Redis or in a container's memory, lets no
\* more than Limit requests of a client pass in a window (RateContract).
THEOREM LimiterKeepsContract == Spec => KeepsContract
<1>1. Init => \A s \in Stores : Contract(s)!Init
  <2>1. SUFFICES ASSUME Init, NEW s \in Stores
                 PROVE  Contract(s)!Init
    OBVIOUS
  <2>2. Used(s) = 0
    BY <2>1, RateAssumption DEF Init, Used, Stores, NoRecord
  <2>3. Verdict(s) = [r \in Requests |-> "none"]
    BY <2>1 DEF Init, Verdict, Said, Idle
  <2>4. QED
    BY <2>1, <2>2, <2>3 DEF Init, Contract!Init
<1>2. StoreInv /\ [Next]_vars => [\A s \in Stores : StoreStep(s)]_vars
  <2>1. SUFFICES ASSUME StoreInv, Next, NEW s \in Stores
                 PROVE  StoreStep(s)
    OBVIOUS
  <2>2. QED
    BY <2>1, QuietStep, IncrementStep, HitMemoryStep, TickStep DEF Next, Arrive, Continue
<1>3. StoreInv /\ [Next]_vars => StoreInv'
  BY NextStore
<1>4. QED
  BY <1>1, <1>2, <1>3, InitStore, PTL DEF Spec, KeepsContract, StoreStep
=============================================================================
