----------------------------- MODULE RateLimiter -----------------------------
(***************************************************************************)
(* Rate limiting (src/src/shared/redis-throttler-storage.ts, behind the    *)
(* guard of src/src/shared/guards/tribe-throttler.guard.ts): the requests  *)
(* of one client, under one tracker key, at every container.  A container  *)
(* that reached Redis at boot counts in the two keys all such containers   *)
(* share; one that did not counts in its own Map, for its whole life.      *)
(*                                                                         *)
(* redisIncrement() awaits each command, so requests interleave between    *)
(* them; memoryIncrement() is one step.  The throttler passes its ttl as   *)
(* blockDuration (app.module.ts configures none), so Window is both.       *)
(* Times are ticks left.                                                   *)
(***************************************************************************)
EXTENDS Integers

CONSTANTS
  Instances,
  Slots,      \* requests of the client that one instance has under way
  Limit,      \* rateLimit.max
  Window,     \* rateLimit.windowMs
  MaxFaults   \* requests that break off

ASSUME RateAssumption ==
  /\ Limit \in Nat \ {0}
  /\ Window \in Nat \ {0}
  /\ MaxFaults \in Nat
  /\ "redis" \notin Instances

VARIABLES
  attached,   \* the instances with a connection (redis # null)
  hits,       \* throttle:{key}:hits, up to Limit + 1; 0: no such key
  hitsLife,   \* time left to it
  blockLife,  \* time left to throttle:{key}:block; 0: no such key
  memory,     \* per instance: memoryStore's record
  request,    \* per instance and slot: where the request is, and its answer
  age,        \* history, per store: ticks since its counter was created
  promised,   \* history: time left of the wait a client was last told
  faults

vars == <<attached, hits, hitsLife, blockLife, memory, request, age, promised, faults>>

NoExpiry == -1

Requests == Instances \X Slots

\* The stores: one per instance, and the one in Redis.
Redis == "redis"
Stores == Instances \union {Redis}
StoreOf(i) == IF i \in attached THEN Redis ELSE i

NoRecord == [hits |-> 0, life |-> 0, block |-> 0]
Idle(answer) == [at |-> "idle", answer |-> answer]
At(stage) == [at |-> stage, answer |-> "none"]

\* Counting stops above the limit: the code only compares with it.
CountUp(n) == IF n <= Limit THEN n + 1 ELSE n
Less(n) == IF n > 0 THEN n - 1 ELSE n

Init ==
  /\ attached \in SUBSET Instances
  /\ hits = 0
  /\ hitsLife = 0
  /\ blockLife = 0
  /\ memory = [i \in Instances |-> NoRecord]
  /\ request = [r \in Requests |-> Idle("none")]
  /\ age = [s \in Stores |-> Window]
  /\ promised = 0
  /\ faults = 0

-----------------------------------------------------------------------------
\* redisIncrement(): TTL of the block key.
Check(r) ==
  /\ r[1] \in attached
  /\ request[r].at = "idle"
  /\ request' = [request EXCEPT ![r] = IF blockLife > 0 THEN Idle("refuse") ELSE At("incr")]
  /\ promised' = IF blockLife > 0 THEN blockLife ELSE promised
  /\ UNCHANGED <<attached, hits, hitsLife, blockLife, memory, age, faults>>

\* Mistaken limit: one request more passes.
OverLimitByOne(n) == n > Limit + 1

\* hits > limit
OverLimit(n) == n > Limit

\* Mistaken test: a counter is given a life when it is at its limit, as if it
\* were the block.
CreatesAtLimit(n) == n = Limit

\* hits === 1
Creates(n) == n = 1

\* redisIncrement(): INCR, which creates the counter without a time to live,
\* and what the answer decides.
Increment(r) ==
  /\ request[r].at = "incr"
  /\ hits' = CountUp(hits)
  /\ hitsLife' = IF hits = 0 THEN NoExpiry ELSE hitsLife
  /\ age' = IF hits = 0 THEN [age EXCEPT ![Redis] = 0] ELSE age
  /\ request' = [request EXCEPT ![r] = IF Creates(hits') THEN At("expire")
                                       ELSE IF OverLimit(hits') THEN At("block")
                                       ELSE Idle("pass")]
  /\ UNCHANGED <<attached, blockLife, memory, promised, faults>>

\* redisIncrement(): EXPIRE by the request that created the counter, which
\* passes, as the limit is at least 1.
Expire(r) ==
  /\ request[r].at = "expire"
  /\ hitsLife' = IF hits = 0 THEN 0 ELSE Window
  /\ request' = [request EXCEPT ![r] = Idle("pass")]
  /\ UNCHANGED <<attached, hits, blockLife, memory, age, promised, faults>>

\* Mistaken block: it ends with the counter's window.
BlockForRest == IF hitsLife > 0 THEN hitsLife ELSE Window

\* Mistaken block: it is added to the one there is.
BlockForMore == blockLife + Window

\* blockSec
BlockFor == Window

\* redisIncrement(): SETEX of the block key.
SetBlock(r) ==
  /\ request[r].at = "block"
  /\ blockLife' = BlockFor
  /\ promised' = Window
  /\ request' = [request EXCEPT ![r] = Idle("refuse")]
  /\ UNCHANGED <<attached, hits, hitsLife, memory, age, faults>>

-----------------------------------------------------------------------------
\* Mistaken cleaning: records are counted on in for good.
CleanedNever(rec) == rec

\* "Clean expired entry": the block of a deleted record is honoured once more.
Cleaned(rec) == IF rec.life = 0 THEN NoRecord ELSE rec

\* entry.hits++, in a new record when there is none.
Counted(rec) ==
  IF rec.hits = 0 THEN [hits |-> 1, life |-> Window, block |-> 0]
                  ELSE [rec EXCEPT !.hits = CountUp(@)]

\* memoryIncrement().
HitMemory(r) ==
  LET i == r[1]
      found == memory[i]
      counted == Counted(Cleaned(found))
  IN
    /\ i \notin attached
    /\ request[r].at = "idle"
    /\ \/ /\ found.block > 0
          /\ memory' = [memory EXCEPT ![i] = Cleaned(found)]
          /\ request' = [request EXCEPT ![r] = Idle("refuse")]
          /\ UNCHANGED age
       \/ /\ found.block = 0
          /\ memory' = [memory EXCEPT ![i] =
                          IF OverLimit(counted.hits) THEN [counted EXCEPT !.block = Window]
                                                     ELSE counted]
          /\ request' = [request EXCEPT ![r] =
                           Idle(IF OverLimit(counted.hits) THEN "refuse" ELSE "pass")]
          /\ age' = IF counted.hits = 1 THEN [age EXCEPT ![i] = 0] ELSE age
    /\ UNCHANGED <<attached, hits, hitsLife, blockLife, promised, faults>>

-----------------------------------------------------------------------------
\* A command fails, or the container dies: the guard answers with an error and
\* the commands that are left are not sent.  There is no fall-back to memory.
BreakOff(r) ==
  /\ faults < MaxFaults
  /\ request[r].at # "idle"
  /\ request' = [request EXCEPT ![r] = Idle("none")]
  /\ faults' = faults + 1
  /\ UNCHANGED <<attached, hits, hitsLife, blockLife, memory, age, promised>>

\* Time passes in Redis and in every container.
Tick ==
  /\ \/ hitsLife > 0 \/ blockLife > 0
     \/ \E i \in Instances : memory[i].life > 0 \/ memory[i].block > 0
     \/ \E s \in Stores : age[s] < Window
  /\ hitsLife' = Less(hitsLife)
  /\ hits' = IF hitsLife = 1 THEN 0 ELSE hits
  /\ blockLife' = Less(blockLife)
  /\ memory' = [i \in Instances |-> [memory[i] EXCEPT !.life = Less(@), !.block = Less(@)]]
  /\ age' = [s \in Stores |-> IF age[s] < Window THEN age[s] + 1 ELSE Window]
  /\ promised' = Less(promised)
  /\ UNCHANGED <<attached, request, faults>>

Arrive(r) == Check(r) \/ HitMemory(r)
Continue(r) == Increment(r) \/ Expire(r) \/ SetBlock(r)

Next ==
  \/ \E r \in Requests : Arrive(r) \/ Continue(r) \/ BreakOff(r)
  \/ Tick

Spec == Init /\ [][Next]_vars

\* Redis answers, time passes, and the client keeps on asking.
FairSpec ==
  /\ Spec
  /\ \A r \in Requests : WF_vars(Arrive(r)) /\ WF_vars(Continue(r))
  /\ WF_vars(Tick)

-----------------------------------------------------------------------------
Answers == {"none", "pass", "refuse"}

TypeOK ==
  /\ attached \subseteq Instances
  /\ hits \in 0 .. (Limit + 1)
  /\ hitsLife \in NoExpiry .. Window
  /\ blockLife \in 0 .. Window
  /\ memory \in [Instances -> [hits : 0 .. (Limit + 1), life : 0 .. Window, block : 0 .. Window]]
  /\ request \in [Requests -> [at : {"idle", "incr", "expire", "block"}, answer : Answers]]
  /\ age \in [Stores -> 0 .. Window]
  /\ promised \in 0 .. Window
  /\ faults \in 0 .. MaxFaults

\* A counter lives on without an end only while the request that created it is
\* between INCR and EXPIRE, or when a request broke off there
\* (redisIncrement()).
CounterExpires ==
  hits > 0 /\ hitsLife = NoExpiry =>
    faults > 0 \/ \E r \in Requests : request[r].at = "expire"

\* What a client is told to wait (timeToBlockExpire) is how long Redis holds
\* the block, although requests that were counted before and after it write
\* the block again, in any order, and its counter may have expired meanwhile.
WaitIsHeld == promised <= blockLife

\* What the guard sees of the store s: an answer is given at INCR.
Used(s) ==
  LET n == IF s = Redis THEN hits ELSE memory[s].hits
  IN  IF n <= Limit THEN n ELSE Limit

Said(r) ==
  CASE request[r].at = "expire" -> "pass"
    [] request[r].at = "block" -> "refuse"
    [] OTHER -> request[r].answer

Verdict(s) == [r \in Requests |-> IF StoreOf(r[1]) = s THEN Said(r) ELSE "none"]

Contract(s) == INSTANCE RateContract WITH
  used <- Used(s), age <- age[s], verdict <- Verdict(s)

\* Each store keeps the contract: however the commands of its requests
\* interleave with each other, with expiry and with failures, no more than
\* Limit requests pass in a window.
KeepsContract ==
  /\ \A s \in Stores : Contract(s)!Init
  /\ [][\A s \in Stores : Contract(s)!Next \/ UNCHANGED Contract(s)!vars]_vars

\* A client that was refused, and keeps on asking, is let in again; only a
\* request that breaks off can leave it out for good (a counter without a time
\* to live).
LetInAgain ==
  \A s \in Stores :
    (\E r \in Requests : Verdict(s)[r] = "refuse")
      ~> (\E r \in Requests : Verdict(s)[r] = "pass") \/ faults > 0
=============================================================================
