-------------------------- MODULE TribeClientProofs --------------------------
(***************************************************************************)
(* Proofs about module TribeClient, for any number of concurrent methods,  *)
(* grants, retries and late requests, all times to live and every          *)
(* provider.  ClientInv is inductive.  It speaks of each message (MsgOK:   *)
(* what is known of the tokens it carries), of each method (OpOK: how      *)
(* often its call may have been executed) and of the client's fields       *)
(* (TokenInv: they are no further ahead of the gateway than an answer is   *)
(* long on its way).                                                       *)
(***************************************************************************)
EXTENDS TribeClient, FiniteSetTheorems, TLAPS

\* A token of the gateway, if it is one.
Known(g) == g # None => g \in 1 .. issued

GrantState == [life : 0 .. AccessTtl, refreshLife : 0 .. RefreshTtl, scoped : BOOLEAN]

GateOK ==
  /\ provider \in Providers
  /\ storeUp \in StoresUp
  /\ secretOk \in BOOLEAN
  /\ manifest \in Manifests
  /\ grants \in [Grants -> GrantState]
  /\ issued \in 0 .. MaxGrants
  /\ records \subseteq 1 .. issued
  /\ revoked \subseteq 1 .. issued
  /\ executed \in [Ops -> Nat]
  /\ faults \in 0 .. MaxFaults

MsgOK(m) ==
  /\ m \in Message
  /\ Known(m.bearer) /\ Known(m.grant) /\ Known(m.got)
  /\ m.at = "persist" /\ m.kind \in {"token", "refresh"} => m.got # None
  /\ m.at = "persist" /\ m.kind = "revoke" => m.grant # None
  /\ m.at = "ok" /\ m.kind \in {"token", "refresh"} => m.got # None
  /\ m.at \in Stages /\ m.kind = "refresh" => m.grant # None
  /\ m.live => m.age <= Timeout
  /\ m.live /\ m.got # None => grants[m.got].life + m.age >= AccessTtl
  /\ m.live /\ m.at = "sent" /\ m.kind \in {"call", "revoke"} =>
       /\ m.bearer # None
       /\ m.try = 0 /\ m.age = 0 => grants[m.bearer].life > 0
  /\ m.at = "ok" /\ m.kind = "call" => executed[m.op] > 0

\* The calls of o that may still be executed, and the attempts of o so far.
Pending(N, o) == {m \in N : m.op = o /\ m.kind = "call" /\ m.at \in Stages}
Started(r) == IF r.at \in {"idle", "token", "refresh"} \/ r.method # "call" THEN 0 ELSE r.try + 1

OpOK(o) ==
  /\ op[o] \in Operation
  /\ Known(op[o].bearer)
  /\ op[o].try <= MaxRetries
  /\ op[o].at = "backoff" => op[o].try < MaxRetries
  /\ op[o].at \in {"call", "backoff"} => op[o].bearer # None /\ op[o].method = "call"
  /\ op[o].at = "revoke" => op[o].method = "revoke"
  /\ op[o].at = "ok" /\ op[o].method = "call" => executed[o] > 0
  /\ executed[o] + Cardinality(Pending(net, o)) <= Started(op[o])

TokenInv ==
  /\ Known(access)
  /\ refresh \in {access, None}
  /\ left \in 0 .. AccessTtl
  /\ access # None => left <= grants[access].life + Timeout

\* A method waits for one answer at most, and for one of its own kind.
Awaited(N) == \A m \in N : m.live => op[m.op].at = m.kind
Sole(N) == \A m, n \in N : m.live /\ n.live /\ m.op = n.op => m = n

ClientInv ==
  /\ GateOK
  /\ TokenInv
  /\ IsFiniteSet(net)
  /\ \A m \in net : MsgOK(m)
  /\ op \in [Ops -> Operation]
  /\ \A o \in Ops : OpOK(o)
  /\ Awaited(net)
  /\ Sole(net)

-----------------------------------------------------------------------------
(* Sets of pending calls.                                                  *)

LEMMA PendingFinite ==
  ASSUME NEW N, NEW o, IsFiniteSet(N)
  PROVE  IsFiniteSet(Pending(N, o)) /\ Cardinality(Pending(N, o)) \in Nat
<1>1. Pending(N, o) \in SUBSET N
  BY DEF Pending
<1>2. QED
  BY <1>1, FS_Subset, FS_CardinalityType

\* Taking messages away leaves no more of them.
LEMMA PendingSubset ==
  ASSUME NEW N, NEW M, NEW o, IsFiniteSet(N), M \subseteq N
  PROVE  Cardinality(Pending(M, o)) <= Cardinality(Pending(N, o))
<1>1. Pending(M, o) \in SUBSET Pending(N, o)
  BY DEF Pending
<1>2. QED
  BY <1>1, PendingFinite, FS_Subset

\* One message for another leaves no more of them.
LEMMA PendingReplaced ==
  ASSUME NEW N, IsFiniteSet(N), NEW m \in N, NEW n, NEW o,
         n.op = m.op, n.kind = m.kind, n.at \in Stages => m.at \in Stages
  PROVE  Cardinality(Pending((N \ {m}) \union {n}, o)) <= Cardinality(Pending(N, o))
<1> DEFINE P == Pending(N, o)
           Q == Pending((N \ {m}) \union {n}, o)
<1>1. IsFiniteSet(P) /\ Cardinality(P) \in Nat
  BY PendingFinite
<1>2. CASE m \in P
  <2>1. Q \in SUBSET ((P \ {m}) \union {n})
    BY DEF Pending
  <2>2. IsFiniteSet(P \ {m}) /\ Cardinality(P \ {m}) = Cardinality(P) - 1
    BY <1>1, <1>2, FS_RemoveElement
  <2>3. /\ IsFiniteSet((P \ {m}) \union {n})
        /\ Cardinality((P \ {m}) \union {n}) <= Cardinality(P)
    <3> HIDE DEF P
    <3>1. QED
      BY <1>1, <2>2, FS_AddElement
  <2>4. Cardinality(Q) <= Cardinality((P \ {m}) \union {n}) /\ Cardinality(Q) \in Nat
    <3>1. Cardinality((P \ {m}) \union {n}) \in Nat
      BY <2>3, FS_CardinalityType
    <3> HIDE DEF P, Q
    <3>2. QED
      BY <2>1, <2>3, FS_Subset, FS_CardinalityType
  <2>5. Cardinality((P \ {m}) \union {n}) \in Nat
    BY <2>3, FS_CardinalityType
  <2> HIDE DEF P, Q
  <2>6. Cardinality(Q) <= Cardinality(P)
    BY <1>1, <2>3, <2>4, <2>5
  <2>7. QED
    BY <2>6 DEF P, Q
<1>3. CASE m \notin P
  <2>1. Q \in SUBSET P
    BY <1>3 DEF Pending
  <2>2. QED
    BY <1>1, <2>1, FS_Subset
<1>4. QED
  BY <1>2, <1>3

\* A call that is over is one pending call less.
LEMMA PendingDone ==
  ASSUME NEW N, IsFiniteSet(N), NEW m \in N, NEW M, M \subseteq (N \ {m}) \union {n \in M : n.at \notin Stages},
         m.kind = "call", m.at \in Stages
  PROVE  Cardinality(Pending(M, m.op)) + 1 <= Cardinality(Pending(N, m.op))
<1> DEFINE P == Pending(N, m.op)
<1>1. IsFiniteSet(P) /\ Cardinality(P) \in Nat /\ m \in P
  BY PendingFinite DEF Pending
<1>2. Pending(M, m.op) \in SUBSET (P \ {m})
  BY DEF Pending
<1> HIDE DEF P
<1>3. IsFiniteSet(P \ {m}) /\ Cardinality(P \ {m}) = Cardinality(P) - 1
  BY <1>1, FS_RemoveElement
<1>4. Cardinality(Pending(M, m.op)) <= Cardinality(P \ {m}) /\ Cardinality(Pending(M, m.op)) \in Nat
  BY <1>2, <1>3, FS_Subset, FS_CardinalityType
<1>5. Cardinality(Pending(M, m.op)) + 1 <= Cardinality(P)
  BY <1>1, <1>3, <1>4
<1>6. QED
  BY <1>5 DEF P

\* A message that is added is at most one pending call more.
LEMMA PendingAdded ==
  ASSUME NEW N, IsFiniteSet(N), NEW n, NEW o
  PROVE  /\ Cardinality(Pending(N \union {n}, o)) <= Cardinality(Pending(N, o)) + 1
         /\ n.op # o \/ n.kind # "call" => Cardinality(Pending(N \union {n}, o)) = Cardinality(Pending(N, o))
<1> DEFINE P == Pending(N, o)
           Q == Pending(N \union {n}, o)
<1>1. IsFiniteSet(P) /\ Cardinality(P) \in Nat
  BY PendingFinite
<1>2. Q \in SUBSET (P \union {n}) /\ (n.op # o \/ n.kind # "call" => Q = P)
  BY DEF Pending
<1>3. Cardinality(Q) <= Cardinality(P) + 1
  <2> HIDE DEF P, Q
  <2>1. IsFiniteSet(P \union {n}) /\ Cardinality(P \union {n}) <= Cardinality(P) + 1
    <3>1. /\ IsFiniteSet(P \union {n})
          /\ Cardinality(P \union {n}) = IF n \in P THEN Cardinality(P) ELSE Cardinality(P) + 1
      BY <1>1, FS_AddElement
    <3>2. CASE n \in P
      BY <1>1, <3>1, <3>2
    <3>3. CASE n \notin P
      BY <1>1, <3>1, <3>3
    <3>4. QED
      BY <3>2, <3>3
  <2>2. Cardinality(P \union {n}) \in Nat
    BY <2>1, FS_CardinalityType
  <2>3. Q \in SUBSET (P \union {n})
    BY <1>2
  <2>4. IsFiniteSet(Q) /\ Cardinality(Q) <= Cardinality(P \union {n})
    BY <2>1, <2>3, FS_Subset
  <2>5. Cardinality(Q) \in Nat
    BY <2>4, FS_CardinalityType
  <2>6. QED
    BY <1>1, <2>1, <2>2, <2>4, <2>5
<1>4. QED
  BY <1>2, <1>3

-----------------------------------------------------------------------------
(* The gateway: a handler of m leaves at most one message in the place of   *)
(* m, the next stage or the answer.                                         *)

\* Tokens that were issued stay as they are while others are issued.
Grows ==
  /\ issued <= issued'
  /\ \A g \in 1 .. issued : grants'[g] = grants[g]

\* Calls are executed more often, never less.
Counts == \A o \in Ops : executed'[o] >= executed[o]

LEMMA KnownStays ==
  ASSUME GateOK, GateOK', Grows, NEW g, Known(g)
  PROVE  (g # None => g \in 1 .. issued') /\ (g # None => grants'[g] = grants[g])
BY DEF GateOK, Grows, Known

\* A message that nobody touches stays as it should be.
LEMMA MessageStays ==
  ASSUME GateOK, GateOK', Grows, Counts, NEW m, MsgOK(m)
  PROVE  MsgOK(m)'
<1>1. Known(m.bearer)' /\ Known(m.grant)' /\ Known(m.got)'
  BY KnownStays DEF MsgOK, Known
<1>2. /\ m.got # None => grants'[m.got] = grants[m.got]
      /\ m.bearer # None => grants'[m.bearer] = grants[m.bearer]
  BY KnownStays DEF MsgOK
<1>3. m \in Message /\ (m.at = "ok" /\ m.kind = "call" => executed'[m.op] > 0)
  <2>1. m \in Message /\ m.op \in Ops
    BY DEF MsgOK, Message
  <2>2. executed[m.op] \in Nat /\ executed'[m.op] \in Nat
    BY <2>1 DEF GateOK
  <2>3. QED
    BY <2>1, <2>2 DEF MsgOK, Counts
<1>4. QED
  BY <1>1, <1>2, <1>3 DEF MsgOK

\* What a handler has to show.
LEMMA Handled ==
  ASSUME ClientInv, NEW m \in net, m.at \in Stages, NEW n, NEW S \in SUBSET {n},
         net' = (net \ {m}) \union S, UNCHANGED clientVars, GateOK', Grows, Counts,
         n.op = m.op, n.kind = m.kind, n.live = m.live, MsgOK(n)',
         \/ executed' = executed
         \/ /\ executed' = [executed EXCEPT ![m.op] = @ + 1]
            /\ m.kind = "call" /\ n.at \notin Stages
  PROVE  ClientInv'
<1>1. /\ GateOK /\ TokenInv /\ IsFiniteSet(net) /\ (\A k \in net : MsgOK(k))
      /\ op \in [Ops -> Operation]
      /\ (\A o \in Ops : OpOK(o)) /\ Awaited(net) /\ Sole(net)
  BY DEF ClientInv
<1>2. UNCHANGED <<access, refresh, left, op>>
  BY DEF clientVars
<1>3. IsFiniteSet(net')
  <2>1. IsFiniteSet(net \ {m}) /\ IsFiniteSet((net \ {m}) \union {n})
    BY <1>1, FS_RemoveElement, FS_AddElement
  <2>2. S = {} \/ S = {n}
    OBVIOUS
  <2>3. QED
    BY <2>1, <2>2
<1>4. \A k \in net' : MsgOK(k)'
  BY <1>1, MessageStays
<1>5. TokenInv'
  BY <1>1, <1>2, KnownStays DEF TokenInv, Known
<1>6. Awaited(net)' /\ Sole(net)'
  BY <1>1, <1>2 DEF Awaited, Sole
<1>7. ASSUME NEW o \in Ops PROVE OpOK(o)'
  <2>1. OpOK(o) /\ op[o] \in Operation /\ op'[o] = op[o]
    BY <1>1, <1>2 DEF OpOK
  <2>2. Known(op[o].bearer)'
    BY <1>1, <1>2, <2>1, KnownStays DEF OpOK, Known
  <2>3. executed[o] \in Nat /\ executed'[o] \in Nat /\ executed'[o] >= executed[o]
    BY <1>1 DEF GateOK, Counts
  <2>4. /\ Cardinality(Pending(net, o)) \in Nat
        /\ Cardinality(Pending(net', o)) \in Nat
    BY <1>1, <1>3, PendingFinite
  <2>5. executed'[o] + Cardinality(Pending(net', o)) <= executed[o] + Cardinality(Pending(net, o))
    <3>1. CASE executed' = executed
      <4>1. Cardinality(Pending((net \ {m}) \union {n}, o)) <= Cardinality(Pending(net, o))
        BY <1>1, PendingReplaced
      <4>2. Cardinality(Pending(net \ {m}, o)) <= Cardinality(Pending(net, o))
        BY <1>1, PendingSubset
      <4>3. net' = net \ {m} \/ net' = (net \ {m}) \union {n}
        OBVIOUS
      <4>4. Cardinality(Pending(net', o)) <= Cardinality(Pending(net, o))
        BY <4>1, <4>2, <4>3
      <4>5. QED
        BY <2>3, <2>4, <3>1, <4>4
    <3>2. CASE /\ executed' = [executed EXCEPT ![m.op] = @ + 1]
               /\ m.kind = "call" /\ n.at \notin Stages
      <4>1. CASE o = m.op
        <5>1. Cardinality(Pending(net', o)) + 1 <= Cardinality(Pending(net, o))
          BY <1>1, <3>2, <4>1, PendingDone
        <5>2. executed'[o] = executed[o] + 1
          BY <1>1, <3>2, <4>1 DEF GateOK
        <5>3. QED
          BY <2>3, <2>4, <5>1, <5>2
      <4>2. CASE o # m.op
        <5>1. Pending(net', o) = Pending(net, o)
          BY <4>2 DEF Pending
        <5>2. executed'[o] = executed[o]
          BY <1>1, <3>2, <4>2 DEF GateOK
        <5>3. QED
          BY <2>3, <2>4, <5>1, <5>2
      <4>3. QED
        BY <4>1, <4>2
    <3>3. QED
      BY <3>1, <3>2
  <2>6. Started(op[o]) \in Nat
    BY <2>1 DEF Started, Operation
  <2>7. executed'[o] + Cardinality(Pending(net', o)) <= Started(op[o])
    BY <2>1, <2>3, <2>4, <2>5, <2>6 DEF OpOK
  <2>8. QED
    BY <1>2, <2>1, <2>2, <2>3, <2>7 DEF OpOK
<1>8. QED
  BY <1>1, <1>2, <1>3, <1>4, <1>5, <1>6, <1>7 DEF ClientInv

\* An answer is as it should be.
LEMMA AnswerOK ==
  ASSUME NEW m, MsgOK(m)', NEW a \in Answers,
         a = "ok" /\ m.kind \in {"token", "refresh"} => m.got # None,
         a = "ok" /\ m.kind = "call" => executed'[m.op] > 0
  PROVE  /\ MsgOK(Answer(m, a))'
         /\ Answer(m, a).op = m.op /\ Answer(m, a).kind = m.kind /\ Answer(m, a).live = m.live
         /\ Answer(m, a).at \notin Stages
<1>1. m \in Message
  BY DEF MsgOK
<1>2. /\ Answer(m, a) \in Message
      /\ Answer(m, a).op = m.op /\ Answer(m, a).kind = m.kind /\ Answer(m, a).live = m.live
      /\ Answer(m, a).age = m.age /\ Answer(m, a).got = m.got /\ Answer(m, a).try = m.try
      /\ Answer(m, a).at = a /\ Answer(m, a).bearer = None /\ Answer(m, a).grant = None
  BY <1>1 DEF Answer, Message
<1>3. a \notin Stages /\ a # "persist" /\ a # "sent"
  BY DEF Answers, Stages
<1>4. QED
  BY <1>2, <1>3 DEF MsgOK, Known

\* ... and so is what a handler that answers leaves.
LEMMA Replied ==
  ASSUME ClientInv, NEW m \in net, m.at \in Stages, NEW a \in Answers, Reply(m, a),
         UNCHANGED clientVars, GateOK', Grows, Counts,
         a = "ok" /\ m.kind \in {"token", "refresh"} => m.got # None,
         a = "ok" /\ m.kind = "call" => executed'[m.op] > 0,
         \/ executed' = executed
         \/ executed' = [executed EXCEPT ![m.op] = @ + 1] /\ m.kind = "call"
  PROVE  ClientInv'
<1>1. GateOK /\ MsgOK(m)
  BY DEF ClientInv
<1>2. PICK S \in SUBSET {Answer(m, a)} : net' = (net \ {m}) \union S
  BY DEF Reply
<1>3. /\ MsgOK(Answer(m, a))'
      /\ Answer(m, a).op = m.op /\ Answer(m, a).kind = m.kind /\ Answer(m, a).live = m.live
      /\ Answer(m, a).at \notin Stages
  BY <1>1, MessageStays, AnswerOK
<1>4. QED
  BY <1>2, <1>3, Handled

\* A handler that keeps the tokens and the counts.
LEMMA ReplyOnly ==
  ASSUME ClientInv, NEW m \in net, m.at \in Stages, NEW a \in Answers, Reply(m, a),
         UNCHANGED clientVars, UNCHANGED <<provider, storeUp, secretOk, grants, issued, revoked, executed, manifest>>,
         records' \subseteq 1 .. issued, faults' \in 0 .. MaxFaults,
         a = "ok" => m.kind \in {"token", "refresh"} /\ m.got # None
  PROVE  ClientInv'
<1>1. GateOK' /\ Grows /\ Counts
  BY DEF ClientInv, GateOK, Grows, Counts
<1>2. QED
  BY <1>1, Replied

\* A request that goes on to another stage of the same handler.
LEMMA MovedOn ==
  ASSUME ClientInv, NEW m \in net, m.at \in Stages, NEW n, MoveOn(m, n), n \in Message,
         UNCHANGED clientVars, UNCHANGED <<provider, storeUp, secretOk, manifest, grants, issued, records, revoked, executed, faults>>,
         n.op = m.op, n.kind = m.kind, n.live = m.live, n.age = m.age,
         n.bearer = m.bearer, n.grant = m.grant, n.got = m.got,
         n.at \in {"provider", "persist", "upstream"},
         n.at = "persist" => n.kind = "revoke" /\ n.grant # None
  PROVE  ClientInv'
<1>1. GateOK' /\ Grows /\ Counts
  BY DEF ClientInv, GateOK, Grows, Counts
<1>2. MsgOK(m) /\ GateOK
  BY DEF ClientInv
<1>3. MsgOK(m)'
  BY <1>1, <1>2, MessageStays
<1>4. MsgOK(n)'
  BY <1>3 DEF MsgOK, Stages, Known
<1>5. net' = (net \ {m}) \union {n}
  BY DEF MoveOn
<1>6. QED
  BY <1>1, <1>4, <1>5, Handled

\* A handler that issues a grant: nobody has its tokens yet, and they have all
\* of their time.
LEMMA Granted ==
  ASSUME ClientInv, NEW m \in net, m.at = "provider", m.kind \in {"token", "refresh"},
         NEW scoped \in BOOLEAN, NEW withRefresh \in BOOLEAN, NEW persists \in BOOLEAN,
         Grant(m, scoped, withRefresh, persists), UNCHANGED clientVars,
         UNCHANGED <<provider, storeUp, secretOk, manifest, records, revoked, executed, faults>>
  PROVE  ClientInv'
<1>0. PICK g \in Nat : g = issued + 1
  BY DEF ClientInv, GateOK
<1> DEFINE n == [m EXCEPT !.got = g, !.at = "persist"]
           x == [life |-> AccessTtl, refreshLife |-> IF withRefresh THEN RefreshTtl ELSE 0, scoped |-> scoped]
<1>1. GateOK /\ MsgOK(m) /\ m \in Message
  BY DEF ClientInv, MsgOK
<1>2. issued < MaxGrants /\ g = issued + 1 /\ issued' = g /\ grants' = [grants EXCEPT ![g] = x]
  BY <1>0 DEF Grant
<1>3. g \in 1 .. MaxGrants /\ x \in GrantState /\ x.life = AccessTtl
  BY <1>1, <1>2, AuthAssumption DEF GateOK, GrantState
<1>4. grants'[g] = x /\ grants' \in [Grants -> GrantState]
  BY <1>1, <1>2, <1>3 DEF GateOK, Grants
<1> HIDE DEF x
<1>5. GateOK'
  BY <1>1, <1>2, <1>3, <1>4 DEF GateOK
<1>6. Grows /\ Counts
  BY <1>1, <1>2, <1>3 DEF Grows, Counts, GateOK, Grants
<1>7. /\ n \in Message
      /\ n.op = m.op /\ n.kind = m.kind /\ n.live = m.live /\ n.at = "persist" /\ n.got = g
      /\ n.age = m.age /\ n.bearer = m.bearer /\ n.grant = m.grant
  BY <1>1, <1>3 DEF Message, Grants, Stages
<1>8. MsgOK(m)' /\ g \in 1 .. issued' /\ g # None
  BY <1>1, <1>2, <1>3, <1>5, <1>6, AuthAssumption, MessageStays
<1>9. \/ net' = (net \ {m}) \union {n}
      \/ net' = (net \ {m}) \union {Answer(n, "ok")}
      \/ net' = (net \ {m}) \union {}
  BY <1>0 DEF Grant, MoveOn
<1> HIDE DEF n
<1>10. MsgOK(n)'
  <2>1. Known(n.bearer)' /\ Known(n.grant)' /\ Known(n.got)'
    BY <1>7, <1>8 DEF MsgOK, Known
  <2>2. grants'[n.got].life + n.age >= AccessTtl
    BY <1>1, <1>3, <1>4, <1>7, AuthAssumption DEF Message
  <2>3. n.at \in Stages /\ n.kind = "refresh" => n.grant # None
    BY <1>1, <1>7 DEF MsgOK, Stages
  <2>4. n.live => n.age <= Timeout
    BY <1>1, <1>7 DEF MsgOK
  <2>5. QED
    BY <1>7, <1>8, <2>1, <2>2, <2>3, <2>4 DEF MsgOK
<1>11. /\ MsgOK(Answer(n, "ok"))'
       /\ Answer(n, "ok").op = m.op /\ Answer(n, "ok").kind = m.kind /\ Answer(n, "ok").live = m.live
       /\ Answer(n, "ok").at \notin Stages
  <2>1. "ok" \in Answers /\ n.got # None /\ n.kind # "call"
    BY <1>7, <1>8 DEF Answers
  <2>2. QED
    BY <1>7, <1>10, <2>1, AnswerOK
<1>12. \/ net' = (net \ {m}) \union {n}
       \/ \E S \in SUBSET {Answer(n, "ok")} : net' = (net \ {m}) \union S
  BY <1>9
<1>13. m.at \in Stages
  BY DEF Stages
<1>14. QED
  BY <1>5, <1>6, <1>7, <1>10, <1>11, <1>12, <1>13, Handled

LEMMA TokenRouteSteps ==
  ASSUME ClientInv, NEW m \in net, UNCHANGED clientVars,
         IssueRequest(m) \/ IssueGrant(m) \/ RefreshRequest(m) \/ ExchangeGrant(m) \/ ProviderFails(m) \/ Persist(m)
  PROVE  ClientInv'
<1>1. GateOK /\ MsgOK(m) /\ m \in Message
  BY DEF ClientInv, MsgOK
<1>2. records \subseteq 1 .. issued /\ faults \in 0 .. MaxFaults
  BY <1>1 DEF GateOK
<1>3. "refused" \in Answers /\ "ok" \in Answers
  BY DEF Answers
<1>4. CASE IssueRequest(m)
  <2>1. m.at = "sent" /\ m.at \in Stages
    BY <1>4 DEF IssueRequest, Stages
  <2>2. CASE Reply(m, "refused")
    BY <1>2, <1>3, <1>4, <2>1, <2>2, ReplyOnly DEF IssueRequest
  <2>3. CASE MoveOn(m, [m EXCEPT !.at = "provider", !.scoped = (manifest = "open")])
    <3> DEFINE n == [m EXCEPT !.at = "provider", !.scoped = (manifest = "open")]
    <3>1. /\ n \in Message
          /\ n.op = m.op /\ n.kind = m.kind /\ n.live = m.live /\ n.age = m.age
          /\ n.bearer = m.bearer /\ n.grant = m.grant /\ n.got = m.got /\ n.at = "provider"
      BY <1>1 DEF Message, Stages
    <3> HIDE DEF n
    <3>2. MoveOn(m, n)
      BY <2>3 DEF n
    <3>3. QED
      BY <1>4, <2>1, <3>1, <3>2, MovedOn DEF IssueRequest
  <2>4. QED
    BY <1>4, <2>2, <2>3 DEF IssueRequest
<1>5. CASE IssueGrant(m)
  <2>1. m.scoped \in BOOLEAN
    BY <1>1 DEF Message
  <2>2. \E withRefresh \in BOOLEAN : Grant(m, m.scoped, withRefresh, TRUE)
    BY <1>5 DEF IssueGrant, DevIssues, KeycloakIssues, GoogleIssues
  <2>3. QED
    BY <1>5, <2>1, <2>2, Granted DEF IssueGrant
<1>6. CASE RefreshRequest(m)
  <2>1. m.at = "sent" /\ m.at \in Stages
    BY <1>6 DEF RefreshRequest, Stages
  <2>2. CASE Reply(m, "refused")
    BY <1>2, <1>3, <1>6, <2>1, <2>2, ReplyOnly DEF RefreshRequest
  <2>3. CASE MoveOn(m, [m EXCEPT !.at = "provider"])
    <3> DEFINE n == [m EXCEPT !.at = "provider"]
    <3>1. /\ n \in Message
          /\ n.op = m.op /\ n.kind = m.kind /\ n.live = m.live /\ n.age = m.age
          /\ n.bearer = m.bearer /\ n.grant = m.grant /\ n.got = m.got /\ n.at = "provider"
      BY <1>1 DEF Message, Stages
    <3> HIDE DEF n
    <3>2. MoveOn(m, n)
      BY <2>3 DEF n
    <3>3. QED
      BY <1>6, <2>1, <3>1, <3>2, MovedOn DEF RefreshRequest
  <2>4. QED
    BY <1>6, <2>2, <2>3 DEF RefreshRequest
<1>7. CASE ExchangeGrant(m)
  <2>1. m.kind = "refresh" /\ m.at = "provider" /\ m.grant # None
    BY <1>1, <1>7 DEF ExchangeGrant, MsgOK, Stages
  <2>2. m.grant \in Grants
    BY <1>1, <2>1, AuthAssumption DEF MsgOK, Known, GateOK, Grants
  <2>3. grants[m.grant].scoped \in BOOLEAN
    BY <1>1, <2>2 DEF GateOK, GrantState
  <2>4. \E scoped \in BOOLEAN, withRefresh \in BOOLEAN, persists \in BOOLEAN :
           Grant(m, scoped, withRefresh, persists)
    BY <1>7, <2>3 DEF ExchangeGrant, DevRefreshes, KeycloakRefreshes
  <2>5. QED
    BY <1>7, <2>1, <2>4, Granted DEF ExchangeGrant
<1>8. CASE ProviderFails(m)
  <2>1. m.at \in Stages /\ Reply(m, "refused") /\ faults' \in 0 .. MaxFaults
    BY <1>2, <1>8, AuthAssumption DEF ProviderFails, Stages
  <2>2. QED
    BY <1>2, <1>3, <1>8, <2>1, ReplyOnly DEF ProviderFails
<1>9. CASE Persist(m)
  <2>1. m.at \in Stages /\ Reply(m, "ok") /\ m.kind \in {"token", "refresh"} /\ m.got # None
    BY <1>1, <1>9 DEF Persist, Stages, MsgOK
  <2>2. m.got \in 1 .. issued
    BY <1>1, <2>1 DEF MsgOK, Known
  <2>3. records' \subseteq 1 .. issued
    BY <1>2, <1>9, <2>2 DEF Persist
  <2>4. QED
    BY <1>2, <1>3, <1>9, <2>1, <2>3, ReplyOnly DEF Persist
<1>10. QED
  BY <1>4, <1>5, <1>6, <1>7, <1>8, <1>9

LEMMA OtherRouteSteps ==
  ASSUME ClientInv, NEW m \in net, UNCHANGED clientVars,
         TooManyRequests(m) \/ RevokeRequest(m) \/ RevokeRecords(m) \/ CallRequest(m) \/ Execute(m) \/ Unreachable(m)
  PROVE  ClientInv'
<1>1. GateOK /\ MsgOK(m) /\ m \in Message
  BY DEF ClientInv, MsgOK
<1>2. records \subseteq 1 .. issued /\ faults \in 0 .. MaxFaults
  BY <1>1 DEF GateOK
<1>3. "refused" \in Answers /\ "ok" \in Answers /\ "forbidden" \in Answers /\ "unavailable" \in Answers
  BY DEF Answers
<1>4. CASE TooManyRequests(m)
  BY <1>2, <1>3, <1>4, ReplyOnly DEF TooManyRequests, Stages
<1>5. CASE RevokeRequest(m)
  <2>1. m.kind = "revoke" /\ m.at = "sent" /\ m.at \in Stages
    BY <1>5 DEF RevokeRequest, Stages
  <2>2. CASE Reply(m, "refused")
    BY <1>2, <1>3, <1>5, <2>1, <2>2, ReplyOnly DEF RevokeRequest
  <2>3. CASE m.grant # None /\ MoveOn(m, [m EXCEPT !.at = "persist"])
    <3> DEFINE n == [m EXCEPT !.at = "persist"]
    <3>1. /\ n \in Message
          /\ n.op = m.op /\ n.kind = m.kind /\ n.live = m.live /\ n.age = m.age
          /\ n.bearer = m.bearer /\ n.grant = m.grant /\ n.got = m.got /\ n.at = "persist"
      BY <1>1 DEF Message, Stages
    <3> HIDE DEF n
    <3>2. MoveOn(m, n)
      BY <2>3 DEF n
    <3>3. QED
      BY <1>5, <2>1, <2>3, <3>1, <3>2, MovedOn DEF RevokeRequest
  <2>4. QED
    BY <1>5, <2>2, <2>3 DEF RevokeRequest
<1>6. CASE RevokeRecords(m)
  <2>1. m.kind = "revoke" /\ m.at \in Stages /\ m.grant # None /\ Reply(m, "ok")
    BY <1>1, <1>6 DEF RevokeRecords, Stages, MsgOK
  <2>2. m.grant \in 1 .. issued
    BY <1>1, <2>1 DEF MsgOK, Known
  <2>3. records' \subseteq 1 .. issued /\ revoked' \subseteq 1 .. issued
    BY <1>1, <1>6, <2>2 DEF RevokeRecords, GateOK
  <2>4. UNCHANGED <<provider, storeUp, secretOk, manifest, grants, issued, executed, faults>>
    BY <1>6 DEF RevokeRecords
  <2>5. GateOK' /\ Grows /\ Counts
    BY <1>1, <2>3, <2>4 DEF GateOK, Grows, Counts
  <2>6. QED
    BY <1>3, <2>1, <2>4, <2>5, Replied
<1>7. CASE CallRequest(m)
  <2>1. m.kind = "call" /\ m.at = "sent" /\ m.at \in Stages
    BY <1>7 DEF CallRequest, Stages
  <2>2. CASE Reply(m, "refused") \/ Reply(m, "forbidden")
    BY <1>2, <1>3, <1>7, <2>1, <2>2, ReplyOnly DEF CallRequest
  <2>3. CASE MoveOn(m, [m EXCEPT !.at = "upstream"])
    <3> DEFINE n == [m EXCEPT !.at = "upstream"]
    <3>1. /\ n \in Message
          /\ n.op = m.op /\ n.kind = m.kind /\ n.live = m.live /\ n.age = m.age
          /\ n.bearer = m.bearer /\ n.grant = m.grant /\ n.got = m.got /\ n.at = "upstream"
      BY <1>1 DEF Message, Stages
    <3> HIDE DEF n
    <3>2. MoveOn(m, n)
      BY <2>3 DEF n
    <3>3. QED
      BY <1>7, <2>1, <3>1, <3>2, MovedOn DEF CallRequest
  <2>4. QED
    BY <1>7, <2>2, <2>3 DEF CallRequest
<1>8. CASE Execute(m)
  <2>1. /\ m.kind = "call" /\ m.at \in Stages
        /\ executed' = [executed EXCEPT ![m.op] = @ + 1]
    BY <1>8 DEF Execute, Stages
  <2>2. UNCHANGED <<provider, storeUp, secretOk, manifest, grants, issued, records, revoked, faults>>
    BY <1>8 DEF Execute
  <2>3. m.op \in Ops
    BY <1>1 DEF Message
  <2>4. GateOK' /\ Grows /\ Counts /\ executed'[m.op] > 0
    BY <1>1, <2>1, <2>2, <2>3 DEF GateOK, Grows, Counts
  <2>5. PICK a \in {"ok", "unavailable"} : Reply(m, a)
    BY <1>8 DEF Execute
  <2>6. QED
    BY <1>3, <2>1, <2>4, <2>5, Replied
<1>9. CASE Unreachable(m)
  BY <1>2, <1>3, <1>9, ReplyOnly DEF Unreachable, Stages
<1>10. QED
  BY <1>4, <1>5, <1>6, <1>7, <1>8, <1>9

-----------------------------------------------------------------------------
(* The client.                                                             *)

ServerKept == UNCHANGED <<provider, storeUp, secretOk, manifest, grants, issued, records, revoked, executed, faults>>

\* The messages that stay on their way while o goes on: none of them is awaited
\* by o.
RestOK(o, rest) ==
  /\ IsFiniteSet(rest)
  /\ \A m \in rest : MsgOK(m)
  /\ \A m \in rest : m.live => m.op # o /\ op[m.op].at = m.kind
  /\ Sole(rest)
  /\ \A p \in Ops : Cardinality(Pending(rest, p)) <= Cardinality(Pending(net, p))

LEMMA ServerStays ==
  ASSUME GateOK, ServerKept
  PROVE  /\ GateOK'
         /\ \A m : MsgOK(m) => MsgOK(m)'
         /\ \A g : Known(g) => Known(g)'
<1>1. GateOK'
  BY DEF GateOK, ServerKept
<1>2. ASSUME NEW g, Known(g) PROVE Known(g)'
  BY <1>2 DEF Known, ServerKept
<1>3. ASSUME NEW m, MsgOK(m) PROVE MsgOK(m)'
  <2>1. Grows /\ Counts
    BY DEF Grows, Counts, ServerKept, GateOK
  <2>2. QED
    BY <1>1, <1>3, <2>1, MessageStays
<1>4. QED
  BY <1>1, <1>2, <1>3

\* The client's fields stay as they are.
LEMMA TokenKept ==
  ASSUME TokenInv, ServerKept, UNCHANGED <<access, refresh, left>>
  PROVE  TokenInv'
BY DEF TokenInv, ServerKept, Known

\* What has to be shown of a step of o to the state x, with the messages of
\* more on their way.
LEMMA Moved ==
  ASSUME ClientInv, NEW o \in Ops, NEW rest, RestOK(o, rest), ServerKept, TokenInv',
         NEW x \in Operation, op' = [op EXCEPT ![o] = x], Known(x.bearer),
         NEW more, IsFiniteSet(net'), net' = rest \union more,
         \A m \in more : MsgOK(m) /\ m.op = o /\ m.kind = x.at,
         \A m, n \in more : m = n,
         x.try <= MaxRetries,
         x.at = "backoff" => x.try < MaxRetries,
         x.at \in {"call", "backoff"} => x.bearer # None /\ x.method = "call",
         x.at = "revoke" => x.method = "revoke",
         x.at = "ok" /\ x.method = "call" => executed[o] > 0,
         \A p \in Ops \ {o} : Cardinality(Pending(net', p)) <= Cardinality(Pending(rest, p)),
         executed[o] + Cardinality(Pending(net', o)) <= Started(x)
  PROVE  ClientInv'
<1>1. /\ GateOK /\ TokenInv /\ IsFiniteSet(net) /\ (\A k \in net : MsgOK(k))
      /\ op \in [Ops -> Operation]
      /\ (\A p \in Ops : OpOK(p)) /\ Awaited(net) /\ Sole(net)
  BY DEF ClientInv
<1>2. /\ GateOK'
      /\ \A m : MsgOK(m) => MsgOK(m)'
      /\ \A g : Known(g) => Known(g)'
      /\ executed' = executed
  BY <1>1, ServerStays DEF ServerKept
<1>3. \A m \in net' : MsgOK(m)'
  BY <1>2 DEF RestOK
<1>4. /\ op' \in [Ops -> Operation]
      /\ op'[o] = x
      /\ \A p \in Ops \ {o} : op'[p] = op[p]
  BY <1>1
<1>5. Awaited(net)'
  <2>1. ASSUME NEW m \in net', m.live PROVE op'[m.op].at = m.kind
    <3>1. m.op \in Ops
      BY <1>3 DEF MsgOK, Message
    <3>2. CASE m \in rest
      <4>1. m.op # o /\ op[m.op].at = m.kind
        BY <2>1, <3>2 DEF RestOK
      <4>2. op'[m.op] = op[m.op]
        BY <1>4, <3>1, <4>1
      <4>3. QED
        BY <4>1, <4>2
    <3>3. CASE m \in more
      BY <1>4, <3>3
    <3>4. m \in rest \/ m \in more
      BY <2>1
    <3>5. QED
      BY <3>2, <3>3, <3>4
  <2>2. QED
    BY <2>1 DEF Awaited
<1>6. Sole(net)'
  BY DEF RestOK, Sole
<1>7. ASSUME NEW p \in Ops PROVE OpOK(p)'
  <2>1. CASE p = o
    BY <1>2, <1>4, <2>1 DEF OpOK
  <2>2. CASE p # o
    <3>1. OpOK(p) /\ op'[p] = op[p] /\ Known(op[p].bearer)' /\ executed[p] \in Nat
      BY <1>1, <1>2, <1>4, <2>2 DEF OpOK, GateOK
    <3>2. /\ Cardinality(Pending(net, p)) \in Nat
          /\ Cardinality(Pending(rest, p)) \in Nat
          /\ Cardinality(Pending(net', p)) \in Nat
      BY <1>1, PendingFinite DEF RestOK
    <3>3. Cardinality(Pending(net', p)) <= Cardinality(Pending(net, p))
      <4>1. Cardinality(Pending(net', p)) <= Cardinality(Pending(rest, p))
        BY <2>2
      <4>2. Cardinality(Pending(rest, p)) <= Cardinality(Pending(net, p))
        BY DEF RestOK
      <4>3. QED
        BY <3>2, <4>1, <4>2
    <3>4. Started(op[p]) \in Nat
      BY <3>1 DEF OpOK, Started, Operation
    <3>5. executed[p] + Cardinality(Pending(net', p)) <= Started(op[p])
      BY <3>1, <3>2, <3>3, <3>4 DEF OpOK
    <3>6. QED
      BY <1>2, <3>1, <3>5 DEF OpOK, Known
  <2>3. QED
    BY <2>1, <2>2
<1>8. QED
  BY <1>2, <1>3, <1>4, <1>5, <1>6, <1>7 DEF ClientInv

\* o's method posts a request.
LEMMA Posted ==
  ASSUME ClientInv, NEW o \in Ops, NEW rest, RestOK(o, rest), ServerKept, TokenInv',
         NEW r \in Operation, NEW kind \in {"token", "refresh", "revoke", "call"}, NEW bearer, NEW grant,
         Post(o, r, rest, kind, bearer, grant), Known(bearer), Known(grant),
         kind = "refresh" => grant # None,
         kind \in {"call", "revoke"} => bearer # None /\ (r.try = 0 => grants[bearer].life > 0),
         kind \in {"call", "revoke"} => r.method = kind,
         r.try <= MaxRetries,
         executed[o] + Cardinality(Pending(net, o)) + (IF kind = "call" THEN 1 ELSE 0)
           <= Started([r EXCEPT !.at = kind])
  PROVE  ClientInv'
<1> DEFINE x == [r EXCEPT !.at = kind, !.bearer = IF kind = "call" THEN bearer ELSE None]
           n == [op |-> o, kind |-> kind, bearer |-> bearer, grant |-> grant, all |-> r.all,
                 try |-> r.try, at |-> "sent", got |-> None, scoped |-> FALSE, age |-> 0, live |-> TRUE]
<1>1. GateOK /\ issued \in 0 .. MaxGrants /\ executed[o] \in Nat
  BY DEF ClientInv, GateOK
<1>2. op' = [op EXCEPT ![o] = x] /\ net' = rest \union {n}
  BY DEF Post
<1>3. bearer \in Grants \union {None} /\ grant \in Grants \union {None}
  BY <1>1, AuthAssumption DEF Known, Grants
<1>4. /\ x \in Operation /\ x.at = kind /\ x.method = r.method /\ x.try = r.try
      /\ x.bearer = IF kind = "call" THEN bearer ELSE None
      /\ Started(x) = Started([r EXCEPT !.at = kind])
  BY <1>3 DEF Operation, Started
<1>5. n \in Message /\ n.op = o /\ n.kind = kind
  BY <1>3 DEF Message, Operation, Stages
<1>6. MsgOK(n)
  BY <1>5, ClientAssumption DEF MsgOK, Known, Stages
<1> HIDE DEF x, n
<1>7. IsFiniteSet(rest) /\ IsFiniteSet(net') /\ IsFiniteSet(net)
  BY <1>2, FS_AddElement DEF RestOK, ClientInv
<1>8. \A p \in Ops \ {o} : Cardinality(Pending(net', p)) <= Cardinality(Pending(rest, p))
  <2>1. \A p \in Ops \ {o} : Pending(net', p) = Pending(rest, p)
    BY <1>2, <1>5 DEF Pending
  <2>2. \A p \in Ops \ {o} : Cardinality(Pending(rest, p)) \in Nat
    BY <1>7, PendingFinite
  <2>3. QED
    BY <2>1, <2>2
<1>9. executed[o] + Cardinality(Pending(net', o)) <= Started(x)
  <2>1. /\ Cardinality(Pending(net', o)) \in Nat
        /\ Cardinality(Pending(rest, o)) \in Nat
        /\ Cardinality(Pending(net, o)) \in Nat
        /\ Cardinality(Pending(rest, o)) <= Cardinality(Pending(net, o))
    BY <1>7, PendingFinite DEF RestOK
  <2>2. Started(x) \in Nat
    BY <1>4 DEF Started, Operation
  <2>3. CASE kind = "call"
    <3>1. Cardinality(Pending(net', o)) <= Cardinality(Pending(rest, o)) + 1
      BY <1>2, <1>7, PendingAdded
    <3>2. executed[o] + Cardinality(Pending(net, o)) + 1 <= Started(x)
      BY <1>4, <2>3
    <3>3. QED
      BY <1>1, <2>1, <2>2, <3>1, <3>2
  <2>4. CASE kind # "call"
    <3>1. Cardinality(Pending(net', o)) = Cardinality(Pending(rest, o))
      BY <1>2, <1>5, <1>7, <2>4, PendingAdded
    <3>2. executed[o] + Cardinality(Pending(net, o)) + 0 <= Started(x)
      BY <1>4, <2>4
    <3>3. QED
      BY <1>1, <2>1, <2>2, <3>1, <3>2
  <2>5. QED
    BY <2>3, <2>4
<1>10. Known(x.bearer) /\ (kind = "call" => x.bearer # None)
  BY <1>4 DEF Known
<1>11. kind # "backoff" /\ kind # "ok"
  OBVIOUS
<1>12. \A m \in {n} : MsgOK(m) /\ m.op = o /\ m.kind = x.at
  BY <1>4, <1>5, <1>6
<1>13. /\ x.try <= MaxRetries
       /\ x.at = "backoff" => x.try < MaxRetries
       /\ x.at \in {"call", "backoff"} => x.bearer # None /\ x.method = "call"
       /\ x.at = "revoke" => x.method = "revoke"
       /\ x.at = "ok" /\ x.method = "call" => executed[o] > 0
  BY <1>4, <1>10, <1>11
<1>14. x \in Operation /\ Known(x.bearer) /\ \A m, k \in {n} : m = k
  BY <1>4, <1>10
<1>15. QED
  BY <1>2, <1>7, <1>8, <1>9, <1>12, <1>13, <1>14, Moved

\* o's method ends, or waits before it tries again.
LEMMA Finished ==
  ASSUME ClientInv, NEW o \in Ops, NEW rest, RestOK(o, rest), ServerKept, TokenInv',
         NEW r \in Operation, NEW outcome \in {"ok", "failed", "backoff"},
         Finish(o, r, rest, outcome), r.try <= MaxRetries,
         outcome = "backoff" =>
           r.try < MaxRetries /\ r.method = "call" /\ r.bearer # None /\ Known(r.bearer),
         outcome = "ok" /\ r.method = "call" => executed[o] > 0,
         executed[o] + Cardinality(Pending(net, o)) <= Started([r EXCEPT !.at = outcome])
  PROVE  ClientInv'
<1> DEFINE x == [r EXCEPT !.at = outcome, !.bearer = IF outcome = "backoff" THEN @ ELSE None]
<1>1. executed[o] \in Nat /\ IsFiniteSet(net) /\ IsFiniteSet(rest)
  BY DEF ClientInv, GateOK, RestOK
<1>0. PICK none : none = {}
  OBVIOUS
<1>2. op' = [op EXCEPT ![o] = x] /\ net' = rest \union none
  BY <1>0 DEF Finish
<1>3. /\ x \in Operation /\ x.at = outcome /\ x.method = r.method /\ x.try = r.try
      /\ x.bearer = IF outcome = "backoff" THEN r.bearer ELSE None
      /\ Started(x) = Started([r EXCEPT !.at = outcome])
  BY DEF Operation, Started
<1> HIDE DEF x
<1>4. Known(x.bearer)
  BY <1>3 DEF Known
<1>5. executed[o] + Cardinality(Pending(net', o)) <= Started(x)
  <2>1. /\ net' = rest
        /\ Cardinality(Pending(rest, o)) \in Nat
        /\ Cardinality(Pending(net, o)) \in Nat
        /\ Cardinality(Pending(rest, o)) <= Cardinality(Pending(net, o))
    BY <1>0, <1>1, <1>2, PendingFinite DEF RestOK
  <2>2. Started(x) \in Nat
    BY <1>3 DEF Started, Operation
  <2>3. QED
    BY <1>1, <1>3, <2>1, <2>2
<1>6. \A p \in Ops \ {o} : Cardinality(Pending(net', p)) <= Cardinality(Pending(rest, p))
  <2>1. \A p \in Ops : Cardinality(Pending(rest, p)) \in Nat
    BY <1>1, PendingFinite
  <2>2. QED
    BY <1>0, <1>2, <2>1
<1>7. IsFiniteSet(net')
  BY <1>0, <1>1, <1>2
<1>8. /\ \A m \in none : MsgOK(m) /\ m.op = o /\ m.kind = x.at
      /\ \A m, n \in none : m = n
  BY <1>0
<1>9. /\ x.try <= MaxRetries
      /\ x.at = "backoff" => x.try < MaxRetries
      /\ x.at \in {"call", "backoff"} => x.bearer # None /\ x.method = "call"
      /\ x.at = "revoke" => x.method = "revoke"
      /\ x.at = "ok" /\ x.method = "call" => executed[o] > 0
  BY <1>3
<1>10. QED
  BY <1>2, <1>3, <1>4, <1>5, <1>6, <1>7, <1>8, <1>9, Moved

-----------------------------------------------------------------------------
\* A method that is not waiting for an answer leaves all messages as they are.
LEMMA RestAll ==
  ASSUME ClientInv, NEW o \in Ops, op[o].at \in {"idle", "backoff"}
  PROVE  RestOK(o, net)
<1>1. /\ IsFiniteSet(net) /\ (\A k \in net : MsgOK(k)) /\ Awaited(net) /\ Sole(net)
  BY DEF ClientInv
<1>2. ASSUME NEW m \in net, m.live PROVE m.op # o /\ op[m.op].at = m.kind
  <2>1. op[m.op].at = m.kind /\ m.kind \in {"token", "refresh", "revoke", "call"}
    BY <1>1, <1>2 DEF Awaited, MsgOK, Message
  <2>2. QED
    BY <2>1
<1>3. \A p \in Ops : Cardinality(Pending(net, p)) <= Cardinality(Pending(net, p))
  BY <1>1, PendingSubset
<1>4. QED
  BY <1>1, <1>2, <1>3 DEF RestOK

\* The message that o waited for is taken away.
LEMMA RestTaken ==
  ASSUME ClientInv, NEW m \in net, m.live
  PROVE  RestOK(m.op, net \ {m})
<1>1. /\ IsFiniteSet(net) /\ (\A k \in net : MsgOK(k)) /\ Awaited(net) /\ Sole(net)
  BY DEF ClientInv
<1>2. IsFiniteSet(net \ {m})
  BY <1>1, FS_RemoveElement
<1>3. \A k \in net \ {m} : k.live => k.op # m.op /\ op[k.op].at = k.kind
  BY <1>1 DEF Awaited, Sole
<1>4. Sole(net \ {m})
  BY <1>1 DEF Sole
<1>5. \A p \in Ops : Cardinality(Pending(net \ {m}, p)) <= Cardinality(Pending(net, p))
  BY <1>1, PendingSubset
<1>6. QED
  BY <1>1, <1>2, <1>3, <1>4, <1>5 DEF RestOK

\* ... or stays on its way, with nobody waiting for its answer.
LEMMA RestLate ==
  ASSUME ClientInv, NEW m \in net, m.live
  PROVE  RestOK(m.op, (net \ {m}) \union {[m EXCEPT !.live = FALSE]})
<1> DEFINE n == [m EXCEPT !.live = FALSE]
           rest == (net \ {m}) \union {n}
<1>1. /\ IsFiniteSet(net) /\ MsgOK(m)
  BY DEF ClientInv
<1>2. RestOK(m.op, net \ {m})
  BY RestTaken
<1>3. m \in Message
  BY <1>1 DEF MsgOK
<1>4. /\ n \in Message /\ ~n.live
      /\ n.op = m.op /\ n.kind = m.kind /\ n.at = m.at /\ n.got = m.got
      /\ n.bearer = m.bearer /\ n.grant = m.grant /\ n.age = m.age /\ n.try = m.try
  BY <1>3 DEF Message
<1> HIDE DEF n
<1>5. MsgOK(n)
  BY <1>1, <1>4 DEF MsgOK
<1>6. IsFiniteSet(rest)
  BY <1>2, FS_AddElement DEF RestOK
<1>7. \A k \in rest : MsgOK(k) /\ (k.live => k.op # m.op /\ op[k.op].at = k.kind)
  BY <1>2, <1>4, <1>5 DEF RestOK
<1>8. Sole(rest)
  BY <1>2, <1>4 DEF RestOK, Sole
<1>9. \A p \in Ops : Cardinality(Pending(rest, p)) <= Cardinality(Pending(net, p))
  BY <1>1, <1>4, PendingReplaced
<1> HIDE DEF rest
<1>10. RestOK(m.op, rest)
  BY <1>6, <1>7, <1>8, <1>9 DEF RestOK
<1>11. QED
  BY <1>10 DEF rest, n

\* The request of a method ends.
LEMMA ReactKeys ==
  ASSUME ClientInv, NEW o \in Ops, NEW m \in net, m.op = o, m.live,
         NEW answer \in Answers, answer = "ok" => m.at = "ok",
         NEW rest, RestOK(o, rest), ServerKept, React(o, m, answer, rest)
  PROVE  ClientInv'
<1>1. GateOK /\ TokenInv /\ MsgOK(m) /\ OpOK(o) /\ op[o].at = m.kind
  BY DEF ClientInv, Awaited
<1>2. PICK r \in Operation : r = op[o]
  BY <1>1 DEF OpOK
<1>3. /\ r.at = m.kind /\ r.try \in Nat /\ r.try <= MaxRetries
      /\ executed[o] + Cardinality(Pending(net, o)) <= Started(r)
  BY <1>1, <1>2 DEF OpOK, Operation
<1>4. executed[o] \in Nat /\ Cardinality(Pending(net, o)) \in Nat
  BY <1>1, PendingFinite DEF GateOK, ClientInv
<1>5. CASE m.kind \in {"token", "refresh"} /\ answer = "ok"
  <2>1. PICK g \in 1 .. issued : g = m.got
    BY <1>1, <1>5 DEF MsgOK, Known
  <2>2. /\ g \in Grants /\ g # None /\ Known(g)
        /\ grants[g].life \in Nat /\ grants[g].life > 0 /\ AccessTtl <= grants[g].life + Timeout
    <3>1. g \in Grants /\ g # None /\ Known(g)
      BY <1>1, <2>1, AuthAssumption DEF GateOK, Grants, Known
    <3>2. grants[g].life \in Nat /\ m.age \in Nat /\ m.age <= Timeout /\ grants[g].life + m.age >= AccessTtl
      BY <1>1, <2>1, <3>1, AuthAssumption DEF GateOK, GrantState, MsgOK, Message
    <3>3. QED
      BY <3>1, <3>2, AuthAssumption, ClientAssumption
  <2>3. Apply(g) /\ Proceed(o, r, rest, access', refresh')
    BY <1>2, <1>5, <2>1 DEF React
  <2>4. PICK ref \in {g, None} : refresh' = ref
    BY <2>3 DEF Apply
  <2>5. access' = g /\ left' = AccessTtl /\ Known(ref)
    BY <2>2, <2>3, <2>4 DEF Apply, Known
  <2>6. TokenInv'
    BY <1>1, <2>1, <2>2, <2>4, <2>5, AuthAssumption DEF TokenInv, Known, ServerKept
  <2>7. Started(r) = 0 /\ executed[o] + Cardinality(Pending(net, o)) = 0
    BY <1>3, <1>4, <1>5 DEF Started
  <2>8. CASE r.method \in {"authenticate", "refresh"} /\ Finish(o, r, rest, "ok")
    <3>1. Started([r EXCEPT !.at = "ok"]) = 0
      BY <2>8 DEF Started, Operation
    <3>2. QED
      BY <1>3, <2>6, <2>7, <2>8, <3>1, Finished
  <2>9. CASE r.method = "call" /\ Post(o, r, rest, "call", g, None)
    <3>1. Started([r EXCEPT !.at = "call"]) = r.try + 1
      BY <2>9 DEF Started, Operation
    <3>2. executed[o] + Cardinality(Pending(net, o)) + 1 <= r.try + 1
      BY <1>3, <2>7
    <3>3. QED
      BY <1>3, <2>2, <2>6, <2>9, <3>1, <3>2, Posted DEF Known
  <2>10. CASE r.method = "revoke" /\ Post(o, r, rest, "revoke", g, ref)
    <3>1. Started([r EXCEPT !.at = "revoke"]) = 0
      BY <2>10 DEF Started, Operation
    <3>2. executed[o] + Cardinality(Pending(net, o)) + 0 <= 0
      BY <2>7
    <3>3. QED
      BY <1>3, <2>2, <2>5, <2>6, <2>10, <3>1, <3>2, Posted
  <2>11. QED
    BY <2>3, <2>4, <2>5, <2>8, <2>9, <2>10 DEF Proceed
<1>6. CASE m.kind = "token" /\ answer # "ok" /\ TokenRefused(o, rest) /\ UNCHANGED <<access, refresh, left>>
  <2>1. Finish(o, r, rest, "failed") /\ TokenInv'
    BY <1>1, <1>2, <1>6, TokenKept DEF TokenRefused
  <2>2. Started(r) = 0 /\ Started([r EXCEPT !.at = "failed"]) \in Nat
    BY <1>3, <1>6 DEF Started, Operation
  <2>3. executed[o] + Cardinality(Pending(net, o)) <= Started([r EXCEPT !.at = "failed"])
    BY <1>3, <1>4, <2>2
  <2>4. QED
    BY <1>3, <2>1, <2>3, Finished
<1>7. CASE m.kind = "refresh" /\ answer # "ok" /\ Authenticate(o, op[o], rest) /\ UNCHANGED <<access, refresh, left>>
  <2>1. Post(o, r, rest, "token", None, None) /\ TokenInv' /\ Known(None)
    BY <1>1, <1>2, <1>7, TokenKept DEF Authenticate, Known
  <2>2. Started(r) = 0 /\ Started([r EXCEPT !.at = "token"]) = 0
    BY <1>3, <1>7 DEF Started, Operation
  <2>3. executed[o] + Cardinality(Pending(net, o)) + 0 <= 0
    BY <1>3, <1>4, <2>2
  <2>4. QED
    BY <1>3, <2>1, <2>2, <2>3, Posted
<1>8. CASE /\ m.kind = "revoke" /\ Finish(o, op[o], rest, Outcome(answer))
           /\ access' = None /\ refresh' = None /\ left' = 0
  <2>1. TokenInv'
    BY <1>8, AuthAssumption DEF TokenInv, Known
  <2>2. PICK outcome \in {"ok", "failed"} : outcome = Outcome(answer)
    BY DEF Outcome
  <2>3. r.method = "revoke" /\ Finish(o, r, rest, outcome)
    BY <1>1, <1>2, <1>8, <2>2 DEF OpOK
  <2>4. Started(r) = 0 /\ Started([r EXCEPT !.at = outcome]) = 0
    BY <2>3 DEF Started, Operation
  <2>5. QED
    BY <1>3, <2>1, <2>3, <2>4, Finished
<1>9. CASE /\ m.kind = "call" /\ UNCHANGED <<access, refresh, left>>
           /\ Retryable(answer) /\ MayRetry(op[o]) /\ Finish(o, op[o], rest, "backoff")
  <2>1. /\ Finish(o, r, rest, "backoff") /\ TokenInv'
        /\ r.try < MaxRetries /\ r.method = "call" /\ r.bearer # None /\ Known(r.bearer)
    BY <1>1, <1>2, <1>9, TokenKept DEF MayRetry, OpOK
  <2>2. Started(r) = r.try + 1 /\ Started([r EXCEPT !.at = "backoff"]) = r.try + 1
    BY <1>3, <1>9, <2>1 DEF Started, Operation
  <2>3. QED
    BY <1>3, <2>1, <2>2, Finished
<1>10. CASE /\ m.kind = "call" /\ UNCHANGED <<access, refresh, left>>
            /\ Finish(o, op[o], rest, Outcome(answer))
  <2>1. PICK outcome \in {"ok", "failed"} : outcome = Outcome(answer)
    BY DEF Outcome
  <2>2. Finish(o, r, rest, outcome) /\ TokenInv' /\ r.method = "call"
    BY <1>1, <1>2, <1>10, <2>1, TokenKept DEF OpOK
  <2>3. outcome = "ok" => executed[o] > 0
    BY <1>1, <1>10, <2>1 DEF Outcome, MsgOK
  <2>4. Started(r) = r.try + 1 /\ Started([r EXCEPT !.at = outcome]) = r.try + 1
    BY <1>3, <1>10, <2>2 DEF Started, Operation
  <2>5. QED
    BY <1>3, <2>2, <2>3, <2>4, Finished
<1>11. QED
  BY <1>5, <1>6, <1>7, <1>8, <1>9, <1>10 DEF React

\* refresh(), with whatever refresh token there is.
LEMMA RefreshKeys ==
  ASSUME ClientInv, NEW o \in Ops, NEW r \in Operation, r.try = 0, RestOK(o, net), ServerKept,
         UNCHANGED <<access, refresh, left>>, executed[o] + Cardinality(Pending(net, o)) <= 0,
         Refresh(o, r, net)
  PROVE  ClientInv'
<1>1. TokenInv' /\ Known(None)
  BY TokenKept DEF ClientInv, Known
<1>2. PICK ref : ref = refresh
  OBVIOUS
<1>3. Known(ref)
  BY <1>2 DEF ClientInv, TokenInv, Known
<1>4. Started([r EXCEPT !.at = "token"]) = 0 /\ Started([r EXCEPT !.at = "refresh"]) = 0
  BY DEF Started, Operation
<1>5. executed[o] + Cardinality(Pending(net, o)) + 0 <= 0
  <2>1. executed[o] \in Nat /\ Cardinality(Pending(net, o)) \in Nat
    BY PendingFinite DEF ClientInv, GateOK
  <2>2. QED
    BY <2>1
<1>6. r.try <= MaxRetries
  BY ClientAssumption
<1>7. CASE Post(o, r, net, "token", None, None)
  BY <1>1, <1>4, <1>5, <1>6, <1>7, Posted
<1>8. CASE ref # None /\ Post(o, r, net, "refresh", None, ref)
  BY <1>1, <1>3, <1>4, <1>5, <1>6, <1>8, Posted
<1>9. QED
  BY <1>2, <1>7, <1>8 DEF Refresh, Authenticate

LEMMA BeginKeys ==
  ASSUME ClientInv, NEW o \in Ops, Begin(o)
  PROVE  ClientInv'
<1>1. /\ op[o].at = "idle" /\ ServerKept /\ UNCHANGED <<access, refresh, left>>
  BY DEF Begin, ServerKept
<1>2. RestOK(o, net) /\ TokenInv /\ GateOK /\ OpOK(o)
  BY <1>1, RestAll DEF ClientInv
<1>3. TokenInv' /\ Known(None)
  BY <1>1, <1>2, TokenKept DEF Known
<1>4. PICK method \in Methods, all \in BOOLEAN :
        LET r == [NotCalled EXCEPT !.method = method, !.all = all] IN
          \/ method = "authenticate" /\ Authenticate(o, r, net)
          \/ method = "refresh" /\ Refresh(o, r, net)
          \/ method = "revoke" /\ refresh = None /\ Finish(o, r, net, "ok")
          \/ /\ method = "call" \/ (method = "revoke" /\ refresh # None)
             /\ \/ NeedsToken /\ Refresh(o, r, net)
                \/ ~NeedsToken /\ Proceed(o, r, net, access, refresh)
  BY DEF Begin
<1>5. PICK r : r = [NotCalled EXCEPT !.method = method, !.all = all]
  OBVIOUS
<1>6. r \in Operation /\ r.method = method /\ r.try = 0 /\ r.try <= MaxRetries
  <2>1. r = [method |-> method, at |-> "idle", all |-> all, bearer |-> None, try |-> 0]
    BY <1>5 DEF NotCalled
  <2>2. r \in Operation
    BY <2>1 DEF Operation
  <2>3. QED
    BY <2>1, <2>2, ClientAssumption
<1>7. executed[o] \in Nat /\ Cardinality(Pending(net, o)) \in Nat
  BY <1>2, PendingFinite DEF GateOK, ClientInv
<1>8. Started(op[o]) = 0 /\ executed[o] + Cardinality(Pending(net, o)) <= 0
  BY <1>1, <1>2 DEF OpOK, Started
<1>9. executed[o] + Cardinality(Pending(net, o)) + 0 <= 0 /\ executed[o] + Cardinality(Pending(net, o)) + 1 <= 1
  BY <1>7, <1>8
<1>10. CASE method = "authenticate" /\ Authenticate(o, r, net)
  <2>1. Post(o, r, net, "token", None, None)
    BY <1>10 DEF Authenticate
  <2>2. Started([r EXCEPT !.at = "token"]) = 0
    BY <1>6 DEF Started, Operation
  <2>3. QED
    BY <1>1, <1>2, <1>3, <1>6, <1>9, <2>1, <2>2, Posted
<1>11. CASE Refresh(o, r, net)
  BY <1>1, <1>2, <1>6, <1>8, <1>11, RefreshKeys
<1>12. CASE method = "revoke" /\ Finish(o, r, net, "ok")
  <2>1. Started([r EXCEPT !.at = "ok"]) = 0
    BY <1>6, <1>12 DEF Started, Operation
  <2>2. QED
    BY <1>1, <1>2, <1>3, <1>6, <1>8, <1>12, <2>1, Finished
<1>13. CASE method \in {"call", "revoke"} /\ ~NeedsToken /\ Proceed(o, r, net, access, refresh)
  <2>1. PICK acc, ref : acc = access /\ ref = refresh
    OBVIOUS
  <2>2. Known(acc) /\ Known(ref) /\ acc # None
    BY <1>2, <1>13, <2>1 DEF TokenInv, Known, NeedsToken
  <2>3. grants[acc].life > 0
    <3>1. acc \in Grants
      BY <1>2, <2>2, AuthAssumption DEF Known, GateOK, Grants
    <3>2. grants[acc].life \in Nat
      BY <1>2, <3>1, AuthAssumption DEF GateOK, GrantState
    <3>3. left \in Nat /\ left > Margin /\ left <= grants[acc].life + Timeout
      BY <1>2, <1>13, <2>1, <2>2, AuthAssumption, ClientAssumption DEF TokenInv, NeedsToken
    <3>4. QED
      BY <3>2, <3>3, ClientAssumption
  <2>4. CASE method = "call" /\ Post(o, r, net, "call", acc, None)
    <3>1. Started([r EXCEPT !.at = "call"]) = 1
      BY <1>6, <2>4 DEF Started, Operation
    <3>2. QED
      BY <1>1, <1>2, <1>3, <1>6, <1>9, <2>2, <2>3, <2>4, <3>1, Posted
  <2>5. CASE method = "revoke" /\ Post(o, r, net, "revoke", acc, ref)
    <3>1. Started([r EXCEPT !.at = "revoke"]) = 0
      BY <1>6, <2>5 DEF Started, Operation
    <3>2. QED
      BY <1>1, <1>2, <1>3, <1>6, <1>9, <2>2, <2>3, <2>5, <3>1, Posted
  <2>6. QED
    BY <1>6, <1>13, <2>1, <2>4, <2>5 DEF Proceed
<1>14. \/ method = "authenticate" /\ Authenticate(o, r, net)
       \/ Refresh(o, r, net)
       \/ method = "revoke" /\ Finish(o, r, net, "ok")
       \/ method \in {"call", "revoke"} /\ ~NeedsToken /\ Proceed(o, r, net, access, refresh)
  BY <1>4, <1>5
<1>15. QED
  BY <1>10, <1>11, <1>12, <1>13, <1>14

LEMMA RetryKeys ==
  ASSUME ClientInv, NEW o \in Ops, Retry(o)
  PROVE  ClientInv'
<1>1. /\ op[o].at = "backoff" /\ ServerKept /\ UNCHANGED <<access, refresh, left>>
  BY DEF Retry, ServerKept
<1>2. RestOK(o, net) /\ TokenInv /\ GateOK /\ OpOK(o)
  BY <1>1, RestAll DEF ClientInv
<1>3. TokenInv' /\ Known(None)
  BY <1>1, <1>2, TokenKept DEF Known
<1>4. PICK r, bearer : r = [op[o] EXCEPT !.try = @ + 1] /\ bearer = op[o].bearer
  OBVIOUS
<1>5. /\ op[o] \in Operation /\ op[o].try \in Nat /\ op[o].method = "call"
      /\ op[o].try < MaxRetries /\ bearer # None /\ Known(bearer)
  BY <1>1, <1>2, <1>4 DEF OpOK, Operation
<1>6. r \in Operation /\ r.try = op[o].try + 1 /\ r.method = "call"
  BY <1>4, <1>5 DEF Operation
<1>7. r.try <= MaxRetries /\ r.try # 0
  BY <1>5, <1>6, ClientAssumption
<1>8. executed[o] \in Nat /\ Cardinality(Pending(net, o)) \in Nat
  BY <1>2, PendingFinite DEF GateOK, ClientInv
<1>9. /\ executed[o] + Cardinality(Pending(net, o)) <= Started(op[o])
      /\ Started(op[o]) = op[o].try + 1
      /\ Started([r EXCEPT !.at = "call"]) = r.try + 1
  BY <1>1, <1>2, <1>5, <1>6 DEF OpOK, Started, Operation
<1>10. executed[o] + Cardinality(Pending(net, o)) + 1 <= r.try + 1
  BY <1>5, <1>6, <1>8, <1>9
<1>11. Post(o, r, net, "call", bearer, None)
  BY <1>4 DEF Retry
<1>12. QED
  BY <1>1, <1>2, <1>3, <1>5, <1>6, <1>7, <1>9, <1>10, <1>11, Posted

LEMMA ReceiveKeys ==
  ASSUME ClientInv, NEW o \in Ops, Receive(o)
  PROVE  ClientInv'
<1>1. PICK m \in net : m.op = o /\ m.live /\ m.at \in Answers /\ React(o, m, m.at, net \ {m})
  BY DEF Receive
<1>2. ServerKept
  BY DEF Receive, ServerKept
<1>3. RestOK(o, net \ {m})
  BY <1>1, RestTaken
<1>4. QED
  BY <1>1, <1>2, <1>3, ReactKeys

LEMMA TimeOutKeys ==
  ASSUME ClientInv, NEW o \in Ops, TimeOut(o)
  PROVE  ClientInv'
<1>1. PICK m \in net :
        /\ m.op = o /\ m.live
        /\ \/ React(o, m, "unavailable", net \ {m})
           \/ React(o, m, "unavailable", (net \ {m}) \union {[m EXCEPT !.live = FALSE]})
  BY DEF TimeOut
<1>2. ServerKept
  BY DEF TimeOut, ServerKept
<1>3. RestOK(o, net \ {m}) /\ RestOK(o, (net \ {m}) \union {[m EXCEPT !.live = FALSE]})
  BY <1>1, RestTaken, RestLate
<1>4. "unavailable" \in Answers /\ "unavailable" # "ok"
  BY DEF Answers
<1>5. QED
  BY <1>1, <1>2, <1>3, <1>4, ReactKeys

-----------------------------------------------------------------------------
(* Time.                                                                   *)

Older(m) == IF m.live THEN [m EXCEPT !.age = @ + 1] ELSE m

LEMMA OlderSame ==
  ASSUME NEW m \in Message
  PROVE  /\ Older(m) \in Message
         /\ Older(m).op = m.op /\ Older(m).kind = m.kind /\ Older(m).live = m.live /\ Older(m).at = m.at
         /\ Older(m).got = m.got /\ Older(m).bearer = m.bearer /\ Older(m).grant = m.grant
         /\ Older(m).try = m.try
         /\ m.live => Older(m).age = m.age + 1
<1>1. CASE m.live
  <2>1. m.age \in Nat /\ m.age + 1 \in Nat
    BY DEF Message
  <2>2. Older(m) = [m EXCEPT !.age = m.age + 1]
    BY <1>1 DEF Older
  <2>3. Older(m) \in Message
    BY <2>1, <2>2 DEF Message
  <2>4. QED
    BY <2>1, <2>2 DEF Message
<1>2. CASE ~m.live
  BY <1>2 DEF Older
<1>3. QED
  BY <1>1, <1>2

\* No message comes or goes.
LEMMA OlderCount ==
  ASSUME NEW N \in SUBSET Message, IsFiniteSet(N)
  PROVE  /\ IsFiniteSet({Older(m) : m \in N})
         /\ Cardinality({Older(m) : m \in N}) <= Cardinality(N)
<1> DEFINE f == [m \in N |-> Older(m)]
           T == {Older(m) : m \in N}
<1>1. f \in [N -> T] /\ \A t \in T : \E m \in N : f[m] = t
  OBVIOUS
<1>2. f \in Surjection(N, T)
  BY <1>1 DEF Surjection
<1> HIDE DEF f, T
<1>3. IsFiniteSet(T) /\ Cardinality(T) <= Cardinality(N)
  BY <1>2, FS_Surjection
<1>4. QED
  BY <1>3 DEF T

LEMMA OlderPending ==
  ASSUME NEW N \in SUBSET Message, IsFiniteSet(N), NEW o
  PROVE  Cardinality(Pending({Older(m) : m \in N}, o)) <= Cardinality(Pending(N, o))
<1>1. Pending({Older(m) : m \in N}, o) = {Older(m) : m \in Pending(N, o)}
  <2>1. \A m \in N : Older(m).op = m.op /\ Older(m).kind = m.kind /\ Older(m).at = m.at
    BY OlderSame
  <2>2. QED
    BY <2>1 DEF Pending
<1>2. Pending(N, o) \in SUBSET Message
  BY DEF Pending
<1>3. IsFiniteSet(Pending(N, o))
  BY PendingFinite
<1>4. QED
  BY <1>1, <1>2, <1>3, OlderCount

LEMMA LessFacts ==
  ASSUME NEW n \in Nat
  PROVE  Less(n) \in Nat /\ Less(n) <= n /\ Less(n) + 1 >= n /\ (n > 0 => Less(n) = n - 1) /\ (n = 0 => Less(n) = 0)
BY DEF Less

LEMMA TickKeys ==
  ASSUME ClientInv, Tick
  PROVE  ClientInv'
<1>1. /\ GateOK /\ TokenInv /\ IsFiniteSet(net) /\ (\A k \in net : MsgOK(k))
      /\ op \in [Ops -> Operation]
      /\ (\A p \in Ops : OpOK(p)) /\ Awaited(net) /\ Sole(net)
  BY DEF ClientInv
<1>2. /\ UNCHANGED <<provider, storeUp, secretOk, manifest, issued, records, revoked,
                     executed, faults, access, refresh, op>>
      /\ left' = Less(left)
      /\ grants' = [g \in Grants |-> [grants[g] EXCEPT !.life = Less(@), !.refreshLife = Less(@)]]
      /\ net' = {Older(m) : m \in net}
      /\ \A m \in net : m.live => m.age # Timeout
  BY DEF Tick, Older
<1>3. net \in SUBSET Message
  BY <1>1 DEF MsgOK
<1>4. ASSUME NEW g \in Grants
      PROVE  /\ grants[g].life \in Nat
             /\ grants'[g].life = Less(grants[g].life)
             /\ grants'[g] \in GrantState
  <2>1. grants[g] \in GrantState
    BY <1>1 DEF GateOK
  <2>2. grants'[g] = [grants[g] EXCEPT !.life = Less(@), !.refreshLife = Less(@)]
    BY <1>2
  <2>3. /\ grants[g].life \in 0 .. AccessTtl /\ Less(grants[g].life) \in 0 .. AccessTtl
        /\ Less(grants[g].refreshLife) \in 0 .. RefreshTtl
    BY <2>1, AuthAssumption DEF GrantState, Less
  <2>4. grants'[g] = [grants[g] EXCEPT !.life = Less(grants[g].life), !.refreshLife = Less(grants[g].refreshLife)]
    BY <2>1, <2>2 DEF GrantState
  <2>5. grants'[g] = [life |-> Less(grants[g].life), refreshLife |-> Less(grants[g].refreshLife), scoped |-> grants[g].scoped]
    BY <2>1, <2>4 DEF GrantState
  <2>6. grants[g].scoped \in BOOLEAN /\ grants[g].life \in Nat
    BY <2>1, AuthAssumption DEF GrantState
  <2>7. grants'[g] \in GrantState
    BY <2>3, <2>5, <2>6 DEF GrantState
  <2>8. QED
    BY <2>5, <2>6, <2>7
<1>5. GateOK'
  <2>1. grants' \in [Grants -> GrantState]
    BY <1>2, <1>4
  <2>2. QED
    BY <1>1, <1>2, <2>1 DEF GateOK
<1>6. \A g : Known(g) /\ g # None => g \in Grants
  BY <1>1, AuthAssumption DEF Known, GateOK, Grants
<1>7. TokenInv'
  <2>1. left \in Nat /\ left' \in 0 .. AccessTtl
    <3>1. left \in 0 .. AccessTtl /\ left \in Nat
      BY <1>1, AuthAssumption DEF TokenInv
    <3>2. left' \in Nat /\ left' <= left
      BY <1>2, <3>1, LessFacts
    <3>3. QED
      BY <3>1, <3>2, AuthAssumption
  <2>2. ASSUME access # None PROVE left' <= grants'[access].life + Timeout
    <3>1. access \in Grants
      BY <1>1, <1>6, <2>2 DEF TokenInv
    <3>2. left <= grants[access].life + Timeout
      BY <1>1, <2>2 DEF TokenInv
    <3>3. grants[access].life \in Nat /\ grants'[access].life = Less(grants[access].life)
      BY <1>4, <3>1
    <3>4. PICK a, l, k \in Nat : a = grants[access].life /\ l = left /\ k = Timeout
      BY <2>1, <3>3, ClientAssumption
    <3>5. l <= a + k /\ left' = Less(l) /\ grants'[access].life = Less(a)
      BY <1>2, <3>2, <3>3, <3>4
    <3>6. Less(l) <= Less(a) + k
      BY <3>4, <3>5 DEF Less
    <3>7. QED
      BY <3>4, <3>5, <3>6
  <2>3. QED
    BY <1>1, <1>2, <2>1, <2>2 DEF TokenInv, Known
<1>8. IsFiniteSet(net')
  BY <1>1, <1>2, <1>3, OlderCount
<1>9. ASSUME NEW m \in net PROVE MsgOK(Older(m))'
  <2>1. MsgOK(m) /\ m \in Message
    BY <1>1, <1>3
  <2>2. PICK n : n = Older(m)
    OBVIOUS
  <2>3. /\ n \in Message
        /\ n.op = m.op /\ n.kind = m.kind /\ n.live = m.live /\ n.at = m.at
        /\ n.got = m.got /\ n.bearer = m.bearer /\ n.grant = m.grant /\ n.try = m.try
        /\ m.live => n.age = m.age + 1
    BY <2>1, <2>2, OlderSame
  <2>4. m.age \in Nat
    BY <2>1 DEF Message
  <2>5. ASSUME n.live PROVE n.age <= Timeout /\ n.age # 0
    <3>1. m.age <= Timeout /\ m.age # Timeout /\ n.age = m.age + 1
      BY <1>2, <2>1, <2>3, <2>5 DEF MsgOK
    <3>2. QED
      BY <2>4, <3>1, ClientAssumption
  <2>6. ASSUME n.live, n.got # None PROVE grants'[n.got].life + n.age >= AccessTtl
    <3>1. m.got \in Grants /\ grants[m.got].life + m.age >= AccessTtl
      BY <1>6, <2>1, <2>3, <2>6 DEF MsgOK
    <3>2. grants[m.got].life \in Nat /\ grants'[m.got].life = Less(grants[m.got].life)
      BY <1>4, <3>1
    <3>3. grants'[m.got].life \in Nat /\ grants'[m.got].life + 1 >= grants[m.got].life
      BY <3>2, LessFacts
    <3>4. n.age = m.age + 1 /\ n.got = m.got
      BY <2>3, <2>6
    <3>5. QED
      BY <2>4, <3>1, <3>2, <3>3, <3>4, AuthAssumption
  <2>7. Known(n.bearer)' /\ Known(n.grant)' /\ Known(n.got)'
    BY <1>2, <2>1, <2>3 DEF MsgOK, Known
  <2>8. /\ n.at = "persist" /\ n.kind \in {"token", "refresh"} => n.got # None
        /\ n.at = "persist" /\ n.kind = "revoke" => n.grant # None
        /\ n.at = "ok" /\ n.kind \in {"token", "refresh"} => n.got # None
        /\ n.at \in Stages /\ n.kind = "refresh" => n.grant # None
        /\ n.at = "ok" /\ n.kind = "call" => executed'[n.op] > 0
        /\ n.live /\ n.at = "sent" /\ n.kind \in {"call", "revoke"} => n.bearer # None
    BY <1>2, <2>1, <2>3 DEF MsgOK
  <2>9. MsgOK(n)'
    BY <2>3, <2>5, <2>6, <2>7, <2>8 DEF MsgOK
  <2>10. QED
    BY <2>2, <2>9
<1>10. \A m \in net' : MsgOK(m)'
  BY <1>2, <1>9
<1>11. \A m \in net : Older(m).op = m.op /\ Older(m).kind = m.kind /\ Older(m).live = m.live
  BY <1>3, OlderSame
<1>12. ASSUME NEW n \in net', n.live PROVE op'[n.op].at = n.kind
  <2>1. PICK m \in net : n = Older(m)
    BY <1>2
  <2>2. QED
    BY <1>1, <1>2, <1>11, <1>12, <2>1 DEF Awaited
<1>13. ASSUME NEW n \in net', NEW k \in net', n.live, k.live, n.op = k.op PROVE n = k
  <2>1. PICK m \in net, l \in net : n = Older(m) /\ k = Older(l)
    BY <1>2
  <2>2. m.live /\ l.live /\ m.op = l.op
    BY <1>11, <1>13, <2>1
  <2>3. QED
    BY <1>1, <2>1, <2>2 DEF Sole
<1>14. ASSUME NEW o \in Ops PROVE OpOK(o)'
  <2>1. OpOK(o) /\ op'[o] = op[o] /\ executed'[o] = executed[o] /\ executed[o] \in Nat
    BY <1>1, <1>2 DEF GateOK
  <2>2. /\ Cardinality(Pending(net', o)) <= Cardinality(Pending(net, o))
        /\ Cardinality(Pending(net', o)) \in Nat /\ Cardinality(Pending(net, o)) \in Nat
    BY <1>1, <1>2, <1>3, <1>8, OlderPending, PendingFinite
  <2>3. Started(op[o]) \in Nat
    BY <2>1 DEF OpOK, Started, Operation
  <2>4. executed'[o] + Cardinality(Pending(net', o)) <= Started(op'[o])
    BY <2>1, <2>2, <2>3 DEF OpOK
  <2>5. Known(op[o].bearer)'
    BY <1>2, <2>1 DEF OpOK, Known
  <2>6. QED
    BY <2>1, <2>4, <2>5 DEF OpOK
<1>15. op' \in [Ops -> Operation]
  BY <1>1, <1>2
<1>16. QED
  BY <1>5, <1>7, <1>8, <1>10, <1>12, <1>13, <1>14, <1>15 DEF ClientInv, Awaited, Sole

-----------------------------------------------------------------------------
(* All steps, and the theorems.                                            *)

\* A step that leaves the client and the messages alone.
LEMMA NothingSent ==
  ASSUME ClientInv, manifest' \in Manifests,
         UNCHANGED <<provider, storeUp, secretOk, grants, issued, records, revoked, net, executed, faults>>,
         UNCHANGED clientVars
  PROVE  ClientInv'
<1>1. /\ GateOK /\ TokenInv /\ (\A k \in net : MsgOK(k)) /\ (\A o \in Ops : OpOK(o))
  BY DEF ClientInv
<1>2. GateOK' /\ Grows /\ Counts
  BY <1>1 DEF GateOK, Grows, Counts
<1>3. UNCHANGED <<access, refresh, left, op>>
  BY DEF clientVars
<1>4. TokenInv'
  BY <1>1, <1>3 DEF TokenInv, Known
<1>5. \A k \in net' : MsgOK(k)'
  BY <1>1, <1>2, MessageStays
<1>6. \A o \in Ops : OpOK(o)'
  BY <1>1, <1>3 DEF OpOK, Known
<1>7. QED
  BY <1>2, <1>3, <1>4, <1>5, <1>6 DEF ClientInv, Awaited, Sole

LEMMA ClientStep == ClientInv /\ [Next]_vars => ClientInv'
<1> SUFFICES ASSUME ClientInv, [Next]_vars PROVE ClientInv'
  OBVIOUS
<1>1. CASE \E o \in Ops : Begin(o) \/ Receive(o) \/ TimeOut(o) \/ Retry(o)
  BY <1>1, BeginKeys, ReceiveKeys, TimeOutKeys, RetryKeys
<1>2. CASE Tick
  BY <1>2, TickKeys
<1>3. CASE Gateway
  <2>1. UNCHANGED clientVars
    BY <1>3 DEF Gateway
  <2>2. CASE \E m \in net : Handle(m)
    BY <2>1, <2>2, TokenRouteSteps, OtherRouteSteps DEF Handle
  <2>3. CASE Reregister
    BY <2>1, <2>3, NothingSent DEF Reregister
  <2>4. QED
    BY <1>3, <2>2, <2>3 DEF Gateway
<1>4. CASE UNCHANGED vars
  <2>1. /\ UNCHANGED clientVars /\ manifest' = manifest
        /\ UNCHANGED <<provider, storeUp, secretOk, grants, issued, records, revoked, net, executed, faults>>
    BY <1>4 DEF vars, serverVars
  <2>2. manifest \in Manifests
    BY DEF ClientInv, GateOK
  <2>3. QED
    BY <2>1, <2>2, NothingSent
<1>5. QED
  BY <1>1, <1>2, <1>3, <1>4 DEF Next

LEMMA ClientStarts == Init => ClientInv
<1> SUFFICES ASSUME Init PROVE ClientInv
  OBVIOUS
<1>1. GateOK
  <2>1. NoGrant \in GrantState
    BY AuthAssumption DEF NoGrant, GrantState
  <2>2. QED
    BY <2>1, AuthAssumption DEF Init, AuthInit, GateOK
<1>2. TokenInv
  BY AuthAssumption DEF Init, TokenInv, Known
<1>3. net = {} /\ IsFiniteSet(net) /\ Awaited(net) /\ Sole(net) /\ (\A m \in net : MsgOK(m))
  BY FS_EmptySet DEF Init, AuthInit, Awaited, Sole
<1>4. NotCalled \in Operation
  BY DEF NotCalled, Operation
<1>5. op \in [Ops -> Operation]
  BY <1>4 DEF Init
<1>6. ASSUME NEW o \in Ops PROVE OpOK(o)
  <2>1. op[o] = NotCalled
    BY DEF Init
  <2>2. executed[o] = 0 /\ Pending(net, o) = {}
    BY <1>3 DEF Init, AuthInit, Pending
  <2>3. Cardinality(Pending(net, o)) = 0
    BY <2>2, FS_EmptySet
  <2>4. Started(op[o]) = 0
    BY <2>1 DEF NotCalled, Started
  <2>5. QED
    BY <1>4, <2>1, <2>2, <2>3, <2>4, ClientAssumption DEF OpOK, Known, NotCalled
<1>7. QED
  BY <1>1, <1>2, <1>3, <1>5, <1>6 DEF ClientInv

LEMMA ClientInvariant == Spec => []ClientInv
BY ClientStarts, ClientStep, PTL DEF Spec

\* Tokens, messages and operations keep their types; in particular no token is
\* in use, recorded or revoked that was not issued (Auth, TribeClient).
THEOREM ClientTypeCorrect == Spec => []TypeOK
<1>1. ClientInv => TypeOK
  <2> SUFFICES ASSUME ClientInv PROVE TypeOK
    OBVIOUS
  <2>1. net \subseteq Message
    BY DEF ClientInv, MsgOK
  <2>2. access \in Grants \union {None}
    BY AuthAssumption DEF ClientInv, TokenInv, GateOK, Known, Grants
  <2>3. QED
    BY <2>1, <2>2 DEF ClientInv, GateOK, TokenInv, TypeOK, GrantState
<1>2. QED
  BY <1>1, ClientInvariant, PTL

\* However many methods renew and revoke the tokens at a time, a call leaves
\* with a token, and its first attempt with one that the gateway still accepts
\* (ensureAuth(), applyToken() and request()).
THEOREM CallsAreFresh == Spec => []FirstTryIsFresh
<1>1. ClientInv => FirstTryIsFresh
  BY DEF ClientInv, MsgOK, FirstTryIsFresh
<1>2. QED
  BY <1>1, ClientInvariant, PTL

\* No service executes a call more often than it was tried, whatever is lost,
\* late or repeated (request()).
THEOREM ExecutionsAreBounded == Spec => []ExecutionsBounded
<1>1. ClientInv => ExecutionsBounded
  <2> SUFFICES ASSUME ClientInv, NEW o \in Ops
               PROVE  /\ executed[o] <= MaxRetries + 1
                      /\ executed[o] <= op[o].try + 1
                      /\ op[o].method = "call" /\ op[o].at = "ok" => executed[o] > 0
    BY DEF ExecutionsBounded
  <2>1. OpOK(o) /\ executed[o] \in Nat /\ Cardinality(Pending(net, o)) \in Nat
    BY PendingFinite DEF ClientInv, GateOK
  <2>2. op[o].try \in Nat /\ op[o].try <= MaxRetries
    BY <2>1 DEF OpOK, Operation
  <2>3. Started(op[o]) <= op[o].try + 1 /\ Started(op[o]) \in Nat
    BY <2>2 DEF Started
  <2>4. executed[o] + Cardinality(Pending(net, o)) <= Started(op[o])
    BY <2>1 DEF OpOK
  <2>5. executed[o] <= op[o].try + 1
    BY <2>1, <2>2, <2>3, <2>4
  <2>6. executed[o] <= MaxRetries + 1
    BY <2>1, <2>2, <2>5, ClientAssumption
  <2>7. QED
    BY <2>1, <2>5, <2>6 DEF OpOK
<1>2. QED
  BY <1>1, ClientInvariant, PTL
=============================================================================
