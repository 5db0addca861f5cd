--------------------------- MODULE TokenStoreProofs ---------------------------
(***************************************************************************)
(* TokenStore keeps its invariants for any number of callers, tokens and   *)
(* subjects, any times to live and any number of calls that break off.     *)
(***************************************************************************)
EXTENDS TokenStore, TLAPS

\* What a call under way is, by where it is.
LEMMA CallKinds ==
  ASSUME TypeOK, NEW c \in Callers
  PROVE  /\ call[c] = Idle \/ call[c] \in StoreCall \/ call[c] \in RevokeCall
                           \/ call[c] \in RevokeAllCall
         /\ call[c].at \in {"sadd", "ttl", "expire"} <=> call[c] \in StoreCall
         /\ call[c].at = "del" => call[c] \in [at : {"del"}, jti : Jtis, found : BOOLEAN]
         /\ call[c].at = "srem" => call[c] \in [at : {"srem"}, jti : Jtis]
         /\ call[c].at \in {"pipeline", "index"} <=> call[c] \in RevokeAllCall
<1>1. call[c] = Idle \/ call[c] \in StoreCall \/ call[c] \in RevokeCall
                     \/ call[c] \in RevokeAllCall
  BY DEF TypeOK
<1>2. QED
  BY <1>1 DEF Idle, StoreCall, RevokeCall, RevokeAllCall

\* What a caller does not do leaves the other callers' calls alone.
LEMMA CallType ==
  ASSUME TypeOK, NEW c \in Callers, NEW x,
         x = Idle \/ x \in StoreCall \/ x \in RevokeCall \/ x \in RevokeAllCall,
         call' = [call EXCEPT ![c] = x]
  PROVE  call' \in [Callers -> {Idle} \union StoreCall \union RevokeCall \union RevokeAllCall]
BY DEF TypeOK

LEMMA Ttls == FullTtl \in Nat /\ FullTtl >= TokenTtl /\ FullTtl > 0 /\ TokenTtl > 0
BY TtlAssumption DEF FullTtl, Larger

-----------------------------------------------------------------------------
(* Types.                                                                  *)

LEMMA InitType == Init => TypeOK
BY TtlAssumption, Ttls DEF Init, TypeOK, NoExpiry

LEMMA StoreType ==
  ASSUME TypeOK, NEW c \in Callers,
         \/ \E j \in Jtis, s \in Subjects : SetRecord(c, j, s)
         \/ AddMember(c) \/ ReadTtl(c) \/ Expire(c)
  PROVE  TypeOK'
<1>1. CASE \E j \in Jtis, s \in Subjects : SetRecord(c, j, s)
  <2>1. PICK j \in Jtis, s \in Subjects : SetRecord(c, j, s)
    BY <1>1
  <2>2. [at |-> "sadd", sub |-> s, jti |-> j] \in StoreCall
    BY DEF StoreCall
  <2>3. call' \in [Callers -> {Idle} \union StoreCall \union RevokeCall \union RevokeAllCall]
    BY <2>1, <2>2, CallType DEF SetRecord
  <2>4. life' \in [Jtis -> 0 .. TokenTtl] /\ excused' \subseteq Jtis
    BY <2>1, Ttls, TtlAssumption DEF SetRecord, TypeOK
  <2>5. QED
    BY <2>1, <2>3, <2>4 DEF SetRecord, TypeOK
<1>2. CASE AddMember(c)
  <2>1. call[c] \in StoreCall
    BY <1>2, CallKinds DEF AddMember
  <2>2. [call[c] EXCEPT !.at = "ttl"] \in StoreCall
    BY <2>1 DEF StoreCall
  <2>3. call' \in [Callers -> {Idle} \union StoreCall \union RevokeCall \union RevokeAllCall]
    BY <1>2, <2>2, CallType DEF AddMember
  <2>4. NoExpiry \in NoExpiry .. FullTtl
    BY Ttls DEF NoExpiry
  <2>5. call[c].sub \in Subjects /\ call[c].jti \in Jtis
    BY <2>1 DEF StoreCall
  <2>6. indexLife' \in [Subjects -> NoExpiry .. FullTtl]
    BY <1>2, <2>4, <2>5 DEF AddMember, TypeOK
  <2>7. members' \in [Subjects -> SUBSET Jtis]
    BY <1>2, <2>5 DEF AddMember, TypeOK
  <2>8. QED
    BY <1>2, <2>3, <2>6, <2>7 DEF AddMember, TypeOK
<1>3. CASE ReadTtl(c)
  <2>1. [call[c] EXCEPT !.at = "expire"] \in StoreCall
    BY <1>3, CallKinds DEF ReadTtl, StoreCall
  <2>2. call' \in [Callers -> {Idle} \union StoreCall \union RevokeCall \union RevokeAllCall]
    <3>1. CASE TooShort(call[c].sub)
      BY <1>3, <2>1, <3>1, CallType DEF ReadTtl
    <3>2. CASE ~TooShort(call[c].sub)
      BY <1>3, <3>2, CallType DEF ReadTtl
    <3>3. QED
      BY <3>1, <3>2
  <2>3. QED
    BY <1>3, <2>2 DEF ReadTtl, TypeOK
<1>4. CASE Expire(c)
  <2>1. call[c].sub \in Subjects
    BY <1>4, CallKinds DEF Expire, StoreCall
  <2>2. FullTtl \in NoExpiry .. FullTtl
    BY Ttls DEF NoExpiry
  <2>3. ExtendedTtl(call[c].sub) \in NoExpiry .. FullTtl
    BY <2>1, <2>2 DEF ExtendedTtl, TypeOK
  <2>4. call' \in [Callers -> {Idle} \union StoreCall \union RevokeCall \union RevokeAllCall]
    BY <1>4, CallType DEF Expire
  <2>5. QED
    BY <1>4, <2>3, <2>4 DEF Expire, TypeOK
<1>5. QED
  BY <1>1, <1>2, <1>3, <1>4

LEMMA RevokeType ==
  ASSUME TypeOK, NEW c \in Callers,
         (\E j \in Jtis : GetRecord(c, j)) \/ DeleteRecord(c)
  PROVE  TypeOK'
<1>1. CASE \E j \in Jtis : GetRecord(c, j)
  <2>1. PICK j \in Jtis : GetRecord(c, j)
    BY <1>1
  <2>2. [at |-> "del", jti |-> j, found |-> life[j] > 0] \in RevokeCall
    <3>1. (life[j] > 0) \in BOOLEAN
      OBVIOUS
    <3>2. QED
      BY <3>1 DEF RevokeCall
  <2>3. QED
    BY <2>1, <2>2, CallType DEF GetRecord, TypeOK
<1>2. CASE DeleteRecord(c)
  <2>1. call[c].jti \in Jtis
    BY <1>2, CallKinds DEF DeleteRecord
  <2>2. life' \in [Jtis -> 0 .. TokenTtl]
    BY <1>2, <2>1, TtlAssumption DEF DeleteRecord, TypeOK
  <2>3. revocations' \in [Jtis -> Nat]
    BY <1>2, <2>1 DEF DeleteRecord, TypeOK
  <2>4. [at |-> "srem", jti |-> call[c].jti] \in RevokeCall
    BY <2>1 DEF RevokeCall
  <2>5. call' \in [Callers -> {Idle} \union StoreCall \union RevokeCall \union RevokeAllCall]
    <3>1. CASE Revoked(c)
      BY <1>2, <2>4, <3>1, CallType DEF DeleteRecord
    <3>2. CASE ~Revoked(c)
      BY <1>2, <3>2, CallType DEF DeleteRecord
    <3>3. QED
      BY <3>1, <3>2
  <2>6. QED
    BY <1>2, <2>2, <2>3, <2>5 DEF DeleteRecord, TypeOK
<1>3. QED
  BY <1>1, <1>2

LEMMA RevokeAllType ==
  ASSUME TypeOK, NEW c \in Callers,
         (\E s \in Subjects : ReadIndex(c, s)) \/ DeleteListed(c) \/ DeleteIndex(c)
  PROVE  TypeOK'
<1>1. CASE \E s \in Subjects : ReadIndex(c, s)
  <2>1. PICK s \in Subjects : ReadIndex(c, s)
    BY <1>1
  <2>2. [at |-> "pipeline", sub |-> s, list |-> members[s]] \in RevokeAllCall
    BY DEF RevokeAllCall, TypeOK
  <2>3. excused' \subseteq Jtis
    BY <2>1 DEF ReadIndex, TypeOK, StoredNow
  <2>4. QED
    BY <2>1, <2>2, <2>3, CallType DEF ReadIndex, TypeOK
<1>2. CASE DeleteListed(c)
  <2>1. [call[c] EXCEPT !.at = "index"] \in RevokeAllCall
    BY <1>2, CallKinds DEF DeleteListed, RevokeAllCall
  <2>2. life' \in [Jtis -> 0 .. TokenTtl]
    BY <1>2, TtlAssumption DEF DeleteListed, TypeOK
  <2>3. QED
    BY <1>2, <2>1, <2>2, CallType DEF DeleteListed, TypeOK
<1>3. CASE DeleteIndex(c)
  <2>1. 0 \in NoExpiry .. FullTtl
    BY Ttls DEF NoExpiry
  <2>2. indexLife' \in [Subjects -> NoExpiry .. FullTtl] /\ members' \in [Subjects -> SUBSET Jtis]
    BY <1>3, <2>1 DEF DeleteIndex, TypeOK
  <2>3. QED
    BY <1>3, <2>2, CallType DEF DeleteIndex, TypeOK
<1>4. QED
  BY <1>1, <1>2, <1>3

LEMMA RemoveMemberType ==
  ASSUME TypeOK, NEW c \in Callers, RemoveMember(c)
  PROVE  TypeOK'
<1> DEFINE s == owner[call[c].jti]
           rest == members[s] \ {call[c].jti}
<1>1. members' = [members EXCEPT ![s] = rest]
      /\ indexLife' = [indexLife EXCEPT ![s] = IF rest = {} THEN 0 ELSE indexLife[s]]
  BY DEF RemoveMember
<1>2. 0 \in NoExpiry .. FullTtl
  BY Ttls DEF NoExpiry
<1>3. members' \in [Subjects -> SUBSET Jtis] /\ indexLife' \in [Subjects -> NoExpiry .. FullTtl]
  <2>1. CASE s \in Subjects
    <3>1. rest \in SUBSET Jtis
      BY <2>1 DEF TypeOK
    <3>2. (IF rest = {} THEN 0 ELSE indexLife[s]) \in NoExpiry .. FullTtl
      BY <1>2, <2>1 DEF TypeOK
    <3> HIDE DEF s, rest
    <3>3. QED
      BY <1>1, <3>1, <3>2 DEF TypeOK
  <2>2. CASE s \notin Subjects
    <3> HIDE DEF s, rest
    <3>1. QED
      BY <1>1, <2>2 DEF TypeOK
  <2>3. QED
    BY <2>1, <2>2
<1>4. QED
  BY <1>3, CallType DEF RemoveMember, TypeOK

LEMMA BreakOffType ==
  ASSUME TypeOK, NEW c \in Callers, BreakOff(c)
  PROVE  TypeOK'
<1>1. life' \in [Jtis -> 0 .. TokenTtl]
  <2>1. PICK done : life' = [j \in Jtis |-> IF j \in done THEN 0 ELSE life[j]]
    BY DEF BreakOff
  <2>2. QED
    BY <2>1, TtlAssumption DEF TypeOK
<1>2. excused' \subseteq Jtis
  BY DEF BreakOff, TypeOK, StoreCall
<1>3. faults' \in 0 .. MaxFaults
  BY TtlAssumption DEF BreakOff, TypeOK
<1>4. QED
  BY <1>1, <1>2, <1>3, CallType DEF BreakOff, TypeOK

LEMMA TickType ==
  ASSUME TypeOK, Tick
  PROVE  TypeOK'
<1>1. life' \in [Jtis -> 0 .. TokenTtl]
  <2>1. \A n \in 0 .. TokenTtl : (IF n > 0 THEN n - 1 ELSE 0) \in 0 .. TokenTtl
    BY TtlAssumption
  <2>2. QED
    BY <2>1 DEF Tick, TypeOK
<1>2. indexLife' \in [Subjects -> NoExpiry .. FullTtl]
  <2>1. \A n \in NoExpiry .. FullTtl : (IF n > 0 THEN n - 1 ELSE n) \in NoExpiry .. FullTtl
    BY Ttls DEF NoExpiry
  <2>2. QED
    BY <2>1 DEF Tick, TypeOK
<1>3. members' \in [Subjects -> SUBSET Jtis]
  BY DEF Tick, TypeOK
<1>4. excused' \subseteq Jtis
  BY DEF Tick, TypeOK, StoredNow
<1>5. QED
  BY <1>1, <1>2, <1>3, <1>4 DEF Tick, TypeOK

LEMMA NextType ==
  ASSUME TypeOK, [Next]_vars
  PROVE  TypeOK'
<1>1. CASE UNCHANGED vars
  BY <1>1 DEF vars, TypeOK
<1>2. QED
  BY <1>1, StoreType, RevokeType, RevokeAllType, RemoveMemberType, BreakOffType, TickType
     DEF Next, Continue

\* Every variable of the token store keeps its type: in particular no time to
\* live exceeds the longer of the two that are configured (addToSession()).
THEOREM TokenTypeCorrect == Spec => []TypeOK
<1>1. QED
  BY InitType, NextType, PTL DEF Spec

-----------------------------------------------------------------------------
(* One revocation of a token succeeds.                                     *)

\* A record belongs to somebody, and the one of a revoked token is gone for
\* good: its id is not stored again.
RevokeInv ==
  /\ TypeOK
  /\ \A j \in Jtis : life[j] > 0 => owner[j] # None
  /\ \A j \in Jtis : revocations[j] > 0 => life[j] = 0 /\ owner[j] # None
  /\ RevokedOnce

LEMMA InitRevoke == Init => RevokeInv
BY InitType DEF Init, RevokeInv, RevokedOnce

\* Steps that store nothing and revoke nothing.
LEMMA QuietRevoke ==
  ASSUME RevokeInv, TypeOK', owner' = owner, revocations' = revocations,
         \A j \in Jtis : life'[j] > 0 => life[j] > 0
  PROVE  RevokeInv'
<1>1. \A j \in Jtis : life[j] = 0 => life'[j] = 0
  BY DEF RevokeInv, TypeOK
<1>2. QED
  BY <1>1 DEF RevokeInv, RevokedOnce

LEMMA SetRecordRevoke ==
  ASSUME RevokeInv, TypeOK', NEW c \in Callers, NEW j \in Jtis, NEW s \in Subjects,
         SetRecord(c, j, s)
  PROVE  RevokeInv'
<1>1. \A k \in Jtis \ {j} : life'[k] = life[k] /\ owner'[k] = owner[k]
  BY DEF SetRecord, RevokeInv, TypeOK
<1>2. owner'[j] # None /\ revocations' = revocations
  BY TtlAssumption DEF SetRecord, RevokeInv, TypeOK
<1>3. ~(revocations[j] > 0)
  BY DEF SetRecord, RevokeInv
<1>4. QED
  BY <1>1, <1>2, <1>3 DEF RevokeInv, RevokedOnce

LEMMA DeleteRecordRevoke ==
  ASSUME RevokeInv, TypeOK', NEW c \in Callers, DeleteRecord(c)
  PROVE  RevokeInv'
<1> DEFINE j == call[c].jti
<1>1. j \in Jtis
  BY CallKinds DEF DeleteRecord, RevokeInv
<1>2. owner' = owner /\ life'[j] = 0 /\ \A k \in Jtis \ {j} : life'[k] = life[k]
  BY <1>1 DEF DeleteRecord, RevokeInv, TypeOK
<1>3. CASE Revoked(c)
  <2>1. life[j] > 0
    BY <1>3 DEF Revoked
  <2>2. revocations[j] = 0 /\ owner[j] # None
    BY <1>1, <2>1 DEF RevokeInv, TypeOK
  <2>3. revocations'[j] = 1 /\ \A k \in Jtis \ {j} : revocations'[k] = revocations[k]
    BY <1>1, <1>3, <2>2 DEF DeleteRecord, RevokeInv, TypeOK
  <2>4. QED
    BY <1>1, <1>2, <2>2, <2>3 DEF RevokeInv, RevokedOnce
<1>4. CASE ~Revoked(c)
  <2>1. revocations' = revocations
    BY <1>4 DEF DeleteRecord
  <2>2. QED
    BY <1>2, <2>1, QuietRevoke
<1>5. QED
  BY <1>3, <1>4

LEMMA NextRevoke ==
  ASSUME RevokeInv, [Next]_vars
  PROVE  RevokeInv'
<1>1. TypeOK'
  BY NextType DEF RevokeInv
<1>2. ASSUME NEW c \in Callers,
             \/ AddMember(c) \/ ReadTtl(c) \/ Expire(c) \/ RemoveMember(c) \/ DeleteIndex(c)
             \/ \E j \in Jtis : GetRecord(c, j)
             \/ \E s \in Subjects : ReadIndex(c, s)
      PROVE  RevokeInv'
  BY <1>1, <1>2, QuietRevoke
     DEF AddMember, ReadTtl, Expire, RemoveMember, DeleteIndex, GetRecord, ReadIndex
<1>3. ASSUME NEW c \in Callers, DeleteListed(c) \/ BreakOff(c)
      PROVE  RevokeInv'
  <2>1. \A j \in Jtis : life'[j] > 0 => life[j] > 0
    BY <1>3 DEF DeleteListed, BreakOff
  <2>2. QED
    BY <1>1, <1>3, <2>1, QuietRevoke DEF DeleteListed, BreakOff
<1>4. CASE Tick
  <2>1. \A j \in Jtis : life'[j] > 0 => life[j] > 0
    BY <1>4 DEF Tick
  <2>2. QED
    BY <1>1, <1>4, <2>1, QuietRevoke DEF Tick
<1>5. CASE UNCHANGED vars
  BY <1>1, <1>5, QuietRevoke DEF vars
<1>6. QED
  BY <1>1, <1>2, <1>3, <1>4, <1>5, SetRecordRevoke, DeleteRecordRevoke DEF Next, Continue

\* Of all the calls of revoke() for a token, whatever they interleave with, at
\* most one is told that it revoked it.
THEOREM TokensAreRevokedOnce == Spec => []RevokedOnce
<1>1. QED
  BY InitRevoke, NextRevoke, PTL DEF Spec, RevokeInv

-----------------------------------------------------------------------------
(* The index names the tokens.                                             *)

\* A token that revokeAllForSubject() has to find.
Counts(j) == life[j] > 0 /\ j \notin excused

\* What a call under way relies on when it goes on.
CallInv(c) ==
  /\ call[c] \in StoreCall => owner[call[c].jti] = call[c].sub
  /\ call[c].at \in {"ttl", "expire"} =>
       (Counts(call[c].jti) => call[c].jti \in members[call[c].sub])
  /\ call[c].at = "del" => owner[call[c].jti] # None
  /\ call[c].at = "srem" => owner[call[c].jti] # None /\ life[call[c].jti] = 0
  /\ call[c].at = "pipeline" =>
       \A j \in Jtis : owner[j] = call[c].sub /\ Counts(j) => j \in call[c].list
  /\ call[c].at = "index" =>
       \A j \in Jtis : owner[j] = call[c].sub => ~Counts(j)

IndexInv ==
  /\ TypeOK
  /\ \A j \in Jtis : life[j] > 0 => owner[j] # None
  /\ \A c \in Callers : CallInv(c)
  /\ IndexNamesTokens

LEMMA InitIndex == Init => IndexInv
BY InitType DEF Init, IndexInv, CallInv, IndexNamesTokens, Idle, StoreCall

\* A step that stores nothing, and takes no token that counts out of its set.
Calm ==
  /\ owner' = owner
  /\ \A j \in Jtis : life'[j] > 0 => life[j] > 0
  /\ excused \subseteq excused'
  /\ \A j \in Jtis : Counts(j)' /\ j \in members[owner[j]] => j \in members'[owner[j]]

LEMMA CalmCounts ==
  ASSUME Calm, NEW j \in Jtis, Counts(j)'
  PROVE  Counts(j)
BY DEF Calm, Counts

\* A caller that does not move keeps what it relies on.
LEMMA OthersKeep ==
  ASSUME IndexInv, TypeOK', Calm, NEW d \in Callers, call'[d] = call[d]
  PROVE  CallInv(d)'
<1>1. CallInv(d)
  BY DEF IndexInv
<1>2. owner' = owner /\ call'[d] = call[d]
  BY DEF Calm
<1>3. call[d] \in StoreCall => owner'[call'[d].jti] = call'[d].sub
  BY <1>1, <1>2 DEF CallInv
<1>4. ASSUME call[d].at \in {"ttl", "expire"}, Counts(call[d].jti)'
      PROVE  call[d].jti \in members'[call[d].sub]
  <2>1. call[d] \in StoreCall /\ call[d].jti \in Jtis
    BY <1>4, CallKinds DEF IndexInv, StoreCall
  <2>2. Counts(call[d].jti)
    BY <1>4, <2>1, CalmCounts
  <2>3. call[d].jti \in members[owner[call[d].jti]] /\ owner[call[d].jti] = call[d].sub
    BY <1>1, <1>4, <2>1, <2>2 DEF CallInv
  <2>4. QED
    BY <1>4, <2>1, <2>3 DEF Calm
<1>5. call[d].at = "del" => owner'[call'[d].jti] # None
  BY <1>1, <1>2 DEF CallInv
<1>6. call[d].at = "srem" => owner'[call'[d].jti] # None /\ life'[call'[d].jti] = 0
  <2>1. call[d].at = "srem" => call[d].jti \in Jtis
    BY CallKinds DEF IndexInv
  <2>2. QED
    BY <1>1, <1>2, <2>1 DEF CallInv, Calm, TypeOK
<1>7. call[d].at = "pipeline" =>
        \A j \in Jtis : owner[j] = call[d].sub /\ Counts(j)' => j \in call[d].list
  BY <1>1, CalmCounts DEF CallInv
<1>8. call[d].at = "index" => \A j \in Jtis : owner[j] = call[d].sub => ~Counts(j)'
  BY <1>1, CalmCounts DEF CallInv
<1>9. QED
  BY <1>2, <1>3, <1>4, <1>5, <1>6, <1>7, <1>8 DEF CallInv, Counts

\* A token whose store() was over stays in its set.
LEMMA StaysNamed ==
  ASSUME IndexInv, Calm, NEW j \in Jtis, Counts(j)', ~Storing(j)
  PROVE  /\ owner[j] \in Subjects
         /\ j \in members[owner[j]] /\ j \in members'[owner[j]]
         /\ indexLife[owner[j]] = NoExpiry \/ indexLife[owner[j]] >= life[j]
<1>1. Counts(j)
  BY CalmCounts
<1>2. QED
  BY <1>1 DEF IndexInv, IndexNamesTokens, TypeOK, Calm, Counts

\* Who goes on storing a token is still storing it.
LEMMA StoringKept ==
  ASSUME NEW c \in Callers, \A d \in Callers \ {c} : call'[d] = call[d],
         call[c] \in StoreCall => call'[c] \in StoreCall /\ call'[c].jti = call[c].jti
  PROVE  \A j \in Jtis : Storing(j) => Storing(j)'
BY DEF Storing

\* The names of the tokens in a calm step, when no store() ends and the times
\* left are right.
LEMMA NamesKept ==
  ASSUME IndexInv, Calm, \A j \in Jtis : Storing(j) => Storing(j)',
         \A j \in Jtis : Counts(j)' /\ j \in members[owner[j]]
                        /\ (indexLife[owner[j]] = NoExpiry \/ indexLife[owner[j]] >= life[j]) =>
           indexLife'[owner[j]] = NoExpiry \/ indexLife'[owner[j]] >= life'[j]
  PROVE  IndexNamesTokens'
<1>1. SUFFICES ASSUME NEW j \in Jtis, Counts(j)', ~Storing(j)'
               PROVE  /\ j \in members'[owner'[j]]
                      /\ indexLife'[owner'[j]] = NoExpiry \/ indexLife'[owner'[j]] >= life'[j]
  BY DEF IndexNamesTokens, Counts
<1>2. ~Storing(j)
  BY <1>1
<1>3. QED
  BY <1>1, <1>2, StaysNamed DEF Calm

\* What remains to be shown of a calm step of one caller.
LEMMA CalmStep ==
  ASSUME IndexInv, TypeOK', Calm, NEW c \in Callers,
         \A d \in Callers \ {c} : call'[d] = call[d], CallInv(c)', IndexNamesTokens'
  PROVE  IndexInv'
<1>1. \A d \in Callers : CallInv(d)'
  BY OthersKeep
<1>2. \A j \in Jtis : life'[j] > 0 => owner'[j] # None
  BY DEF Calm, IndexInv
<1>3. QED
  BY <1>1, <1>2 DEF IndexInv

LEMMA IdleCall ==
  ASSUME NEW c \in Callers, call'[c] = Idle
  PROVE  CallInv(c)'
BY DEF CallInv, Idle, StoreCall

LEMMA AddMemberIndex ==
  ASSUME IndexInv, TypeOK', NEW c \in Callers, AddMember(c)
  PROVE  IndexInv'
<1> DEFINE s == call[c].sub
           j == call[c].jti
<1>1. call[c] \in StoreCall /\ s \in Subjects /\ j \in Jtis /\ owner[j] = s
  BY CallKinds DEF AddMember, IndexInv, CallInv, StoreCall
<1>2. call'[c] \in StoreCall /\ call'[c].at = "ttl" /\ call'[c].sub = s /\ call'[c].jti = j
      /\ \A d \in Callers \ {c} : call'[d] = call[d]
  <2>1. call' = [call EXCEPT ![c] = [call[c] EXCEPT !.at = "ttl"]]
    BY DEF AddMember
  <2>2. QED
    BY <1>1, <2>1 DEF IndexInv, TypeOK, StoreCall
<1>3. /\ members'[s] = members[s] \union {j}
      /\ \A t \in Subjects \ {s} : members'[t] = members[t] /\ indexLife'[t] = indexLife[t]
      /\ indexLife'[s] = IF members[s] = {} THEN NoExpiry ELSE indexLife[s]
  BY <1>1 DEF AddMember, IndexInv, TypeOK
<1>4. UNCHANGED <<owner, life, excused>>
  BY DEF AddMember
<1>5. Calm
  <2>1. \A k \in Jtis : Counts(k)' => owner[k] \in Subjects
    BY <1>4 DEF Counts, IndexInv, TypeOK
  <2>2. QED
    BY <1>1, <1>3, <1>4, <2>1 DEF Calm
<1>6. CallInv(c)'
  BY <1>1, <1>2, <1>3, <1>4 DEF CallInv
<1>7. \A k \in Jtis : Counts(k)' /\ k \in members[owner[k]] =>
        indexLife'[owner[k]] = NoExpiry \/ indexLife'[owner[k]] = indexLife[owner[k]]
  <2>1. \A k \in Jtis : Counts(k)' => owner[k] \in Subjects
    BY <1>4 DEF Counts, IndexInv, TypeOK
  <2>2. indexLife'[s] = NoExpiry \/ indexLife'[s] = indexLife[s]
    BY <1>3
  <2>3. \A t \in Subjects : indexLife'[t] = NoExpiry \/ indexLife'[t] = indexLife[t]
    BY <1>3, <2>2
  <2>4. QED
    BY <2>1, <2>3
<1>8. IndexNamesTokens'
  BY <1>2, <1>4, <1>5, <1>7, StoringKept, NamesKept
<1>9. QED
  BY <1>2, <1>5, <1>6, <1>8, CalmStep

\* A store() that ends leaves its token named by a set that outlives it.
LEMMA StoreEnds ==
  ASSUME IndexInv, TypeOK', NEW c \in Callers, call[c].at \in {"ttl", "expire"},
         call' = [call EXCEPT ![c] = Idle], UNCHANGED <<owner, life, members, excused>>,
         \A t \in Subjects \ {call[c].sub} : indexLife'[t] = indexLife[t],
         members[call[c].sub] # {} => indexLife'[call[c].sub] >= TokenTtl
  PROVE  IndexInv'
<1> DEFINE s == call[c].sub
           j == call[c].jti
<1>1. call[c] \in StoreCall /\ s \in Subjects /\ j \in Jtis /\ owner[j] = s
      /\ (Counts(j) => j \in members[s])
  BY CallKinds DEF IndexInv, CallInv, StoreCall
<1>2. call'[c] = Idle /\ \A d \in Callers \ {c} : call'[d] = call[d]
  BY DEF IndexInv, TypeOK
<1>3. Calm
  BY DEF Calm
<1>4. \A k \in Jtis : life[k] \in 0 .. TokenTtl
  BY DEF IndexInv, TypeOK
<1>5. \A k \in Jtis : Counts(k) /\ owner[k] = s /\ k \in members[s] => indexLife'[s] >= life[k]
  <2>1. indexLife'[s] \in NoExpiry .. FullTtl
    BY <1>1 DEF TypeOK
  <2>2. members[s] # {} => indexLife'[s] >= TokenTtl
    OBVIOUS
  <2>3. SUFFICES ASSUME NEW k \in Jtis, k \in members[s]
                 PROVE  indexLife'[s] >= life[k]
    OBVIOUS
  <2>4. indexLife'[s] >= TokenTtl /\ life[k] <= TokenTtl /\ life[k] \in Int
    BY <1>4, <2>2, <2>3
  <2>5. QED
    BY <2>1, <2>4, TtlAssumption, Ttls DEF NoExpiry
<1>6. IndexNamesTokens'
  <2>1. SUFFICES ASSUME NEW k \in Jtis, Counts(k), ~Storing(k)'
                 PROVE  /\ k \in members[owner[k]]
                        /\ indexLife'[owner[k]] = NoExpiry \/ indexLife'[owner[k]] >= life[k]
    BY DEF IndexNamesTokens, Counts
  <2>2. CASE k = j
    BY <1>1, <1>5, <2>1, <2>2
  <2>3. CASE k # j
    <3>1. ~Storing(k)
      BY <1>2, <2>1, <2>3 DEF Storing
    <3>2. owner[k] \in Subjects /\ k \in members[owner[k]]
          /\ (indexLife[owner[k]] = NoExpiry \/ indexLife[owner[k]] >= life[k])
      BY <2>1, <3>1 DEF Counts, IndexInv, IndexNamesTokens, TypeOK
    <3>3. QED
      BY <1>5, <2>1, <3>2
  <2>4. QED
    BY <2>2, <2>3
<1>7. QED
  BY <1>2, <1>3, <1>6, IdleCall, CalmStep

LEMMA ReadTtlIndex ==
  ASSUME IndexInv, TypeOK', NEW c \in Callers, ReadTtl(c)
  PROVE  IndexInv'
<1>1. call[c] \in StoreCall /\ call[c].at = "ttl" /\ call[c].sub \in Subjects
  BY CallKinds DEF ReadTtl, IndexInv, StoreCall
<1>2. UNCHANGED <<owner, life, members, indexLife, excused>>
  BY DEF ReadTtl
<1>3. CASE TooShort(call[c].sub)
  <2>1. call' = [call EXCEPT ![c] = [call[c] EXCEPT !.at = "expire"]]
    BY <1>3 DEF ReadTtl
  <2>2. call'[c] \in StoreCall /\ call'[c].at = "expire" /\ call'[c].sub = call[c].sub
        /\ call'[c].jti = call[c].jti /\ \A d \in Callers \ {c} : call'[d] = call[d]
    BY <1>1, <2>1 DEF IndexInv, TypeOK, StoreCall
  <2>3. Calm
    BY <1>2 DEF Calm
  <2>4. CallInv(c)'
    BY <1>1, <1>2, <2>2 DEF IndexInv, CallInv, Counts
  <2>5. IndexNamesTokens'
    BY <1>2, <2>2, <2>3, StoringKept, NamesKept
  <2>6. QED
    BY <2>2, <2>3, <2>4, <2>5, CalmStep
<1>4. CASE ~TooShort(call[c].sub)
  <2>1. call' = [call EXCEPT ![c] = Idle]
    BY <1>4 DEF ReadTtl
  <2>2. indexLife[call[c].sub] \in NoExpiry .. FullTtl
    BY <1>1 DEF IndexInv, TypeOK
  <2>3. indexLife[call[c].sub] >= TokenTtl
    BY <1>4, <2>2, Ttls, TtlAssumption DEF TooShort, NoExpiry
  <2>4. QED
    BY <1>1, <1>2, <2>1, <2>3, StoreEnds
<1>5. QED
  BY <1>3, <1>4

LEMMA ExpireIndex ==
  ASSUME IndexInv, TypeOK', NEW c \in Callers, Expire(c)
  PROVE  IndexInv'
<1>1. call[c].sub \in Subjects
  BY CallKinds DEF Expire, IndexInv, StoreCall
<1>2. /\ \A t \in Subjects \ {call[c].sub} : indexLife'[t] = indexLife[t]
      /\ members[call[c].sub] # {} => indexLife'[call[c].sub] = FullTtl
  BY <1>1 DEF Expire, ExtendedTtl, IndexInv, TypeOK
<1>3. QED
  BY <1>2, Ttls, StoreEnds DEF Expire

\* A step of a caller that is not storing, which leaves the sets alone.
LEMMA SetsAlone ==
  ASSUME IndexInv, TypeOK', NEW c \in Callers, call[c] \notin StoreCall, NEW x,
         call' = [call EXCEPT ![c] = x], CallInv(c)',
         UNCHANGED <<owner, members, indexLife>>, excused \subseteq excused',
         \A j \in Jtis : life'[j] \in {0, life[j]}
  PROVE  IndexInv'
<1>1. \A d \in Callers \ {c} : call'[d] = call[d]
  BY DEF IndexInv, TypeOK
<1>2. Calm
  BY DEF Calm
<1>3. \A j \in Jtis : life[j] >= life'[j] /\ life[j] \in Int /\ life'[j] \in Int
  BY TtlAssumption DEF IndexInv, TypeOK
<1>4. \A j \in Jtis : Counts(j)' => owner[j] \in Subjects
  BY <1>2, CalmCounts DEF Counts, IndexInv, TypeOK
<1>5. \A t \in Subjects : indexLife[t] \in Int
  BY DEF IndexInv, TypeOK
<1>6. \A j \in Jtis : Counts(j)' /\ indexLife[owner[j]] >= life[j] => indexLife[owner[j]] >= life'[j]
  BY <1>3, <1>4, <1>5
<1>7. IndexNamesTokens'
  BY <1>1, <1>2, <1>6, StoringKept, NamesKept
<1>8. QED
  BY <1>1, <1>2, <1>7, CalmStep

LEMMA GetRecordIndex ==
  ASSUME IndexInv, TypeOK', NEW c \in Callers, NEW j \in Jtis, GetRecord(c, j)
  PROVE  IndexInv'
<1>1. call'[c] = [at |-> "del", jti |-> j, found |-> life[j] > 0]
  BY DEF GetRecord, IndexInv, TypeOK
<1>2. call[c] \notin StoreCall
  BY DEF GetRecord, Idle, StoreCall
<1>3. CallInv(c)'
  BY <1>1 DEF GetRecord, CallInv, StoreCall
<1>4. QED
  BY <1>2, <1>3, SetsAlone DEF GetRecord

LEMMA DeleteRecordIndex ==
  ASSUME IndexInv, TypeOK', NEW c \in Callers, DeleteRecord(c)
  PROVE  IndexInv'
<1> DEFINE j == call[c].jti
<1>1. j \in Jtis /\ call[c] \notin StoreCall /\ owner[j] # None
  BY CallKinds DEF DeleteRecord, IndexInv, CallInv
<1>2. life'[j] = 0 /\ \A k \in Jtis : life'[k] \in {0, life[k]}
  BY <1>1 DEF DeleteRecord, IndexInv, TypeOK
<1>3. PICK x : call' = [call EXCEPT ![c] = x] /\ (x = Idle \/ x = [at |-> "srem", jti |-> j])
  BY DEF DeleteRecord
<1>4. call'[c] = x
  BY <1>3 DEF IndexInv, TypeOK
<1>5. CallInv(c)'
  <2>1. CASE x = Idle
    BY <1>4, <2>1, IdleCall
  <2>2. CASE x = [at |-> "srem", jti |-> j]
    BY <1>1, <1>2, <1>4, <2>2 DEF DeleteRecord, CallInv, StoreCall
  <2>3. QED
    BY <1>3, <2>1, <2>2
<1>6. QED
  BY <1>1, <1>2, <1>3, <1>5, SetsAlone DEF DeleteRecord

\* SREM takes a token without a record out of the set.
LEMMA RemoveMemberIndex ==
  ASSUME IndexInv, TypeOK', NEW c \in Callers, RemoveMember(c)
  PROVE  IndexInv'
<1> DEFINE j == call[c].jti
           s == owner[j]
<1>1. j \in Jtis /\ s \in Subjects /\ life[j] = 0 /\ call[c] \notin StoreCall
  BY CallKinds DEF RemoveMember, IndexInv, CallInv, TypeOK
<1>2. UNCHANGED <<owner, life, excused>> /\ call' = [call EXCEPT ![c] = Idle]
  BY DEF RemoveMember
<1>3. call'[c] = Idle /\ \A d \in Callers \ {c} : call'[d] = call[d]
  BY <1>2 DEF IndexInv, TypeOK
<1>4. /\ members'[s] = members[s] \ {j}
      /\ indexLife'[s] = IF members[s] \ {j} = {} THEN 0 ELSE indexLife[s]
      /\ \A t \in Subjects \ {s} : members'[t] = members[t] /\ indexLife'[t] = indexLife[t]
  BY <1>1 DEF RemoveMember, IndexInv, TypeOK
<1>5. \A k \in Jtis : Counts(k) => k # j /\ owner[k] \in Subjects
  BY <1>1 DEF Counts, IndexInv, TypeOK
<1>6. Calm
  BY <1>2, <1>4, <1>5 DEF Calm, Counts
<1>7. \A k \in Jtis : Counts(k) /\ k \in members[owner[k]] => indexLife'[owner[k]] = indexLife[owner[k]]
  <2>1. SUFFICES ASSUME NEW k \in Jtis, Counts(k), k \in members[owner[k]]
                 PROVE  indexLife'[owner[k]] = indexLife[owner[k]]
    OBVIOUS
  <2>2. CASE owner[k] = s
    <3>1. members[s] \ {j} # {}
      BY <1>5, <2>1, <2>2
    <3>2. QED
      BY <1>4, <2>2, <3>1
  <2>3. CASE owner[k] # s
    BY <1>4, <1>5, <2>1, <2>3
  <2>4. QED
    BY <2>2, <2>3
<1>8. \A k \in Jtis : Counts(k)' => Counts(k)
  BY <1>6, CalmCounts
<1>9. \A k \in Jtis : Storing(k) => Storing(k)'
  BY <1>1, <1>3, StoringKept
<1>10. IndexNamesTokens'
  BY <1>2, <1>6, <1>7, <1>8, <1>9, NamesKept
<1>11. QED
  BY <1>3, <1>6, <1>10, IdleCall, CalmStep

\* What SMEMBERS lists is every token that counts, except those being stored.
LEMMA ReadIndexIndex ==
  ASSUME IndexInv, TypeOK', NEW c \in Callers, NEW s \in Subjects, ReadIndex(c, s)
  PROVE  IndexInv'
<1>1. call[c] \notin StoreCall /\ call[c] = Idle
  BY DEF ReadIndex, Idle, StoreCall
<1>2. call'[c] = [at |-> "pipeline", sub |-> s, list |-> members[s]]
  BY DEF ReadIndex, IndexInv, TypeOK
<1>3. UNCHANGED <<owner, life, members, indexLife>> /\ excused' = excused \union StoredNow(s)
  BY DEF ReadIndex
<1>4. \A j \in Jtis : owner[j] = s /\ Counts(j)' => j \in members[s]
  <2>1. SUFFICES ASSUME NEW j \in Jtis, owner[j] = s, Counts(j)'
                 PROVE  j \in members[s]
    OBVIOUS
  <2>2. Counts(j) /\ ~Storing(j)
    BY <1>3, <2>1 DEF Counts, StoredNow
  <2>3. QED
    BY <2>1, <2>2 DEF Counts, IndexInv, IndexNamesTokens
<1>5. CallInv(c)'
  BY <1>2, <1>3, <1>4 DEF CallInv, StoreCall
<1>6. QED
  BY <1>1, <1>3, <1>5, SetsAlone DEF ReadIndex

LEMMA DeleteListedIndex ==
  ASSUME IndexInv, TypeOK', NEW c \in Callers, DeleteListed(c)
  PROVE  IndexInv'
<1>1. call[c] \in RevokeAllCall /\ call[c] \notin StoreCall
  BY CallKinds DEF DeleteListed, IndexInv
<1>2. call' = [call EXCEPT ![c] = [call[c] EXCEPT !.at = "index"]]
      /\ life' = [j \in Jtis |-> IF j \in call[c].list THEN 0 ELSE life[j]]
      /\ UNCHANGED <<owner, members, indexLife, excused>>
  BY DEF DeleteListed
<1>3. call'[c].at = "index" /\ call'[c].sub = call[c].sub /\ call'[c] \notin StoreCall
  BY <1>1, <1>2 DEF IndexInv, TypeOK, RevokeAllCall, StoreCall
<1>4. \A j \in Jtis : owner[j] = call[c].sub => ~Counts(j)'
  BY <1>2 DEF DeleteListed, IndexInv, CallInv, Counts
<1>5. CallInv(c)'
  BY <1>2, <1>3, <1>4 DEF CallInv
<1>6. \A j \in Jtis : life'[j] \in {0, life[j]}
  BY <1>2
<1>7. QED
  BY <1>1, <1>2, <1>5, <1>6, SetsAlone

\* When the set is deleted, no token of the subject counts any more.
LEMMA DeleteIndexIndex ==
  ASSUME IndexInv, TypeOK', NEW c \in Callers, DeleteIndex(c)
  PROVE  IndexInv'
<1> DEFINE s == call[c].sub
<1>1. s \in Subjects /\ call[c] \notin StoreCall
  BY CallKinds DEF DeleteIndex, IndexInv, RevokeAllCall
<1>2. UNCHANGED <<owner, life, excused>> /\ call' = [call EXCEPT ![c] = Idle]
  BY DEF DeleteIndex
<1>3. call'[c] = Idle /\ \A d \in Callers \ {c} : call'[d] = call[d]
  BY <1>2 DEF IndexInv, TypeOK
<1>4. \A t \in Subjects \ {s} : members'[t] = members[t] /\ indexLife'[t] = indexLife[t]
  BY DEF DeleteIndex, IndexInv, TypeOK
<1>5. \A j \in Jtis : Counts(j) => owner[j] \in Subjects \ {s}
  BY DEF DeleteIndex, IndexInv, CallInv, TypeOK, Counts
<1>6. Calm
  BY <1>2, <1>4, <1>5 DEF Calm, Counts
<1>7. \A j \in Jtis : Counts(j)' => Counts(j)
  BY <1>6, CalmCounts
<1>8. \A k \in Jtis : Storing(k) => Storing(k)'
  BY <1>1, <1>3, StoringKept
<1>9. IndexNamesTokens'
  BY <1>2, <1>4, <1>5, <1>6, <1>7, <1>8, NamesKept
<1>10. QED
  BY <1>3, <1>6, <1>9, IdleCall, CalmStep

\* A store() that breaks off excuses its token.
LEMMA BreakOffIndex ==
  ASSUME IndexInv, TypeOK', NEW c \in Callers, BreakOff(c)
  PROVE  IndexInv'
<1>1. call'[c] = Idle /\ call' = [call EXCEPT ![c] = Idle]
      /\ UNCHANGED <<owner, members, indexLife>>
  BY DEF BreakOff, IndexInv, TypeOK
<1>2. \A j \in Jtis : life'[j] \in {0, life[j]}
  BY DEF BreakOff
<1>3. excused \subseteq excused'
  BY DEF BreakOff
<1>4. CallInv(c)'
  BY <1>1, IdleCall
<1>5. CASE call[c] \notin StoreCall
  BY <1>1, <1>2, <1>3, <1>4, <1>5, SetsAlone
<1>6. CASE call[c] \in StoreCall
  <2>1. excused' = excused \union {call[c].jti} /\ life' = [j \in Jtis |-> life[j]]
    BY <1>6 DEF BreakOff, StoreCall
  <2>2. \A d \in Callers \ {c} : call'[d] = call[d]
    BY <1>1 DEF IndexInv, TypeOK
  <2>3. Calm
    BY <1>1, <1>2, <1>3 DEF Calm
  <2>4. IndexNamesTokens'
    <3>1. SUFFICES ASSUME NEW j \in Jtis, Counts(j)', ~Storing(j)'
                   PROVE  /\ j \in members[owner[j]]
                          /\ indexLife[owner[j]] = NoExpiry \/ indexLife[owner[j]] >= life'[j]
      BY <1>1 DEF IndexNamesTokens, Counts
    <3>2. j # call[c].jti
      BY <2>1, <3>1 DEF Counts
    <3>3. ~Storing(j)
      BY <2>2, <3>1, <3>2 DEF Storing
    <3>4. life'[j] = life[j]
      BY <2>1
    <3>5. QED
      BY <2>3, <3>1, <3>3, <3>4, StaysNamed
  <2>5. QED
    BY <1>4, <2>2, <2>3, <2>4, CalmStep
<1>7. QED
  BY <1>5, <1>6

\* A new token is still being stored.
LEMMA SetRecordIndex ==
  ASSUME IndexInv, TypeOK', NEW c \in Callers, NEW j \in Jtis, NEW s \in Subjects,
         SetRecord(c, j, s)
  PROVE  IndexInv'
<1>1. /\ call'[c] = [at |-> "sadd", sub |-> s, jti |-> j]
      /\ \A d \in Callers \ {c} : call'[d] = call[d]
  BY DEF SetRecord, IndexInv, TypeOK
<1>2. /\ owner[j] = None /\ owner'[j] = s
      /\ \A k \in Jtis \ {j} : owner'[k] = owner[k] /\ life'[k] = life[k]
      /\ UNCHANGED <<members, indexLife>>
  BY DEF SetRecord, IndexInv, TypeOK
<1>3. /\ excused \subseteq excused' /\ excused' \subseteq excused \union {j}
      /\ RevokingAll(s) => j \in excused'
  BY DEF SetRecord
<1>4. \A k \in Jtis \ {j} : Counts(k)' => Counts(k)
  BY <1>2, <1>3 DEF Counts
<1>5. ASSUME NEW d \in Callers
      PROVE  CallInv(d)'
  <2>1. CASE d = c
    BY <1>1, <1>2, <2>1 DEF CallInv, StoreCall
  <2>2. CASE d # c
    <3>1. call'[d] = call[d] /\ CallInv(d)
      BY <1>1, <2>2 DEF IndexInv
    <3>2. call[d] \in StoreCall => call[d].jti \in Jtis \ {j} /\ call[d].sub \in Subjects
      BY <1>2, <3>1, TtlAssumption DEF CallInv, StoreCall
    <3>3. call[d].at \in {"ttl", "expire"} => call[d] \in StoreCall
      BY CallKinds DEF IndexInv
    <3>4. call[d].at \in {"del", "srem"} => call[d].jti \in Jtis \ {j}
      BY <1>2, <3>1, CallKinds DEF CallInv, IndexInv
    <3>5. call[d].at \in {"pipeline", "index"} /\ call[d].sub = s => j \in excused'
      BY <1>3, CallKinds DEF RevokingAll, IndexInv
    <3>6. call[d].at = "pipeline" =>
            \A k \in Jtis : owner'[k] = call[d].sub /\ Counts(k)' => k \in call[d].list
      BY <1>2, <1>4, <3>1, <3>5 DEF CallInv, Counts
    <3>7. call[d].at = "index" => \A k \in Jtis : owner'[k] = call[d].sub => ~Counts(k)'
      BY <1>2, <1>4, <3>1, <3>5 DEF CallInv, Counts
    <3>8. call[d].at \in {"ttl", "expire"} /\ Counts(call[d].jti)' => call[d].jti \in members'[call[d].sub]
      BY <1>2, <1>4, <3>1, <3>2, <3>3 DEF CallInv
    <3>9. QED
      BY <1>2, <3>1, <3>2, <3>4, <3>6, <3>7, <3>8 DEF CallInv
  <2>3. QED
    BY <2>1, <2>2
<1>6. IndexNamesTokens'
  <2>1. SUFFICES ASSUME NEW k \in Jtis, Counts(k)', ~Storing(k)'
                 PROVE  /\ k \in members[owner'[k]]
                        /\ indexLife[owner'[k]] = NoExpiry \/ indexLife[owner'[k]] >= life'[k]
    BY <1>2 DEF IndexNamesTokens, Counts
  <2>2. Storing(j)'
    BY <1>1 DEF Storing, StoreCall
  <2>3. k # j /\ Counts(k) /\ ~Storing(k)
    <3>1. k # j
      BY <2>1, <2>2
    <3>2. call[c] \notin StoreCall
      BY DEF SetRecord, Idle, StoreCall
    <3>3. QED
      BY <1>1, <1>4, <2>1, <3>1, <3>2, StoringKept
  <2>4. QED
    BY <1>2, <2>3 DEF IndexInv, IndexNamesTokens, Counts
<1>7. \A k \in Jtis : life'[k] > 0 => owner'[k] # None
  BY <1>2, TtlAssumption DEF IndexInv
<1>8. QED
  BY <1>5, <1>6, <1>7 DEF IndexInv

\* A set that expires takes no token along that has time left.
LEMMA TickIndex ==
  ASSUME IndexInv, TypeOK', Tick
  PROVE  IndexInv'
<1>1. UNCHANGED <<owner, call>> /\ excused \subseteq excused'
  BY DEF Tick
<1>2. \A j \in Jtis : life'[j] = (IF life[j] > 0 THEN life[j] - 1 ELSE 0) /\ life[j] \in 0 .. TokenTtl
  BY DEF Tick, IndexInv, TypeOK
<1>3. \A t \in Subjects : /\ indexLife'[t] = IF indexLife[t] > 0 THEN indexLife[t] - 1 ELSE indexLife[t]
                          /\ members'[t] = IF indexLife[t] = 1 THEN {} ELSE members[t]
                          /\ indexLife[t] \in NoExpiry .. FullTtl
  BY DEF Tick, IndexInv, TypeOK
<1>4. \A j \in Jtis : Counts(j) => owner[j] \in Subjects
  BY DEF Counts, IndexInv, TypeOK
<1>5. \A j \in Jtis : life'[j] > 0 => life[j] > 1 /\ life[j] > 0
  BY <1>2, TtlAssumption
<1>6. \A j \in Jtis : Counts(j)' => Counts(j)
  BY <1>1, <1>5 DEF Counts
<1>7. \A j \in Jtis : Counts(j)' => indexLife[owner[j]] # 1
  <2>1. SUFFICES ASSUME NEW j \in Jtis, Counts(j)', indexLife[owner[j]] = 1
                 PROVE  FALSE
    OBVIOUS
  <2>2. CASE Storing(j)
    <3>1. j \in StoredNow(owner[j]) /\ owner[j] \in Subjects
      BY <1>4, <1>6, <2>1, <2>2 DEF StoredNow
    <3>2. j \in excused'
      BY <2>1, <3>1 DEF Tick
    <3>3. QED
      BY <2>1, <3>2 DEF Counts
  <2>3. CASE ~Storing(j)
    <3>1. indexLife[owner[j]] = NoExpiry \/ indexLife[owner[j]] >= life[j]
      BY <1>6, <2>1, <2>3 DEF Counts, IndexInv, IndexNamesTokens
    <3>2. life[j] > 1 /\ life[j] \in Int
      BY <1>2, <1>5, <2>1 DEF Counts
    <3>3. QED
      BY <2>1, <3>1, <3>2 DEF NoExpiry
  <2>4. QED
    BY <2>2, <2>3
<1>8. Calm
  <2>1. \A j \in Jtis : life'[j] > 0 => life[j] > 0
    BY <1>2
  <2>2. QED
    BY <1>1, <1>3, <1>4, <1>6, <1>7, <2>1 DEF Calm
<1>9. \A j \in Jtis : Storing(j) => Storing(j)'
  BY <1>1 DEF Storing
<1>10. ASSUME NEW j \in Jtis, Counts(j)',
              indexLife[owner[j]] = NoExpiry \/ indexLife[owner[j]] >= life[j]
       PROVE  indexLife'[owner[j]] = NoExpiry \/ indexLife'[owner[j]] >= life'[j]
  <2>1. owner[j] \in Subjects /\ life[j] > 1
    BY <1>4, <1>5, <1>6, <1>10 DEF Counts
  <2>2. life'[j] = life[j] - 1 /\ life[j] \in Int
    BY <1>2, <2>1
  <2>3. CASE indexLife[owner[j]] = NoExpiry
    BY <1>3, <2>1, <2>3 DEF NoExpiry
  <2>4. CASE indexLife[owner[j]] >= life[j]
    <3>1. indexLife[owner[j]] \in Int /\ indexLife[owner[j]] > 0
      BY <1>3, <2>1, <2>2, <2>4 DEF NoExpiry
    <3>2. indexLife'[owner[j]] = indexLife[owner[j]] - 1
      BY <1>3, <2>1, <3>1
    <3>3. QED
      BY <2>2, <2>4, <3>1, <3>2
  <2>5. QED
    BY <1>10, <2>3, <2>4
<1>11. IndexNamesTokens'
  BY <1>8, <1>9, <1>10, NamesKept
<1>12. \A c \in Callers : CallInv(c)'
  BY <1>1, <1>8, OthersKeep
<1>13. QED
  BY <1>1, <1>8, <1>11, <1>12 DEF IndexInv, Calm

LEMMA NextIndex ==
  ASSUME IndexInv, [Next]_vars
  PROVE  IndexInv'
<1>1. TypeOK'
  BY NextType DEF IndexInv
<1>2. CASE UNCHANGED vars
  <2>1. Calm
    BY <1>2 DEF vars, Calm, Counts
  <2>2. \A c \in Callers : CallInv(c)'
    BY <1>1, <1>2, <2>1, OthersKeep DEF vars
  <2>3. IndexNamesTokens'
    BY <1>2 DEF vars, IndexInv, IndexNamesTokens, Storing
  <2>4. QED
    BY <1>1, <1>2, <2>2, <2>3 DEF vars, IndexInv
<1>3. QED
  BY <1>1, <1>2, SetRecordIndex, AddMemberIndex, ReadTtlIndex, ExpireIndex, GetRecordIndex,
     DeleteRecordIndex, RemoveMemberIndex, ReadIndexIndex, DeleteListedIndex, DeleteIndexIndex,
     BreakOffIndex, TickIndex
     DEF Next, Continue

\* revokeAllForSubject() can find every token: one whose store() is over is in
\* its subject's set, and the set outlives it, unless its store() broke off or
\* overlapped a revokeAllForSubject() or the end of the set.
THEOREM IndexIsComplete == Spec => []IndexNamesTokens
<1>1. QED
  BY InitIndex, NextIndex, PTL DEF Spec, IndexInv

\* revokeAllForSubject() leaves no live token of the subject behind: when the
\* records it listed are deleted, the ones that remain are of stores that broke
\* off or overlapped a revokeAllForSubject() or the end of the set.
THEOREM LogoutIsComplete == Spec => []LogoutReaches
<1>1. IndexInv => LogoutReaches
  BY DEF IndexInv, CallInv, Counts, LogoutReaches
<1>2. QED
  BY <1>1, InitIndex, NextIndex, PTL DEF Spec
-----------------------------------------------------------------------------
(* Sets without a time to live.                                            *)

\* A store() that will read, or extend, the time to live of the set.
Attends(c, s) == call[c].at \in {"ttl", "expire"} /\ call[c].sub = s

\* A set that does not expire is about to get a time to live, unless a call
\* broke off: the safety that ExpiryIsSet rests on.
SetsAreAttended ==
  \A s \in Subjects :
    indexLife[s] = NoExpiry /\ faults = 0 => \E c \in Callers : Attends(c, s)

\* The inductive invariant: EXPIRE finds the set, or there is none.
ExpiryInv ==
  /\ TypeOK
  /\ \A s \in Subjects : members[s] = {} => indexLife[s] = 0
  /\ SetsAreAttended

LEMMA InitExpiry == Init => ExpiryInv
BY InitType DEF Init, ExpiryInv, SetsAreAttended, NoExpiry

\* A step of one caller that leaves the sets alone and does not end its
\* attendance.
LEMMA SetsKept ==
  ASSUME ExpiryInv, TypeOK', UNCHANGED <<members, indexLife>>, NEW c \in Callers,
         \A d \in Callers \ {c} : call'[d] = call[d],
         \A s \in Subjects : Attends(c, s) => faults' # 0 \/ Attends(c, s)',
         faults' = 0 => faults = 0
  PROVE  ExpiryInv'
<1>1. ASSUME NEW s \in Subjects, indexLife'[s] = NoExpiry, faults' = 0
      PROVE  \E d \in Callers : Attends(d, s)'
  <2>1. PICK d \in Callers : Attends(d, s)
    BY <1>1 DEF ExpiryInv, SetsAreAttended
  <2>2. Attends(d, s)'
    BY <1>1, <2>1 DEF Attends
  <2>3. QED
    BY <2>2
<1>2. QED
  BY <1>1 DEF ExpiryInv, SetsAreAttended

\* A step of one caller that changes the set of one subject: it gives the set
\* a time to live, removes it, attends to it, or takes a member out.
LEMMA SetChanged ==
  ASSUME ExpiryInv, TypeOK', faults' = faults, NEW c \in Callers, NEW r \in Subjects,
         \A d \in Callers \ {c} : call'[d] = call[d],
         \A s \in Subjects \ {r} :
           /\ members'[s] = members[s] /\ indexLife'[s] = indexLife[s]
           /\ ~Attends(c, s),
         members'[r] = {} => indexLife'[r] = 0,
         indexLife'[r] = NoExpiry => Attends(c, r)' \/ (indexLife[r] = NoExpiry /\ ~Attends(c, r))
  PROVE  ExpiryInv'
<1>1. ASSUME NEW s \in Subjects, indexLife'[s] = NoExpiry, faults' = 0
      PROVE  \E d \in Callers : Attends(d, s)'
  <2>1. CASE Attends(c, s)'
    BY <2>1
  <2>2. CASE indexLife[s] = NoExpiry /\ ~Attends(c, s)
    <3>1. PICK d \in Callers : Attends(d, s)
      BY <1>1, <2>2 DEF ExpiryInv, SetsAreAttended
    <3>2. d # c /\ call'[d] = call[d]
      BY <2>2, <3>1
    <3>3. Attends(d, s)'
      BY <3>1, <3>2 DEF Attends
    <3>4. QED
      BY <3>3
  <2>3. QED
    BY <1>1, <2>1, <2>2
<1>2. \A s \in Subjects : members'[s] = {} => indexLife'[s] = 0
  BY DEF ExpiryInv
<1>3. QED
  BY <1>1, <1>2 DEF ExpiryInv, SetsAreAttended

LEMMA AddMemberExpiry ==
  ASSUME ExpiryInv, TypeOK', NEW c \in Callers, AddMember(c)
  PROVE  ExpiryInv'
<1>1. PICK r \in Subjects : TypeOK /\ call[c] \in StoreCall /\ call[c].sub = r
  BY CallKinds DEF AddMember, ExpiryInv, StoreCall
<1>2. call'[c] = [call[c] EXCEPT !.at = "ttl"]
  BY <1>1 DEF AddMember, TypeOK
<1>3. Attends(c, r)'
  BY <1>1, <1>2 DEF Attends, StoreCall
<1>4. members'[r] # {}
  BY <1>1 DEF AddMember, TypeOK
<1>5. \A s \in Subjects \ {r} : /\ members'[s] = members[s] /\ indexLife'[s] = indexLife[s]
                                /\ ~Attends(c, s)
  BY <1>1 DEF AddMember, TypeOK, Attends
<1>6. \A d \in Callers \ {c} : call'[d] = call[d]
  BY <1>1 DEF AddMember, TypeOK
<1>7. faults' = faults
  BY DEF AddMember
<1>8. QED
  BY <1>1, <1>3, <1>4, <1>5, <1>6, <1>7, SetChanged

\* A set that does not expire has too little time to live: -1 is less.
LEMMA ReadTtlExpiry ==
  ASSUME ExpiryInv, TypeOK', NEW c \in Callers, ReadTtl(c)
  PROVE  ExpiryInv'
<1>1. PICK r \in Subjects : TypeOK /\ call[c] \in StoreCall /\ call[c].sub = r
  BY CallKinds DEF ReadTtl, ExpiryInv, StoreCall
<1>2. /\ faults' = faults /\ members' = members /\ indexLife' = indexLife
      /\ \A d \in Callers \ {c} : call'[d] = call[d]
  BY <1>1 DEF ReadTtl, TypeOK
<1>3. CASE TooShort(r)
  <2>1. call'[c] = [call[c] EXCEPT !.at = "expire"]
    BY <1>1, <1>3 DEF ReadTtl, TypeOK
  <2>2. \A s \in Subjects : Attends(c, s) => Attends(c, s)'
    BY <1>1, <2>1 DEF Attends, StoreCall
  <2>3. QED
    BY <1>2, <2>2, SetsKept
<1>4. CASE ~TooShort(r)
  <2>1. NoExpiry < TokenTtl
    BY TtlAssumption DEF NoExpiry
  <2>2. indexLife[r] # NoExpiry
    BY <1>4, <2>1 DEF TooShort
  <2>3. \A s \in Subjects \ {r} : ~Attends(c, s)
    BY <1>1 DEF Attends
  <2>4. members'[r] = {} => indexLife'[r] = 0
    BY <1>2 DEF ExpiryInv
  <2>5. QED
    BY <1>1, <1>2, <2>2, <2>3, <2>4, SetChanged
<1>5. QED
  BY <1>3, <1>4

LEMMA ExpireExpiry ==
  ASSUME ExpiryInv, TypeOK', NEW c \in Callers, Expire(c)
  PROVE  ExpiryInv'
<1>1. PICK r \in Subjects : TypeOK /\ call[c] \in StoreCall /\ call[c].sub = r
  BY CallKinds DEF Expire, ExpiryInv, StoreCall
<1>2. indexLife'[r] = ExtendedTtl(r) /\ members'[r] = members[r] /\ faults' = faults
  BY <1>1 DEF Expire, TypeOK
<1>3. members[r] = {} => indexLife[r] = 0
  BY <1>1 DEF ExpiryInv
<1>4. (members'[r] = {} => indexLife'[r] = 0) /\ indexLife'[r] # NoExpiry
  BY <1>2, <1>3, Ttls DEF ExtendedTtl, NoExpiry
<1>5. \A s \in Subjects \ {r} : /\ members'[s] = members[s] /\ indexLife'[s] = indexLife[s]
                                /\ ~Attends(c, s)
  BY <1>1 DEF Expire, TypeOK, Attends
<1>6. \A d \in Callers \ {c} : call'[d] = call[d]
  BY <1>1 DEF Expire, TypeOK
<1>7. QED
  BY <1>1, <1>2, <1>4, <1>5, <1>6, SetChanged

\* SREM may empty the set, which ends it.
LEMMA RemoveMemberExpiry ==
  ASSUME ExpiryInv, TypeOK', NEW c \in Callers, RemoveMember(c),
         owner[call[c].jti] \in Subjects
  PROVE  ExpiryInv'
<1>1. PICK r \in Subjects : r = owner[call[c].jti]
  OBVIOUS
<1>2. TypeOK /\ call[c].at = "srem" /\ faults' = faults
  BY DEF RemoveMember, ExpiryInv
<1> DEFINE rest == members[r] \ {call[c].jti}
<1>3. members'[r] = rest /\ indexLife'[r] = IF rest = {} THEN 0 ELSE indexLife[r]
  BY <1>1, <1>2 DEF RemoveMember, TypeOK
<1>4. \A s \in Subjects \ {r} : members'[s] = members[s] /\ indexLife'[s] = indexLife[s]
  BY <1>1, <1>2 DEF RemoveMember, TypeOK
<1>5. \A s \in Subjects : ~Attends(c, s)
  BY <1>2 DEF Attends
<1>6. \A d \in Callers \ {c} : call'[d] = call[d]
  BY <1>1, <1>2 DEF RemoveMember, TypeOK
<1>7. (members'[r] = {} => indexLife'[r] = 0)
      /\ (indexLife'[r] = NoExpiry => indexLife[r] = NoExpiry)
  BY <1>3 DEF NoExpiry
<1> HIDE DEF rest
<1>8. QED
  BY <1>2, <1>4, <1>5, <1>6, <1>7, SetChanged

LEMMA DeleteIndexExpiry ==
  ASSUME ExpiryInv, TypeOK', NEW c \in Callers, DeleteIndex(c)
  PROVE  ExpiryInv'
<1>1. PICK r \in Subjects : /\ TypeOK /\ call[c] \in RevokeAllCall /\ call[c].sub = r
                             /\ faults' = faults
  BY CallKinds DEF DeleteIndex, ExpiryInv, RevokeAllCall
<1>2. indexLife'[r] = 0 /\ indexLife'[r] # NoExpiry
  BY <1>1 DEF DeleteIndex, TypeOK, NoExpiry
<1>3. \A s \in Subjects \ {r} : /\ members'[s] = members[s] /\ indexLife'[s] = indexLife[s]
                                /\ ~Attends(c, s)
  BY <1>1 DEF DeleteIndex, TypeOK, Attends
<1>4. \A d \in Callers \ {c} : call'[d] = call[d]
  BY <1>1 DEF DeleteIndex, TypeOK
<1>5. QED
  BY <1>1, <1>2, <1>3, <1>4, SetChanged

\* The other commands, a call that starts and a call that breaks off.
LEMMA OtherExpiry ==
  ASSUME ExpiryInv, TypeOK', NEW c \in Callers,
         \/ \E j \in Jtis, s \in Subjects : SetRecord(c, j, s)
         \/ \E j \in Jtis : GetRecord(c, j)
         \/ \E s \in Subjects : ReadIndex(c, s)
         \/ DeleteRecord(c)
         \/ DeleteListed(c)
         \/ BreakOff(c)
  PROVE  ExpiryInv'
<1>1. TypeOK /\ members' = members /\ indexLife' = indexLife
  BY DEF SetRecord, GetRecord, ReadIndex, DeleteRecord, DeleteListed, BreakOff, ExpiryInv
<1>2. \A d \in Callers \ {c} : call'[d] = call[d]
  BY <1>1 DEF SetRecord, GetRecord, ReadIndex, DeleteRecord, DeleteListed, BreakOff, TypeOK
<1>3. faults \in Nat
  BY <1>1, TtlAssumption DEF TypeOK
<1>4. \/ faults' = faults /\ \A s \in Subjects : ~Attends(c, s)
      \/ faults' = faults + 1
  BY DEF Attends, Idle, SetRecord, GetRecord, ReadIndex, DeleteRecord, DeleteListed, BreakOff
<1>5. \A s \in Subjects : Attends(c, s) => faults' # 0 \/ Attends(c, s)'
  BY <1>3, <1>4
<1>6. faults' = 0 => faults = 0
  BY <1>3, <1>4
<1>7. QED
  BY <1>1, <1>2, <1>5, <1>6, SetsKept

\* Time does not touch a set that does not expire.
LEMMA TickExpiry ==
  ASSUME ExpiryInv, TypeOK', Tick
  PROVE  ExpiryInv'
<1>1. call' = call /\ faults' = faults /\ TypeOK
  BY DEF Tick, ExpiryInv
<1>2. ASSUME NEW s \in Subjects
      PROVE  /\ indexLife'[s] = NoExpiry => indexLife[s] = NoExpiry
             /\ members'[s] = {} => indexLife'[s] = 0
  <2>1. indexLife[s] \in Int
    BY <1>1, Ttls DEF TypeOK, NoExpiry
  <2>2. /\ indexLife'[s] = IF indexLife[s] > 0 THEN indexLife[s] - 1 ELSE indexLife[s]
        /\ members'[s] = IF indexLife[s] = 1 THEN {} ELSE members[s]
    BY DEF Tick
  <2>3. members[s] = {} => indexLife[s] = 0
    BY DEF ExpiryInv
  <2>4. QED
    BY <2>1, <2>2, <2>3 DEF NoExpiry
<1>3. SetsAreAttended'
  BY <1>1, <1>2 DEF ExpiryInv, SetsAreAttended, Attends
<1>4. QED
  BY <1>2, <1>3 DEF ExpiryInv

\* SREM is sent for a token that was stored for a subject.
LEMMA NextExpiry ==
  ASSUME ExpiryInv, IndexInv, [Next]_vars
  PROVE  ExpiryInv'
<1>1. TypeOK'
  BY NextType DEF IndexInv
<1>2. CASE UNCHANGED vars
  BY <1>1, <1>2 DEF vars, ExpiryInv, SetsAreAttended, Attends
<1>3. ASSUME NEW c \in Callers, RemoveMember(c)
      PROVE  ExpiryInv'
  <2>1. call[c].at = "srem" /\ TypeOK /\ CallInv(c)
    BY <1>3 DEF RemoveMember, IndexInv
  <2>2. call[c].jti \in Jtis /\ owner[call[c].jti] # None
    BY <2>1, CallKinds DEF CallInv
  <2>3. owner[call[c].jti] \in Subjects
    BY <2>1, <2>2 DEF TypeOK
  <2>4. QED
    BY <1>1, <1>3, <2>3, RemoveMemberExpiry
<1>4. QED
  BY <1>1, <1>2, <1>3, AddMemberExpiry, ReadTtlExpiry, ExpireExpiry, DeleteIndexExpiry,
     OtherExpiry, TickExpiry
     DEF Next, Continue

\* A subject's set that has no time to live has a store() that is about to
\* read it or to set it, whatever else is stored, revoked or expires between
\* SADD, TTL and EXPIRE (addToSession()), unless a call broke off.
THEOREM SetsGetTheirExpiry == Spec => []SetsAreAttended
<1>1. QED
  BY InitExpiry, NextExpiry, InitIndex, NextIndex, PTL DEF Spec, ExpiryInv
=============================================================================
