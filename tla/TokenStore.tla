------------------------------ MODULE TokenStore ------------------------------
(***************************************************************************)
(* The refresh-token store (src/src/auth/token-store.service.ts): what all *)
(* containers keep in the cache Redis, and the calls that are under way.   *)
(* refresh:<jti> is a record with a time to live; session:<sub> is the set *)
(* of the subject's token ids, with a time to live of its own, that        *)
(* revokeAllForSubject() works from.  Every call is several Redis commands *)
(* with an await after each, so calls of any containers interleave between *)
(* the commands; one command, or one pipeline of DELs, is one step.        *)
(*                                                                         *)
(* Times to live are in ticks.  A container whose Redis was unreachable at *)
(* boot (redis = null) takes no step here: its store() and revoke() return *)
(* at once.                                                                *)
(***************************************************************************)
EXTENDS Integers

CONSTANTS
  Callers,     \* calls that can be under way at a time
  Jtis,        \* token ids: randomUUID(), so each is stored at most once
  Subjects,
  TokenTtl,    \* redis.tokenTtlSeconds
  SessionTtl,  \* redis.sessionTtlSeconds
  MaxFaults,   \* calls that break off
  None

ASSUME TtlAssumption ==
  /\ TokenTtl \in Nat \ {0}
  /\ SessionTtl \in Nat \ {0}
  /\ MaxFaults \in Nat
  /\ None \notin Subjects

VARIABLES
  owner,      \* per token id: the subject it was stored for, or None
  life,       \* per token id: seconds left to refresh:<jti>; 0: no such key
  members,    \* per subject: the set session:<sub>; Redis drops an empty set
  indexLife,  \* per subject: seconds left to session:<sub>; 0: no such key
  call,       \* per caller: the call under way
  revocations,  \* history: how often revoke(jti) answered true
  excused,    \* history: tokens whose store() was broken off, or overlapped a
              \* revokeAllForSubject() or the expiry of the set it adds to
  faults

vars == <<owner, life, members, indexLife, call, revocations, excused, faults>>

NoExpiry == -1      \* what TTL answers for a key without one

Larger(a, b) == IF a >= b THEN a ELSE b

\* Math.max(sessionTtl, tokenTtlSeconds)
FullTtl == Larger(SessionTtl, TokenTtl)

Idle == [at |-> "idle"]
StoreCall == [at : {"sadd", "ttl", "expire"}, sub : Subjects, jti : Jtis]
RevokeCall == [at : {"del"}, jti : Jtis, found : BOOLEAN]
              \union [at : {"srem"}, jti : Jtis]
RevokeAllCall == [at : {"pipeline", "index"}, sub : Subjects, list : SUBSET Jtis]

\* store(jti) is under way; revokeAllForSubject(s) is.
Storing(j) == \E c \in Callers : call[c] \in StoreCall /\ call[c].jti = j
RevokingAll(s) == \E c \in Callers : call[c] \in RevokeAllCall /\ call[c].sub = s
StoredNow(s) == {j \in Jtis : owner[j] = s /\ Storing(j)}

Init ==
  /\ owner = [j \in Jtis |-> None]
  /\ life = [j \in Jtis |-> 0]
  /\ members = [s \in Subjects |-> {}]
  /\ indexLife = [s \in Subjects |-> 0]
  /\ call = [c \in Callers |-> Idle]
  /\ revocations = [j \in Jtis |-> 0]
  /\ excused = {}
  /\ faults = 0

-----------------------------------------------------------------------------
\* store(): SETEX.
SetRecord(c, j, s) ==
  /\ call[c] = Idle
  /\ owner[j] = None
  /\ owner' = [owner EXCEPT ![j] = s]
  /\ life' = [life EXCEPT ![j] = TokenTtl]
  /\ call' = [call EXCEPT ![c] = [at |-> "sadd", sub |-> s, jti |-> j]]
  /\ excused' = IF RevokingAll(s) THEN excused \union {j} ELSE excused
  /\ UNCHANGED <<members, indexLife, revocations, faults>>

\* Mistaken command: SET, which replaces the set by the token alone.
SetMember(c) ==
  /\ call[c].at = "sadd"
  /\ LET s == call[c].sub IN
       /\ members' = [members EXCEPT ![s] = {call[c].jti}]
       /\ indexLife' = [indexLife EXCEPT ![s] = NoExpiry]
  /\ call' = [call EXCEPT ![c].at = "ttl"]
  /\ UNCHANGED <<owner, life, revocations, excused, faults>>

\* addToSession(): SADD, which creates the set without a time to live.
AddMember(c) ==
  /\ call[c].at = "sadd"
  /\ LET s == call[c].sub IN
       /\ members' = [members EXCEPT ![s] = @ \union {call[c].jti}]
       /\ indexLife' = [indexLife EXCEPT ![s] = IF members[s] = {} THEN NoExpiry ELSE @]
  /\ call' = [call EXCEPT ![c].at = "ttl"]
  /\ UNCHANGED <<owner, life, revocations, excused, faults>>

\* Mistaken test: a set that has some time to live is left alone.
TooShortIfNone(s) == members[s] = {} \/ indexLife[s] = NoExpiry

\* Mistaken test: "no time to live" is taken for a long one.
TooShortIfSome(s) == members[s] # {} /\ indexLife[s] \in 0 .. (TokenTtl - 1)

\* currentTtl < tokenTtlSeconds: TTL answers -2 without a key and -1 for a
\* key that does not expire.
TooShort(s) == members[s] = {} \/ indexLife[s] < TokenTtl

\* addToSession(): TTL.
ReadTtl(c) ==
  /\ call[c].at = "ttl"
  /\ call' = IF TooShort(call[c].sub) THEN [call EXCEPT ![c].at = "expire"]
                                      ELSE [call EXCEPT ![c] = Idle]
  /\ UNCHANGED <<owner, life, members, indexLife, revocations, excused, faults>>

\* Mistaken extension: the time is added to what is left.
ExtendedTtlAdded(s) == IF members[s] = {} THEN indexLife[s] ELSE indexLife[s] + FullTtl

\* What EXPIRE leaves; it does nothing without a key.
ExtendedTtl(s) == IF members[s] = {} THEN indexLife[s] ELSE FullTtl

\* addToSession(): EXPIRE.
Expire(c) ==
  /\ call[c].at = "expire"
  /\ indexLife' = [indexLife EXCEPT ![call[c].sub] = ExtendedTtl(call[c].sub)]
  /\ call' = [call EXCEPT ![c] = Idle]
  /\ UNCHANGED <<owner, life, members, revocations, excused, faults>>

-----------------------------------------------------------------------------
\* revoke(): GET of a token that was stored once.  (Another id finds nothing.)
GetRecord(c, j) ==
  /\ call[c] = Idle
  /\ owner[j] # None
  /\ call' = [call EXCEPT ![c] = [at |-> "del", jti |-> j, found |-> life[j] > 0]]
  /\ UNCHANGED <<owner, life, members, indexLife, revocations, excused, faults>>

\* Mistaken answer: what DEL deleted is not looked at.
RevokedIfFound(c) == call[c].found

\* record && deleted > 0
Revoked(c) == call[c].found /\ life[call[c].jti] > 0

\* revoke(): DEL, and the answer.
DeleteRecord(c) ==
  /\ call[c].at = "del"
  /\ LET j == call[c].jti IN
       /\ life' = [life EXCEPT ![j] = 0]
       /\ IF Revoked(c)
          THEN /\ revocations' = [revocations EXCEPT ![j] = @ + 1]
               /\ call' = [call EXCEPT ![c] = [at |-> "srem", jti |-> j]]
          ELSE /\ call' = [call EXCEPT ![c] = Idle]
               /\ UNCHANGED revocations
  /\ UNCHANGED <<owner, members, indexLife, excused, faults>>

\* removeFromSession(): SREM.
RemoveMember(c) ==
  /\ call[c].at = "srem"
  /\ LET s == owner[call[c].jti]
         rest == members[s] \ {call[c].jti}
     IN  /\ members' = [members EXCEPT ![s] = rest]
         /\ indexLife' = [indexLife EXCEPT ![s] = IF rest = {} THEN 0 ELSE @]
  /\ call' = [call EXCEPT ![c] = Idle]
  /\ UNCHANGED <<owner, life, revocations, excused, faults>>

-----------------------------------------------------------------------------
\* revokeAllForSubject(): SMEMBERS; an empty answer ends the call.
ReadIndex(c, s) ==
  /\ call[c] = Idle
  /\ members[s] # {}
  /\ call' = [call EXCEPT ![c] = [at |-> "pipeline", sub |-> s, list |-> members[s]]]
  /\ excused' = excused \union StoredNow(s)
  /\ UNCHANGED <<owner, life, members, indexLife, revocations, faults>>

\* ... the DELs of the records it listed,
DeleteListed(c) ==
  /\ call[c].at = "pipeline"
  /\ life' = [j \in Jtis |-> IF j \in call[c].list THEN 0 ELSE life[j]]
  /\ call' = [call EXCEPT ![c].at = "index"]
  /\ UNCHANGED <<owner, members, indexLife, revocations, excused, faults>>

\* ... and the DEL of the set, whatever was added to it meanwhile.
DeleteIndex(c) ==
  /\ call[c].at = "index"
  /\ members' = [members EXCEPT ![call[c].sub] = {}]
  /\ indexLife' = [indexLife EXCEPT ![call[c].sub] = 0]
  /\ call' = [call EXCEPT ![c] = Idle]
  /\ UNCHANGED <<owner, life, revocations, excused, faults>>

-----------------------------------------------------------------------------
\* A command fails, or the container dies: the rest of the call is not done.
\* A pipeline may have been executed in part.
BreakOff(c) ==
  /\ faults < MaxFaults
  /\ call[c] # Idle
  /\ \E done \in IF call[c].at = "pipeline" THEN SUBSET call[c].list ELSE {{}} :
       life' = [j \in Jtis |-> IF j \in done THEN 0 ELSE life[j]]
  /\ call' = [call EXCEPT ![c] = Idle]
  /\ excused' = IF call[c] \in StoreCall THEN excused \union {call[c].jti} ELSE excused
  /\ faults' = faults + 1
  /\ UNCHANGED <<owner, members, indexLife, revocations>>

\* A second passes in Redis.
Tick ==
  /\ \/ \E j \in Jtis : life[j] > 0
     \/ \E s \in Subjects : indexLife[s] > 0
  /\ life' = [j \in Jtis |-> IF life[j] > 0 THEN life[j] - 1 ELSE 0]
  /\ indexLife' = [s \in Subjects |-> IF indexLife[s] > 0 THEN indexLife[s] - 1 ELSE indexLife[s]]
  /\ members' = [s \in Subjects |-> IF indexLife[s] = 1 THEN {} ELSE members[s]]
  /\ excused' = excused \union UNION {StoredNow(s) : s \in {t \in Subjects : indexLife[t] = 1}}
  /\ UNCHANGED <<owner, call, revocations, faults>>

\* What a call under way does next.
Continue(c) ==
  \/ AddMember(c) \/ ReadTtl(c) \/ Expire(c)
  \/ DeleteRecord(c) \/ RemoveMember(c)
  \/ DeleteListed(c) \/ DeleteIndex(c)

Next ==
  \/ \E c \in Callers :
       \/ \E j \in Jtis, s \in Subjects : SetRecord(c, j, s)
       \/ \E j \in Jtis : GetRecord(c, j)
       \/ \E s \in Subjects : ReadIndex(c, s)
       \/ Continue(c)
       \/ BreakOff(c)
  \/ Tick

Spec == Init /\ [][Next]_vars

\* Redis answers every command.
FairSpec == Spec /\ \A c \in Callers : WF_vars(Continue(c))

-----------------------------------------------------------------------------
TypeOK ==
  /\ owner \in [Jtis -> Subjects \union {None}]
  /\ life \in [Jtis -> 0 .. TokenTtl]
  /\ members \in [Subjects -> SUBSET Jtis]
  /\ indexLife \in [Subjects -> NoExpiry .. FullTtl]
  /\ call \in [Callers -> {Idle} \union StoreCall \union RevokeCall \union RevokeAllCall]
  /\ revocations \in [Jtis -> Nat]
  /\ excused \subseteq Jtis
  /\ faults \in 0 .. MaxFaults

\* "Log out everywhere" can find every token: a token whose store() is over is
\* in its subject's set, and the set outlives it, although the set's time to
\* live is read and extended in two commands that race with expiry, SREM and
\* other stores.  Excused are only stores that broke off and stores that
\* overlapped a revokeAllForSubject() of the subject or the set's own expiry
\* (store() and addToSession()).
IndexNamesTokens ==
  \A j \in Jtis :
    life[j] > 0 /\ ~Storing(j) /\ j \notin excused =>
      /\ j \in members[owner[j]]
      /\ indexLife[owner[j]] = NoExpiry \/ indexLife[owner[j]] >= life[j]

\* "Log out everywhere" reaches every device: once the records it listed are
\* deleted, the subject has no live token left, although other callers store,
\* revoke and let tokens expire between its commands.  Excused are the same
\* stores (revokeAllForSubject()).
LogoutReaches ==
  \A c \in Callers : call[c].at = "index" =>
    \A j \in Jtis : owner[j] = call[c].sub /\ life[j] > 0 => j \in excused

\* However many callers revoke one token at a time, one of them is told that
\* it did (revoke() counts what DEL deleted).
RevokedOnce == \A j \in Jtis : revocations[j] <= 1

\* A set does not stay without a time to live, unless a call broke off between
\* SADD and EXPIRE (addToSession()).
ExpiryIsSet ==
  \A s \in Subjects :
    indexLife[s] = NoExpiry ~> indexLife[s] # NoExpiry \/ faults > 0
=============================================================================
