--------------------------- MODULE GatewayProofs ---------------------------
(***************************************************************************)
(* Proofs about Gateway for every value of its constants: type            *)
(* correctness, and that no rate-limit key outlives its window when Redis *)
(* stays reachable.                                                        *)
(***************************************************************************)
EXTENDS Gateway, TLAPS

USE ConstantsAssumption

\* A request at the limiter's two awaits has an authenticated principal.
LimitedHasPrincipal ==
    \A r \in Req : pc[r] \in {"incr", "expire"} => user[r] \in Principals

TypeInv == TypeOK /\ LimitedHasPrincipal

(* The strengthening of NoImmortalKey.  A request waiting at its EXPIRE    *)
(* holds the first hit of a key that exists and has no TTL yet; only one  *)
(* request of a user waits there (INCR is atomic, so only one INCR of a   *)
(* window returns 1); an absent key has no TTL; and a request reaches the *)
(* limiter only with a Redis client, which a reliable store never loses.  *)

LimitedHasClient ==
    \A r \in Req : pc[r] \in {"incr", "expire"} => redisClient

ExpireHoldsFirstHit ==
    \A r \in Req :
        pc[r] = "expire" =>
            /\ rl[user[r].user].cnt > 0
            /\ rl[user[r].user].ttl = NoTTL

OneFirstHit ==
    \A r1, r2 \in Req :
        /\ pc[r1] = "expire"
        /\ pc[r2] = "expire"
        /\ user[r1].user = user[r2].user
        => r1 = r2

AbsentHasNoTTL == \A p \in Users : rl[p].cnt = 0 => rl[p].ttl = NoTTL

\* The shape of the rate-limit keys, which Redis outages do not disturb: a
\* failed INCR or EXPIRE raises before it changes a key, and only ends its
\* request.
KInv ==
    /\ TypeInv
    /\ LimitedHasClient
    /\ ExpireHoldsFirstHit
    /\ OneFirstHit
    /\ AbsentHasNoTTL

IInv ==
    /\ KInv
    /\ storeUp = redisClient
    /\ NoImmortalKey

-----------------------------------------------------------------------------
(* Lemmas about the helpers.                                               *)

LEMMA CredType ==
    ASSUME NEW c \in Creds \cup {EmptyCred}
    PROVE  /\ c.key \in ApiKeys \cup {NoKey}
           /\ c.bearer \in Tokens \cup {NoToken}
           /\ c.hdrs \in SUBSET ClientHeaders
BY DEF CredSet, EmptyCred

LEMMA LookupKeyType ==
    ASSUME NEW k \in ApiKeys \cup {NoKey}
    PROVE  LookupKey(k) \in KeyRecords \cup {NoRecord}
BY DEF LookupKey

LEMMA TokenPrincipalType ==
    ASSUME NEW t \in Tokens \cup {NoToken}
    PROVE  TokenPrincipal(t) \in Principals \cup {Anonymous}
BY DEF TokenPrincipal, Principals

LEMMA AuthPrincipalType ==
    ASSUME NEW c \in Creds \cup {EmptyCred}
    PROVE  AuthPrincipal(c) \in Principals \cup {Anonymous}
<1>1. LookupKey(c.key) \in KeyRecords \cup {NoRecord}
  BY CredType, LookupKeyType
<1>2. TokenPrincipal(c.bearer) \in Principals \cup {Anonymous}
  BY CredType, TokenPrincipalType
<1>3. QED
  BY <1>1, <1>2 DEF AuthPrincipal, KeyUsable, KeyRecords, Principals

\* The limit comparison moves r to "forward" or "done" and keeps types.
LEMMA DecideType ==
    ASSUME TypeOK, NEW r \in Req, user[r] \in Principals, NEW c,
           Decide(r, c)
    PROVE  /\ pc' = [pc EXCEPT ![r] = pc'[r]]
           /\ pc'[r] \in {"forward", "done"}
           /\ status' \in [Req -> Nat]
           /\ metric' \in [Req -> Nat]
           /\ admits' \in [Users -> Nat]
<1> DEFINE p == user[r].user
<1>1. p \in Users
  BY DEF Principals
<1>2. CASE c > Limit(user[r].tier)
  BY <1>2 DEF Decide, Finish, TypeOK
<1>3. CASE ~(c > Limit(user[r].tier))
  BY <1>1, <1>3 DEF Decide, TypeOK
<1>4. QED
  BY <1>2, <1>3

LEMMA ProxyHeadersType ==
    ASSUME NEW h \in SUBSET ClientHeaders,
           NEW u \in Principals \cup {Anonymous}
    PROVE  ProxyHeaders(h, u) \in SUBSET HeaderPairs
BY DEF ProxyHeaders, HeaderPairs, Principals

-----------------------------------------------------------------------------

LEMMA InitTypeInv == Init => TypeInv
BY DEF Init, TypeInv, TypeOK, LimitedHasPrincipal, Absent, NoTTL, Stages

LEMMA NextTypeInv == TypeInv /\ [Next]_vars => TypeInv'
<1> SUFFICES ASSUME TypeInv, [Next]_vars PROVE TypeInv'
  OBVIOUS
<1> USE DEF TypeInv, TypeOK, LimitedHasPrincipal
<1>1. ASSUME NEW r \in Req, Authenticate(r) PROVE TypeInv'
  <2>1. PICK c \in Creds :
          /\ cred' = [cred EXCEPT ![r] = c]
          /\ keyInfo' = [keyInfo EXCEPT ![r] = LookupKey(c.key)]
          /\ \/ /\ KeyRejected(c)
                /\ Finish(r, 401, 0)
                /\ UNCHANGED user
             \/ /\ ~KeyRejected(c)
                /\ user' = [user EXCEPT ![r] = AuthPrincipal(c)]
                /\ pc' = [pc EXCEPT ![r] =
                            IF AuthPrincipal(c) # Anonymous /\ redisClient
                            THEN "incr" ELSE "forward"]
                /\ UNCHANGED <<status, metric>>
    BY <1>1 DEF Authenticate
  <2>2. /\ LookupKey(c.key) \in KeyRecords \cup {NoRecord}
        /\ AuthPrincipal(c) \in Principals \cup {Anonymous}
    BY AuthPrincipalType, CredType, LookupKeyType
  <2>3. UNCHANGED <<cur, called, sent, rl, admits, storeUp, redisClient,
                    pastExpiry>>
    BY <1>1 DEF Authenticate
  <2>4. CASE KeyRejected(c)
    BY <2>1, <2>2, <2>3, <2>4 DEF Finish, Stages
  <2>5. CASE ~KeyRejected(c)
    <3>1. /\ user' = [user EXCEPT ![r] = AuthPrincipal(c)]
          /\ pc' = [pc EXCEPT ![r] =
                      IF AuthPrincipal(c) # Anonymous /\ redisClient
                      THEN "incr" ELSE "forward"]
          /\ UNCHANGED <<status, metric>>
      BY <2>1, <2>5
    <3>2. TypeOK'
      BY <2>1, <2>2, <2>3, <3>1 DEF Stages
    <3>3. pc'[r] = "incr" => user'[r] \in Principals
      BY <2>2, <3>1
    <3>4. LimitedHasPrincipal'
      BY <3>1, <3>3
    <3>5. QED
      BY <3>2, <3>4
  <2>6. QED
    BY <2>4, <2>5
<1>2. ASSUME NEW r \in Req, Incr(r) PROVE TypeInv'
  <2> DEFINE p == user[r].user
             c == IncrValue(rl[p].cnt)
  <2>0. user[r] \in Principals
    BY <1>2 DEF Incr
  <2>1. p \in Users /\ c \in Nat
    BY <2>0 DEF IncrValue, Principals
  <2>2. UNCHANGED <<cred, keyInfo, user, called, sent, storeUp, redisClient,
                    pastExpiry>>
    BY <1>2 DEF Incr
  <2>3. CASE storeUp /\ NeedsExpire(c)
    <3>1. /\ rl' = [rl EXCEPT ![p].cnt = c]
          /\ cur' = [cur EXCEPT ![r] = c]
          /\ pc' = [pc EXCEPT ![r] = "expire"]
          /\ UNCHANGED <<status, metric, admits>>
      BY <1>2, <2>3 DEF Incr
    <3>2. QED
      BY <1>2, <2>1, <2>2, <3>1 DEF Stages, Incr
  <2>4. CASE storeUp /\ ~NeedsExpire(c)
    <3>1. /\ rl' = [rl EXCEPT ![p].cnt = c]
          /\ cur' = [cur EXCEPT ![r] = c]
          /\ Decide(r, c)
      BY <1>2, <2>4 DEF Incr
    <3>2. /\ pc' = [pc EXCEPT ![r] = pc'[r]]
          /\ pc'[r] \in {"forward", "done"}
          /\ status' \in [Req -> Nat]
          /\ metric' \in [Req -> Nat]
          /\ admits' \in [Users -> Nat]
      BY <2>0, <3>1, DecideType
    <3>3. pc' \in [Req -> Stages]
      BY <3>2 DEF Stages
    <3>4. LimitedHasPrincipal'
      BY <2>2, <3>2
    <3>5. rl' \in [Users -> [cnt : Nat, ttl : 0..Window]]
      BY <2>1, <3>1
    <3>6. QED
      BY <2>1, <2>2, <3>1, <3>2, <3>3, <3>4, <3>5
  <2>5. CASE ~storeUp
    <3>1. StoreError(r)
      BY <1>2, <2>5 DEF Incr
    <3>2. QED
      BY <2>2, <3>1 DEF StoreError, Finish, Stages
  <2>6. QED
    BY <2>3, <2>4, <2>5
<1>3. ASSUME NEW r \in Req, Expire(r) PROVE TypeInv'
  <2> DEFINE p == user[r].user
  <2>0. user[r] \in Principals
    BY <1>3 DEF Expire
  <2>1. p \in Users
    BY <2>0 DEF Principals
  <2>2. UNCHANGED <<cred, keyInfo, user, called, sent, storeUp, redisClient,
                    pastExpiry>>
    BY <1>3 DEF Expire
  <2>3. SetTTL(rl[p]) \in [cnt : Nat, ttl : 0..Window]
    BY <2>1 DEF SetTTL
  <2>4. CASE storeUp
    <3>1. /\ rl' = [rl EXCEPT ![p] = SetTTL(rl[p])]
          /\ Decide(r, cur[r])
          /\ UNCHANGED cur
      BY <1>3, <2>4 DEF Expire
    <3>2. /\ pc' = [pc EXCEPT ![r] = pc'[r]]
          /\ pc'[r] \in {"forward", "done"}
          /\ status' \in [Req -> Nat]
          /\ metric' \in [Req -> Nat]
          /\ admits' \in [Users -> Nat]
      BY <2>0, <3>1, DecideType
    <3>3. rl' \in [Users -> [cnt : Nat, ttl : 0..Window]]
      BY <2>1, <2>3, <3>1
    <3>4. pc' \in [Req -> Stages]
      BY <3>2 DEF Stages
    <3>5. LimitedHasPrincipal'
      BY <2>2, <3>2
    <3>6. QED
      BY <2>2, <3>1, <3>2, <3>3, <3>4, <3>5
  <2>5. CASE ~storeUp
    <3>1. StoreError(r)
      BY <1>3, <2>5 DEF Expire
    <3>2. QED
      BY <2>2, <3>1 DEF StoreError, Finish, Stages
  <2>6. QED
    BY <2>4, <2>5
<1>4. ASSUME NEW r \in Req, Forward(r) PROVE TypeInv'
  <2>1. ProxyHeaders(cred[r].hdrs, user[r]) \in SUBSET HeaderPairs
    BY CredType, ProxyHeadersType
  <2>2. QED
    BY <1>4, <2>1 DEF Forward, Finish, Stages
<1>5. CASE Tick
  BY <1>5 DEF Tick, Absent, NoTTL
<1>6. CASE CredentialExpires
  BY <1>6 DEF CredentialExpires
<1>7. CASE StoreFails
  BY <1>7 DEF StoreFails
<1>8. CASE StoreRecovers
  BY <1>8 DEF StoreRecovers
<1>9. CASE UNCHANGED vars
  BY <1>9 DEF vars
<1>10. QED
  BY <1>1, <1>2, <1>3, <1>4, <1>5, <1>6, <1>7, <1>8, <1>9 DEF Next, Handle

\* Every reachable state is well typed, whatever the constants.
THEOREM TypeCorrect == Spec => []TypeOK
<1>1. Spec => []TypeInv
  BY InitTypeInv, NextTypeInv, PTL DEF Spec
<1>2. QED
  BY <1>1, PTL DEF TypeInv

-----------------------------------------------------------------------------
(* The shape of the keys, whether or not Redis fails.                     *)

\* Steps that leave the counters alone and move no request into or out of
\* its EXPIRE keep the three key conjuncts.
LEMMA LimiterFrame ==
    ASSUME TypeOK, ExpireHoldsFirstHit, OneFirstHit, AbsentHasNoTTL,
           \A q \in Req : pc'[q] = "expire" <=> pc[q] = "expire",
           \A q \in Req : pc[q] = "expire" => user'[q] = user[q],
           rl' = rl
    PROVE  ExpireHoldsFirstHit' /\ OneFirstHit' /\ AbsentHasNoTTL'
BY DEF ExpireHoldsFirstHit, OneFirstHit, AbsentHasNoTTL

\* A Redis call of r raised: r ends with 500 and no key changes.
LEMMA StoreErrorKInv ==
    ASSUME KInv, NEW r \in Req, pc[r] \in {"incr", "expire"}, StoreError(r),
           UNCHANGED <<user, redisClient>>, TypeInv'
    PROVE  KInv'
<1> USE DEF KInv, TypeInv
<1>1. pc' = [pc EXCEPT ![r] = "done"] /\ rl' = rl
  BY DEF StoreError, Finish
<1>2. \A q \in Req : pc'[q] = "expire" => pc[q] = "expire"
  BY <1>1 DEF TypeOK
<1>3. LimitedHasClient'
  BY <1>1 DEF LimitedHasClient, TypeOK
<1>4. ExpireHoldsFirstHit' /\ OneFirstHit'
  BY <1>1, <1>2 DEF ExpireHoldsFirstHit, OneFirstHit
<1>5. AbsentHasNoTTL'
  BY <1>1 DEF AbsentHasNoTTL
<1>6. QED
  BY <1>3, <1>4, <1>5

\* What one tick of Redis's clock does to a key, by its remaining TTL.
LEMMA TickRl ==
    ASSUME TypeOK, Tick
    PROVE  \A p \in Users :
             /\ rl[p].ttl = 1 => rl'[p].cnt = 0 /\ rl'[p].ttl = NoTTL
             /\ rl[p].ttl > 1 => /\ rl'[p].cnt = rl[p].cnt
                                 /\ rl'[p].ttl = rl[p].ttl - 1
             /\ rl[p].ttl = NoTTL => rl'[p] = rl[p]
<1> SUFFICES ASSUME NEW p \in Users
             PROVE  /\ rl[p].ttl = 1 => rl'[p].cnt = 0 /\ rl'[p].ttl = NoTTL
                    /\ rl[p].ttl > 1 => /\ rl'[p].cnt = rl[p].cnt
                                        /\ rl'[p].ttl = rl[p].ttl - 1
                    /\ rl[p].ttl = NoTTL => rl'[p] = rl[p]
  OBVIOUS
<1>1. rl[p] \in [cnt : Nat, ttl : 0..Window]
  BY DEF TypeOK
<1>2. rl'[p] = IF rl[p].ttl = 1 THEN Absent
               ELSE IF rl[p].ttl > 1 THEN [rl[p] EXCEPT !.ttl = @ - 1]
               ELSE rl[p]
  BY DEF Tick
<1>3. rl[p].ttl > 1 => rl'[p] = [cnt |-> rl[p].cnt, ttl |-> rl[p].ttl - 1]
  BY <1>1, <1>2
<1>4. rl[p].ttl = 1 => rl'[p].cnt = 0 /\ rl'[p].ttl = NoTTL
  BY <1>2 DEF Absent, NoTTL
<1>5. rl[p].ttl = NoTTL => rl'[p] = rl[p]
  BY <1>2 DEF NoTTL
<1>6. QED
  BY <1>3, <1>4, <1>5

LEMMA InitKInv == Init => KInv
<1> SUFFICES ASSUME Init PROVE KInv
  OBVIOUS
<1>1. TypeInv
  BY InitTypeInv
<1>2. QED
  BY <1>1 DEF Init, KInv, LimitedHasClient, ExpireHoldsFirstHit, OneFirstHit,
             AbsentHasNoTTL, Absent, NoTTL

LEMMA NextKInv == KInv /\ [Next]_vars => KInv'
<1> SUFFICES ASSUME KInv, [Next]_vars PROVE KInv'
  OBVIOUS
<1>0. TypeInv'
  BY NextTypeInv DEF KInv
<1> USE DEF KInv, TypeInv, LimitedHasPrincipal
<1>1. ASSUME NEW r \in Req, Authenticate(r) PROVE KInv'
  <2>1. PICK c \in Creds :
          \/ /\ KeyRejected(c)
             /\ Finish(r, 401, 0)
             /\ UNCHANGED user
          \/ /\ ~KeyRejected(c)
             /\ user' = [user EXCEPT ![r] = AuthPrincipal(c)]
             /\ pc' = [pc EXCEPT ![r] =
                         IF AuthPrincipal(c) # Anonymous /\ redisClient
                         THEN "incr" ELSE "forward"]
    BY <1>1 DEF Authenticate
  <2>2. UNCHANGED <<rl, redisClient>> /\ pc[r] = "auth"
    BY <1>1 DEF Authenticate
  <2>3. /\ pc' = [pc EXCEPT ![r] = pc'[r]]
        /\ pc'[r] \in {"incr", "forward", "done"}
        /\ pc'[r] = "incr" => redisClient
        /\ user' = [user EXCEPT ![r] = user'[r]]
    BY <2>1 DEF Finish, TypeOK
  <2>4. LimitedHasClient'
    BY <2>2, <2>3 DEF LimitedHasClient, TypeOK
  <2>5. ExpireHoldsFirstHit' /\ OneFirstHit' /\ AbsentHasNoTTL'
    BY <2>2, <2>3, LimiterFrame DEF TypeOK
  <2>6. QED
    BY <1>0, <2>4, <2>5
<1>2. ASSUME NEW r \in Req, Incr(r) PROVE KInv'
  <2> DEFINE p == user[r].user
             c == IncrValue(rl[p].cnt)
  <2>1. /\ user[r] \in Principals
        /\ p \in Users
        /\ pc[r] = "incr"
        /\ UNCHANGED <<user, redisClient>>
    BY <1>2 DEF Incr, Principals
  <2>2. CASE ~storeUp
    BY <1>0, <1>2, <2>1, <2>2, StoreErrorKInv DEF Incr
  <2>3. CASE storeUp
    <3>1. rl' = [rl EXCEPT ![p].cnt = c]
      BY <1>2, <2>3 DEF Incr
    <3>2. c = rl[p].cnt + 1 /\ rl[p].cnt \in Nat
      BY <2>1 DEF IncrValue, TypeOK
    <3>3. LimitedHasClient'
      BY <1>2, <2>1 DEF Incr, LimitedHasClient, TypeOK
    <3>4. AbsentHasNoTTL'
      BY <2>1, <3>1, <3>2 DEF AbsentHasNoTTL, TypeOK
    <3>5. CASE NeedsExpire(c)
      <4>1. pc' = [pc EXCEPT ![r] = "expire"]
        BY <1>2, <2>3, <3>5 DEF Incr
      <4>2. rl[p].cnt = 0 /\ rl[p].ttl = NoTTL
        <5>1. rl[p].cnt = 0
          BY <3>2, <3>5 DEF NeedsExpire
        <5>2. QED
          BY <2>1, <5>1 DEF AbsentHasNoTTL
      <4>3. \A q \in Req : pc[q] = "expire" => user[q].user # p
        BY <4>2 DEF ExpireHoldsFirstHit
      <4>4. ExpireHoldsFirstHit'
        BY <2>1, <3>1, <3>2, <3>5, <4>1, <4>2, <4>3
           DEF ExpireHoldsFirstHit, NeedsExpire, TypeOK
      <4>5. OneFirstHit'
        BY <2>1, <4>1, <4>3 DEF OneFirstHit, TypeOK
      <4>6. QED
        BY <1>0, <3>3, <3>4, <4>4, <4>5
    <3>6. CASE ~NeedsExpire(c)
      <4>1. Decide(r, c)
        BY <1>2, <2>3, <3>6 DEF Incr
      <4>2. /\ pc' = [pc EXCEPT ![r] = pc'[r]]
            /\ pc'[r] \in {"forward", "done"}
        BY <2>1, <4>1, DecideType DEF TypeOK
      <4>3. ExpireHoldsFirstHit'
        BY <2>1, <3>1, <3>2, <4>2 DEF ExpireHoldsFirstHit, TypeOK
      <4>4. OneFirstHit'
        BY <2>1, <4>2 DEF OneFirstHit, TypeOK
      <4>5. QED
        BY <1>0, <3>3, <3>4, <4>3, <4>4
    <3>7. QED
      BY <3>5, <3>6
  <2>4. QED
    BY <2>2, <2>3
<1>3. ASSUME NEW r \in Req, Expire(r) PROVE KInv'
  <2> DEFINE p == user[r].user
  <2>1. /\ user[r] \in Principals
        /\ p \in Users
        /\ pc[r] = "expire"
        /\ UNCHANGED <<user, redisClient>>
    BY <1>3 DEF Expire, Principals
  <2>2. CASE ~storeUp
    BY <1>0, <1>3, <2>1, <2>2, StoreErrorKInv DEF Expire
  <2>3. CASE storeUp
    <3>1. /\ rl' = [rl EXCEPT ![p] = SetTTL(rl[p])]
          /\ Decide(r, cur[r])
      BY <1>3, <2>3 DEF Expire
    <3>2. /\ pc' = [pc EXCEPT ![r] = pc'[r]]
          /\ pc'[r] \in {"forward", "done"}
      BY <2>1, <3>1, DecideType DEF TypeOK
    <3>3. rl[p].cnt > 0 /\ rl'[p].cnt = rl[p].cnt /\ rl'[p].ttl = Window
      BY <2>1, <3>1 DEF ExpireHoldsFirstHit, SetTTL, TypeOK
    <3>4. \A q \in Req : pc[q] = "expire" /\ q # r => user[q].user # p
      BY <2>1 DEF OneFirstHit
    <3>5. LimitedHasClient'
      BY <2>1, <3>2 DEF LimitedHasClient, TypeOK
    <3>6. ExpireHoldsFirstHit'
      BY <2>1, <3>1, <3>2, <3>4 DEF ExpireHoldsFirstHit, TypeOK
    <3>7. OneFirstHit'
      BY <2>1, <3>2 DEF OneFirstHit, TypeOK
    <3>8. AbsentHasNoTTL'
      BY <2>1, <3>1, <3>3 DEF AbsentHasNoTTL, TypeOK
    <3>9. QED
      BY <1>0, <3>5, <3>6, <3>7, <3>8
  <2>4. QED
    BY <2>2, <2>3
<1>4. ASSUME NEW r \in Req, Forward(r) PROVE KInv'
  <2>1. /\ pc[r] = "forward"
        /\ pc' = [pc EXCEPT ![r] = "done"]
        /\ UNCHANGED <<user, rl, redisClient>>
    BY <1>4 DEF Forward, Finish
  <2>2. LimitedHasClient'
    BY <2>1 DEF LimitedHasClient, TypeOK
  <2>3. ExpireHoldsFirstHit' /\ OneFirstHit' /\ AbsentHasNoTTL'
    BY <2>1, LimiterFrame DEF TypeOK
  <2>4. QED
    BY <1>0, <2>2, <2>3
<1>5. CASE Tick
  <2>1. UNCHANGED <<pc, user, redisClient>>
    BY <1>5 DEF Tick
  <2>2. \A p \in Users :
          /\ rl[p].ttl = 1 => rl'[p].cnt = 0 /\ rl'[p].ttl = NoTTL
          /\ rl[p].ttl > 1 => /\ rl'[p].cnt = rl[p].cnt
                              /\ rl'[p].ttl = rl[p].ttl - 1
          /\ rl[p].ttl = NoTTL => rl'[p] = rl[p]
    BY <1>5, TickRl
  <2>3. \A p \in Users : rl[p].ttl \in Nat
    BY DEF TypeOK
  <2>4. ExpireHoldsFirstHit'
    BY <2>1, <2>2 DEF ExpireHoldsFirstHit, Principals
  <2>5. OneFirstHit'
    BY <2>1 DEF OneFirstHit
  <2>6. AbsentHasNoTTL'
    BY <2>2, <2>3 DEF AbsentHasNoTTL, NoTTL
  <2>7. QED
    BY <1>0, <2>1, <2>4, <2>5, <2>6 DEF LimitedHasClient
<1>6. CASE CredentialExpires \/ StoreFails \/ StoreRecovers \/ UNCHANGED vars
  <2>1. UNCHANGED <<pc, user, rl, redisClient>>
    BY <1>6 DEF CredentialExpires, StoreFails, StoreRecovers, vars
  <2>2. ExpireHoldsFirstHit' /\ OneFirstHit' /\ AbsentHasNoTTL'
    BY <2>1, LimiterFrame DEF TypeOK
  <2>3. QED
    BY <1>0, <2>1, <2>2 DEF LimitedHasClient
<1>7. QED
  BY <1>1, <1>2, <1>3, <1>4, <1>5, <1>6 DEF Next, Handle

-----------------------------------------------------------------------------
(* No rate-limit key outlives its window while Redis stays reachable.     *)

LEMMA InitIInv == Init => IInv
BY InitKInv DEF Init, IInv, NoImmortalKey, Absent, NoTTL

\* NoImmortalKey is kept by a step whose requests at EXPIRE stay there
\* with their users, and whose keys keep their counts and TTLs.
LEMMA ImmortalFrame ==
    ASSUME NoImmortalKey,
           \A q \in Req : pc[q] = "expire" => pc'[q] = "expire",
           \A q \in Req : pc[q] = "expire" => user'[q] = user[q],
           rl' = rl
    PROVE  NoImmortalKey'
BY DEF NoImmortalKey

LEMMA NextIInv ==
    ASSUME ~StoreCanFail
    PROVE  IInv /\ [Next]_vars => IInv'
<1> SUFFICES ASSUME IInv, [Next]_vars PROVE IInv'
  OBVIOUS
<1>0. KInv'
  BY NextKInv DEF IInv
<1> USE DEF IInv, KInv, TypeInv, LimitedHasPrincipal
<1>1. storeUp' = redisClient'
  BY DEF Next, Handle, Authenticate, Incr, Expire, Forward, Tick,
         CredentialExpires, StoreFails, StoreRecovers, vars
<1>2. ASSUME NEW r \in Req, Authenticate(r) \/ Forward(r) PROVE NoImmortalKey'
  <2>1. /\ pc[r] \in {"auth", "forward"}
        /\ UNCHANGED rl
        /\ user' = [user EXCEPT ![r] = user'[r]]
    BY <1>2 DEF Authenticate, Forward, TypeOK
  <2>2. pc' = [pc EXCEPT ![r] = pc'[r]]
    BY <1>2 DEF Authenticate, Forward, Finish, TypeOK
  <2>3. QED
    BY <2>1, <2>2, ImmortalFrame DEF TypeOK
<1>3. ASSUME NEW r \in Req, Incr(r) PROVE NoImmortalKey'
  <2> DEFINE p == user[r].user
             c == IncrValue(rl[p].cnt)
  <2>1. /\ user[r] \in Principals
        /\ p \in Users
        /\ storeUp
        /\ pc[r] = "incr"
        /\ UNCHANGED user
    BY <1>3 DEF Incr, LimitedHasClient, Principals
  <2>2. rl' = [rl EXCEPT ![p].cnt = c]
    BY <1>3, <2>1 DEF Incr
  <2>3. c = rl[p].cnt + 1 /\ rl[p].cnt \in Nat
    BY <2>1 DEF IncrValue, TypeOK
  <2>4. CASE NeedsExpire(c)
    <3>1. pc' = [pc EXCEPT ![r] = "expire"]
      BY <1>3, <2>1, <2>4 DEF Incr
    <3>2. QED
      BY <2>1, <2>2, <2>3, <3>1 DEF NoImmortalKey, TypeOK
  <2>5. CASE ~NeedsExpire(c)
    <3>1. /\ pc' = [pc EXCEPT ![r] = pc'[r]]
          /\ pc'[r] \in {"forward", "done"}
      BY <1>3, <2>1, <2>5, DecideType DEF Incr, TypeOK
    <3>2. rl[p].cnt > 0
      BY <2>3, <2>5 DEF NeedsExpire
    <3>3. QED
      BY <2>1, <2>2, <2>3, <3>1, <3>2 DEF NoImmortalKey, TypeOK
  <2>6. QED
    BY <2>4, <2>5
<1>4. ASSUME NEW r \in Req, Expire(r) PROVE NoImmortalKey'
  <2> DEFINE p == user[r].user
  <2>1. /\ user[r] \in Principals
        /\ p \in Users
        /\ storeUp
        /\ pc[r] = "expire"
        /\ UNCHANGED user
    BY <1>4 DEF Expire, LimitedHasClient, Principals
  <2>2. /\ rl' = [rl EXCEPT ![p] = SetTTL(rl[p])]
        /\ Decide(r, cur[r])
    BY <1>4, <2>1 DEF Expire
  <2>3. /\ pc' = [pc EXCEPT ![r] = pc'[r]]
        /\ pc'[r] \in {"forward", "done"}
    BY <2>1, <2>2, DecideType DEF TypeOK
  <2>4. rl'[p].ttl = Window
    BY <2>1, <2>2 DEF ExpireHoldsFirstHit, SetTTL, TypeOK
  <2>5. QED
    BY <2>1, <2>2, <2>3, <2>4 DEF NoImmortalKey, NoTTL, TypeOK
<1>5. ASSUME Tick PROVE NoImmortalKey'
  <2>1. UNCHANGED <<pc, user>>
    BY <1>5 DEF Tick
  <2>2. \A p \in Users : rl[p].ttl \in Nat
    BY DEF TypeOK
  <2>3. QED
    BY <1>5, <2>1, <2>2, TickRl DEF NoImmortalKey, NoTTL
<1>6. ASSUME CredentialExpires \/ StoreFails \/ StoreRecovers \/ UNCHANGED vars
      PROVE  NoImmortalKey'
  <2>1. UNCHANGED <<pc, user, rl>>
    BY <1>6 DEF CredentialExpires, StoreFails, StoreRecovers, vars
  <2>2. QED
    BY <2>1, ImmortalFrame
<1>7. NoImmortalKey'
  BY <1>2, <1>3, <1>4, <1>5, <1>6 DEF Next, Handle
<1>8. QED
  BY <1>0, <1>1, <1>7

\* Whether or not Redis fails, every request at the limiter's awaits has a
\* principal and a Redis client, the request at an EXPIRE holds the first
\* hit of a key that has no TTL yet, there is at most one per user, and an
\* absent key has no TTL.
THEOREM KInvHolds == Spec => []KInv
BY InitKInv, NextKInv, PTL DEF Spec

\* With a Redis server that stays reachable, the key conjuncts hold, Redis
\* stays up, and no key holds a count without a TTL outside its creator's
\* INCR-to-EXPIRE gap.
THEOREM IInvHolds == ASSUME ~StoreCanFail PROVE Spec => []IInv
BY InitIInv, NextIInv, PTL DEF Spec

\* With a Redis server that stays reachable, a rate_limit key that counts
\* requests always has a TTL, except while the request that created it is
\* between its INCR and its EXPIRE: the INCR-then-EXPIRE sequence of
\* proxy_all_requests never leaves a user locked out, whatever the number
\* of concurrent requests, users, tiers and limits.
THEOREM NoImmortalKeyHolds ==
    ASSUME ~StoreCanFail
    PROVE  Spec => []NoImmortalKey
BY IInvHolds, PTL DEF IInv

-----------------------------------------------------------------------------
(* The fixed window.                                                       *)

\* No step gives a key that already has a TTL a longer one.
LEMMA NextWindow ==
    ASSUME KInv, [Next]_vars
    PROVE  \A p \in Users : rl[p].ttl # NoTTL => rl'[p].ttl <= rl[p].ttl
<1> SUFFICES ASSUME NEW p \in Users, rl[p].ttl # NoTTL
             PROVE  rl'[p].ttl <= rl[p].ttl
  OBVIOUS
<1> USE DEF KInv, TypeInv
<1>0. rl[p] \in [cnt : Nat, ttl : 0..Window]
  BY DEF TypeOK
<1>1. ASSUME NEW r \in Req, Incr(r) PROVE rl'[p].ttl = rl[p].ttl
  <2>1. \/ \E n \in Nat : rl' = [rl EXCEPT ![user[r].user].cnt = n]
        \/ rl' = rl
    <3>1. IncrValue(rl[user[r].user].cnt) \in Nat
      BY <1>1 DEF Incr, IncrValue, TypeOK, LimitedHasPrincipal, Principals
    <3>2. QED
      BY <1>1, <3>1 DEF Incr, StoreError
  <2>2. ASSUME NEW n \in Nat, rl' = [rl EXCEPT ![user[r].user].cnt = n]
        PROVE  rl'[p].ttl = rl[p].ttl
    <3>1. CASE user[r].user = p
      BY <2>2, <3>1, <1>0 DEF TypeOK
    <3>2. CASE user[r].user # p
      BY <2>2, <3>2 DEF TypeOK
    <3>3. QED
      BY <3>1, <3>2
  <2>3. QED
    BY <2>1, <2>2
<1>2. ASSUME NEW r \in Req, Expire(r) PROVE rl'[p].ttl <= rl[p].ttl
  <2>1. CASE user[r].user = p
    <3>1. rl[p].ttl = NoTTL
      BY <1>2, <2>1 DEF Expire, ExpireHoldsFirstHit
    <3>2. QED
      BY <3>1
  <2>2. CASE user[r].user # p
    BY <1>2, <2>2, <1>0 DEF Expire, StoreError, TypeOK
  <2>3. QED
    BY <2>1, <2>2
<1>3. ASSUME NEW r \in Req, Authenticate(r) \/ Forward(r)
      PROVE  rl' = rl
  BY <1>3 DEF Authenticate, Forward
<1>4. CASE Tick
  BY <1>4, <1>0, TickRl DEF NoTTL
<1>5. CASE CredentialExpires \/ StoreFails \/ StoreRecovers \/ UNCHANGED vars
  BY <1>5, <1>0 DEF CredentialExpires, StoreFails, StoreRecovers, vars
<1>6. QED
  BY <1>1, <1>2, <1>3, <1>4, <1>5, <1>0 DEF Next, Handle

\* Whether or not Redis fails, and however many requests of a user run
\* between their INCR and their `if current == 1` EXPIRE, the TTL of a
\* rate_limit key is set once per window and then only counts down.
THEOREM WindowNeverExtendedHolds == Spec => WindowNeverExtended
<1>1. KInv /\ [Next]_vars => [\A p \in Users : rl[p].ttl # NoTTL => rl'[p].ttl <= rl[p].ttl]_vars
  BY NextWindow
<1>2. QED
  BY <1>1, KInvHolds, PTL DEF WindowNeverExtended, Spec

=============================================================================
