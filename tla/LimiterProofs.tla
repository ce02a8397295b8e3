--------------------------- MODULE LimiterProofs ---------------------------
(***************************************************************************)
(* Proof that the INCR-then-compare limiter of proxy_all_requests never   *)
(* admits more requests of a user in one window than its tier's limit,    *)
(* for any number of concurrent requests, users, tiers and limits, and  *)
(* whether or not Redis fails and recovers after startup; and that it     *)
(* implements the abstract fixed-window limiter of LimiterAbstract.       *)
(*                                                                         *)
(* The limit a request is held to is tier_limits[user.tier], so the bound *)
(* is only meaningful when every principal of one username carries one    *)
(* tier: OneTierPerUser(UT) says that the API-key records and the tokens  *)
(* agree with a tier assignment UT.                                        *)
(***************************************************************************)
EXTENDS GatewayProofs

USE ConstantsAssumption

\* Every principal the authenticator can build for username p has the tier
\* UT[p]: the key records of p name that tier, and get_current_user gives
\* a token subject "pro".
OneTierPerUser(UT) ==
    /\ UT \in [Users -> Tiers]
    /\ \A k \in ApiKeys :
         KeyRecord[k] # NoRecord => UT[KeyRecord[k].user] = KeyRecord[k].tier
    /\ \A t \in Tokens :
         TokenClaims[t].sub \in Users => UT[TokenClaims[t].sub] = "pro"

\* The refinement mapping onto the abstract limiter: p's window is open
\* while its rate_limit key exists (INCR creates it with count 1, the
\* TTL deletes it), and the admissions of the window are the ghost admits.
AbsWindow == [p \in Users |-> IF rl[p].cnt = 0 THEN "closed" ELSE "open"]

AbsLimit(UT) == [p \in Users |-> Limit(UT[p])]

Abs(UT) == INSTANCE LimiterAbstract
             WITH window <- AbsWindow, used <- admits,
                  UserLimit <- AbsLimit(UT)

\* A request of p is waiting at its EXPIRE: it holds the first hit of the
\* window, already counted by INCR and not yet compared with the limit.
Waiting(p) == \E r \in Req : pc[r] = "expire" /\ user[r].user = p

\* The admissions of p's window, the waiting first hit included.
Held(p) == admits[p] + (IF Waiting(p) THEN 1 ELSE 0)

\* The requests at the limiter carry the tier of their username.
LimitedTier(UT) ==
    \A r \in Req :
        pc[r] \in {"incr", "expire"} => user[r].tier = UT[user[r].user]

\* The request waiting at EXPIRE is the one whose INCR returned 1.
FirstHitCur == \A r \in Req : pc[r] = "expire" => cur[r] = 1

\* Each admission, and the waiting first hit, was counted by an INCR of
\* the current window, and none of them exceeded the limit.
CountsAdmissions(UT) ==
    \A p \in Users : Held(p) <= rl[p].cnt /\ Held(p) <= Limit(UT[p])

\* The inductive invariant of AdmissionWithinLimit, whether or not Redis
\* fails: it rests on KInv, not on NoImmortalKey.
AInv(UT) == KInv /\ LimitedTier(UT) /\ FirstHitCur /\ CountsAdmissions(UT)

-----------------------------------------------------------------------------

LEMMA LimitPositive ==
    ASSUME NEW t PROVE Limit(t) \in Nat \ {0}
BY DEF Limit

\* A principal the authenticator returns has the tier of its username.
LEMMA AuthPrincipalTier ==
    ASSUME NEW UT, OneTierPerUser(UT), NEW c \in Creds,
           AuthPrincipal(c) # Anonymous
    PROVE  AuthPrincipal(c).tier = UT[AuthPrincipal(c).user]
<1> DEFINE info == LookupKey(c.key)
<1>1. c.key \in ApiKeys \cup {NoKey} /\ c.bearer \in Tokens \cup {NoToken}
  BY CredType
<1>2. CASE KeyUsable(info)
  <2>1. c.key \in ApiKeys /\ info = KeyRecord[c.key] /\ info # NoRecord
    BY <1>1, <1>2 DEF LookupKey, KeyUsable
  <2>2. QED
    BY <1>2, <2>1 DEF AuthPrincipal, OneTierPerUser
<1>3. CASE ~KeyUsable(info)
  <2>1. TokenPrincipal(c.bearer) # Anonymous
    BY <1>3 DEF AuthPrincipal
  <2>2. /\ c.bearer \in Tokens
        /\ TokenClaims[c.bearer].sub \in Users
        /\ TokenPrincipal(c.bearer) =
             [user |-> TokenClaims[c.bearer].sub, tier |-> "pro"]
    BY <1>1, <2>1 DEF TokenPrincipal
  <2>3. QED
    BY <1>3, <2>2 DEF AuthPrincipal, OneTierPerUser
<1>4. QED
  BY <1>2, <1>3

LEMMA InitAInv ==
    ASSUME NEW UT, OneTierPerUser(UT) PROVE Init => AInv(UT)
<1> SUFFICES ASSUME Init PROVE AInv(UT)
  OBVIOUS
<1>1. KInv
  BY InitKInv
<1>2. \A p \in Users : ~Waiting(p) /\ Held(p) = 0
  BY DEF Init, Waiting, Held
<1>3. QED
  BY <1>1, <1>2, LimitPositive
     DEF Init, AInv, LimitedTier, FirstHitCur, CountsAdmissions, Absent

\* The effect of one tick on the key of a user, by its remaining TTL.
LEMMA TickKey ==
    ASSUME TypeOK, Tick, NEW p \in Users
    PROVE  /\ rl[p].ttl = 1 => rl'[p].cnt = 0 /\ admits'[p] = 0
           /\ rl[p].ttl # 1 => rl'[p].cnt = rl[p].cnt /\ admits'[p] = admits[p]
<1>1. rl[p] \in [cnt : Nat, ttl : 0..Window]
  BY DEF TypeOK
<1>2. /\ rl'[p] = IF rl[p].ttl = 1 THEN Absent
                  ELSE IF rl[p].ttl > 1 THEN [rl[p] EXCEPT !.ttl = @ - 1]
                  ELSE rl[p]
      /\ admits'[p] = IF rl[p].ttl = 1 THEN 0 ELSE admits[p]
  BY DEF Tick
<1>3. rl[p].ttl > 1 => rl'[p] = [cnt |-> rl[p].cnt, ttl |-> rl[p].ttl - 1]
  BY <1>1, <1>2
<1>4. QED
  BY <1>1, <1>2, <1>3 DEF Absent

\* A Redis call of r raised: r ends with 500 and gives up its waiting
\* first hit, if it had one; no key and no admission changes.
LEMMA StoreErrorAInv ==
    ASSUME NEW UT, AInv(UT), KInv', NEW r \in Req,
           pc[r] \in {"incr", "expire"}, StoreError(r), UNCHANGED user
    PROVE  AInv(UT)'
<1> USE DEF AInv, KInv, TypeInv
<1>1. pc' = [pc EXCEPT ![r] = "done"] /\ UNCHANGED <<rl, cur, admits>>
  BY DEF StoreError, Finish
<1>2. \A q \in Users : Waiting(q)' => Waiting(q)
  BY <1>1 DEF Waiting, TypeOK
<1>3. \A q \in Users : admits[q] \in Nat /\ Held(q)' <= Held(q)
  BY <1>1, <1>2 DEF Held, TypeOK
<1>4. CountsAdmissions(UT)'
  BY <1>1, <1>3, LimitPositive DEF CountsAdmissions, Held, TypeOK
<1>5. LimitedTier(UT)' /\ FirstHitCur'
  BY <1>1 DEF LimitedTier, FirstHitCur, TypeOK
<1>6. QED
  BY <1>4, <1>5

LEMMA NextAInv ==
    ASSUME NEW UT, OneTierPerUser(UT)
    PROVE  AInv(UT) /\ [Next]_vars => AInv(UT)'
<1> SUFFICES ASSUME AInv(UT), [Next]_vars PROVE AInv(UT)'
  OBVIOUS
<1>0. KInv'
  BY NextKInv DEF AInv
<1> USE DEF AInv, KInv, TypeInv
<1>1. ASSUME NEW r \in Req, Authenticate(r) PROVE AInv(UT)'
  <2>1. PICK c \in Creds :
          \/ /\ KeyRejected(c)
             /\ Finish(r, 401, 0)
             /\ UNCHANGED user
          \/ /\ ~KeyRejected(c)
             /\ user' = [user EXCEPT ![r] = AuthPrincipal(c)]
             /\ pc' = [pc EXCEPT ![r] =
                         IF AuthPrincipal(c) # Anonymous /\ redisClient
                         THEN "incr" ELSE "forward"]
    BY <1>1 DEF Authenticate
  <2>2. UNCHANGED <<cur, rl, admits>> /\ pc[r] = "auth"
    BY <1>1 DEF Authenticate
  <2>3. /\ pc' = [pc EXCEPT ![r] = pc'[r]]
        /\ pc'[r] \in {"incr", "forward", "done"}
        /\ user' = [user EXCEPT ![r] = user'[r]]
        /\ pc'[r] = "incr" => /\ user'[r] = AuthPrincipal(c)
                              /\ AuthPrincipal(c) # Anonymous
    BY <2>1 DEF Finish, TypeOK
  <2>4. \A p \in Users : Waiting(p)' = Waiting(p)
    BY <2>2, <2>3 DEF Waiting, TypeOK
  <2>5. LimitedTier(UT)'
    BY <2>2, <2>3, AuthPrincipalTier DEF LimitedTier, TypeOK
  <2>6. FirstHitCur'
    BY <2>2, <2>3 DEF FirstHitCur, TypeOK
  <2>7. CountsAdmissions(UT)'
    BY <2>2, <2>4 DEF CountsAdmissions, Held
  <2>8. QED
    BY <1>0, <2>5, <2>6, <2>7
<1>2. ASSUME NEW r \in Req, Incr(r) PROVE AInv(UT)'
  <2> DEFINE p == user[r].user
             c == IncrValue(rl[p].cnt)
  <2>0. CASE ~storeUp
    BY <1>0, <1>2, <2>0, StoreErrorAInv DEF Incr
  <2> SUFFICES ASSUME storeUp PROVE AInv(UT)'
    BY <2>0
  <2>1. /\ user[r] \in Principals
        /\ p \in Users
        /\ storeUp
        /\ pc[r] = "incr"
        /\ user[r].tier = UT[p]
    BY <1>2 DEF Incr, LimitedHasPrincipal, LimitedTier, Principals
  <2>2. /\ rl' = [rl EXCEPT ![p].cnt = c]
        /\ cur' = [cur EXCEPT ![r] = c]
        /\ UNCHANGED user
        /\ IF NeedsExpire(c)
           THEN /\ pc' = [pc EXCEPT ![r] = "expire"]
                /\ UNCHANGED admits
           ELSE Decide(r, c)
    BY <1>2, <2>1 DEF Incr
  <2>3. /\ c = rl[p].cnt + 1
        /\ rl[p].cnt \in Nat
        /\ rl'[p].cnt = c
        /\ \A q \in Users \ {p} : rl'[q] = rl[q]
    BY <2>1, <2>2 DEF IncrValue, TypeOK
  <2>4. Held(p) <= rl[p].cnt /\ Held(p) <= Limit(UT[p])
    BY <2>1 DEF CountsAdmissions
  <2>5. \A q \in Users : admits[q] \in Nat
    BY DEF TypeOK
  <2>6. CASE NeedsExpire(c)
    <3>1. pc' = [pc EXCEPT ![r] = "expire"] /\ UNCHANGED admits
      BY <2>2, <2>6
    <3>2. admits[p] = 0 /\ ~Waiting(p)
      BY <2>1, <2>3, <2>4, <2>5, <2>6 DEF NeedsExpire, Held
    <3>3. Waiting(p)' /\ \A q \in Users \ {p} : Waiting(q)' = Waiting(q)
      BY <2>1, <2>2, <3>1 DEF Waiting, TypeOK
    <3>4. CountsAdmissions(UT)'
      BY <2>3, <2>6, <3>1, <3>2, <3>3, LimitPositive
         DEF CountsAdmissions, Held, NeedsExpire
    <3>5. LimitedTier(UT)' /\ FirstHitCur'
      BY <2>1, <2>2, <2>6, <3>1 DEF LimitedTier, FirstHitCur, NeedsExpire,
                                  TypeOK
    <3>6. QED
      BY <1>0, <3>4, <3>5
  <2>7. CASE ~NeedsExpire(c)
    <3>1. Decide(r, c)
      BY <2>2, <2>7
    <3>2. \A q \in Users : Waiting(q)' = Waiting(q)
      <4>1. pc' = [pc EXCEPT ![r] = pc'[r]] /\ pc'[r] \in {"forward", "done"}
        BY <2>1, <3>1, DecideType DEF TypeOK
      <4>2. QED
        BY <2>1, <2>2, <4>1 DEF Waiting, TypeOK
    <3>3. CASE c > Limit(user[r].tier)
      <4>1. UNCHANGED admits /\ pc' = [pc EXCEPT ![r] = "done"]
        BY <3>1, <3>3 DEF Decide, Finish
      <4>2. CountsAdmissions(UT)'
        BY <2>1, <2>3, <2>5, <3>2, <4>1 DEF CountsAdmissions, Held, TypeOK
      <4>3. LimitedTier(UT)' /\ FirstHitCur'
        BY <2>2, <4>1 DEF LimitedTier, FirstHitCur, TypeOK
      <4>4. QED
        BY <1>0, <4>2, <4>3
    <3>4. CASE ~(c > Limit(user[r].tier))
      <4>1. /\ admits' = [admits EXCEPT ![p] = @ + 1]
            /\ pc' = [pc EXCEPT ![r] = "forward"]
        BY <3>1, <3>4 DEF Decide
      <4>2. Held(p)' = Held(p) + 1
        BY <2>1, <2>2, <2>5, <3>2, <4>1 DEF Held, TypeOK
      <4>3. Held(p) + 1 <= rl'[p].cnt /\ Held(p) + 1 <= Limit(UT[p])
        BY <2>1, <2>3, <2>4, <2>5, <3>4, LimitPositive DEF Held
      <4>4. \A q \in Users \ {p} : Held(q)' = Held(q)
        BY <2>1, <2>2, <3>2, <4>1 DEF Held, TypeOK
      <4>5. CountsAdmissions(UT)'
        BY <2>1, <2>2, <2>3, <2>5, <4>2, <4>3, <4>4
           DEF CountsAdmissions, Held, TypeOK
      <4>6. LimitedTier(UT)' /\ FirstHitCur'
        BY <2>2, <4>1 DEF LimitedTier, FirstHitCur, TypeOK
      <4>7. QED
        BY <1>0, <4>5, <4>6
    <3>5. QED
      BY <3>3, <3>4
  <2>8. QED
    BY <2>6, <2>7
<1>3. ASSUME NEW r \in Req, Expire(r) PROVE AInv(UT)'
  <2> DEFINE p == user[r].user
  <2>0. CASE ~storeUp
    BY <1>0, <1>3, <2>0, StoreErrorAInv DEF Expire
  <2> SUFFICES ASSUME storeUp PROVE AInv(UT)'
    BY <2>0
  <2>1. /\ user[r] \in Principals
        /\ p \in Users
        /\ storeUp
        /\ pc[r] = "expire"
        /\ cur[r] = 1
        /\ user[r].tier = UT[p]
    BY <1>3 DEF Expire, LimitedHasPrincipal, LimitedTier, FirstHitCur,
                Principals
  <2>2. /\ rl' = [rl EXCEPT ![p] = SetTTL(rl[p])]
        /\ Decide(r, cur[r])
        /\ UNCHANGED <<user, cur>>
    BY <1>3, <2>1 DEF Expire
  <2>3. \A q \in Users : rl'[q].cnt = rl[q].cnt
    BY <2>1, <2>2 DEF SetTTL, TypeOK
  <2>4. /\ admits' = [admits EXCEPT ![p] = @ + 1]
        /\ pc' = [pc EXCEPT ![r] = "forward"]
    BY <2>1, <2>2, LimitPositive DEF Decide
  <2>5. Waiting(p) /\ ~Waiting(p)'
    BY <2>1, <2>2, <2>4 DEF Waiting, OneFirstHit, TypeOK
  <2>6. \A q \in Users \ {p} : Waiting(q)' = Waiting(q)
    BY <2>1, <2>2, <2>4 DEF Waiting, TypeOK
  <2>7. \A q \in Users : Held(q)' = Held(q)
    BY <2>1, <2>2, <2>4, <2>5, <2>6 DEF Held, TypeOK
  <2>8. CountsAdmissions(UT)'
    BY <2>3, <2>7 DEF CountsAdmissions
  <2>9. LimitedTier(UT)' /\ FirstHitCur'
    BY <2>2, <2>4 DEF LimitedTier, FirstHitCur, TypeOK
  <2>10. QED
    BY <1>0, <2>8, <2>9
<1>4. ASSUME NEW r \in Req, Forward(r) PROVE AInv(UT)'
  <2>1. /\ pc[r] = "forward"
        /\ pc' = [pc EXCEPT ![r] = "done"]
        /\ UNCHANGED <<user, cur, rl, admits>>
    BY <1>4 DEF Forward, Finish
  <2>2. \A q \in Users : Waiting(q)' = Waiting(q)
    BY <2>1 DEF Waiting, TypeOK
  <2>3. QED
    BY <1>0, <2>1, <2>2
       DEF CountsAdmissions, Held, LimitedTier, FirstHitCur, TypeOK
<1>5. CASE Tick
  <2>1. UNCHANGED <<pc, user, cur>>
    BY <1>5 DEF Tick
  <2>2. \A q \in Users : Waiting(q)' = Waiting(q)
    BY <2>1 DEF Waiting
  <2>3. \A q \in Users : Waiting(q) => rl[q].ttl # 1
    BY DEF Waiting, ExpireHoldsFirstHit, NoTTL
  <2>4. ASSUME NEW q \in Users
        PROVE  Held(q)' <= rl'[q].cnt /\ Held(q)' <= Limit(UT[q])
    <3>1. CASE rl[q].ttl = 1
      BY <1>5, <2>2, <2>3, <3>1, TickKey, LimitPositive DEF Held
    <3>2. CASE rl[q].ttl # 1
      BY <1>5, <2>2, <3>2, TickKey DEF Held, CountsAdmissions
    <3>3. QED
      BY <3>1, <3>2
  <2>5. QED
    BY <1>0, <2>1, <2>4 DEF CountsAdmissions, LimitedTier, FirstHitCur
<1>6. CASE CredentialExpires \/ StoreFails \/ StoreRecovers \/ UNCHANGED vars
  <2>1. UNCHANGED <<pc, user, cur, rl, admits>>
    BY <1>6 DEF CredentialExpires, StoreFails, StoreRecovers, vars
  <2>2. \A q \in Users : Waiting(q)' = Waiting(q)
    BY <2>1 DEF Waiting
  <2>3. QED
    BY <1>0, <2>1, <2>2
       DEF CountsAdmissions, Held, LimitedTier, FirstHitCur
<1>7. QED
  BY <1>1, <1>2, <1>3, <1>4, <1>5, <1>6 DEF Next, Handle

\* With one tier per username, and whether or not Redis fails, the
\* admissions of every user's window, and its waiting first hit, were each
\* counted by an INCR of that window and are within its tier's limit.
THEOREM AInvHolds ==
    ASSUME NEW UT, OneTierPerUser(UT) PROVE Spec => []AInv(UT)
BY InitAInv, NextAInv, PTL DEF Spec

\* With one tier per username, and whether or not Redis fails between or
\* during the awaits, the INCR of proxy_all_requests and its comparison current > limit never let
\* the n-th request of a user in one window through with n above its
\* tier's limit, however many requests of that user interleave between
\* their INCR, their EXPIRE and their comparison.  A failed INCR or EXPIRE
\* raises before it changes a key, so it can only drop a waiting first hit.
THEOREM AdmissionWithinLimitHolds ==
    ASSUME NEW UT, OneTierPerUser(UT)
    PROVE  Spec => AdmissionWithinLimit
<1>1. Spec => []AInv(UT)
  BY AInvHolds
<1>2. AInv(UT) /\ AInv(UT)' =>
        \A r \in Req :
          pc[r] \in {"incr", "expire"} /\ pc'[r] = "forward"
            => admits'[user[r].user] <= Limit(user[r].tier)
  <2> SUFFICES ASSUME AInv(UT), AInv(UT)', NEW r \in Req,
                      pc[r] \in {"incr", "expire"}
               PROVE  admits'[user[r].user] <= Limit(user[r].tier)
    OBVIOUS
  <2>1. user[r] \in Principals /\ user[r].tier = UT[user[r].user]
    BY DEF AInv, KInv, TypeInv, LimitedHasPrincipal, LimitedTier
  <2>2. user[r].user \in Users
    BY <2>1 DEF Principals
  <2>3. admits'[user[r].user] \in Nat
    BY <2>2 DEF AInv, KInv, TypeInv, TypeOK
  <2>4. PICK q \in Users : q = user[r].user
    BY <2>2
  <2>5. Held(q)' <= Limit(UT[q])
    BY DEF AInv, CountsAdmissions
  <2>6. admits'[q] <= Held(q)'
    BY <2>3, <2>4 DEF Held
  <2>7. admits'[q] <= Limit(UT[q])
    BY <2>3, <2>4, <2>5, <2>6, LimitPositive DEF Held
  <2>8. QED
    BY <2>1, <2>4, <2>7
<1>3. QED
  BY <1>1, <1>2, PTL DEF AdmissionWithinLimit

-----------------------------------------------------------------------------
(* Refinement of the abstract fixed-window limiter.                        *)

LEMMA InitRefines == ASSUME NEW UT PROVE Init => Abs(UT)!Init
BY DEF Init, Abs!Init, AbsWindow, Absent

\* A step that leaves the keys and the admissions alone is an abstract
\* stutter.
LEMMA StutterRefines ==
    ASSUME NEW UT, UNCHANGED <<rl, admits>>
    PROVE  UNCHANGED Abs(UT)!lvars
BY DEF Abs!lvars, AbsWindow

\* After a step that keeps AInv, no user holds more admissions than its
\* limit.
LEMMA AdmitsBounded ==
    ASSUME NEW UT, AInv(UT)'
    PROVE  \A q \in Users : admits'[q] <= Limit(UT[q])
<1> SUFFICES ASSUME NEW q \in Users PROVE admits'[q] <= Limit(UT[q])
  OBVIOUS
<1>1. admits'[q] \in Nat /\ Held(q)' <= Limit(UT[q])
  BY DEF AInv, KInv, TypeInv, TypeOK, CountsAdmissions
<1>2. admits'[q] <= Held(q)' /\ Held(q)' \in Nat
  BY <1>1 DEF Held
<1>3. Limit(UT[q]) \in Nat
  BY LimitPositive
<1>4. QED
  BY <1>1, <1>2, <1>3

LEMMA NextRefines ==
    ASSUME NEW UT, OneTierPerUser(UT)
    PROVE  AInv(UT) /\ AInv(UT)' /\ [Next]_vars
             => [Abs(UT)!Next]_(Abs(UT)!lvars)
<1> SUFFICES ASSUME AInv(UT), AInv(UT)', [Next]_vars
             PROVE  [Abs(UT)!Next]_(Abs(UT)!lvars)
  OBVIOUS
<1>0. TypeOK /\ LimitedHasPrincipal
  BY DEF AInv, KInv, TypeInv
<1>1. ASSUME NEW r \in Req, Authenticate(r) \/ Forward(r)
      PROVE  [Abs(UT)!Next]_(Abs(UT)!lvars)
  <2>1. UNCHANGED <<rl, admits>>
    BY <1>1 DEF Authenticate, Forward, Finish
  <2>2. QED
    BY <2>1, StutterRefines
<1>2. ASSUME NEW r \in Req, Incr(r) PROVE [Abs(UT)!Next]_(Abs(UT)!lvars)
  <2> DEFINE p == user[r].user
             c == IncrValue(rl[p].cnt)
  <2>0. CASE ~storeUp
    <3>1. UNCHANGED <<rl, admits>>
      BY <1>2, <2>0 DEF Incr, StoreError
    <3>2. QED
      BY <3>1, StutterRefines
  <2> SUFFICES ASSUME storeUp PROVE [Abs(UT)!Next]_(Abs(UT)!lvars)
    BY <2>0
  <2>1. /\ p \in Users
        /\ storeUp
    BY <1>0, <1>2 DEF Incr, LimitedHasPrincipal, Principals
  <2>2. /\ rl' = [rl EXCEPT ![p].cnt = c]
        /\ UNCHANGED user
        /\ IF NeedsExpire(c)
           THEN UNCHANGED admits
           ELSE Decide(r, c)
    BY <1>2, <2>1 DEF Incr
  <2>3. /\ c = rl[p].cnt + 1
        /\ rl[p].cnt \in Nat
        /\ rl'[p].cnt = c
        /\ \A q \in Users \ {p} : rl'[q] = rl[q]
    BY <1>0, <2>1, <2>2 DEF IncrValue, TypeOK
  <2>4. CASE NeedsExpire(c)
    <3>1. rl[p].cnt = 0 /\ rl'[p].cnt = 1 /\ UNCHANGED admits
      BY <2>2, <2>3, <2>4 DEF NeedsExpire
    <3>2. AbsWindow' = [AbsWindow EXCEPT ![p] = "open"]
      <4>1. \A q \in Users : AbsWindow'[q] = IF q = p THEN "open"
                                            ELSE AbsWindow[q]
        BY <2>3, <3>1 DEF AbsWindow
      <4>2. AbsWindow' \in [Users -> {"open", "closed"}]
        BY DEF AbsWindow
      <4>3. QED
        BY <2>1, <4>1, <4>2, Zenon DEF AbsWindow
    <3>3. Abs(UT)!Open(p)
      BY <2>1, <3>1, <3>2 DEF Abs!Open, AbsWindow
    <3>4. QED
      BY <2>1, <3>3 DEF Abs!Next
  <2>5. CASE ~NeedsExpire(c)
    <3>1. rl[p].cnt # 0 /\ rl'[p].cnt # 0
      BY <2>3, <2>5 DEF NeedsExpire
    <3>2. AbsWindow' = AbsWindow
      BY <2>3, <3>1 DEF AbsWindow
    <3>3. CASE c > Limit(user[r].tier)
      <4>1. UNCHANGED admits
        BY <2>2, <2>5, <3>3 DEF Decide
      <4>2. QED
        BY <3>2, <4>1 DEF Abs!lvars
    <3>4. CASE ~(c > Limit(user[r].tier))
      <4>1. admits' = [admits EXCEPT ![p] = @ + 1]
        BY <2>2, <2>5, <3>4 DEF Decide
      <4>2. admits'[p] = admits[p] + 1 /\ admits'[p] <= Limit(UT[p])
        BY <1>0, <2>1, <4>1, AdmitsBounded DEF TypeOK
      <4>3. AbsWindow[p] = "open" /\ admits[p] < AbsLimit(UT)[p]
        BY <1>0, <2>1, <3>1, <4>2, LimitPositive DEF AbsWindow, AbsLimit, TypeOK
      <4>4. Abs(UT)!Admit(p)
        BY <3>2, <4>1, <4>3 DEF Abs!Admit
      <4>5. QED
        BY <2>1, <4>4 DEF Abs!Next
    <3>5. QED
      BY <3>3, <3>4
  <2>6. QED
    BY <2>4, <2>5
<1>3. ASSUME NEW r \in Req, Expire(r) PROVE [Abs(UT)!Next]_(Abs(UT)!lvars)
  <2> DEFINE p == user[r].user
  <2>0. CASE ~storeUp
    <3>1. UNCHANGED <<rl, admits>>
      BY <1>3, <2>0 DEF Expire, StoreError
    <3>2. QED
      BY <3>1, StutterRefines
  <2> SUFFICES ASSUME storeUp PROVE [Abs(UT)!Next]_(Abs(UT)!lvars)
    BY <2>0
  <2>1. /\ p \in Users
        /\ storeUp
        /\ cur[r] = 1
        /\ rl[p].cnt > 0
    BY <1>0, <1>3 DEF Expire, LimitedHasPrincipal,
                           Principals, AInv, FirstHitCur, KInv,
                           ExpireHoldsFirstHit
  <2>2. /\ rl' = [rl EXCEPT ![p] = SetTTL(rl[p])]
        /\ Decide(r, cur[r])
    BY <1>3, <2>1 DEF Expire
  <2>3. AbsWindow' = AbsWindow
    BY <1>0, <2>1, <2>2 DEF AbsWindow, SetTTL, TypeOK
  <2>4. admits' = [admits EXCEPT ![p] = @ + 1]
    BY <2>1, <2>2, LimitPositive DEF Decide
  <2>5. admits'[p] = admits[p] + 1 /\ admits'[p] <= Limit(UT[p])
    BY <1>0, <2>1, <2>4, AdmitsBounded DEF TypeOK
  <2>6. AbsWindow[p] = "open" /\ admits[p] < AbsLimit(UT)[p]
    BY <1>0, <2>1, <2>5, LimitPositive DEF AbsWindow, AbsLimit, TypeOK
  <2>7. Abs(UT)!Admit(p)
    BY <2>3, <2>4, <2>6 DEF Abs!Admit
  <2>8. QED
    BY <2>1, <2>7 DEF Abs!Next
<1>4. CASE Tick
  <2> DEFINE S == {q \in Users : rl[q].ttl = 1}
  <2>1. \A q \in S : AbsWindow[q] = "open"
    BY <1>0 DEF AInv, KInv, AbsentHasNoTTL, NoTTL, AbsWindow
  <2>2. AbsWindow' = [q \in Users |-> IF q \in S THEN "closed"
                                      ELSE AbsWindow[q]]
    BY <1>0, <1>4, TickKey DEF AbsWindow
  <2>3. admits' = [q \in Users |-> IF q \in S THEN 0 ELSE admits[q]]
    BY <1>4 DEF Tick
  <2>4. Abs(UT)!Close(S)
    BY <2>1, <2>2, <2>3 DEF Abs!Close
  <2>5. QED
    BY <2>4 DEF Abs!Next
<1>5. CASE CredentialExpires \/ StoreFails \/ StoreRecovers \/ UNCHANGED vars
  <2>1. UNCHANGED <<rl, admits>>
    BY <1>5 DEF CredentialExpires, StoreFails, StoreRecovers, vars
  <2>2. QED
    BY <2>1, StutterRefines
<1>6. QED
  BY <1>1, <1>2, <1>3, <1>4, <1>5 DEF Next, Handle

\* With one tier per username, and whether or not Redis fails, the
\* limiter of proxy_all_requests implements the fixed-window limiter of
\* spec 5: under the mapping of AbsWindow and admits, each of its steps
\* opens a window (the INCR that creates a key), admits within the limit
\* (a comparison that lets a request through), closes windows (the TTL),
\* or changes nothing a client of the limiter can observe.  A window whose
\* EXPIRE failed never closes: the abstract limiter allows that, since it
\* promises no closing (see NoImmortalKey and the lockout run).
THEOREM LimiterRefines ==
    ASSUME NEW UT, OneTierPerUser(UT)
    PROVE  Spec => Abs(UT)!Spec
<1>1. Spec => []AInv(UT)
  BY AInvHolds
<1>2. AInv(UT) /\ AInv(UT)' /\ [Next]_vars => [Abs(UT)!Next]_(Abs(UT)!lvars)
  BY NextRefines
<1>3. QED
  BY <1>1, <1>2, InitRefines, PTL DEF Spec, Abs!Spec
=============================================================================
