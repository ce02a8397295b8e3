------------------------- MODULE MCGatewayProofs -------------------------
(***************************************************************************)
(* The results of LimiterProofs for the instance that the limiter and     *)
(* outage runs check: three users by two API keys and a token, with the   *)
(* tiers free, gold and pro.  MCLimiterInstance states the substitutions *)
(* of MCGateway_limiter.cfg and MCGateway_outage.cfg, and that the model  *)
(* values TLC gives the users and the keys are distinct.  The one lemma   *)
(* with content is that this instance has one tier per username.          *)
(***************************************************************************)
EXTENDS MCGateway, TLAPS

\* The constants of the limiter runs, as their cfg files set them.
MCLimiterInstance ==
    /\ Users = MCUsers
    /\ Tiers = MCTiers
    /\ ApiKeys = MCApiKeysLimiter
    /\ Tokens = MCTokensLimiter
    /\ KeyRecord = MCKeyRecord
    /\ TokenClaims = MCTokenClaims
    /\ ua # ub /\ ub # uc /\ ua # uc
    /\ kFree # kExpiring /\ kExpiring # kDisabled /\ kFree # kDisabled

\* The key records and the token of the instance agree with MCLimiterTier:
\* kFree is ua's free key, kExpiring ub's gold key, and the token's
\* subject uc gets get_current_user's "pro".
LEMMA InstanceOneTier ==
    ASSUME MCLimiterInstance PROVE OneTierPerUser(MCLimiterTier)
<1> USE DEF MCLimiterInstance
<1>1. MCLimiterTier \in [Users -> Tiers]
  BY DEF MCLimiterTier, MCUsers, MCTiers
<1>2. ASSUME NEW k \in ApiKeys, KeyRecord[k] # NoRecord
      PROVE  MCLimiterTier[KeyRecord[k].user] = KeyRecord[k].tier
  <2>1. CASE k = kFree
    BY <2>1 DEF MCKeyRecord, MCLimiterTier, MCUsers, MCApiKeysLimiter
  <2>2. CASE k = kExpiring
    BY <2>2 DEF MCKeyRecord, MCLimiterTier, MCUsers, MCApiKeysLimiter
  <2>3. QED
    BY <2>1, <2>2 DEF MCApiKeysLimiter
<1>3. ASSUME NEW t \in Tokens, TokenClaims[t].sub \in Users
      PROVE  MCLimiterTier[TokenClaims[t].sub] = "pro"
  <2>1. t = tGood
    BY DEF MCTokensLimiter
  <2>2. TokenClaims[t].sub = uc
    BY <2>1 DEF MCTokenClaims, MCTokensLimiter
  <2>3. QED
    BY <2>2 DEF MCLimiterTier, MCUsers
<1>4. QED
  BY <1>1, <1>2, <1>3 DEF OneTierPerUser

\* On the instance of the limiter and outage runs, with or without Redis
\* failures, the admission invariant MCAInv holds in every reachable
\* state: the claim those runs check, for every interleaving of any
\* length rather than the runs' bounded state space.
THEOREM MCAInvHolds ==
    ASSUME MCLimiterInstance PROVE Spec => []MCAInv
<1>1. OneTierPerUser(MCLimiterTier)
  BY InstanceOneTier
<1>2. Spec => []AInv(MCLimiterTier)
  <2>1. Init => AInv(MCLimiterTier)
    BY <1>1, InitAInv
  <2>2. AInv(MCLimiterTier) /\ [Next]_vars => AInv(MCLimiterTier)'
    BY <1>1, NextAInv
  <2>3. QED
    BY <2>1, <2>2, PTL DEF Spec
<1>3. AInv(MCLimiterTier) => MCAInv
  BY <1>1 DEF MCAInv
<1>4. QED
  BY <1>2, <1>3, PTL

\* On the same instance, proxy_all_requests' limiter implements the
\* fixed-window limiter of spec 5, which the runs check as
\* LimiterRefinement.
THEOREM MCLimiterRefines ==
    ASSUME MCLimiterInstance PROVE Spec => LimiterRefinement
<1>1. OneTierPerUser(MCLimiterTier)
  BY InstanceOneTier
<1>2. Spec => Abs(MCLimiterTier)!Spec
  BY <1>1, LimiterRefines
<1>3. MCAbs!Init <=> Abs(MCLimiterTier)!Init
  BY DEF MCAbs!Init, Abs!Init
<1>4. ([MCAbs!Next]_(MCAbs!lvars)) <=> ([Abs(MCLimiterTier)!Next]_(Abs(MCLimiterTier)!lvars))
  BY DEF MCAbs!Next, Abs!Next, MCAbs!lvars, Abs!lvars, MCAbs!Open, Abs!Open,
         MCAbs!Admit, Abs!Admit, MCAbs!Close, Abs!Close
<1>5. QED
  BY <1>2, <1>3, <1>4, PTL DEF LimiterRefinement, MCAbs!Spec, Abs!Spec
=============================================================================
