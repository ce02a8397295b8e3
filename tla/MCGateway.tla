---------------------------- MODULE MCGateway ----------------------------
(***************************************************************************)
(* Small instances of Gateway for TLC.  Limits and the window are scaled  *)
(* down from the code's 10/100/1000 requests per 60 s so that a user can  *)
(* exceed its limit and see its window expire within three requests.      *)
(***************************************************************************)
EXTENDS LimiterProofs, TLC

CONSTANTS
    r1, r2, r3,                   \* requests
    ua, ub, uc,                   \* users
    kFree, kExpiring, kDisabled, kUnknown,  \* API keys
    tGood, tForged                \* bearer tokens

MCReq == {r1, r2, r3}
MCReq2 == {r1, r2}
MCUsers == {ua, ub, uc}
MCTiers == {"free", "pro", "enterprise", "gold"}
MCApiKeys == {kFree, kExpiring, kDisabled, kUnknown}
MCTokens == {tGood, tForged}
MCApiKeysLimiter == {kFree, kExpiring}
MCTokensLimiter == {tGood}

\* free 1, pro 2, enterprise 3 per window; other tiers get free's limit.
MCTierLimit == [t \in {"free", "pro", "enterprise"} |->
                  CASE t = "free" -> 1 [] t = "pro" -> 2 [] OTHER -> 3]

MCKeyRecord ==
    [k \in ApiKeys |->
        CASE k = kFree ->
               [user |-> ua, tier |-> "free", enabled |-> TRUE, expires |-> FALSE]
          [] k = kExpiring ->
               [user |-> ub, tier |-> "gold", enabled |-> TRUE, expires |-> TRUE]
          [] k = kDisabled ->
               [user |-> ua, tier |-> "pro", enabled |-> FALSE, expires |-> FALSE]
          [] OTHER -> NoRecord]

MCTokenClaims ==
    [t \in Tokens |->
        IF t = tGood THEN [signed |-> TRUE, sub |-> uc]
        ELSE [signed |-> FALSE, sub |-> ua]]

TE == <<"te", "trailers">>
Spoof == <<"x-user-tier", "enterprise">>
MCClientHeaders == {TE, Spoof}

Cred(k, t, h) == [key |-> k, bearer |-> t, hdrs |-> h]

\* The rate-limiter runs: one user by key (free), one by token (pro), and
\* a key with an expiry (401 once past it) that carries a hop-by-hop header.
MCCredsLimiter ==
    {Cred(kFree, NoToken, {}), Cred(NoKey, tGood, {}),
     Cred(kExpiring, NoToken, {TE})}

\* The run with a reliable Redis, whose liveness check walks the whole
\* graph: the free key user and the pro token user, whose limits of 1 and 2
\* three requests can exceed; the outage run keeps the expiring key.
MCCredsReliable ==
    {Cred(kFree, NoToken, {}), Cred(NoKey, tGood, {})}

\* The authentication runs: every kind of presented credential.
MCCredsAuth ==
    {Cred(kDisabled, NoToken, {}), Cred(kDisabled, tGood, {}),
     Cred(NoKey, tForged, {}), Cred(kUnknown, tGood, {}),
     Cred(kFree, tForged, {}), Cred(NoKey, NoToken, {Spoof}),
     Cred(kExpiring, NoToken, {})}

MCSymmetry == Permutations(MCReq)

\* The tier of each username in the rate-limiter runs.
MCLimiterTier == [p \in MCUsers |-> CASE p = ua -> "free"
                                      [] p = ub -> "gold"
                                      [] OTHER -> "pro"]

\* The inductive invariant of AdmissionWithinLimitHolds, on an instance
\* that meets the theorem's one-tier-per-username hypothesis.
MCAInv == OneTierPerUser(MCLimiterTier) /\ AInv(MCLimiterTier)

\* The abstract limiter under the refinement mapping of LimiterProofs.
MCAbs == INSTANCE LimiterAbstract
           WITH window <- AbsWindow, used <- admits,
                UserLimit <- AbsLimit(MCLimiterTier)

\* The limiter of proxy_all_requests implements the fixed-window limiter
\* of spec 5: every step of the requests, Redis's clock and the store is
\* an opening of a window, an admission within its user's limit, a
\* closing of windows, or leaves the abstract state alone.
LimiterRefinement == MCAbs!Spec

=============================================================================
