\* The rate limiter with a reliable Redis: windows, concurrency, expiry,
\* and the inductive invariants of the NoImmortalKey and admission proofs.
CONSTANTS
    r1 = r1  r2 = r2  r3 = r3
    ua = ua  ub = ub  uc = uc
    kFree = kFree  kExpiring = kExpiring  kDisabled = kDisabled  kUnknown = kUnknown
    tGood = tGood  tForged = tForged
    NoKey = NoKey  NoToken = NoToken  NoRecord = NoRecord  NoSub = NoSub
    Anonymous = Anonymous
    Req <- MCReq
    Users <- MCUsers
    Tiers <- MCTiers
    ApiKeys <- MCApiKeysLimiter
    Tokens <- MCTokensLimiter
    KeyRecord <- MCKeyRecord
    TokenClaims <- MCTokenClaims
    ClientHeaders <- MCClientHeaders
    Creds <- MCCredsReliable
    TierLimit <- MCTierLimit
    DefaultLimit = 1
    Window = 2
    BackendCodes = {200}
    StoreCanFail = FALSE
SPECIFICATION Spec
INVARIANT TypeOK
INVARIANT NoImmortalKey
INVARIANT IInv
INVARIANT MCAInv
PROPERTY AdmissionWithinLimit
PROPERTY KeyEventuallyExpires
PROPERTY LimiterRefinement
