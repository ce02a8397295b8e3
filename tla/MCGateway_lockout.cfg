\* A rate_limit key left without a TTL when Redis fails between INCR and EXPIRE.
CONSTANTS
    r1 = r1  r2 = r2  r3 = r3
    ua = ua  ub = ub  uc = uc
    kFree = kFree  kExpiring = kExpiring  kDisabled = kDisabled  kUnknown = kUnknown
    tGood = tGood  tForged = tForged
    NoKey = NoKey  NoToken = NoToken  NoRecord = NoRecord  NoSub = NoSub
    Anonymous = Anonymous
    Req <- MCReq
    Users <- MCUsers
    Tiers <- MCTiers
    ApiKeys <- MCApiKeysLimiter
    Tokens <- MCTokensLimiter
    KeyRecord <- MCKeyRecord
    TokenClaims <- MCTokenClaims
    ClientHeaders <- MCClientHeaders
    Creds <- MCCredsLimiter
    TierLimit <- MCTierLimit
    DefaultLimit = 1
    Window = 2
    BackendCodes = {200}
    StoreCanFail = TRUE
SPECIFICATION Spec
INVARIANT NoImmortalKey
