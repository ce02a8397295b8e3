\* Disabled, forged and client-supplied credentials and tier headers.
CONSTANTS
    r1 = r1  r2 = r2  r3 = r3
    ua = ua  ub = ub  uc = uc
    kFree = kFree  kExpiring = kExpiring  kDisabled = kDisabled  kUnknown = kUnknown
    tGood = tGood  tForged = tForged
    NoKey = NoKey  NoToken = NoToken  NoRecord = NoRecord  NoSub = NoSub
    Anonymous = Anonymous
    Req <- MCReq2
    Users <- MCUsers
    Tiers <- MCTiers
    ApiKeys <- MCApiKeys
    Tokens <- MCTokens
    KeyRecord <- MCKeyRecord
    TokenClaims <- MCTokenClaims
    ClientHeaders <- MCClientHeaders
    Creds <- MCCredsAuth
    TierLimit <- MCTierLimit
    DefaultLimit = 1
    Window = 2
    BackendCodes = {200}
    StoreCanFail = FALSE
SPECIFICATION Spec
INVARIANT ForwardsOnlyAuthenticatedContext
