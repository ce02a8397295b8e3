------------------------------ MODULE Gateway ------------------------------
(***************************************************************************)
(* The request pipeline of the FastAPI gateway                            *)
(* (src/Bitcoin_Sprint_fastapi/fastapi-gateway/main.py): authenticate     *)
(* (authenticate_request), rate-limit per principal against Redis         *)
(* (INCR, then EXPIRE on the first hit), forward to the backend           *)
(* (proxy_request) and record the Prometheus request counter.             *)
(*                                                                         *)
(* Every request in Req is a coroutine of the asyncio event loop; its     *)
(* steps are the stretches of code between two awaits that touch shared   *)
(* state, so the requests interleave exactly where the event loop may     *)
(* switch.  Redis is the shared store: the counters rl, their TTLs, and   *)
(* whether the server is reachable.                                       *)
(***************************************************************************)
EXTENDS Naturals, FiniteSets

CONSTANTS
    Req,          \* concurrent proxied requests (coroutines)
    Users,        \* principal identifiers (User.username)
    Tiers,        \* tier strings that appear in API-key records
    ApiKeys,      \* API key values a client may present
    Tokens,       \* bearer tokens a client may present
    KeyRecord,    \* the api_key:{key} JSON records in Redis, or NoRecord
    TokenClaims,  \* what jwt.decode sees in a token: signature ok, sub claim
    ClientHeaders,\* <<name, value>> headers a client may send (lowercase)
    Creds,        \* what a request presents: API key, bearer, headers
    TierLimit,    \* tier_limits: requests per window per tier
    DefaultLimit, \* tier_limits.get(user.tier, 10): limit of other tiers
    Window,       \* redis_client.expire(key, 60): window length in ticks
    BackendCodes, \* status codes the backend may answer with
    StoreCanFail, \* whether Redis may become unreachable after startup
    NoKey, NoToken, NoRecord, NoSub, Anonymous

KeyRecords  == [user : Users, tier : Tiers, enabled : BOOLEAN, expires : BOOLEAN]
Principals  == [user : Users, tier : Tiers]
CredSet     == [key : ApiKeys \cup {NoKey}, bearer : Tokens \cup {NoToken},
                hdrs : SUBSET ClientHeaders]

ASSUME ConstantsAssumption ==
    /\ KeyRecord \in [ApiKeys -> KeyRecords \cup {NoRecord}]
    /\ TokenClaims \in [Tokens -> [signed : BOOLEAN, sub : Users \cup {NoSub}]]
    /\ Creds \subseteq CredSet
    /\ TierLimit \in [DOMAIN TierLimit -> Nat \ {0}]
    /\ DOMAIN TierLimit \subseteq Tiers
    /\ "pro" \in Tiers
    /\ DefaultLimit \in Nat \ {0}
    /\ Window \in Nat \ {0}
    /\ BackendCodes \subseteq Nat
    /\ StoreCanFail \in BOOLEAN

\* Request stages: between two awaits of proxy_all_requests.
Stages == {"auth", "incr", "expire", "forward", "done"}

\* A key with no TTL (Redis TTL -1), and the state of an absent key.
NoTTL == 0
Absent == [cnt |-> 0, ttl |-> NoTTL]

\* The credential of a request that has not been authenticated yet.
EmptyCred == [key |-> NoKey, bearer |-> NoToken, hdrs |-> {}]

HopByHop == {"connection", "keep-alive", "proxy-authenticate",
             "proxy-authorization", "te", "trailers", "transfer-encoding",
             "upgrade"}

VARIABLES
    pc,          \* stage of each request
    cred,        \* what the request presented
    keyInfo,     \* key_info: the API-key record read from Redis, or NoRecord
    user,        \* the principal authenticate_request returned
    cur,         \* current: the value INCR returned
    status,      \* status code of the response (0 while in flight)
    metric,      \* status label REQUEST_COUNT recorded for it (0: none)
    called,      \* whether the backend was called for it
    sent,        \* the headers sent to the backend
    rl,          \* Redis rate_limit:{user} keys: count and remaining TTL
    admits,      \* ghost: requests of each user admitted in its window
    storeUp,     \* whether the Redis server answers
    redisClient, \* redis_client is not None (lifespan connected)
    pastExpiry   \* API keys and tokens whose expiry time has passed

vars == <<pc, cred, keyInfo, user, cur, status, metric, called, sent, rl,
          admits, storeUp, redisClient, pastExpiry>>

-----------------------------------------------------------------------------
(* Helpers translated from the code.                                       *)

\* get_api_key_from_header + validate_api_key: the record, or None when
\* no key, no client, the key is unknown, or Redis raises.
LookupKey(k) ==
    IF k # NoKey /\ redisClient /\ storeUp THEN KeyRecord[k] ELSE NoRecord

\* key_info.expires_at and datetime.utcnow() > key_info.expires_at
KeyExpired(k) == KeyRecord[k].expires /\ k \in pastExpiry

\* The JWT fallback: get_current_user, whose 401 is swallowed by the
\* surrounding except Exception, so a bad token yields None.
TokenPrincipal(t) ==
    IF /\ t # NoToken
       /\ TokenClaims[t].signed
       /\ TokenClaims[t].sub # NoSub
       /\ t \notin pastExpiry
    THEN [user |-> TokenClaims[t].sub, tier |-> "pro"]
    ELSE Anonymous

\* limit = tier_limits.get(user.tier, 10)
Limit(t) == IF t \in DOMAIN TierLimit THEN TierLimit[t] ELSE DefaultLimit

\* Mutant: INCR read as the value before the increment (GET, then SET).
IncrValueStale(n) == n

\* current = await redis_client.incr(key)
IncrValue(n) == n + 1

\* Mutants: the first-hit test off by one either way.
NeedsExpireZero(c) == c = 0
NeedsExpireSecond(c) == c = 2
\* Mutant: EXPIRE on every admitted INCR (a sliding window).
NeedsExpireAlways(c) == TRUE

\* if current == 1: await redis_client.expire(key, 60)
NeedsExpire(c) == c = 1

\* Mutant: the TTL one tick longer than the window.
SetTTLLong(k) == [k EXCEPT !.ttl = IF k.cnt > 0 THEN Window + 1 ELSE @]

\* redis_client.expire(key, 60): a TTL on an existing key; none otherwise.
SetTTL(k) == [k EXCEPT !.ttl = IF k.cnt > 0 THEN Window ELSE @]

\* headers = dict(request.headers) minus hop-by-hop, plus the user context.
ProxyHeaders(h, u) ==
    {x \in h : x[1] \notin HopByHop}
      \cup (IF u = Anonymous THEN {}
            ELSE {<<"X-User-Tier", u.tier>>, <<"X-User-Username", u.user>>})

\* HTTP header names are case-insensitive: the name the backend reads.
\* Inbound names are already lowercase (ASGI lowercases them).
CaseFold(n) ==
    IF n = "X-User-Tier" THEN "x-user-tier"
    ELSE IF n = "X-User-Username" THEN "x-user-username" ELSE n

\* The values the backend reads for header n.
BackendSees(hs, n) == {x[2] : x \in {y \in hs : CaseFold(y[1]) = n}}

-----------------------------------------------------------------------------
(* Initial state: lifespan() has run: redis.from_url + ping succeeded or  *)
(* redis_client is None; no request has started.                          *)

Init ==
    /\ redisClient \in BOOLEAN
    /\ storeUp = redisClient
    /\ pc = [r \in Req |-> "auth"]
    /\ cred = [r \in Req |-> EmptyCred]
    /\ keyInfo = [r \in Req |-> NoRecord]
    /\ user = [r \in Req |-> Anonymous]
    /\ cur = [r \in Req |-> 0]
    /\ status = [r \in Req |-> 0]
    /\ metric = [r \in Req |-> 0]
    /\ called = [r \in Req |-> FALSE]
    /\ sent = [r \in Req |-> {}]
    /\ rl = [p \in Users |-> Absent]
    /\ admits = [p \in Users |-> 0]
    /\ pastExpiry = {}

-----------------------------------------------------------------------------
(* Request steps.                                                          *)

\* Finish r with status s, recording label m (0: nothing recorded).
Finish(r, s, m) ==
    /\ pc' = [pc EXCEPT ![r] = "done"]
    /\ status' = [status EXCEPT ![r] = s]
    /\ metric' = [metric EXCEPT ![r] = m]

\* The comparison after INCR: current > limit raises 429 (the counter
\* already counted it), otherwise the request goes on to proxy_request.
Decide(r, c) ==
    LET p == user[r].user IN
    IF c > Limit(user[r].tier)
    THEN /\ Finish(r, 429, 429)
         /\ UNCHANGED admits
    ELSE /\ pc' = [pc EXCEPT ![r] = "forward"]
         /\ admits' = [admits EXCEPT ![p] = @ + 1]
         /\ UNCHANGED <<status, metric>>

\* A Redis call raised: the generic except records "500" and answers 500.
StoreError(r) ==
    /\ Finish(r, 500, 500)
    /\ UNCHANGED <<rl, cur, admits>>

\* if key_info and key_info.enabled
KeyUsable(info) == info # NoRecord /\ info.enabled

\* raise HTTPException(status_code=401, detail="API key expired")
KeyRejected(c) == KeyUsable(LookupKey(c.key)) /\ KeyExpired(c.key)

\* The User authenticate_request returns when it does not raise: the API
\* key's, else the JWT's, else None.
AuthPrincipal(c) ==
    LET info == LookupKey(c.key) IN
    IF KeyUsable(info) THEN [user |-> info.user, tier |-> info.tier]
    ELSE TokenPrincipal(c.bearer)

\* The Depends(authenticate_request) step, then the handler up to its
\* first await: limited when there is a user and a Redis client.
Authenticate(r) ==
    /\ pc[r] = "auth"
    /\ \E c \in Creds :
         /\ cred' = [cred EXCEPT ![r] = c]
         /\ keyInfo' = [keyInfo EXCEPT ![r] = LookupKey(c.key)]
         /\ \/ /\ KeyRejected(c)
               /\ Finish(r, 401, 0)
               /\ UNCHANGED user
            \/ /\ ~KeyRejected(c)
               /\ user' = [user EXCEPT ![r] = AuthPrincipal(c)]
               /\ pc' = [pc EXCEPT ![r] =
                           IF AuthPrincipal(c) # Anonymous /\ redisClient
                           THEN "incr" ELSE "forward"]
               /\ UNCHANGED <<status, metric>>
    /\ UNCHANGED <<cur, called, sent, rl, admits, storeUp, redisClient,
                   pastExpiry>>

\* current = await redis_client.incr(f"rate_limit:{user.username}")
Incr(r) ==
    /\ pc[r] = "incr"
    /\ LET p == user[r].user
           c == IncrValue(rl[p].cnt)
       IN \/ /\ storeUp
             /\ rl' = [rl EXCEPT ![p].cnt = c]
             /\ cur' = [cur EXCEPT ![r] = c]
             /\ IF NeedsExpire(c)
                THEN /\ pc' = [pc EXCEPT ![r] = "expire"]
                     /\ UNCHANGED <<status, metric, admits>>
                ELSE Decide(r, c)
          \/ /\ ~storeUp
             /\ StoreError(r)
    /\ UNCHANGED <<cred, keyInfo, user, called, sent, storeUp, redisClient,
                   pastExpiry>>

\* await redis_client.expire(key, 60), then the limit comparison.
Expire(r) ==
    /\ pc[r] = "expire"
    /\ LET p == user[r].user IN
       \/ /\ storeUp
          /\ rl' = [rl EXCEPT ![p] = SetTTL(rl[p])]
          /\ Decide(r, cur[r])
          /\ UNCHANGED cur
       \/ /\ ~storeUp
          /\ StoreError(r)
    /\ UNCHANGED <<cred, keyInfo, user, called, sent, storeUp, redisClient,
                   pastExpiry>>

\* proxy_request and the metrics that follow it.  A timeout or transport
\* error is an HTTPException (504/502) that the handler re-raises before
\* REQUEST_COUNT is touched.
Forward(r) ==
    /\ pc[r] = "forward"
    /\ called' = [called EXCEPT ![r] = TRUE]
    /\ sent' = [sent EXCEPT ![r] = ProxyHeaders(cred[r].hdrs, user[r])]
    /\ \/ \E code \in BackendCodes : Finish(r, code, code)
       \/ Finish(r, 504, 0)
       \/ Finish(r, 502, 0)
    /\ UNCHANGED <<cred, keyInfo, user, cur, rl, admits, storeUp,
                   redisClient, pastExpiry>>

-----------------------------------------------------------------------------
(* Environment: time, and the Redis server.                               *)

\* One tick of Redis's clock: TTLs count down; a key whose TTL runs out
\* is deleted, and with it the window of its user.
Tick ==
    /\ rl' = [p \in Users |->
                IF rl[p].ttl = 1 THEN Absent
                ELSE IF rl[p].ttl > 1 THEN [rl[p] EXCEPT !.ttl = @ - 1]
                ELSE rl[p]]
    /\ admits' = [p \in Users |-> IF rl[p].ttl = 1 THEN 0 ELSE admits[p]]
    /\ UNCHANGED <<pc, cred, keyInfo, user, cur, status, metric, called,
                   sent, storeUp, redisClient, pastExpiry>>

\* Credentials that carry an expiry: API-key records with expires_at, and
\* every token (create_access_token always sets exp).
Expirable ==
    {k \in ApiKeys : KeyRecord[k] # NoRecord /\ KeyRecord[k].expires}
      \cup Tokens

\* Time passes the expiry of an API key (expires_at) or a token (exp).
CredentialExpires ==
    /\ \E x \in Expirable \ pastExpiry :
         pastExpiry' = pastExpiry \cup {x}
    /\ UNCHANGED <<pc, cred, keyInfo, user, cur, status, metric, called,
                   sent, rl, admits, storeUp, redisClient>>

\* The Redis server becomes unreachable, or reachable again.
StoreFails ==
    /\ StoreCanFail /\ redisClient /\ storeUp
    /\ storeUp' = FALSE
    /\ UNCHANGED <<pc, cred, keyInfo, user, cur, status, metric, called,
                   sent, rl, admits, redisClient, pastExpiry>>

StoreRecovers ==
    /\ redisClient /\ ~storeUp
    /\ storeUp' = TRUE
    /\ UNCHANGED <<pc, cred, keyInfo, user, cur, status, metric, called,
                   sent, rl, admits, redisClient, pastExpiry>>

-----------------------------------------------------------------------------

Handle(r) == Authenticate(r) \/ Incr(r) \/ Expire(r) \/ Forward(r)

Next ==
    \/ \E r \in Req : Handle(r)
    \/ Tick
    \/ CredentialExpires
    \/ StoreFails
    \/ StoreRecovers

\* The event loop resumes every ready coroutine, Redis and httpx calls
\* end (httpx carries a timeout), and Redis's clock runs.
Fairness ==
    /\ \A r \in Req : WF_vars(Handle(r))
    /\ WF_vars(Tick)

Spec == Init /\ [][Next]_vars /\ Fairness

-----------------------------------------------------------------------------
(* Properties.                                                             *)

HeaderPairs == ClientHeaders \cup ({"X-User-Tier"} \X Tiers)
                             \cup ({"X-User-Username"} \X Users)

\* Every variable holds a value of its kind.
TypeOK ==
    /\ pc \in [Req -> Stages]
    /\ cred \in [Req -> Creds \cup {EmptyCred}]
    /\ keyInfo \in [Req -> KeyRecords \cup {NoRecord}]
    /\ user \in [Req -> Principals \cup {Anonymous}]
    /\ cur \in [Req -> Nat]
    /\ status \in [Req -> Nat]
    /\ metric \in [Req -> Nat]
    /\ called \in [Req -> BOOLEAN]
    /\ sent \in [Req -> SUBSET HeaderPairs]
    /\ rl \in [Users -> [cnt : Nat, ttl : 0..Window]]
    /\ admits \in [Users -> Nat]
    /\ storeUp \in BOOLEAN
    /\ redisClient \in BOOLEAN
    /\ pastExpiry \subseteq Expirable

\* The window of a user always ends: a rate_limit key that holds a count
\* but has no TTL exists only while the request whose INCR created it is
\* between its INCR and its EXPIRE (proxy_all_requests, the two awaits
\* incr and expire).  Otherwise the user is locked out for good once over
\* the limit.
NoImmortalKey ==
    \A p \in Users :
        rl[p].cnt > 0 /\ rl[p].ttl = NoTTL
          => \E r \in Req : pc[r] = "expire" /\ user[r].user = p

\* Every window ends: a counter that is set is eventually deleted by its
\* TTL, so a rate-limited user is admitted again in a later window.
KeyEventuallyExpires ==
    \A p \in Users : rl[p].cnt > 0 ~> rl[p].cnt = 0

\* No request is admitted by the limiter beyond its tier's limit in the
\* current window: the n-th admission of a user within one window of its
\* rate_limit key has n <= limit, even with concurrent requests of the
\* same user interleaving between INCR, EXPIRE and the comparison.
AdmissionWithinLimit ==
    [][\A r \in Req :
          pc[r] \in {"incr", "expire"} /\ pc'[r] = "forward"
            => admits'[user[r].user] <= Limit(user[r].tier)]_vars

\* Spec 4.2 and 5.2, a fixed window: once the EXPIRE of a window's first
\* INCR gave the rate_limit key its TTL, no request of that window sets it
\* again, so the TTL only counts down until the key is deleted, however
\* concurrent requests of the user interleave between their INCR and the
\* `if current == 1` EXPIRE.
WindowNeverExtended ==
    [][\A p \in Users : rl[p].ttl # NoTTL => rl'[p].ttl <= rl[p].ttl]_vars

\* Spec 3, 4.1 and 6, and test_invalid_auth in test_fastapi.py: the
\* backend only ever serves a request on behalf of what an accepted
\* credential established: a disabled API key never gets through, a
\* bearer token the gateway cannot accept is answered 401 rather than
\* proxied as anonymous, and the x-user-tier the backend reads is the one
\* the gateway injected for the principal (none for anonymous requests).
ForwardsOnlyAuthenticatedContext ==
    \A r \in Req :
        called[r] =>
            /\ keyInfo[r] # NoRecord => keyInfo[r].enabled
            /\ user[r] = Anonymous => cred[r].bearer = NoToken
            /\ BackendSees(sent[r], "x-user-tier")
                 \subseteq (IF user[r] = Anonymous THEN {} ELSE {user[r].tier})

=============================================================================
