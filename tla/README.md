# A TLA+ verification project for the Bitcoin Sprint FastAPI gateway

This directory holds TLA+ models of the gateway in
`src/Bitcoin_Sprint_fastapi/fastapi-gateway/main.py`. It also has TLC
configurations that model-check small instances, TLAPS proofs that cover
every instance, and `PROJECT.json`, which maps each definition to the source
lines it translates. `PROJECT.json` also lists the runs, the mutants, the
findings and the hazards.

## 1. The system

### Parts of `main.py`

`main.py` is an asyncio (FastAPI) reverse proxy. It has these parts:

- **Authenticator**:
  - `authenticate_request` (248-272) is the `Depends` of every proxied
    request.
  - It reads an API key from the header or the query string
    (`get_api_key_from_header`, 226-231) and looks up `api_key:{key}` in
    Redis (`validate_api_key`, 233-246).
  - A record that exists and is *enabled* wins, unless its `expires_at` has
    passed; an expired key gives a 401.
  - Otherwise the `Authorization: Bearer` token is decoded by
    `get_current_user` (202-224). That function always builds a user with
    tier `"pro"`.
  - Any exception of the JWT path, its own 401 included, is swallowed
    (`except Exception: pass`). The request then goes on as anonymous
    (`None`).
- **Rate limiter** (in `proxy_all_requests`, 486-508). For a user, when a
  Redis client exists:
  1. `current = await redis_client.incr("rate_limit:{username}")`.
  2. `if current == 1: await redis_client.expire(key, 60)`.
  3. `if current > limit`: count a `429` in `REQUEST_COUNT` and raise 429.
     The limits are 10, 100 and 1000 for free, pro and enterprise; any
     other tier gets 10.
- **Proxy forwarder** (`proxy_request`, 275-329):
  - Copies the inbound headers and drops the eight hop-by-hop names.
  - Adds `X-User-Tier` and `X-User-Username` when there is a user.
  - Calls the backend with httpx.
  - Maps a timeout to an `HTTPException(504)` and any other transport error
    to `HTTPException(502)`.
- **Request metrics**:
  - After a backend answer, `REQUEST_COUNT{status}` is incremented
    (514-523).
  - `except HTTPException: raise` (537-538) re-raises 429, 502 and 504
    without counting them. Only the 429 was counted before it was raised.
  - Every other exception is counted as `500` and answered 500 (539-551).
- **Startup** (`lifespan`, 393-413): `redis.from_url` and `ping`. If they
  fail, `redis_client = None` for the whole life of the process, and the
  limiter and the key lookup are skipped. Startup also starts the health
  poller.
- **Backend health poller** (`update_backend_status`, 384-389, and
  `/health`, 442-451): every 30 s, one probe sets `backend_status` to
  healthy, unhealthy or unreachable.
- **WebSocket relay** (`WebSocketProxy.connect`, 337-363): accepts the
  socket, registers it and increments the `ACTIVE_CONNECTIONS` gauge, then
  opens a backend stream. The relay itself is a stub. The `finally` clause
  deregisters the socket and decrements the gauge.
  - The `/ws` route (`websocket_endpoint`, 553-556) never gets to
    `connect`. Its dependency `authenticate_request` declares
    `request: Request`, and FastAPI supplies no `Request` on a WebSocket
    route. So resolving the dependency raises before `connect` is called.
- **Login** (461-472): issues a 30-minute JWT for `demo`/`demo`.

### Other programs in `src/`

These are not part of the gateway:

- `turbo_api_integration.py` is a second, independent relay. Its startup
  waits for a validator service.
- `solana-metrics-exporter.py` and `config/solana-exporter.py` are periodic
  RPC scrapers that fill Prometheus gauges. The first is an asyncio task,
  and the model covers it.
- `debug_generate_key.py` is a one-shot script.
- `test_fastapi.py` is an HTTP smoke test. Its `test_invalid_auth` is used
  as a statement of intended behaviour.

### How the parts interact

Every request is a coroutine of one event loop. Requests interleave only at
`await`s. The ones that touch shared state are:

- the Redis `GET` of the key record;
- the `INCR`;
- the `EXPIRE`;
- the backend call.

Redis is the only shared mutable state between requests. Its counters and
their TTLs are shared by all requests of one username.

## 2. What is modelled

### `Gateway.tla`: authenticator, rate limiter, forwarder and metrics

**State.** The model has these variables:

- Per request `r`:
  - `pc[r]`: the stage of the coroutine, one of `auth`, `incr`, `expire`,
    `forward`, `done`.
  - `cred[r]`: the credentials it presented.
  - `keyInfo[r]`: the key record it read.
  - `user[r]`: the `User` it got, or `Anonymous`.
  - `cur[r]`: the value its `INCR` returned.
  - `status[r]`: the HTTP status it was answered with.
  - `metric[r]`: the status label it left in `REQUEST_COUNT`, 0 for none.
  - `called[r]`: whether the backend was called.
  - `sent[r]`: the headers the backend received.
- Redis:
  - `rl[p]`: the `rate_limit:{p}` key as a record `[cnt, ttl]`. `ttl = 0`
    means the key has no TTL; `Absent` means the key does not exist.
  - `storeUp`: whether the server is reachable.
  - `redisClient`: whether `lifespan` kept a client.
- Time: `pastExpiry`, the credentials whose `expires_at` or `exp` has
  passed.
- Ghost: `admits[p]`, the number of admissions in `p`'s current window.
  It is used only to state the limit property.

**Actions.** Each action is the code between two awaits:

- `Authenticate(r)` covers the `Depends` and the handler up to the first
  Redis call. It does the whole key/JWT decision, including the 401 of an
  expired key.
- `Incr(r)` is the `INCR` and either the 429/admit decision or the move to
  `expire`. If Redis is down it gives 500.
- `Expire(r)` is the `EXPIRE` followed by the same decision. If Redis is
  down it gives 500.
- `Forward(r)` is `proxy_request` and the metrics after it. The backend
  answers with a code, a timeout (504) or a transport error (502).

The environment has these actions:

- `Tick`: Redis's clock. TTLs count down, and a key whose TTL reaches 0 is
  deleted.
- `CredentialExpires`: an API key's or a token's expiry passes.
- `StoreFails` and `StoreRecovers`: Redis becomes unreachable or reachable
  again after startup.

**Data abstraction.**

- Users, keys and tokens are model values.
- A key record is `[user, tier, enabled, expires]`.
- A token is reduced to what `jwt.decode` decides: a valid signature and a
  `sub`.
- Headers are name/value pairs. `CaseFold` gives the name the backend reads,
  because HTTP header names are case-insensitive.

**Abstractions to check when reviewing.**

- A `User`'s username is the model value `info.user` of the key record. In
  the code it is `api_key_{name}`.
- The query-string API key is the same input as the header key.
- Redis `TTL` and the code's 60 s become `Window` ticks of `Tick`.
- The limits 10/100/1000 are scaled to 1/2/3 in the MC instance. Only their
  order and the comparison matter.

### `MCGateway.tla`: the instance for TLC

`MCGateway` extends `LimiterProofs` (and through it `GatewayProofs`), so
its runs can also check the inductive invariants `IInv` and `AInv` of the
proofs.

The instance has:

- three requests;
- three users: `ua`, whose key is free; `ub`, whose key is "gold" (a tier
  with no entry, so the default limit applies) and has an expiry; and `uc`,
  the JWT subject, which gets "pro";
- a disabled key and an unknown key;
- a good token and a forged token;
- two client headers: `te` (hop-by-hop) and a spoofed lowercase
  `x-user-tier`.


### `HealthMonitor.tla`: the backend health poller

It models `check_backend_health` (372-382), `update_backend_status`
(384-389) and the `backend_status` global (182-183).

**State.**

- `backend`: how the backend behaves now:
  - `ok` answers 200, sending each part within the timeout;
  - `error` answers another code, in the same way;
  - `down` refuses or drops the connection;
  - `slow` leaves a wait unanswered past the timeout.
- `backend_status`: the global that `/health` reports. It starts as
  `unknown`.
- `poller`: whether the task is in the probe or in `asyncio.sleep(30)`.
- `elapsed`: the ticks since the current wait of the probe, or the sleep,
  began.
- `wait`: the number of the probe's current wait. httpx's `timeout=5.0`
  bounds each connect, write and read separately (375); it does not bound
  the whole GET.
- Ghost `okAgo`: the ticks since the backend last answered 200. It is capped
  at `AgeCap`.
- Ghost `steady`: the ticks since the backend last changed behaviour,
  capped at `AgeCap`. It is used only to state `StatusSettles`.

**Actions.**

- `ProbeProgresses` is one wait of `client.get` ending in time. The next
  wait starts with a fresh timeout, up to `MaxWaits` waits.
- `ProbeAnswered` and `ProbeFailed` end the probe, and include the
  assignment up to the start of the sleep. `ProbeFailed` is a refused
  connection, or the current wait's timeout expiring.
- `Wake` is the end of the sleep.
- `Tick` is one time unit. It is disabled while a timer is due, because
  the event loop fires a due timer.
- `BackendChanges` is the environment.

Time is discrete. `Period` and `ProbeTimeout` stand for the 30 s sleep and
the 5 s httpx timeout of one wait. `MaxWaits` bounds how many waits one
probe makes. It is a bound of the model: the gateway puts no limit on it,
since a backend that keeps sending each part in time keeps the probe open.

### `WebSocketRelay.tla`: the WebSocket proxy

It models `WebSocketProxy.connect` (332-369) for concurrent clients, with
the backend URL of line 439. The `/ws` route (553-556) is left out,
because its dependency raises before `connect` runs (see section 1). The
module therefore states what `connect` guarantees for a caller that
reaches it.

**State.**

- `st[c]`: the stage of each connection's coroutine.
- `active`: `ws_proxy.active_connections`.
- `gauge`: `ACTIVE_CONNECTIONS`.
- Ghost `accepted`: the clients whose accept returned.

**Actions.** Each action runs from one await to the next:

- `Accept`: the accept, which is outside the `try`. It either registers
  the client and increments the gauge, or raises and ends `connect`.
- `Open`: the stream request. It gives a 101, another code, or an
  exception.
- `Relay`: the relay stub.
- `Notify`: `send_text` of the error frame.
- `Cleanup`: the `finally`.

**The backend URL.**

- `WsScheme` models `backend_url.replace("http", "ws")`, which is
  case-sensitive.
- `HttpxSends` gives the schemes httpx accepts.
- With the default `http://` URL, every stream request would raise
  `UnsupportedProtocol`, and no client would get a relay or an error
  frame. The route never reaches `connect`, so this is not a finding.
- The passing run therefore uses an upper-case `HTTP://` backend URL. It is
  the only spelling that `replace` leaves streamable, and so the only way
  the relay and the error-frame paths are reachable at all.

### `TurboStartup.tla`: the turbo gateway's startup hook

It models `startup_validation` of `turbo_api_integration.py` (120-155).

**State.**

- `phase`: one of `wait`, `validate`, `blocked` (inside a GET that is
  never answered), `serving`.
- `i`: the loop index.
- `validator`: the validator's current behaviour, one of `ready`,
  `warming` (another code), `down` (raises within the 2 s timeout), or
  `stalled` (never answers).
- Ghosts: `sawReady`, and `slept` (seconds slept).

**Actions.**

- `Attempt` is one iteration of the retry loop, with its `break`, its
  fall-through, its sleep, and the re-raise on the last attempt.
- `Validate` is the validation GET, which has no timeout. Its outcome is
  decided by the validator's behaviour when the request reaches it. A
  `stalled` validator leaves the hook `blocked` for good. Any other
  behaviour lets the GET return.
- `ValidatorChanges` is the environment.

The rest of the turbo relay is not modelled (see section 6).

### `SolanaExporter.tla`: the Solana metrics exporter

It models the collection task of `solana-metrics-exporter.py`
(`collect_metrics`, 182-185, and `SolanaMetricsCollector`, 28-149). A
round is an `asyncio.gather` of five collectors, each making one
`make_rpc_call` with `timeout=10`, followed by
`asyncio.sleep(update_interval)`. A `/metrics` scrape returns the gauges as
they stand, so the gauge variables are what a scrape sees.

**State.**

- `chain`: the cluster's progress, which every count and height is read
  from.
- `loop`: `gather` or `sleep`. The timers are `elapsed` (since the requests
  were sent) and `slept`.
- `co[c]`: the state of collector `c`, one of `wait`, `served` or `done`.
  `served` means the node has read its transaction count into `txAnswer`
  and the answer is still in flight.
- `gauge`, `tps` (kept as the fraction `num / den` of line 103),
  `last_tx_count`, and `sinceUpdate` (`time.time() - last_update`, capped
  at `TimeCap`).

**Actions.**

- `Answer`, `AnswerValidators`, `ServeTx` then `DeliverTx`, and
  `HealthAnswered` are the successful calls. `DeliverTx` is the whole of
  lines 95-107: the count gauge, the rate under its guard, and the moves of
  `last_tx_count` and `last_update`.
- `Fail` and `TimedOut` are `make_rpc_call` returning `{}`. Only
  `collect_network_health` still sets its gauges then.
- `Gathered`, `Wake` and `Tick` are the event loop. Time cannot pass a
  timer that is due.
- `NodeCanLag` lets the node behind `rpc_url` answer one count behind, as a
  replica behind a load balancer would.

### `LimiterAbstract.tla`: what the rate limiter promises

This is an abstract specification, with no code behind it. Each principal
has a window that opens (`Open`), admits requests up to its limit
(`Admit`), and closes together with others whose windows end at the same
moment (`Close`), after which the count starts over. `LimiterProofs` maps
`Gateway`'s limiter onto it (see section 4).

### `TxSamplerAbstract.tla`: what the exporter's count and rate promise

This is an abstract specification, with no code behind it. The cluster's
count grows (`Advance`). A sample (`Sample`) publishes a count between the
last published one and the cluster's, together with a rate that is kept or
set to the growth since the last sample. `SolanaExporterProofs` maps the
exporter onto it:

- `count` is the `solana_transaction_count` gauge;
- `rate` is the numerator of `solana_tps`.

### `RegistryAbstract.tla`: what the WebSocket registry promises

This is an abstract specification, with no code behind it. A client is
registered (`Register`) only if it was never registered before, and a
registered client is released (`Release`). The count moves by one with
each. `WebSocketRelayProofs` maps the relay onto it:

- `registered` is `active`;
- `released` is `accepted \ active`;
- `count` is the gauge.

## 3. Runs

There are 12 runs:

| run | module / cfg | checks | result |
|---|---|---|---|
| limiter | `MCGateway` / `MCGateway_limiter.cfg` | `TypeOK`, `NoImmortalKey`, `IInv`, `MCAInv`, `AdmissionWithinLimit`, `KeyEventuallyExpires`, `LimiterRefinement` | pass (about 100k states, 1 min) |
| outage | `MCGateway` / `MCGateway_outage.cfg` | `TypeOK`, `MCAInv`, `AdmissionWithinLimit`, `LimiterRefinement`, `WindowNeverExtended`, with Redis failing and recovering | pass (about 250k states, 1 min) |
| forwarded_context | `MCGateway` | `ForwardsOnlyAuthenticatedContext` | violation |
| lockout | `MCGateway` | `NoImmortalKey`, with Redis failing | violation |
| poller | `HealthMonitorProofs` / `HealthMonitorProofs_poller.cfg` | `TypeOK`, `HealthyIsFresh`, `StatusSettles`, `HInv`, `StatusFollowsBackend` | pass |
| stale_health | `HealthMonitor` | `HealthyWithinPollInterval`, with probes of two waits | violation |
| relay | `WebSocketRelayProofs` / `WebSocketRelayProofs_relay.cfg` | `TypeOK`, `GaugeMatchesRegistry`, `WInv`, `RegistryRefinement`, `ClientEventuallyReleased` | pass |
| startup | `TurboStartupProofs` / `TurboStartupProofs_startup.cfg` | `TypeOK`, `GivesUpAfterAllAttempts`, `StartupCompletes` | pass |
| no_wait | `TurboStartup` | `WaitsBeforeGivingUp` | violation |
| hang | `TurboStartup` | `StartupCompletes`, with a validator that may stall | violation |
| exporter | `SolanaExporterProofs` / `SolanaExporterProofs_exporter.cfg` | `TypeOK`, `TpsNonNegative`, `EInv`, `TxSampling`, `RoundCompletes` | pass (about 270k states, 1 min) |
| negative_tps | `SolanaExporter` | `TpsNonNegative`, with a replica one count behind | violation |

Each passing property has a mutant in `PROJECT.json`. A mutant is a
plausible bug in the mapped definition, such as the EXPIRE tested on the
wrong count, a sleep one tick late, or the accept moved inside the `try`.
TLC finds each mutant violating its property.

### The properties

- **`NoImmortalKey`**: a key that holds a count but has no TTL exists only
  while the request that created it is between its `INCR` and its
  `EXPIRE`. Breaking it takes the first hit plus a later step that fails to
  set the TTL.
- **`AdmissionWithinLimit`** is an action property. When a request passes
  the limiter, the number of admissions of its user in the current window,
  this one included, is at most the tier's limit. Breaking it takes several
  requests of one user interleaved between `INCR`, `EXPIRE` and the
  comparison.
- **`WindowNeverExtended`** is an action property. Once the `EXPIRE` of a
  window's first `INCR` has given a key its TTL, no step gives it a longer
  one, so the window is fixed (spec 4.2 and 5.2). It depends on the
  `if current == 1` test under concurrency: an `EXPIRE` on every `INCR`
  (the mutant `NeedsExpireAlways`) makes a sliding window.
- **`KeyEventuallyExpires`**: every counter is eventually deleted, so a
  throttled user is served again.
- **`HealthyIsFresh`**: `/health` never says healthy about a backend that
  has not answered 200 for more than one sleep plus the longest probe
  (`ProbeSpan`, that is `MaxWaits` timeouts).
- **`HealthyWithinPollInterval`** is the `stale_health` run's property. It
  is the bound that spec 5's 5 s probe timeout and the loop's "every 30
  seconds" suggest: one sleep plus one timeout.
- **`StatusSettles`**: once the backend has kept one behaviour for longer
  than one sleep plus the longest probe, `backend_status` is what a probe
  of it returns. It is the safety counterpart of `StatusFollowsBackend`,
  with the delay bounded. The bound is tight: lowered by one tick, the
  property fails.
- **`StatusFollowsBackend`**: once the backend keeps one behaviour, the
  status settles on the matching value.
- **`GaugeMatchesRegistry`**: `ACTIVE_CONNECTIONS` equals the number of
  registered clients. This holds for any interleaving of concurrent
  `connect` calls and on every exit path.
- **`RegistryRefinement`**: under the mapping of `WebSocketRelayProofs`,
  the relay implements `RegistryAbstract`. No client is counted twice,
  released without having been registered, or registered again after its
  release, and the gauge never moves alone.
- **`ClientEventuallyReleased`**: every registered client is eventually
  deregistered and closed.
- **`GivesUpAfterAllAttempts`**: startup leaves the wait loop without a 200
  only after the full retry budget.
- **`StartupCompletes`**: the hook returns, so the app serves.
- **`LimiterRefinement`**: under the refinement mapping of `LimiterProofs`,
  every behaviour of the limiter is a behaviour of `LimiterAbstract`.
- **`ForwardsOnlyAuthenticatedContext`**: a request the backend is called
  for was authenticated as the principal whose context is forwarded. This
  means three things:
  - no disabled key was presented;
  - an anonymous request carried no bearer token;
  - the only `x-user-tier` the backend sees is the gateway's own.
- **`TpsNonNegative`**: `solana_tps` is never negative.
- **`TxSampling`**: with one node, the exporter implements
  `TxSamplerAbstract`. The published count never moves back and is never
  ahead of the cluster, and the rate is the growth between two successive
  published counts.
- **`RoundCompletes`**: every collection round of the exporter ends, so the
  gauges are refreshed again whatever the node does.

### The findings

`PROJECT.json` "findings" gives the source line of each. They are:

- the backend is called with context that was never authenticated
  (`forwarded_context`). TLC's trace is a forged bearer token forwarded as
  anonymous instead of getting a 401. The same property is also broken by
  two other paths:
  - a disabled key, which falls through to anonymous forwarding;
  - a client's lowercase `x-user-tier`, which reaches the backend next to
    the injected one.
  Each path was confirmed separately while writing the property;
- a Redis failure between `INCR` and `EXPIRE` locks a user out for good
  (trace: r1 INCR → 1, Redis fails, EXPIRE raises, 500, the key keeps
  `cnt = 1` with no TTL);
- ten quick non-200 status answers end the turbo wait loop without any
  sleep;
- a validator that answers the status check with 200 and then stalls
  before the validation GET reaches it blocks turbo startup forever,
  because that GET has no timeout (`hang`: `Attempt` sees `ready`, the
  validator stalls, and `Validate` leaves the hook `blocked`);
- a healthy snapshot can outlive the 30 s sleep plus one 5 s timeout
  (`stale_health`). httpx's timeout bounds each wait of the probe, not the
  probe, so a backend that turns to errors and answers each part just in
  time keeps the old `healthy` for one sleep plus two timeouts (the trace
  has `okAgo = 7 > 3 + 2`).
- `solana_tps` goes negative when the RPC URL is served by replicas and
  one answers a count lower than the last one read (`negative_tps`): a
  sample of 1 followed by a sample of 0.

### Other divergences

These divergences were met while modelling. Each comes down to a single
step, so none gets a run of its own:

- The `/ws` route (556) depends on `authenticate_request(request:
  Request)`. FastAPI supplies no `Request` to a WebSocket route's
  dependency, so every WebSocket connection fails before
  `ws_proxy.connect`. Spec 4.4 says the route upgrades the connection and
  relays it.

- Every JWT user is built with tier `pro` (line 221). The spec says a
  token without a tier claim gets `free`.
- `except HTTPException: raise` (537) leaves 502, 504 and 401 responses
  out of `REQUEST_COUNT`.
- A Redis outage after startup answers 500 (539), where spec 4.2 says the
  limiter fails open.
- `/health` reports `unreachable` after one failed poll (382). The spec
  says after three consecutive failed polls.
- The exporter reads `current_time` when the transaction count arrives,
  not when the node read it (100). Network delay therefore moves
  `time_diff` without moving the count. The model reaches this skew, since
  `ServeTx` and `DeliverTx` are separate, but the code claims no accuracy
  to check it against.
- The exporter's latency gauge is set on a failed or timed-out `getHealth`
  too (132-133).

### Bounds

**Gateway.**

- Three requests let two requests of one user race between `INCR` and
  `EXPIRE` while a third one exceeds a limit of 2.
- A window of 2 ticks lets a window expire in the middle of another
  request's steps.
- The limits are 1, 2 and 3: free and the default for "gold" get 1, pro
  gets 2, enterprise gets 3. Every limit in reach can then be exceeded
  within three requests.
- The users are kept disjoint per tier. A username shared by an API-key
  user and a JWT user of different tiers shares one counter, and then the
  limit of the smaller tier can be exceeded. This is recorded as a hazard.
  With the code's naming (`api_key_{name}` against a login) it needs a
  deliberately chosen key name.
- `Permutations(MCReq)` is a symmetry set, used only in the `outage`
  safety run.
- The `limiter` run checks a liveness property, so it cannot use the
  symmetry and walks the whole graph. It therefore uses two credentials
  (`MCCredsReliable`): the free key user and the pro token user, whose
  limits three requests can exceed. The `outage` run, whose behaviours
  include every behaviour with Redis up, adds the expiring `gold` key.

**Health poller.** `Period = 3`, `ProbeTimeout = 2` and `MaxWaits = 2`.
- A probe can then time out before or after the backend changes, and the
  staleness bound is reached exactly.
- Two waits are the fewest that take a probe past one timeout, which is
  what `stale_health` needs. The proofs cover every `MaxWaits`.

**WebSocket relay.** Three connections with every backend answer are
enough for one client to be accepted while another is in its `finally`.

**Turbo startup.** `MaxRetries = 10` is the code's own value.

**Solana exporter.**

- `MaxCount = 2` lets the chain advance twice, so two successive TPS
  samples can differ.
- `Interval = 2` and `RpcTimeout = 2` let the chain advance during a round
  and during the sleep.
- `TimeCap = 4` caps `now - last_update`. It is larger than `Interval`, so
  a rate is computed over more than one round when a sample is lost. The
  cap changes only how large `time_diff` may grow, never its sign.

### Fairness

**Gateway.** `WF` holds for each request's `Handle` and for `Tick`, for
these reasons:

- The event loop resumes every ready coroutine.
- Every Redis and httpx call returns or raises, because httpx carries
  `backend_timeout`.
- Redis's clock runs.

**Health poller.** `WF` holds for the probe's steps, the wake-up and
`Tick`. Each wait of the probe has a 5 s timeout, and the sleep is a timer.
`StatusFollowsBackend` also needs every probe to end. In the model,
`MaxWaits` bounds the number of waits; in the code, the finite answer of
`/health` does.

**WebSocket relay.** `WF` holds for each connection's steps, because
accept, the stream request and `send_text` all return or raise.

**Solana exporter.** `WF` holds for the timers (`TimedOut`, `Wake`,
`Tick`) and for the return of `gather`, all of which the event loop fires.
Answers from the node have no fairness. `RoundCompletes` therefore rests
only on `timeout=10`, and the `DueNever` mutant shows it fails without it.

**Turbo startup.** `WF` holds for `Attempt` and `Validate`, because the
hook is a plain sequence of blocking calls. `Validate` stays enabled while
the hook is at the validation GET. Its outcome is fixed by the validator
the GET reaches, so fairness never skips a GET that a ready validator
would answer. In the `hang` run, the hook ends up `blocked` only after the
GET reaches a stalled validator.

The environment actions have no fairness. They may never happen.

## 4. What is proved (TLAPS)

Each theorem holds for every value of the constants that satisfies the
module's `ASSUME`.

### `GatewayProofs.tla`

- **`TypeCorrect`**: `Spec => []TypeOK`.
  - The invariant used is `TypeInv`: `TypeOK` plus "a request at `incr` or
    `expire` has a principal".
  - The proof rests on lemmas about `LookupKey`, `TokenPrincipal`,
    `AuthPrincipal`, `Decide` and `ProxyHeaders`.
- **`NoImmortalKeyHolds`**: `~StoreCanFail` implies
  `Spec => []NoImmortalKey`.
  - `NoImmortalKey` is not inductive. A `Tick` or a second `INCR` could
    break it from a state where a request at `expire` points at a key that
    already has a TTL.
  - The strengthening `IInv` adds these conjuncts:
    - `storeUp = redisClient`;
    - a request at `incr` or `expire` implies a Redis client exists;
    - a request at `expire` points at a key with a count and no TTL;
    - at most one request per user is at `expire`;
    - an absent key has no TTL.
  - All conjuncts but the first are `KInv`, which holds whether or not
    Redis fails: a failed `INCR` or `EXPIRE` only ends its request.
  - `IInv` is `KInv`, `storeUp = redisClient` and `NoImmortalKey`.
  - The `limiter` run checks `IInv` first.
  - The proof consists of `Init => IInv`, `IInv /\ [Next]_vars => IInv'`
    (one step per action) and `IInv => NoImmortalKey`.
  - The `lockout` run shows that the assumption `~StoreCanFail` is needed.
- **`KInvHolds`**: `Spec => []KInv`, with no assumption on Redis.
- **`IInvHolds`**: `~StoreCanFail` implies `Spec => []IInv`.
- **`WindowNeverExtendedHolds`**: `Spec => WindowNeverExtended`, with no
  assumption on Redis. The lemma `NextWindow` shows that no step lengthens
  a TTL. An `EXPIRE` runs only for a key without a TTL, by
  `ExpireHoldsFirstHit` of `KInv`. `INCR` leaves the TTL alone, and `Tick`
  shortens it (lemma `TickRl`).

### `HealthMonitorProofs.tla`

Every theorem holds for every positive `Period`, per-wait `ProbeTimeout`
and number of waits `MaxWaits`.

- **`HealthTypeCorrect`** proves `Spec => []TypeOK`.
- **`HealthyIsFreshHolds`** proves `Spec => []HealthyIsFresh`. The bound
  is `Period + MaxWaits * ProbeTimeout`. The per-wait timeout bounds the
  staleness only through the number of waits, and the `stale_health` run
  shows that one timeout is not enough.
- **`StatusSettlesHolds`** proves `Spec => []StatusSettles`, with the same
  bound.
- **`HInvHolds`** proves `Spec => []HInv`. The other theorems follow from
  it.
- None of the properties is inductive alone. `HInv` adds three facts:
  - the timers never pass their deadlines, and that of a probe is the
    deadline of its current wait;
  - `StalenessBound` is `elapsed` while sleeping, and
    `Period + (wait - 1) * ProbeTimeout + elapsed` while probing. A
    healthy status is no older than that;
  - a status that differs from the backend's classification was written
    at most `StalenessBound` ticks after the backend last changed.
- Supporting lemmas:
  - `NextWaitBound`: starting the next wait never lowers the bound;
  - `ProbeWithinSpan` and `StalenessWithinSpan`: the bound never exceeds
    `Period + ProbeSpan`. These are the two nonlinear facts, one product
    of a variable and a constant each.

### `WebSocketRelayProofs.tla`

- **`GaugeMatchesRegistryHolds`** proves `Spec => []GaugeMatchesRegistry`
  for any finite set of connections.
- **`WInvHolds`** proves `Spec => []WInv`, and **`RelayTypeCorrect`**
  proves `Spec => []TypeOK`. The gauge therefore stays within
  `0..Cardinality(Conns)`.
- The invariant `WInv` says four things:
  - `active` is exactly the set of connections in a registered stage;
  - the gauge is its cardinality;
  - `active` is contained in `accepted`;
  - an accepted client is never back at the start of `connect`.
- **`RelayRefinesRegistry`** proves `Spec => RegistryRefinement`. The
  proof has two steps:
  - `InitRefines`;
  - `NextRefines`: a successful `Accept` is `Register`, `Cleanup` is
    `Release`, and every other step is a stutter.
  - The last conjunct of `WInv` is what makes `Accept` a `Register` of a
    client never registered before.
- `Accept` and `Cleanup` use `FS_AddElement` and `FS_RemoveElement` of
  `FiniteSetTheorems`.

### `LimiterProofs.tla`

- **`AdmissionWithinLimitHolds`** proves `Spec => AdmissionWithinLimit`,
  the action property of the `limiter` and `outage` runs. It holds for
  every number of requests, users, tiers and limits, whether or not Redis
  fails.
- It rests on one hypothesis, `OneTierPerUser(UT)`: every key record of a
  username, and every token subject (always `pro`), carries the one tier
  `UT[p]`.
- The hypothesis is needed. The limit applied is
  `tier_limits[user.tier]`, and a counter shared by principals of two
  tiers is compared with two limits (see the hazard at line 496).
- **`AInvHolds`** proves `Spec => []AInv(UT)` under the same hypothesis.
- The inductive invariant `AInv` is `KInv` plus three conjuncts:
  - a request at the limiter carries its username's tier;
  - the request waiting at `EXPIRE` got 1 from its `INCR`;
  - `CountsAdmissions`: `admits[p]` plus the waiting first hit is at most
    both the counter `rl[p].cnt` and the limit.
- Why `CountsAdmissions` holds:
  - Every admission was counted by an `INCR` of the current window.
  - A key is deleted only with a TTL, which it never has while its first
    hit waits. `Tick` therefore resets `admits` and the counter together.
- A failed `INCR` or `EXPIRE` (lemma `StoreErrorAInv`) changes no key
  and no admission count, so `AInv` does not need Redis to be up.
- The action property then follows from `AInv` in the states before and
  after each step.
- `MCAInv` checks `AInv` on the limiter instance, together with the
  hypothesis.

- **`LimiterRefines`**: under `OneTierPerUser(UT)`, whether or not Redis
  fails,
  `Spec => Abs(UT)!Spec`, where `Abs(UT)` is `LimiterAbstract` instantiated
  with a refinement mapping:
  - a principal's window is `open` exactly when its Redis key holds a
    count;
  - `used` is the ghost `admits`;
  - `UserLimit` is `tier_limits` of the principal's tier.
  - The proof has these steps:
    - `InitRefines`;
    - `StutterRefines`: a step that leaves `rl` and `admits` alone is a
      stutter;
    - `NextRefines`, with one case per action:
      - a first `INCR` is `Open`;
      - an admitting `INCR` is `Admit`, with the bound taken from `AInv`;
      - `Tick` is `Close` of the keys whose TTL runs out;
      - a failed `INCR` or `EXPIRE` is a stutter.
  - A window whose `EXPIRE` failed never closes. The abstract limiter
    allows this, because `Close` carries no fairness.
  - The `limiter` and `outage` runs check the same refinement as
    `LimiterRefinement` on their instance.

### `SolanaExporterProofs.tla`

- **`ExporterTypeCorrect`** proves `Spec => []TypeOK`. The rate's
  denominator is a positive `time_diff`.
- **`TpsNonNegativeHolds`** proves `~NodeCanLag => (Spec => []TpsNonNegative)`.
  - The inductive invariant `EInv` says three things:
    - `last_tx_count` is at most the chain's count;
    - an answer in flight is at most the chain's count;
    - with one node, an answer in flight is at least `last_tx_count`,
      because it was read after the last one was applied.
  - `TpsNonNegative` alone is not inductive: it says nothing about the
    answer in flight.
  - The `negative_tps` run shows that the hypothesis `~NodeCanLag` is
    needed.
- **`EInvHolds`** proves `Spec => []EInv` for every constant, lagging
  node or not. The conjuncts about ordering are stated under `~NodeCanLag`.
  `EInv` also says that the published count equals `last_tx_count`.
- **`ExporterRefinesSampler`** proves
  `~NodeCanLag => (Spec => TxSampling)`.
  - `InitSamples`: the gauges start at 0.
  - `NextSamples`: `DeliverTx` is a `Sample` of `txAnswer`, which `EInv`
    places between the published count and the chain's. A `Tick` that
    advances the chain is `Advance`, and every other step is a stutter.

### `MCGatewayProofs.tla`

This module states the `LimiterProofs` results for the instance that the
`limiter` and `outage` runs check. Its hypothesis `MCLimiterInstance` is
what the two cfg files set:

- `Users`, `Tiers`, `ApiKeys`, `Tokens`, `KeyRecord` and `TokenClaims` are
  the instance's definitions;
- the model values of the users and of the keys are distinct, as TLC's
  model values are.

The results:

- **`InstanceOneTier`** (lemma): the instance has one tier per username.
  `kFree` is `ua`'s free key, `kExpiring` is `ub`'s gold key, and the
  token's subject `uc` gets `pro`.
- **`MCAInvHolds`**: `Spec => []MCAInv`, with or without Redis failures.
- **`MCLimiterRefines`**: `Spec => LimiterRefinement`. TLC checks the
  abstract limiter through the non-parameterized instance `MCAbs`. The
  proof shows that its `Init` and its step are those of
  `Abs(MCLimiterTier)`, which `LimiterRefines` covers.

### `TurboStartupProofs.tla`

- **`TurboTypeCorrect`** and **`GivesUpAfterAllAttemptsHolds`** hold for
  every `MaxRetries`.
- Both follow from the inductive invariant `TInv` (theorem `TInvHolds`),
  which adds `slept <= i` to the two properties. `TInv` is only a lemma:
  it holds by the shape of the loop, so no run checks it.

### Only model-checked

- Liveness: `KeyEventuallyExpires`, `StatusFollowsBackend`,
  `ClientEventuallyReleased`, `StartupCompletes` and `RoundCompletes`. TLAPS does not handle
  liveness under fairness or `ENABLED`.
- No safety property of a passing run. Each one is stated by a theorem,
  `MCAInv` and `LimiterRefinement` through `MCGatewayProofs`.
- The properties of the violation runs, which are false:
  `WaitsBeforeGivingUp` of the turbo hook, and `HealthyWithinPollInterval`
  of the poller.

## 5. Plan

These are the next steps:

1. The rest of the turbo relay.
2. An abstract specification of the health poller's snapshot, with the
   staleness bound of `HInv` as its refinement argument.

## 6. Not modelled

- **Login** is a constant check that issues a token. It has no state.
- **`config/solana-exporter.py`** is a synchronous loop of `requests`
  calls and disk walks, with a 30 s sleep. It has no concurrency, and the
  asyncio exporter covers its RPC-to-gauge logic.
- **The exporter's session setup and HTTP handlers** change no state.
- **The `/ws` route** (`websocket_endpoint`, 553-556). Its dependency
  raises before `ws_proxy.connect` runs (section 1), so the route changes
  no state. `WebSocketRelay` models `connect` itself.
- **The turbo relay's request path** (`turbo_api_integration.py` outside
  its startup hook).
- **The `slowapi` limiter.** The `Limiter` (123-126) and the
  `SlowAPIMiddleware` (433) are set up, but the limiter is never stored in
  `app.state` and no route is decorated. Its behaviour then depends on the
  library, not on this code, so the model leaves it out.
- **The latency histogram and logging** are data only.
- **`debug_generate_key.py`** has no state.
- **The smoke tests** are used only as statements of intent.
