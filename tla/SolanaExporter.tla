--------------------------- MODULE SolanaExporter ---------------------------
(***************************************************************************)
(* The Solana metrics exporter (src/solana-metrics-exporter.py).  One     *)
(* background task loops forever over collect_all_metrics, an             *)
(* asyncio.gather of five collector coroutines that each make one JSON-RPC *)
(* call (make_rpc_call, timeout=10) and set Prometheus gauges, followed by *)
(* asyncio.sleep(update_interval).  The /metrics handler serves the gauges *)
(* as they stand; the gauge variables below are what a scrape returns.    *)
(*                                                                         *)
(* Time is discrete: one Tick is one time unit, and time cannot pass a    *)
(* timer that is due, because the event loop fires it.  The cluster's     *)
(* progress is one counter, chain, that every answer is read from:        *)
(* getTransactionCount, getSlot and getBlockHeight all grow with it.       *)
(***************************************************************************)
EXTENDS Naturals, Integers

CONSTANTS
    MaxCount,    \* bound on the cluster's counter (a bound of the model)
    Interval,    \* update_interval: ticks of asyncio.sleep between rounds
    RpcTimeout,  \* timeout=10 of session.post, in ticks
    TimeCap,     \* cap on now - last_update (a bound of the model)
    Validators,  \* len(result["current"]) answered by getVoteAccounts
    NodeCanLag   \* the RPC URL may be served by a replica one count behind

ASSUME ExporterAssumption ==
    /\ MaxCount \in Nat \ {0}
    /\ Interval \in Nat \ {0}
    /\ RpcTimeout \in Nat \ {0}
    /\ TimeCap \in Nat /\ TimeCap > Interval
    /\ Validators \in Nat
    /\ NodeCanLag \in BOOLEAN

\* The five coroutines of collect_all_metrics.
Collectors == {"slot", "block", "tx", "validators", "health"}

\* A Prometheus gauge starts at 0; solana_tps is kept as the fraction
\* num / den that line 103 divides.
Zero == [num |-> 0, den |-> 1]

VARIABLES
    chain,          \* the cluster's transaction count (and height)
    loop,           \* collect_metrics: "gather" or "sleep"
    elapsed,        \* ticks since the round's requests were sent
    slept,          \* ticks since asyncio.sleep began
    co,             \* co[c]: "wait", "served" (tx answered, in flight), "done"
    txAnswer,       \* the count the node put in the getTransactionCount answer
    gauge,          \* slot, block, validators, tx, latency, confirmation
    tps,            \* solana_tps as [num, den]
    last_tx_count,  \* self.last_tx_count
    sinceUpdate     \* time.time() - self.last_update, capped at TimeCap

vars == <<chain, loop, elapsed, slept, co, txAnswer, gauge, tps,
          last_tx_count, sinceUpdate>>

Gauges == {"slot", "block", "validators", "tx", "latency", "confirmation"}

-----------------------------------------------------------------------------

\* What the node behind rpc_url answers for the transaction count: the
\* cluster's count, or, behind a load balancer, a replica's one behind.
Answers == IF NodeCanLag THEN {chain, chain - 1} \cap Nat ELSE {chain}

\* __init__: last_tx_count = 0 and last_update = time.time(); the task's
\* first round sends its five requests at once.
Init ==
    /\ chain = 0
    /\ loop = "gather"
    /\ elapsed = 0
    /\ slept = 0
    /\ co = [c \in Collectors |-> "wait"]
    /\ txAnswer = 0
    /\ gauge = [g \in Gauges |-> 0]
    /\ tps = Zero
    /\ last_tx_count = 0
    /\ sinceUpdate = 0

\* Mutant: the two counts subtracted the wrong way round.
RateSwapped(count) == [num |-> last_tx_count - count, den |-> sinceUpdate]

\* Line 103: (tx_count - self.last_tx_count) / time_diff.
Rate(count) == [num |-> count - last_tx_count, den |-> sinceUpdate]

\* Coroutine c has resumed: it is done for this round.
Finish(c) == co' = [co EXCEPT ![c] = "done"]

\* collect_slot_info and collect_block_height resume with a "result": the
\* gauge is set to the height the node answered.
Answer(c) ==
    /\ loop = "gather"
    /\ c \in {"slot", "block"}
    /\ co[c] = "wait"
    /\ gauge' = [gauge EXCEPT ![c] = chain]
    /\ Finish(c)
    /\ UNCHANGED <<chain, loop, elapsed, slept, txAnswer, tps,
                   last_tx_count, sinceUpdate>>

\* collect_validator_info resumes with a "result" that has "current": the
\* gauge is set to the number of current vote accounts.
AnswerValidators ==
    /\ loop = "gather"
    /\ co["validators"] = "wait"
    /\ gauge' = [gauge EXCEPT !["validators"] = Validators]
    /\ Finish("validators")
    /\ UNCHANGED <<chain, loop, elapsed, slept, txAnswer, tps,
                   last_tx_count, sinceUpdate>>

\* The node reads its count into the getTransactionCount answer, which is
\* still on its way back when time passes.
ServeTx ==
    /\ loop = "gather"
    /\ co["tx"] = "wait"
    /\ txAnswer' \in Answers
    /\ co' = [co EXCEPT !["tx"] = "served"]
    /\ UNCHANGED <<chain, loop, elapsed, slept, gauge, tps,
                   last_tx_count, sinceUpdate>>

\* collect_transaction_count resumes with a "result" (lines 96-107): the
\* count gauge is set, the rate is set when time_diff > 0 and
\* last_tx_count > 0, and last_tx_count and last_update move to this
\* answer and the current time.
DeliverTx ==
    /\ loop = "gather"
    /\ co["tx"] = "served"
    /\ gauge' = [gauge EXCEPT !["tx"] = txAnswer]
    /\ tps' = IF sinceUpdate > 0 /\ last_tx_count > 0
                 THEN Rate(txAnswer) ELSE tps
    /\ last_tx_count' = txAnswer
    /\ sinceUpdate' = 0
    /\ Finish("tx")
    /\ UNCHANGED <<chain, loop, elapsed, slept, txAnswer>>

\* Mutant: start_time - time.time(), the subtraction the wrong way round.
LatencySwapped(e) == 0 - e

\* Line 132: (time.time() - start_time) * 1000, the time the call took
\* (kept in ticks).
Latency(e) == e

\* collect_network_health resumes, whatever make_rpc_call returned: the
\* latency gauge gets the time the call took and the confirmation gauge
\* the constant 800.
HealthDone ==
    /\ gauge' = [gauge EXCEPT !["latency"] = Latency(elapsed),
                              !["confirmation"] = 800]
    /\ Finish("health")

\* make_rpc_call returns {} (a non-200 answer or an exception): the
\* collector sets nothing, except collect_network_health.
Failed(c) ==
    IF c = "health" THEN HealthDone ELSE Finish(c) /\ UNCHANGED gauge

\* The call fails before the timeout: refused, non-200, bad JSON.
Fail(c) ==
    /\ loop = "gather"
    /\ co[c] \in {"wait", "served"}
    /\ Failed(c)
    /\ UNCHANGED <<chain, loop, elapsed, slept, txAnswer, tps,
                   last_tx_count, sinceUpdate>>

\* getHealth answered: the same gauges as a failure.
HealthAnswered ==
    /\ loop = "gather"
    /\ co["health"] = "wait"
    /\ HealthDone
    /\ UNCHANGED <<chain, loop, elapsed, slept, txAnswer, tps,
                   last_tx_count, sinceUpdate>>

\* Mutant: no timeout on the session.post.
DueNever(e) == FALSE

\* The aiohttp timeout expires RpcTimeout ticks after the request.
Due(e) == e = RpcTimeout

TimedOut(c) ==
    /\ loop = "gather"
    /\ co[c] \in {"wait", "served"}
    /\ Due(elapsed)
    /\ Failed(c)
    /\ UNCHANGED <<chain, loop, elapsed, slept, txAnswer, tps,
                   last_tx_count, sinceUpdate>>

\* asyncio.gather returns once all five are done; the task goes to sleep.
Gathered ==
    /\ loop = "gather"
    /\ \A c \in Collectors : co[c] = "done"
    /\ loop' = "sleep"
    /\ slept' = 0
    /\ UNCHANGED <<chain, elapsed, co, txAnswer, gauge, tps,
                   last_tx_count, sinceUpdate>>

\* asyncio.sleep(update_interval) returns: the next round sends its five
\* requests.
Wake ==
    /\ loop = "sleep"
    /\ slept = Interval
    /\ loop' = "gather"
    /\ elapsed' = 0
    /\ co' = [c \in Collectors |-> "wait"]
    /\ UNCHANGED <<chain, slept, txAnswer, gauge, tps, last_tx_count,
                   sinceUpdate>>

\* One time unit passes, unless a timer or the gather is due; the cluster
\* may process a transaction meanwhile.
Tick ==
    /\ loop = "gather" => /\ \E c \in Collectors : co[c] # "done"
                          /\ elapsed < RpcTimeout
    /\ loop = "sleep" => slept < Interval
    /\ elapsed' = IF loop = "gather" THEN elapsed + 1 ELSE elapsed
    /\ slept' = IF loop = "sleep" THEN slept + 1 ELSE slept
    /\ sinceUpdate' = IF sinceUpdate < TimeCap THEN sinceUpdate + 1
                      ELSE TimeCap
    /\ chain' \in {chain, chain + 1} \cap 0..MaxCount
    /\ UNCHANGED <<loop, co, txAnswer, gauge, tps, last_tx_count>>

Next ==
    \/ \E c \in Collectors : Answer(c) \/ Fail(c) \/ TimedOut(c)
    \/ AnswerValidators \/ ServeTx \/ DeliverTx \/ HealthAnswered
    \/ Gathered \/ Wake \/ Tick

\* The event loop fires the timers and resumes the task; the node and
\* the network owe nothing, so answers carry no fairness.
Spec == Init /\ [][Next]_vars
          /\ \A c \in Collectors : WF_vars(TimedOut(c))
          /\ WF_vars(Gathered) /\ WF_vars(Wake) /\ WF_vars(Tick)

-----------------------------------------------------------------------------
(* Properties.                                                             *)

\* Every variable holds a value of its kind; in particular solana_tps is
\* only ever a division by a positive time_diff.
TypeOK ==
    /\ chain \in 0..MaxCount
    /\ loop \in {"gather", "sleep"}
    /\ elapsed \in 0..RpcTimeout
    /\ slept \in 0..Interval
    /\ co \in [Collectors -> {"wait", "served", "done"}]
    /\ txAnswer \in 0..MaxCount
    /\ gauge \in [Gauges -> Nat]
    /\ tps \in [num : -MaxCount..MaxCount, den : 1..TimeCap]
    /\ last_tx_count \in 0..MaxCount
    /\ sinceUpdate \in 0..TimeCap

\* Gauge help 'Transactions per second' and the "Calculate TPS" of
\* collect_transaction_count: solana_tps is never negative, because the
\* next getTransactionCount is sent only after gather returned the last.
TpsNonNegative == tps.num >= 0

\* A collection round always ends: every call of collect_all_metrics
\* returns, because each make_rpc_call is bounded by its timeout, so the
\* gauges are refreshed again however the node behaves.
RoundCompletes == loop = "gather" ~> loop = "sleep"

=============================================================================
