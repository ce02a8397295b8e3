--------------------------- MODULE HealthMonitor ---------------------------
(***************************************************************************)
(* The background health poller of the gateway                            *)
(* (src/Bitcoin_Sprint_fastapi/fastapi-gateway/main.py):                  *)
(* update_backend_status loops forever over check_backend_health (one GET *)
(* of /health with a 5 s timeout) and asyncio.sleep(30), and writes the   *)
(* result into the global backend_status that the /health endpoint        *)
(* reports.                                                                *)
(*                                                                         *)
(* Time is discrete: one Tick is one time unit.  The poller's sleep lasts  *)
(* Period ticks.  httpx's timeout=5.0 is not a deadline on the probe: it  *)
(* bounds each wait of it (connect, write, each read) separately, so a    *)
(* probe is a sequence of waits of at most ProbeTimeout ticks each, and a *)
(* backend that keeps sending in time keeps the probe open.  Time cannot  *)
(* pass a timer that is due, because the event loop fires it.             *)
(***************************************************************************)
EXTENDS Naturals

CONSTANTS
    Period,        \* asyncio.sleep(30): ticks between two probes
    ProbeTimeout,  \* httpx.AsyncClient(timeout=5.0): ticks one wait may last
    MaxWaits,      \* waits one probe makes at most (a bound of the model)
    AgeCap         \* cap on the ghost clocks (a bound of the model)

ASSUME HealthAssumption ==
    /\ Period \in Nat \ {0}
    /\ ProbeTimeout \in Nat \ {0}
    /\ MaxWaits \in Nat \ {0}
    /\ AgeCap \in Nat /\ AgeCap > Period + MaxWaits * ProbeTimeout

\* What the backend does with GET /health: answers 200, answers another
\* code (either one sending each part within the timeout), refuses or
\* drops the connection, or leaves a wait unanswered past the timeout.
Behaviours == {"ok", "error", "down", "slow"}

Statuses == {"unknown", "healthy", "unhealthy", "unreachable"}

VARIABLES
    backend,         \* how the backend currently behaves
    backend_status,  \* the global read by health_check()
    poller,          \* "probing" (in check_backend_health) or "sleeping"
    elapsed,         \* ticks since the current wait or the sleep began
    wait,            \* the number of the probe's current wait
    okAgo,           \* ghost: ticks since the backend last answered 200
    steady           \* ghost: ticks since the backend last changed behaviour

vars == <<backend, backend_status, poller, elapsed, wait, okAgo, steady>>

-----------------------------------------------------------------------------

\* Mutant: any HTTP answer counted as healthy (a raise_for_status-less 2xx
\* test written as "got a response").
ClassifyAnyAnswer(b) == IF b \in {"ok", "error"} THEN "healthy" ELSE "unreachable"

\* check_backend_health: 200 -> healthy, another code -> unhealthy, any
\* exception (refused, timeout) -> unreachable.
Classify(b) ==
    CASE b = "ok"    -> "healthy"
      [] b = "error" -> "unhealthy"
      [] OTHER       -> "unreachable"

\* The global starts as "unknown" and lifespan starts the task, which
\* begins with a probe.
Init ==
    /\ backend \in Behaviours
    /\ backend_status = "unknown"
    /\ poller = "probing"
    /\ elapsed = 0
    /\ wait = 1
    /\ okAgo = 0
    /\ steady = 0

\* The result of one probe is assigned and the task goes to sleep.
Record(s) ==
    /\ backend_status' = s
    /\ poller' = "sleeping"
    /\ elapsed' = 0
    /\ wait' = 1

\* One wait of client.get ends in time (the connection is made, the
\* request written, or a part of the answer read) and the next begins,
\* with the timeout started afresh.
ProbeProgresses ==
    /\ poller = "probing"
    /\ backend \in {"ok", "error"}
    /\ wait < MaxWaits
    /\ wait' = wait + 1
    /\ elapsed' = 0
    /\ UNCHANGED <<backend, backend_status, poller, okAgo, steady>>

\* The last wait of the GET ends with the whole answer (any code).
ProbeAnswered ==
    /\ poller = "probing"
    /\ backend \in {"ok", "error"}
    /\ Record(Classify(backend))
    /\ okAgo' = IF backend = "ok" THEN 0 ELSE okAgo
    /\ UNCHANGED <<backend, steady>>

\* The GET raises: the connection is refused or dropped, or the current
\* wait's timeout expires on a backend that leaves it unanswered.
ProbeFailed ==
    /\ poller = "probing"
    /\ \/ backend = "down"
       \/ backend = "slow" /\ elapsed = ProbeTimeout
    /\ Record("unreachable")
    /\ UNCHANGED <<backend, okAgo, steady>>

\* Mutant: the sleep ends one tick late.
SleepDueLate == Period + 1

\* asyncio.sleep(30) returns; the loop probes again.
SleepDue == Period

Wake ==
    /\ poller = "sleeping"
    /\ elapsed = SleepDue
    /\ poller' = "probing"
    /\ elapsed' = 0
    /\ UNCHANGED <<backend, backend_status, wait, okAgo, steady>>

\* One time unit passes, unless a timer is due.
Tick ==
    /\ poller = "sleeping" => elapsed < SleepDue
    /\ poller = "probing" => elapsed < ProbeTimeout
    /\ elapsed' = elapsed + 1
    /\ okAgo' = IF backend = "ok" THEN 0
                ELSE IF okAgo < AgeCap THEN okAgo + 1 ELSE AgeCap
    /\ steady' = IF steady < AgeCap THEN steady + 1 ELSE AgeCap
    /\ UNCHANGED <<backend, backend_status, poller, wait>>

\* The backend changes behaviour (restart, crash, overload).
BackendChanges ==
    /\ \E b \in Behaviours \ {backend} : backend' = b
    /\ okAgo' = IF backend' = "ok" THEN 0 ELSE okAgo
    /\ steady' = 0
    /\ UNCHANGED <<backend_status, poller, elapsed, wait>>

Next == ProbeProgresses \/ ProbeAnswered \/ ProbeFailed \/ Wake \/ Tick
          \/ BackendChanges

\* The event loop runs the task and its timers, and time passes.
Spec == Init /\ [][Next]_vars
          /\ WF_vars(ProbeProgresses \/ ProbeAnswered \/ ProbeFailed)
          /\ WF_vars(Wake)
          /\ WF_vars(Tick)

-----------------------------------------------------------------------------
(* Properties.                                                             *)

\* Every variable holds a value of its kind.
TypeOK ==
    /\ backend \in Behaviours
    /\ backend_status \in Statuses
    /\ poller \in {"probing", "sleeping"}
    /\ elapsed \in 0..(IF Period >= ProbeTimeout THEN Period ELSE ProbeTimeout)
    /\ wait \in 1..MaxWaits
    /\ okAgo \in 0..AgeCap
    /\ steady \in 0..AgeCap

\* The longest a probe of MaxWaits waits can last.
ProbeSpan == MaxWaits * ProbeTimeout

\* The /health endpoint never reports "healthy" for a backend that has not
\* answered 200 for longer than one sleep plus the longest probe: the
\* snapshot written by update_backend_status is stale by at most 30 s plus
\* 5 s per wait of the probe that replaces it.
HealthyIsFresh ==
    backend_status = "healthy" => okAgo <= Period + ProbeSpan

\* Spec 5 gives health probes a 5 s timeout, and the loop's comment says
\* the backend is checked every 30 seconds: a "healthy" snapshot would then
\* be at most 35 s stale.
HealthyWithinPollInterval ==
    backend_status = "healthy" => okAgo <= Period + ProbeTimeout

\* A change of the backend shows in /health within one sleep plus the
\* longest probe: once the backend has kept one behaviour for longer than
\* that, backend_status is what check_backend_health returns for it.  The
\* status written by update_backend_status before a restart, a crash or a
\* recovery is never reported for longer.
StatusSettles ==
    steady > Period + ProbeSpan => backend_status = Classify(backend)

\* Spec 3 and 8: once the backend keeps one behaviour, the reported status
\* settles on it: healthy for a backend that answers 200, unhealthy for one
\* that answers an error, unreachable for one that refuses or times out.
StatusFollowsBackend ==
    /\ <>[](backend = "ok") => <>[](backend_status = "healthy")
    /\ <>[](backend = "error") => <>[](backend_status = "unhealthy")
    /\ \A b \in {"down", "slow"} :
         <>[](backend = b) => <>[](backend_status = "unreachable")

=============================================================================
