---------------------------- MODULE TurboStartup ----------------------------
(***************************************************************************)
(* The startup hook of the turbo gateway (src/turbo_api_integration.py,   *)
(* startup_validation): up to max_retries GETs of /turbo-status (2 s      *)
(* timeout) waiting for a 200, one second of sleep after each failed      *)
(* request, then one GET of /turbo-validation (no timeout) whose answer   *)
(* is logged; any exception ends the hook with a log line.  The app       *)
(* serves requests once the hook has returned.                            *)
(***************************************************************************)
EXTENDS Naturals

CONSTANTS
    MaxRetries,  \* max_retries = 10
    Validator    \* how the validator may behave at a request

\* "ready": answers 200; "warming": answers another code; "down": refuses,
\* or does not answer /turbo-status within its 2 s timeout; "stalled":
\* accepts and never answers.
Behaviours == {"ready", "warming", "down", "stalled"}

ASSUME TurboAssumption ==
    /\ MaxRetries \in Nat \ {0}
    /\ Validator \subseteq Behaviours /\ Validator # {}

VARIABLES
    phase,      \* "wait" (the retry loop), "validate" (line 144), "blocked"
                \* (in a GET that is never answered), "serving"
    i,          \* the loop index: attempts made so far
    validator,  \* how the validator behaves now
    sawReady,   \* ghost: a /turbo-status GET answered 200
    slept       \* ghost: seconds slept in the loop (capped at MaxRetries)

vars == <<phase, i, validator, sawReady, slept>>

-----------------------------------------------------------------------------

Init ==
    /\ phase = "wait"
    /\ i = 0
    /\ validator \in Validator
    /\ sawReady = FALSE
    /\ slept = 0

\* Mutant: the next attempt not taken (a hand-written while loop whose
\* retry path forgets i += 1).
NextAttemptStuck(n) == n

\* for i in range(max_retries): the next attempt.
NextAttempt(n) == n + 1

\* Mutants: the re-raise one attempt early, or one late (never, since
\* i < max_retries).
LastAttemptEarly(n) == n = MaxRetries - 2
LastAttemptLate(n) == n = MaxRetries

\* if i == max_retries - 1: raise
LastAttempt(n) == n = MaxRetries - 1

\* One iteration of the loop: a 200 breaks out; another code falls through
\* to the next iteration at once (no sleep); an exception sleeps one second,
\* except on the last attempt where it is re-raised to the outer except,
\* which logs it and returns (the validation GET is skipped).
Attempt ==
    /\ phase = "wait"
    /\ i < MaxRetries
    /\ \/ /\ validator = "ready"
          /\ phase' = "validate"
          /\ sawReady' = TRUE
          /\ UNCHANGED <<i, slept>>
       \/ /\ validator = "warming"
          /\ i' = NextAttempt(i)
          /\ phase' = IF i' = MaxRetries THEN "validate" ELSE "wait"
          /\ UNCHANGED <<sawReady, slept>>
       \/ /\ validator \in {"down", "stalled"}
          /\ IF LastAttempt(i)
             THEN /\ phase' = "serving"
                  /\ UNCHANGED <<i, slept>>
             ELSE /\ i' = NextAttempt(i)
                  /\ slept' = IF slept < MaxRetries THEN slept + 1 ELSE slept
                  /\ phase' = IF i' = MaxRetries THEN "validate" ELSE "wait"
          /\ UNCHANGED sawReady
    /\ UNCHANGED validator

\* requests.get(f"{TURBO_VALIDATOR_URL}/turbo-validation") with no timeout,
\* decided by how the validator behaves when the request reaches it: it
\* returns (any code, or an exception caught by the outer except), or, for
\* a validator that accepts it and never answers, blocks the hook for good.
Validate ==
    /\ phase = "validate"
    /\ phase' = IF validator = "stalled" THEN "blocked" ELSE "serving"
    /\ UNCHANGED <<i, validator, sawReady, slept>>

\* The validator starts, restarts or hangs, independently of the gateway.
ValidatorChanges ==
    /\ \E v \in Validator \ {validator} : validator' = v
    /\ UNCHANGED <<phase, i, sawReady, slept>>

Next == Attempt \/ Validate \/ ValidatorChanges

\* The hook runs to completion unless a request blocks.
Spec == Init /\ [][Next]_vars /\ WF_vars(Attempt) /\ WF_vars(Validate)

-----------------------------------------------------------------------------
(* Properties.                                                             *)

\* Every variable holds a value of its kind.
TypeOK ==
    /\ phase \in {"wait", "validate", "blocked", "serving"}
    /\ i \in 0..MaxRetries
    /\ validator \in Validator
    /\ sawReady \in BOOLEAN
    /\ slept \in 0..(MaxRetries - 1)

\* The retry loop gives up on the validator only after all max_retries
\* attempts have been made.
GivesUpAfterAllAttempts ==
    phase # "wait" /\ ~sawReady => i \in {MaxRetries - 1, MaxRetries}

\* The startup hook always returns, so the gateway starts serving.
StartupCompletes == <>(phase = "serving")

\* The comment "Wait for turbo validator to be ready": startup goes on
\* without a 200 only after waiting the whole retry budget, one second per
\* failed attempt but the last.
WaitsBeforeGivingUp ==
    phase # "wait" /\ ~sawReady => slept >= MaxRetries - 1

=============================================================================
