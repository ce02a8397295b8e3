------------------------- MODULE TurboStartupProofs -------------------------
(***************************************************************************)
(* Proofs about the startup hook of the turbo gateway: the retry loop     *)
(* keeps its counters in range and gives up on the validator only after   *)
(* its last attempt, for every max_retries.                               *)
(***************************************************************************)
EXTENDS TurboStartup, TLAPS

USE TurboAssumption

\* The inductive invariant: a second is slept only after a failed attempt,
\* so the sleeps never outnumber the attempts, and the loop is left
\* without a 200 only at its last attempt.
TInv ==
    /\ TypeOK
    /\ slept <= i
    /\ GivesUpAfterAllAttempts

LEMMA InitTInv == Init => TInv
<1> SUFFICES ASSUME Init PROVE TInv
  OBVIOUS
<1>1. TypeOK
  <2>1. phase \in {"wait", "validate", "blocked", "serving"}
        /\ validator \in Validator
        /\ sawReady \in BOOLEAN
    BY Zenon DEF Init
  <2>2. i \in 0..MaxRetries /\ slept \in 0..(MaxRetries - 1)
    BY DEF Init
  <2>3. QED
    BY <2>1, <2>2 DEF TypeOK
<1>2. slept <= i /\ GivesUpAfterAllAttempts
  BY DEF Init, GivesUpAfterAllAttempts
<1>3. QED
  BY <1>1, <1>2 DEF TInv

LEMMA NextTInv == TInv /\ [Next]_vars => TInv'
<1> SUFFICES ASSUME TInv, [Next]_vars PROVE TInv'
  OBVIOUS
<1>1. CASE Attempt
  <2>1. phase = "wait" /\ i < MaxRetries /\ UNCHANGED validator
    BY <1>1 DEF Attempt
  <2>2. CASE validator = "ready"
    BY <1>1, <2>1, <2>2 DEF Attempt, TInv, TypeOK, GivesUpAfterAllAttempts
  <2>3. CASE validator = "warming"
    <3>1. /\ i' = i + 1
          /\ phase' = IF i' = MaxRetries THEN "validate" ELSE "wait"
          /\ UNCHANGED <<sawReady, slept>>
      BY <1>1, <2>1, <2>3 DEF Attempt, NextAttempt
    <3>2. QED
      BY <2>1, <3>1 DEF TInv, TypeOK, GivesUpAfterAllAttempts
  <2>4. CASE validator \in {"down", "stalled"}
    <3>1. CASE LastAttempt(i)
      <4>1. phase' = "serving" /\ UNCHANGED <<i, slept, sawReady>>
        BY <1>1, <2>1, <2>4, <3>1 DEF Attempt
      <4>2. QED
        BY <2>1, <3>1, <4>1 DEF LastAttempt, TInv, TypeOK,
                                GivesUpAfterAllAttempts
    <3>2. CASE ~LastAttempt(i)
      <4>1. /\ i' = i + 1
            /\ slept' = IF slept < MaxRetries THEN slept + 1 ELSE slept
            /\ phase' = IF i' = MaxRetries THEN "validate" ELSE "wait"
            /\ UNCHANGED sawReady
        BY <1>1, <2>1, <2>4, <3>2 DEF Attempt, NextAttempt
      <4>2. i' < MaxRetries /\ phase' = "wait"
        BY <2>1, <3>2, <4>1 DEF LastAttempt, TInv, TypeOK
      <4>3. QED
        BY <2>1, <4>1, <4>2 DEF TInv, TypeOK, GivesUpAfterAllAttempts
    <3>3. QED
      BY <3>1, <3>2
  <2>5. QED
    BY <2>2, <2>3, <2>4 DEF TInv, TypeOK, Behaviours
<1>2. CASE Validate
  BY <1>2 DEF Validate, TInv, TypeOK, GivesUpAfterAllAttempts
<1>3. CASE ValidatorChanges
  BY <1>3 DEF ValidatorChanges, TInv, TypeOK, GivesUpAfterAllAttempts
<1>4. CASE UNCHANGED vars
  BY <1>4 DEF vars, TInv, TypeOK, GivesUpAfterAllAttempts
<1>5. QED
  BY <1>1, <1>2, <1>3, <1>4 DEF Next

\* For every max_retries, the retry loop of startup_validation never sleeps
\* more often than it has tried, and leaves the loop without a 200 only at
\* its last attempt.
THEOREM TInvHolds == Spec => []TInv
BY InitTInv, NextTInv, PTL DEF Spec

\* The loop index, the ghost sleeps and the phase of startup_validation
\* stay in range for every max_retries.
THEOREM TurboTypeCorrect == Spec => []TypeOK
<1>1. TInv => TypeOK
  BY DEF TInv
<1>2. QED
  BY <1>1, InitTInv, NextTInv, PTL DEF Spec

\* For every max_retries, startup_validation leaves its retry loop without
\* a 200 from /turbo-status only at attempt max_retries - 1 (the re-raise)
\* or after the last attempt (a non-200 answer): the loop never gives up
\* early.
THEOREM GivesUpAfterAllAttemptsHolds == Spec => []GivesUpAfterAllAttempts
<1>1. TInv => GivesUpAfterAllAttempts
  BY DEF TInv
<1>2. QED
  BY <1>1, InitTInv, NextTInv, PTL DEF Spec
====
