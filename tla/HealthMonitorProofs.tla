------------------------- MODULE HealthMonitorProofs -------------------------
(***************************************************************************)
(* Proofs about the health poller: type correctness and the staleness     *)
(* bound of the status reported by /health, for every sleep period, probe *)
(* timeout and cap.                                                        *)
(***************************************************************************)
EXTENDS HealthMonitor, TLAPS

USE HealthAssumption

\* How stale a "healthy" status can be at this point of the poller's loop:
\* the ticks since it was recorded (while sleeping), or a whole sleep plus
\* the finished waits of the current probe and the ticks of its current
\* wait (while probing).
StalenessBound ==
    IF poller = "sleeping" THEN elapsed
    ELSE Period + (wait - 1) * ProbeTimeout + elapsed

\* The timers never run past their deadlines.
TimersBounded ==
    /\ poller = "sleeping" => elapsed <= Period
    /\ poller = "probing" => elapsed <= ProbeTimeout

\* The inductive invariant: a healthy status is no older than the point of
\* the loop allows, and a status that does not match the backend's
\* behaviour was recorded before the backend last changed.
HInv ==
    /\ TypeOK
    /\ TimersBounded
    /\ backend_status = "healthy" => okAgo <= StalenessBound
    /\ backend_status # Classify(backend) => steady <= StalenessBound

\* A probe's finished waits and its current one last at most ProbeSpan.
LEMMA ProbeWithinSpan ==
    ASSUME NEW w \in 1..MaxWaits, NEW e \in 0..ProbeTimeout
    PROVE  (w - 1) * ProbeTimeout + e <= ProbeSpan
<1>1. (w - 1) * ProbeTimeout + e <= w * ProbeTimeout
  OBVIOUS
<1>2. w * ProbeTimeout <= MaxWaits * ProbeTimeout
  OBVIOUS
<1>3. QED
  BY <1>1, <1>2 DEF ProbeSpan

\* Starting the next wait does not lower the staleness bound.
LEMMA NextWaitBound ==
    ASSUME NEW w \in Nat \ {0}, NEW e \in 0..ProbeTimeout
    PROVE  (w - 1) * ProbeTimeout + e <= ((w + 1) - 1) * ProbeTimeout + 0
OBVIOUS

LEMMA InitHInv == Init => HInv
BY DEF Init, HInv, TypeOK, TimersBounded, StalenessBound, Behaviours,
       Statuses, Classify

LEMMA NextHInv == HInv /\ [Next]_vars => HInv'
<1> SUFFICES ASSUME HInv, [Next]_vars PROVE HInv'
  OBVIOUS
<1> USE DEF HInv, TypeOK, TimersBounded, StalenessBound, Behaviours,
            Statuses
<1>0. CASE ProbeProgresses
  <2>1. (wait - 1) * ProbeTimeout + elapsed <= ((wait + 1) - 1) * ProbeTimeout + 0
    BY <1>0, NextWaitBound DEF ProbeProgresses
  <2>2. QED
    BY <1>0, <2>1 DEF ProbeProgresses, Classify
<1>1. CASE ProbeAnswered
  BY <1>1 DEF ProbeAnswered, Record, Classify
<1>2. CASE ProbeFailed
  BY <1>2 DEF ProbeFailed, Record, Classify
<1>3. CASE Wake
  BY <1>3 DEF Wake, SleepDue, Classify
<1>4. CASE Tick
  BY <1>4 DEF Tick, SleepDue, Classify
<1>5. CASE BackendChanges
  BY <1>5 DEF BackendChanges, Classify
<1>6. CASE UNCHANGED vars
  BY <1>6 DEF vars
<1>7. QED
  BY <1>0, <1>1, <1>2, <1>3, <1>4, <1>5, <1>6 DEF Next

\* For every period, timeout, number of waits and cap, the poller's timers
\* never pass their deadlines, and neither a healthy status nor a status
\* that no longer matches the backend is older than the point of the loop
\* allows.
THEOREM HInvHolds == Spec => []HInv
BY InitHInv, NextHInv, PTL DEF Spec

\* Every reachable state of the poller is well typed.
THEOREM HealthTypeCorrect == Spec => []TypeOK
BY HInvHolds, PTL DEF HInv

\* The staleness bound of the loop is at most one sleep plus the longest
\* probe.
LEMMA StalenessWithinSpan == HInv => StalenessBound <= Period + ProbeSpan
<1> SUFFICES ASSUME HInv PROVE StalenessBound <= Period + ProbeSpan
  OBVIOUS
<1>1. CASE poller = "sleeping"
  BY <1>1 DEF HInv, TypeOK, TimersBounded, StalenessBound, ProbeSpan
<1>2. CASE poller = "probing"
  <2>1. wait \in 1..MaxWaits /\ elapsed \in 0..ProbeTimeout
    BY <1>2 DEF HInv, TypeOK, TimersBounded
  <2>2. (wait - 1) * ProbeTimeout + elapsed <= ProbeSpan
    BY <2>1, ProbeWithinSpan
  <2>3. QED
    BY <1>2, <2>1, <2>2 DEF StalenessBound, ProbeSpan
<1>3. QED
  BY <1>1, <1>2 DEF HInv, TypeOK

\* update_backend_status never lets /health report "healthy" for a backend
\* that has not answered 200 for longer than one sleep plus MaxWaits probe
\* timeouts, whatever the period, the timeout and the number of waits of a
\* probe: the per-wait timeout bounds the staleness only through the
\* number of waits.
THEOREM HealthyIsFreshHolds == Spec => []HealthyIsFresh
<1>1. HInv => HealthyIsFresh
  BY StalenessWithinSpan DEF HInv, HealthyIsFresh, TypeOK, StalenessBound,
     ProbeSpan
<1>2. QED
  BY <1>1, InitHInv, NextHInv, PTL DEF Spec

\* Whatever the period, the timeout and the number of waits of a probe,
\* update_backend_status never keeps reporting a status that no longer
\* matches the backend for longer than one sleep plus the longest probe
\* after the backend changed: a crash, a recovery or a switch to errors
\* shows in /health within that time.
THEOREM StatusSettlesHolds == Spec => []StatusSettles
<1>1. HInv => StatusSettles
  BY StalenessWithinSpan DEF HInv, StatusSettles, TypeOK, StalenessBound,
     ProbeSpan
<1>2. QED
  BY <1>1, InitHInv, NextHInv, PTL DEF Spec

=============================================================================
