\* The health poller with a 3-tick sleep, a 2-tick timeout per wait and
\* probes of up to two waits.
CONSTANTS
    Period = 3
    ProbeTimeout = 2
    MaxWaits = 2
    AgeCap = 8
SPECIFICATION Spec
INVARIANT TypeOK
INVARIANT HealthyIsFresh
INVARIANT StatusSettles
INVARIANT HInv
PROPERTY StatusFollowsBackend
