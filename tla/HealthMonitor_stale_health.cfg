\* How stale a "healthy" /health can be when a probe takes two waits.
CONSTANTS
    Period = 3
    ProbeTimeout = 2
    MaxWaits = 2
    AgeCap = 8
SPECIFICATION Spec
INVARIANT HealthyWithinPollInterval
