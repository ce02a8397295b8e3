\* Three concurrent WebSocket clients against a backend that may upgrade,
\* refuse or fail, with the one backend_url spelling httpx can stream to.
CONSTANTS
    Conns = {c1, c2, c3}
    BackendScheme = "HTTP"
    BackendAnswers = {"upgrade", "refuse", "fail"}
SPECIFICATION Spec
INVARIANT TypeOK
INVARIANT GaugeMatchesRegistry
INVARIANT WInv
PROPERTY RegistryRefinement
PROPERTY ClientEventuallyReleased
CHECK_DEADLOCK FALSE
