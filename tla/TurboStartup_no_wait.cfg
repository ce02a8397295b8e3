\* How long startup waits for a validator that answers but is not ready.
CONSTANTS
    MaxRetries = 10
    Validator = {"ready", "warming", "down"}
SPECIFICATION Spec
INVARIANT WaitsBeforeGivingUp
CHECK_DEADLOCK FALSE
