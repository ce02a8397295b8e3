\* A validator that may accept a request and never answer it.
CONSTANTS
    MaxRetries = 10
    Validator = {"ready", "warming", "down", "stalled"}
SPECIFICATION Spec
PROPERTY StartupCompletes
CHECK_DEADLOCK FALSE
