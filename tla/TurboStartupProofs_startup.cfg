\* The startup hook against a validator that may be up, warming or down.
CONSTANTS
    MaxRetries = 10
    Validator = {"ready", "warming", "down"}
SPECIFICATION Spec
INVARIANT TypeOK
INVARIANT GivesUpAfterAllAttempts
PROPERTY StartupCompletes
CHECK_DEADLOCK FALSE
