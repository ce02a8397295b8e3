\* An RPC URL served by replicas that may be one count apart.
CONSTANTS
    MaxCount = 2
    Interval = 2
    RpcTimeout = 2
    TimeCap = 4
    Validators = 1
    NodeCanLag = TRUE
SPECIFICATION Spec
INVARIANT TpsNonNegative
