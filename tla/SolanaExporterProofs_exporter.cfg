\* One consistent RPC node, a 2-tick sleep and a 2-tick call timeout.
CONSTANTS
    MaxCount = 2
    Interval = 2
    RpcTimeout = 2
    TimeCap = 4
    Validators = 1
    NodeCanLag = FALSE
SPECIFICATION Spec
INVARIANT TypeOK
INVARIANT TpsNonNegative
INVARIANT EInv
PROPERTY TxSampling
PROPERTY RoundCompletes
