\* Two jobs and one shared idempotency key; two attempts make a retry and an
\* exhausted budget possible; one tick per lease, delay and retention period
\* tells "passed" from "not yet passed".
SPECIFICATION Spec
CONSTANTS
    JobId = {j1, j2}
    Key = {k1}
    NoKey = NoKey
    AttemptCap = 3
    LeaseTime = 1
    WaitCap = 1
    Retention = 1
SYMMETRY JobSymmetry
INVARIANT TypeOK
INVARIANT Consistent
PROPERTY HistoryIsFinal
PROPERTY ImplementsLedger
