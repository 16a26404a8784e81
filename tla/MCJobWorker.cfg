\* Two jobs and two workers: a worker may be taken over, go on with another
\* job, and report late; one fault makes a commit ambiguous or kills a process.
SPECIFICATION Spec
CONSTANTS
    JobId = {j1, j2}
    Key = {k1}
    NoKey = NoKey
    AttemptCap = 2
    LeaseTime = 1
    WaitCap = 1
    Retention = 1
    Worker = {w1, w2}
    NoJob = NoJob
    MaxFaults = 1
SYMMETRY Symmetry
INVARIANT TypeOK
INVARIANT OneHolder
INVARIANT SuccessWasExecuted
PROPERTY StaleNeverCommits
