\* Without faults: what deadlocks, refusals and failing foreign keys do to
\* progress.
SPECIFICATION FairSpec
CONSTANTS
    Process = {p1, p2}
    Run = {r1, r2, r3, r4, r5}
    Name = {n1}
    NoRun = NoRun
    NoFacts = NoFacts
    MaxChanges = 1
    MaxCrashes = 0
    MaxRaises = 0
    MaxManual = 0
PROPERTY EveryRefreshEnds
PROPERTY LeftoversArePruned
PROPERTY FactsArePublished
