\* Two importers, so that imports overlap; one of them may run by hand.  Two faults:
\* a job runs out of attempts, or an import loses its lease and then dies.
SPECIFICATION Spec
CONSTANTS
    Importer = {p1, p2}
    Job = {j1}
    NoJob = NoJob
    Rounds = 1
    MaxAttempts = 2
    MaxFaults = 2
    MaxManual = 1
    LastPhase = 4
SYMMETRY Symmetry
INVARIANT TypeOK
INVARIANT DoneMeansUpToDate
INVARIANT SyncingIsWorkedOn
