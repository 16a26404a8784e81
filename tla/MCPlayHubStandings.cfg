\* No faults: an import by a job and a scan for live events.
SPECIFICATION Spec
CONSTANTS
    Importer = {p1, p2}
    Job = {j1}
    NoJob = NoJob
    Rounds = 2
    MaxAttempts = 1
    MaxFaults = 0
    MaxManual = 0
    LastPhase = 3
PROPERTY RankedStandingsStay
