\* No crash: a build raises while another process publishes.
SPECIFICATION Spec
CONSTANTS
    Process = {p1, p2}
    Run = {r1, r2, r3, r4}
    Name = {n1}
    NoRun = NoRun
    NoFacts = NoFacts
    MaxChanges = 0
    MaxCrashes = 0
    MaxRaises = 1
    MaxManual = 0
INVARIANT NoAbandonedBuilds
