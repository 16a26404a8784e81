\* Two processes and one publication.  Five identifiers are as many as are
\* ever told apart: current, previous, one run in work per process, and one
\* that stands for what is left over.
SPECIFICATION Spec
CONSTANTS
    Process = {p1, p2}
    Run = {r1, r2, r3, r4, r5}
    Name = {n1}
    NoRun = NoRun
    NoFacts = NoFacts
    MaxChanges = 1
    MaxCrashes = 1
    MaxRaises = 1
    MaxManual = 1
SYMMETRY Symmetry
INVARIANT TypeOK
INVARIANT PublicationsAreComplete
PROPERTY PointersRotate
PROPERTY BuildsAreLeftAlone
