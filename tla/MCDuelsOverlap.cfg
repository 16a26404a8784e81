\* Two runs for one connection: a scheduled one, and one that was asked for
\* or that continues another.
SPECIFICATION Spec
CONSTANTS
    Syncs = {s1, s2}
    PageSize = 1
    MaxPages = 2
    MaxGames = 4
    MaxReplayed = 0
    MaxRevisions = 0
    MaxFaults = 0
    Workers = {}
    Attempts = 1
    Requests = {}
    Coaches = {}
    OldAttempts = 1
    MaxUpsets = 0
    Deck = 2
    MaxFrames = 0
    MaxPrompts = 0
    Window = 3
CHECK_DEADLOCK FALSE
INVARIANT OlderPagesAreObserved
