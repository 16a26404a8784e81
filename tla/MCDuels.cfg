SPECIFICATION Spec
CONSTANTS
    Syncs = {s1}
    PageSize = 1
    MaxPages = 2
    MaxGames = 4
    MaxReplayed = 1
    MaxRevisions = 2
    MaxFaults = 2
    Workers = {w1, w2}
    Attempts = 2
    Requests = {q1, q2}
    Coaches = {w1, w2}
    OldAttempts = 2
    MaxUpsets = 2
    Deck = 3
    MaxFrames = 5
    MaxPrompts = 2
    Window = 3
CHECK_DEADLOCK FALSE
INVARIANT TypeOK
INVARIANT NoGapBehindWatermark
INVARIANT DoneMeansComplete
INVARIANT PaidAsAsked
INVARIANT ReportsAreKept
INVARIANT EffectiveActionsAreTheGame
PROPERTY ReplaysAreProcessed
