\* Schedules: days of four hours.  At instant 4 the first two hours of the
\* second day are skipped, and with them the daily time.  The horizon leaves
\* room for three occurrences of either schedule, downtime between them, and
\* prunings.  Transfer: two operators, a file that changes once, and one import
\* into the new database meanwhile.  Roster: two operators who list the same
\* two players, of the same team or not, and one Discord account.  Questions:
\* three runs of two sorts, who leads and who plays, so that the run a question
\* is about is first current, then previous, then gone.
\* Jobs: one, so that the two workers can only meet on it; with two attempts and
\* three faults, every attempt may be cut short by a crash, an error or a
\* takeover, and a fault is left for the row that is then closed.
SPECIFICATION AllSpec
CONSTANTS
    Day = 4
    Shift = 4
    Before = 0
    After = 2
    Name = {n1}
    Specs <- MCSpecs
    CallTime = 1
    Retention = 2
    Horizon = 9
    Reach = 4
    LegacyEvents = {1}
    Operators = {o1, o2}
    MaxVersions = 2
    MaxImports = 1
    Slugs = {t1, t2}
    Players = {1, 2}
    Roles = {"member", "captain"}
    Admins = {o1, o2}
    Accounts = {d1}
    Lists <- MCLists
    MaxMembers = 4
    MaxStarted = 3
    MaxLinked = 1
    PlayerIds = {1, 2, 3}
    Contents <- MCContents
    TeamIds = {1, 3}
    Askers = {a1}
    MinimumMatches = 2
    PageLimit = 1
    PageOffset = 1
    MaxRuns = 3
    JobId = {j1}
    Key = {k1}
    NoKey = NoKey
    AttemptCap = 2
    LeaseTime = 1
    WaitCap = 1
    Worker = {w1, w2}
    NoJob = NoJob
    MaxFaults = 3
CHECK_DEADLOCK FALSE
INVARIANT AllTypeOK
INVARIANT RunsOnce
INVARIANT NothingSkipped
INVARIANT ReportsAreExact
INVARIANT RosterAsInstalled
INVARIANT AnswersAreOfOneRun
PROPERTY CatchesUp
PROPERTY EveryJobIsDecided
