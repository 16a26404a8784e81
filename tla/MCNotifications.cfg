SPECIFICATION Spec
CONSTANTS
    Events = {1, 2}
    Bots = {b1, b2}
    Limit = 1
    MaxFaults = 1
    Weeks = {1, 2}
    Posters = {b1, b2}
    Reports = {"long", "short"}
    Pages <- MCPages
    MaxUnsure = 1
INVARIANT TypeOK
INVARIANT CopiesAreExplained
INVARIANT OneReportPerWeek
INVARIANT PagesAreAccountedFor
PROPERTY EveryEventIsRefreshed
PROPERTY LinksAreDelivered
PROPERTY LastWeekIsPosted
