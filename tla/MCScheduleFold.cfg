\* The clocks go back at instant 4: two hours of the second day are repeated,
\* and the daily time is in the second of them.
SPECIFICATION Spec
CONSTANTS
    Day = 4
    Shift = 4
    Before = 2
    After = 0
    Name = {n1}
    Specs <- MCSpecs
    CallTime = 1
    Retention = 3
    Horizon = 9
    Reach = 6
INVARIANT NextIsLater
