----------------------------- MODULE Occurrence -----------------------------
(***************************************************************************)
(* When a schedule is next due (next_occurrence, lorcana/jobs/schedule.py).*)
(*                                                                         *)
(* Instants are natural numbers of UTC.  The schedule's time zone changes  *)
(* its offset once, at Shift: the clocks go forward there when Before is   *)
(* less than After, back when it is greater, and not at all when they are  *)
(* equal.                                                                  *)
(***************************************************************************)
EXTENDS Integers

CONSTANTS
    Day,            \* length of a day
    Shift,          \* instant at which the zone changes its offset
    Before, After   \* the zone's offsets before and from that instant on

\* Offsets are within a day, and the change is not in the first hours of time.
ASSUME ZoneAssumption ==
    /\ Day \in Nat \ {0} /\ Shift \in Nat
    /\ {Before, After} \subseteq 0..Day - 1
    /\ Before <= Shift + After

\* schedule_spec: a fixed interval, or a daily wall-clock time in the zone.
Interval(seconds) == <<"interval", seconds>>
Daily(hour) == <<"daily", hour>>
IsDaily(spec) == spec[1] = "daily"

Local(t) == t + (IF t < Shift THEN Before ELSE After)

Later(a, b) == IF a < b THEN b ELSE a

\* Mutant: the offset added instead of taken off.
UtcOfAdding(wall) == wall + (IF wall < Shift + Later(Before, After)
                             THEN Before ELSE After)
\* A datetime built from a wall-clock time has fold 0: in the hour that the
\* clocks repeat or skip, it is read with the offset from before the change.
UtcOf(wall) == wall - (IF wall < Shift + Later(Before, After)
                       THEN Before ELSE After)

\* Python compares two datetimes of one zone by their wall-clock times.
NextWall(hour, wall) ==
    LET candidate == (wall \div Day) * Day + hour
    IN  IF candidate <= wall THEN candidate + Day ELSE candidate

NextOccurrence(spec, after) ==
    IF IsDaily(spec) THEN UtcOf(NextWall(spec[2], Local(after)))
    ELSE after + spec[2]
=============================================================================
