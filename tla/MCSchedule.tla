----------------------------- MODULE MCSchedule -----------------------------
(***************************************************************************)
(* Schedules on a small instance: an interval, and a daily wall-clock time *)
(* that the zone's change of offset skips, or repeats.                     *)
(***************************************************************************)
EXTENDS Schedule

MCSpecs == {Interval(2), Daily(1)}
=============================================================================
