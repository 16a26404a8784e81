------------------------------ MODULE Schedule ------------------------------
(***************************************************************************)
(* Recurring work (lorcana/jobs/schedule.py): named schedules, and the     *)
(* turning of their due occurrences into jobs by any number of workers,    *)
(* each of which does so before it claims a job.                           *)
(*                                                                         *)
(* Each action is one transaction.  `now` is a clock read before it, at    *)
(* most CallTime ago.  Due rows are scanned with SKIP LOCKED, so any due   *)
(* row may be passed over in favour of another.  An occurrence becomes a   *)
(* job under the idempotency key of its schedule and time, which dedupes   *)
(* for as long as the queue keeps the job's row (JobQueue, KeyFree).       *)
(***************************************************************************)
EXTENDS Occurrence

CONSTANTS
    Name,           \* schedule names
    Specs,          \* the schedule_specs that schedules are given
    CallTime,       \* longest time from the clock read to the commit
    Retention,      \* age at which a finished job may be pruned
    Horizon,        \* bound on the clock
    Reach           \* bound on how far ahead a run is ever set

\* next_occurrence refuses other specs.
ASSUME SpecAssumption ==
    \A spec \in Specs :
        \/ spec = Interval(spec[2]) /\ spec[2] \in Nat \ {0}
        \/ spec = Daily(spec[2]) /\ spec[2] \in 0..Day - 1

\* Finished jobs are kept for longer than a call takes and the clocks go back.
ASSUME CallAssumption ==
    /\ {CallTime, Retention, Horizon, Reach} \subseteq Nat
    /\ CallTime < Retention
    /\ Before + CallTime <= After + Retention

ASSUME ReachAssumption ==
    \A spec \in Specs :
        IF IsDaily(spec) THEN Day + Later(Before, After) - After <= Reach ELSE spec[2] <= Reach

VARIABLES
    clock,
    rows,           \* the table scheduled_jobs
    kept,           \* occurrences that have a row in the table jobs
    created,        \* how many such rows each occurrence was ever given
    first           \* the run each schedule was set to by its last upsert

vars == <<clock, rows, kept, created, first>>

LastTime == Horizon + Reach
Time == 0..LastTime
Occurrences == Name \X Time

Row == [spec : Specs, enabled : BOOLEAN, next : Time]
NoRow == [spec |-> Interval(0), enabled |-> FALSE, next |-> 0]
Scheduled(n) == rows[n] # NoRow

\* What a caller may have read from the clock by the time it commits.
Readings == {t \in 0..clock : clock - t <= CallTime}

Init ==
    /\ clock = 0
    /\ rows = [n \in Name |-> NoRow]
    /\ kept = {}
    /\ created = [o \in Occurrences |-> 0]
    /\ first = [n \in Name |-> 0]

\* INSERT ... ON CONFLICT (name) DO UPDATE: the row keeps its identifier, and
\* with it its occurrence keys, but next_run_at is counted anew from now.
Upsert(n, spec, enabled, now) ==
    /\ rows' = [rows EXCEPT ![n] =
                  [spec |-> spec, enabled |-> enabled,
                   next |-> NextOccurrence(spec, now)]]
    /\ first' = [first EXCEPT ![n] = NextOccurrence(spec, now)]
    /\ UNCHANGED <<clock, kept, created>>

Due(n, now) == Scheduled(n) /\ rows[n].enabled /\ rows[n].next <= now

\* Mutant: the occurrence's job is inserted without an idempotency key.
EnqueueOccurrenceUnkeyed(o) ==
    /\ created' = [created EXCEPT ![o] = @ + 1]
    /\ kept' = kept \cup {o}
\* JobRepository.enqueue under the occurrence key.
EnqueueOccurrence(o) ==
    /\ created' = [created EXCEPT ![o] = IF o \in kept THEN @ ELSE @ + 1]
    /\ kept' = kept \cup {o}

Advanced(n, following) == rows' = [rows EXCEPT ![n].next = following]

\* Mutant: after downtime, carry on from the present.
MaterializeFromNow(n, now) ==
    /\ Due(n, now)
    /\ EnqueueOccurrence(<<n, rows[n].next>>)
    /\ Advanced(n, NextOccurrence(rows[n].spec, now))
    /\ UNCHANGED <<clock, first>>
\* Mutant: an occurrence that already has its job is left where it is.
MaterializeNewOnly(n, now) ==
    /\ Due(n, now)
    /\ <<n, rows[n].next>> \notin kept
    /\ EnqueueOccurrence(<<n, rows[n].next>>)
    /\ Advanced(n, NextOccurrence(rows[n].spec, rows[n].next))
    /\ UNCHANGED <<clock, first>>
\* One round of enqueue_due: the job and the advance commit together.
Materialize(n, now) ==
    /\ Due(n, now)
    /\ EnqueueOccurrence(<<n, rows[n].next>>)
    /\ Advanced(n, NextOccurrence(rows[n].spec, rows[n].next))
    /\ UNCHANGED <<clock, first>>

\* No enabled schedule has waited as long as the retention period.  Jobs are
\* pruned by workers, and a worker polls before every job it claims.
Attended ==
    \A n \in Name : rows[n].enabled => clock < rows[n].next + Retention

\* The pruning job, on a row that was completed no earlier than it was due.
Prune(o) ==
    /\ o \in kept
    /\ clock > o[2] + Retention
    /\ Attended
    /\ kept' = kept \ {o}
    /\ UNCHANGED <<clock, rows, created, first>>

Tick ==
    /\ clock < Horizon
    /\ clock' = clock + 1
    /\ UNCHANGED <<rows, kept, created, first>>

Poll(n) == \E now \in Readings : Materialize(n, now)

Next ==
    \/ \E n \in Name, spec \in Specs, enabled \in BOOLEAN, now \in Readings :
          Upsert(n, spec, enabled, now)
    \/ \E n \in Name : Poll(n)
    \/ \E o \in kept : Prune(o)
    \/ Tick

Spec == Init /\ [][Next]_vars

\* Workers poll for ever, and the oldest due row comes first in every scan.
FairSpec == Spec /\ \A n \in Name : WF_vars(Poll(n))

-----------------------------------------------------------------------------
TypeOK ==
    /\ clock \in 0..Horizon
    /\ rows \in [Name -> Row \cup {NoRow}]
    /\ kept \subseteq Occurrences
    /\ created \in [Occurrences -> Nat]
    /\ first \in [Name -> Time]

\* "Return the first UTC occurrence strictly after *after*": an upsert, whenever
\* it comes, never sets a schedule to run at once or in the past.
NextIsLater == \A spec \in Specs : clock < NextOccurrence(spec, clock)

\* No occurrence is given a second job, by two workers polling together, by
\* an upsert that sets a schedule back to an occurrence already handled, or
\* once its first job has been pruned.
RunsOnce == \A o \in Occurrences : created[o] <= 1

\* The occurrences of a schedule from its first run on, by definition: one
\* in every interval, or one on every local day.
IsOccurrence(spec, start, t) ==
    /\ start <= t
    /\ IF IsDaily(spec)
       THEN \E d \in 0..(LastTime \div Day + 1) : t = UtcOf(d * Day + spec[2])
       ELSE \E k \in Time : t = start + k * spec[2]

\* Until its definition is upserted again, a schedule skips no occurrence,
\* however long no worker was there to poll, and is next due at one.
NothingSkipped ==
    \A n \in Name : Scheduled(n) =>
        /\ IsOccurrence(rows[n].spec, first[n], rows[n].next)
        /\ \A t \in first[n] .. rows[n].next - 1 :
              IsOccurrence(rows[n].spec, first[n], t) => created[<<n, t>>] > 0

\* A schedule that has fallen behind catches up, unless it is disabled.
CatchesUp ==
    \A n \in Name :
        (rows[n].enabled /\ rows[n].next <= clock)
            ~> (~rows[n].enabled \/ rows[n].next > clock)
=============================================================================
