---------------------------- MODULE MCOperations ----------------------------
(***************************************************************************)
(* What operators set up and members look up: schedules, the transfer of   *)
(* the legacy file, the teams' rosters, and questions about ratings; and   *)
(* the workers that do the rest, on one job.  What one of them needs of    *)
(* another's tables is in its own module, so that each behaviour is about  *)
(* one part.                                                               *)
(***************************************************************************)
EXTENDS Schedule, LegacyTransfer, Roster, RatingQueries

CONSTANTS JobId, Key, NoKey, AttemptCap, LeaseTime, WaitCap, Worker, NoJob, MaxFaults

VARIABLES jobs, attempts, issued, pc, lease, beating, faults, executed, part

Jobs == INSTANCE JobWorker WITH Retention <- LeaseTime

jobVars == <<jobs, attempts, issued, pc, lease, beating, faults, executed>>
otherVars == <<transferVars, rosterVars, queryVars>>
allVars == <<vars, jobVars, otherVars, part>>

MCSpecs == {Interval(2), Daily(1)}

In(p, role) == [player |-> p, role |-> role]
MCLists ==
    {<<In(1, "member"), In(2, "captain")>>, <<In(2, "member"), In(1, "captain")>>,
     <<In(1, "captain"), In(1, "member")>>, <<>>}

Has(rating, matches) == [rating |-> rating, matches |-> matches]
MCContents ==
    {<<Has(2, 1), Has(1, 1), Has(0, 0)>>, <<Has(1, 2), Has(1, 1), Has(2, 2)>>}

AnyFile == CHOOSE f \in Files : f.log = <<>> /\ f.form = "good"

AllInit ==
    /\ Init /\ TransferInit /\ RosterInit /\ QueryInit /\ Jobs!Init
    /\ part \in {"schedules", "transfer", "roster", "questions", "jobs"}
    /\ known = PlayerIds \ {1}
    /\ part # "transfer" => versions = <<AnyFile>>

AllNext ==
    /\ UNCHANGED part
    /\ \/ part = "schedules" /\ Next /\ UNCHANGED <<jobVars, otherVars>>
       \/ part = "jobs" /\ Jobs!Next /\ UNCHANGED <<vars, otherVars>>
       \/ /\ part = "transfer" /\ TransferNext
          /\ UNCHANGED <<vars, jobVars, rosterVars, queryVars>>
       \/ /\ part = "roster" /\ RosterNext
          /\ UNCHANGED <<vars, jobVars, transferVars, queryVars>>
       \/ /\ part = "questions" /\ QueryNext
          /\ UNCHANGED <<vars, jobVars, transferVars, rosterVars>>

\* What JobWorker asks of workers and of the clock, one job at a time.
Works(w) ==
    \/ Jobs!ClaimJob(w) \/ Jobs!FindNothing(w)
    \/ Jobs!ExecutionReturns(w) \/ Jobs!ExecutionRaises(w) \/ Jobs!ReportSuccess(w)
    \/ Jobs!ReportFailure(w) \/ Jobs!ReportFailureRaises(w) \/ Jobs!Restart(w)
Ages == Jobs!Queue!Tick /\ UNCHANGED <<pc, lease, beating, faults, executed>>

\* Workers poll the schedules, and treat the jobs with the fairness of JobWorker.
AllSpec ==
    /\ AllInit /\ [][AllNext]_allVars
    /\ \A n \in Name : WF_vars(part = "schedules" /\ Poll(n))
    /\ WF_jobVars(part = "jobs" /\ Ages)
    /\ \A w \in Worker : WF_jobVars(part = "jobs" /\ Works(w))

\* The rows and local data of the other four parts keep their types.
AllTypeOK == TypeOK /\ TransferTypeOK /\ RosterTypeOK /\ QueryTypeOK

\* Every job that is queued is decided in the end, whatever workers die or
\* lose their leases on the way.
EveryJobIsDecided == Jobs!EveryJobIsDecided
=============================================================================
