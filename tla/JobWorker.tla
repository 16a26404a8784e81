----------------------------- MODULE JobWorker -----------------------------
(***************************************************************************)
(* Worker processes on the job queue (lorcana/jobs/worker.py): claim,      *)
(* execute under a heartbeat thread, report the outcome, and what happens  *)
(* to each step when the lease is gone, the database fails, or the process *)
(* dies and is started again.                                              *)
(*                                                                         *)
(* A database call that raises may or may not have committed: both are     *)
(* steps below.  Crashes and database errors together are bounded by       *)
(* MaxFaults.                                                              *)
(***************************************************************************)
EXTENDS Naturals

CONSTANTS
    JobId, Key, NoKey, AttemptCap, LeaseTime, WaitCap, Retention,
    Worker,         \* worker processes
    NoJob,          \* the job of a worker that has none
    MaxFaults       \* bound on crashes and database errors

ASSUME QueueAssumption ==
    /\ NoKey \notin Key
    /\ AttemptCap \in Nat \ {0}
    /\ {LeaseTime, WaitCap, Retention} \subseteq Nat
ASSUME FaultAssumption == MaxFaults \in Nat
ASSUME NoJobAssumption == NoJob \notin JobId

VARIABLES
    jobs, attempts, issued,   \* the database, as in JobQueue
    pc,             \* where each worker is in run_once; "dead" when it has none
    lease,          \* the JobLease each worker holds in memory
    beating,        \* the heartbeat thread has met no error
    faults,         \* crashes and database errors so far
    executed        \* tokens of the attempts whose execution returned normally

queueVars == <<jobs, attempts, issued>>
workerVars == <<pc, lease, beating>>
vars == <<jobs, attempts, issued, pc, lease, beating, faults, executed>>

Queue == INSTANCE JobQueue

\* "failing" and "retrying": queue.fail is called with retryable=False, =True.
Busy == {"executing", "succeeding", "failing", "retrying"}
Control == {"idle", "dead"} \cup Busy
Lease == [job : JobId, token : Nat, number : Nat, max : Nat]
NoLease == [job |-> NoJob, token |-> 0, number |-> 0, max |-> 0]

Init ==
    /\ Queue!Init
    /\ pc = [w \in Worker |-> "idle"]
    /\ lease = [w \in Worker |-> NoLease]
    /\ beating = [w \in Worker |-> FALSE]
    /\ faults = 0
    /\ executed = {}

Goto(w, label) == pc' = [pc EXCEPT ![w] = label]

\* The worker is done with its lease, by returning from run_once or by dying.
Leave(w, label) ==
    /\ Goto(w, label)
    /\ lease' = [lease EXCEPT ![w] = NoLease]
    /\ beating' = [beating EXCEPT ![w] = FALSE]

Fault ==
    /\ faults < MaxFaults
    /\ faults' = faults + 1

\* The tables still carry the lease the worker holds in memory.
Current(w) == Queue!Holds(lease[w].job, lease[w].token)

-----------------------------------------------------------------------------
Claims(j) ==
    \E locked \in SUBSET JobId, left \in 0..LeaseTime :
        Queue!Claim(j, locked, left)

\* What claim returns: the row as it was, with the new token and number.
LeaseOn(j) == [job |-> j, token |-> issued', max |-> jobs[j].max,
               number |-> jobs[j].count + 1]

\* Mutant: the number of the attempt before this one.
ClaimJobMisnumbered(w) ==
    /\ pc[w] = "idle"
    /\ \E j \in JobId :
          /\ Claims(j)
          /\ lease' = [lease EXCEPT ![w] =
                         [LeaseOn(j) EXCEPT !.number = jobs[j].count]]
    /\ Goto(w, "executing")
    /\ beating' = [beating EXCEPT ![w] = TRUE]
    /\ UNCHANGED <<faults, executed>>
ClaimJob(w) ==
    /\ pc[w] = "idle"
    /\ \E j \in JobId :
          /\ Claims(j)
          /\ lease' = [lease EXCEPT ![w] = LeaseOn(j)]
    /\ Goto(w, "executing")
    /\ beating' = [beating EXCEPT ![w] = TRUE]
    /\ UNCHANGED <<faults, executed>>

FindNothing(w) ==
    /\ pc[w] = "idle"
    /\ \E locked \in SUBSET JobId : Queue!ClaimNothing(locked)
    /\ UNCHANGED <<pc, lease, beating, faults, executed>>

\* queue.claim is outside every try: the process ends, perhaps after a commit.
ClaimRaises(w) ==
    /\ pc[w] = "idle"
    /\ Fault
    /\ UNCHANGED queueVars \/ \E j \in JobId : Claims(j)
    /\ Leave(w, "dead")
    /\ UNCHANGED executed

\* One round of LeaseHeartbeat._run; its thread may still be in a call after
\* the join in __exit__ has timed out.
Beat(w) ==
    /\ pc[w] \in Busy
    /\ beating[w]
    /\ \/ /\ \E left \in 0..LeaseTime :
                Queue!Heartbeat(lease[w].job, lease[w].token, left)
          /\ UNCHANGED beating
       \/ /\ ~Current(w)
          /\ beating' = [beating EXCEPT ![w] = FALSE]
          /\ UNCHANGED queueVars
    /\ UNCHANGED <<pc, lease, faults, executed>>

BeatRaises(w) ==
    /\ pc[w] \in Busy
    /\ beating[w]
    /\ Fault
    /\ \/ UNCHANGED queueVars
       \/ \E left \in 0..LeaseTime :
             Queue!Heartbeat(lease[w].job, lease[w].token, left)
    /\ beating' = [beating EXCEPT ![w] = FALSE]
    /\ UNCHANGED <<pc, lease, executed>>

\* With a heartbeat error the result is dropped and the row left to expire.
ExecutionReturns(w) ==
    /\ pc[w] = "executing"
    /\ executed' = executed \cup {lease[w].token}
    /\ IF beating[w] THEN Goto(w, "succeeding") /\ UNCHANGED <<lease, beating>>
       ELSE Leave(w, "idle")
    /\ UNCHANGED <<queueVars, faults>>

\* Mutant: the exception is swallowed and the job reported as done.
ExecutionRaisesUnseen(w) ==
    /\ pc[w] = "executing"
    /\ Goto(w, "succeeding")
    /\ UNCHANGED <<queueVars, lease, beating, faults, executed>>
\* PermanentJobError, or any other exception; the heartbeat is not consulted.
ExecutionRaises(w) ==
    /\ pc[w] = "executing"
    /\ Goto(w, "failing") \/ Goto(w, "retrying")
    /\ UNCHANGED <<queueVars, lease, beating, faults, executed>>

\* A lost lease is refused by the queue, logged, and forgotten.
ReportSuccess(w) ==
    /\ pc[w] = "succeeding"
    /\ \/ Queue!Succeed(lease[w].job, lease[w].token)
       \/ ~Current(w) /\ UNCHANGED queueVars
    /\ Leave(w, "idle")
    /\ UNCHANGED <<faults, executed>>

\* A database error in queue.succeed is handled as a retryable job failure.
ReportSuccessRaises(w) ==
    /\ pc[w] = "succeeding"
    /\ Fault
    /\ UNCHANGED queueVars \/ Queue!Succeed(lease[w].job, lease[w].token)
    /\ Goto(w, "retrying")
    /\ UNCHANGED <<lease, beating, executed>>

\* JobQueue.fail passes retry_at only to an attempt below the lease's maximum.
Fails(w) ==
    \E delay \in 0..WaitCap :
        Queue!Fail(lease[w].job, lease[w].token,
                   pc[w] = "retrying" /\ lease[w].number < lease[w].max, delay)

ReportFailure(w) ==
    /\ pc[w] \in {"failing", "retrying"}
    /\ Fails(w)
    /\ Leave(w, "idle")
    /\ UNCHANGED <<faults, executed>>

\* queue.fail raises inside an except clause of run_once: JobLeaseLostError
\* without any fault, or a database error; either ends the process.
ReportFailureRaises(w) ==
    /\ pc[w] \in {"failing", "retrying"}
    /\ \/ ~Current(w) /\ UNCHANGED <<queueVars, faults>>
       \/ Fault /\ (UNCHANGED queueVars \/ Fails(w))
    /\ Leave(w, "dead")
    /\ UNCHANGED executed

Crash(w) ==
    /\ pc[w] # "dead"
    /\ Fault
    /\ Leave(w, "dead")
    /\ UNCHANGED <<queueVars, executed>>

Restart(w) ==
    /\ pc[w] = "dead"
    /\ Goto(w, "idle")
    /\ UNCHANGED <<queueVars, lease, beating, faults, executed>>

\* Other users of the tables: whoever enqueues, the pruning job, the clock.
Others ==
    /\ Queue!Enqueues \/ Queue!Prunes \/ Queue!Tick
    /\ UNCHANGED <<workerVars, faults, executed>>

Step(w) ==
    \/ ClaimJob(w) \/ FindNothing(w) \/ ClaimRaises(w)
    \/ Beat(w) \/ BeatRaises(w)
    \/ ExecutionReturns(w) \/ ExecutionRaises(w)
    \/ ReportSuccess(w) \/ ReportSuccessRaises(w)
    \/ ReportFailure(w) \/ ReportFailureRaises(w)
    \/ Crash(w) \/ Restart(w)

Next == Others \/ \E w \in Worker : Step(w)

Spec == Init /\ [][Next]_vars

\* run_forever polls for ever, an execution ends, time passes, and a dead
\* process is started again by whatever supervises it.
Fairness ==
    /\ WF_vars(Queue!Tick /\ UNCHANGED <<workerVars, faults, executed>>)
    /\ \A w \in Worker :
          /\ WF_vars(ClaimJob(w))
          /\ WF_vars(FindNothing(w))
          /\ WF_vars(ExecutionReturns(w) \/ ExecutionRaises(w))
          /\ WF_vars(ReportSuccess(w))
          /\ WF_vars(ReportFailure(w) \/ ReportFailureRaises(w))
          /\ WF_vars(Restart(w))

FairSpec == Spec /\ Fairness

-----------------------------------------------------------------------------
TypeOK ==
    /\ Queue!TypeOK
    /\ pc \in [Worker -> Control]
    /\ lease \in [Worker -> Lease \cup {NoLease}]
    /\ \A w \in Worker : pc[w] \in Busy => lease[w] \in Lease
    /\ beating \in [Worker -> BOOLEAN]
    /\ faults \in 0..MaxFaults
    /\ executed \subseteq 1..issued

\* At most one worker holds the lease the tables carry, however many believe
\* they do; and that worker's copy of the attempt number and of the budget
\* agrees with the row, so what fail tells its caller is what it wrote.
OneHolder ==
    /\ \A v, w \in Worker :
          /\ {pc[v], pc[w]} \subseteq Busy
          /\ lease[v].job = lease[w].job
          /\ Current(v) /\ Current(w)
          => v = w
    /\ \A w \in Worker : pc[w] \in Busy /\ Current(w) =>
          /\ lease[w].number = jobs[lease[w].job].count
          /\ lease[w].max = jobs[lease[w].job].max

\* A job succeeds only if its newest attempt was executed to the end.
SuccessWasExecuted ==
    \A j \in JobId : jobs[j].status = "succeeded" =>
        attempts[j][jobs[j].count].token \in executed

\* A worker that was taken over commits no outcome: when a running job is
\* succeeded, failed or sent back to the queue other than by its lease expiring,
\* the step is one of the worker leased its newest attempt.
StaleNeverCommits ==
    [][\A j \in JobId :
          /\ jobs[j].status = "running"
          /\ jobs'[j].status # "running"
          /\ attempts'[j][jobs[j].count].status # "lease_expired"
          => \E w \in Worker :
                /\ pc[w] \in Busy /\ pc'[w] # pc[w]
                /\ lease[w].job = j
                /\ lease[w].number = jobs[j].count
      ]_vars

\* The workers are callers of the queue and do nothing else to its tables.
ImplementsQueue == Queue!Spec

\* Every job that is queued is decided in the end, whatever workers die or
\* lose their leases on the way.
EveryJobIsDecided ==
    \A j \in JobId :
        jobs[j].status = "queued" ~>
            jobs[j].status \in Queue!Terminal \cup {"deleted"}
=============================================================================
