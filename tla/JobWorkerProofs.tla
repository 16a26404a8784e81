-------------------------- MODULE JobWorkerProofs --------------------------
(***************************************************************************)
(* Workers, whatever faults they meet, are callers of the queue: every     *)
(* behaviour of JobWorker is one of JobQueue.  What is proved of the queue *)
(* under arbitrary callers therefore holds with these ones.                *)
(*                                                                         *)
(* A worker that stalls, loses its lease and comes back does no harm: at   *)
(* most one worker holds the lease a row carries, only the worker leased   *)
(* the newest attempt commits an outcome, and a job succeeds only if that  *)
(* attempt was executed.  Both for any number of workers, jobs, attempts   *)
(* and faults.                                                             *)
(***************************************************************************)
EXTENDS JobWorker, TLAPS

QueueProofs == INSTANCE JobQueueProofs

\* What a busy worker holds in memory was issued by the queue.
Held(w) ==
    /\ lease[w].job \in JobId
    /\ lease[w].token \in 1..issued

IInv ==
    /\ issued \in Nat
    /\ pc \in [Worker -> Control]
    /\ lease = [w \in Worker |-> lease[w]]
    /\ \A w \in Worker : pc[w] \in Busy => Held(w)

-----------------------------------------------------------------------------
(***************************************************************************)
(* The calls a worker makes, each a step of the queue.                     *)
(***************************************************************************)
LEMMA ClaimIsStep ==
    ASSUME NEW j \in JobId, Claims(j)
    PROVE  Queue!Next /\ issued' = issued + 1
<1>1. PICK locked \in SUBSET JobId, left \in 0..LeaseTime :
         Queue!Claim(j, locked, left)
  BY DEF Claims
<1>2. Queue!Claims
  BY <1>1 DEF Queue!Claims
<1>3. issued' = issued + 1
  BY <1>1 DEF Queue!Claim
<1>4. QED
  BY <1>2, <1>3 DEF Queue!Next

LEMMA EmptyClaimIsStep ==
    ASSUME NEW locked \in SUBSET JobId, Queue!ClaimNothing(locked)
    PROVE  Queue!Next /\ issued' = issued
<1>1. Queue!Claims
  BY DEF Queue!Claims
<1>2. QED
  BY <1>1 DEF Queue!Next, Queue!ClaimNothing

LEMMA HeartbeatIsStep ==
    ASSUME NEW w \in Worker, Held(w), NEW left \in 0..LeaseTime,
           Queue!Heartbeat(lease[w].job, lease[w].token, left)
    PROVE  Queue!Next /\ issued' = issued
<1>1. Queue!Reports
  BY DEF Held, Queue!Reports
<1>2. QED
  BY <1>1 DEF Queue!Next, Queue!Heartbeat

LEMMA SuccessIsStep ==
    ASSUME NEW w \in Worker, Held(w),
           Queue!Succeed(lease[w].job, lease[w].token)
    PROVE  Queue!Next /\ issued' = issued
<1>1. Queue!Reports
  BY DEF Held, Queue!Reports
<1>2. QED
  BY <1>1 DEF Queue!Next, Queue!Succeed

LEMMA FailureIsStep ==
    ASSUME NEW w \in Worker, Held(w), Fails(w)
    PROVE  Queue!Next /\ issued' = issued
<1> DEFINE retry == pc[w] = "retrying" /\ lease[w].number < lease[w].max
<1>1. PICK delay \in 0..WaitCap :
         Queue!Fail(lease[w].job, lease[w].token, retry, delay)
  BY DEF Fails
<1>2. retry \in BOOLEAN
  OBVIOUS
<1> HIDE DEF retry
<1>3. Queue!Reports
  BY <1>1, <1>2 DEF Held, Queue!Reports
<1>4. QED
  BY <1>1, <1>3 DEF Queue!Next, Queue!Fail

LEMMA OtherIsStep ==
    ASSUME Queue!Enqueues \/ Queue!Prunes \/ Queue!Tick
    PROVE  Queue!Next /\ issued' = issued
  BY DEF Queue!Next, Queue!Enqueues, Queue!Enqueue, Queue!Prunes, Queue!Prune,
         Queue!Tick

-----------------------------------------------------------------------------
\* Each step of a worker calls the queue once, or does not call it.
LEMMA StepCallsQueue ==
    ASSUME IInv, [Next]_vars
    PROVE  /\ [Queue!Next]_(Queue!vars)
           /\ issued' = issued \/ issued' = issued + 1
<1> USE DEF queueVars, Queue!vars
<1>1. CASE Others
  BY <1>1, OtherIsStep DEF Others
<1>2. ASSUME NEW w \in Worker, Step(w)
      PROVE  /\ [Queue!Next]_(Queue!vars)
             /\ issued' = issued \/ issued' = issued + 1
  <2>0. pc[w] \in Busy => Held(w)
    BY DEF IInv
  <2>1. CASE ClaimJob(w)
    BY <2>1, ClaimIsStep DEF ClaimJob
  <2>2. CASE FindNothing(w)
    BY <2>2, EmptyClaimIsStep DEF FindNothing
  <2>3. CASE ClaimRaises(w)
    BY <2>3, ClaimIsStep DEF ClaimRaises
  <2>4. CASE Beat(w)
    BY <2>0, <2>4, HeartbeatIsStep DEF Beat
  <2>5. CASE BeatRaises(w)
    BY <2>0, <2>5, HeartbeatIsStep DEF BeatRaises
  <2>6. CASE ReportSuccess(w)
    BY <2>0, <2>6, SuccessIsStep DEF ReportSuccess, Busy
  <2>7. CASE ReportSuccessRaises(w)
    BY <2>0, <2>7, SuccessIsStep DEF ReportSuccessRaises, Busy
  <2>8. CASE ReportFailure(w)
    BY <2>0, <2>8, FailureIsStep DEF ReportFailure, Busy
  <2>9. CASE ReportFailureRaises(w)
    BY <2>0, <2>9, FailureIsStep DEF ReportFailureRaises, Busy
  <2>10. CASE ExecutionReturns(w) \/ ExecutionRaises(w) \/ Crash(w) \/ Restart(w)
    BY <2>10 DEF ExecutionReturns, ExecutionRaises, Crash, Restart
  <2>11. QED
    BY <1>2, <2>1, <2>2, <2>3, <2>4, <2>5, <2>6, <2>7, <2>8, <2>9, <2>10
      DEF Step
<1>3. CASE UNCHANGED vars
  BY <1>3 DEF vars
<1>4. QED
  BY <1>1, <1>2, <1>3 DEF Next

\* A worker comes to hold a lease only by claiming it.
LEMMA StepKeepsHeld ==
    ASSUME IInv, [Next]_vars
    PROVE  IInv'
<1>1. issued' \in Nat /\ 1..issued \subseteq 1..issued'
  BY StepCallsQueue DEF IInv
<1>2. CASE Others \/ UNCHANGED vars
  BY <1>1, <1>2 DEF Others, workerVars, vars, IInv, Held
<1>3. ASSUME NEW w \in Worker, Step(w)
      PROVE  IInv'
  <2>1. CASE ClaimJob(w)
    <3>1. PICK j \in JobId : Claims(j) /\ lease' = [lease EXCEPT ![w] = LeaseOn(j)]
      BY <2>1 DEF ClaimJob
    <3>2. LeaseOn(j).job \in JobId /\ LeaseOn(j).token \in 1..issued'
      BY <1>1, <3>1, ClaimIsStep DEF LeaseOn, IInv
    <3>3. QED
      BY <1>1, <2>1, <3>1, <3>2
        DEF ClaimJob, Goto, IInv, Held, Control, Busy
  <2>2. CASE \/ ClaimRaises(w) \/ Crash(w)
             \/ (ReportFailure(w) \/ ReportFailureRaises(w) \/ ReportSuccess(w))
    BY <1>1, <2>2 DEF ClaimRaises, Crash, ReportFailure, ReportFailureRaises,
         ReportSuccess, Leave, Goto, IInv, Held, Control, Busy
  <2>3. CASE \/ FindNothing(w) \/ Beat(w) \/ BeatRaises(w)
    BY <1>1, <2>3 DEF FindNothing, Beat, BeatRaises, IInv, Held
  <2>4. CASE \/ ExecutionRaises(w) \/ ReportSuccessRaises(w) \/ Restart(w)
    BY <1>1, <2>4 DEF ExecutionRaises, ReportSuccessRaises, Restart, Goto,
         IInv, Held, Control, Busy
  <2>5. CASE ExecutionReturns(w)
    BY <1>1, <2>5 DEF ExecutionReturns, Leave, Goto, IInv, Held, Control, Busy
  <2>6. QED
    BY <1>3, <2>1, <2>2, <2>3, <2>4, <2>5 DEF Step
<1>4. QED
  BY <1>2, <1>3 DEF Next

LEMMA InitHeld == Init => IInv
  BY DEF Init, IInv, Control, Busy, Queue!Init

\* Worker processes, with their crashes, restarts and lost leases, do nothing
\* to the queue's tables that the queue does not allow its callers.
THEOREM WorkersAreCallers == Spec => ImplementsQueue
<1>1. Init => Queue!Init
  BY DEF Init
<1>2. Spec => []IInv
  BY InitHeld, StepKeepsHeld, PTL DEF Spec
<1>3. IInv /\ [Next]_vars => [Queue!Next]_(Queue!vars)
  BY StepCallsQueue
<1>4. QED
  BY <1>1, <1>2, <1>3, PTL DEF Spec, ImplementsQueue, Queue!Spec

\* The theorems about the queue speak of the same queue.
LEMMA SameQueue ==
    /\ Queue!Init <=> QueueProofs!Init
    /\ [Queue!Next]_(Queue!vars) <=> [QueueProofs!Next]_(QueueProofs!vars)
    /\ Queue!Consistent <=> QueueProofs!Consistent
<1>1. Queue!Init <=> QueueProofs!Init
  BY DEF Queue!Init, QueueProofs!Init, Queue!NoRow, QueueProofs!NoRow,
      Queue!NoAttempt, QueueProofs!NoAttempt, Queue!NoToken,
      QueueProofs!NoToken, Queue!AttemptNo, QueueProofs!AttemptNo
<1>2. [Queue!Next]_(Queue!vars) <=> [QueueProofs!Next]_(QueueProofs!vars)
  BY DEF Queue!Enqueues, QueueProofs!Enqueues, Queue!Enqueue, QueueProofs!Enqueue,
      Queue!KeyFree, QueueProofs!KeyFree, Queue!NoRow, QueueProofs!NoRow,
      Queue!NoAttempt, QueueProofs!NoAttempt, Queue!NoToken,
      QueueProofs!NoToken, Queue!AttemptNo, QueueProofs!AttemptNo,
      Queue!Claims, QueueProofs!Claims, Queue!Claim, QueueProofs!Claim,
      Queue!ClaimNothing, QueueProofs!ClaimNothing, Queue!Claimable,
      QueueProofs!Claimable, Queue!Doomed, QueueProofs!Doomed, Queue!Expired,
      QueueProofs!Expired, Queue!Exhausted, QueueProofs!Exhausted,
      Queue!Leased, QueueProofs!Leased, Queue!Closed, QueueProofs!Closed,
      Queue!Abandoned, QueueProofs!Abandoned, Queue!Reports,
      QueueProofs!Reports, Queue!Heartbeat, QueueProofs!Heartbeat, Queue!Holds,
      QueueProofs!Holds, Queue!Succeed, QueueProofs!Succeed, Queue!Settled,
      QueueProofs!Settled, Queue!Fail, QueueProofs!Fail, Queue!Requeued,
      QueueProofs!Requeued, Queue!Prunes, QueueProofs!Prunes, Queue!Prune,
      QueueProofs!Prune, Queue!Prunable, QueueProofs!Prunable, Queue!Terminal,
      QueueProofs!Terminal, Queue!Tick, QueueProofs!Tick, Queue!Aged,
      QueueProofs!Aged, Queue!Countdown, QueueProofs!Countdown, Queue!vars,
      QueueProofs!vars, Queue!Next, QueueProofs!Next
<1>3. Queue!Consistent <=> QueueProofs!Consistent
  BY DEF Queue!Consistent, QueueProofs!Consistent, Queue!AttemptsAreDense,
      QueueProofs!AttemptsAreDense, Queue!OneOpenAttempt,
      QueueProofs!OneOpenAttempt, Queue!SuccessAgrees,
      QueueProofs!SuccessAgrees, Queue!TokensAreUnique,
      QueueProofs!TokensAreUnique, Queue!OneRowPerKey,
      QueueProofs!OneRowPerKey, Queue!AttemptNo, QueueProofs!AttemptNo
<1>4. QED
  BY <1>1, <1>2, <1>3

\* The tables say consistent things of each other (dense attempts, one open
\* attempt, unique tokens and keys) whatever these workers, their heartbeat
\* threads, crashes and database errors do: the queue's own theorem, carried
\* over to the system that calls it.
THEOREM WorkersKeepTablesConsistent == Spec => []Queue!Consistent
<1>0. /\ NoKey \notin Key
      /\ AttemptCap \in Nat \ {0} /\ LeaseTime \in Nat
      /\ WaitCap \in Nat /\ Retention \in Nat
  BY QueueAssumption
<1>1. QueueProofs!Spec => []QueueProofs!Consistent
  BY <1>0, QueueProofs!Consistency, PTL
<1>2. QED
  BY <1>1, SameQueue, WorkersAreCallers, PTL
    DEF ImplementsQueue, Queue!Spec, QueueProofs!Spec

-----------------------------------------------------------------------------
(***************************************************************************)
(* Fencing.  The argument ties what a worker remembers to the tables: its  *)
(* lease names an attempt that is recorded under its token, until the job  *)
(* is pruned.  The queue keeps recorded attempts and never gives a token   *)
(* twice (JobQueueProofs), so a token on a running row identifies both the *)
(* attempt and the worker.                                                 *)
(***************************************************************************)
\* What worker w remembers is recorded in the tables.
Backed(w) ==
    /\ lease[w] \in Lease
    /\ lease[w].token \in 1..issued
    /\ lease[w].number \in Queue!AttemptNo
    /\ jobs[lease[w].job].status # "deleted" =>
          /\ attempts[lease[w].job][lease[w].number].status # "none"
          /\ attempts[lease[w].job][lease[w].number].token = lease[w].token
          /\ jobs[lease[w].job].max = lease[w].max

\* No two workers remember the same token.
TokensApart ==
    \A v, w \in Worker :
        pc[v] \in Busy /\ pc[w] \in Busy /\ lease[v].token = lease[w].token
        => v = w

WorkerTypeOK ==
    /\ pc \in [Worker -> Control]
    /\ lease \in [Worker -> Lease \cup {NoLease}]
    /\ beating \in [Worker -> BOOLEAN]
    /\ faults \in 0..MaxFaults
    /\ executed \subseteq 1..issued

FInv ==
    /\ WorkerTypeOK
    /\ \A w \in Worker : pc[w] \in Busy => Backed(w)
    /\ TokensApart
    /\ \A w \in Worker : pc[w] = "succeeding" => lease[w].token \in executed
    /\ SuccessWasExecuted

-----------------------------------------------------------------------------
(***************************************************************************)
(* The queue of JobWorker and the one the theorems about it speak of.      *)
(***************************************************************************)
LEMMA Assumptions ==
    /\ NoKey \notin Key
    /\ AttemptCap \in Nat \ {0} /\ LeaseTime \in Nat
    /\ WaitCap \in Nat /\ Retention \in Nat
  BY QueueAssumption

LEMMA SameClaim ==
    ASSUME NEW j, NEW locked, NEW left
    PROVE  Queue!Claim(j, locked, left) <=> QueueProofs!Claim(j, locked, left)
  BY DEF Queue!Claim, QueueProofs!Claim, Queue!Claimable, QueueProofs!Claimable,
      Queue!Doomed, QueueProofs!Doomed, Queue!Expired, QueueProofs!Expired,
      Queue!Exhausted, QueueProofs!Exhausted, Queue!Leased, QueueProofs!Leased,
      Queue!Closed, QueueProofs!Closed, Queue!NoToken, QueueProofs!NoToken,
      Queue!Abandoned, QueueProofs!Abandoned, Queue!AttemptNo,
      QueueProofs!AttemptNo

LEMMA SameClaimNothing ==
    ASSUME NEW locked
    PROVE  Queue!ClaimNothing(locked) <=> QueueProofs!ClaimNothing(locked)
  BY DEF Queue!ClaimNothing, QueueProofs!ClaimNothing,
      Queue!Claimable, QueueProofs!Claimable,
      Queue!Doomed, QueueProofs!Doomed, Queue!Expired, QueueProofs!Expired,
      Queue!Exhausted, QueueProofs!Exhausted,
      Queue!Closed, QueueProofs!Closed, Queue!NoToken, QueueProofs!NoToken,
      Queue!Abandoned, QueueProofs!Abandoned, Queue!AttemptNo,
      QueueProofs!AttemptNo

LEMMA SameReports ==
    ASSUME NEW j, NEW t
    PROVE  /\ Queue!Succeed(j, t) <=> QueueProofs!Succeed(j, t)
           /\ \A retry, d :
                 Queue!Fail(j, t, retry, d) <=> QueueProofs!Fail(j, t, retry, d)
           /\ \A left :
                 Queue!Heartbeat(j, t, left) <=> QueueProofs!Heartbeat(j, t, left)
           /\ Queue!Holds(j, t) <=> QueueProofs!Holds(j, t)
  BY DEF Queue!Heartbeat, QueueProofs!Heartbeat, Queue!Holds,
      QueueProofs!Holds, Queue!Succeed, QueueProofs!Succeed, Queue!Settled,
      QueueProofs!Settled, Queue!Fail, QueueProofs!Fail, Queue!Requeued,
      QueueProofs!Requeued, Queue!Closed, QueueProofs!Closed,
      Queue!NoToken, QueueProofs!NoToken, Queue!Exhausted,
      QueueProofs!Exhausted, Queue!AttemptNo, QueueProofs!AttemptNo

LEMMA SameOthers ==
    /\ Queue!Enqueues <=> QueueProofs!Enqueues
    /\ Queue!Prunes <=> QueueProofs!Prunes
    /\ Queue!Tick <=> QueueProofs!Tick
  BY DEF Queue!Enqueues, QueueProofs!Enqueues, Queue!Enqueue,
      QueueProofs!Enqueue, Queue!KeyFree, QueueProofs!KeyFree, Queue!NoRow,
      QueueProofs!NoRow, Queue!NoAttempt, QueueProofs!NoAttempt,
      Queue!NoToken, QueueProofs!NoToken, Queue!AttemptNo,
      QueueProofs!AttemptNo, Queue!Prunes, QueueProofs!Prunes, Queue!Prune,
      QueueProofs!Prune, Queue!Prunable, QueueProofs!Prunable,
      Queue!Terminal, QueueProofs!Terminal, Queue!Tick, QueueProofs!Tick,
      Queue!Aged, QueueProofs!Aged, Queue!Countdown, QueueProofs!Countdown

LEMMA SameType ==
    /\ QueueProofs!IInv => Queue!TypeOK
    /\ QueueProofs!AttemptNo = Queue!AttemptNo
  BY DEF QueueProofs!IInv, QueueProofs!TypeOK, Queue!TypeOK, QueueProofs!Row,
      Queue!Row, QueueProofs!Attempt, Queue!Attempt, QueueProofs!Status,
      Queue!Status, QueueProofs!AttemptStatus, Queue!AttemptStatus,
      QueueProofs!Terminal, Queue!Terminal, QueueProofs!AttemptNo,
      Queue!AttemptNo

-----------------------------------------------------------------------------
(***************************************************************************)
(* What a step of the queue means for those who remember attempts.         *)
(***************************************************************************)
LEMMA BackedStays ==
    ASSUME QueueProofs!IInv, [Queue!Next]_(Queue!vars), NEW w \in Worker,
           Backed(w), lease'[w] = lease[w], 1..issued \subseteq 1..issued'
    PROVE  Backed(w)'
<1> DEFINE j == lease[w].job  n == lease[w].number
<1>1. j \in JobId /\ n \in QueueProofs!AttemptNo
  BY SameType DEF Backed, Lease
<1>2. ASSUME jobs'[j].status # "deleted"
      PROVE  /\ attempts'[j][n].status # "none"
             /\ attempts'[j][n].token = lease[w].token
             /\ jobs'[j].max = lease[w].max
  <2>1. [QueueProofs!Next]_(QueueProofs!vars)
    BY SameQueue
  <2>2. jobs[j].status # "deleted" => attempts[j][n].status # "none"
    BY DEF Backed
  <2>3. jobs[j].status # "deleted"
    BY <1>1, <1>2, <2>1, Assumptions, QueueProofs!DeletedForGood
  <2>4. QED
    BY <1>1, <1>2, <2>1, <2>2, <2>3, Assumptions, QueueProofs!AttemptsAreKept
      DEF Backed
<1>3. QED
  BY <1>2, SameType DEF Backed

LEMMA SuccessStays ==
    ASSUME QueueProofs!IInv, [Queue!Next]_(Queue!vars), SuccessWasExecuted,
           executed \subseteq executed', NEW j \in JobId,
           jobs[j].status = "succeeded", jobs'[j].status = "succeeded"
    PROVE  attempts'[j][jobs'[j].count].token \in executed'
<1>1. [QueueProofs!Next]_(QueueProofs!vars)
  BY SameQueue
<1>2. jobs'[j].count = jobs[j].count /\ attempts'[j] = attempts[j]
  BY <1>1, Assumptions, QueueProofs!TerminalRowsStand DEF QueueProofs!Terminal
<1>3. QED
  BY <1>2 DEF SuccessWasExecuted

\* Two leases under one token name one job and one attempt.
LEMMA TokenNamesAttempt ==
    ASSUME QueueProofs!IInv, NEW w \in Worker, Backed(w), Current(w)
    PROVE  /\ lease[w].job \in JobId
           /\ jobs[lease[w].job].status = "running"
           /\ lease[w].number = jobs[lease[w].job].count
           /\ lease[w].max = jobs[lease[w].job].max
           /\ attempts[lease[w].job][jobs[lease[w].job].count].token
                 = lease[w].token
<1> DEFINE j == lease[w].job  n == lease[w].number
<1>1. /\ j \in JobId /\ n \in QueueProofs!AttemptNo
      /\ jobs[j].status = "running" /\ jobs[j].token = lease[w].token
      /\ attempts[j][n].status # "none"
      /\ attempts[j][n].token = lease[w].token
      /\ jobs[j].max = lease[w].max
  BY SameType DEF Backed, Lease, Current, Queue!Holds
<1>2. /\ jobs[j].count \in QueueProofs!AttemptNo
      /\ attempts[j][jobs[j].count].status = "running"
      /\ attempts[j][jobs[j].count].token = lease[w].token
  BY <1>1 DEF QueueProofs!IInv, QueueProofs!RowsOK, QueueProofs!RowOK
<1>3. n = jobs[j].count
  BY <1>1, <1>2 DEF QueueProofs!IInv, QueueProofs!TokensAreUnique
<1>4. QED
  BY <1>1, <1>2, <1>3

\* FInv after a step in which no worker comes to be busy.
LEMMA FInvStays ==
    ASSUME QueueProofs!IInv, FInv, [Queue!Next]_(Queue!vars),
           issued' = issued \/ issued' = issued + 1,
           WorkerTypeOK', executed \subseteq executed',
           \A v \in Worker : pc'[v] \in Busy =>
              pc[v] \in Busy /\ lease'[v] = lease[v],
           \A v \in Worker : pc'[v] = "succeeding" =>
              lease'[v].token \in executed',
           \A j \in JobId :
              jobs'[j].status = "succeeded" /\ jobs[j].status # "succeeded" =>
                 attempts'[j][jobs'[j].count].token \in executed'
    PROVE  FInv'
<1>1. 1..issued \subseteq 1..issued'
  BY DEF QueueProofs!IInv, QueueProofs!TypeOK
<1>2. \A v \in Worker : pc'[v] \in Busy => Backed(v)'
  BY <1>1, BackedStays DEF FInv
<1>3. TokensApart'
  BY DEF FInv, TokensApart
<1>4. SuccessWasExecuted'
  BY SuccessStays DEF FInv, SuccessWasExecuted
<1>5. QED
  BY <1>2, <1>3, <1>4 DEF FInv

\* The queue's variables keep their types, and a worker's memory its shape.
LEMMA InvFacts ==
    ASSUME QueueProofs!IInv, FInv
    PROVE  /\ issued \in Nat /\ 0 \notin 1..issued
           /\ IInv
           /\ WorkerTypeOK
<1>1. issued \in Nat
  BY DEF QueueProofs!IInv, QueueProofs!TypeOK
<1>2. \A w \in Worker : pc[w] \in Busy => Held(w)
  BY DEF FInv, Backed, Held, Lease
<1>3. lease = [w \in Worker |-> lease[w]]
  BY DEF FInv, WorkerTypeOK
<1>4. QED
  BY <1>1, <1>2, <1>3 DEF FInv, WorkerTypeOK, IInv

\* A claim gives the worker a lease on the attempt it records, under a token
\* nobody has.
LEMMA ClaimFInv ==
    ASSUME QueueProofs!IInv, FInv, NEW w \in Worker, ClaimJob(w)
    PROVE  FInv'
<1>0. /\ issued \in Nat /\ WorkerTypeOK
      /\ \A v \in Worker : pc[v] \in Busy => Backed(v)
  BY InvFacts DEF FInv
<1>1. PICK j \in JobId :
         Claims(j) /\ lease' = [lease EXCEPT ![w] = LeaseOn(j)]
  BY DEF ClaimJob
<1>2. PICK locked \in SUBSET JobId, left \in 0..LeaseTime :
         Queue!Claim(j, locked, left)
  BY <1>1 DEF Claims
<1>3. /\ jobs[j].count + 1 \in Queue!AttemptNo
      /\ jobs[j].max \in Nat /\ jobs'[j].max = jobs[j].max
      /\ attempts'[j][jobs[j].count + 1].status = "running"
      /\ attempts'[j][jobs[j].count + 1].token = issued'
      /\ issued' = issued + 1
  BY <1>2, SameClaim, SameType, Assumptions, QueueProofs!ClaimRecords
<1>4. [Queue!Next]_(Queue!vars) /\ 1..issued \subseteq 1..issued'
  BY <1>0, <1>1, ClaimIsStep
<1>5. /\ pc' = [pc EXCEPT ![w] = "executing"]
      /\ beating' = [beating EXCEPT ![w] = TRUE]
      /\ UNCHANGED <<faults, executed>>
  BY DEF ClaimJob, Goto
<1>6. /\ LeaseOn(j) \in Lease
      /\ LeaseOn(j).job = j /\ LeaseOn(j).token = issued'
      /\ LeaseOn(j).number = jobs[j].count + 1 /\ LeaseOn(j).max = jobs[j].max
  BY <1>0, <1>3 DEF LeaseOn, Lease, Queue!AttemptNo
<1>7. /\ lease'[w] = LeaseOn(j)
      /\ \A v \in Worker \ {w} : lease'[v] = lease[v] /\ pc'[v] = pc[v]
  BY <1>0, <1>1, <1>5 DEF WorkerTypeOK
<1>8. WorkerTypeOK'
  BY <1>0, <1>1, <1>4, <1>5, <1>6 DEF WorkerTypeOK, Control, Busy
<1>9. Backed(w)'
  BY <1>0, <1>3, <1>6, <1>7 DEF Backed
<1>10. \A v \in Worker : pc'[v] \in Busy => Backed(v)'
  BY <1>0, <1>4, <1>7, <1>9, BackedStays
<1>11. TokensApart'
  <2>1. \A v \in Worker \ {w} : pc'[v] \in Busy =>
           pc[v] \in Busy /\ lease'[v].token = lease[v].token
                          /\ lease'[v].token # issued'
    BY <1>0, <1>3, <1>7 DEF Backed
  <2>2. QED
    BY <1>6, <1>7, <2>1 DEF FInv, TokensApart
<1>12. \A v \in Worker : pc'[v] = "succeeding" => lease'[v].token \in executed'
  BY <1>0, <1>5, <1>7 DEF FInv, WorkerTypeOK
<1>13. SuccessWasExecuted'
  <2>1. \A i \in JobId : jobs'[i].status = "succeeded" =>
                            jobs[i].status = "succeeded"
    BY <1>2, SameClaim, Assumptions, QueueProofs!OthersDecideNothing
      DEF QueueProofs!Claims
  <2>2. QED
    BY <1>4, <1>5, <2>1, SuccessStays DEF FInv, SuccessWasExecuted
<1>14. QED
  BY <1>8, <1>10, <1>11, <1>12, <1>13 DEF FInv

-----------------------------------------------------------------------------
(***************************************************************************)
(* Who decides a job.                                                      *)
(***************************************************************************)
\* Job j becomes succeeded, or is decided otherwise than by its lease's expiry.
Decides(j) ==
    \/ jobs[j].status # "succeeded" /\ jobs'[j].status = "succeeded"
    \/ /\ jobs[j].status = "running"
       /\ jobs'[j].status # "running"
       /\ attempts'[j][jobs[j].count].status # "lease_expired"

LEMMA OthersDecideNoJob ==
    ASSUME QueueProofs!IInv, NEW j \in JobId,
           \/ Queue!Enqueues \/ Queue!Prunes \/ Queue!Tick
           \/ UNCHANGED queueVars
           \/ \E locked \in SUBSET JobId : Queue!ClaimNothing(locked)
           \/ \E i \in JobId : Claims(i)
           \/ \E i \in JobId, t \in Nat, left \in 0..LeaseTime :
                 Queue!Heartbeat(i, t, left)
    PROVE  ~Decides(j)
<1>1. \/ QueueProofs!Enqueues \/ QueueProofs!Claims \/ QueueProofs!Prunes
      \/ QueueProofs!Tick \/ UNCHANGED QueueProofs!vars
      \/ \E i \in JobId, t \in Nat, left \in 0..LeaseTime :
            QueueProofs!Heartbeat(i, t, left)
  <2>1. CASE \E i \in JobId : Claims(i)
    BY <2>1, SameClaim DEF Claims, QueueProofs!Claims
  <2>2. CASE \E locked \in SUBSET JobId : Queue!ClaimNothing(locked)
    BY <2>2, SameClaimNothing DEF QueueProofs!Claims
  <2>3. CASE UNCHANGED queueVars
    BY <2>3 DEF queueVars, QueueProofs!vars
  <2>4. CASE \E i \in JobId, t \in Nat, left \in 0..LeaseTime :
                Queue!Heartbeat(i, t, left)
    BY <2>4, SameReports
  <2>5. QED
    BY <2>1, <2>2, <2>3, <2>4, SameOthers
<1>2. /\ jobs'[j].status = "succeeded" => jobs[j].status = "succeeded"
      /\ ~QueueProofs!Decided(j)
  BY <1>1, Assumptions, QueueProofs!OthersDecideNothing
<1>3. QED
  BY <1>2 DEF Decides, QueueProofs!Decided

\* Only a worker that holds the job's lease decides it, and with that leaves
\* the place in run_once it was at.
LEMMA HolderDecides ==
    ASSUME QueueProofs!IInv, FInv, NEW w \in Worker, Step(w),
           NEW j \in JobId, Decides(j)
    PROVE  /\ pc[w] \in Busy /\ pc'[w] # pc[w]
           /\ Backed(w) /\ Current(w) /\ lease[w].job = j
           /\ jobs'[j].status = "succeeded" =>
                 /\ pc[w] = "succeeding"
                 /\ attempts'[j][jobs'[j].count].token = lease[w].token
<1>0. /\ pc[w] \in Busy => Backed(w) /\ lease[w].job \in JobId
                           /\ lease[w].token \in Nat
      /\ pc \in [Worker -> Control]
  BY DEF FInv, Backed, Lease, WorkerTypeOK
<1> USE DEF Busy
<1>1. ASSUME Queue!Succeed(lease[w].job, lease[w].token), pc[w] \in Busy
      PROVE  /\ Current(w) /\ lease[w].job = j
             /\ attempts'[j][jobs'[j].count].token = lease[w].token
  <2>1. /\ QueueProofs!Holds(lease[w].job, lease[w].token)
        /\ \A i \in JobId : i # lease[w].job => jobs'[i] = jobs[i]
        /\ attempts'[lease[w].job][jobs'[lease[w].job].count].token
              = lease[w].token
    BY <1>0, <1>1, SameReports, Assumptions, QueueProofs!SuccessDecides
  <2>2. QED
    BY <2>1, SameReports DEF Decides, Current
<1>2. ASSUME Fails(w), pc[w] \in Busy
      PROVE  Current(w) /\ lease[w].job = j /\ jobs'[j].status # "succeeded"
  <2>1. /\ QueueProofs!Holds(lease[w].job, lease[w].token)
        /\ \A i \in JobId : i # lease[w].job => jobs'[i] = jobs[i]
        /\ jobs'[lease[w].job].status # "succeeded"
    BY <1>0, <1>2, SameReports, Assumptions, QueueProofs!FailureDecides
      DEF Fails
  <2>2. QED
    BY <2>1, SameReports DEF Decides, Current
<1>3. ~UNCHANGED queueVars /\ ~(\E i \in JobId : Claims(i))
  BY OthersDecideNoJob
<1>4. CASE ClaimJob(w) \/ ClaimRaises(w)
  BY <1>3, <1>4 DEF ClaimJob, ClaimRaises
<1>5. CASE FindNothing(w)
  BY <1>5, OthersDecideNoJob DEF FindNothing
<1>6. CASE Beat(w) \/ BeatRaises(w)
  BY <1>0, <1>3, <1>6, OthersDecideNoJob DEF Beat, BeatRaises
<1>7. CASE ExecutionReturns(w) \/ ExecutionRaises(w) \/ Crash(w) \/ Restart(w)
  BY <1>3, <1>7 DEF ExecutionReturns, ExecutionRaises, Crash, Restart
<1>8. CASE ReportSuccess(w)
  BY <1>0, <1>1, <1>3, <1>8 DEF ReportSuccess, Leave, Goto
<1>9. CASE ReportSuccessRaises(w)
  BY <1>0, <1>1, <1>3, <1>9 DEF ReportSuccessRaises, Goto
<1>10. CASE ReportFailure(w)
  BY <1>0, <1>2, <1>10 DEF ReportFailure, Leave, Goto
<1>11. CASE ReportFailureRaises(w)
  BY <1>0, <1>2, <1>3, <1>11 DEF ReportFailureRaises, Leave, Goto
<1>12. QED
  BY <1>4, <1>5, <1>6, <1>7, <1>8, <1>9, <1>10, <1>11 DEF Step

\* The steps other than a claim make no worker busy.
LEMMA StepMemory ==
    ASSUME FInv, issued \in Nat, NEW w \in Worker, Step(w), ~ClaimJob(w),
           issued' = issued \/ issued' = issued + 1
    PROVE  /\ WorkerTypeOK'
           /\ executed \subseteq executed'
           /\ \A v \in Worker : pc'[v] \in Busy =>
                 pc[v] \in Busy /\ lease'[v] = lease[v]
           /\ \A v \in Worker : pc'[v] = "succeeding" =>
                 lease'[v].token \in executed'
<1>0. /\ WorkerTypeOK
      /\ pc[w] \in Busy => lease[w].token \in 1..issued
      /\ \A v \in Worker : pc[v] = "succeeding" => lease[v].token \in executed
      /\ 1..issued \subseteq 1..issued'
  BY DEF FInv, Backed
<1> USE <1>0 DEF WorkerTypeOK, Control, Busy
<1>1. faults' \in 0..MaxFaults
  <2>1. Fault => faults' \in 0..MaxFaults
    BY FaultAssumption DEF Fault
  <2>2. Fault \/ faults' = faults
    BY Zenon DEF Step, ClaimJob, FindNothing, ClaimRaises, Beat, BeatRaises,
        ExecutionReturns, ExecutionRaises, ReportSuccess, ReportSuccessRaises,
        ReportFailure, ReportFailureRaises, Crash, Restart
  <2>3. QED
    BY <2>1, <2>2
<1>2. executed' \subseteq 1..issued' /\ executed \subseteq executed'
  BY DEF Step, ClaimJob, FindNothing, ClaimRaises, Beat, BeatRaises,
        ExecutionReturns, ExecutionRaises, ReportSuccess, ReportSuccessRaises,
        ReportFailure, ReportFailureRaises, Crash, Restart
<1> USE <1>1, <1>2
<1>3. CASE FindNothing(w) \/ Beat(w) \/ BeatRaises(w)
  BY <1>3 DEF FindNothing, Beat, BeatRaises
<1>4. CASE \/ ClaimRaises(w) \/ Crash(w)
           \/ ReportFailureRaises(w) \/ ReportFailure(w) \/ ReportSuccess(w)
  <2>1. Leave(w, "dead") \/ Leave(w, "idle")
    BY <1>4 DEF ClaimRaises, Crash, ReportFailureRaises, ReportFailure,
                ReportSuccess
  <2>2. QED
    BY <2>1 DEF Leave, Goto
<1>5. CASE ExecutionReturns(w)
  <2>1. executed' = executed \cup {lease[w].token}
    BY <1>5 DEF ExecutionReturns
  <2>2. CASE beating[w]
    BY <1>5, <2>1, <2>2 DEF ExecutionReturns, Goto
  <2>3. CASE ~beating[w]
    BY <1>5, <2>1, <2>3 DEF ExecutionReturns, Leave, Goto
  <2>4. QED
    BY <2>2, <2>3
<1>6. CASE ExecutionRaises(w) \/ ReportSuccessRaises(w) \/ Restart(w)
  <2>1. /\ \E label \in {"failing", "retrying", "idle"} : Goto(w, label)
        /\ UNCHANGED <<lease, beating>>
        /\ pc'[w] = "idle" \/ pc[w] \in Busy
    BY <1>6 DEF ExecutionRaises, ReportSuccessRaises, Restart, Goto
  <2>2. QED
    BY <2>1 DEF Goto
<1>7. QED
  BY <1>3, <1>4, <1>5, <1>6 DEF Step

LEMMA FInvNext ==
    ASSUME QueueProofs!IInv, FInv, [Next]_vars
    PROVE  FInv'
<1>1. /\ IInv /\ issued \in Nat
      /\ [Queue!Next]_(Queue!vars)
      /\ issued' = issued \/ issued' = issued + 1
  BY InvFacts, StepCallsQueue
<1>2. CASE Others \/ UNCHANGED vars
  <2>1. UNCHANGED <<pc, lease, beating, faults, executed>>
    BY <1>2 DEF Others, workerVars, vars
  <2>2. \A j \in JobId : ~Decides(j)
    BY <1>2, OthersDecideNoJob DEF Others, vars, queueVars
  <2>3. WorkerTypeOK'
    BY <1>1, <2>1 DEF FInv, WorkerTypeOK
  <2>4. QED
    BY <1>1, <2>1, <2>2, <2>3, FInvStays DEF FInv, Decides
<1>3. ASSUME NEW w \in Worker, Step(w)
      PROVE  FInv'
  <2>1. CASE ClaimJob(w)
    BY <2>1, ClaimFInv
  <2>2. CASE ~ClaimJob(w)
    <3>1. /\ WorkerTypeOK'
          /\ executed \subseteq executed'
          /\ \A v \in Worker : pc'[v] \in Busy =>
                pc[v] \in Busy /\ lease'[v] = lease[v]
          /\ \A v \in Worker : pc'[v] = "succeeding" =>
                lease'[v].token \in executed'
      BY <1>1, <1>3, <2>2, StepMemory
    <3>2. ASSUME NEW j \in JobId, jobs'[j].status = "succeeded",
                 jobs[j].status # "succeeded"
          PROVE  attempts'[j][jobs'[j].count].token \in executed'
      <4>1. /\ pc[w] = "succeeding"
            /\ attempts'[j][jobs'[j].count].token = lease[w].token
        BY <1>3, <3>2, HolderDecides DEF Decides
      <4>2. lease[w].token \in executed
        BY <4>1 DEF FInv
      <4>3. QED
        BY <3>1, <4>1, <4>2
    <3>3. QED
      BY <1>1, <3>1, <3>2, FInvStays
  <2>3. QED
    BY <2>1, <2>2
<1>4. QED
  BY <1>2, <1>3 DEF Next

LEMMA FInvInit == Init => FInv
<1> SUFFICES ASSUME Init PROVE FInv
  OBVIOUS
<1>1. WorkerTypeOK
  BY FaultAssumption DEF Init, WorkerTypeOK, Control
<1>2. \A w \in Worker : pc[w] \notin Busy
  BY DEF Init, Busy
<1>3. SuccessWasExecuted
  BY DEF Init, SuccessWasExecuted, Queue!Init, Queue!NoRow
<1>4. QED
  BY <1>1, <1>2, <1>3 DEF FInv, TokensApart, Busy

-----------------------------------------------------------------------------
\* The queue's invariant holds under these workers, and with it theirs: every
\* lease in a worker's memory is recorded in the tables until its job is
\* pruned, and no two workers remember one token.
THEOREM FencingInvariance == Spec => [](QueueProofs!IInv /\ FInv)
<1>1. QueueProofs!Spec => []QueueProofs!IInv
  BY Assumptions, QueueProofs!Invariance, PTL
<1>2. Spec => []QueueProofs!IInv
  BY <1>1, SameQueue, WorkersAreCallers, PTL
    DEF ImplementsQueue, Queue!Spec, QueueProofs!Spec
<1>3. QueueProofs!IInv /\ FInv /\ [Next]_vars => FInv'
  BY FInvNext
<1>4. QED
  BY <1>2, <1>3, FInvInit, PTL DEF Spec

\* The tables and what the workers keep in memory have their types; a busy
\* worker always remembers a lease.
THEOREM WorkersTypeCorrect == Spec => []TypeOK
<1>1. QueueProofs!IInv /\ FInv => TypeOK
  BY SameType DEF FInv, WorkerTypeOK, Backed, TypeOK
<1>2. QED
  BY <1>1, FencingInvariance, PTL

\* At most one worker holds the lease a row carries, however many believe they
\* do, and what it remembers of the attempt and of the budget is what the row
\* says (the arguments of fail in worker.py come from that memory).
THEOREM LeaseIsExclusive == Spec => []OneHolder
<1>1. QueueProofs!IInv /\ FInv => OneHolder
  <2> SUFFICES ASSUME QueueProofs!IInv, FInv PROVE OneHolder
    OBVIOUS
  <2>1. ASSUME NEW v \in Worker, NEW w \in Worker,
               pc[v] \in Busy, pc[w] \in Busy,
               lease[v].job = lease[w].job, Current(v), Current(w)
        PROVE  v = w
    BY <2>1 DEF Current, Queue!Holds, FInv, TokensApart
  <2>2. ASSUME NEW w \in Worker, pc[w] \in Busy, Current(w)
        PROVE  /\ lease[w].number = jobs[lease[w].job].count
               /\ lease[w].max = jobs[lease[w].job].max
    BY <2>2, TokenNamesAttempt DEF FInv
  <2>3. QED
    BY <2>1, <2>2 DEF OneHolder
<1>2. QED
  BY <1>1, FencingInvariance, PTL

\* A job is recorded as succeeded only if the execution of its newest attempt
\* returned normally, whatever attempts of it failed, died or came late.
THEOREM SuccessIsEarned == Spec => []SuccessWasExecuted
<1>1. FInv => SuccessWasExecuted
  BY DEF FInv
<1>2. QED
  BY <1>1, FencingInvariance, PTL

\* A worker that was taken over commits no outcome: a running job is decided,
\* other than by the expiry of its lease, only in a step of the worker that
\* was leased its newest attempt.
THEOREM StaleWorkersAreFenced == Spec => StaleNeverCommits
<1> DEFINE Fenced ==
      \A j \in JobId :
          /\ jobs[j].status = "running"
          /\ jobs'[j].status # "running"
          /\ attempts'[j][jobs[j].count].status # "lease_expired"
          => \E w \in Worker :
                /\ pc[w] \in Busy /\ pc'[w] # pc[w]
                /\ lease[w].job = j
                /\ lease[w].number = jobs[j].count
<1>1. QueueProofs!IInv /\ FInv /\ [Next]_vars => [Fenced]_vars
  <2> SUFFICES ASSUME QueueProofs!IInv, FInv, Next, NEW j \in JobId,
                      jobs[j].status = "running",
                      jobs'[j].status # "running",
                      attempts'[j][jobs[j].count].status # "lease_expired"
               PROVE  \E w \in Worker :
                         /\ pc[w] \in Busy /\ pc'[w] # pc[w]
                         /\ lease[w].job = j
                         /\ lease[w].number = jobs[j].count
    OBVIOUS
  <2>1. Decides(j)
    BY DEF Decides
  <2>2. PICK w \in Worker : Step(w)
    BY <2>1, OthersDecideNoJob DEF Next, Others
  <2>3. /\ pc[w] \in Busy /\ pc'[w] # pc[w]
        /\ Backed(w) /\ Current(w) /\ lease[w].job = j
    BY <2>1, <2>2, HolderDecides
  <2>4. QED
    BY <2>3, TokenNamesAttempt
<1>2. QED
  BY <1>1, FencingInvariance, PTL DEF Spec, StaleNeverCommits
=============================================================================
