------------------------------ MODULE JobQueue ------------------------------
(***************************************************************************)
(* The tables jobs and job_attempts and the transactions on them           *)
(* (lorcana/jobs/repository.py, called through lorcana/jobs/service.py).   *)
(*                                                                         *)
(* Each action is one committed transaction.  Callers are unconstrained:   *)
(* any token ever issued may be presented at any time, so whatever holds   *)
(* here holds for workers that stall, are taken over and come back.        *)
(*                                                                         *)
(* Instants are kept relative to the present, so that no clock grows:      *)
(*   lease = time left until lease_expires_at, 0 once it has passed;       *)
(*   wait  = time left until available_at, 0 once it has passed;           *)
(*   age   = time since completed_at, up to the retention period.          *)
(* A transaction uses a clock read before it begins, so the lease it       *)
(* writes may have any time left, down to none.                            *)
(*                                                                         *)
(* Rows are scanned with FOR UPDATE SKIP LOCKED: `locked` is the set of    *)
(* rows that other transactions hold, or that are not yet due on the       *)
(* caller's older clock.  Among the rows left, the code takes the first by *)
(* priority, available_at, created_at and a random identifier; as any row  *)
(* may be passed over, any row left may be taken.                          *)
(***************************************************************************)
EXTENDS Naturals

CONSTANTS
    JobId,          \* job identifiers (uuid_factory never repeats one)
    Key,            \* idempotency keys
    NoKey,          \* an absent idempotency key
    AttemptCap,     \* largest max_attempts a caller asks for
    LeaseTime,      \* lease_seconds
    WaitCap,        \* longest delay before a job becomes available
    Retention       \* age at which a terminal job may be pruned

ASSUME KeyAssumption == NoKey \notin Key
ASSUME BoundAssumption ==
    /\ AttemptCap \in Nat \ {0}
    /\ LeaseTime \in Nat
    /\ WaitCap \in Nat
    /\ Retention \in Nat

VARIABLES
    jobs,           \* the table jobs, one row per identifier
    attempts,       \* the table job_attempts, by job and attempt number
    issued          \* lease tokens issued so far; token n is the n-th one

vars == <<jobs, attempts, issued>>

AttemptNo == 1..AttemptCap
NoToken == 0

Terminal == {"succeeded", "failed"}
\* "absent" and "deleted" are identifiers with no row: not yet, or no longer.
Status == {"absent", "queued", "running", "deleted"} \cup Terminal
AttemptStatus == {"none", "running", "succeeded", "failed", "lease_expired"}

Row == [status : Status, key : Key \cup {NoKey}, count : 0..AttemptCap,
        max : AttemptNo, token : Nat, lease : 0..LeaseTime,
        wait : 0..WaitCap, age : 0..Retention]
Attempt == [status : AttemptStatus, token : Nat]

NoRow(status) ==
    [status |-> status, key |-> NoKey, count |-> 0, max |-> 1,
     token |-> NoToken, lease |-> 0, wait |-> 0, age |-> 0]
NoAttempt == [status |-> "none", token |-> NoToken]

Present(j) == jobs[j].status \notin {"absent", "deleted"}
Expired(j) == jobs[j].status = "running" /\ jobs[j].lease = 0
\* Mutant: the comparison off by one.
ExhaustedOffByOne(j) == jobs[j].count > jobs[j].max
Exhausted(j) == jobs[j].count >= jobs[j].max

\* Mutant: the lease of a worker that died is never taken over.
ClaimableIfQueued(j) == jobs[j].status = "queued" /\ jobs[j].wait = 0
Claimable(j) ==
    \/ jobs[j].status = "queued" /\ jobs[j].wait = 0
    \/ Expired(j) /\ ~Exhausted(j)

\* Mutant: completion without the fencing token.
HoldsWithoutToken(j, t) == jobs[j].status = "running"
\* The caller's token is the one on a running row.
Holds(j, t) == jobs[j].status = "running" /\ jobs[j].token = t

-----------------------------------------------------------------------------
(***************************************************************************)
(* What a transaction writes into a row, and into the attempts of a job.   *)
(***************************************************************************)
Leased(row, t, left) ==
    [row EXCEPT !.status = "running", !.count = row.count + 1,
                !.token = t, !.lease = left]

Closed(row, status) ==
    [row EXCEPT !.status = status, !.token = NoToken, !.lease = 0, !.age = 0]

Requeued(row, delay) ==
    [row EXCEPT !.status = "queued", !.token = NoToken, !.lease = 0,
                !.wait = delay]

\* Mutant: a takeover leaves the attempt it replaces open.
AbandonedLeftOpen(tries, n) == tries
\* UPDATE job_attempts ... WHERE attempt_number = n AND status = 'running'
Abandoned(tries, n) ==
    [m \in AttemptNo |->
        IF m = n /\ tries[m].status = "running"
        THEN [tries[m] EXCEPT !.status = "lease_expired"] ELSE tries[m]]

\* Mutant: the token forgotten, so every attempt of the job is rewritten.
SettledForAll(tries, t, status) ==
    [m \in AttemptNo |->
        IF tries[m].status # "none" THEN [tries[m] EXCEPT !.status = status]
        ELSE tries[m]]
\* UPDATE job_attempts ... WHERE lease_token = t
Settled(tries, t, status) ==
    [m \in AttemptNo |->
        IF tries[m].status # "none" /\ tries[m].token = t
        THEN [tries[m] EXCEPT !.status = status] ELSE tries[m]]

-----------------------------------------------------------------------------
Init ==
    /\ jobs = [j \in JobId |-> NoRow("absent")]
    /\ attempts = [j \in JobId |-> [n \in AttemptNo |-> NoAttempt]]
    /\ issued = 0

\* INSERT ... ON CONFLICT (idempotency_key) DO NOTHING: a key some row holds,
\* whatever the status of that row, makes the call return that row instead.
KeyFree(k) == k = NoKey \/ \A i \in JobId : jobs[i].key # k

Enqueue(j, k, m, delay) ==
    /\ jobs[j].status = "absent"
    /\ KeyFree(k)
    /\ jobs' = [jobs EXCEPT ![j] =
                  [NoRow("queued") EXCEPT !.key = k, !.max = m,
                                          !.wait = delay]]
    /\ UNCHANGED <<attempts, issued>>

\* The rows expire_exhausted_leases closes, first thing in every claim.
Doomed(locked) == {i \in JobId \ locked : Expired(i) /\ Exhausted(i)}

ClaimNothing(locked) ==
    /\ \A i \in JobId \ locked : ~Claimable(i)
    /\ jobs' = [i \in JobId |->
                  IF i \in Doomed(locked) THEN Closed(jobs[i], "failed")
                  ELSE jobs[i]]
    /\ attempts' = [i \in JobId |->
                      IF i \in Doomed(locked)
                      THEN Abandoned(attempts[i], jobs[i].count)
                      ELSE attempts[i]]
    /\ UNCHANGED issued

Claim(j, locked, left) ==
    /\ j \notin locked
    /\ Claimable(j)
    /\ jobs' = [i \in JobId |->
                  IF i \in Doomed(locked) THEN Closed(jobs[i], "failed")
                  ELSE IF i = j THEN Leased(jobs[i], issued + 1, left)
                  ELSE jobs[i]]
    /\ attempts' = [i \in JobId |->
                      IF i \in Doomed(locked)
                      THEN Abandoned(attempts[i], jobs[i].count)
                      ELSE IF i = j
                      THEN [Abandoned(attempts[i], jobs[i].count) EXCEPT
                              ![jobs[i].count + 1] =
                                 [status |-> "running", token |-> issued + 1]]
                      ELSE attempts[i]]
    /\ issued' = issued + 1

\* No look at the expiry: a lease that has run out but was not taken over
\* is extended like any other.
Heartbeat(j, t, left) ==
    /\ Holds(j, t)
    /\ jobs' = [jobs EXCEPT ![j].lease = left]
    /\ UNCHANGED <<attempts, issued>>

Succeed(j, t) ==
    /\ Holds(j, t)
    /\ jobs' = [jobs EXCEPT ![j] = Closed(@, "succeeded")]
    /\ attempts' = [attempts EXCEPT ![j] = Settled(@, t, "succeeded")]
    /\ UNCHANGED issued

\* Mutant: retry_at alone decides, whatever attempts are left.
FailRetriesForever(j, t, retry, delay) ==
    /\ Holds(j, t)
    /\ jobs' = [jobs EXCEPT ![j] =
                  IF retry THEN Requeued(@, delay) ELSE Closed(@, "failed")]
    /\ attempts' = [attempts EXCEPT ![j] = Settled(@, t, "failed")]
    /\ UNCHANGED issued
\* `retry` says whether the caller passes a retry_at.
Fail(j, t, retry, delay) ==
    /\ Holds(j, t)
    /\ jobs' = [jobs EXCEPT ![j] =
                  IF retry /\ ~Exhausted(j) THEN Requeued(@, delay)
                  ELSE Closed(@, "failed")]
    /\ attempts' = [attempts EXCEPT ![j] = Settled(@, t, "failed")]
    /\ UNCHANGED issued

Prunable(j) == jobs[j].status \in Terminal /\ jobs[j].age = Retention

\* A batch: the limit and SKIP LOCKED may leave any prunable row out.
Prune(batch) ==
    /\ batch # {}
    /\ \A j \in batch : Prunable(j)
    /\ jobs' = [j \in JobId |->
                  IF j \in batch THEN NoRow("deleted") ELSE jobs[j]]
    /\ attempts' = [j \in JobId |->
                      IF j \in batch THEN [n \in AttemptNo |-> NoAttempt]
                      ELSE attempts[j]]
    /\ UNCHANGED issued

\* The database clock moves on.
Countdown(n) == IF n = 0 THEN 0 ELSE n - 1
Aged(row) ==
    [row EXCEPT !.lease = Countdown(row.lease),
                !.wait = Countdown(row.wait),
                !.age = IF row.status \in Terminal /\ row.age < Retention
                        THEN row.age + 1 ELSE row.age]
Tick ==
    /\ jobs' = [j \in JobId |-> Aged(jobs[j])]
    /\ UNCHANGED <<attempts, issued>>

-----------------------------------------------------------------------------
Enqueues ==
    \E j \in JobId, k \in Key \cup {NoKey}, m \in AttemptNo, d \in 0..WaitCap :
        Enqueue(j, k, m, d)
Claims ==
    \E locked \in SUBSET JobId :
        \/ ClaimNothing(locked)
        \/ \E j \in JobId, left \in 0..LeaseTime : Claim(j, locked, left)
Reports ==
    \E j \in JobId, t \in 1..issued :
        \/ \E left \in 0..LeaseTime : Heartbeat(j, t, left)
        \/ Succeed(j, t)
        \/ \E retry \in BOOLEAN, d \in 0..WaitCap : Fail(j, t, retry, d)
Prunes == \E batch \in SUBSET JobId : Prune(batch)

Next == Enqueues \/ Claims \/ Reports \/ Prunes \/ Tick

Spec == Init /\ [][Next]_vars

-----------------------------------------------------------------------------
TypeOK ==
    /\ jobs \in [JobId -> Row]
    /\ attempts \in [JobId -> [AttemptNo -> Attempt]]
    /\ issued \in Nat

\* The attempts of a job are numbered 1 .. attempt_count without a gap, never
\* exceed max_attempts, and a queued job has at least one left: inserting the
\* next attempt never meets a row with its number.
AttemptsAreDense ==
    \A j \in JobId :
        /\ jobs[j].count <= jobs[j].max
        /\ jobs[j].status = "queued" => jobs[j].count < jobs[j].max
        /\ \A n \in AttemptNo :
              attempts[j][n].status = "none" <=> n > jobs[j].count

\* An attempt is open exactly while the job runs; it is then the newest one,
\* and the row carries its token.
OneOpenAttempt ==
    \A j \in JobId :
        /\ \A n \in AttemptNo :
              attempts[j][n].status = "running" <=>
                  jobs[j].status = "running" /\ n = jobs[j].count
        /\ jobs[j].status = "running" =>
              /\ jobs[j].count \in AttemptNo
              /\ jobs[j].token = attempts[j][jobs[j].count].token

\* Success is recorded on the row and on its newest attempt, or on neither:
\* no earlier attempt ever counts as the one that succeeded.
SuccessAgrees ==
    \A j \in JobId : \A n \in AttemptNo :
        attempts[j][n].status = "succeeded" <=>
            jobs[j].status = "succeeded" /\ n = jobs[j].count

\* Fencing: a token names one attempt of one job, and was issued.
TokensAreUnique ==
    /\ \A i, j \in JobId : \A m, n \in AttemptNo :
          /\ attempts[i][m].status # "none"
          /\ attempts[j][n].status # "none"
          /\ attempts[i][m].token = attempts[j][n].token
          => i = j /\ m = n
    /\ \A j \in JobId : \A n \in AttemptNo :
          attempts[j][n].status # "none" => attempts[j][n].token \in 1..issued

\* At most one row carries an idempotency key.
OneRowPerKey ==
    \A i, j \in JobId : jobs[i].key # NoKey /\ jobs[i].key = jobs[j].key => i = j

\* What the two tables say of each other, in every state (jobs/repository.py).
Consistent ==
    /\ AttemptsAreDense
    /\ OneOpenAttempt
    /\ SuccessAgrees
    /\ TokensAreUnique
    /\ OneRowPerKey

\* What was decided stays decided: a terminal job keeps its status, and an
\* attempt its outcome, until the job is pruned (the UPDATEs of succeed and
\* fail select attempts by token alone).
StaysDecided(j) ==
    jobs'[j].status # "deleted" =>
        /\ jobs[j].status \in Terminal => jobs'[j].status = jobs[j].status
        /\ \A n \in AttemptNo :
              attempts[j][n].status \notin {"none", "running"} =>
                  attempts'[j][n] = attempts[j][n]

HistoryIsFinal == [][\A j \in JobId : StaysDecided(j)]_vars

(***************************************************************************)
(* The tables implement the ledger.                                        *)
(***************************************************************************)
PhaseOf(status) ==
    CASE status = "absent" -> "absent"
      [] status = "queued" -> "waiting"
      [] status = "running" -> "active"
      [] status = "deleted" -> "forgotten"
      [] OTHER -> "finished"

AccountOf(row) ==
    [phase |-> PhaseOf(row.status), started |-> row.count, budget |-> row.max,
     result |-> IF row.status \in Terminal THEN row.status ELSE "none"]

Ledger == INSTANCE JobLedger WITH account <- [j \in JobId |-> AccountOf(jobs[j])]

\* Whatever callers do, every job follows the life the ledger promises: at
\* most max_attempts attempts, at most one result, and none taken back.
ImplementsLedger == Ledger!Spec
=============================================================================
