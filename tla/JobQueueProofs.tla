--------------------------- MODULE JobQueueProofs ---------------------------
(***************************************************************************)
(* The queue's tables stay consistent, decided jobs stay decided, and the  *)
(* tables implement the ledger, for any number of jobs, keys and attempts. *)
(*                                                                         *)
(* Most of what Consistent says concerns one row and the attempts of its   *)
(* job.  RowOK states that part of two values instead of two variables, so *)
(* that each way a transaction rewrites a row is one lemma, used wherever  *)
(* a step rewrites some row that way.                                      *)
(***************************************************************************)
EXTENDS JobQueue, TLAPS

Tries == [AttemptNo -> Attempt]

RowOK(row, tries) ==
    /\ row.count <= row.max
    /\ row.status = "queued" => row.count < row.max
    /\ row.status \in {"absent", "deleted"} => row.count = 0
    /\ row.status = "running" =>
          row.count \in AttemptNo /\ row.token = tries[row.count].token
    /\ \A n \in AttemptNo :
          /\ tries[n].status = "none" <=> n > row.count
          /\ tries[n].status = "running" <=>
                row.status = "running" /\ n = row.count
          /\ tries[n].status = "succeeded" <=>
                row.status = "succeeded" /\ n = row.count

\* The tokens of one job's attempts: each its own, and none yet to be issued.
TokensOK(tries, bound) ==
    /\ \A n \in AttemptNo :
          tries[n].status # "none" => tries[n].token \in 1..bound
    /\ \A m, n \in AttemptNo :
          /\ tries[m].status # "none"
          /\ tries[n].status # "none"
          /\ tries[m].token = tries[n].token
          => m = n

-----------------------------------------------------------------------------
(***************************************************************************)
(* One lemma per way of rewriting a row.                                   *)
(***************************************************************************)

LEMMA Zeros ==
    /\ 0 \in 0..LeaseTime /\ 0 \in 0..WaitCap /\ 0 \in 0..Retention
    /\ 0 \in 0..AttemptCap /\ 1 \in AttemptNo
  BY BoundAssumption DEF AttemptNo

LEMMA Counters ==
    ASSUME NEW n \in Nat, NEW m \in 0..n
    PROVE  /\ Countdown(m) \in 0..n
           /\ m < n => m + 1 \in 0..n
  BY DEF Countdown

\* Taking a lease, on a queued job or in place of an expired lease.
LEMMA LeaseRow ==
    ASSUME NEW row \in Row, NEW tries \in Tries, RowOK(row, tries),
           row.status \in {"queued", "running"}, row.count < row.max,
           NEW t \in Nat, t # 0, NEW left \in 0..LeaseTime,
           NEW after,
           after = [Abandoned(tries, row.count) EXCEPT
                      ![row.count + 1] = [status |-> "running", token |-> t]]
    PROVE  /\ Leased(row, t, left) \in Row
           /\ after \in Tries
           /\ RowOK(Leased(row, t, left), after)
<1>1. row.count + 1 \in AttemptNo /\ row.count + 1 \in 0..AttemptCap
  BY BoundAssumption DEF Row, AttemptNo
<1>2. after \in Tries
  BY <1>1 DEF Abandoned, Tries, Attempt, AttemptStatus
<1>3. Leased(row, t, left) \in Row
  BY <1>1 DEF Leased, Row, Status, Terminal
<1>4. \A n \in AttemptNo :
         after[n] = IF n = row.count + 1
                    THEN [status |-> "running", token |-> t]
                    ELSE Abandoned(tries, row.count)[n]
  BY <1>1 DEF Abandoned
<1>5. ASSUME NEW n \in AttemptNo
      PROVE  /\ after[n].status = "none" <=> n > row.count + 1
             /\ after[n].status = "running" <=> n = row.count + 1
             /\ after[n].status # "succeeded"
  BY <1>1, <1>4 DEF Abandoned, RowOK, AttemptNo, Tries, Attempt, Row
<1>6. DEFINE new == Leased(row, t, left)
<1>7. /\ new.status = "running" /\ new.count = row.count + 1
      /\ new.max = row.max /\ new.token = t
  BY DEF Leased, Row
<1>8. after[row.count + 1].token = t
  BY <1>1, <1>4
<1>9. new.count <= new.max
  BY <1>7 DEF Row, AttemptNo
<1> HIDE DEF new
<1>10. RowOK(new, after)
  BY <1>1, <1>5, <1>7, <1>8, <1>9 DEF RowOK
<1>11. QED
  BY <1>2, <1>3, <1>10 DEF new

\* Closing a job whose lease expired on its last attempt.
LEMMA ExpiredRow ==
    ASSUME NEW row \in Row, NEW tries \in Tries, RowOK(row, tries),
           row.status = "running"
    PROVE  /\ Closed(row, "failed") \in Row
           /\ Abandoned(tries, row.count) \in Tries
           /\ RowOK(Closed(row, "failed"), Abandoned(tries, row.count))
<1>1. Closed(row, "failed") \in Row
  BY Zeros DEF Closed, Row, Status, Terminal, NoToken
<1>2. Abandoned(tries, row.count) \in Tries
  BY DEF Abandoned, Tries, Attempt, AttemptStatus
<1>3. QED
  BY <1>1, <1>2 DEF RowOK, Closed, Abandoned, Row, Tries, Attempt

\* Recording the outcome of the attempt whose token is on the row: the row
\* is closed with it, or sent back to the queue.
LEMMA SettledTries ==
    ASSUME NEW row \in Row, NEW tries \in Tries, RowOK(row, tries),
           NEW bound, TokensOK(tries, bound), row.status = "running",
           NEW outcome \in {"succeeded", "failed"}
    PROVE  /\ Settled(tries, row.token, outcome) \in Tries
           /\ row.count \in AttemptNo
           /\ \A n \in AttemptNo :
                 /\ Settled(tries, row.token, outcome)[n].token = tries[n].token
                 /\ Settled(tries, row.token, outcome)[n].status =
                       IF n = row.count THEN outcome ELSE tries[n].status
<1>1. row.count \in AttemptNo /\ row.token = tries[row.count].token
  BY DEF RowOK
<1>2. tries[row.count].status = "running"
  BY <1>1 DEF RowOK
<1>3. ASSUME NEW n \in AttemptNo
      PROVE  tries[n].status # "none" /\ tries[n].token = row.token
                <=> n = row.count
  BY <1>1, <1>2 DEF TokensOK
<1>4. QED
  BY <1>1, <1>3 DEF Settled, Tries, Attempt, AttemptStatus

LEMMA ClosedRow ==
    ASSUME NEW row \in Row, NEW tries \in Tries, RowOK(row, tries),
           NEW bound, TokensOK(tries, bound), row.status = "running",
           NEW outcome \in {"succeeded", "failed"}
    PROVE  /\ Closed(row, outcome) \in Row
           /\ RowOK(Closed(row, outcome), Settled(tries, row.token, outcome))
<1>1. Closed(row, outcome) \in Row
  BY Zeros DEF Closed, Row, Status, Terminal, NoToken
<1>2. QED
  BY <1>1, SettledTries DEF RowOK, Closed, Row, Tries, Attempt

LEMMA RequeuedRow ==
    ASSUME NEW row \in Row, NEW tries \in Tries, RowOK(row, tries),
           NEW bound, TokensOK(tries, bound), row.status = "running",
           row.count < row.max, NEW delay \in 0..WaitCap
    PROVE  /\ Requeued(row, delay) \in Row
           /\ RowOK(Requeued(row, delay), Settled(tries, row.token, "failed"))
<1>1. Requeued(row, delay) \in Row
  BY Zeros DEF Requeued, Row, Status, Terminal, NoToken
<1>2. QED
  BY <1>1, SettledTries DEF RowOK, Requeued, Row, Tries, Attempt

\* A heartbeat and the passing of time touch no column RowOK speaks of.
LEMMA TimedRow ==
    ASSUME NEW row \in Row, NEW tries \in Tries, RowOK(row, tries)
    PROVE  /\ \A left \in 0..LeaseTime :
                 /\ [row EXCEPT !.lease = left] \in Row
                 /\ RowOK([row EXCEPT !.lease = left], tries)
           /\ Aged(row) \in Row
           /\ RowOK(Aged(row), tries)
<1>1. /\ Countdown(row.lease) \in 0..LeaseTime
      /\ Countdown(row.wait) \in 0..WaitCap
      /\ row.age < Retention => row.age + 1 \in 0..Retention
  BY Counters, BoundAssumption DEF Row
<1>2. Aged(row) \in Row
  BY <1>1 DEF Aged, Row
<1>3. QED
  BY <1>2 DEF RowOK, Aged, Row

\* The row of an identifier without a job, and the row of a new job.
LEMMA BlankRow ==
    ASSUME NEW status \in {"absent", "deleted"}
    PROVE  /\ NoRow(status) \in Row
           /\ [n \in AttemptNo |-> NoAttempt] \in Tries
           /\ RowOK(NoRow(status), [n \in AttemptNo |-> NoAttempt])
<1>1. NoRow(status) \in Row
  BY Zeros DEF NoRow, Row, Status, Terminal, NoToken
<1>2. [n \in AttemptNo |-> NoAttempt] \in Tries
  BY DEF Tries, Attempt, AttemptStatus, NoAttempt, NoToken
<1>3. QED
  BY <1>1, <1>2 DEF RowOK, NoRow, NoAttempt, AttemptNo

LEMMA NewRow ==
    ASSUME NEW tries \in Tries, NEW row \in Row, row.status = "absent",
           RowOK(row, tries), NEW k \in Key \cup {NoKey},
           NEW m \in AttemptNo, NEW delay \in 0..WaitCap,
           NEW new,
           new = [NoRow("queued") EXCEPT !.key = k, !.max = m, !.wait = delay]
    PROVE  new \in Row /\ RowOK(new, tries)
<1>1. new \in Row
  BY Zeros DEF NoRow, Row, Status, Terminal, NoToken
<1>2. QED
  BY <1>1 DEF RowOK, NoRow, AttemptNo, Row

-----------------------------------------------------------------------------
(***************************************************************************)
(* The inductive invariant.  Consistent does not carry over a step by      *)
(* itself: that an identifier without a row has no attempts is needed      *)
(* before its row can be inserted, and RowOK says so.                      *)
(***************************************************************************)
RowsOK == \A j \in JobId : RowOK(jobs[j], attempts[j])

IInv == TypeOK /\ RowsOK /\ TokensAreUnique /\ OneRowPerKey

LEMMA InvImpliesConsistent == IInv => Consistent
  BY DEF IInv, RowsOK, RowOK, TypeOK, Row, Consistent, AttemptsAreDense,
         OneOpenAttempt, SuccessAgrees

LEMMA InvTokens ==
    ASSUME IInv, NEW j \in JobId
    PROVE  TokensOK(attempts[j], issued)
  BY DEF IInv, TokensAreUnique, TokensOK

\* Steps that leave the tokens of recorded attempts alone keep them unique.
LEMMA TokensKept ==
    ASSUME TokensAreUnique, issued \in Nat, issued' = issued,
           \A j \in JobId : \A n \in AttemptNo :
              attempts'[j][n].status # "none" =>
                 /\ attempts[j][n].status # "none"
                 /\ attempts'[j][n].token = attempts[j][n].token
    PROVE  TokensAreUnique'
  BY DEF TokensAreUnique

\* So does recording one new attempt under the next token.
LEMMA TokensIssued ==
    ASSUME TokensAreUnique, issued \in Nat, issued' = issued + 1,
           NEW i \in JobId, NEW m \in AttemptNo,
           attempts'[i][m].token = issued + 1,
           \A j \in JobId : \A n \in AttemptNo :
              attempts'[j][n].status # "none" /\ ~(j = i /\ n = m) =>
                 /\ attempts[j][n].status # "none"
                 /\ attempts'[j][n].token = attempts[j][n].token
    PROVE  TokensAreUnique'
<1>1. ASSUME NEW j \in JobId, NEW n \in AttemptNo,
             attempts'[j][n].status # "none"
      PROVE  /\ attempts'[j][n].token \in 1..issued'
             /\ attempts'[j][n].token = issued + 1 <=> (j = i /\ n = m)
  BY <1>1 DEF TokensAreUnique
<1>2. QED
  BY <1>1 DEF TokensAreUnique

LEMMA KeysKept ==
    ASSUME OneRowPerKey,
           \A j \in JobId : jobs'[j].key \in {NoKey, jobs[j].key}
    PROVE  OneRowPerKey'
  BY DEF OneRowPerKey

LEMMA InitInv == Init => IInv
<1> SUFFICES ASSUME Init PROVE IInv
  OBVIOUS
<1>1. /\ NoRow("absent") \in Row
      /\ [n \in AttemptNo |-> NoAttempt] \in Tries
      /\ RowOK(NoRow("absent"), [n \in AttemptNo |-> NoAttempt])
  BY BlankRow
<1>2. TypeOK
  BY <1>1 DEF Init, TypeOK, Tries
<1>3. RowsOK
  BY <1>1 DEF Init, RowsOK
<1>4. TokensAreUnique /\ OneRowPerKey
  BY DEF Init, TokensAreUnique, OneRowPerKey, NoRow, NoAttempt
<1>5. QED
  BY <1>2, <1>3, <1>4 DEF IInv

LEMMA EnqueueInv ==
    ASSUME IInv, NEW j \in JobId, NEW k \in Key \cup {NoKey},
           NEW m \in AttemptNo, NEW delay \in 0..WaitCap,
           Enqueue(j, k, m, delay)
    PROVE  IInv'
<1> DEFINE new == [NoRow("queued") EXCEPT !.key = k, !.max = m, !.wait = delay]
<1>1. /\ jobs[j] \in Row /\ attempts[j] \in Tries
      /\ RowOK(jobs[j], attempts[j]) /\ jobs[j].status = "absent"
  BY DEF IInv, TypeOK, RowsOK, Enqueue, Tries
<1>2. new \in Row /\ RowOK(new, attempts[j])
  BY <1>1, NewRow
<1>3. new.key = k
  BY DEF NoRow
<1> HIDE DEF new
<1>4. jobs' = [jobs EXCEPT ![j] = new] /\ UNCHANGED <<attempts, issued>>
  BY DEF Enqueue, new
<1>5. TypeOK'
  BY <1>2, <1>4 DEF IInv, TypeOK
<1>6. RowsOK'
  BY <1>2, <1>4 DEF IInv, TypeOK, RowsOK
<1>7. TokensAreUnique'
  BY <1>4, TokensKept DEF IInv, TypeOK
<1>8. OneRowPerKey'
  BY <1>3, <1>4 DEF IInv, TypeOK, OneRowPerKey, Enqueue, KeyFree
<1>9. QED
  BY <1>5, <1>6, <1>7, <1>8 DEF IInv

\* The parts of IInv that a step has to establish, job by job.
LEMMA InvByRows ==
    ASSUME jobs' = [j \in JobId |-> jobs'[j]],
           attempts' = [j \in JobId |-> attempts'[j]],
           issued' \in Nat,
           \A j \in JobId : /\ jobs'[j] \in Row
                            /\ attempts'[j] \in Tries
                            /\ RowOK(jobs'[j], attempts'[j]),
           TokensAreUnique', OneRowPerKey'
    PROVE  IInv'
<1>1. jobs' \in [JobId -> Row] /\ attempts' \in [JobId -> Tries]
  <2> DEFINE J == jobs'  A == attempts'
  <2>1. \A j \in JobId : J[j] \in Row /\ A[j] \in Tries
    OBVIOUS
  <2>2. J = [j \in JobId |-> J[j]] /\ A = [j \in JobId |-> A[j]]
    OBVIOUS
  <2> HIDE DEF J, A
  <2>3. J \in [JobId -> Row] /\ A \in [JobId -> Tries]
    BY <2>1, <2>2
  <2>4. QED
    BY <2>3 DEF J, A
<1>2. TypeOK'
  BY <1>1 DEF TypeOK, Tries
<1>3. RowsOK'
  BY DEF RowsOK
<1>4. QED
  BY <1>2, <1>3 DEF IInv

LEMMA InvOfRow ==
    ASSUME IInv, NEW j \in JobId
    PROVE  /\ jobs[j] \in Row /\ attempts[j] \in Tries
           /\ RowOK(jobs[j], attempts[j])
  BY DEF IInv, TypeOK, RowsOK, Tries

LEMMA HeartbeatInv ==
    ASSUME IInv, NEW j \in JobId, NEW t, NEW left \in 0..LeaseTime,
           Heartbeat(j, t, left)
    PROVE  IInv'
<1>1. /\ jobs' = [jobs EXCEPT ![j] = [jobs[j] EXCEPT !.lease = left]]
      /\ UNCHANGED <<attempts, issued>>
  BY DEF Heartbeat
<1>2. \A i \in JobId : /\ jobs'[i] \in Row
                       /\ attempts'[i] \in Tries
                       /\ RowOK(jobs'[i], attempts'[i])
                       /\ jobs'[i].key = jobs[i].key
  BY <1>1, InvOfRow, TimedRow DEF IInv, TypeOK, Row
<1>3. TokensAreUnique'
  BY <1>1, TokensKept DEF IInv, TypeOK
<1>4. OneRowPerKey'
  BY <1>2, KeysKept DEF IInv
<1>5. QED
  BY <1>1, <1>2, <1>3, <1>4, InvByRows DEF IInv, TypeOK

LEMMA TickInv ==
    ASSUME IInv, Tick
    PROVE  IInv'
<1>1. \A i \in JobId : /\ jobs'[i] \in Row
                       /\ attempts'[i] \in Tries
                       /\ RowOK(jobs'[i], attempts'[i])
  BY InvOfRow, TimedRow DEF Tick
<1>2. \A i \in JobId : jobs'[i].key = jobs[i].key
  BY InvOfRow DEF Tick, Aged, Row
<1>3. TokensAreUnique'
  BY TokensKept DEF Tick, IInv, TypeOK
<1>4. OneRowPerKey'
  BY <1>2, KeysKept DEF IInv
<1>5. QED
  BY <1>1, <1>3, <1>4, InvByRows DEF IInv, TypeOK, Tick

\* Succeed and Fail: job j is settled with an outcome, and its row becomes new.
LEMMA SettleInv ==
    ASSUME IInv, NEW j \in JobId, jobs[j].status = "running",
           NEW outcome \in {"succeeded", "failed"},
           NEW new \in Row, new.key = jobs[j].key,
           RowOK(new, Settled(attempts[j], jobs[j].token, outcome)),
           jobs' = [jobs EXCEPT ![j] = new],
           attempts' = [attempts EXCEPT ![j] =
                          Settled(attempts[j], jobs[j].token, outcome)],
           issued' = issued
    PROVE  IInv'
<1> DEFINE tries == Settled(attempts[j], jobs[j].token, outcome)
<1>1. /\ tries \in Tries
      /\ \A n \in AttemptNo :
            /\ tries[n].token = attempts[j][n].token
            /\ tries[n].status # "none" => attempts[j][n].status # "none"
  <2>1. jobs[j].count \in AttemptNo /\ attempts[j][jobs[j].count].status = "running"
    BY InvOfRow DEF RowOK
  <2>2. QED
    BY <2>1, InvOfRow, InvTokens, SettledTries
<1> HIDE DEF tries
<1>2. attempts' = [attempts EXCEPT ![j] = tries] /\ RowOK(new, tries)
  BY DEF tries
<1>3. \A i \in JobId : /\ jobs'[i] \in Row
                       /\ attempts'[i] \in Tries
                       /\ RowOK(jobs'[i], attempts'[i])
                       /\ jobs'[i].key = jobs[i].key
  BY <1>1, <1>2, InvOfRow DEF IInv, TypeOK
<1>4. TokensAreUnique'
  BY <1>1, <1>2, TokensKept DEF IInv, TypeOK
<1>5. OneRowPerKey'
  BY <1>3, KeysKept DEF IInv
<1>6. QED
  BY <1>2, <1>3, <1>4, <1>5, InvByRows DEF IInv, TypeOK

LEMMA SucceedInv ==
    ASSUME IInv, NEW j \in JobId, NEW t, Succeed(j, t)
    PROVE  IInv'
<1>1. jobs[j].status = "running" /\ t = jobs[j].token
  BY DEF Succeed, Holds
<1>2. /\ Closed(jobs[j], "succeeded") \in Row
      /\ RowOK(Closed(jobs[j], "succeeded"),
               Settled(attempts[j], jobs[j].token, "succeeded"))
  BY <1>1, ClosedRow, InvOfRow, InvTokens
<1>3. Closed(jobs[j], "succeeded").key = jobs[j].key
  BY InvOfRow DEF Closed, Row
<1>4. QED
  BY <1>1, <1>2, <1>3, SettleInv DEF Succeed

LEMMA FailInv ==
    ASSUME IInv, NEW j \in JobId, NEW t, NEW retry \in BOOLEAN,
           NEW delay \in 0..WaitCap, Fail(j, t, retry, delay)
    PROVE  IInv'
<1> DEFINE new == IF retry /\ ~Exhausted(j) THEN Requeued(jobs[j], delay)
                  ELSE Closed(jobs[j], "failed")
<1>1. jobs[j].status = "running" /\ t = jobs[j].token
  BY DEF Fail, Holds
<1>2. ~Exhausted(j) => jobs[j].count < jobs[j].max
  BY InvOfRow, BoundAssumption DEF Exhausted, Row, AttemptNo
<1>3. new \in Row /\ RowOK(new, Settled(attempts[j], jobs[j].token, "failed"))
  BY <1>1, <1>2, ClosedRow, RequeuedRow, InvOfRow, InvTokens
<1>4. new.key = jobs[j].key
  BY InvOfRow DEF Closed, Requeued, Row
<1>5. /\ jobs' = [jobs EXCEPT ![j] = new]
      /\ attempts' = [attempts EXCEPT ![j] = Settled(@, t, "failed")]
      /\ issued' = issued
  BY DEF Fail
<1> HIDE DEF new
<1>6. QED
  BY <1>1, <1>3, <1>4, <1>5, SettleInv

LEMMA PruneInv ==
    ASSUME IInv, NEW batch, Prune(batch)
    PROVE  IInv'
<1>1. \A i \in JobId : /\ jobs'[i] \in Row
                       /\ attempts'[i] \in Tries
                       /\ RowOK(jobs'[i], attempts'[i])
  BY InvOfRow, BlankRow DEF Prune
<1>2. \A i \in JobId : jobs'[i].key \in {NoKey, jobs[i].key}
  BY DEF Prune, NoRow
<1>3. TokensAreUnique'
  <2>1. ASSUME NEW i \in JobId, NEW n \in AttemptNo,
               attempts'[i][n].status # "none"
        PROVE  attempts'[i][n] = attempts[i][n]
    BY <2>1 DEF Prune, NoAttempt
  <2>2. QED
    BY <2>1, TokensKept DEF Prune, IInv, TypeOK
<1>4. OneRowPerKey'
  BY <1>2, KeysKept DEF IInv
<1>5. QED
  BY <1>1, <1>3, <1>4, InvByRows DEF Prune, IInv, TypeOK

\* The rows a claim closes before it looks for one to lease.
LEMMA DoomedRows ==
    ASSUME IInv, NEW locked, NEW i \in Doomed(locked)
    PROVE  /\ i \in JobId
           /\ jobs[i].status = "running"
           /\ Closed(jobs[i], "failed") \in Row
           /\ Closed(jobs[i], "failed").key = jobs[i].key
           /\ Abandoned(attempts[i], jobs[i].count) \in Tries
           /\ RowOK(Closed(jobs[i], "failed"),
                    Abandoned(attempts[i], jobs[i].count))
<1>1. i \in JobId /\ jobs[i].status = "running"
  BY DEF Doomed, Expired
<1>2. Closed(jobs[i], "failed").key = jobs[i].key
  BY <1>1, InvOfRow DEF Closed, Row
<1>3. QED
  BY <1>1, <1>2, InvOfRow, ExpiredRow

\* Abandoning an attempt changes no token.
LEMMA AbandonedTokens ==
    ASSUME NEW tries \in Tries, NEW c, NEW n \in AttemptNo
    PROVE  /\ Abandoned(tries, c)[n].token = tries[n].token
           /\ Abandoned(tries, c)[n].status # "none" => tries[n].status # "none"
  BY DEF Abandoned, Tries, Attempt

LEMMA ClaimNothingInv ==
    ASSUME IInv, NEW locked, ClaimNothing(locked)
    PROVE  IInv'
<1>1. \A i \in JobId : /\ jobs'[i] \in Row
                       /\ attempts'[i] \in Tries
                       /\ RowOK(jobs'[i], attempts'[i])
                       /\ jobs'[i].key = jobs[i].key
  BY InvOfRow, DoomedRows DEF ClaimNothing
<1>2. TokensAreUnique'
  BY InvOfRow, AbandonedTokens, TokensKept DEF ClaimNothing, IInv, TypeOK
<1>3. OneRowPerKey'
  BY <1>1, KeysKept DEF IInv
<1>4. QED
  BY <1>1, <1>2, <1>3, InvByRows DEF ClaimNothing, IInv, TypeOK

\* What a claim does to the job it leases.
LEMMA ClaimedRow ==
    ASSUME IInv, NEW j \in JobId, NEW locked, NEW left \in 0..LeaseTime,
           Claim(j, locked, left)
    PROVE  /\ j \notin Doomed(locked)
           /\ jobs[j].status \in {"queued", "running"}
           /\ jobs[j].count < jobs[j].max
           /\ jobs[j].count + 1 \in AttemptNo
           /\ jobs'[j] = Leased(jobs[j], issued + 1, left)
           /\ attempts'[j] = [Abandoned(attempts[j], jobs[j].count) EXCEPT
                               ![jobs[j].count + 1] =
                                  [status |-> "running", token |-> issued + 1]]
           /\ jobs'[j] \in Row
           /\ attempts'[j] \in Tries
           /\ RowOK(jobs'[j], attempts'[j])
           /\ jobs'[j].key = jobs[j].key
<1>1. jobs[j] \in Row /\ attempts[j] \in Tries /\ RowOK(jobs[j], attempts[j])
  BY InvOfRow
<1>2. ~Exhausted(j) <=> jobs[j].count < jobs[j].max
  BY <1>1, BoundAssumption DEF Exhausted, Row, AttemptNo
<1>3. /\ jobs[j].status \in {"queued", "running"}
      /\ jobs[j].count < jobs[j].max
      /\ j \notin Doomed(locked)
  BY <1>1, <1>2 DEF Claim, Claimable, Expired, RowOK, Doomed
<1>4. jobs[j].count + 1 \in AttemptNo
  BY <1>1, <1>3, BoundAssumption DEF Row, AttemptNo
<1>5. /\ jobs'[j] = Leased(jobs[j], issued + 1, left)
      /\ attempts'[j] = [Abandoned(attempts[j], jobs[j].count) EXCEPT
                           ![jobs[j].count + 1] =
                              [status |-> "running", token |-> issued + 1]]
  BY <1>3 DEF Claim
<1>6. issued + 1 \in Nat /\ issued + 1 # 0
  BY DEF IInv, TypeOK
<1>7. jobs'[j] \in Row /\ attempts'[j] \in Tries /\ RowOK(jobs'[j], attempts'[j])
  BY <1>1, <1>3, <1>5, <1>6, LeaseRow
<1>8. jobs'[j].key = jobs[j].key
  BY <1>1, <1>5 DEF Leased, Row
<1>9. QED
  BY <1>3, <1>4, <1>5, <1>7, <1>8

\* What it does to every other job: nothing, or what ClaimNothing does.
LEMMA ClaimOthers ==
    ASSUME IInv, NEW j \in JobId, NEW locked, NEW left \in 0..LeaseTime,
           Claim(j, locked, left), NEW i \in JobId, i # j
    PROVE  /\ jobs'[i] = IF i \in Doomed(locked) THEN Closed(jobs[i], "failed")
                         ELSE jobs[i]
           /\ attempts'[i] = IF i \in Doomed(locked)
                             THEN Abandoned(attempts[i], jobs[i].count)
                             ELSE attempts[i]
  BY DEF Claim

LEMMA ClaimInv ==
    ASSUME IInv, NEW j \in JobId, NEW locked, NEW left \in 0..LeaseTime,
           Claim(j, locked, left)
    PROVE  IInv'
<1> DEFINE next == jobs[j].count + 1
<1>0. /\ next \in AttemptNo
      /\ attempts'[j] = [Abandoned(attempts[j], jobs[j].count) EXCEPT
                           ![next] = [status |-> "running", token |-> issued + 1]]
  BY ClaimedRow
<1> HIDE DEF next
<1>1. ASSUME NEW i \in JobId
      PROVE  /\ jobs'[i] \in Row
             /\ attempts'[i] \in Tries
             /\ RowOK(jobs'[i], attempts'[i])
             /\ jobs'[i].key = jobs[i].key
  <2>1. CASE i = j
    BY <2>1, ClaimedRow
  <2>2. CASE i # j /\ i \in Doomed(locked)
    BY <2>2, DoomedRows, ClaimOthers
  <2>3. CASE i # j /\ i \notin Doomed(locked)
    BY <2>3, InvOfRow, ClaimOthers
  <2>4. QED
    BY <2>1, <2>2, <2>3
<1>2. issued \in Nat /\ issued' = issued + 1 /\ issued' \in Nat
  BY DEF Claim, IInv, TypeOK
<1>3. ASSUME NEW i \in JobId, NEW n \in AttemptNo,
             attempts'[i][n].status # "none", ~(i = j /\ n = next)
      PROVE  /\ attempts[i][n].status # "none"
             /\ attempts'[i][n].token = attempts[i][n].token
  <2>1. attempts[i] \in Tries
    BY InvOfRow
  <2>2. CASE i = j
    <3>1. attempts'[j][n] = Abandoned(attempts[j], jobs[j].count)[n]
      BY <1>0, <1>3, <2>2 DEF Abandoned
    <3>2. QED
      BY <1>3, <2>1, <2>2, <3>1, AbandonedTokens
  <2>3. CASE i # j
    BY <1>3, <2>1, <2>3, ClaimOthers, AbandonedTokens
  <2>4. QED
    BY <2>2, <2>3
<1>4. attempts'[j][next] = [status |-> "running", token |-> issued + 1]
  BY <1>0 DEF Abandoned
<1>5. TokensAreUnique'
  <2>1. attempts'[j][next].token = issued + 1
    BY <1>4
  <2>2. TokensAreUnique
    BY DEF IInv
  <2>3. \A i \in JobId : \A n \in AttemptNo :
           attempts'[i][n].status # "none" /\ ~(i = j /\ n = next) =>
              /\ attempts[i][n].status # "none"
              /\ attempts'[i][n].token = attempts[i][n].token
    BY <1>3
  <2>4. next \in AttemptNo /\ issued \in Nat /\ issued' = issued + 1
    BY <1>0, <1>2
  <2>5. QED
    BY ONLY <2>1, <2>2, <2>3, <2>4, j \in JobId, TokensIssued
<1>6. OneRowPerKey'
  BY <1>1, KeysKept DEF IInv
<1>7. /\ jobs' = [i \in JobId |-> jobs'[i]]
      /\ attempts' = [i \in JobId |-> attempts'[i]]
  BY DEF Claim
<1>8. QED
  BY <1>1, <1>2, <1>5, <1>6, <1>7, InvByRows

-----------------------------------------------------------------------------
LEMMA NextInv == IInv /\ [Next]_vars => IInv'
<1> SUFFICES ASSUME IInv, [Next]_vars PROVE IInv'
  OBVIOUS
<1>1. CASE Enqueues
  BY <1>1, EnqueueInv DEF Enqueues
<1>2. CASE Claims
  BY <1>2, ClaimInv, ClaimNothingInv DEF Claims
<1>3. CASE Reports
  BY <1>3, HeartbeatInv, SucceedInv, FailInv DEF Reports
<1>4. CASE Prunes
  BY <1>4, PruneInv DEF Prunes
<1>5. CASE Tick
  BY <1>5, TickInv
<1>6. CASE UNCHANGED vars
  BY <1>6 DEF vars, IInv, TypeOK, RowsOK, TokensAreUnique, OneRowPerKey
<1>7. QED
  BY <1>1, <1>2, <1>3, <1>4, <1>5, <1>6 DEF Next

\* The invariant holds for every number of jobs, keys and attempts, and for
\* callers that present any token ever issued at any time.
THEOREM Invariance == Spec => []IInv
<1>1. Init => IInv
  BY InitInv
<1>2. IInv /\ [Next]_vars => IInv'
  BY NextInv
<1>3. QED
  BY <1>1, <1>2, PTL DEF Spec

\* Every row and every attempt has the columns of its table, with times and
\* counts in their ranges.
THEOREM TypeCorrect == Spec => []TypeOK
<1>1. IInv => TypeOK
  BY DEF IInv
<1>2. QED
  BY <1>1, Invariance, PTL

\* The two tables always agree: attempts numbered without a gap and within
\* max_attempts, one open attempt exactly while the job runs and under the
\* row's token, success on the newest attempt alone, no token used twice, no
\* key on two rows.
THEOREM Consistency == Spec => []Consistent
<1>1. IInv => Consistent
  BY InvImpliesConsistent
<1>2. QED
  BY <1>1, Invariance, PTL

-----------------------------------------------------------------------------
(***************************************************************************)
(* The ways a transaction changes one job, from row and tries to row2 and  *)
(* tries2.  Every step is one of these for every job; what a job may never *)
(* do, and which account it keeps in the ledger, is then a matter of these *)
(* few cases and not of the transactions.                                  *)
(***************************************************************************)
Opened(row, tries, row2, tries2) ==
    /\ row.status = "absent" /\ tries2 = tries
    /\ \E k \in Key \cup {NoKey}, m \in AttemptNo, d \in 0..WaitCap :
          row2 = [NoRow("queued") EXCEPT !.key = k, !.max = m, !.wait = d]

TakenUp(row, tries, row2, tries2) ==
    /\ row.status \in {"queued", "running"} /\ row.count < row.max
    /\ \E t \in Nat, left \in 0..LeaseTime :
          /\ row2 = Leased(row, t, left)
          /\ tries2 = [Abandoned(tries, row.count) EXCEPT
                         ![row.count + 1] = [status |-> "running", token |-> t]]

GivenUp(row, tries, row2, tries2) ==
    /\ row.status = "running"
    /\ row2 = Closed(row, "failed") /\ tries2 = Abandoned(tries, row.count)

Reported(row, tries, row2, tries2) ==
    /\ row.status = "running"
    /\ \E outcome \in {"succeeded", "failed"} :
          /\ tries2 = Settled(tries, row.token, outcome)
          /\ \/ row2 = Closed(row, outcome)
             \/ /\ outcome = "failed" /\ row.count < row.max
                /\ \E d \in 0..WaitCap : row2 = Requeued(row, d)

Timed(row, tries, row2, tries2) ==
    /\ tries2 = tries
    /\ row2 = row \/ row2 = Aged(row)
          \/ \E left \in 0..LeaseTime : row2 = [row EXCEPT !.lease = left]

Pruned(row, row2) == row.status \in Terminal /\ row2 = NoRow("deleted")

Changes(row, tries, row2, tries2) ==
    \/ Opened(row, tries, row2, tries2) \/ TakenUp(row, tries, row2, tries2)
    \/ GivenUp(row, tries, row2, tries2) \/ Reported(row, tries, row2, tries2)
    \/ Timed(row, tries, row2, tries2) \/ Pruned(row, row2)

LEMMA StepChanges ==
    ASSUME IInv, [Next]_vars, NEW j \in JobId
    PROVE  Changes(jobs[j], attempts[j], jobs'[j], attempts'[j])
<1>0. /\ jobs[j] \in Row /\ RowOK(jobs[j], attempts[j])
      /\ jobs \in [JobId -> Row] /\ attempts \in [JobId -> Tries]
      /\ issued \in Nat
  BY InvOfRow DEF IInv, TypeOK, Tries
<1>1. CASE Enqueues
  <2>1. PICK i \in JobId, k \in Key \cup {NoKey}, m \in AttemptNo, d \in 0..WaitCap :
           Enqueue(i, k, m, d)
    BY <1>1 DEF Enqueues
  <2>2. QED
    BY <1>0, <2>1 DEF Enqueue, Changes, Opened, Timed
<1>2. CASE Claims
  <2>1. CASE \E locked \in SUBSET JobId : ClaimNothing(locked)
    BY <1>0, <2>1 DEF ClaimNothing, Doomed, Expired, Changes, GivenUp, Timed
  <2>2. CASE \E locked \in SUBSET JobId, i \in JobId, left \in 0..LeaseTime :
                Claim(i, locked, left)
    <3>1. PICK locked \in SUBSET JobId, i \in JobId, left \in 0..LeaseTime :
             Claim(i, locked, left)
      BY <2>2
    <3>2. CASE i = j
      <4>1. /\ jobs[j].status \in {"queued", "running"}
            /\ jobs[j].count < jobs[j].max
            /\ jobs'[j] = Leased(jobs[j], issued + 1, left)
            /\ attempts'[j] = [Abandoned(attempts[j], jobs[j].count) EXCEPT
                                 ![jobs[j].count + 1] =
                                    [status |-> "running", token |-> issued + 1]]
        BY <3>1, <3>2, ClaimedRow
      <4>2. issued + 1 \in Nat
        BY <1>0
      <4>3. TakenUp(jobs[j], attempts[j], jobs'[j], attempts'[j])
        BY ONLY <4>1, <4>2, left \in 0..LeaseTime DEF TakenUp
      <4>4. QED
        BY <4>3 DEF Changes
    <3>3. CASE i # j
      BY <1>0, <3>1, <3>3, ClaimOthers
        DEF Doomed, Expired, Changes, GivenUp, Timed
    <3>4. QED
      BY <3>2, <3>3
  <2>3. QED
    BY <1>2, <2>1, <2>2 DEF Claims
<1>3. CASE Reports
  <2>1. PICK i \in JobId, t \in 1..issued :
           \/ \E left \in 0..LeaseTime : Heartbeat(i, t, left)
           \/ Succeed(i, t)
           \/ \E retry \in BOOLEAN, d \in 0..WaitCap : Fail(i, t, retry, d)
    BY <1>3 DEF Reports
  <2>2. CASE \E left \in 0..LeaseTime : Heartbeat(i, t, left)
    BY <1>0, <2>2 DEF Heartbeat, Changes, Timed
  <2>3. CASE Succeed(i, t)
    BY <1>0, <2>3 DEF Succeed, Holds, Changes, Reported, Timed
  <2>4. CASE \E retry \in BOOLEAN, d \in 0..WaitCap : Fail(i, t, retry, d)
    <3>1. PICK retry \in BOOLEAN, d \in 0..WaitCap : Fail(i, t, retry, d)
      BY <2>4
    <3>2. ~Exhausted(i) => jobs[i].count < jobs[i].max
      BY <1>0, BoundAssumption DEF Exhausted, Row, AttemptNo
    <3>3. QED
      BY <1>0, <3>1, <3>2 DEF Fail, Holds, Changes, Reported, Timed
  <2>5. QED
    BY <2>1, <2>2, <2>3, <2>4
<1>4. CASE Prunes
  BY <1>0, <1>4 DEF Prunes, Prune, Prunable, Changes, Pruned, Timed
<1>5. CASE Tick
  BY <1>0, <1>5 DEF Tick, Changes, Timed
<1>6. CASE UNCHANGED vars
  BY <1>6 DEF vars, Changes, Timed
<1>7. QED
  BY <1>1, <1>2, <1>3, <1>4, <1>5, <1>6 DEF Next

-----------------------------------------------------------------------------
\* No change rewrites a result, or the outcome of an attempt.
LEMMA ChangesDecideOnce ==
    ASSUME NEW row \in Row, NEW tries \in Tries, RowOK(row, tries),
           NEW bound, TokensOK(tries, bound), NEW row2, NEW tries2,
           Changes(row, tries, row2, tries2), row2.status # "deleted"
    PROVE  /\ row.status \in Terminal => row2.status = row.status
           /\ \A n \in AttemptNo :
                 tries[n].status \notin {"none", "running"} =>
                     tries2[n] = tries[n]
<1>1. CASE Opened(row, tries, row2, tries2)
  BY <1>1 DEF Opened, Terminal
<1>2. CASE TakenUp(row, tries, row2, tries2)
  <2>1. \A n \in AttemptNo : n = row.count + 1 => tries[n].status = "none"
    BY DEF RowOK, Row
  <2>2. QED
    BY <1>2, <2>1 DEF TakenUp, Terminal, Abandoned
<1>3. CASE GivenUp(row, tries, row2, tries2)
  BY <1>3 DEF GivenUp, Terminal, Abandoned
<1>4. CASE Reported(row, tries, row2, tries2)
  <2>1. row.count \in AttemptNo /\ row.status = "running"
    BY <1>4 DEF Reported, RowOK
  <2>2. ASSUME NEW n \in AttemptNo, tries[n].status # "none",
               tries[n].token = row.token
        PROVE  tries[n].status = "running"
    BY <2>1, <2>2 DEF RowOK, TokensOK
  <2>3. QED
    BY <1>4, <2>1, <2>2 DEF Reported, Terminal, Settled
<1>5. CASE Timed(row, tries, row2, tries2)
  BY <1>5 DEF Timed, Aged, Row
<1>6. CASE Pruned(row, row2)
  BY <1>6 DEF Pruned, NoRow
<1>7. QED
  BY <1>1, <1>2, <1>3, <1>4, <1>5, <1>6 DEF Changes

\* What was decided stays decided, until the job is pruned: no late report, by
\* whatever token, changes a terminal job or an attempt that has ended.
THEOREM Finality == Spec => HistoryIsFinal
<1>1. IInv /\ [Next]_vars => [\A j \in JobId : StaysDecided(j)]_vars
  <2> SUFFICES ASSUME IInv, [Next]_vars, NEW j \in JobId
               PROVE  StaysDecided(j)
    OBVIOUS
  <2>1. /\ jobs[j] \in Row /\ attempts[j] \in Tries
        /\ RowOK(jobs[j], attempts[j])
        /\ TokensOK(attempts[j], issued)
        /\ Changes(jobs[j], attempts[j], jobs'[j], attempts'[j])
    BY InvOfRow, InvTokens, StepChanges
  <2>2. QED
    BY <2>1, ChangesDecideOnce DEF StaysDecided
<1>2. QED
  BY <1>1, Invariance, PTL DEF Spec, HistoryIsFinal

-----------------------------------------------------------------------------
(***************************************************************************)
(* What the queue promises to a caller that remembers an attempt, and who  *)
(* may decide a job.                                                       *)
(***************************************************************************)
\* The columns of a rewritten row that the lemmas below speak of.
LEMMA RewrittenRows ==
    ASSUME NEW row \in Row
    PROVE  /\ \A s : /\ Closed(row, s).status = s
                     /\ Closed(row, s).count = row.count
                     /\ Closed(row, s).max = row.max
           /\ \A d : /\ Requeued(row, d).status = "queued"
                     /\ Requeued(row, d).count = row.count
                     /\ Requeued(row, d).max = row.max
           /\ \A t, left : /\ Leased(row, t, left).status = "running"
                           /\ Leased(row, t, left).max = row.max
           /\ Aged(row).status = row.status
           /\ Aged(row).count = row.count
           /\ Aged(row).max = row.max
<1>1. \A s : /\ Closed(row, s).status = s
             /\ Closed(row, s).count = row.count
             /\ Closed(row, s).max = row.max
  BY DEF Closed, Row
<1>2. ASSUME NEW d
      PROVE  /\ Requeued(row, d).status = "queued"
             /\ Requeued(row, d).count = row.count
             /\ Requeued(row, d).max = row.max
  BY DEF Requeued, Row
<1>3. ASSUME NEW t, NEW left
      PROVE  /\ Leased(row, t, left).status = "running"
             /\ Leased(row, t, left).max = row.max
  BY DEF Leased, Row
<1>4. /\ Aged(row).status = row.status /\ Aged(row).count = row.count
      /\ Aged(row).max = row.max
  BY DEF Aged, Row
<1>5. QED
  BY <1>1, <1>2, <1>3, <1>4

\* A recorded attempt keeps its number and token, and its job its budget,
\* until the job is pruned.
LEMMA ChangesKeepAttempts ==
    ASSUME NEW row \in Row, NEW tries \in Tries, RowOK(row, tries),
           NEW row2, NEW tries2, Changes(row, tries, row2, tries2),
           row2.status # "deleted", NEW n \in AttemptNo,
           tries[n].status # "none"
    PROVE  /\ row.status # "deleted"
           /\ tries2[n].status # "none"
           /\ tries2[n].token = tries[n].token
           /\ row2.max = row.max
<1>0. row.count # 0 /\ row.status \notin {"absent", "deleted"}
  BY DEF RowOK, Row, AttemptNo
<1>1. CASE TakenUp(row, tries, row2, tries2)
  <2>1. n # row.count + 1
    BY DEF RowOK, Row, AttemptNo
  <2>2. tries2[n] = Abandoned(tries, row.count)[n]
    BY <1>1, <2>1 DEF TakenUp, Abandoned
  <2>3. QED
    BY <1>0, <1>1, <2>2, RewrittenRows DEF TakenUp, Abandoned, Tries, Attempt
<1>2. CASE GivenUp(row, tries, row2, tries2)
  BY <1>0, <1>2, RewrittenRows DEF GivenUp, Abandoned, Tries, Attempt
<1>3. CASE Reported(row, tries, row2, tries2)
  <2>1. PICK outcome \in {"succeeded", "failed"} :
           /\ tries2 = Settled(tries, row.token, outcome)
           /\ \/ row2 = Closed(row, outcome)
              \/ \E d \in 0..WaitCap : row2 = Requeued(row, d)
    BY <1>3 DEF Reported
  <2>2. row2.max = row.max
    BY <2>1, RewrittenRows
  <2>3. QED
    BY <1>0, <2>1, <2>2 DEF Settled, Tries, Attempt
<1>4. CASE Timed(row, tries, row2, tries2)
  <2>1. row2.max = row.max
    <3>1. CASE row2 = row \/ row2 = Aged(row)
      BY <3>1, RewrittenRows
    <3>2. CASE \E left \in 0..LeaseTime : row2 = [row EXCEPT !.lease = left]
      BY <3>2 DEF Row
    <3>3. QED
      BY <1>4, <3>1, <3>2 DEF Timed
  <2>2. QED
    BY <1>0, <1>4, <2>1 DEF Timed
<1>5. row.status # "absent" /\ ~Pruned(row, row2)
  BY <1>0 DEF Pruned, NoRow
<1>6. QED
  BY <1>1, <1>2, <1>3, <1>4, <1>5 DEF Changes, Opened

LEMMA AttemptsAreKept ==
    ASSUME IInv, [Next]_vars, NEW j \in JobId, jobs'[j].status # "deleted",
           NEW n \in AttemptNo, attempts[j][n].status # "none"
    PROVE  /\ jobs[j].status # "deleted"
           /\ attempts'[j][n].status # "none"
           /\ attempts'[j][n].token = attempts[j][n].token
           /\ jobs'[j].max = jobs[j].max
<1>1. /\ jobs[j] \in Row /\ attempts[j] \in Tries
      /\ RowOK(jobs[j], attempts[j])
      /\ Changes(jobs[j], attempts[j], jobs'[j], attempts'[j])
  BY InvOfRow, StepChanges
<1>2. QED
  BY <1>1, ChangesKeepAttempts

\* The identifier of a pruned job is never used again.
LEMMA DeletedForGood ==
    ASSUME IInv, [Next]_vars, NEW j \in JobId, jobs[j].status = "deleted"
    PROVE  jobs'[j].status = "deleted"
<1>0. /\ jobs[j] \in Row
      /\ Changes(jobs[j], attempts[j], jobs'[j], attempts'[j])
  BY InvOfRow, StepChanges
<1>1. Timed(jobs[j], attempts[j], jobs'[j], attempts'[j])
  <2>1. jobs[j].status \notin {"absent", "queued", "running", "succeeded", "failed"}
    OBVIOUS
  <2>2. QED
    BY <1>0, <2>1, Zenon
      DEF Changes, Opened, TakenUp, GivenUp, Reported, Pruned, Terminal
<1>2. CASE jobs'[j] = jobs[j] \/ jobs'[j] = Aged(jobs[j])
  BY <1>0, <1>2, RewrittenRows
<1>3. CASE \E left \in 0..LeaseTime : jobs'[j] = [jobs[j] EXCEPT !.lease = left]
  BY <1>0, <1>3 DEF Row
<1>4. QED
  BY <1>1, <1>2, <1>3 DEF Timed

\* A terminal row only ages, and its attempts stand, until it is pruned.
LEMMA TerminalRowsStand ==
    ASSUME IInv, [Next]_vars, NEW j \in JobId, jobs[j].status \in Terminal,
           jobs'[j].status # "deleted"
    PROVE  jobs'[j].count = jobs[j].count /\ attempts'[j] = attempts[j]
<1>0. /\ jobs[j] \in Row
      /\ Changes(jobs[j], attempts[j], jobs'[j], attempts'[j])
  BY InvOfRow, StepChanges
<1>1. /\ ~Opened(jobs[j], attempts[j], jobs'[j], attempts'[j])
      /\ ~TakenUp(jobs[j], attempts[j], jobs'[j], attempts'[j])
      /\ ~GivenUp(jobs[j], attempts[j], jobs'[j], attempts'[j])
      /\ ~Reported(jobs[j], attempts[j], jobs'[j], attempts'[j])
      /\ ~Pruned(jobs[j], jobs'[j])
  <2>1. /\ jobs[j].status # "absent" /\ jobs[j].status # "queued"
        /\ jobs[j].status # "running"
        /\ NoRow("deleted").status = "deleted"
    BY DEF Terminal, NoRow
  <2>2. QED
    BY <2>1, Zenon DEF Opened, TakenUp, GivenUp, Reported, Pruned
<1>2. Timed(jobs[j], attempts[j], jobs'[j], attempts'[j])
  BY <1>0, <1>1 DEF Changes
<1>3. CASE jobs'[j] = jobs[j] \/ jobs'[j] = Aged(jobs[j])
  BY <1>0, <1>2, <1>3, RewrittenRows DEF Timed
<1>4. CASE \E left \in 0..LeaseTime : jobs'[j] = [jobs[j] EXCEPT !.lease = left]
  BY <1>0, <1>2, <1>4 DEF Timed, Row
<1>5. QED
  BY <1>2, <1>3, <1>4 DEF Timed

\* The step decides job j, or sends it back to the queue, other than by the
\* expiry of its lease.
Decided(j) ==
    /\ jobs[j].status = "running"
    /\ jobs'[j].status # "running"
    /\ attempts'[j][jobs[j].count].status # "lease_expired"

\* Enqueueing, claiming, pruning, extending a lease and the passing of time
\* decide no job.
LEMMA OthersDecideNothing ==
    ASSUME IInv, NEW j \in JobId,
           \/ Enqueues \/ Claims \/ Prunes \/ Tick \/ UNCHANGED vars
           \/ \E i \in JobId, t \in Nat, left \in 0..LeaseTime :
                 Heartbeat(i, t, left)
    PROVE  /\ jobs'[j].status = "succeeded" => jobs[j].status = "succeeded"
           /\ ~Decided(j)
<1>0. /\ jobs[j] \in Row /\ attempts[j] \in Tries /\ RowOK(jobs[j], attempts[j])
      /\ jobs \in [JobId -> Row]
  BY InvOfRow DEF IInv, TypeOK
<1>1. CASE Enqueues
  BY <1>0, <1>1 DEF Enqueues, Enqueue, NoRow, Decided
<1>2. CASE Claims
  <2>0. ASSUME GivenUp(jobs[j], attempts[j], jobs'[j], attempts'[j])
        PROVE  jobs'[j].status = "failed" /\ ~Decided(j)
    <3>1. jobs'[j].status = "failed"
      BY <1>0, <2>0, RewrittenRows DEF GivenUp
    <3>2. attempts'[j][jobs[j].count].status = "lease_expired"
      BY <1>0, <2>0 DEF GivenUp, RowOK, Abandoned, Tries, Attempt
    <3>3. QED
      BY <3>1, <3>2 DEF Decided
  <2>1. CASE \E locked \in SUBSET JobId : ClaimNothing(locked)
    <3>1. \/ GivenUp(jobs[j], attempts[j], jobs'[j], attempts'[j])
          \/ jobs'[j] = jobs[j]
      BY <2>1 DEF ClaimNothing, Doomed, Expired, GivenUp
    <3>2. QED
      BY <2>0, <3>1 DEF Decided
  <2>2. CASE \E locked \in SUBSET JobId, i \in JobId, left \in 0..LeaseTime :
                Claim(i, locked, left)
    <3>1. PICK locked \in SUBSET JobId, i \in JobId, left \in 0..LeaseTime :
             Claim(i, locked, left)
      BY <2>2
    <3>2. CASE i = j
      <4>1. jobs'[j] = Leased(jobs[j], issued + 1, left)
        BY <3>1, <3>2, ClaimedRow
      <4>2. jobs'[j].status = "running"
        BY <1>0, <4>1, RewrittenRows
      <4>3. QED
        BY <4>2 DEF Decided
    <3>3. CASE i # j
      <4>1. \/ GivenUp(jobs[j], attempts[j], jobs'[j], attempts'[j])
            \/ jobs'[j] = jobs[j]
        BY <3>1, <3>3, ClaimOthers DEF Doomed, Expired, GivenUp
      <4>2. QED
        BY <2>0, <4>1 DEF Decided
    <3>4. QED
      BY <3>2, <3>3
  <2>3. QED
    BY <1>2, <2>1, <2>2 DEF Claims
<1>3. CASE Prunes
  BY <1>0, <1>3 DEF Prunes, Prune, Prunable, Terminal, NoRow, Decided
<1>4. CASE Tick
  BY <1>0, <1>4 DEF Tick, Aged, Row, Decided
<1>5. CASE UNCHANGED vars
  BY <1>0, <1>5 DEF vars, Decided
<1>6. CASE \E i \in JobId, t \in Nat, left \in 0..LeaseTime : Heartbeat(i, t, left)
  BY <1>0, <1>6 DEF Heartbeat, Row, Decided
<1>7. QED
  BY <1>1, <1>2, <1>3, <1>4, <1>5, <1>6

\* A report decides only the job whose newest attempt has its token, and a
\* reported failure is no success.
LEMMA SuccessDecides ==
    ASSUME IInv, NEW i \in JobId, NEW t, Succeed(i, t)
    PROVE  /\ Holds(i, t)
           /\ \A j \in JobId : j # i => jobs'[j] = jobs[j]
           /\ attempts'[i][jobs'[i].count].token = t
<1>1. /\ jobs[i].status = "running" /\ jobs[i].token = t
      /\ jobs[i] \in Row /\ attempts[i] \in Tries
      /\ RowOK(jobs[i], attempts[i]) /\ TokensOK(attempts[i], issued)
  BY InvOfRow, InvTokens DEF Succeed, Holds
<1>2. /\ jobs[i].count \in AttemptNo
      /\ attempts[i][jobs[i].count].token = t
      /\ Settled(attempts[i], t, "succeeded")[jobs[i].count].token = t
  BY <1>1, SettledTries DEF RowOK
<1>3. /\ jobs' = [jobs EXCEPT ![i] = Closed(jobs[i], "succeeded")]
      /\ attempts' = [attempts EXCEPT ![i] = Settled(attempts[i], t, "succeeded")]
  BY DEF Succeed
<1>4. jobs'[i].count = jobs[i].count
  BY <1>1, <1>3, RewrittenRows DEF IInv, TypeOK
<1>5. QED
  BY <1>2, <1>3, <1>4 DEF Succeed, IInv, TypeOK

LEMMA FailureDecides ==
    ASSUME IInv, NEW i \in JobId, NEW t, NEW retry, NEW d, Fail(i, t, retry, d)
    PROVE  /\ Holds(i, t)
           /\ \A j \in JobId : j # i => jobs'[j] = jobs[j]
           /\ jobs'[i].status # "succeeded"
<1>1. jobs[i] \in Row
  BY InvOfRow
<1>2. jobs'[i] \in {Requeued(jobs[i], d), Closed(jobs[i], "failed")}
  BY DEF Fail, IInv, TypeOK
<1>3. jobs'[i].status # "succeeded"
  BY <1>1, <1>2, RewrittenRows
<1>4. QED
  BY <1>3 DEF Fail

\* The attempt a claim records, and what the claim leaves of the row.
LEMMA ClaimRecords ==
    ASSUME IInv, NEW j \in JobId, NEW locked, NEW left \in 0..LeaseTime,
           Claim(j, locked, left)
    PROVE  /\ jobs[j].count + 1 \in AttemptNo
           /\ jobs[j].max \in Nat /\ jobs'[j].max = jobs[j].max
           /\ jobs'[j].status = "running"
           /\ attempts'[j][jobs[j].count + 1].status = "running"
           /\ attempts'[j][jobs[j].count + 1].token = issued'
           /\ issued' = issued + 1
<1>1. /\ jobs[j] \in Row
      /\ jobs'[j] = Leased(jobs[j], issued + 1, left)
      /\ jobs[j].count + 1 \in AttemptNo
      /\ attempts'[j] = [Abandoned(attempts[j], jobs[j].count) EXCEPT
                           ![jobs[j].count + 1] =
                              [status |-> "running", token |-> issued + 1]]
  BY InvOfRow, ClaimedRow
<1>2. issued' = issued + 1
  BY DEF Claim
<1>3. QED
  BY <1>1, <1>2 DEF Leased, Row, AttemptNo, Abandoned

-----------------------------------------------------------------------------
LEMMA Phases ==
    /\ PhaseOf("absent") = "absent" /\ PhaseOf("queued") = "waiting"
    /\ PhaseOf("running") = "active" /\ PhaseOf("deleted") = "forgotten"
    /\ PhaseOf("succeeded") = "finished" /\ PhaseOf("failed") = "finished"
  BY DEF PhaseOf

LEMMA AccountType == ASSUME NEW row \in Row PROVE AccountOf(row) \in Ledger!Account
<1>1. PhaseOf(row.status) \in Ledger!Phase
  BY Phases DEF Row, Status, Terminal, Ledger!Phase
<1>2. QED
  BY <1>1 DEF AccountOf, Ledger!Account, Ledger!Result, Row, Terminal, AttemptNo

LEMMA Finishing ==
    ASSUME NEW row, NEW row2, row.status = "running",
           row2.status \in Terminal, row2.count = row.count,
           row2.max = row.max
    PROVE  Ledger!Moves(AccountOf(row), AccountOf(row2))
<1>1. PhaseOf(row.status) = "active" /\ PhaseOf(row2.status) = "finished"
  BY Phases DEF Terminal
<1>2. Ledger!Finishes(AccountOf(row), AccountOf(row2))
  BY <1>1 DEF Ledger!Finishes, Ledger!Entry, AccountOf, Terminal
<1>3. QED
  BY <1>2 DEF Ledger!Moves

LEMMA Starting ==
    ASSUME NEW row, NEW row2, row.status \in {"queued", "running"},
           row.count < row.max, row2.status = "running",
           row2.count = row.count + 1, row2.max = row.max
    PROVE  Ledger!Moves(AccountOf(row), AccountOf(row2))
<1>1. /\ PhaseOf(row.status) \in {"waiting", "active"}
      /\ PhaseOf(row2.status) = "active"
  BY Phases
<1>2. Ledger!Starts(AccountOf(row), AccountOf(row2))
  BY <1>1 DEF Ledger!Starts, Ledger!Entry, AccountOf, Terminal
<1>3. QED
  BY <1>2 DEF Ledger!Moves

\* Every change is a move of the ledger, or leaves the account alone.
LEMMA ChangesAreMoves ==
    ASSUME NEW row \in Row, NEW tries \in Tries, RowOK(row, tries),
           NEW row2 \in Row, NEW tries2, Changes(row, tries, row2, tries2)
    PROVE  \/ AccountOf(row2) = AccountOf(row)
           \/ Ledger!Moves(AccountOf(row), AccountOf(row2))
<1>1. CASE Opened(row, tries, row2, tries2)
  <2>1. PICK m \in AttemptNo :
           /\ row2.status = "queued" /\ row2.count = 0 /\ row2.max = m
    BY <1>1 DEF Opened, NoRow
  <2>2. Ledger!Opens(AccountOf(row), AccountOf(row2))
    BY <1>1, <2>1, Phases DEF Opened, AccountOf, Ledger!Opens, Ledger!Entry,
             Terminal, AttemptNo
  <2>3. QED
    BY <2>2 DEF Ledger!Moves
<1>2. CASE TakenUp(row, tries, row2, tries2)
  <2>1. /\ row2.status = "running" /\ row2.count = row.count + 1
        /\ row2.max = row.max
    BY <1>2 DEF TakenUp, Leased, Row
  <2>2. QED
    BY <1>2, <2>1, Starting DEF TakenUp
<1>3. CASE GivenUp(row, tries, row2, tries2)
  <2>1. row2.status = "failed" /\ row2.count = row.count /\ row2.max = row.max
    BY <1>3 DEF GivenUp, Closed, Row
  <2>2. QED
    BY <1>3, <2>1, Finishing DEF GivenUp, Terminal
<1>4. CASE Reported(row, tries, row2, tries2)
  <2>1. /\ row2.count = row.count /\ row2.max = row.max
        /\ \/ row2.status \in Terminal
           \/ row2.status = "queued" /\ row.count < row.max
    BY <1>4 DEF Reported, Closed, Requeued, Row, Terminal
  <2>2. CASE row2.status \in Terminal
    BY <1>4, <2>1, <2>2, Finishing DEF Reported
  <2>3. CASE row2.status = "queued" /\ row.count < row.max
    <3>1. Ledger!BacksOff(AccountOf(row), AccountOf(row2))
      BY <1>4, <2>1, <2>3, Phases
        DEF Reported, AccountOf, Ledger!BacksOff, Ledger!Entry, Terminal
    <3>2. QED
      BY <3>1 DEF Ledger!Moves
  <2>4. QED
    BY <2>1, <2>2, <2>3
<1>5. CASE Timed(row, tries, row2, tries2)
  BY <1>5 DEF Timed, Aged, AccountOf, Row
<1>6. CASE Pruned(row, row2)
  <2>1. row2.status = "deleted" /\ row2.count = 0 /\ row2.max = 1
    BY <1>6 DEF Pruned, NoRow
  <2>2. Ledger!Forgets(AccountOf(row), AccountOf(row2))
    BY <1>6, <2>1, Phases DEF Pruned, AccountOf, Ledger!Forgets, Ledger!Entry,
                        Terminal
  <2>3. QED
    BY <2>2 DEF Ledger!Moves
<1>7. QED
  BY <1>1, <1>2, <1>3, <1>4, <1>5, <1>6 DEF Changes

\* The tables implement the ledger, with each row mapped to its account: every
\* transaction moves each account along the ledger's moves or not at all.
THEOREM LedgerRefinement == Spec => ImplementsLedger
<1>1. Init => Ledger!Init
  BY Phases DEF Init, Ledger!Init, Ledger!Unopened, Ledger!Entry, AccountOf, NoRow, Terminal
<1>2. IInv /\ IInv' /\ [Next]_vars
         => [Ledger!Next]_([j \in JobId |-> AccountOf(jobs[j])])
  <2> SUFFICES ASSUME IInv, IInv', [Next]_vars PROVE Ledger!Next
    OBVIOUS
  <2>1. ASSUME NEW j \in JobId
        PROVE  /\ AccountOf(jobs'[j]) \in Ledger!Account
               /\ \/ AccountOf(jobs'[j]) = AccountOf(jobs[j])
                  \/ Ledger!Moves(AccountOf(jobs[j]), AccountOf(jobs'[j]))
    <3>1. /\ jobs[j] \in Row /\ attempts[j] \in Tries
          /\ RowOK(jobs[j], attempts[j])
          /\ Changes(jobs[j], attempts[j], jobs'[j], attempts'[j])
      BY InvOfRow, StepChanges
    <3>2. jobs'[j] \in Row
      BY DEF IInv, TypeOK
    <3>3. QED
      BY <3>1, <3>2, AccountType, ChangesAreMoves
  <2>2. QED
    BY <2>1 DEF Ledger!Next
<1>3. QED
  BY <1>1, <1>2, Invariance, PTL DEF Spec, ImplementsLedger, Ledger!Spec
=============================================================================
