---------------------------- MODULE CoachProofs ----------------------------
(***************************************************************************)
(* A request for a review pays for one call of the model, and a report     *)
(* that was made is kept: for any number of requests, workers and faults.  *)
(***************************************************************************)
EXTENDS CoachReviews, TLAPS, FiniteSetTheorems

CoachSpec == CoachInit /\ [][CoachNext]_coachVars

Worker == [pc : CoachPC, job : Requests \cup {"none"}, tries : Nat, lost : BOOLEAN]

States == {"none", "queued", "running", "done", "failed"}
Request == [state : States, tries : Nat, limit : {1, OldAttempts}, old : BOOLEAN]
ReviewRun == [status : {"none", "running", "succeeded", "failed"}, report : BOOLEAN]

\* A job that exists has attempts left while it waits; a request that has none
\* leaves no trace.
LimitOK(q) ==
    LET j == ask[q]
    IN  /\ j.state = "none" => ~j.old
        /\ j.state # "none" => j.limit = IF j.old THEN OldAttempts ELSE 1
        /\ j.tries <= j.limit
        /\ j.state = "queued" => j.tries < j.limit

\* A worker that is at a job has one of the attempts of the job, and the job
\* is there.
AttachedOK(w) ==
    LET c == coach[w]
    IN  /\ c.pc = "idle" => c = Off
        /\ c.pc # "idle" =>
              /\ c.job \in Requests /\ ask[c.job].state # "none"
              /\ c.tries <= ask[c.job].tries

\* Each attempt that could still pay has not paid before.
BeforeCall == {"evidence", "open", "call"}
Unpaid(q) == {w \in Coaches : coach[w].pc \in BeforeCall /\ coach[w].job = q}
PaidOK(q) ==
    ask[q].state # "none" => paid[q] + Cardinality(Unpaid(q)) <= ask[q].tries

PayInv ==
    /\ CoachTypeOK
    /\ \A q \in Requests : LimitOK(q) /\ PaidOK(q)
    /\ \A w \in Coaches : AttachedOK(w)

\* While the row of the review is someone's to conclude, nobody else's work is
\* in it; this is what an old job, or a doubted commit, gives up.
InTry == {"call", "complete", "fail"}
Simple == ~doubted /\ \A q \in Requests : ~ask[q].old
ReviewInv ==
    /\ review.status = "succeeded" => review.report
    /\ Simple =>
          /\ \A w \in Coaches : coach[w].pc \in InTry => review.status = "running"
          /\ \A w, v \in Coaches : coach[w].pc \in InTry /\ coach[v].pc \in InTry => w = v
          /\ \A q \in Requests : ask[q].state = "done" => review.status = "succeeded"

CoachInv == PayInv /\ ReviewInv

-----------------------------------------------------------------------------
LEMMA CoachFacts ==
    ASSUME PayInv
    PROVE  /\ CoachTypeOK
           /\ ask \in [Requests -> Request] /\ paid \in [Requests -> Nat]
           /\ coach \in [Coaches -> Worker] /\ review \in ReviewRun
           /\ doubted \in BOOLEAN /\ upsets \in 0..MaxUpsets
           /\ \A q \in Requests : /\ LimitOK(q) /\ PaidOK(q) /\ ask[q] \in Request
                                  /\ paid[q] \in Nat
           /\ \A w \in Coaches : AttachedOK(w) /\ coach[w] \in Worker
  BY DEF PayInv, CoachTypeOK, Request, States, Worker, ReviewRun

\* Two sets that differ in b at most.
LEMMA OneElement ==
    ASSUME NEW S, NEW T, IsFiniteSet(S), IsFiniteSet(T), NEW b,
           \A a : a # b => (a \in S <=> a \in T)
    PROVE  /\ Cardinality(S) \in Nat /\ Cardinality(T) \in Nat
           /\ Cardinality(T) + (IF b \in S THEN 1 ELSE 0)
                = Cardinality(S) + (IF b \in T THEN 1 ELSE 0)
<1>1. Cardinality(S) \in Nat /\ Cardinality(T) \in Nat
  BY FS_CardinalityType
<1>2. CASE b \in S <=> b \in T
  <2>1. S = T
    BY <1>2
  <2>2. QED
    BY <1>1, <1>2, <2>1
<1>3. CASE b \in S /\ b \notin T
  <2>1. T = S \ {b}
    BY <1>3
  <2>2. Cardinality(T) = Cardinality(S) - 1
    BY <1>3, <2>1, FS_RemoveElement
  <2>3. QED
    BY <1>1, <1>3, <2>2
<1>4. CASE b \notin S /\ b \in T
  <2>1. T = S \cup {b}
    BY <1>4
  <2>2. Cardinality(T) = Cardinality(S) + 1
    BY <1>4, <2>1, FS_AddElement
  <2>3. QED
    BY <1>1, <1>4, <2>2
<1>5. QED
  BY <1>2, <1>3, <1>4

\* The calls that the attempts at a job may still pay for, after worker w has
\* become c2.
Owes(c, q) == IF c.pc \in BeforeCall /\ c.job = q THEN 1 ELSE 0

LEMMA UnpaidCount ==
    ASSUME coach \in [Coaches -> Worker], NEW w \in Coaches, NEW c2 \in Worker,
           coach' = [coach EXCEPT ![w] = c2], NEW q \in Requests
    PROVE  /\ Cardinality(Unpaid(q)) \in Nat /\ Cardinality(Unpaid(q)') \in Nat
           /\ Owes(c2, q) \in Nat /\ Owes(coach[w], q) \in Nat
           /\ Cardinality(Unpaid(q)') + Owes(coach[w], q)
                = Cardinality(Unpaid(q)) + Owes(c2, q)
<1> DEFINE S == Unpaid(q)
<1>1. IsFiniteSet(S) /\ IsFiniteSet(S')
  BY CoachAssumption, FS_Subset DEF Unpaid
<1>2. \A a : a # w => (a \in S <=> a \in S')
  BY DEF Unpaid
<1>3. /\ Owes(c2, q) = IF w \in S' THEN 1 ELSE 0
      /\ Owes(coach[w], q) = IF w \in S THEN 1 ELSE 0
  BY DEF Unpaid, Owes
<1> HIDE DEF S
<1>4. /\ Cardinality(S) \in Nat /\ Cardinality(S') \in Nat
      /\ Cardinality(S') + (IF w \in S THEN 1 ELSE 0)
           = Cardinality(S) + (IF w \in S' THEN 1 ELSE 0)
  BY <1>1, <1>2, OneElement
<1>5. QED
  BY <1>3, <1>4 DEF S

\* What is left to show of a step of a worker at its job.
JobsStay ==
    \A q \in Requests :
        /\ ask'[q].tries = ask[q].tries /\ ask'[q].limit = ask[q].limit
        /\ ask'[q].old = ask[q].old
        /\ ask'[q].state = "none" <=> ask[q].state = "none"
        /\ ask'[q].state = "queued" =>
              ask[q].state = "queued" \/ ask[q].tries < ask[q].limit

SameJob(c, c2) ==
    c2 = Off \/ (c2.pc # "idle" /\ c2.job = c.job /\ c2.tries = c.tries)

LEMMA WorkerStep ==
    ASSUME PayInv, NEW w \in Coaches, coach[w].pc # "idle",
           NEW c2 \in Worker, coach' = [coach EXCEPT ![w] = c2],
           SameJob(coach[w], c2),
           ask' \in [Requests -> Request], JobsStay,
           paid' \in [Requests -> Nat],
           \A q \in Requests :
              paid'[q] + Owes(c2, q) <= paid[q] + Owes(coach[w], q),
           review' \in ReviewRun, doubted' \in BOOLEAN, upsets' \in 0..MaxUpsets
    PROVE  PayInv'
<1>1. /\ coach' \in [Coaches -> Worker] /\ coach'[w] = c2
      /\ \A v \in Coaches \ {w} : coach'[v] = coach[v]
  BY CoachFacts
<1>2. \A v \in Coaches : AttachedOK(v)'
  <2>1. \A v \in Coaches : AttachedOK(v)
    BY CoachFacts
  <2>2. Off.pc = "idle"
    BY DEF Off
  <2>3. ASSUME NEW v \in Coaches, v # w PROVE AttachedOK(v)'
    BY <1>1, <2>1, <2>3 DEF AttachedOK, JobsStay
  <2>4. AttachedOK(w)'
    BY <1>1, <2>1, <2>2 DEF AttachedOK, JobsStay, SameJob
  <2>5. QED
    BY <2>3, <2>4
<1>3. CoachTypeOK'
  <2>1. \A q \in Requests : ask'[q].tries <= ask'[q].limit
    BY CoachFacts DEF JobsStay, LimitOK
  <2>2. \A v \in Coaches : coach'[v].pc # "idle" => coach'[v].job \in Requests
    BY <1>2 DEF AttachedOK
  <2>3. QED
    BY <1>1, <2>1, <2>2 DEF CoachTypeOK, Request, States, Worker, ReviewRun
<1>4. \A q \in Requests : LimitOK(q)'
  BY CoachFacts DEF LimitOK, JobsStay
<1>5. ASSUME NEW q \in Requests PROVE PaidOK(q)'
  <2>1. /\ Cardinality(Unpaid(q)) \in Nat /\ Cardinality(Unpaid(q)') \in Nat
        /\ Owes(c2, q) \in Nat /\ Owes(coach[w], q) \in Nat
        /\ Cardinality(Unpaid(q)') + Owes(coach[w], q)
              = Cardinality(Unpaid(q)) + Owes(c2, q)
    BY CoachFacts, UnpaidCount
  <2>2. /\ paid[q] \in Nat /\ paid'[q] \in Nat /\ ask[q].tries \in Nat
        /\ ask'[q].tries = ask[q].tries
        /\ paid'[q] + Owes(c2, q) <= paid[q] + Owes(coach[w], q)
    BY CoachFacts DEF JobsStay, Request
  <2>3. ask'[q].state # "none" =>
          paid[q] + Cardinality(Unpaid(q)) <= ask[q].tries
    BY CoachFacts DEF PaidOK, JobsStay
  <2>4. ask'[q].state # "none" =>
          paid'[q] + Cardinality(Unpaid(q)') <= ask'[q].tries
    BY <2>1, <2>2, <2>3
  <2>5. QED
    BY <2>4 DEF PaidOK
<1>6. QED
  BY <1>2, <1>3, <1>4, <1>5 DEF PayInv

-----------------------------------------------------------------------------
(***************************************************************************)
(* How a worker moves on, and how it leaves.                               *)
(***************************************************************************)
LEMMA StateSet ==
    ASSUME PayInv, NEW q \in Requests, NEW s \in States,
           ask' = [ask EXCEPT ![q].state = s]
    PROVE  /\ ask' \in [Requests -> Request]
           /\ \A p \in Requests :
                 /\ ask'[p].tries = ask[p].tries /\ ask'[p].limit = ask[p].limit
                 /\ ask'[p].old = ask[p].old
                 /\ ask'[p].state = IF p = q THEN s ELSE ask[p].state
<1> DEFINE row == [ask[q] EXCEPT !.state = s]
<1>1. /\ ask \in [Requests -> Request] /\ ask[q] \in Request
      /\ ask' = [ask EXCEPT ![q] = row]
  BY CoachFacts
<1>2. /\ row \in Request /\ row.state = s /\ row.tries = ask[q].tries
      /\ row.limit = ask[q].limit /\ row.old = ask[q].old
  BY <1>1 DEF Request
<1> HIDE DEF row
<1>3. QED
  BY <1>1, <1>2

\* The worker goes on with its job.
LEMMA GoesFacts ==
    ASSUME PayInv, NEW w \in Coaches, coach[w].pc # "idle",
           NEW pc \in CoachPC \ {"idle"}, Goes(w, pc)
    PROVE  \E c2 \in Worker :
              /\ coach' = [coach EXCEPT ![w] = c2] /\ c2.pc = pc
              /\ SameJob(coach[w], c2) /\ c2.job = coach[w].job
              /\ \A q \in Requests :
                    Owes(c2, q) = IF pc \in BeforeCall /\ q = coach[w].job THEN 1 ELSE 0
<1> DEFINE c2 == [coach[w] EXCEPT !.pc = pc]
<1>1. coach' = [coach EXCEPT ![w] = c2] /\ coach[w] \in Worker
  BY CoachFacts DEF Goes
<1>2. /\ c2 \in Worker /\ c2.pc = pc /\ c2.job = coach[w].job
      /\ c2.tries = coach[w].tries
  BY <1>1 DEF Worker
<1> HIDE DEF c2
<1>3. QED
  BY <1>1, <1>2 DEF SameJob, Owes

\* The worker leaves, and tells the job's outcome if it still has the lease.
LEMMA LeavesFacts ==
    ASSUME PayInv, NEW w \in Coaches, coach[w].pc # "idle",
           NEW s \in {"done", "failed"}, Leaves(w, s)
    PROVE  /\ Off \in Worker /\ coach' = [coach EXCEPT ![w] = Off]
           /\ SameJob(coach[w], Off)
           /\ \A q \in Requests : Owes(Off, q) = 0
           /\ ask' \in [Requests -> Request] /\ JobsStay
           /\ \A q \in Requests : ask'[q].state # ask[q].state =>
                 ask'[q].state = s /\ q = coach[w].job
<1>1. /\ coach[w].job \in Requests /\ ask[coach[w].job].state # "none"
      /\ ask \in [Requests -> Request]
  BY CoachFacts DEF AttachedOK
<1>2. PICK q \in Requests : q = coach[w].job
  BY <1>1
<1>3. Off \in Worker /\ \A p \in Requests : Owes(Off, p) = 0
  BY DEF Off, Worker, CoachPC, Owes, BeforeCall
<1>4. coach' = [coach EXCEPT ![w] = Off] /\ SameJob(coach[w], Off)
  BY DEF Leaves, SameJob
<1>5. CASE ask' = ask
  BY <1>1, <1>3, <1>4, <1>5 DEF JobsStay
<1>6. CASE ask' = [ask EXCEPT ![q].state = s]
  <2>1. s \in States /\ s \notin {"none", "queued"}
    BY DEF States
  <2>2. /\ ask' \in [Requests -> Request]
        /\ \A p \in Requests :
              /\ ask'[p].tries = ask[p].tries /\ ask'[p].limit = ask[p].limit
              /\ ask'[p].old = ask[p].old
              /\ ask'[p].state = IF p = q THEN s ELSE ask[p].state
    BY <1>6, <2>1, StateSet
  <2>3. JobsStay
    BY <1>1, <1>2, <2>1, <2>2 DEF JobsStay
  <2>4. QED
    BY <1>2, <1>3, <1>4, <2>2, <2>3
<1>7. QED
  BY <1>2, <1>5, <1>6 DEF Leaves

-----------------------------------------------------------------------------
(***************************************************************************)
(* The row of the review.                                                  *)
(***************************************************************************)
LEMMA ReviewStays ==
    ASSUME ReviewInv, review' = review, Simple' => Simple,
           \A v \in Coaches : coach'[v].pc \in InTry => coach[v].pc \in InTry,
           \A q \in Requests : ask'[q].state = "done" =>
              ask[q].state = "done" \/ review.status = "succeeded"
    PROVE  ReviewInv'
  BY DEF ReviewInv

\* Worker w enters the try, or leaves it with an outcome.
LEMMA ReviewMoves ==
    ASSUME ReviewInv, NEW w \in Coaches, Simple' => Simple,
           \A v \in Coaches \ {w} : coach'[v] = coach[v],
           review'.status = "succeeded" => review'.report,
           Simple =>
              /\ \A v \in Coaches \ {w} : coach[v].pc \notin InTry
              /\ coach'[w].pc \in InTry => review'.status = "running"
              /\ \A q \in Requests :
                    ask'[q].state = "done" => review'.status = "succeeded"
    PROVE  ReviewInv'
<1>1. review'.status = "succeeded" => review'.report
  OBVIOUS
<1>2. ASSUME Simple'
      PROVE  /\ \A v \in Coaches : coach'[v].pc \in InTry => review'.status = "running"
             /\ \A v, u \in Coaches :
                   coach'[v].pc \in InTry /\ coach'[u].pc \in InTry => v = u
             /\ \A q \in Requests :
                   ask'[q].state = "done" => review'.status = "succeeded"
  <2>1. \A v \in Coaches \ {w} : coach'[v].pc \notin InTry
    BY <1>2
  <2>2. QED
    BY <1>2, <2>1
<1>3. QED
  BY <1>1, <1>2 DEF ReviewInv

\* Who is in the try is alone there, and has the run under way.
LEMMA AloneInTry ==
    ASSUME ReviewInv, Simple, NEW w \in Coaches, coach[w].pc \in InTry
    PROVE  /\ review.status = "running"
           /\ \A v \in Coaches \ {w} : coach[v].pc \notin InTry
           /\ \A q \in Requests : ask[q].state # "done"
  BY DEF ReviewInv

LEMMA OldStays ==
    ASSUME JobsStay, doubted' = doubted PROVE Simple' => Simple
  BY DEF JobsStay, Simple

-----------------------------------------------------------------------------
(***************************************************************************)
(* One lemma per action.                                                   *)
(***************************************************************************)
\* Jobs come and go where no worker is at them.
LEMMA AskPruneInv ==
    ASSUME CoachInv, NEW q \in Requests, Ask(q) \/ Prune(q) PROVE CoachInv'
<1> DEFINE fresh == [state |-> "queued", tries |-> 0, limit |-> AttemptsOf, old |-> FALSE]
           row == IF Ask(q) THEN fresh ELSE Unasked
<1>1. /\ PayInv /\ ReviewInv
      /\ review' = review /\ coach' = coach /\ doubted' = doubted /\ upsets' = upsets
  BY DEF CoachInv, Ask, Prune
<1>2. ask' = [ask EXCEPT ![q] = row]
  BY DEF Ask, Prune
<1>3. /\ row \in Request /\ row.tries = 0 /\ row.limit = 1 /\ ~row.old
      /\ row.state = IF Ask(q) THEN "queued" ELSE "none"
  BY DEF Request, States, AttemptsOf, Unasked
<1>4. ~ask[q].old
  BY <1>1, CoachFacts DEF Ask, Prune, LimitOK
<1>5. \A w \in Coaches : coach[w].job # q
  <2>1. CASE Prune(q)
    BY <2>1 DEF Prune
  <2>2. CASE Ask(q)
    <3>1. \A w \in Coaches : coach[w].pc # "idle" => coach[w].job # q
      BY <1>1, <2>2, CoachFacts DEF AttachedOK, Ask
    <3>2. \A w \in Coaches : coach[w].pc = "idle" => coach[w].job = "none"
      BY <1>1, CoachFacts DEF AttachedOK, Off
    <3>3. QED
      BY <3>1, <3>2, CoachAssumption
  <2>3. QED
    BY <2>1, <2>2
<1>6. /\ paid' \in [Requests -> Nat] /\ (Ask(q) => paid'[q] = 0)
      /\ \A p \in Requests \ {q} : paid'[p] = paid[p]
  <2>1. paid \in [Requests -> Nat]
    BY <1>1, CoachFacts
  <2>2. paid' = [paid EXCEPT ![q] = 0] \/ (paid' = paid /\ ~Ask(q))
    BY <1>2, <1>3, <1>1, CoachFacts DEF Ask, Prune
  <2>3. QED
    BY <2>1, <2>2
<1> HIDE DEF fresh, row
<1>7. /\ ask' \in [Requests -> Request] /\ ask'[q] = row
      /\ \A p \in Requests \ {q} : ask'[p] = ask[p]
  BY <1>1, <1>2, <1>3, CoachFacts
<1>8. \A p \in Requests : LimitOK(p)'
  BY <1>1, <1>3, <1>7, CoachFacts DEF LimitOK
<1>9. CoachTypeOK'
  <2>1. \A p \in Requests : ask'[p].tries <= ask'[p].limit
    BY <1>8 DEF LimitOK
  <2>2. QED
    BY <1>1, <1>6, <1>7, <2>1, CoachFacts DEF CoachTypeOK, Request, States
<1>10. \A w \in Coaches : AttachedOK(w)'
  BY <1>1, <1>5, <1>7, CoachFacts DEF AttachedOK
<1>11. ASSUME NEW p \in Requests PROVE PaidOK(p)'
  <2>1. CASE p # q
    BY <1>1, <1>6, <1>7, <2>1, CoachFacts DEF PaidOK, Unpaid
  <2>2. CASE p = q
    <3>1. Unpaid(q)' = {}
      BY <1>1, <1>5 DEF Unpaid
    <3>2. Cardinality(Unpaid(q)') = 0
      BY <3>1, FS_EmptySet
    <3>3. ask'[q].state # "none" =>
            paid'[q] + Cardinality(Unpaid(q)') <= ask'[q].tries
      BY <1>3, <1>6, <1>7, <3>2
    <3>4. QED
      BY <2>2, <3>3 DEF PaidOK
  <2>3. QED
    BY <2>1, <2>2
<1>12. ReviewInv'
  <2>1. Simple' => Simple
    BY <1>1, <1>4, <1>7 DEF Simple
  <2>2. \A p \in Requests : ask'[p].state = "done" => ask[p].state = "done"
    BY <1>3, <1>7
  <2>3. QED
    BY <1>1, <2>1, <2>2, ReviewStays
<1>13. QED
  BY <1>8, <1>9, <1>10, <1>11, <1>12 DEF CoachInv, PayInv

LEMMA ClaimInv ==
    ASSUME CoachInv, NEW w \in Coaches, NEW q \in Requests, Claim(w, q) PROVE CoachInv'
<1> DEFINE row == [ask[q] EXCEPT !.state = "running", !.tries = @ + 1]
           c2 == [pc |-> "evidence", job |-> q, tries |-> ask[q].tries + 1, lost |-> FALSE]
<1>1. /\ PayInv /\ ReviewInv /\ coach[w] = Off /\ ask[q].state = "queued"
      /\ review' = review /\ paid' = paid /\ doubted' = doubted /\ upsets' = upsets
      /\ ask' = [ask EXCEPT ![q] = row]
      /\ coach' = [coach EXCEPT ![w] = c2]
  BY DEF CoachInv, Claim
<1>2. /\ ask[q] \in Request /\ ask[q].tries \in Nat
      /\ ask[q].tries < ask[q].limit /\ ask[q].limit \in Nat
      /\ ask[q].limit = IF ask[q].old THEN OldAttempts ELSE 1
  BY <1>1, CoachFacts, CoachAssumption DEF Request, LimitOK
<1>3. /\ row \in Request /\ row.state = "running" /\ row.tries = ask[q].tries + 1
      /\ row.limit = ask[q].limit /\ row.old = ask[q].old
  <2>1. PICK n \in Nat : n = ask[q].tries + 1
    BY <1>2
  <2>2. row = [ask[q] EXCEPT !.state = "running", !.tries = n]
    BY <2>1
  <2> HIDE DEF row
  <2>3. QED
    BY <1>2, <2>1, <2>2 DEF Request, States
<1>4. /\ c2 \in Worker /\ c2.pc = "evidence" /\ c2.job = q
      /\ c2.tries = ask[q].tries + 1
  BY <1>2 DEF Worker, CoachPC
<1> HIDE DEF row, c2
<1>5. /\ ask' \in [Requests -> Request] /\ ask'[q] = row
      /\ \A p \in Requests \ {q} : ask'[p] = ask[p]
      /\ coach' \in [Coaches -> Worker] /\ coach'[w] = c2
      /\ \A v \in Coaches \ {w} : coach'[v] = coach[v]
  BY <1>1, <1>3, <1>4, CoachFacts
<1>6. \A p \in Requests : LimitOK(p)'
  BY <1>1, <1>2, <1>3, <1>5, CoachFacts DEF LimitOK
<1>7. \A v \in Coaches : AttachedOK(v)'
  <2>1. \A p \in Requests : ask[p].tries \in Nat
    BY <1>1, CoachFacts DEF Request
  <2>2. \A p \in Requests : /\ ask[p].state # "none" => ask'[p].state # "none"
                            /\ ask[p].tries <= ask'[p].tries
    BY <1>3, <1>5, <2>1
  <2>3. ASSUME NEW v \in Coaches, v # w PROVE AttachedOK(v)'
    <3>1. AttachedOK(v) /\ coach'[v] = coach[v] /\ coach[v].tries \in Nat
      BY <1>1, <1>5, <2>3, CoachFacts DEF Worker
    <3>2. ask'[coach[v].job].tries \in Nat \/ coach[v].job \notin Requests
      BY <1>5 DEF Request
    <3>3. QED
      BY <2>1, <2>2, <3>1, <3>2 DEF AttachedOK
  <2>4. AttachedOK(w)'
    BY <1>2, <1>3, <1>4, <1>5 DEF AttachedOK
  <2>5. QED
    BY <2>3, <2>4
<1>8. CoachTypeOK'
  <2>1. \A p \in Requests : ask'[p].tries <= ask'[p].limit
    BY <1>6 DEF LimitOK
  <2>2. \A v \in Coaches : coach'[v].pc # "idle" => coach'[v].job \in Requests
    BY <1>7 DEF AttachedOK
  <2>3. QED
    BY <1>1, <1>5, <2>1, <2>2, CoachFacts
      DEF CoachTypeOK, Request, States, Worker
<1>9. ASSUME NEW p \in Requests PROVE PaidOK(p)'
  <2>1. Owes(coach[w], p) = 0 /\ Owes(c2, p) = IF p = q THEN 1 ELSE 0
    BY <1>1, <1>4 DEF Owes, Off, BeforeCall
  <2>2. /\ Cardinality(Unpaid(p)) \in Nat /\ Cardinality(Unpaid(p)') \in Nat
        /\ Cardinality(Unpaid(p)') + Owes(coach[w], p)
              = Cardinality(Unpaid(p)) + Owes(c2, p)
    BY <1>1, <1>4, CoachFacts, UnpaidCount
  <2>3. /\ paid[p] \in Nat /\ ask[p].tries \in Nat
        /\ ask[p].state # "none" => paid[p] + Cardinality(Unpaid(p)) <= ask[p].tries
    BY <1>1, CoachFacts DEF PaidOK, Request
  <2>4. CASE p = q
    <3>1. ask'[p].tries = ask[p].tries + 1 /\ ask[p].state # "none"
      BY <1>1, <1>3, <1>5, <2>4
    <3>2. paid'[p] + Cardinality(Unpaid(p)') <= ask'[p].tries
      BY <1>1, <2>1, <2>2, <2>3, <2>4, <3>1
    <3>3. QED
      BY <3>2 DEF PaidOK
  <2>5. CASE p # q
    <3>1. ask'[p] = ask[p]
      BY <1>5, <2>5
    <3>2. ask'[p].state # "none" =>
            paid'[p] + Cardinality(Unpaid(p)') <= ask'[p].tries
      BY <1>1, <2>1, <2>2, <2>3, <2>5, <3>1
    <3>3. QED
      BY <3>2 DEF PaidOK
  <2>6. QED
    BY <2>4, <2>5
<1>10. ReviewInv'
  <2>1. Simple' => Simple
    BY <1>1, <1>3, <1>5 DEF Simple
  <2>2. \A v \in Coaches : coach'[v].pc \in InTry => coach[v].pc \in InTry
    BY <1>4, <1>5 DEF InTry
  <2>3. \A p \in Requests : ask'[p].state = "done" => ask[p].state = "done"
    BY <1>3, <1>5
  <2>4. QED
    BY <1>1, <2>1, <2>2, <2>3, ReviewStays
<1>11. QED
  BY <1>6, <1>7, <1>8, <1>9, <1>10 DEF CoachInv, PayInv

\* A worker goes on, before its call, with it, or after it.
LEMMA PayGoes ==
    ASSUME PayInv, NEW w \in Coaches, coach[w].pc # "idle",
           NEW pc \in CoachPC \ {"idle"}, Goes(w, pc), ask' = ask,
           pc \in BeforeCall => coach[w].pc \in BeforeCall,
           \/ paid' = paid
           \/ Pays(w) /\ coach[w].pc \in BeforeCall /\ pc \notin BeforeCall,
           review' \in ReviewRun, doubted' \in BOOLEAN, upsets' \in 0..MaxUpsets
    PROVE  /\ PayInv' /\ coach'[w].pc = pc /\ JobsStay
           /\ \A v \in Coaches \ {w} : coach'[v] = coach[v]
<1>1. PICK c2 \in Worker :
         /\ coach' = [coach EXCEPT ![w] = c2] /\ c2.pc = pc
         /\ SameJob(coach[w], c2) /\ c2.job = coach[w].job
         /\ \A q \in Requests :
               Owes(c2, q) = IF pc \in BeforeCall /\ q = coach[w].job THEN 1 ELSE 0
  BY GoesFacts
<1>2. JobsStay /\ ask' \in [Requests -> Request]
  BY CoachFacts DEF JobsStay
<1>3. coach[w].job \in Requests /\ paid \in [Requests -> Nat]
  BY CoachFacts DEF AttachedOK
<1>4. /\ paid' \in [Requests -> Nat]
      /\ \A q \in Requests : paid'[q] + Owes(c2, q) <= paid[q] + Owes(coach[w], q)
  <2>1. CASE paid' = paid
    <3>1. ASSUME NEW q \in Requests
          PROVE  paid[q] + Owes(c2, q) <= paid[q] + Owes(coach[w], q)
      <4>1. Owes(c2, q) \in {0, 1} /\ Owes(coach[w], q) \in {0, 1}
        BY DEF Owes
      <4>2. Owes(c2, q) = 1 => Owes(coach[w], q) = 1
        BY <1>1 DEF Owes
      <4>3. paid[q] \in Nat
        BY <1>3
      <4>4. QED
        BY <4>1, <4>2, <4>3
    <3>2. QED
      BY <1>3, <2>1, <3>1
  <2>2. CASE Pays(w) /\ coach[w].pc \in BeforeCall /\ pc \notin BeforeCall
    <3>1. paid' \in [Requests -> Nat]
          /\ \A q \in Requests :
                paid'[q] = IF q = coach[w].job THEN paid[q] + 1 ELSE paid[q]
      BY <1>3, <2>2 DEF Pays
    <3>2. \A q \in Requests :
             /\ Owes(c2, q) = 0
             /\ Owes(coach[w], q) = IF q = coach[w].job THEN 1 ELSE 0
      BY <1>1, <2>2 DEF Owes
    <3>3. QED
      BY <1>3, <3>1, <3>2
  <2>3. QED
    BY <2>1, <2>2
<1>5. PayInv'
  BY <1>1, <1>2, <1>4, WorkerStep
<1>6. QED
  BY <1>1, <1>2, <1>5, CoachFacts

LEMMA PayLeaves ==
    ASSUME PayInv, NEW w \in Coaches, coach[w].pc # "idle",
           NEW s \in {"done", "failed"}, Leaves(w, s), paid' = paid,
           review' \in ReviewRun, doubted' \in BOOLEAN, upsets' \in 0..MaxUpsets
    PROVE  /\ PayInv' /\ coach'[w].pc = "idle" /\ JobsStay
           /\ \A v \in Coaches \ {w} : coach'[v] = coach[v]
           /\ \A q \in Requests : ask'[q].state # ask[q].state => ask'[q].state = s
<1>1. /\ Off \in Worker /\ coach' = [coach EXCEPT ![w] = Off]
      /\ SameJob(coach[w], Off) /\ Off.pc = "idle"
      /\ \A q \in Requests : Owes(Off, q) = 0
      /\ ask' \in [Requests -> Request] /\ JobsStay
      /\ \A q \in Requests : ask'[q].state # ask[q].state => ask'[q].state = s
  BY LeavesFacts DEF Off
<1>2. paid' \in [Requests -> Nat]
      /\ \A q \in Requests : paid'[q] + Owes(Off, q) <= paid[q] + Owes(coach[w], q)
  <2>1. \A q \in Requests : paid[q] \in Nat /\ Owes(coach[w], q) \in Nat
    BY CoachFacts DEF Owes
  <2>2. QED
    BY <1>1, <2>1, CoachFacts
<1>3. PayInv'
  BY <1>1, <1>2, WorkerStep
<1>4. QED
  BY <1>1, <1>3, CoachFacts

\* A worker that fails before the try, or whose failure is not recorded.
LEMMA LeavesFailed ==
    ASSUME CoachInv, NEW w \in Coaches, coach[w].pc # "idle", Leaves(w, "failed"),
           paid' = paid, review' = review, doubted' = doubted,
           upsets' \in 0..MaxUpsets
    PROVE  CoachInv'
<1>1. PayInv /\ ReviewInv /\ review' \in ReviewRun /\ doubted' \in BOOLEAN
  BY CoachFacts DEF CoachInv
<1>2. /\ PayInv' /\ coach'[w].pc = "idle" /\ JobsStay
      /\ \A v \in Coaches \ {w} : coach'[v] = coach[v]
      /\ \A q \in Requests : ask'[q].state # ask[q].state => ask'[q].state = "failed"
  BY <1>1, PayLeaves
<1>3. ReviewInv'
  <2>1. \A v \in Coaches : coach'[v].pc \in InTry => coach[v].pc \in InTry
    BY <1>2 DEF InTry
  <2>2. \A q \in Requests : ask'[q].state = "done" => ask[q].state = "done"
    BY <1>2
  <2>3. QED
    BY <1>1, <1>2, <2>1, <2>2, OldStays, ReviewStays
<1>4. QED
  BY <1>2, <1>3 DEF CoachInv

\* A worker goes on, not into the try.
LEMMA GoesOn ==
    ASSUME CoachInv, NEW w \in Coaches, coach[w].pc # "idle",
           NEW pc \in CoachPC \ {"idle"}, Goes(w, pc), ask' = ask,
           pc \in BeforeCall => coach[w].pc \in BeforeCall,
           pc \in InTry => coach[w].pc \in InTry,
           \/ paid' = paid
           \/ Pays(w) /\ coach[w].pc \in BeforeCall /\ pc \notin BeforeCall,
           review' = review, doubted' = doubted, upsets' \in 0..MaxUpsets
    PROVE  CoachInv'
<1>1. PayInv /\ ReviewInv /\ review' \in ReviewRun /\ doubted' \in BOOLEAN
  BY CoachFacts DEF CoachInv
<1>2. /\ PayInv' /\ coach'[w].pc = pc /\ JobsStay
      /\ \A v \in Coaches \ {w} : coach'[v] = coach[v]
  BY <1>1, PayGoes
<1>3. ReviewInv'
  BY <1>1, <1>2, OldStays, ReviewStays
<1>4. QED
  BY <1>2, <1>3 DEF CoachInv

LEMMA UpsetCounts == ASSUME PayInv, Upset PROVE upsets' \in 0..MaxUpsets
<1>1. upsets \in 0..MaxUpsets /\ MaxUpsets \in Nat
  BY CoachFacts, CoachAssumption
<1>2. QED
  BY <1>1 DEF Upset

LEMMA EvidenceInv ==
    ASSUME CoachInv, NEW w \in Coaches, Evidence(w) PROVE CoachInv'
<1>1. /\ PayInv /\ coach[w].pc = "evidence" /\ upsets' \in 0..MaxUpsets
      /\ paid' = paid /\ review' = review /\ doubted' = doubted
  BY CoachFacts DEF CoachInv, Evidence
<1>2. CASE Goes(w, "open") /\ ask' = ask
  BY <1>1, <1>2, GoesOn DEF CoachPC, BeforeCall, InTry
<1>3. CASE Leaves(w, "failed")
  BY <1>1, <1>3, LeavesFailed
<1>4. QED
  BY <1>2, <1>3 DEF Evidence

LEMMA CallInv ==
    ASSUME CoachInv, NEW w \in Coaches, Call(w) PROVE CoachInv'
<1>1. /\ PayInv /\ coach[w].pc = "call" /\ upsets' \in 0..MaxUpsets
      /\ ask' = ask /\ review' = review /\ doubted' = doubted
  BY CoachFacts DEF CoachInv, Call
<1>2. PICK pc \in {"fail", "complete"} : Goes(w, pc) /\ (paid' = paid \/ Pays(w))
  BY DEF Call, Blocked, Validated
<1>3. /\ pc \in CoachPC \ {"idle"} /\ pc \notin BeforeCall
      /\ coach[w].pc \in BeforeCall /\ coach[w].pc \in InTry
  BY <1>1 DEF CoachPC, BeforeCall, InTry
<1>4. QED
  BY <1>1, <1>2, <1>3, GoesOn

LEMMA StepFailsInv ==
    ASSUME CoachInv, NEW w \in Coaches, StepFails(w) PROVE CoachInv'
<1>1. /\ PayInv /\ coach[w].pc # "idle" /\ upsets' \in 0..MaxUpsets
      /\ paid' = paid /\ review' = review /\ doubted' = doubted
  BY UpsetCounts DEF CoachInv, StepFails
<1>2. CASE coach[w].pc = "complete"
  BY <1>1, <1>2, GoesOn DEF StepFails, CoachPC, BeforeCall, InTry
<1>3. CASE coach[w].pc # "complete"
  BY <1>1, <1>3, LeavesFailed DEF StepFails
<1>4. QED
  BY <1>2, <1>3

LEMMA MarkFailedInv ==
    ASSUME CoachInv, NEW w \in Coaches, MarkFailed(w) PROVE CoachInv'
<1>1. /\ PayInv /\ ReviewInv /\ coach[w].pc = "fail" /\ Leaves(w, "failed")
      /\ paid' = paid /\ doubted' = doubted /\ doubted' \in BOOLEAN
      /\ upsets' \in 0..MaxUpsets
  BY CoachFacts DEF CoachInv, MarkFailed
<1>2. review' \in ReviewRun /\ review'.status = "failed"
  BY <1>1, CoachFacts DEF MarkFailed, ReviewRun
<1>3. /\ PayInv' /\ coach'[w].pc = "idle" /\ JobsStay
      /\ \A v \in Coaches \ {w} : coach'[v] = coach[v]
      /\ \A q \in Requests : ask'[q].state # ask[q].state => ask'[q].state = "failed"
  BY <1>1, <1>2, PayLeaves
<1>4. coach[w].pc \in InTry /\ coach'[w].pc \notin InTry
  BY <1>1, <1>3 DEF InTry
<1>5. Simple => /\ \A v \in Coaches \ {w} : coach[v].pc \notin InTry
                /\ \A q \in Requests : ask'[q].state # "done"
  BY <1>1, <1>3, <1>4, AloneInTry
<1>6. ReviewInv'
  BY <1>1, <1>2, <1>3, <1>4, <1>5, OldStays, ReviewMoves
<1>7. QED
  BY <1>3, <1>6 DEF CoachInv

LEMMA OpenInv ==
    ASSUME CoachInv, NEW w \in Coaches, Open(w) PROVE CoachInv'
<1>1. /\ PayInv /\ ReviewInv /\ coach[w].pc = "open" /\ coach[w] \in Worker
      /\ paid' = paid /\ doubted' = doubted /\ upsets' = upsets
      /\ doubted' \in BOOLEAN /\ upsets' \in 0..MaxUpsets
  BY CoachFacts DEF CoachInv, Open
<1>2. CASE /\ \/ review.status \in {"none", "failed"}
              \/ review.status = "running" /\ Restarts(w)
           /\ review' = Opened /\ Goes(w, "call") /\ ask' = ask
  <2>1. review' \in ReviewRun /\ review'.status = "running"
    BY <1>2 DEF Opened, ReviewRun
  <2>2. /\ PayInv' /\ coach'[w].pc = "call" /\ JobsStay
        /\ \A v \in Coaches \ {w} : coach'[v] = coach[v]
    BY <1>1, <1>2, <2>1, PayGoes DEF CoachPC, BeforeCall
  <2>3. ASSUME Simple PROVE review.status \in {"none", "failed"}
    <3>1. PICK q \in Requests : /\ q = coach[w].job /\ ask[q].state # "none"
                               /\ coach[w].tries <= ask[q].tries
      BY <1>1, CoachFacts DEF AttachedOK
    <3>2. /\ ask[q].tries <= ask[q].limit /\ ask[q].limit = 1
          /\ ask[q].tries \in Nat /\ coach[w].tries \in Nat
      BY <1>1, <2>3, <3>1, CoachFacts DEF LimitOK, Simple, Request, Worker
    <3>3. ~(coach[w].tries > 1)
      BY <3>1, <3>2
    <3>4. QED
      BY <1>2, <3>3 DEF Restarts
  <2>4. Simple => /\ \A v \in Coaches \ {w} : coach[v].pc \notin InTry
                  /\ \A q \in Requests : ask'[q].state # "done"
    BY <1>1, <1>2, <2>3 DEF ReviewInv
  <2>5. Simple' => Simple
    BY <1>1, <2>2, OldStays
  <2>6. ReviewInv'
    BY <1>1, <2>1, <2>2, <2>4, <2>5, ReviewMoves
  <2>7. QED
    BY <2>2, <2>6 DEF CoachInv
<1>3. CASE Leaves(w, "failed") /\ review' = review
  BY <1>1, <1>3, LeavesFailed
<1>4. CASE Leaves(w, "done") /\ review.status = "succeeded" /\ review' = review
  <2>1. /\ PayInv' /\ coach'[w].pc = "idle" /\ JobsStay
        /\ \A v \in Coaches \ {w} : coach'[v] = coach[v]
    BY <1>1, <1>4, PayLeaves, CoachFacts
  <2>2. \A v \in Coaches : coach'[v].pc \in InTry => coach[v].pc \in InTry
    BY <2>1 DEF InTry
  <2>3. ReviewInv'
    BY <1>1, <1>4, <2>1, <2>2, OldStays, ReviewStays
  <2>4. QED
    BY <2>1, <2>3 DEF CoachInv
<1>5. QED
  BY <1>2, <1>3, <1>4 DEF Open

LEMMA ConcludeInv ==
    ASSUME CoachInv, NEW w \in Coaches, Conclude(w) PROVE CoachInv'
<1>1. /\ PayInv /\ ReviewInv /\ coach[w].pc = "complete" /\ coach[w].pc \in InTry
      /\ paid' = paid
  BY DEF CoachInv, Conclude, InTry
<1>2. CASE review' = Completed /\ Leaves(w, "done") /\ UNCHANGED <<doubted, upsets>>
  <2>1. /\ review' \in ReviewRun /\ review'.status = "succeeded" /\ review'.report
        /\ doubted' \in BOOLEAN /\ upsets' \in 0..MaxUpsets
    BY <1>1, <1>2, CoachFacts DEF Completed, ReviewRun
  <2>2. /\ PayInv' /\ coach'[w].pc = "idle" /\ JobsStay
        /\ \A v \in Coaches \ {w} : coach'[v] = coach[v]
    BY <1>1, <1>2, <2>1, PayLeaves
  <2>3. Simple => \A v \in Coaches \ {w} : coach[v].pc \notin InTry
    BY <1>1, AloneInTry
  <2>4. coach'[w].pc \notin InTry
    BY <2>2 DEF InTry
  <2>5. ReviewInv'
    BY <1>1, <1>2, <2>1, <2>2, <2>3, <2>4, OldStays, ReviewMoves
  <2>6. QED
    BY <2>2, <2>5 DEF CoachInv
<1>3. CASE review' = Completed /\ Goes(w, "fail") /\ doubted' = TRUE /\ Upset /\ ask' = ask
  <2>1. /\ review' \in ReviewRun /\ review'.report
        /\ doubted' \in BOOLEAN /\ upsets' \in 0..MaxUpsets
    BY <1>1, <1>3, UpsetCounts DEF Completed, ReviewRun
  <2>2. PayInv'
    BY <1>1, <1>3, <2>1, PayGoes DEF CoachPC, BeforeCall
  <2>3. ReviewInv'
    BY <1>3, <2>1 DEF ReviewInv, Simple
  <2>4. QED
    BY <2>2, <2>3 DEF CoachInv
<1>4. CASE Goes(w, "fail") /\ UNCHANGED <<ask, review, doubted, upsets>>
  <2>1. upsets' \in 0..MaxUpsets
    BY <1>1, <1>4, CoachFacts
  <2>2. QED
    BY <1>1, <1>4, <2>1, GoesOn DEF CoachPC, BeforeCall, InTry
<1>5. QED
  BY <1>2, <1>3, <1>4 DEF Conclude

LEMMA LeaseRunsOutInv ==
    ASSUME CoachInv, NEW w \in Coaches, LeaseRunsOut(w) PROVE CoachInv'
<1>1. /\ PayInv /\ ReviewInv /\ coach[w].pc # "idle" /\ coach[w] \in Worker
      /\ paid' = paid /\ review' = review /\ doubted' = doubted
      /\ review' \in ReviewRun /\ doubted' \in BOOLEAN /\ upsets' \in 0..MaxUpsets
  BY CoachFacts, UpsetCounts DEF CoachInv, LeaseRunsOut
<1>2. PICK q \in Requests : q = coach[w].job /\ ask[q].state # "none"
  BY <1>1, CoachFacts DEF AttachedOK
<1>3. PICK s \in {"queued", "failed"} :
         /\ ask' = [ask EXCEPT ![q].state = s]
         /\ s = "queued" => ask[q].tries < ask[q].limit
  <2> DEFINE s == IF ask[q].state = "running" /\ ask[q].tries < ask[q].limit
                  THEN "queued" ELSE "failed"
  <2>1. ask' = [ask EXCEPT ![q].state = s]
    BY <1>2 DEF LeaseRunsOut
  <2>2. s \in {"queued", "failed"} /\ (s = "queued" => ask[q].tries < ask[q].limit)
    OBVIOUS
  <2> HIDE DEF s
  <2>3. QED
    BY <2>1, <2>2
<1>4. /\ ask' \in [Requests -> Request]
      /\ \A p \in Requests :
            /\ ask'[p].tries = ask[p].tries /\ ask'[p].limit = ask[p].limit
            /\ ask'[p].old = ask[p].old
            /\ ask'[p].state = IF p = q THEN s ELSE ask[p].state
  <2>1. s \in States
    BY DEF States
  <2>2. QED
    BY <1>1, <1>3, <2>1, StateSet
<1>5. JobsStay
  BY <1>2, <1>3, <1>4 DEF JobsStay
<1>6. PICK c2 \in Worker :
         /\ coach' = [coach EXCEPT ![w] = c2] /\ SameJob(coach[w], c2)
         /\ c2.pc \in {"idle", coach[w].pc}
         /\ c2.pc = "idle" \/ c2.job = coach[w].job
  <2>1. CASE coach' = [coach EXCEPT ![w] = Off]
    <3>1. Off \in Worker /\ Off.pc = "idle" /\ SameJob(coach[w], Off)
      BY DEF Off, Worker, CoachPC, SameJob
    <3>2. QED
      BY <2>1, <3>1
  <2>2. CASE coach' = [coach EXCEPT ![w].lost = TRUE]
    <3> DEFINE c == [coach[w] EXCEPT !.lost = TRUE]
    <3>1. coach' = [coach EXCEPT ![w] = c]
      BY <2>2
    <3>2. /\ c \in Worker /\ c.pc = coach[w].pc /\ c.job = coach[w].job
          /\ c.tries = coach[w].tries
      BY <1>1 DEF Worker
    <3> HIDE DEF c
    <3>3. QED
      BY <1>1, <3>1, <3>2 DEF SameJob
  <2>3. QED
    BY <2>1, <2>2 DEF LeaseRunsOut
<1>7. \A p \in Requests : paid'[p] + Owes(c2, p) <= paid[p] + Owes(coach[w], p)
  <2> TAKE p \in Requests
  <2>1. Owes(c2, p) \in {0, 1} /\ Owes(coach[w], p) \in {0, 1} /\ paid[p] \in Nat
    BY <1>1, CoachFacts DEF Owes
  <2>2. Owes(c2, p) = 1 => Owes(coach[w], p) = 1
    BY <1>6 DEF Owes, BeforeCall
  <2>3. QED
    BY <1>1, <2>1, <2>2
<1>8. PayInv'
  BY <1>1, <1>4, <1>5, <1>6, <1>7, WorkerStep, CoachFacts
<1>9. ReviewInv'
  <2>0. Simple' => Simple
    BY <1>1, <1>5, OldStays
  <2>1. \A v \in Coaches : coach'[v].pc \in InTry => coach[v].pc \in InTry
    BY <1>1, <1>6, CoachFacts DEF InTry
  <2>2. \A p \in Requests : ask'[p].state = "done" => ask[p].state = "done"
    BY <1>3, <1>4
  <2>3. QED
    BY <1>1, <1>5, <2>1, <2>2, OldStays, ReviewStays
<1>10. QED
  BY <1>8, <1>9 DEF CoachInv

-----------------------------------------------------------------------------
LEMMA CoachInitInv == CoachInit => CoachInv
<1> SUFFICES ASSUME CoachInit PROVE CoachInv
  OBVIOUS
<1> DEFINE Old == [state |-> "queued", tries |-> 0, limit |-> OldAttempts, old |-> TRUE]
<1>1. /\ Unasked \in Request /\ Old \in Request /\ OldAttempts \in Nat \ {0}
      /\ Off \in Worker /\ Off.pc = "idle" /\ NoReview \in ReviewRun
      /\ NoReview.status = "none"
  BY CoachAssumption DEF Unasked, Request, States, Off, Worker, CoachPC, NoReview, ReviewRun
<1>2. /\ ask \in [Requests -> Request]
      /\ \A q \in Requests : ask[q] \in {Unasked, Old}
      /\ paid = [q \in Requests |-> 0] /\ coach = [w \in Coaches |-> Off]
      /\ review = NoReview /\ ~doubted /\ doubted \in BOOLEAN /\ upsets = 0
  BY <1>1 DEF CoachInit
<1>3. \A q \in Requests : LimitOK(q) /\ ask[q].tries = 0 /\ ask[q].state # "done"
  BY <1>1, <1>2 DEF LimitOK, Unasked
<1>4. CoachTypeOK
  <2>1. \A q \in Requests : ask[q].tries <= ask[q].limit
    BY <1>3 DEF LimitOK
  <2>2. QED
    BY <1>1, <1>2, <2>1, CoachAssumption
      DEF CoachTypeOK, Request, States, Worker, ReviewRun
<1>5. \A w \in Coaches : AttachedOK(w)
  BY <1>1, <1>2 DEF AttachedOK
<1>6. ASSUME NEW q \in Requests PROVE PaidOK(q)
  <2>1. Unpaid(q) = {}
    BY <1>1, <1>2 DEF Unpaid, BeforeCall
  <2>2. QED
    BY <1>2, <1>3, <2>1, FS_EmptySet DEF PaidOK
<1>7. ReviewInv
  BY <1>1, <1>2, <1>3 DEF ReviewInv, InTry
<1>8. QED
  BY <1>3, <1>4, <1>5, <1>6, <1>7 DEF CoachInv, PayInv

LEMMA NextInv == CoachInv /\ [CoachNext]_coachVars => CoachInv'
<1> SUFFICES ASSUME CoachInv, [CoachNext]_coachVars PROVE CoachInv'
  OBVIOUS
<1>1. CASE CoachNext
  BY <1>1, AskPruneInv, ClaimInv, EvidenceInv, OpenInv, CallInv, ConcludeInv,
     MarkFailedInv, StepFailsInv, LeaseRunsOutInv DEF CoachNext
<1>2. CASE UNCHANGED coachVars
  BY <1>2 DEF coachVars, CoachInv, PayInv, ReviewInv, CoachTypeOK, LimitOK, PaidOK,
     Unpaid, AttachedOK, Simple
<1>3. QED
  BY <1>1, <1>2

\* The inductive invariant of the reviews.
THEOREM CoachInvariance == CoachSpec => []CoachInv
  BY CoachInitInv, NextInv, PTL DEF CoachSpec

\* A request pays for one call of the model, an old job for one an attempt:
\* however often workers fail, die, or go on after their lease was taken over,
\* and however often the request is pruned and made again.
THEOREM OneCallPerRequest == CoachSpec => []PaidAsAsked
<1>1. CoachInv => PaidAsAsked
  <2> SUFFICES ASSUME CoachInv, NEW q \in Requests, ask[q].state # "none"
               PROVE  paid[q] <= IF ask[q].old THEN OldAttempts ELSE 1
    BY DEF PaidAsAsked
  <2>1. /\ PaidOK(q) /\ LimitOK(q) /\ ask[q] \in Request /\ paid[q] \in Nat
        /\ coach \in [Coaches -> Worker]
    BY CoachFacts DEF CoachInv
  <2>2. Cardinality(Unpaid(q)) \in Nat
    BY CoachAssumption, FS_Subset, FS_CardinalityType DEF Unpaid
  <2>3. /\ paid[q] + Cardinality(Unpaid(q)) <= ask[q].tries
        /\ ask[q].tries <= ask[q].limit /\ ask[q].tries \in Nat
        /\ ask[q].limit = IF ask[q].old THEN OldAttempts ELSE 1
    BY <2>1 DEF PaidOK, LimitOK, Request
  <2>4. ask[q].limit \in Nat
    BY <2>3, CoachAssumption
  <2>5. paid[q] <= ask[q].limit
    BY <2>1, <2>2, <2>3, <2>4
  <2>6. QED
    BY <2>3, <2>5
<1>2. QED
  BY <1>1, CoachInvariance, PTL

\* A succeeded run has its report, and a job that ended well still finds it,
\* whatever the workers of other requests do to the row they share.
THEOREM ReportsStay == CoachSpec => []ReportsAreKept
<1>1. CoachInv => ReportsAreKept
  BY DEF CoachInv, ReviewInv, ReportsAreKept, Simple
<1>2. QED
  BY <1>1, CoachInvariance, PTL
=============================================================================
