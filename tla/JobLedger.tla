----------------------------- MODULE JobLedger -----------------------------
(***************************************************************************)
(* What the durable job queue promises, without leases, tokens or clocks.  *)
(*                                                                         *)
(* Every job has an account: the phase it is in, how many attempts have    *)
(* been started, how many it may have, and its result.  An account moves   *)
(* only along Moves below, so a job is started at most budget times, it is *)
(* finished at most once, its result never changes, and the only thing     *)
(* that may still happen to a finished job is that it is forgotten.        *)
(***************************************************************************)
EXTENDS Naturals

CONSTANTS
    JobId,          \* identifiers of the jobs
    AttemptCap      \* largest attempt budget a job is given

VARIABLE account

Phase == {"absent", "waiting", "active", "finished", "forgotten"}
Result == {"none", "succeeded", "failed"}

Account == [phase : Phase, started : 0..AttemptCap,
            budget : 1..AttemptCap, result : Result]

Entry(phase, started, budget, result) ==
    [phase |-> phase, started |-> started, budget |-> budget,
     result |-> result]

Unopened == Entry("absent", 0, 1, "none")

(***************************************************************************)
(* The moves of one account from a to b.                                   *)
(***************************************************************************)
Opens(a, b) ==
    /\ a.phase = "absent"
    /\ \E n \in 1..AttemptCap :
          b = Entry("waiting", 0, n, "none")

\* A first attempt, a retry, or a new attempt in place of an abandoned one.
Starts(a, b) ==
    /\ a.phase \in {"waiting", "active"}
    /\ a.started < a.budget
    /\ b = Entry("active", a.started + 1, a.budget, "none")

BacksOff(a, b) ==
    /\ a.phase = "active"
    /\ a.started < a.budget
    /\ b = Entry("waiting", a.started, a.budget, "none")

Finishes(a, b) ==
    /\ a.phase = "active"
    /\ \E r \in {"succeeded", "failed"} :
          b = Entry("finished", a.started, a.budget, r)

Forgets(a, b) ==
    /\ a.phase = "finished"
    /\ b = Entry("forgotten", 0, 1, "none")

Moves(a, b) ==
    Opens(a, b) \/ Starts(a, b) \/ BacksOff(a, b)
        \/ Finishes(a, b) \/ Forgets(a, b)

Init == account = [j \in JobId |-> Unopened]

\* One transaction of the queue may move several accounts.
Next ==
    /\ account' \in [JobId -> Account]
    /\ \A j \in JobId :
          account'[j] = account[j] \/ Moves(account[j], account'[j])

Spec == Init /\ [][Next]_account
=============================================================================
