---------------------------- MODULE CoachReviews ----------------------------
(***************************************************************************)
(* One review of a replay by the coach: the requests that members make for *)
(* it, the jobs they become, and the row of coach_analysis_runs that all   *)
(* of them share, because their inputs have one digest                     *)
(* (CoachRequestService.request, enqueue_coach_analysis,                   *)
(* JobExecutor._coach_analyze_replay, CoachService.analyze,                *)
(* CoachRepository, OpenAIResponsesCoachAnalyzer.analyze).                 *)
(*                                                                         *)
(* Two requests are two jobs when what they say differs and what the model *)
(* is given does not, as when the generation of the analyzer is raised.    *)
(* Left out: what is in the evidence, the findings and the report.         *)
(***************************************************************************)
EXTENDS Naturals, FiniteSets

CONSTANTS
    Requests,       \* idempotency keys of jobs coach.analyze_replay
    Coaches,        \* workers
    OldAttempts,    \* attempts of a job from before the bounded reviews
    MaxUpsets       \* bound on errors, lost answers, crashes

ASSUME CoachAssumption ==
    /\ IsFiniteSet(Requests) /\ IsFiniteSet(Coaches)
    /\ "none" \notin Requests
    /\ OldAttempts \in Nat \ {0} /\ MaxUpsets \in Nat

VARIABLES
    ask,            \* the job of each request
    paid,           \* model calls made for it
    review,         \* the row of coach_analysis_runs, with its report
    coach,          \* what each worker does
    doubted,        \* the answer of a commit was lost
    upsets

coachVars == <<ask, paid, review, coach, doubted, upsets>>

Unasked == [state |-> "none", tries |-> 0, limit |-> 1, old |-> FALSE]
NoReview == [status |-> "none", report |-> FALSE]
CoachPC == {"idle", "evidence", "open", "call", "complete", "fail"}
Off == [pc |-> "idle", job |-> "none", tries |-> 0, lost |-> FALSE]

Upset == upsets < MaxUpsets /\ upsets' = upsets + 1

CoachTypeOK ==
    /\ ask \in [Requests -> [state : {"none", "queued", "running", "done", "failed"},
                             tries : Nat, limit : {1, OldAttempts},
                             old : BOOLEAN]]
    /\ \A q \in Requests : ask[q].tries <= ask[q].limit
    /\ paid \in [Requests -> Nat]
    /\ review \in [status : {"none", "running", "succeeded", "failed"},
                   report : BOOLEAN]
    /\ coach \in [Coaches -> [pc : CoachPC, job : Requests \cup {"none"},
                              tries : Nat, lost : BOOLEAN]]
    /\ \A w \in Coaches : coach[w].pc # "idle" => coach[w].job \in Requests
    /\ doubted \in BOOLEAN /\ upsets \in 0..MaxUpsets

\* A job of an old request may be waiting.
CoachInit ==
    /\ ask \in [Requests -> {Unasked, [state |-> "queued", tries |-> 0,
                                       limit |-> OldAttempts, old |-> TRUE]}]
    /\ paid = [q \in Requests |-> 0]
    /\ review = NoReview
    /\ coach = [w \in Coaches |-> Off]
    /\ doubted = FALSE /\ upsets = 0

-----------------------------------------------------------------------------
\* Mutant: the default number of attempts.
AttemptsByDefault == OldAttempts
\* max_attempts of enqueue_coach_analysis
AttemptsOf == 1

\* CoachRequestService.request: a key that is there adds no job.
Ask(q) ==
    /\ ask[q].state = "none"
    /\ ask' = [ask EXCEPT ![q] = [state |-> "queued", tries |-> 0,
                                  limit |-> AttemptsOf, old |-> FALSE]]
    /\ paid' = [paid EXCEPT ![q] = 0]
    /\ UNCHANGED <<review, coach, doubted, upsets>>

\* A decided job is pruned thirty days later; no worker is at it that long.
\* The old ones are kept, to be told apart.
Prune(q) ==
    /\ ask[q].state \in {"done", "failed"} /\ ~ask[q].old
    /\ \A w \in Coaches : coach[w].job # q
    /\ ask' = [ask EXCEPT ![q] = Unasked]
    /\ UNCHANGED <<paid, review, coach, doubted, upsets>>

Claim(w, q) ==
    /\ coach[w] = Off /\ ask[q].state = "queued"
    /\ ask' = [ask EXCEPT ![q].state = "running", ![q].tries = @ + 1]
    /\ coach' = [coach EXCEPT ![w] = [pc |-> "evidence", job |-> q,
                                      tries |-> ask[q].tries + 1, lost |-> FALSE]]
    /\ UNCHANGED <<paid, review, doubted, upsets>>

Goes(w, pc) == coach' = [coach EXCEPT ![w].pc = pc]

\* Every error of the job is permanent; the outcome of a worker whose lease
\* was taken over is refused.
Leaves(w, state) ==
    /\ coach' = [coach EXCEPT ![w] = Off]
    /\ ask' = IF coach[w].lost THEN ask
              ELSE [ask EXCEPT ![coach[w].job].state = state]

\* _evidence_package and the grounding checks: evidence of another member,
\* no such snapshot or deck, unresolved cards, no rules of the date.
Evidence(w) ==
    /\ coach[w].pc = "evidence"
    /\ (Goes(w, "open") /\ UNCHANGED ask) \/ Leaves(w, "failed")
    /\ UNCHANGED <<paid, review, doubted, upsets>>

\* Mutant: a run under way is always begun again.
RestartsAlways(w) == TRUE
\* restart_running: the attempt before this one died with the run under way.
Restarts(w) == coach[w].tries > 1

Opened == [status |-> "running", report |-> FALSE]
Completed == [status |-> "succeeded", report |-> TRUE]

\* One transaction under the advisory lock of the run's key.
Open(w) ==
    /\ coach[w].pc = "open"
    /\ \/ /\ \/ review.status \in {"none", "failed"}
             \/ review.status = "running" /\ Restarts(w)
          /\ review' = Opened
          /\ Goes(w, "call") /\ UNCHANGED ask
       \/ /\ review.status = "running" /\ ~Restarts(w)
          /\ Leaves(w, "failed") /\ UNCHANGED review     \* already running
       \/ /\ review.status = "succeeded"
          /\ Leaves(w, IF review.report THEN "done" ELSE "failed")
          /\ UNCHANGED review                            \* cached
    /\ UNCHANGED <<paid, doubted, upsets>>

\* The analyzer: blocked before the call, which is free; or called once, and
\* the call or its answer refused, or the answer accepted.
Blocked(w) == Goes(w, "fail") /\ UNCHANGED paid
Pays(w) == paid' = [paid EXCEPT ![coach[w].job] = @ + 1]
Validated(w) == Goes(w, "fail") \/ Goes(w, "complete")

Call(w) ==
    /\ coach[w].pc = "call"
    /\ Blocked(w) \/ (Pays(w) /\ Validated(w))
    /\ UNCHANGED <<ask, review, doubted, upsets>>

\* Findings, report and status in one transaction.  A report that is there
\* violates the unique key.  A commit whose answer is lost looks failed.
Conclude(w) ==
    /\ coach[w].pc = "complete"
    /\ \/ /\ ~review.report
          /\ review' = Completed
          /\ \/ Leaves(w, "done") /\ UNCHANGED <<doubted, upsets>>
             \/ Goes(w, "fail") /\ doubted' = TRUE /\ Upset /\ UNCHANGED ask
       \/ /\ review.report
          /\ Goes(w, "fail") /\ UNCHANGED <<ask, review, doubted, upsets>>
    /\ UNCHANGED paid

\* mark_failed looks at nothing but the id of the run.
MarkFailed(w) ==
    /\ coach[w].pc = "fail"
    /\ review' = [review EXCEPT !.status = "failed"]
    /\ Leaves(w, "failed")
    /\ UNCHANGED <<paid, doubted, upsets>>

\* The statement of a step fails.  One inside the try is recorded; one
\* before it or of mark_failed itself leaves the run as it is.
StepFails(w) ==
    /\ coach[w].pc \in {"evidence", "open", "complete", "fail"}
    /\ Upset
    /\ IF coach[w].pc = "complete" THEN Goes(w, "fail") /\ UNCHANGED ask
       ELSE Leaves(w, "failed")
    /\ UNCHANGED <<paid, review, doubted>>

\* The lease runs out: the worker died, or goes on without knowing.  A job
\* without another attempt has failed.
LeaseRunsOut(w) ==
    /\ coach[w].pc # "idle" /\ ~coach[w].lost
    /\ Upset
    /\ ask' = [ask EXCEPT ![coach[w].job].state =
                 IF @ = "running" /\ ask[coach[w].job].tries < ask[coach[w].job].limit
                 THEN "queued" ELSE "failed"]
    /\ coach' \in {[coach EXCEPT ![w] = Off], [coach EXCEPT ![w].lost = TRUE]}
    /\ UNCHANGED <<paid, review, doubted>>

CoachNext ==
    \/ \E q \in Requests : Ask(q) \/ Prune(q) \/ \E w \in Coaches : Claim(w, q)
    \/ \E w \in Coaches :
          \/ Evidence(w) \/ Open(w) \/ Call(w) \/ Conclude(w)
          \/ MarkFailed(w) \/ StepFails(w) \/ LeaseRunsOut(w)

-----------------------------------------------------------------------------
(* "New coaching jobs have one attempt ... automatic error retries do not  *)
(* repeatedly spend money" (docs/BOUNDED_COACH_REVIEWS.md:17): no request  *)
(* pays for more than one call of the model, whatever fails and whoever    *)
(* takes a lease over.  An old job pays for one call an attempt.           *)
PaidAsAsked ==
    \A q \in Requests :
        ask[q].state # "none" =>
            paid[q] <= IF ask[q].old THEN OldAttempts ELSE 1

(* A succeeded run has its report ("Succeeded Coach run is missing its     *)
(* report" is an error of analyze), and the review a member was answered   *)
(* with stays the one that latest_report_for_game finds, whatever other    *)
(* requests and workers without a lease do to the run they share.  Two     *)
(* cases are left out, because there it does not hold: two attempts of an  *)
(* old job may overlap, and the later one marks the run failed that the    *)
(* earlier one completed; and a commit whose answer is lost is marked      *)
(* failed too.                                                             *)
ReportsAreKept ==
    /\ review.status = "succeeded" => review.report
    /\ ~doubted /\ (\A q \in Requests : ~ask[q].old) =>
          \A q \in Requests :
              ask[q].state = "done" => review.status = "succeeded"
=============================================================================
