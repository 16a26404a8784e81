---------------------------- MODULE PlayHubProofs ----------------------------
(***************************************************************************)
(* What the imports of an event leave behind, for any number of workers,   *)
(* jobs, rounds, attempts and faults: an event that says it is being       *)
(* imported is, or was left behind by an import that nothing repeats; and  *)
(* one that the sweep is done with, and that was not left behind, holds    *)
(* its final results.                                                      *)
(***************************************************************************)
EXTENDS PlayHubImport, TLAPS

\* Imports and jobs belong together: a job that is held is running, in one
\* importer's hands, and one that is queued has an attempt left.
HoldOK(p) ==
    LET i == imports[p]
    IN  /\ i.pc = "idle" => i = Idle
        /\ i.job # NoJob =>
              /\ jobs[i.job].status = "running"
              /\ \A q \in Importer : imports[q].job = i.job => q = p

HoldInv ==
    /\ \A p \in Importer : HoldOK(p)
    /\ \A j \in Job : jobs[j].status = "queued" => jobs[j].count < MaxAttempts

\* An import past its page, or one whose failure brings its job back, or the
\* job itself, waiting.
WorkInv ==
    sync.state = "syncing" =>
        \/ \E p \in Importer : AtWork(p)
        \/ \E j \in Job : jobs[j].status = "queued"
        \/ lost

\* Once the last import is due, the tournament is over, and so it was for
\* every import under way.
ClockInv ==
    /\ sync.attempt.phase <= phase
    /\ event # Unknown => sync.state # "absent"
    /\ \A p \in Importer : imports[p].observed.phase <= phase
    /\ phase >= After => source = Final
    /\ phase >= After => \A p \in Importer : imports[p].pc # "idle" => imports[p].page = Final

\* What an import that began this late has stored is final.
FinalOK(p) ==
    LET i == imports[p]
    IN  i.pc # "idle" /\ i.observed.phase >= After =>
          /\ i.missed \/ \A r \in Round : r < i.round => results[r] = ResultsOf(r, Final)
          /\ i.pc = "asking" /\ Rounds # 0 => standings = Final
FinalInv ==
    /\ \A p \in Importer : FinalOK(p)
    /\ sync.state = "complete" /\ sync.attempt.phase >= After => UpToDate

ImportInv == TypeOK /\ HoldInv /\ WorkInv /\ ClockInv /\ FinalInv

-----------------------------------------------------------------------------
LEMMA Bounds ==
    /\ Rounds \in Nat /\ MaxFaults \in Nat /\ MaxManual \in Nat
    /\ MaxAttempts \in Nat /\ 0 < MaxAttempts
    /\ LastPhase \in Nat /\ LastPhase >= After
    /\ Final \in Stage /\ Final \in Nat
  BY BoundAssumption, AttemptAssumption, ClockAssumption DEF After, Past, Final, Stage

LEMMA TypeFacts ==
    ASSUME TypeOK
    PROVE  /\ phase \in 0..LastPhase /\ phase \in Nat /\ source \in Stage /\ source \in Nat
           /\ event \in Stage \cup {Unknown} /\ sync \in Sync
           /\ results \in [Round -> 0..2] /\ standings \in Stage
           /\ jobs \in [Job -> JobRow] /\ imports \in [Importer -> Import]
           /\ used \in [faults : 0..MaxFaults, manual : 0..MaxManual]
           /\ lost \in BOOLEAN
<1>1. phase \in 0..LastPhase /\ source \in Stage
  BY DEF TypeOK, Before
<1>2. used \in [faults : 0..MaxFaults, manual : 0..MaxManual]
  BY DEF TypeOK
<1>3. source \in Nat
  BY <1>1, Bounds DEF Stage
<1>4. QED
  BY <1>1, <1>2, <1>3, Bounds DEF TypeOK

LEMMA SyncFacts ==
    ASSUME TypeOK
    PROVE  /\ sync.state \in SyncState /\ sync.attempt \in Instant
           /\ sync.attempt.phase \in Nat
<1>1. sync.state \in SyncState /\ sync.attempt \in Instant
  BY TypeFacts DEF Sync
<1>2. sync.attempt.phase \in 0..LastPhase
  BY <1>1 DEF Instant, Before
<1>3. QED
  BY <1>1, <1>2, Bounds

LEMMA RowFacts ==
    ASSUME TypeOK, NEW p \in Importer
    PROVE  /\ imports[p] \in Import
           /\ imports[p].pc \in Control /\ imports[p].job \in Job \cup {NoJob}
           /\ imports[p].observed \in Instant /\ imports[p].observed.phase \in Nat
           /\ imports[p].page \in Stage /\ imports[p].page \in Nat
           /\ imports[p].round \in 1..(Rounds + 1) /\ imports[p].missed \in BOOLEAN
<1>1. imports[p] \in Import
  BY TypeFacts
<1>2. /\ imports[p].pc \in Control /\ imports[p].job \in Job \cup {NoJob}
      /\ imports[p].observed \in Instant /\ imports[p].page \in Stage
      /\ imports[p].round \in 1..(Rounds + 1) /\ imports[p].missed \in BOOLEAN
  BY <1>1 DEF Import
<1>3. imports[p].observed.phase \in 0..LastPhase
  BY <1>2 DEF Instant, Before
<1>4. imports[p].page \in Nat
  BY <1>2, Bounds DEF Stage
<1>5. QED
  BY <1>1, <1>2, <1>3, <1>4, Bounds

LEMMA JobFacts ==
    ASSUME TypeOK, NEW j \in Job
    PROVE  jobs[j] \in JobRow /\ jobs[j].count \in Nat
<1>1. jobs[j] \in JobRow
  BY TypeFacts
<1>2. jobs[j].count \in 0..MaxAttempts
  BY <1>1 DEF JobRow
<1>3. QED
  BY <1>1, <1>2, Bounds

LEMMA UseFacts ==
    ASSUME TypeOK, Use("faults", MaxFaults) \/ Use("manual", MaxManual) \/ UNCHANGED used
    PROVE  used' \in [faults : 0..MaxFaults, manual : 0..MaxManual]
<1>1. /\ used \in [faults : 0..MaxFaults, manual : 0..MaxManual]
      /\ used.faults \in 0..MaxFaults /\ used.manual \in 0..MaxManual
  BY TypeFacts
<1>2. CASE Use("faults", MaxFaults)
  <2>1. PICK n \in 0..MaxFaults : n = used.faults + 1
    BY <1>1, <1>2, Bounds DEF Use
  <2>2. used' = [used EXCEPT !.faults = n]
    BY <1>2, <2>1 DEF Use
  <2>3. QED
    BY <1>1, <2>2
<1>3. CASE Use("manual", MaxManual)
  <2>1. PICK n \in 0..MaxManual : n = used.manual + 1
    BY <1>1, <1>3, Bounds DEF Use
  <2>2. used' = [used EXCEPT !.manual = n]
    BY <1>3, <2>1 DEF Use
  <2>3. QED
    BY <1>1, <2>2
<1>4. QED
  BY <1>1, <1>2, <1>3

-----------------------------------------------------------------------------
(***************************************************************************)
(* What is left to show of a step of one importer, for each part of the    *)
(* invariant.                                                              *)
(***************************************************************************)
LEMMA HoldSide ==
    ASSUME TypeOK, HoldInv, NEW p \in Importer, NEW c2 \in Import,
           imports' = [imports EXCEPT ![p] = c2],
           \A k \in Job : \/ jobs'[k] = jobs[k]
                          \/ k = imports[p].job
                          \/ jobs[k].status # "running",
           c2.pc = "idle" => c2 = Idle,
           c2.job # NoJob =>
              /\ c2.job = imports[p].job \/ jobs[c2.job].status # "running"
              /\ jobs'[c2.job].status = "running",
           \A k \in Job : jobs'[k].status = "queued" => jobs'[k].count < MaxAttempts
    PROVE  HoldInv'
<1>1. imports'[p] = c2 /\ \A q \in Importer \ {p} : imports'[q] = imports[q]
  BY TypeFacts
<1>2. ASSUME NEW q \in Importer \ {p}, imports[q].job # NoJob
      PROVE  /\ imports[q].job \in Job /\ imports[q].job # imports[p].job
             /\ jobs[imports[q].job].status = "running"
             /\ jobs'[imports[q].job] = jobs[imports[q].job]
             /\ imports[q].job # c2.job
  <2>1. HoldOK(q)
    BY DEF HoldInv
  <2>2. imports[q].job \in Job /\ jobs[imports[q].job].status = "running"
    BY <1>2, <2>1, RowFacts DEF HoldOK
  <2>3. imports[q].job # imports[p].job
    BY <1>2, <2>1 DEF HoldOK
  <2>4. QED
    BY <1>2, <2>2, <2>3
<1>3. ASSUME NEW q \in Importer PROVE HoldOK(q)'
  <2>1. CASE q = p
    BY <1>1, <1>2, <2>1 DEF HoldOK
  <2>2. CASE q # p
    <3>1. HoldOK(q) /\ imports'[q] = imports[q]
      BY <1>1, <2>2 DEF HoldInv
    <3>2. CASE imports[q].job = NoJob
      BY <3>1, <3>2 DEF HoldOK
    <3>3. CASE imports[q].job # NoJob
      <4>1. PICK j \in Job :
               /\ j = imports[q].job /\ jobs[j].status = "running" /\ jobs'[j] = jobs[j]
               /\ j # c2.job
        BY <1>2, <2>2, <3>3
      <4>2. /\ \A u \in Importer : imports[u].job = j => u = q
            /\ imports[q].pc = "idle" => imports[q] = Idle
        BY <3>1, <3>3, <4>1 DEF HoldOK
      <4>3. \A u \in Importer : imports'[u].job = j => u = q
        BY <1>1, <4>1, <4>2
      <4>4. QED
        BY <3>1, <4>1, <4>2, <4>3 DEF HoldOK
    <3>4. QED
      BY <3>2, <3>3
  <2>3. QED
    BY <2>1, <2>2
<1>4. QED
  BY <1>3 DEF HoldInv

LEMMA WorkSide ==
    ASSUME TypeOK, WorkInv, NEW p \in Importer, NEW c2 \in Import,
           imports' = [imports EXCEPT ![p] = c2],
           sync'.state = "syncing" => sync.state = "syncing" \/ AtWork(p)',
           AtWork(p) /\ sync'.state = "syncing" =>
              AtWork(p)' \/ lost' \/ \E j \in Job : jobs'[j].status = "queued",
           \A j \in Job : jobs[j].status = "queued" =>
                             jobs'[j].status = "queued" \/ AtWork(p)' \/ lost',
           lost /\ sync'.state = "syncing" => lost' \/ AtWork(p)'
    PROVE  WorkInv'
<1>1. \A q \in Importer \ {p} : AtWork(q) => AtWork(q)'
  BY TypeFacts DEF AtWork
<1>2. SUFFICES ASSUME sync'.state = "syncing", ~AtWork(p)', ~lost'
               PROVE  \/ \E q \in Importer : AtWork(q)'
                      \/ \E j \in Job : jobs'[j].status = "queued"
  BY DEF WorkInv
<1>3. \/ \E q \in Importer : AtWork(q)
      \/ \E j \in Job : jobs[j].status = "queued"
  BY <1>2 DEF WorkInv
<1>4. QED
  BY <1>1, <1>2, <1>3

LEMMA ClockSide ==
    ASSUME TypeOK, ClockInv, NEW p \in Importer, NEW c2 \in Import,
           imports' = [imports EXCEPT ![p] = c2],
           phase' = phase, source' = source,
           sync'.attempt.phase <= phase, event' # Unknown => sync'.state # "absent",
           c2.observed.phase <= phase,
           phase >= After /\ c2.pc # "idle" => c2.page = Final
    PROVE  ClockInv'
<1>1. imports'[p] = c2 /\ \A q \in Importer \ {p} : imports'[q] = imports[q]
  BY TypeFacts
<1>2. QED
  BY <1>1 DEF ClockInv

LEMMA FinalSide ==
    ASSUME TypeOK, ClockInv, FinalInv, ClockInv', TypeOK',
           NEW p \in Importer, NEW c2 \in Import,
           imports' = [imports EXCEPT ![p] = c2], phase' = phase,
           phase >= After =>
              /\ \A r \in Round : results[r] = ResultsOf(r, Final) =>
                                     results'[r] = ResultsOf(r, Final)
              /\ standings = Final => standings' = Final
              /\ FinalOK(p)'
              /\ sync'.state = "complete" /\ sync'.attempt.phase >= After =>
                    UpToDate' \/ (sync.state = "complete" /\ sync.attempt.phase >= After)
    PROVE  FinalInv'
<1>1. imports'[p] = c2 /\ \A q \in Importer \ {p} : imports'[q] = imports[q]
  BY TypeFacts
<1>2. phase \in Nat /\ After \in Nat
  BY TypeFacts DEF After
<1>3. CASE phase >= After
  <2>1. ASSUME NEW q \in Importer PROVE FinalOK(q)'
    <3>1. CASE q = p
      BY <1>3, <3>1
    <3>2. CASE q # p
      <4>1. FinalOK(q) /\ imports'[q] = imports[q]
        BY <1>1, <3>2 DEF FinalInv
      <4>2. QED
        BY <1>3, <4>1 DEF FinalOK
    <3>3. QED
      BY <3>1, <3>2
  <2>2. UpToDate => UpToDate'
    BY <1>3 DEF UpToDate, StandingsOf
  <2>3. QED
    BY <1>3, <2>1, <2>2 DEF FinalInv
<1>4. CASE ~(phase >= After)
  <2>1. ~(sync'.attempt.phase >= After)
    <3>1. sync'.attempt.phase <= phase
      BY DEF ClockInv
    <3>2. sync' \in Sync
      BY DEF TypeOK
    <3>3. sync'.attempt.phase \in 0..LastPhase
      BY <3>2 DEF Sync, Instant, Before
    <3>4. QED
      BY <1>2, <1>4, <3>1, <3>3, Bounds
  <2>2. ASSUME NEW q \in Importer PROVE ~(imports'[q].observed.phase >= After)
    <3>1. imports'[q].observed.phase <= phase
      BY DEF ClockInv
    <3>2. imports'[q] \in Import
      BY DEF TypeOK
    <3>3. imports'[q].observed.phase \in 0..LastPhase
      BY <3>2 DEF Import, Instant, Before
    <3>4. QED
      BY <1>2, <1>4, <3>1, <3>3, Bounds
  <2>3. QED
    BY <2>1, <2>2 DEF FinalInv, FinalOK
<1>5. QED
  BY <1>3, <1>4

-----------------------------------------------------------------------------
(***************************************************************************)
(* Imports that end.                                                       *)
(***************************************************************************)
LEMMA IdleRow ==
    /\ Idle \in Import /\ Idle.pc = "idle" /\ Idle.job = NoJob
    /\ Idle.observed.phase = 0 /\ Never \in Instant
<1>1. 0 \in Stage /\ 1 \in 1..(Rounds + 1) /\ 0 \in Before..LastPhase
  BY Bounds DEF Stage, Before
<1>2. Never \in Instant
  BY <1>1 DEF Never, Instant, Before
<1>3. "idle" \in Control
  BY DEF Control
<1>4. QED
  BY <1>1, <1>2, <1>3 DEF Idle, Import, Never, Before

\* An attempt that failed leaves its job queued again, or, if it was the last
\* one, nothing.
LEMMA RetriedFacts ==
    ASSUME TypeOK, NEW p \in Importer, jobs' = Retried(p)
    PROVE  /\ jobs' \in [Job -> JobRow]
           /\ imports[p].job = NoJob => jobs' = jobs
           /\ imports[p].job # NoJob =>
                 /\ LastTry(p) => jobs'[imports[p].job].status = "none"
                 /\ ~LastTry(p) =>
                       /\ jobs'[imports[p].job].status = "queued"
                       /\ jobs'[imports[p].job].count < MaxAttempts
           /\ \A k \in Job : k # imports[p].job => jobs'[k] = jobs[k]
<1>1. CASE imports[p].job = NoJob
  BY <1>1, TypeFacts DEF Retried
<1>2. CASE imports[p].job # NoJob
  <2>1. PICK j \in Job : j = imports[p].job
    BY <1>2, RowFacts
  <2>2. PICK row : row = IF jobs[j].count < MaxAttempts
                         THEN [jobs[j] EXCEPT !.status = "queued"] ELSE NoRow
    OBVIOUS
  <2>3. jobs' = [jobs EXCEPT ![j] = row]
    BY <1>2, <2>1, <2>2 DEF Retried
  <2>4. LastTry(p) <=> ~(jobs[j].count < MaxAttempts)
    BY <1>2, <2>1, JobFacts, Bounds DEF LastTry
  <2>5. /\ row \in JobRow
        /\ LastTry(p) => row.status = "none"
        /\ ~LastTry(p) => row.status = "queued" /\ row.count < MaxAttempts
    <3>1. CASE LastTry(p)
      BY <2>2, <2>4, <3>1, Bounds DEF NoRow, JobRow
    <3>2. CASE ~LastTry(p)
      BY <2>2, <2>4, <3>2, JobFacts DEF JobRow
    <3>3. QED
      BY <3>1, <3>2
  <2>6. QED
    BY <1>2, <2>1, <2>3, <2>5, TypeFacts
<1>3. QED
  BY <1>1, <1>2

LEMMA RetriedHold ==
    ASSUME ImportInv, NEW p \in Importer, NEW c2 \in Import,
           imports' = [imports EXCEPT ![p] = c2],
           c2.job = NoJob, c2.pc = "idle" => c2 = Idle, jobs' = Retried(p)
    PROVE  /\ HoldInv'
           /\ jobs' \in [Job -> JobRow]
           /\ ~LastTry(p) =>
                 imports[p].job \in Job /\ jobs'[imports[p].job].status = "queued"
           /\ \A k \in Job : jobs[k].status = "queued" => jobs'[k].status = "queued"
<1>1. TypeOK /\ HoldInv
  BY DEF ImportInv
<1>2. /\ jobs' \in [Job -> JobRow]
      /\ imports[p].job = NoJob => jobs' = jobs
      /\ imports[p].job # NoJob =>
            /\ LastTry(p) => jobs'[imports[p].job].status = "none"
            /\ ~LastTry(p) =>
                  /\ jobs'[imports[p].job].status = "queued"
                  /\ jobs'[imports[p].job].count < MaxAttempts
      /\ \A k \in Job : k # imports[p].job => jobs'[k] = jobs[k]
  BY <1>1, RetriedFacts
<1>3. ASSUME NEW k \in Job, jobs'[k].status = "queued" PROVE jobs'[k].count < MaxAttempts
  <2>1. CASE k = imports[p].job
    BY <1>2, <1>3, <2>1, NoJobAssumption
  <2>2. CASE k # imports[p].job
    BY <1>1, <1>2, <1>3, <2>2 DEF HoldInv
  <2>3. QED
    BY <2>1, <2>2
<1>4. HoldInv'
  BY <1>1, <1>2, <1>3, HoldSide
<1>5. ~LastTry(p) => imports[p].job \in Job /\ imports[p].job # NoJob
  BY <1>1, RowFacts DEF LastTry
<1>6. ASSUME NEW k \in Job, jobs[k].status = "queued" PROVE jobs'[k].status = "queued"
  <2>1. HoldOK(p)
    BY <1>1 DEF HoldInv
  <2>2. k # imports[p].job
    BY <1>6, <2>1, NoJobAssumption DEF HoldOK
  <2>3. QED
    BY <1>2, <1>6, <2>2
<1>7. QED
  BY <1>2, <1>4, <1>5, <1>6

\* What the end of an import does to the tables.
LEMMA IdleTables ==
    ASSUME ImportInv, TypeOK', NEW p \in Importer,
           imports' = [imports EXCEPT ![p] = Idle],
           UNCHANGED <<phase, source, event, results, standings>>,
           \/ sync' = sync
           \/ /\ sync'.attempt = imports[p].observed /\ sync'.state # "absent"
              /\ sync'.state = "complete" /\ imports[p].observed.phase >= After => UpToDate
    PROVE  ClockInv' /\ FinalInv'
<1>1. TypeOK /\ ClockInv /\ FinalInv /\ phase' = phase /\ source' = source
      /\ event' = event /\ results' = results /\ standings' = standings
  BY DEF ImportInv
<1>2. sync'.attempt.phase <= phase /\ (event' # Unknown => sync'.state # "absent")
  BY <1>1 DEF ClockInv
<1>3. Idle \in Import /\ Idle.pc = "idle" /\ Idle.observed.phase <= phase
  BY <1>1, IdleRow, TypeFacts
<1>4. ClockInv'
  BY <1>1, <1>2, <1>3, ClockSide
<1>5. imports'[p] = Idle
  BY <1>1, TypeFacts
<1>6. FinalOK(p)'
  BY <1>3, <1>5 DEF FinalOK
<1>7. UpToDate => UpToDate'
  BY <1>1 DEF UpToDate
<1>8. sync'.state = "complete" /\ sync'.attempt.phase >= After =>
                    UpToDate' \/ (sync.state = "complete" /\ sync.attempt.phase >= After)
  BY <1>7
<1>9. FinalInv'
  BY <1>1, <1>3, <1>4, <1>6, <1>8, FinalSide
<1>10. QED
  BY <1>4, <1>9

LEMMA EndsInv ==
    ASSUME ImportInv, NEW p \in Importer, Crash(p) \/ FetchPageFails(p) \/ RecordFailure(p)
    PROVE  ImportInv'
<1>1. TypeOK /\ HoldInv /\ WorkInv
  BY DEF ImportInv
<1>2. /\ imports' = [imports EXCEPT ![p] = Idle] /\ jobs' = Retried(p)
      /\ phase' = phase /\ source' = source /\ event' = event
      /\ results' = results /\ standings' = standings
      /\ \/ sync' = sync /\ lost' = (lost \/ (AtWork(p) /\ LastTry(p)))
         \/ lost' = FALSE /\ sync' = [state |-> "failed", attempt |-> imports[p].observed]
      /\ Use("faults", MaxFaults) \/ UNCHANGED used
  BY DEF Crash, FetchPageFails, Abandon, RecordFailure, tables
<1>3. used' \in [faults : 0..MaxFaults, manual : 0..MaxManual]
  BY <1>1, <1>2, UseFacts
<1>4. /\ HoldInv'
      /\ jobs' \in [Job -> JobRow]
      /\ ~LastTry(p) =>
            imports[p].job \in Job /\ jobs'[imports[p].job].status = "queued"
      /\ \A k \in Job : jobs[k].status = "queued" => jobs'[k].status = "queued"
  BY <1>2, IdleRow, RetriedHold
<1>5. TypeOK'
  <2>1. imports' \in [Importer -> Import]
    BY <1>1, <1>2, IdleRow, TypeFacts
  <2>2. sync' \in Sync
    BY <1>1, <1>2, RowFacts, TypeFacts DEF Sync, SyncState
  <2>3. lost' \in BOOLEAN
    BY <1>2
  <2>4. QED
    BY <1>1, <1>2, <1>3, <1>4, <2>1, <2>2, <2>3 DEF TypeOK
<1>6. WorkInv'
  <2>1. sync'.state = "syncing" =>
           sync.state = "syncing" /\ lost' = (lost \/ (AtWork(p) /\ LastTry(p)))
    BY <1>2
  <2>2. AtWork(p) /\ sync'.state = "syncing" =>
           lost' \/ \E j \in Job : jobs'[j].status = "queued"
    BY <1>4, <2>1
  <2>3. lost /\ sync'.state = "syncing" => lost'
    BY <2>1
  <2>4. QED
    BY <1>1, <1>2, <1>4, <2>1, <2>2, <2>3, IdleRow, WorkSide
<1>7. ClockInv' /\ FinalInv'
  <2>1. CASE sync' = sync
    BY <1>2, <1>5, <2>1, IdleTables
  <2>2. CASE sync' = [state |-> "failed", attempt |-> imports[p].observed]
    <3>1. /\ sync'.attempt = imports[p].observed /\ sync'.state # "absent"
          /\ sync'.state # "complete"
      BY <2>2
    <3>2. QED
      BY <1>2, <1>5, <3>1, IdleTables
  <2>3. QED
    BY <1>2, <2>1, <2>2
<1>8. QED
  BY <1>4, <1>5, <1>6, <1>7 DEF ImportInv

\* The rounds of the final page are all there are.
LEMMA LastRounds ==
    ASSUME TypeOK, NEW p \in Importer, imports[p].page = Final
    PROVE  MatchRounds(p) = Round
<1>1. \A r \in Round : r <= imports[p].page
  BY Bounds DEF Round, Final
<1>2. QED
  BY <1>1 DEF MatchRounds

LEMMA FinishInv ==
    ASSUME ImportInv, NEW p \in Importer, Finish(p)
    PROVE  ImportInv'
<1>1. TypeOK /\ HoldInv /\ WorkInv /\ ClockInv /\ FinalInv
  BY DEF ImportInv
<1>2. /\ imports' = [imports EXCEPT ![p] = Idle] /\ jobs' = Succeeded(p)
      /\ phase' = phase /\ source' = source /\ event' = event
      /\ results' = results /\ standings' = standings /\ used' = used
      /\ imports[p].pc = "asking" /\ imports[p].round \notin MatchRounds(p)
      /\ lost' = FALSE
  BY DEF Finish, AllRoundsTried
<1>3. PICK outcome \in {"no_results", "partial", "complete"} :
         /\ outcome = Outcome(p)
         /\ outcome = "complete" => MatchRounds(p) # {} /\ ~imports[p].missed
  BY DEF Outcome
<1>4. /\ sync' = [state |-> outcome, attempt |-> imports[p].observed]
      /\ sync'.state = outcome /\ sync'.attempt = imports[p].observed
      /\ sync' \in Sync
  <2>1. sync' = [state |-> outcome, attempt |-> imports[p].observed]
    BY <1>3 DEF Finish
  <2>2. outcome \in SyncState /\ imports[p].observed \in Instant
    BY <1>1, RowFacts DEF SyncState
  <2>3. QED
    BY <2>1, <2>2 DEF Sync
<1>5. /\ jobs' \in [Job -> JobRow]
      /\ \A k \in Job : jobs'[k] = jobs[k] \/ (k = imports[p].job /\ jobs'[k].status = "none")
  <2>1. CASE imports[p].job = NoJob
    BY <1>1, <1>2, <2>1, TypeFacts DEF Succeeded
  <2>2. CASE imports[p].job # NoJob
    <3>1. NoRow \in JobRow /\ NoRow.status = "none"
      BY Bounds DEF NoRow, JobRow
    <3>2. jobs' = [jobs EXCEPT ![imports[p].job] = NoRow]
      BY <1>2, <2>2 DEF Succeeded
    <3>3. QED
      BY <1>1, <3>1, <3>2, TypeFacts
  <2>3. QED
    BY <2>1, <2>2
<1>6. TypeOK'
  <2>1. imports' \in [Importer -> Import]
    BY <1>1, <1>2, IdleRow, TypeFacts
  <2>2. QED
    BY <1>1, <1>2, <1>4, <1>5, <2>1 DEF TypeOK
<1>7. HoldInv'
  <2>1. \A k \in Job : jobs'[k].status = "queued" => jobs'[k].count < MaxAttempts
    BY <1>1, <1>5 DEF HoldInv
  <2>2. QED
    BY <1>1, <1>2, <1>5, <2>1, IdleRow, HoldSide
<1>8. WorkInv'
  BY <1>3, <1>4 DEF WorkInv
<1>9. ASSUME outcome = "complete", imports[p].observed.phase >= After PROVE UpToDate
  <2>1. FinalOK(p) /\ imports[p].pc # "idle"
    BY <1>1, <1>2 DEF FinalInv
  <2>2. phase >= After
    <3>1. imports[p].observed.phase <= phase
      BY <1>1 DEF ClockInv
    <3>2. QED
      BY <1>1, <1>9, <3>1, RowFacts, TypeFacts DEF After
  <2>3. MatchRounds(p) = Round
    BY <1>1, <2>1, <2>2, LastRounds DEF ClockInv
  <2>4. ~imports[p].missed /\ Round # {} /\ imports[p].round \notin Round
    BY <1>2, <1>3, <1>9, <2>3
  <2>5. Rounds # 0 /\ imports[p].round = Rounds + 1
    BY <1>1, <2>4, RowFacts, Bounds DEF Round
  <2>6. \A r \in Round : r < imports[p].round
    BY <2>5, Bounds DEF Round
  <2>7. QED
    BY <1>2, <1>9, <2>1, <2>4, <2>5, <2>6 DEF FinalOK, UpToDate, StandingsOf
<1>10. ClockInv' /\ FinalInv'
  <2>1. sync'.attempt = imports[p].observed /\ sync'.state # "absent"
    BY <1>3, <1>4
  <2>2. sync'.state = "complete" /\ imports[p].observed.phase >= After => UpToDate
    BY <1>4, <1>9
  <2>3. QED
    BY <1>2, <1>6, <2>1, <2>2, IdleTables
<1>11. QED
  BY <1>6, <1>7, <1>8, <1>10 DEF ImportInv

-----------------------------------------------------------------------------
(***************************************************************************)
(* Imports that go on.                                                     *)
(***************************************************************************)
LEMMA GoesOn ==
    ASSUME ImportInv, NEW p \in Importer, NEW c2 \in Import,
           imports' = [imports EXCEPT ![p] = c2],
           c2.job = imports[p].job, c2.observed = imports[p].observed,
           imports[p].pc # "idle", c2.pc \in {"ranking", "asking", "failing"},
           imports[p].page <= c2.page, c2.page <= source \/ c2.page = imports[p].page,
           jobs' = jobs, phase' = phase, source' = source,
           Use("faults", MaxFaults) \/ UNCHANGED used, lost' \in BOOLEAN,
           \/ sync' = sync /\ event' = event
           \/ /\ sync' = [state |-> "syncing", attempt |-> imports[p].observed]
              /\ event' \in Stage,
           results' \in [Round -> 0..2], standings' \in Stage,
           phase >= After =>
              /\ \A r \in Round : results[r] = ResultsOf(r, Final) =>
                                     results'[r] = ResultsOf(r, Final)
              /\ standings = Final => standings' = Final
              /\ c2.page = Final => FinalOK(p)'
    PROVE  ImportInv'
<1>1. TypeOK /\ HoldInv /\ WorkInv /\ ClockInv /\ FinalInv
  BY DEF ImportInv
<1>2. used' \in [faults : 0..MaxFaults, manual : 0..MaxManual]
  BY <1>1, UseFacts
<1>3. imports'[p] = c2 /\ imports' \in [Importer -> Import]
  BY <1>1, TypeFacts
<1>4. sync' \in Sync /\ event' \in Stage \cup {Unknown}
  BY <1>1, RowFacts, TypeFacts DEF Sync, SyncState
<1>5. TypeOK'
  BY <1>1, <1>2, <1>3, <1>4 DEF TypeOK
<1>6. HoldInv'
  <2>1. c2.job # NoJob => jobs'[c2.job].status = "running"
    BY <1>1 DEF HoldInv, HoldOK
  <2>2. \A k \in Job : jobs'[k].status = "queued" => jobs'[k].count < MaxAttempts
    BY <1>1 DEF HoldInv
  <2>3. c2.pc # "idle" /\ \A k \in Job : jobs'[k] = jobs[k]
    OBVIOUS
  <2>4. QED
    BY <1>1, <2>1, <2>2, <2>3, HoldSide
<1>7. WorkInv'
  <2>1. AtWork(p)'
    BY <1>3 DEF AtWork
  <2>2. QED
    BY <2>1 DEF WorkInv
<1>8. phase >= After /\ c2.pc # "idle" => c2.page = Final
  <2>1. phase >= After => imports[p].page = Final /\ source = Final
    BY <1>1 DEF ClockInv
  <2>2. c2.page \in Nat
    BY Bounds DEF Import, Stage
  <2>3. QED
    BY <2>1, <2>2, Bounds
<1>9. ClockInv'
  <2>1. /\ sync'.attempt.phase <= phase /\ c2.observed.phase <= phase
        /\ event' # Unknown => sync'.state # "absent"
    BY <1>1 DEF ClockInv
  <2>2. QED
    BY <1>1, <1>8, <2>1, ClockSide
<1>10. FinalInv'
  <2>1. sync'.state = "complete" /\ sync'.attempt.phase >= After =>
           sync.state = "complete" /\ sync.attempt.phase >= After
    OBVIOUS
  <2>2. phase >= After => FinalOK(p)'
    BY <1>8
  <2>3. QED
    BY <1>1, <1>5, <1>9, <2>1, <2>2, FinalSide
<1>11. QED
  BY <1>5, <1>6, <1>7, <1>9, <1>10 DEF ImportInv

LEMMA StartInv ==
    ASSUME ImportInv, NEW p \in Importer, Start(p)
    PROVE  ImportInv'
<1>1. TypeOK /\ ClockInv /\ FinalInv
  BY DEF ImportInv
<1>2. /\ imports[p].pc = "fetching" /\ phase' = phase /\ source' = source
      /\ sync' = [state |-> "syncing", attempt |-> imports[p].observed]
      /\ results' = results /\ standings' = standings /\ jobs' = jobs /\ used' = used
      /\ lost' = FALSE
  BY DEF Start
<1>3. PICK s \in imports[p].page..source :
         /\ event' = s
         /\ imports' = [imports EXCEPT
                ![p].page = s, ![p].pc = IF HasStandings(s) THEN "ranking" ELSE "asking"]
  BY DEF Start
<1>4. s \in Stage /\ s \in Nat /\ imports[p].page <= s /\ s <= source
  BY <1>1, RowFacts, TypeFacts, Bounds DEF Stage
<1>5. PICK pc2 \in {"ranking", "asking"} :
         pc2 = IF HasStandings(s) THEN "ranking" ELSE "asking"
  OBVIOUS
<1>6. PICK c2 : c2 = [imports[p] EXCEPT !.page = s, !.pc = pc2]
  OBVIOUS
<1>7. /\ c2 \in Import /\ c2.pc = pc2 /\ c2.page = s /\ c2.job = imports[p].job
      /\ c2.observed = imports[p].observed /\ c2.round = imports[p].round
      /\ c2.missed = imports[p].missed
  <2>1. pc2 \in Control
    BY <1>5 DEF Control
  <2>2. imports[p] \in Import
    BY <1>1, RowFacts
  <2>3. QED
    BY <1>4, <1>6, <2>1, <2>2 DEF Import
<1>8. imports' = [imports EXCEPT ![p] = c2]
  BY <1>3, <1>5, <1>6
<1>9. ASSUME s = Final PROVE FinalOK(p)'
  <2>1. imports'[p] = c2
    BY <1>1, <1>8, TypeFacts
  <2>2. FinalOK(p)
    BY <1>1 DEF FinalInv
  <2>3. pc2 = "asking" => Rounds = 0
    BY <1>5, <1>9, Bounds DEF HasStandings, Final
  <2>4. QED
    BY <1>2, <1>7, <2>1, <2>2, <2>3 DEF FinalOK
<1>10. results' \in [Round -> 0..2] /\ standings' \in Stage
  BY <1>1, <1>2, TypeFacts
<1>11. /\ c2.pc \in {"ranking", "asking", "failing"} /\ lost' \in BOOLEAN
       /\ imports[p].pc # "idle" /\ imports[p].page <= c2.page /\ c2.page <= source
       /\ event' \in Stage /\ UNCHANGED used
  BY <1>2, <1>3, <1>4, <1>5, <1>7
<1>12. phase >= After =>
          /\ \A r \in Round : results[r] = ResultsOf(r, Final) =>
                                 results'[r] = ResultsOf(r, Final)
          /\ standings = Final => standings' = Final
          /\ c2.page = Final => FinalOK(p)'
  BY <1>2, <1>7, <1>9
<1>13. QED
  BY <1>2, <1>7, <1>8, <1>10, <1>11, <1>12, GoesOn

LEMMA StoreStandingsInv ==
    ASSUME ImportInv, NEW p \in Importer, StoreStandings(p)
    PROVE  ImportInv'
<1>1. TypeOK /\ ClockInv /\ FinalInv
  BY DEF ImportInv
<1>2. /\ imports[p].pc = "ranking" /\ phase' = phase /\ source' = source
      /\ standings' = imports[p].page /\ sync' = sync /\ event' = event
      /\ results' = results /\ jobs' = jobs /\ used' = used
      /\ imports' = [imports EXCEPT ![p].pc = "asking"] /\ lost' = lost
  BY DEF StoreStandings, StandingsOf, Goto
<1>3. PICK c2 : c2 = [imports[p] EXCEPT !.pc = "asking"]
  OBVIOUS
<1>4. /\ c2 \in Import /\ c2.pc = "asking" /\ c2.page = imports[p].page
      /\ c2.job = imports[p].job
      /\ c2.observed = imports[p].observed /\ c2.round = imports[p].round
      /\ c2.missed = imports[p].missed
  <2>1. "asking" \in Control /\ imports[p] \in Import
    BY <1>1, RowFacts DEF Control
  <2>2. QED
    BY <1>3, <2>1 DEF Import
<1>5. imports' = [imports EXCEPT ![p] = c2]
  BY <1>2, <1>3
<1>6. ASSUME c2.page = Final PROVE FinalOK(p)'
  <2>1. imports'[p] = c2
    BY <1>1, <1>5, TypeFacts
  <2>2. FinalOK(p)
    BY <1>1 DEF FinalInv
  <2>3. QED
    BY <1>2, <1>4, <1>6, <2>1, <2>2 DEF FinalOK
<1>7. phase >= After => standings' = Final
  BY <1>1, <1>2 DEF ClockInv
<1>8. /\ results' \in [Round -> 0..2] /\ standings' \in Stage
      /\ imports[p].page <= c2.page /\ lost' \in BOOLEAN
  BY <1>1, <1>2, <1>4, TypeFacts, RowFacts
<1>9. QED
  BY <1>2, <1>4, <1>5, <1>6, <1>7, <1>8, GoesOn

LEMMA StoreRoundInv ==
    ASSUME ImportInv, NEW p \in Importer, StoreRound(p)
    PROVE  ImportInv'
<1>1. TypeOK /\ ClockInv /\ FinalInv
  BY DEF ImportInv
<1>2. PICK r \in Round : r = imports[p].round /\ r <= imports[p].page
  BY DEF StoreRound, MatchRounds
<1>3. /\ imports[p].pc = "asking" /\ phase' = phase /\ source' = source
      /\ sync' = sync /\ event' = event /\ jobs' = jobs /\ used' = used
      /\ lost' = lost
      /\ standings' = IF ~HasStandings(imports[p].page) /\ r = imports[p].page
                      THEN 1 ELSE standings
      /\ imports' = [imports EXCEPT ![p].round = @ + 1]
  BY <1>2 DEF StoreRound, StandingsOf
<1>4. PICK s \in imports[p].page..source : results' = [results EXCEPT ![r] = ResultsOf(r, s)]
  BY <1>2 DEF StoreRound
<1>5. PICK n \in 1..(Rounds + 1) : n = r + 1
  BY <1>2, Bounds DEF Round
<1>6. PICK c2 : c2 = [imports[p] EXCEPT !.round = n]
  OBVIOUS
<1>7. /\ c2 \in Import /\ c2.pc = "asking" /\ c2.page = imports[p].page
      /\ c2.job = imports[p].job /\ c2.observed = imports[p].observed
      /\ c2.round = n /\ c2.missed = imports[p].missed
  <2>1. imports[p] \in Import
    BY <1>1, RowFacts
  <2>2. QED
    BY <1>3, <1>6, <2>1 DEF Import
<1>8. imports' = [imports EXCEPT ![p] = c2]
  BY <1>2, <1>3, <1>5, <1>6
<1>9. /\ results' \in [Round -> 0..2]
      /\ results'[r] = ResultsOf(r, s)
      /\ \A q \in Round : q # r => results'[q] = results[q]
  <2>1. ResultsOf(r, s) \in 0..2
    BY DEF ResultsOf
  <2>2. results \in [Round -> 0..2]
    BY <1>1, TypeFacts
  <2>3. QED
    BY <1>4, <2>1, <2>2
<1>10. standings' \in Stage
  <2>1. 1 \in Stage
    BY Bounds DEF Stage
  <2>2. QED
    BY <1>1, <1>3, <2>1, TypeFacts
<1>11. ASSUME phase >= After
       PROVE  /\ \A q \in Round : results[q] = ResultsOf(q, Final) =>
                                     results'[q] = ResultsOf(q, Final)
              /\ standings' = standings /\ results'[r] = ResultsOf(r, Final)
  <2>1. imports[p].page = Final /\ source = Final
    BY <1>1, <1>3, <1>11 DEF ClockInv
  <2>2. s = Final
    BY <2>1, Bounds
  <2>3. HasStandings(imports[p].page)
    BY <1>2, <2>1, Bounds DEF HasStandings, Final, Round
  <2>4. QED
    BY <1>3, <1>9, <2>2, <2>3
<1>12. ASSUME phase >= After PROVE FinalOK(p)'
  <2>1. imports'[p] = c2
    BY <1>1, <1>8, TypeFacts
  <2>2. FinalOK(p)
    BY <1>1 DEF FinalInv
  <2>3. \A q \in Round : q < n => q = r \/ q < r
    BY <1>5, Bounds DEF Round
  <2>4. ASSUME NEW q \in Round, q < n, c2.observed.phase >= After, ~c2.missed
        PROVE  results'[q] = ResultsOf(q, Final)
    <3>1. CASE q = r
      BY <1>11, <1>12, <3>1
    <3>2. CASE q < r
      <4>1. results[q] = ResultsOf(q, Final)
        BY <1>2, <1>3, <1>7, <2>2, <2>4, <3>2 DEF FinalOK
      <4>2. QED
        BY <1>11, <1>12, <4>1
    <3>3. QED
      BY <2>3, <2>4, <3>1, <3>2
  <2>5. c2.observed.phase >= After /\ Rounds # 0 => standings' = Final
    BY <1>3, <1>7, <1>11, <1>12, <2>2 DEF FinalOK
  <2>6. QED
    BY <1>7, <2>1, <2>4, <2>5 DEF FinalOK
<1>13. /\ imports[p].pc # "idle" /\ c2.pc \in {"ranking", "asking", "failing"}
       /\ lost' \in BOOLEAN /\ imports[p].page <= c2.page /\ UNCHANGED used
  BY <1>1, <1>3, <1>7, RowFacts, TypeFacts
<1>14. phase >= After =>
          /\ \A q \in Round : results[q] = ResultsOf(q, Final) =>
                                 results'[q] = ResultsOf(q, Final)
          /\ standings = Final => standings' = Final
          /\ c2.page = Final => FinalOK(p)'
  BY <1>11, <1>12
<1>15. QED
  BY <1>3, <1>7, <1>8, <1>9, <1>10, <1>13, <1>14, GoesOn

LEMMA MissOrRaiseInv ==
    ASSUME ImportInv, NEW p \in Importer, MissRound(p) \/ Raise(p)
    PROVE  ImportInv'
<1>1. TypeOK /\ ClockInv /\ FinalInv
  BY DEF ImportInv
<1>2. /\ imports[p].pc \in {"ranking", "asking"} /\ phase' = phase /\ source' = source
      /\ sync' = sync /\ event' = event /\ jobs' = jobs /\ Use("faults", MaxFaults)
      /\ results' = results /\ standings' = standings /\ lost' = lost
  BY DEF MissRound, Raise, AllRoundsTried, tables
<1>3. PICK c2 \in Import :
         /\ imports' = [imports EXCEPT ![p] = c2]
         /\ c2.page = imports[p].page
         /\ c2.job = imports[p].job /\ c2.observed = imports[p].observed
         /\ \/ c2.pc = "asking" /\ imports[p].pc = "asking" /\ c2.missed
            \/ /\ c2.pc = "failing" /\ c2.missed = imports[p].missed
               /\ c2.round = imports[p].round
  <2>1. imports[p] \in Import
    BY <1>1, RowFacts
  <2>2. CASE MissRound(p)
    <3>1. imports[p].pc = "asking" /\ imports[p].round \in Round
          /\ imports' = [imports EXCEPT ![p].round = @ + 1, ![p].missed = TRUE]
      BY <2>2 DEF MissRound, MatchRounds
    <3>2. PICK n \in 1..(Rounds + 1) : n = imports[p].round + 1
      BY <3>1, Bounds DEF Round
    <3>3. PICK c2 : c2 = [imports[p] EXCEPT !.round = n, !.missed = TRUE]
      OBVIOUS
    <3>4. /\ c2 \in Import /\ c2.pc = "asking" /\ c2.page = imports[p].page
          /\ c2.job = imports[p].job /\ c2.observed = imports[p].observed /\ c2.missed
      BY <2>1, <3>1, <3>3 DEF Import
    <3>5. imports' = [imports EXCEPT ![p] = c2]
      BY <3>1, <3>2, <3>3
    <3>6. QED
      BY <3>1, <3>4, <3>5
  <2>3. CASE Raise(p)
    <3>1. imports' = [imports EXCEPT ![p].pc = "failing"]
      BY <2>3 DEF Raise, Goto
    <3>2. PICK c2 : c2 = [imports[p] EXCEPT !.pc = "failing"]
      OBVIOUS
    <3>3. "failing" \in Control
      BY DEF Control
    <3>4. /\ c2 \in Import /\ c2.pc = "failing" /\ c2.page = imports[p].page
          /\ c2.job = imports[p].job /\ c2.observed = imports[p].observed
          /\ c2.missed = imports[p].missed /\ c2.round = imports[p].round
      BY <2>1, <3>2, <3>3 DEF Import
    <3>5. imports' = [imports EXCEPT ![p] = c2]
      BY <3>1, <3>2
    <3>6. QED
      BY <3>4, <3>5
  <2>4. QED
    BY <2>2, <2>3
<1>4. FinalOK(p)'
  <2>1. imports'[p] = c2
    BY <1>1, <1>3, TypeFacts
  <2>2. FinalOK(p)
    BY <1>1 DEF FinalInv
  <2>3. CASE c2.pc = "asking"
    BY <1>2, <1>3, <2>1, <2>2, <2>3 DEF FinalOK
  <2>4. CASE c2.pc = "failing"
    BY <1>2, <1>3, <2>1, <2>2, <2>4 DEF FinalOK
  <2>5. QED
    BY <1>3, <2>3, <2>4
<1>5. /\ imports[p].pc # "idle" /\ c2.pc \in {"ranking", "asking", "failing"}
      /\ imports[p].page <= c2.page
      /\ results' \in [Round -> 0..2] /\ standings' \in Stage /\ lost' \in BOOLEAN
  BY <1>1, <1>2, <1>3, RowFacts, TypeFacts
<1>6. phase >= After =>
          /\ \A q \in Round : results[q] = ResultsOf(q, Final) =>
                                 results'[q] = ResultsOf(q, Final)
          /\ standings = Final => standings' = Final
          /\ c2.page = Final => FinalOK(p)'
  BY <1>2, <1>4
<1>7. QED
  BY <1>2, <1>3, <1>5, <1>6, GoesOn

\* The lease goes, and with it the job; the import does not know.
LEMMA LoseLeaseInv ==
    ASSUME ImportInv, NEW p \in Importer, LoseLease(p)
    PROVE  ImportInv'
<1>1. TypeOK /\ HoldInv /\ WorkInv /\ ClockInv /\ FinalInv
  BY DEF ImportInv
<1>2. /\ imports[p].job # NoJob /\ Use("faults", MaxFaults) /\ jobs' = Retried(p)
      /\ imports' = [imports EXCEPT ![p].job = NoJob]
      /\ phase' = phase /\ source' = source /\ sync' = sync /\ event' = event
      /\ results' = results /\ standings' = standings
      /\ lost' = (lost \/ (imports[p].pc = "fetching" /\ LastTry(p)))
  BY DEF LoseLease, tables
<1>3. used' \in [faults : 0..MaxFaults, manual : 0..MaxManual]
  BY <1>1, <1>2, UseFacts
<1>4. HoldOK(p) /\ imports[p].job \in Job
  BY <1>1, <1>2, RowFacts DEF HoldInv
<1>5. imports[p].pc # "idle"
  BY <1>2, <1>4, IdleRow DEF HoldOK
<1>6. PICK c2 : c2 = [imports[p] EXCEPT !.job = NoJob]
  OBVIOUS
<1>7. /\ c2 \in Import /\ c2.pc = imports[p].pc /\ c2.page = imports[p].page
      /\ c2.job = NoJob /\ c2.observed = imports[p].observed
      /\ c2.round = imports[p].round /\ c2.missed = imports[p].missed
  <2>1. imports[p] \in Import
    BY <1>1, RowFacts
  <2>2. QED
    BY <1>6, <2>1 DEF Import
<1>8. imports' = [imports EXCEPT ![p] = c2]
  BY <1>2, <1>6
<1>9. /\ HoldInv'
      /\ jobs' \in [Job -> JobRow]
      /\ ~LastTry(p) =>
            imports[p].job \in Job /\ jobs'[imports[p].job].status = "queued"
      /\ \A k \in Job : jobs[k].status = "queued" => jobs'[k].status = "queued"
  <2>1. c2.pc # "idle"
    BY <1>5, <1>7
  <2>2. QED
    BY <1>2, <1>7, <1>8, <2>1, RetriedHold
<1>10. TypeOK'
  <2>1. imports' \in [Importer -> Import] /\ lost' \in BOOLEAN
    BY <1>1, <1>2, <1>7, <1>8, TypeFacts
  <2>2. QED
    BY <1>1, <1>2, <1>3, <1>9, <2>1 DEF TypeOK
<1>11. WorkInv'
  <2>1. imports'[p] = c2
    BY <1>1, <1>8, TypeFacts
  <2>2. \/ AtWork(p)' \/ lost' \/ \E j \in Job : jobs'[j].status = "queued"
    <3>1. CASE ~LastTry(p)
      BY <1>9, <3>1
    <3>2. CASE LastTry(p) /\ imports[p].pc = "fetching"
      BY <1>2, <3>2
    <3>3. CASE imports[p].pc # "fetching"
      BY <1>1, <1>5, <1>7, <2>1, <3>3, RowFacts DEF AtWork, Control
    <3>4. QED
      BY <3>1, <3>2, <3>3
  <2>3. QED
    BY <2>2 DEF WorkInv
<1>12. ClockInv'
  <2>1. /\ sync'.attempt.phase <= phase /\ c2.observed.phase <= phase
        /\ event' # Unknown => sync'.state # "absent"
        /\ phase >= After /\ c2.pc # "idle" => c2.page = Final
    BY <1>1, <1>2, <1>7 DEF ClockInv
  <2>2. QED
    BY <1>1, <1>2, <1>7, <1>8, <2>1, ClockSide
<1>13. FinalInv'
  <2>1. FinalOK(p)'
    <3>1. imports'[p] = c2 /\ FinalOK(p)
      BY <1>1, <1>8, TypeFacts DEF FinalInv
    <3>2. QED
      BY <1>2, <1>7, <3>1 DEF FinalOK
  <2>2. QED
    BY <1>1, <1>2, <1>7, <1>8, <1>10, <1>12, <2>1, FinalSide
<1>14. QED
  BY <1>9, <1>10, <1>11, <1>12, <1>13 DEF ImportInv

-----------------------------------------------------------------------------
(***************************************************************************)
(* Imports that begin, the sweep, and the world around.                    *)
(***************************************************************************)
LEMMA BeginsInv ==
    ASSUME ImportInv, NEW p \in Importer,
           ByHand(p) \/ Scan(p) \/ \E j \in Job : Claim(p, j)
    PROVE  ImportInv'
<1>1. TypeOK /\ HoldInv /\ WorkInv /\ ClockInv /\ FinalInv
  BY DEF ImportInv
<1>2. PICK j \in Job \cup {NoJob} :
         /\ Begin(p, j)
         /\ IF j = NoJob THEN jobs' = jobs
            ELSE /\ jobs[j].status = "queued"
                 /\ jobs' = [jobs EXCEPT ![j] =
                               [status |-> "running", count |-> @.count + 1]]
  BY NoJobAssumption DEF ByHand, Scan, Claim
<1>3. /\ phase' = phase /\ source' = source /\ event' = event
      /\ results' = results /\ standings' = standings /\ lost' = lost
      /\ Use("manual", MaxManual) \/ UNCHANGED used
  BY DEF ByHand, Scan, Claim, tables
<1>4. \/ sync' = sync
      \/ /\ sync' = [state |-> IF sync.state = "absent" THEN "discovered" ELSE sync.state,
                     attempt |-> Now]
         /\ phase = Running
  BY DEF ByHand, Scan, Claim, tables
<1>5. Now \in Instant /\ Now.phase = phase
  BY <1>1, TypeFacts DEF Now, Instant, Before
<1>6. used' \in [faults : 0..MaxFaults, manual : 0..MaxManual]
  BY <1>1, <1>3, UseFacts
<1>7. PICK now : now = Now
  OBVIOUS
<1>8. PICK c2 : c2 = [Idle EXCEPT !.pc = "fetching", !.job = j, !.observed = now,
                                  !.page = source]
  OBVIOUS
<1>9. /\ c2 \in Import /\ c2.pc = "fetching" /\ c2.job = j /\ c2.page = source
      /\ c2.observed = now /\ c2.round = 1
  <2>1. "fetching" \in Control /\ 1 \in 1..(Rounds + 1) /\ source \in Stage /\ now \in Instant
    BY <1>1, <1>5, <1>7, TypeFacts, Bounds DEF Control
  <2>2. Idle \in Import /\ Idle.round = 1
    BY IdleRow DEF Idle
  <2>3. QED
    BY <1>2, <1>8, <2>1, <2>2 DEF Import
<1>10. imports' = [imports EXCEPT ![p] = c2] /\ imports[p].pc = "idle"
  BY <1>2, <1>7, <1>8 DEF Begin
<1>11. /\ jobs' \in [Job -> JobRow]
       /\ \A k \in Job : \/ jobs'[k] = jobs[k]
                         \/ /\ k = j /\ jobs[k].status = "queued"
                            /\ jobs'[k].status = "running"
       /\ j # NoJob => jobs'[j].status = "running"
  <2>1. CASE j = NoJob
    BY <1>1, <1>2, <2>1, TypeFacts, NoJobAssumption
  <2>2. CASE j # NoJob
    <3>1. j \in Job /\ jobs[j].status = "queued"
      BY <1>2, <2>2
    <3>2. jobs[j].count \in Nat /\ jobs[j].count < MaxAttempts
      BY <1>1, <3>1, JobFacts DEF HoldInv
    <3>3. PICK n \in 0..MaxAttempts : n = jobs[j].count + 1
      BY <3>2, Bounds
    <3>4. PICK row : row = [status |-> "running", count |-> n]
      OBVIOUS
    <3>5. row \in JobRow /\ row.status = "running" /\ row.count = n
      BY <3>4 DEF JobRow
    <3>6. jobs' = [jobs EXCEPT ![j] = row]
      BY <1>2, <2>2, <3>3, <3>4
    <3>7. jobs \in [Job -> JobRow]
      BY <1>1, TypeFacts
    <3>8. /\ jobs' \in [Job -> JobRow] /\ jobs'[j] = row
          /\ \A k \in Job : k # j => jobs'[k] = jobs[k]
      BY <3>1, <3>5, <3>6, <3>7
    <3>9. QED
      BY <3>1, <3>5, <3>8
  <2>3. QED
    BY <2>1, <2>2
<1>12. /\ sync' \in Sync /\ sync'.attempt.phase <= phase
       /\ sync'.state = "syncing" => sync.state = "syncing"
       /\ event' # Unknown => sync'.state # "absent"
       /\ sync' # sync => phase = Running
  <2>1. CASE sync' = sync
    BY <1>1, <1>3, <2>1, TypeFacts DEF ClockInv
  <2>2. CASE sync' # sync
    <3>1. PICK st : st = IF sync.state = "absent" THEN "discovered" ELSE sync.state
      OBVIOUS
    <3>2. sync' = [state |-> st, attempt |-> now] /\ phase = Running
      BY <1>4, <1>7, <2>2, <3>1
    <3>3. st \in SyncState /\ st # "absent" /\ (st = "syncing" => sync.state = "syncing")
      BY <1>1, <3>1, SyncFacts DEF SyncState
    <3>4. now \in Instant /\ now.phase = phase /\ phase \in Nat
      BY <1>1, <1>5, <1>7, TypeFacts
    <3>5. QED
      BY <3>2, <3>3, <3>4 DEF Sync
  <2>3. QED
    BY <2>1, <2>2
<1>13. TypeOK'
  <2>1. imports' \in [Importer -> Import]
    BY <1>1, <1>9, <1>10, TypeFacts
  <2>2. QED
    BY <1>1, <1>3, <1>6, <1>11, <1>12, <2>1 DEF TypeOK
<1>14. HoldInv'
  <2>1. \A k \in Job : jobs'[k] = jobs[k] \/ k = imports[p].job \/ jobs[k].status # "running"
    BY <1>11
  <2>2. \A k \in Job : jobs'[k].status = "queued" => jobs'[k].count < MaxAttempts
    BY <1>1, <1>11 DEF HoldInv
  <2>3. ASSUME c2.job # NoJob
        PROVE  /\ jobs[c2.job].status # "running"
               /\ jobs'[c2.job].status = "running"
    BY <1>2, <1>9, <1>11, <2>3
  <2>4. c2.pc # "idle"
    BY <1>9
  <2>5. QED
    BY <1>1, <1>9, <1>10, <2>1, <2>2, <2>3, <2>4, HoldSide
<1>15. WorkInv'
  <2>1. imports'[p] = c2
    BY <1>1, <1>9, <1>10, TypeFacts
  <2>2. ~AtWork(p)
    BY <1>10 DEF AtWork
  <2>3. j # NoJob => AtWork(p)'
    BY <1>9, <2>1 DEF AtWork
  <2>4. \A k \in Job : jobs[k].status = "queued" => jobs'[k].status = "queued" \/ AtWork(p)'
    BY <1>11, <2>3, NoJobAssumption
  <2>5. QED
    BY <1>1, <1>3, <1>9, <1>10, <1>12, <2>2, <2>4, WorkSide
<1>16. ClockInv'
  <2>1. c2.observed.phase <= phase
    BY <1>1, <1>5, <1>7, <1>9, TypeFacts
  <2>2. phase >= After /\ c2.pc # "idle" => c2.page = Final
    BY <1>1, <1>9 DEF ClockInv
  <2>3. QED
    BY <1>1, <1>3, <1>9, <1>10, <1>12, <2>1, <2>2, ClockSide
<1>17. FinalInv'
  <2>1. phase >= After => sync' = sync
    BY <1>12 DEF Running, After
  <2>2. FinalOK(p)'
    <3>1. imports'[p] = c2
      BY <1>1, <1>9, <1>10, TypeFacts
    <3>2. \A r \in Round : ~(r < c2.round)
      BY <1>9, Bounds DEF Round
    <3>3. QED
      BY <1>9, <3>1, <3>2 DEF FinalOK
  <2>3. QED
    BY <1>1, <1>3, <1>9, <1>10, <1>13, <1>16, <2>1, <2>2, FinalSide
<1>18. QED
  BY <1>13, <1>14, <1>15, <1>16, <1>17 DEF ImportInv

LEMMA DiscoverInv ==
    ASSUME ImportInv, Discover
    PROVE  ImportInv'
<1>1. TypeOK /\ HoldInv /\ WorkInv /\ ClockInv /\ FinalInv
  BY DEF ImportInv
<1>2. /\ phase' = phase /\ source' = source /\ results' = results
      /\ standings' = standings /\ jobs' = jobs /\ imports' = imports /\ used' = used
      /\ lost' = lost /\ event' \in 0..source
      /\ sync' = IF sync.state = "absent" THEN [sync EXCEPT !.state = "discovered"]
                 ELSE sync
  BY DEF Discover
<1>3. /\ sync' \in Sync /\ sync'.attempt = sync.attempt /\ sync'.state # "absent"
      /\ sync'.state \in {"syncing", "complete"} => sync'.state = sync.state
  <2>1. sync \in Sync
    BY <1>1, TypeFacts
  <2>2. CASE sync.state = "absent"
    BY <1>2, <2>1, <2>2 DEF Sync, SyncState
  <2>3. CASE sync.state # "absent"
    BY <1>2, <2>1, <2>3
  <2>4. QED
    BY <2>2, <2>3
<1>4. event' \in Stage
  BY <1>1, <1>2, TypeFacts, Bounds DEF Stage
<1>5. TypeOK'
  BY <1>1, <1>2, <1>3, <1>4 DEF TypeOK
<1>6. HoldInv'
  BY <1>1, <1>2 DEF HoldInv, HoldOK
<1>7. WorkInv'
  BY <1>1, <1>2, <1>3 DEF WorkInv, AtWork
<1>8. ClockInv'
  BY <1>1, <1>2, <1>3 DEF ClockInv
<1>9. FinalInv'
  BY <1>1, <1>2, <1>3 DEF FinalInv, FinalOK, UpToDate
<1>10. QED
  BY <1>5, <1>6, <1>7, <1>8, <1>9 DEF ImportInv

LEMMA SweepInv ==
    ASSUME ImportInv, NEW j \in Job, Sweep(j)
    PROVE  ImportInv'
<1>1. TypeOK /\ HoldInv /\ WorkInv /\ ClockInv /\ FinalInv
  BY DEF ImportInv
<1>2. /\ phase' = phase /\ source' = source /\ event' = event /\ sync' = sync
      /\ results' = results /\ standings' = standings /\ imports' = imports
      /\ used' = used /\ lost' = lost /\ jobs[j].status = "none"
      /\ jobs' = [jobs EXCEPT ![j] = [status |-> "queued", count |-> 0]]
  BY DEF Sweep, tables
<1>3. PICK row : row = [status |-> "queued", count |-> 0]
  OBVIOUS
<1>4. row \in JobRow /\ row.status = "queued" /\ row.count = 0
  BY <1>3, Bounds DEF JobRow
<1>5. /\ jobs' \in [Job -> JobRow] /\ jobs'[j] = row
      /\ \A k \in Job : k # j => jobs'[k] = jobs[k]
  BY <1>1, <1>2, <1>3, <1>4, TypeFacts
<1>6. TypeOK'
  BY <1>1, <1>2, <1>5 DEF TypeOK
<1>7. HoldInv'
  <2>1. ASSUME NEW p \in Importer PROVE HoldOK(p)'
    <3>1. HoldOK(p)
      BY <1>1 DEF HoldInv
    <3>2. imports[p].job # NoJob => jobs'[imports[p].job] = jobs[imports[p].job]
      BY <1>1, <1>2, <1>5, <3>1, RowFacts DEF HoldOK
    <3>3. QED
      BY <1>2, <3>1, <3>2 DEF HoldOK
  <2>2. ASSUME NEW k \in Job, jobs'[k].status = "queued" PROVE jobs'[k].count < MaxAttempts
    BY <1>1, <1>4, <1>5, <2>2, Bounds DEF HoldInv
  <2>3. QED
    BY <2>1, <2>2 DEF HoldInv
<1>8. WorkInv'
  BY <1>4, <1>5 DEF WorkInv
<1>9. ClockInv' /\ FinalInv'
  BY <1>1, <1>2 DEF ClockInv, FinalInv, FinalOK, UpToDate
<1>10. QED
  BY <1>6, <1>7, <1>8, <1>9 DEF ImportInv

LEMMA SourceInv ==
    ASSUME ImportInv, SourceAdvances
    PROVE  ImportInv'
<1>1. TypeOK /\ HoldInv /\ WorkInv /\ ClockInv /\ FinalInv
  BY DEF ImportInv
<1>2. /\ phase' = phase /\ source' = source + 1 /\ event' = event /\ sync' = sync
      /\ results' = results /\ standings' = standings /\ imports' = imports
      /\ jobs' = jobs /\ used' = used /\ lost' = lost /\ source < Final /\ ~(phase >= After)
  BY DEF SourceAdvances, tables, Running, Grace, After
<1>3. source' \in Stage
  BY <1>1, <1>2, TypeFacts, Bounds DEF Stage, Final
<1>4. TypeOK'
  BY <1>1, <1>2, <1>3 DEF TypeOK
<1>5. HoldInv' /\ WorkInv' /\ FinalInv'
  BY <1>1, <1>2 DEF HoldInv, HoldOK, WorkInv, AtWork, FinalInv, FinalOK, UpToDate
<1>6. ClockInv'
  BY <1>1, <1>2 DEF ClockInv
<1>7. QED
  BY <1>4, <1>5, <1>6 DEF ImportInv

\* Only what time does to an instant matters here.
LEMMA AgedFacts ==
    ASSUME NEW t \in Instant
    PROVE  Aged(t) \in Instant /\ Aged(t).phase = t.phase
  BY DEF Aged, Instant

LEMMA TickInv ==
    ASSUME ImportInv, NEW next \in {phase, phase + 1}, Tick(next)
    PROVE  ImportInv'
<1>1. TypeOK /\ HoldInv /\ WorkInv /\ ClockInv /\ FinalInv
  BY DEF ImportInv
<1>2. /\ phase' = next /\ next \in 0..LastPhase /\ source' = source /\ event' = event
      /\ results' = results /\ standings' = standings /\ jobs' = jobs /\ used' = used
      /\ lost' = lost
      /\ next # phase => NoneBeganEarlier(next) /\ TournamentEndsInTime(next)
      /\ sync' = [sync EXCEPT !.attempt = Aged(@)]
      /\ imports' = [p \in Importer |-> [imports[p] EXCEPT !.observed = Aged(@)]]
  BY DEF Tick
<1>3. /\ sync' \in Sync /\ sync'.state = sync.state
      /\ sync'.attempt.phase = sync.attempt.phase
  <2>1. PICK t : t = Aged(sync.attempt)
    OBVIOUS
  <2>2. t \in Instant /\ t.phase = sync.attempt.phase
    BY <1>1, <2>1, AgedFacts, SyncFacts
  <2>3. sync' = [sync EXCEPT !.attempt = t] /\ sync \in Sync
    BY <1>1, <1>2, <2>1, TypeFacts
  <2>4. QED
    BY <2>2, <2>3 DEF Sync
<1>4. ASSUME NEW p \in Importer
      PROVE  /\ imports'[p] \in Import
             /\ imports'[p].pc = imports[p].pc /\ imports'[p].job = imports[p].job
             /\ imports'[p].page = imports[p].page /\ imports'[p].round = imports[p].round
             /\ imports'[p].missed = imports[p].missed
             /\ imports'[p].observed.phase = imports[p].observed.phase
             /\ imports[p] = Idle => imports'[p] = Idle
  <2>1. PICK t : t = Aged(imports[p].observed)
    OBVIOUS
  <2>2. t \in Instant /\ t.phase = imports[p].observed.phase
    BY <1>1, <2>1, AgedFacts, RowFacts
  <2>3. imports'[p] = [imports[p] EXCEPT !.observed = t] /\ imports[p] \in Import
    BY <1>1, <1>2, <2>1, RowFacts
  <2>4. ASSUME imports[p] = Idle PROVE imports'[p] = Idle
    <3>1. Idle.observed = Never /\ Never.recent = FALSE /\ Never \in Instant
      BY IdleRow DEF Idle, Never
    <3>2. t = Never
      BY <2>1, <2>4, <3>1 DEF Aged, Instant
    <3>3. QED
      BY <2>3, <2>4, <3>1, <3>2, IdleRow DEF Import
  <2>5. QED
    BY <2>2, <2>3, <2>4 DEF Import
<1>5. TypeOK'
  <2>1. imports' \in [Importer -> Import]
    BY <1>2, <1>4
  <2>2. phase' \in Before..LastPhase
    BY <1>2 DEF Before
  <2>3. QED
    BY <1>1, <1>2, <1>3, <2>1, <2>2 DEF TypeOK
<1>6. HoldInv'
  <2>1. ASSUME NEW p \in Importer PROVE HoldOK(p)'
    <3>1. HoldOK(p)
      BY <1>1 DEF HoldInv
    <3>2. \A q \in Importer : imports'[q].job = imports[q].job
      BY <1>4
    <3>3. QED
      BY <1>2, <1>4, <3>1, <3>2 DEF HoldOK
  <2>2. QED
    BY <1>1, <1>2, <2>1 DEF HoldInv
<1>7. WorkInv'
  <2>1. \A p \in Importer : AtWork(p) => AtWork(p)'
    BY <1>4 DEF AtWork
  <2>2. QED
    BY <1>1, <1>2, <1>3, <2>1 DEF WorkInv
<1>8. phase \in Nat /\ next \in Nat /\ phase <= next
  BY <1>1, <1>2, TypeFacts
<1>9. ClockInv'
  <2>1. sync'.attempt.phase <= phase'
    <3>1. sync.attempt.phase \in Nat /\ sync.attempt.phase <= phase
      BY <1>1, SyncFacts DEF ClockInv
    <3>2. QED
      BY <1>2, <1>3, <1>8, <3>1
  <2>2. ASSUME NEW p \in Importer PROVE imports'[p].observed.phase <= phase'
    <3>1. imports[p].observed.phase \in Nat /\ imports[p].observed.phase <= phase
      BY <1>1, RowFacts DEF ClockInv
    <3>2. QED
      BY <1>2, <1>4, <1>8, <3>1
  <2>3. ASSUME phase' >= After
        PROVE  /\ source' = Final
               /\ \A p \in Importer : imports'[p].pc # "idle" => imports'[p].page = Final
    <3>1. CASE phase >= After
      BY <1>1, <1>2, <1>4, <3>1 DEF ClockInv
    <3>2. CASE ~(phase >= After)
      <4>1. next = After /\ next # phase
        BY <1>2, <1>8, <2>3, <3>2 DEF After
      <4>2. QED
        BY <1>2, <1>4, <4>1 DEF NoneBeganEarlier, TournamentEndsInTime
    <3>3. QED
      BY <3>1, <3>2
  <2>4. event' # Unknown => sync'.state # "absent"
    BY <1>1, <1>2, <1>3 DEF ClockInv
  <2>5. QED
    BY <2>1, <2>2, <2>3, <2>4 DEF ClockInv
<1>10. FinalInv'
  <2>1. ASSUME NEW p \in Importer PROVE FinalOK(p)'
    <3>1. FinalOK(p)
      BY <1>1 DEF FinalInv
    <3>2. QED
      BY <1>2, <1>4, <3>1 DEF FinalOK
  <2>2. QED
    BY <1>1, <1>2, <1>3, <2>1 DEF FinalInv, UpToDate
<1>11. QED
  BY <1>5, <1>6, <1>7, <1>9, <1>10 DEF ImportInv

LEMMA InitInv ==
    ASSUME Init
    PROVE  ImportInv
<1>1. /\ phase = 0 /\ source = 0 /\ event = Unknown
      /\ sync = [state |-> "absent", attempt |-> Never]
      /\ results = [r \in Round |-> 0] /\ standings = 0
      /\ jobs = [j \in Job |-> NoRow] /\ imports = [p \in Importer |-> Idle]
      /\ lost = FALSE /\ used = [faults |-> 0, manual |-> 0]
  BY DEF Init, Before
<1>2. /\ 0 \in Stage /\ 0 \in Before..LastPhase /\ NoRow \in JobRow
      /\ NoRow.status = "none" /\ Never.phase = 0
  BY Bounds DEF Stage, Before, NoRow, JobRow, Never
<1>3. TypeOK
  <2>1. sync \in Sync
    BY <1>1, IdleRow DEF Sync, SyncState
  <2>2. used \in [faults : 0..MaxFaults, manual : 0..MaxManual]
    BY <1>1, Bounds
  <2>3. /\ results \in [Round -> 0..2] /\ jobs \in [Job -> JobRow]
        /\ imports \in [Importer -> Import]
    BY <1>1, <1>2, IdleRow
  <2>4. lost \in BOOLEAN
    BY <1>1
  <2>5. QED
    BY <1>1, <1>2, <2>1, <2>2, <2>3, <2>4 DEF TypeOK
<1>4. HoldInv /\ WorkInv
  BY <1>1, <1>2, IdleRow DEF HoldInv, HoldOK, WorkInv
<1>5. ClockInv /\ FinalInv
  BY <1>1, <1>2, IdleRow DEF ClockInv, FinalInv, FinalOK, After
<1>6. QED
  BY <1>3, <1>4, <1>5 DEF ImportInv

(* Jobs, imports, the clock and the tables agree in this way in every      *)
(* state (PlayHubImportService, JobExecutor._import_event).                *)
THEOREM ImportInvariance == Spec => []ImportInv
<1>1. Init => ImportInv
  BY InitInv
<1>2. ImportInv /\ [Next]_vars => ImportInv'
  <2> SUFFICES ASSUME ImportInv, [Next]_vars PROVE ImportInv'
    OBVIOUS
  <2>1. CASE Discover \/ SourceAdvances
    BY <2>1, DiscoverInv, SourceInv
  <2>2. CASE \E next \in {phase, phase + 1} : Tick(next)
    BY <2>2, TickInv
  <2>3. ASSUME NEW j \in Job, Sweep(j) \/ \E p \in Importer : Claim(p, j)
        PROVE  ImportInv'
    BY <2>3, SweepInv, BeginsInv
  <2>4. ASSUME NEW p \in Importer, ByHand(p) \/ Scan(p) \/ Step(p) \/ Fault(p)
        PROVE  ImportInv'
    BY <2>4, BeginsInv, StartInv, StoreStandingsInv, StoreRoundInv, FinishInv,
       EndsInv, MissOrRaiseInv, LoseLeaseInv DEF Step, Fault
  <2>5. CASE UNCHANGED vars
    BY <2>5 DEF vars, ImportInv, TypeOK, HoldInv, HoldOK, WorkInv, AtWork, ClockInv,
                FinalInv, FinalOK, UpToDate
  <2>6. QED
    BY <2>1, <2>2, <2>3, <2>4, <2>5 DEF Next
<1>3. QED
  BY <1>1, <1>2, PTL DEF Spec

(* The rows and local data of the import keep their types.                 *)
THEOREM ImportTypeCorrect == Spec => []TypeOK
  BY ImportInvariance, PTL DEF ImportInv

(* An event that is recorded as being imported, which no sweep would       *)
(* select, is being imported, or has a job that will, unless an import     *)
(* that nothing repeats was given up past its page, and none has written   *)
(* the state since (PlayHubImportService.import_event,                     *)
(* due_event_import_ids).                                                  *)
THEOREM SyncingHasAWorker == Spec => []SyncingIsWorkedOn
<1>1. ImportInv => SyncingIsWorkedOn
  BY DEF ImportInv, WorkInv, AtWork, SyncingIsWorkedOn, Importing, Queued
<1>2. QED
  BY <1>1, ImportInvariance, PTL

(* Once the sweep is done with an event, and nobody imports it, the tables *)
(* hold its final results and standings, in whatever order the answers of  *)
(* overlapping imports were stored; or else it was left behind "syncing"   *)
(* by an import that died (PlayHubImportService.import_event,              *)
(* due_event_import_ids).                                                  *)
THEOREM DoneIsUpToDate == Spec => []DoneMeansUpToDate
<1>1. ImportInv => DoneMeansUpToDate
  <2> SUFFICES ASSUME ImportInv, phase = After, event # Unknown, ~Wanted,
                      ~Importing, ~Queued, ~Stranded
               PROVE  UpToDate
    BY DEF DoneMeansUpToDate
  <2>1. TypeOK /\ WorkInv /\ ClockInv /\ FinalInv
    BY DEF ImportInv
  <2>2. sync.state # "syncing"
    BY <2>1 DEF WorkInv, AtWork, Importing, Queued, Stranded
  <2>3. sync.state \notin {"discovered", "partial", "no_results", "failed"}
    BY DEF Wanted, Running, After, Late
  <2>4. sync.state # "absent"
    BY <2>1 DEF ClockInv
  <2>5. sync.state = "complete"
    BY <2>1, <2>2, <2>3, <2>4, SyncFacts DEF SyncState
  <2>6. ~(sync.attempt.phase < After)
    BY <2>5 DEF Wanted, Running, After, Late
  <2>7. sync.attempt.phase >= After
    BY <2>1, <2>6, SyncFacts DEF After
  <2>8. QED
    BY <2>1, <2>5, <2>7 DEF FinalInv
<1>2. QED
  BY <1>1, ImportInvariance, PTL
=============================================================================
