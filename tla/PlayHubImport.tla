--------------------------- MODULE PlayHubImport ---------------------------
(***************************************************************************)
(* Importing one tournament from Play Hub while it goes on                 *)
(* (lorcana/playhub/service.py, repository.py, parser.py, status.py, and   *)
(* the handlers of lorcana/jobs/executor.py that discover, sweep and       *)
(* import).                                                                *)
(*                                                                         *)
(* The server's answers change while an import reads them, one request     *)
(* after the other, and several imports of the event may be under way.     *)
(* Each transaction is one step; what it stores was answered earlier, so   *)
(* it may be anything the server has said since the request before it.     *)
(* Events meet only in the order in which a sweep takes them, which is     *)
(* left open.                                                              *)
(*                                                                         *)
(* An instant is the phase of the event it falls in, and whether it is     *)
(* more recent than the sweep's retry interval.                            *)
(***************************************************************************)
EXTENDS Naturals

CONSTANTS
    Importer,       \* workers, and command lines
    Job,            \* jobs that import the event and are not finished
    NoJob,
    Rounds,         \* rounds of the tournament
    MaxAttempts,    \* max_attempts of an import job
    MaxFaults,      \* bound on failed requests, crashes and lost leases
    MaxManual,      \* bound on imports by command line
    LastPhase       \* bound on the clock

ASSUME NoJobAssumption == NoJob \notin Job
ASSUME BoundAssumption == {Rounds, MaxFaults, MaxManual} \subseteq Nat
ASSUME AttemptAssumption == MaxAttempts \in Nat \ {0}

VARIABLES
    phase,          \* the time, as a phase of the event
    source,         \* how far the tournament has come
    event,          \* the event's row: how far it had come when last seen
    sync,           \* its row in playhub_event_sync_state
    results,        \* playhub_matches of each round
    standings,      \* playhub_registrations
    jobs,
    imports,        \* what each importer is doing
    lost,           \* history: the event was left behind in mid-import (see Abandon)
    used            \* faults and imports by command line so far

vars == <<phase, source, event, sync, results, standings, jobs, imports, lost, used>>
tables == <<event, sync, results, standings>>

\* Before start_datetime; until end_datetime; until two hours later, when the
\* last import is due; until recent_complete_days, and until lookback_days.
Before == 0
Running == 1
Grace == 2
After == 3
Late == 4
Past == 5
ASSUME ClockAssumption == LastPhase \in After..Past

\* In stage s, rounds up to s are paired and those before s are played.
Stage == 0..(Rounds + 1)
Final == Rounds + 1
Unknown == Final + 1
Round == 1..Rounds

\* Matches of a round: none, without results, with results.
ResultsOf(r, s) == IF s < r THEN 0 ELSE IF s = r THEN 1 ELSE 2
\* Registrations: none, from the pairings, or ranked after round s - 1.
StandingsOf(s) == s

Instant == [phase : Before..LastPhase, recent : BOOLEAN]
Never == [phase |-> Before, recent |-> FALSE]
Now == [phase |-> phase, recent |-> TRUE]

SyncState == {"absent", "discovered", "syncing", "complete", "partial",
              "no_results", "failed"}
Sync == [state : SyncState, attempt : Instant]

Control == {"idle", "fetching", "ranking", "asking", "failing"}
Import ==
    [pc : Control, job : Job \cup {NoJob}, observed : Instant, page : Stage,
     round : 1..(Rounds + 1), missed : BOOLEAN]
Idle ==
    [pc |-> "idle", job |-> NoJob, observed |-> Never, page |-> 0,
     round |-> 1, missed |-> FALSE]

JobRow == [status : {"none", "queued", "running"}, count : 0..MaxAttempts]
NoRow == [status |-> "none", count |-> 0]

Init ==
    /\ phase = Before
    /\ source = 0
    /\ event = Unknown
    /\ sync = [state |-> "absent", attempt |-> Never]
    /\ results = [r \in Round |-> 0]
    /\ standings = 0
    /\ jobs = [j \in Job |-> NoRow]
    /\ imports = [p \in Importer |-> Idle]
    /\ lost = FALSE
    /\ used = [faults |-> 0, manual |-> 0]

Use(what, bound) ==
    /\ used[what] < bound
    /\ used' = [used EXCEPT ![what] = @ + 1]

Goto(p, label) == imports' = [imports EXCEPT ![p].pc = label]

-----------------------------------------------------------------------------
(***************************************************************************)
(* Discovery                                                               *)
(***************************************************************************)
\* What the server answered may be of any age.
Discover ==
    /\ event' \in 0..source
    /\ sync' = IF sync.state = "absent" THEN [sync EXCEPT !.state = "discovered"]
               ELSE sync
    /\ UNCHANGED <<phase, source, results, standings, jobs, imports, lost, used>>

-----------------------------------------------------------------------------
(***************************************************************************)
(* The sweep, which queues imports of events that are due                  *)
(***************************************************************************)
InProgress(s) == s \in 1..(Final - 1)

\* Mutant: an event that was imported completely is due only while it goes on.
WantedWhileActive ==
    /\ phase \in Running..Late
    /\ \/ sync.state \in {"discovered", "partial", "no_results", "failed"}
       \/ sync.state = "complete" /\ phase <= After /\ InProgress(event)
\* The event would be due, if it was not tried a moment ago.
Wanted ==
    /\ phase \in Running..Late
    /\ \/ sync.state \in {"discovered", "partial", "no_results", "failed"}
       \/ /\ sync.state = "complete"
          /\ phase <= After
          /\ \/ InProgress(event)
             \/ phase = After /\ sync.attempt.phase < After

Due == Wanted /\ ~sync.attempt.recent

Sweep(j) ==
    /\ Due
    /\ jobs[j].status = "none"
    /\ jobs' = [jobs EXCEPT ![j] = [status |-> "queued", count |-> 0]]
    /\ UNCHANGED <<phase, source, tables, imports, lost, used>>

-----------------------------------------------------------------------------
(***************************************************************************)
(* The ways an import begins and ends                                      *)
(***************************************************************************)
Begin(p, j) ==
    /\ imports[p].pc = "idle"
    /\ imports' = [imports EXCEPT ![p] =
          [Idle EXCEPT !.pc = "fetching", !.job = j, !.observed = Now, !.page = source]]

Claim(p, j) ==
    /\ jobs[j].status = "queued"
    /\ Begin(p, j)
    /\ jobs' = [jobs EXCEPT ![j] =
          [status |-> "running", count |-> @.count + 1]]
    /\ UNCHANGED <<phase, source, tables, lost, used>>

ByHand(p) ==
    /\ Use("manual", MaxManual)
    /\ Begin(p, NoJob)
    /\ UNCHANGED <<phase, source, tables, jobs, lost>>

\* The scan for live events refreshes those that go on, and notes the attempt
\* before it makes it.
Scan(p) ==
    /\ event # Unknown
    /\ phase = Running
    /\ Begin(p, NoJob)
    /\ sync' = [state |-> IF sync.state = "absent" THEN "discovered" ELSE sync.state,
                attempt |-> Now]
    /\ UNCHANGED <<phase, source, event, results, standings, jobs, lost, used>>

\* What becomes of the job of an import that returned.
Succeeded(p) ==
    IF imports[p].job = NoJob THEN jobs
    ELSE [jobs EXCEPT ![imports[p].job] = NoRow]
\* ... that raised, or lost its lease, or died: it is retried if it can be.
Retried(p) ==
    IF imports[p].job = NoJob THEN jobs
    ELSE [jobs EXCEPT ![imports[p].job] =
            IF @.count < MaxAttempts THEN [@ EXCEPT !.status = "queued"]
            ELSE NoRow]

\* The import has stored its page, or is a job's, whose earlier attempt may
\* have: sync may say "syncing" for its sake.
AtWork(p) ==
    \/ imports[p].pc \in {"ranking", "asking", "failing"}
    \/ imports[p].pc = "fetching" /\ imports[p].job # NoJob
\* It has no job, or none that is tried again.
LastTry(p) ==
    imports[p].job = NoJob \/ jobs[imports[p].job].count >= MaxAttempts

\* The import ends, and its outcome is not recorded.
Abandon(p) ==
    /\ jobs' = Retried(p)
    /\ imports' = [imports EXCEPT ![p] = Idle]
    /\ lost' = (lost \/ (AtWork(p) /\ LastTry(p)))
    /\ UNCHANGED <<phase, source, tables>>

\* Whoever imports dies, or cannot record a failure.  A lease runs out.
Crash(p) ==
    /\ imports[p].pc # "idle"
    /\ Use("faults", MaxFaults)
    /\ Abandon(p)

\* A worker loses its lease and goes on, while another takes the job over.
LoseLease(p) ==
    /\ imports[p].job # NoJob
    /\ Use("faults", MaxFaults)
    /\ jobs' = Retried(p)
    /\ imports' = [imports EXCEPT ![p].job = NoJob]
    /\ lost' = (lost \/ (imports[p].pc = "fetching" /\ LastTry(p)))
    /\ UNCHANGED <<phase, source, tables>>

-----------------------------------------------------------------------------
(***************************************************************************)
(* import_event                                                            *)
(***************************************************************************)
\* The page cannot be fetched or parsed: nothing is recorded.
FetchPageFails(p) ==
    /\ imports[p].pc = "fetching"
    /\ Use("faults", MaxFaults)
    /\ Abandon(p)

\* Mutant: as many rounds as stages.
MatchRoundsAndOne(p) == 1..imports[p].page
\* Rounds of the page that have pairings.
MatchRounds(p) == {r \in Round : r <= imports[p].page}
HasStandings(s) == s >= 2

Start(p) ==
    /\ imports[p].pc = "fetching"
    /\ \E s \in imports[p].page..source :
          /\ event' = s
          /\ imports' = [imports EXCEPT
                ![p].page = s, ![p].pc = IF HasStandings(s) THEN "ranking" ELSE "asking"]
    /\ sync' = [state |-> "syncing", attempt |-> imports[p].observed]
    /\ lost' = FALSE
    /\ UNCHANGED <<phase, source, results, standings, jobs, used>>

\* The standings of a round, once they are there, stay as they are.
StoreStandings(p) ==
    /\ imports[p].pc = "ranking"
    /\ standings' = StandingsOf(imports[p].page)
    /\ Goto(p, "asking")
    /\ UNCHANGED <<phase, source, event, sync, results, jobs, lost, used>>

\* Without standings, the latest pairings tell who is registered.
StoreRound(p) ==
    LET r == imports[p].round IN
    /\ imports[p].pc = "asking"
    /\ r \in MatchRounds(p)
    /\ \E s \in imports[p].page..source :
          results' = [results EXCEPT ![r] = ResultsOf(r, s)]
    /\ standings' = IF ~HasStandings(imports[p].page) /\ r = imports[p].page
                    THEN StandingsOf(1) ELSE standings
    /\ imports' = [imports EXCEPT ![p].round = @ + 1]
    /\ UNCHANGED <<phase, source, event, sync, jobs, lost, used>>

\* Fetching, parsing or storing one round fails; the others go on.
MissRound(p) ==
    /\ imports[p].pc = "asking"
    /\ imports[p].round \in MatchRounds(p)
    /\ Use("faults", MaxFaults)
    /\ imports' = [imports EXCEPT ![p].round = @ + 1, ![p].missed = TRUE]
    /\ UNCHANGED <<phase, source, tables, jobs, lost>>

AllRoundsTried(p) ==
    imports[p].pc = "asking" /\ imports[p].round \notin MatchRounds(p)

Outcome(p) ==
    IF MatchRounds(p) = {} THEN "no_results"
    ELSE IF imports[p].missed THEN "partial" ELSE "complete"

Finish(p) ==
    /\ AllRoundsTried(p)
    /\ sync' = [state |-> Outcome(p), attempt |-> imports[p].observed]
    /\ lost' = FALSE
    /\ jobs' = Succeeded(p)
    /\ imports' = [imports EXCEPT ![p] = Idle]
    /\ UNCHANGED <<phase, source, event, results, standings, used>>

\* The standings, or the transaction that finishes, fail.
Raise(p) ==
    /\ imports[p].pc = "ranking" \/ AllRoundsTried(p)
    /\ Use("faults", MaxFaults)
    /\ Goto(p, "failing")
    /\ UNCHANGED <<phase, source, tables, jobs, lost>>

\* Mutant: the failure is recorded in the attempt only.
RecordFailureOfAttempt(p) ==
    /\ imports[p].pc = "failing"
    /\ jobs' = Retried(p)
    /\ imports' = [imports EXCEPT ![p] = Idle]
    /\ UNCHANGED <<phase, source, tables, lost, used>>
RecordFailure(p) ==
    /\ imports[p].pc = "failing"
    /\ sync' = [state |-> "failed", attempt |-> imports[p].observed]
    /\ lost' = FALSE
    /\ jobs' = Retried(p)
    /\ imports' = [imports EXCEPT ![p] = Idle]
    /\ UNCHANGED <<phase, source, event, results, standings, used>>

-----------------------------------------------------------------------------
(***************************************************************************)
(* Time and the tournament                                                 *)
(***************************************************************************)
Aged(t) == [t EXCEPT !.recent = FALSE]

\* When the last import is due, no import is under way that began before the
\* tournament ended.
NoneBeganEarlier(next) ==
    next = After => \A p \in Importer :
        imports[p].pc = "idle" \/ imports[p].page = Final

\* The tournament starts when it should, and has ended when its last import is
\* due.
TournamentEndsInTime(next) == next = After => source = Final

Tick(next) ==
    /\ next \in {phase, phase + 1} \cap (0..LastPhase)
    /\ next # phase => NoneBeganEarlier(next) /\ TournamentEndsInTime(next)
    /\ phase' = next
    /\ sync' = [sync EXCEPT !.attempt = Aged(@)]
    /\ imports' = [p \in Importer |-> [imports[p] EXCEPT !.observed = Aged(@)]]
    /\ UNCHANGED <<source, event, results, standings, jobs, lost, used>>

SourceAdvances ==
    /\ phase \in Running..Grace
    /\ source < Final
    /\ source' = source + 1
    /\ UNCHANGED <<phase, tables, jobs, imports, lost, used>>

-----------------------------------------------------------------------------
Step(p) ==
    \/ Start(p) \/ StoreStandings(p) \/ StoreRound(p)
    \/ Finish(p) \/ RecordFailure(p)

Fault(p) ==
    \/ FetchPageFails(p) \/ MissRound(p) \/ Raise(p) \/ Crash(p) \/ LoseLease(p)

Next ==
    \/ Discover \/ SourceAdvances
    \/ \E next \in {phase, phase + 1} : Tick(next)
    \/ \E j \in Job : Sweep(j) \/ \E p \in Importer : Claim(p, j)
    \/ \E p \in Importer : ByHand(p) \/ Scan(p) \/ Step(p) \/ Fault(p)

Spec == Init /\ [][Next]_vars

-----------------------------------------------------------------------------
TypeOK ==
    /\ phase \in Before..LastPhase
    /\ source \in Stage
    /\ event \in Stage \cup {Unknown}
    /\ sync \in Sync
    /\ results \in [Round -> 0..2]
    /\ standings \in Stage
    /\ jobs \in [Job -> JobRow]
    /\ imports \in [Importer -> Import]
    /\ lost \in BOOLEAN
    /\ used \in [faults : 0..MaxFaults, manual : 0..MaxManual]

Importing == \E p \in Importer : imports[p].pc # "idle"
Queued == \E j \in Job : jobs[j].status = "queued"
UpToDate ==
    /\ \A r \in Round : results[r] = ResultsOf(r, Final)
    /\ standings = StandingsOf(Final)

\* An import past its page was given up, nobody will repeat it, and no import has
\* written the state since.
Stranded == sync.state = "syncing" /\ lost

\* An event in state "syncing", which no sweep selects, is being imported, or
\* has a job that will, unless it was left behind: the retries of a job, leases
\* that lapse and recorded failures leave none, whatever else overlaps.
SyncingIsWorkedOn == sync.state = "syncing" => Importing \/ Queued \/ lost

\* Once the sweep is done with an event that was not left behind, and nobody
\* imports it, the tables hold its final results and standings: no answer from
\* before the end, however late it was stored, has the last word.
DoneMeansUpToDate ==
    phase = After /\ event # Unknown /\ ~Wanted /\ ~Importing /\ ~Queued =>
        UpToDate \/ Stranded

\* Pairings never replace ranked standings.
RankedStandingsStay == [][standings >= 2 => standings' >= 2]_vars
=============================================================================
