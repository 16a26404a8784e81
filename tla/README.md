# A verification project for Inkspire Lorcana

TLA+ modules that model the program in this repository, TLC configurations that
check them on small instances, and theorems that TLAPS proves for all instances.
Paths below are relative to the package `src/lorcana` unless they say otherwise.

## 1. The system

A PostgreSQL-backed modular monolith, run as two kinds of process: any number of
`lorcana-worker` processes (schedules and durable jobs) and a `lorcana-bot`
(Discord).  They share nothing but the database.  Every service call is one
transaction at READ COMMITTED (`db/tx.py`), so what is hard is what happens
*between* transactions: several workers, takeovers, crashes, commits whose answer
is lost, clocks read before a transaction and used in it.

| Component | State it keeps | Operations | What makes it correct |
| --- | --- | --- | --- |
| Durable job queue, `jobs/repository.py`, `jobs/service.py` | tables `jobs`, `job_attempts` | enqueue, claim (expire, take over, lease), heartbeat, succeed, fail, prune | one open attempt per running job, at most `max_attempts`, outcomes never rewritten, a stale token commits nothing |
| Worker, `jobs/worker.py` | the lease in memory, the heartbeat's error | `run_once`: poll, claim, execute, report | at most one current holder, success only after an execution, every job decided |
| Recurring schedules, `jobs/schedule.py` | table `scheduled_jobs` | upsert, `enqueue_due` | each occurrence gets exactly one job, none is skipped, a late schedule catches up |
| Executor and job kinds, `jobs/executor.py`, `jobs/kinds.py` | none | dispatch to a handler; idempotency keys | a retried handler does not do its work twice |
| Rating builds, `ratings/service.py`, `ratings/repository.py` | runs, inputs, history, current ratings, publications | build, publish, prune | a publication always points to complete runs; only current and previous are kept |
| Rating policies and Elo, `ratings/policy.py`, `ratings/elo.py` | none | evaluate, process | which matches count |
| Play Hub import, `playhub/` | events, their sync state, players, matches | discover, sweep, import | an event is imported until it is complete; a failed import is retried |
| Live events, `notifications/live_events.py`, bot | one link per event and channel | scan: refresh, reserve; deliver: pick, check, send, mark | every live event gets its link, each copy is explained, no event is starved |
| Weekly posts, `notifications/weekly_duels.py`, bot | a report, a lease and a page number per week | claim, send a page, advance, release | one report a week, pages in order, progress tells what was posted |
| Duels sync and replays, `duels/service.py`, `duels/repository.py` | watermark, observations, replays and what is derived of them | sync history, process a replay | no game is left behind the watermark, done means complete |
| Replay parser, `duels/replay_parser.py` | none | parse | the effective actions are those in force |
| Coach reviews, `coach/` | review runs and reports | request, analyze, fail | a request is paid for once, a report that was answered stays |
| Teams and identity, `teams/`, `identity/` | teams, members, memberships, links | bootstrap, link, look up | the roster is the file last installed |
| Rating queries, `ratings/query_service.py` | none | leaderboards, profiles, histories, search | an answer is of one run |
| SQLite transfer, `db/transfer_sqlite.py` | the new database | preflight, transfer, validate | what is reported is what is there |
| Catalog, analytics, cache, CLI, configuration, presentation | various | single transactions, or none | listed in `PROJECT.json` with the reason each is left out |

Interactions: schedules and handlers *enqueue* jobs (idempotency keys dedupe);
workers *claim* and *execute* them; handlers call the services above; the bot
*polls* the notification tables.  The queue is the one component all others rely
on, so it comes first.

## 2. Modules

| Module | What it is |
| --- | --- |
| `JobLedger` | abstract specification: the life of a job as its caller understands it |
| `JobQueue` | the two tables and every transaction on them, under arbitrary callers |
| `JobWorker` | workers, heartbeats, faults; composes with `JobQueue` through `INSTANCE` |
| `Occurrence` | `next_occurrence` as pure operators, with one change of zone offset |
| `Schedule` | `scheduled_jobs`, `upsert`, `enqueue_due`, and the jobs' keys |
| `RatingPublication` | rating runs and publications, statement by statement, with row locks, foreign keys and deadlocks |
| `PlayHubImport` | one tournament imported while it goes on: discovery, sweep, overlapping imports |
| `LiveLinks` | links to live events: the worker's scan and the bot's delivery |
| `WeeklyPosts` | the weekly report, page by page under a persisted lease |
| `DuelsSync` | a Duels history fetched page by page, and the replays it asks for |
| `DuelsReplays` | extends it with the jobs that process a replay step by step |
| `ReplayParser` | games recorded frame by frame, and the parser that rebuilds them |
| `CoachReviews` | requests, jobs and the run they share |
| `Roster` | bootstraps of teams, statement by statement, and Discord links |
| `RatingQueries` | questions of several statements while publications turn over |
| `LegacyTransfer` | preflight, transfer and validation of the legacy database |
| `MCJobQueue`, `MCJobWorker`, `MCSchedule`, `MCRatingPublication`, `MCPlayHubImport`, `MCNotifications`, `MCDuels`, `MCOperations` | instances for TLC |
| `JobQueueProofs`, `JobWorkerProofs` | theorems about the queue, and about workers as its callers with their leases in memory |
| `RatingProofs`, `PlayHubProofs` | theorems about `RatingPublication` and `PlayHubImport` |
| `NotificationProofs` | theorems about `WeeklyPosts`, `LiveLinks` and both side by side |
| `CoachProofs`, `DuelsProofs` | theorems about `CoachReviews`; about `DuelsSync`, `DuelsReplays`, `ReplayParser`, and all of them side by side |
| `OperationsProofs` | theorems about `Schedule`, `LegacyTransfer`, `Roster`, `RatingQueries` and all of them side by side |

Operators whose comment begins with *Mutant:* are deliberately wrong versions of
the definition that follows them.  Substituting one makes TLC report the property
`PROJECT.json` pairs it with, which shows that the property is not vacuous.

### JobQueue

A row of `jobs` is a record: `status`, `key` (idempotency key), `count` and `max`
(attempts), `token` (lease_token), and three instants kept relative to the
present: `lease` (time left), `wait` (until `available_at`), `age` (since
`completed_at`).  Relative time keeps the state space finite without a clock that
runs out: `Tick` counts `lease` and `wait` down and `age` up to the retention
period.  The statuses `absent` and `deleted` stand for "no row yet" and "no row
any more"; `cancelled` is allowed by the schema but never written.  Tokens are
numbered in the order they are issued, which is all that `uuid4` is used for.

| Action | Code |
| --- | --- |
| `Enqueue` | `JobRepository.enqueue`: inserts unless the key is held by any row |
| `Claim`, `ClaimNothing` | `JobRepository.claim`, with `expire_exhausted_leases` (`Doomed`, `Closed`), the takeover (`Abandoned`) and the new attempt (`Leased`) |
| `Heartbeat`, `Succeed`, `Fail` | the methods of those names; `Holds` is their common WHERE clause |
| `Prune` | `prune_completed_before` |
| `Tick` | the clock |

`SKIP LOCKED` and clock skew are the parameter `locked`: the rows a scan passes
over.  With it, ordering by priority is subsumed: any claimable row may be the one
returned.  Reports may present any token ever issued for any job, so the results
cover workers that behave arbitrarily badly.  A transaction's clock is read before
it begins, hence the lease it writes may have any time left, even none.

### JobWorker

`pc[w]` is where `Worker.run_once` is: `idle`, `executing`, `succeeding`,
`failing` and `retrying` (the two ways `queue.fail` is called), or `dead`.
`lease[w]` is the `JobLease` in memory and `beating[w]` says that the heartbeat
thread has met no error.  There is one action per outcome of each call.  A
database call that raises may or may not have committed, so `ClaimRaises`,
`BeatRaises`, `ReportSuccessRaises` and `ReportFailureRaises` have both
alternatives.  The handling that `run_once` has for each exception is kept as it
is in the code: a lost lease at `succeed` is forgotten; any other error there is
treated as a failed job; an exception out of `queue.fail`, raised within an
`except` clause, and one out of `queue.claim` end the process.  `executed` is a
history variable: tokens of attempts whose execution returned.

### Occurrence and Schedule

Instants are natural numbers.  `Local`, `UtcOf` and `NextWall` follow Python's
`zoneinfo`: wall-clock times are compared naively within one zone, and a datetime
built from a wall-clock time has fold 0.  In `Schedule`, `rows` is the table;
`kept` the occurrences whose job row still exists (that is what the key dedupes
against); `created` and `first` are history variables.  `Materialize` is one round
of `enqueue_due`, a single transaction for the job and the advance.  `now` may lag
the clock by `CallTime`.  The job an occurrence was given is completed at an
unknown time, but not before it is due, so `Prune` may remove it any time after
`o[2] + Retention`.

*Assumption `Attended`.*  Pruning happens only while no enabled schedule has been
due for a whole retention period (30 days).  Pruning is itself a job, a worker
executes it, and every worker polls the schedules before it claims a job.
Without the assumption `RunsOnce` fails: set back by an upsert with an old clock,
a schedule would enqueue again an occurrence whose first job has been pruned.

### RatingPublication

Here transactions overlap and wait for each other, so a step is one SQL statement.
`runs` and `publications` hold what is committed; `tx[p]` holds the local variables
of process `p` and what its open transaction has written, applied by `Commit`.
`locks[p]` are the rows its transaction has for itself (`FOR UPDATE`, `UPDATE`,
`DELETE`, `INSERT`), `shares[p]` the runs it refers to by a foreign key it has
written; readers wait for nobody, and each statement sees what was committed when
it began (READ COMMITTED).  `source` stands for the eligible facts of the Play Hub
tables, told apart by their digest.

| Action | Code |
| --- | --- |
| `Preview`, `Compare` | `build_and_publish_if_changed`: `preview_source`, then the comparison with the publication |
| `Create`, `Snapshot`, `CalculateAndValidate`, `BuildRaises` | the transactions of `build`, and its `except` clause |
| `LockRun`, `Refuse` | `publish`: `get_run_status(for_update=True)` and its two errors |
| `LockPublication`, `Insert`, `Rotate` | `RatingRepository.publish`: the `SELECT FOR UPDATE` and the alternatives after it |
| `MarkFailed` | `_record_failure` |
| `Retain`, `Choose`, `Delete`, `ForeignKeyFails`, `Commit` | `prune_unretained_runs` and the end of the transaction, shared by `publish`, `_record_failure` and a refresh that found nothing new |
| `PublishByHand` | the command `ratings-publish` |
| `DeadlockVictim`, `Crash`, `SourceChanges` | external: PostgreSQL's deadlock detector, the process, the imports |

A deleted run's row, inputs and ratings are one `Delete`, runs in any order.  The
foreign keys of a publication are checked when all chosen rows are gone.
Identifiers of runs are infinitely many in the program and finitely many here:
`Create` takes one that is unused or `Redundant`, that is, a leftover of the same
status as another leftover, which the code treats alike for ever.

### PlayHubImport

The server's answers change while an import reads them.  `source` is the stage of
the tournament: in stage `s`, rounds up to `s` are paired and those before `s` are
played.  `event`, `sync`, `results` and `standings` are the rows of the event, of
its sync state, of its matches and of its registrations; `imports[p]` is where
importer `p` is in `import_event`.  A step is a transaction.  What it stores was
answered earlier, so it may be any stage between the request before it and now.

Instants are compared with a few others only (start, end, two hours after the end,
the sweep's windows, the retry interval), so an instant is the `phase` it falls in
and whether it is `recent`.

| Action | Code |
| --- | --- |
| `Discover` | `sync_range`, for the one event |
| `Sweep` | `_enqueue_due_imports`, with the query `due_event_import_ids` (`Wanted`, `Due`) |
| `Claim`, `ByHand`, `Scan` | who calls `import_event`: a job, the command line, the scan for live events |
| `Start`, `StoreStandings`, `StoreRound`, `Finish` | the transactions of `import_event` |
| `MissRound`, `Raise`, `RecordFailure`, `FetchPageFails` | its `except` clauses, and an error before its first transaction |
| `Crash`, `LoseLease` | external: whoever imports dies, or cannot record a failure (`Abandon`); a worker's lease runs out and it goes on. The job, if there is one, is retried while it has attempts (`Retried`) |

An import by hand, one of the live scan and one that has lost its lease have no job:
nothing repeats them, and nothing repeats the last attempt of a job (`LastTry`).  The
history variable `lost` says that such an import was given up when the event may have
been `syncing` for its sake, and that no import has written the state since; the
sweep does not select `syncing`, so the event is left behind (`Stranded`).

*Assumptions.*  `TournamentEndsInTime`, `NoneBeganEarlier`: the tournament is over two hours after
its announced end, when the final import is due, and by then no import is under
way that began before it was over.  Without the last one `DoneMeansUpToDate` fails:
of two imports that overlap, the slower may store the older answers, and if the
other finishes last the event counts as finally imported.

### LiveLinks and WeeklyPosts

`LiveLinks` has the two processes that meet in `discord_live_event_announcements`:
the worker's job (`scan`) and the delivery task of each bot (`bot`).  Times are
abstracted to what they are compared with: the `stage` of an event, whether what is
`stored` of it is fresh, whether its last attempt is old enough (`rested`), whether
a link's delay has passed.  `tried` keeps the events by their last attempt, which is
the order of the rotation.

| Action | Code |
| --- | --- |
| `BeginScan`, `ReadEligible`, `Reserve`, `NextEvent`, `ImportSucceeds`, `ImportFails`, `FinishScan` | `_scan_live_events`, `potential_event_ids`, `reserve_eligible`, `record_refresh_attempt` |
| `Pick`, `Check`, `Send`, `SendFails`, `Mark`, `Fail` | `deliver_live_event_links` |
| `AnswerLost`, `TaskEnds`, `Crash`, `ScanDies` | external faults: Discord accepts and the bot never learns of it; an error outside the `try` ends the task; a process dies |

In `WeeklyPosts` the lease of a row is the poster whose claim carries the value the
row holds, as `advance` and `release` compare it; `lapsed` says that its time has
passed.  `shown[w]` are the pages of a week that Discord has accepted, `sends[w]` how
many messages these were, copies included, and `lost[w]` those that no bot will
ever record.

### DuelsSync, DuelsReplays, ReplayParser and CoachReviews

A game is its place in the history.  `account` is the watermark (cursor and
`exhausted`), `observed` the games stored, `sync[s]` the local variables of a run of
`sync_history` and of the enqueueing after it, a transaction a step.  `DuelsReplays`
adds the jobs `duels.process_replay`: `Start`, `Download`, `Persist`, `Normalize`,
`Measure`, each of which may fail, die, or go on without its lease.  Artifacts are
told apart by their digest, and a revision may have the bytes of the one before.

`ReplayParser` has a game that records frames as Duels does and may undo any action
in force, with a log that the undo cuts or goes on; `Parse` is the parser, applied to
every game of up to five frames.

In `CoachReviews` several requests share one row of `coach_analysis_runs`, because
what the model is given has one digest.  A worker is in `evidence`, `open`, `call`,
`complete` or `fail`; `paid` counts calls of the model.

### Roster, RatingQueries and LegacyTransfer

Here a step is a statement, and transactions are READ COMMITTED.  In `Roster`,
`admin[a]` holds the local variables of a bootstrap and what its transaction has
written; unique keys and row locks are waited for.  In `RatingQueries`, `held` are the
runs whose rows are there, `Plan` is the list of statements of each question and
`Value` what each answers; publication with its pruning, which `RatingPublication`
takes apart, is one step.  In `LegacyTransfer`, `versions` is the file as the old
program writes it, `target` the new database, `written[o]` the transaction of an
operator.

### Parts

`MCDuels`, `MCNotifications` and `MCOperations` put several modules in one run.  The
modules of one run share only the database, and what one of them reads of another's
rows is part of its own model: `Schedule` has the keys of the jobs it enqueues,
`RatingQueries` the players of a team.  They are therefore checked side by side and
not interleaved: each behaviour moves one part (variable `part`, or which channel is
configured) and leaves the others as they began, and a property of one part is
checked against all behaviours of that part.

## 3. Runs

| Run | Instance | What it shows |
| --- | --- | --- |
| `mc_job_queue` | 2 jobs sharing a key, up to 3 attempts, lease, delay and retention of one tick | `Consistent`: the two tables agree (attempts dense, one open, one success, tokens and keys unique). `HistoryIsFinal`: no step rewrites an outcome. `ImplementsLedger`: the refinement |
| `mc_job_worker` | 2 workers, 2 jobs, up to 2 attempts, 1 fault | `OneHolder`, `SuccessWasExecuted`, `StaleNeverCommits` |
| `mc_operations`, schedules | 1 schedule, an interval or a daily time, horizon 9, clocks going forward at 4 | `RunsOnce`, `NothingSkipped`, `CatchesUp` |
| `mc_operations`, transfer | 2 operators, 1 event, a file that changes once, 1 import meanwhile | `ReportsAreExact` |
| `mc_operations`, roster | 2 operators, 2 teams, 2 players, 3 bootstraps, 1 Discord account | `RosterAsInstalled` |
| `mc_operations`, questions | 3 players, 3 runs, every kind of question | `AnswersAreOfOneRun` |
| `mc_operations`, jobs | 2 workers, 1 job of up to 2 attempts, 3 faults | `EveryJobIsDecided` |
| `schedule_fold` | the schedules of `mc_operations`, clocks going back | a disagreement, below |
| `mc_rating_publication` | 2 processes, 5 run identifiers, 1 publication; 1 change of the facts, 1 crash, 1 build that raises, 1 publication by hand | `PublicationsAreComplete`, `PointersRotate`, `BuildsAreLeftAlone` |
| `rating_liveness` | the same without faults | `EveryRefreshEnds`, `LeftoversArePruned`, `FactsArePublished` |
| `rating_abandoned` | 4 identifiers, only 1 build that raises | a disagreement, below |
| `mc_playhub_import` | 2 importers, 1 round, 1 job of 2 attempts, 2 faults, 1 import by hand | `DoneMeansUpToDate`, `SyncingIsWorkedOn` |
| `playhub_standings` | 2 importers, 2 rounds, no faults or imports by hand | a disagreement, below |
| `mc_notifications` | 2 bots; 2 events, of which a scan refreshes 1; 2 weeks, reports of one and two pages; 1 fault | `CopiesAreExplained`, `EveryEventIsRefreshed`, `LinksAreDelivered`, `OneReportPerWeek`, `PagesAreAccountedFor`, `LastWeekIsPosted` |
| `mc_duels` | 1 sync, pages of 1 game, 2 pages a run; 4 games, or 1 with a replay of 2 revisions, 2 workers and jobs of 2 attempts; 2 requests, 2 coaches; games of 5 frames with 3 cards | `NoGapBehindWatermark`, `DoneMeansComplete`, `ReplaysAreProcessed`, `PaidAsAsked`, `ReportsAreKept`, `EffectiveActionsAreTheGame` |
| `duels_overlap` | 2 syncs, 4 games, no fault | a disagreement, below |

*Why the bounds are enough.*  Two jobs are needed for uniqueness of tokens and
keys and for a worker to be stale on one job while it holds another; no property
relates three.  Two attempts make a retry, a takeover and an exhausted budget
possible; the third, in the queue's run, puts an attempt between the first and the
last.  Times are only compared with zero, so one tick separates "passed" from "not
yet passed".  A fault makes one commit ambiguous or kills one process; in the jobs of
`mc_operations` there are more faults than attempts, so that every attempt may be cut
short.  Schedules do not interact except through the order in which due ones are
taken, which is left open, so one name suffices; concurrent pollers need no identity,
as a round is one transaction.  The horizon leaves room for three occurrences of each
kind, downtime between them, and pruning.

For ratings, a conflict is between two transactions; five identifiers are the
current run, the previous one, one in work per process and one leftover.  One
change of the facts gives a second generation, and two refreshes that start
together give a third.  Publications under different names interact only through
what they retain, which one name, seen from two processes, already exercises.
For imports, a round that is paired, played or missed makes a partial import and an
event in mid-course possible, `playhub_standings` and the theorems have more, and three
importers would add nothing to two of which one is slow; scans and discoveries are not
bounded.  One fault is any one of a failed request, a failed transaction, a crash of
any import and a lost lease; two use up the attempts of a job, or part a worker from
its lease and then kill it.

For notifications, two bots are needed for a copy and for a takeover; two events of
which a scan takes one for a rotation; two pages for a takeover between them; two
weeks for one to end while it is posted.  For Duels, two pages a run of four make a
run that is stopped, one that continues it and games played in between; two revisions
make an older job meet a newer replay.  Five frames are an undo of an action that
follows an undone one, or an ability with two responses and an undo of it.  Two
requests share a run, and an old job of two attempts overlaps itself.  Two operators
who list two players in either order can wait for each other; three bootstraps are
two that overlap and one that reinstalls.  Three runs make the one a question is about
current, previous and gone.

*Fairness.*  `run_forever` polls for ever, so claiming and finding nothing are
weakly fair, as are reporting, the end of an execution, time, and the restart of
a dead process by whatever supervises the deployment.
Nothing is assumed about heartbeats, faults, or who enqueues.  An execution that
hangs for ever with a live heartbeat would keep its lease for ever: that an
execution ends is an assumption, not a result.  For schedules, workers poll for
ever, and since every scan takes the oldest due row first, every due schedule has
its turn.  The bots' loops poll for ever and their leases and delays pass; the scan
is scheduled again and again.  A sync comes up every six hours, and no step of it or of
a replay's job waits for ever.  For ratings, a refresh that began goes on and new ones keep starting
(a schedule sees to that); a row is granted to whoever has waited for it, even if
others come and go (strong fairness of `TakeRow`: PostgreSQL queues waiters).  Two
refreshes that always start together can deadlock for ever, each being the victim
in turn; TLC found that, and `LeftoversArePruned` and `FactsArePublished` have the
premise `DeadlocksCease` because of it.  `EveryRefreshEnds` does not need it.

*Findings.*  `schedule_fold`: the docstring of `next_occurrence`
(`jobs/schedule.py:50`) promises an occurrence strictly after its argument.  In
the second pass of an hour the zone repeats, line 75 compares wall-clock times and
takes a time of that hour to be still ahead, although its first pass is over.  In
America/New_York, a daily 01:45 counted from 2024-11-03T06:30Z gives
2024-11-03T05:45Z.  The default schedules are in UTC and not affected.

`rating_abandoned`: `docs/OPERATIONS.md:83` and the comment in `_record_failure`
(`ratings/service.py:462`) say that failed builds are removed immediately.  Marking
the run failed and pruning are one transaction, whose exceptions are swallowed.  If
another process publishes a run this pruning has chosen, deleting it violates a
foreign key (or the two deadlock), the mark is rolled back as well, and the run
stays `building`, which no pruning ever removes.  A crash in a build has the same
result, but there no document says otherwise.

`duels_overlap`: the comment at `duels/service.py:192` says that behind a page
without new games everything is observed.  No lock keeps two syncs of a connection
apart.  One that is stopped by its page limit has stored new pages; the other read
"exhausted" before that, finds its first page observed, stops, and writes "exhausted"
again.  The games between the two are not fetched again.

`playhub_standings`: the comment at `playhub/service.py:152` and the test
`test_pairings_do_not_replace_existing_ranked_standings` say that pairings do not
overwrite ranked standings.  The decision is taken on the page that the import
fetched first.  If another import stores standings meanwhile, the slower one
replaces ranks and points by those of the pairings, until a later import, if any, repairs them.

## 4. Proofs

The theorems hold for any sets of jobs, workers, runs, weeks, games, requests, events,
players and operators and for any bounds, the number of faults among them.  Each proof has the same form: an
inductive invariant, stated as a conjunction of named parts, checked by TLC on the
instance of the runs before it was proved; lemmas saying what one row or one process
needs for the whole invariant to be preserved; one lemma per action; and the
property as a consequence.

| Module | Invariant | Theorems on properties of the runs |
| --- | --- | --- |
| `JobQueueProofs` | `IInv` (`Invariance`) | `TypeCorrect` (`TypeOK`), `Consistency` (`Consistent`), `Finality` (`HistoryIsFinal`), `LedgerRefinement` (`ImplementsLedger`) |
| `JobWorkerProofs` | that of the queue; `FInv` (`FencingInvariance`) | `WorkersAreCallers`, `WorkersKeepTablesConsistent`, `WorkersTypeCorrect` (`TypeOK`), `LeaseIsExclusive` (`OneHolder`), `SuccessIsEarned` (`SuccessWasExecuted`), `StaleWorkersAreFenced` (`StaleNeverCommits`) |
| `RatingProofs` | `RatingInv` (`RatingInvariance`) | `RatingTypeCorrect` (`TypeOK`), `PublishedIsComplete` (`PublicationsAreComplete`), `NoGenerationIsLost` (`PointersRotate`), `BuildsSurviveOthers` (`BuildsAreLeftAlone`) |
| `PlayHubProofs` | `ImportInv` (`ImportInvariance`) | `ImportTypeCorrect` (`TypeOK`), `SyncingHasAWorker` (`SyncingIsWorkedOn`), `DoneIsUpToDate` (`DoneMeansUpToDate`) |
| `NotificationProofs` | `WeekInv` (`WeekInvariance`), `LinkInv` (`LinkInvariance`), `ScanInv` (`ScanInvariance`) | `OneReport` (`OneReportPerWeek`), `PagesAccountedFor` (`PagesAreAccountedFor`), `CopiesExplained` (`CopiesAreExplained`), `NotificationsAreSafe` (these and `TypeOK`) |
| `DuelsProofs` | `ReplayInv` (`ReplayInvariance`), `SyncInv`, `ParserInv` (`ParserInvariance`) | `DoneIsComplete` (`DoneMeansComplete`), `NoGaps` (`NoGapBehindWatermark`), `WatermarkHolds` (`OlderPagesAreObserved`), `UndoneIsTakenBack`, `DuelsAreSafe` (`TypeOK` and the properties that need no premise) |
| `CoachProofs` | `CoachInv` (`CoachInvariance`) | `OneCallPerRequest` (`PaidAsAsked`), `ReportsStay` (`ReportsAreKept`) |
| `OperationsProofs` | `SchedInv` (`ScheduleInvariance`), `TransferProgress`, `TransferInv`, `RosterInv` (`RosterInvariance`), `QueryInv` (`QueryInvariance`) | `OccurrencesRunOnce` (`RunsOnce`), `OccurrencesAreNotSkipped` (`NothingSkipped`), `ReportsExact` (`ReportsAreExact`), `TeamsAsInstalled` (`RosterAsInstalled`), `AnswersOfOneRun` (`AnswersAreOfOneRun`), `OperationsAreSafe` (these and `AllTypeOK`) |

*The queue.*  The inductive invariant is
`IInv == TypeOK /\ RowsOK /\ TokensAreUnique /\ OneRowPerKey`.  `RowsOK` says of
every row what `Consistent` says, and adds that a row that is absent or deleted has
used no attempts: without it an enqueued row could begin with a count its attempts
do not match.  A step of the queue changes each row and its attempts in one of a few
ways (`Changes`), and each conjunct that speaks of one job is shown to be preserved by
each way.  What relates two jobs, the uniqueness of tokens and keys, is shown from
two facts: a new token is larger than every token in use, and a new key is free.

*Workers.*  Every step of the workers, faults included, is a step of the queue or
leaves the tables alone, so the queue's theorems hold of the system of workers.  The
properties of the workers themselves relate what is in memory to the tables.  `FInv`
says that the lease of every busy worker is *backed*: its job is deleted, or the
attempt of that number carries its token; and that no two busy workers remember one
token.  A worker can then only present a token that is the row's if it was leased the
row's newest attempt, which is what fencing means.

*Ratings.*  Transactions overlap, so the invariant says what survives between the
statements of one.  `PublishInv`: from `FOR UPDATE` to the commit, the run in hand may
be published and the publication is the one that was read.  It holds because a row
has one owner (`ExclusiveInv`) and because a run is deleted or concluded only by who
owns its row.  `BuildInv`: a run being built is in nobody else's hands, but for calls
by hand that will be refused; this is not a matter of locks, as a build holds none
between its transactions, but of nobody knowing the identifier.  `DoomInv`: no list
of runs to delete has one that another process builds.  Completeness of what is
published then needs the foreign keys at the commit (`Orphaned`): the pruning's list
may well contain a run that was published after it was drawn up.  The locks on
referenced rows (`shares`) play no part in safety.

*Imports.*  `SyncingIsWorkedOn` needs to know who will repeat what (`HoldInv`, `WorkInv`):
a held job is running and in one importer's hands, a queued one has an attempt left,
and if the event is `syncing`, then an import past its page, or any import of a job, or
a queued job will write the state, or else the event is `lost`.  An import without a
job that is still at its page does not count, as it may fail there without a record.
`DoneMeansUpToDate` needs that an import that began late enough has only stored what
is final (`FinalInv`), and that whatever is under way once the last import is due read
the final page (`ClockInv`), which is the assumption `NoneBeganEarlier` made of the
environment.

*Weekly posts.*  `ShownOK`: of a week, Discord has a prefix of the pages of the row's
report, and perhaps the next one.  `PosterOK`: a bot at the pages of a week is never
ahead of the row, and while the lease is still its own, nor behind.  `Counted` is the
property's sum; taking over, losing an answer and advancing move one page from one
summand to another.

*Duels.*  `ReplayInv` keeps, for each worker, what its earlier steps have left in the
tables, whoever works on the same replay meanwhile.  `SyncInv` relates the cursor of a
run to the games missing: none is at or after it (`NoneFrom`), and a run that began
with the whole history observed still finds everything below its cursor observed
(`Walking`).  It is inductive only while no two runs walk through the history at once
(`NoOverlap`), and `NoGaps` and `WatermarkHolds` have `[]NoOverlap` as a premise.  The
code does not see to that, and the run `duels_overlap` shows what then happens;
`mc_duels`, with one sync, checks the property where the premise holds.

*Reviews.*  `PaidOK` counts: calls already paid and workers that may still pay are
together no more than the attempts of the request.  `ReviewInv`: if no commit was
doubted and no request is an old one, at most one worker is between opening the run
and concluding it, and the run is then `running`.

*Live links.*  `CopiesOK` is a sum again: the copies sent, the bots about to send or to
mark, and the acceptances that were never recorded.  A bot that is ahead of the row is
one of those who picked the link while it was due, and there are no more of them than
bots.  `ScanInv` is about types: `TriedOK` and `QueueOK` say that the rotation and the
queue list every event at most once.  The queries answer in an order, which is a
`CHOOSE` among the arrangements of a set, so that an arrangement exists must be proved:
`LeastOf` takes the least-number principle from the library's well-foundedness of the
natural numbers, and `Arrangement` follows by looking at a least counterexample.

*The parser.*  `ParserInv` gives the frames their shape: the target of an undo is
earlier than the undo and is no undo or mulligan itself.  `UndoneIsTakenBack` then says
of any game that the actions in the range of no later undo are the actions in force,
although a range is a number and undos may take back undone actions.

*Schedules.*  `RunsOnce` is not inductive, as the job that dedupes an occurrence is
pruned one day.  `Accounted` adds that an occurrence that ran and was pruned lies behind
the clock by more than the retention and behind every schedule that is enabled: an upsert
with an old clock (`CallAssumption`) does not reach back to it.  `NothingSkipped` needs
the arithmetic of `NextOccurrence`: what it returns is an occurrence, and none lies
between, in both zones and across the change.  `UpsertsAreLater` has the premise
`Before <= After`; the run `schedule_fold` shows that it is needed.

*The transfer.*  `TransferProgress` says which tables a command has copied and compared
at each step, and that each is a table of some version since the file was opened; the
checksum taken again at the end leaves one version.  No lock is part of the argument:
that a second operator, or an import, disturbs nothing follows from the comparison.
`TransferInv` is what types need: keys are unique, also between transactions.

*The roster.*  `TaskOK` says what a bootstrap has written up to the player it is at,
`LinksOwn` and `LinksApart` that two transactions never link one player or draw one
member (the unique keys), and `TeamsOK` that committed teams stay enrolled, because
links once made are not unmade.

*Questions.*  `RunIsHeld`: the run a question resolved is the current one until a
publication turns over, and one of the two that are retained until the next does.
`TrueTo`: what it has been answered is of that run, since rows of a run never change.

*Side by side.*  `WeekSpec`, `LinkSpec`, `ReplaySpec`, `CoachSpec`, `ParserSpec`,
`TransferSpec`, `RosterSpec` and `QuerySpec` are the specifications of single parts.
`NotificationsAreSafe`, `DuelsAreSafe` and `OperationsAreSafe` carry their theorems to
the specifications that TLC runs: a step of one part is a stutter of the others.

*Assumptions.*  The proofs assume what the modules assume of their constants, and
nothing else; TLC evaluates all of it.  Most of these say that null values are not
among the values they stand for, that bounds are natural numbers and that processes
which are counted are finitely many.  The others are about the code and its setting:

* `ZoneAssumption`: offsets are within a day, and the change of offset does not come so
  early that wall-clock times become negative, which no datetime of the code's has.
* `SpecAssumption`: a schedule is an interval of at least one second or a daily time;
  `next_occurrence` refuses others.
* `CallAssumption`: finished jobs are kept (30 days) for longer than a call of
  `enqueue_due` takes, and than this and the hour by which clocks go back together.
* `ReachAssumption`: the bound on times is beyond any next occurrence; only the model
  has such a bound.
* `QueryAssumption`: a player without rated matches has no row, as a build inserts a
  rating where it has counted a match; limits are positive.
* `ParserAssumption`: there are two cards to begin with.

*Only model-checked.*  `EffectiveActionsAreTheGame`, but for its part about undos
(above): the rest is about the parser's folds over frames, patches and lines, which the
provers cannot expand.  And liveness (`EveryJobIsDecided`, `CatchesUp`,
`EveryRefreshEnds`, `LeftoversArePruned`, `FactsArePublished`, `EveryEventIsRefreshed`,
`LinksAreDelivered`, `LastWeekIsPosted`, `ReplaysAreProcessed`), which is out of their
reach.  `NoAbandonedBuilds`, `RankedStandingsStay`, `NextIsLater` where clocks go back,
and `OlderPagesAreObserved` where syncs overlap, are the disagreements of section 3 and
not theorems.

## 5. What the properties leave open

* `CopiesAreExplained` allows a copy per bot at the same time, and one per message
  whose acceptance was never recorded: the code promises delivery at least once.
* `LinksAreDelivered` excepts the case that the delivery task of every bot has ended
  by a database error outside its `try`; the bots then run on without it.
* `SyncingIsWorkedOn` and `DoneMeansUpToDate` except an event that is left `syncing` by an
  import that nothing repeats.  `import_event` commits that state before it fetches
  standings and rounds, and `due_event_import_ids` (`playhub/repository.py:371`) does not
  select it, although `docs/OPERATIONS.md:78` says that the sweep queues retries for
  recent events that have started and are not complete.  A worker that dies in the scan
  for live events leaves such an event, as does a record of a failure that fails
  (`_scan_live_events` swallows that error, `jobs/executor.py:282`), an import that had
  lost its lease, one by hand, and the last attempt of a job.  A later scan may repair
  it while the event goes on; after its end nothing does, until someone imports it by
  hand.
* `ReplaysAreProcessed` counts the failure of an older revision's job as an end.  Its
  last attempt may keep undecodable bytes under the new revision, and
  `pending_replays` then never asks for that one.  Nor does the model have pages that
  no sync can ever parse: `parse_history_game` raises for the whole page.
* `ReportsAreKept` leaves out commits whose answer was lost and overlapping attempts
  of jobs from before the bounded reviews: in both a completed run is marked failed.
  A worker that dies leaves a run of a one-attempt job `running` for ever.
* `AnswersAreOfOneRun` speaks of questions during which at most one publication
  turned over.  With two, the run is pruned under the question, which may answer that
  a player is first of none.
* `NothingSkipped` is stated from the last upsert on: an upsert counts from now and
  drops due occurrences (docs/OPERATIONS.md:85).

## 6. Not modelled, and the plan

Left out for good: presentation (Discord views, CLI output), normalisation of single
records of external JSON, floating-point Elo and the policies beside it,
language-model calls and text selection, read-only queries of one statement, the card
catalog (one snapshot per generation), analytics (an append-only log), the read cache
(one thread), configuration, migrations.  Names, payloads, error texts and priorities
are abstracted everywhere.

What is left to do is the rest of `EffectiveActionsAreTheGame`: that patches applied in
order rebuild the state, that the lines given to a frame are those it wrote, and that
the inferred cards follow from them.

The hazards the modules are for are in `PROJECT.json`, each at its line.
