------------------------------ MODULE DuelsSync ------------------------------
(***************************************************************************)
(* The history of a Duels account, fetched page by page, and the job that  *)
(* fetches it and asks for the replays it finds                            *)
(* (DuelsService.sync_history, DuelsRepository,                            *)
(* JobExecutor._sync_duels_connection).                                    *)
(*                                                                         *)
(* A game is told apart by its place in the history: 1 is the oldest.  The *)
(* cursor of a page is the oldest game on it, 0 stands for no cursor.  A   *)
(* replay is told apart by its revision, 0 when the history shows none.    *)
(* Left out: what else is known of a game, timestamps and error texts, and *)
(* the status of the connection: it goes to and fro between "active" and   *)
(* "auth_error", and no code of this program makes it "inactive", the only *)
(* value that sync_history looks for.                                      *)
(***************************************************************************)
EXTENDS Naturals, FiniteSets, FiniteSetsExt

CONSTANTS
    Syncs,          \* runs of the job duels.sync_connection
    PageSize,       \* games on a page
    MaxPages,       \* pages that one run fetches (25)
    MaxGames,       \* bound on the games of the account
    MaxReplayed,    \* the oldest games have replays, this many of them
    MaxRevisions,   \* bound on the revisions of a replay
    MaxFaults       \* bound on refusals, failed statements, crashes

ASSUME SyncAssumption ==
    /\ IsFiniteSet(Syncs)
    /\ PageSize \in Nat \ {0} /\ MaxPages \in Nat \ {0}
    /\ MaxGames \in Nat /\ MaxReplayed \in 0..MaxGames
    /\ MaxRevisions \in Nat /\ MaxFaults \in Nat

Games == 1..MaxGames
Replayed == 1..MaxReplayed
Revisions == 0..MaxRevisions

VARIABLES
    plan,           \* how many games the account will play, and how many
                    \* revisions each replay will have: bounds of a behaviour
    published,      \* how many games the account has played
    offered,        \* the revision of each replay that Duels offers
    account,        \* the row of duels_connections
    observed,       \* duels_game_observations: the games in it
    seen,           \* and the revision of the replay in each
    sync,           \* the runs
    job,            \* jobs duels.process_replay, by game and revision
    stored,         \* duels_replays, by game: see DuelsReplays
    faults

duels == <<plan, published, offered>>
history == <<account, observed, seen>>
syncVars == <<duels, history, sync, job, faults>>

SyncPC == {"idle", "fetch", "store", "finish", "enqueue"}
\* was: the history was exhausted when the run began.  page: the games on the
\* last page, next: its cursor.  done: what the run will write at its end.
NoRun == [pc |-> "idle", was |-> FALSE, cursor |-> 0, pages |-> 0,
          page |-> {}, next |-> 0, done |-> FALSE, todo |-> {}]

Run == [pc : SyncPC, was : BOOLEAN, cursor : 0..MaxGames, pages : 0..MaxPages,
        page : SUBSET Games, next : 0..MaxGames, done : BOOLEAN,
        todo : SUBSET Replayed]

\* duels_connections; a cursor of 0 is none.
Connection == [cursor : 0..MaxGames, exhausted : BOOLEAN]

\* No job, or one with its attempts so far.
NoJob == [state |-> "none", tries |-> 0]
Job == [state : {"none", "queued", "running", "done", "failed"}, tries : Nat]

Fault == faults < MaxFaults /\ faults' = faults + 1

SyncTypeOK ==
    /\ plan \in [games : 0..MaxGames, revisions : Revisions]
    /\ published \in 0..plan.games
    /\ offered \in [Replayed -> Revisions]
    /\ account \in Connection
    /\ observed \subseteq 1..published
    /\ seen \in [Replayed -> Revisions]
    /\ sync \in [Syncs -> Run]
    /\ job \in [Replayed -> [1..MaxRevisions -> Job]]
    /\ faults \in 0..MaxFaults

SyncInit ==
    /\ plan \in [games : 0..MaxGames, revisions : Revisions]
    /\ published = 0
    /\ offered = [g \in Replayed |-> 0]
    /\ account = [cursor |-> 0, exhausted |-> FALSE]
    /\ observed = {} /\ seen = [g \in Replayed |-> 0]
    /\ sync = [s \in Syncs |-> NoRun]
    /\ job = [g \in Replayed |-> [r \in 1..MaxRevisions |-> NoJob]]
    /\ faults \in 0..MaxFaults

-----------------------------------------------------------------------------
(* Duels: games are played, replays appear and are revised.                *)

Play ==
    /\ published < plan.games
    /\ published' = published + 1
    /\ UNCHANGED <<plan, offered, history, sync, job, stored, faults>>

\* GET /api/me/match-history: newest first, older than the cursor.
Older(cursor) == {g \in 1..published : cursor = 0 \/ g < cursor}
PageAfter(cursor) ==
    {g \in Older(cursor) : Cardinality({h \in Older(cursor) : h > g}) < PageSize}
CursorAfter(cursor) ==
    IF PageAfter(cursor) = Older(cursor) THEN 0 ELSE Min(PageAfter(cursor))

-----------------------------------------------------------------------------
(* sync_history.                                                           *)

\* get_connection and begin_sync: what the run goes by is read once.
Begin(s) ==
    /\ sync[s].pc = "idle"
    /\ sync' = [sync EXCEPT ![s] =
                  [NoRun EXCEPT !.pc = "fetch", !.was = account.exhausted,
                     !.cursor = IF account.exhausted THEN 0 ELSE account.cursor]]
    /\ UNCHANGED <<duels, history, job, stored, faults>>

\* fetch_history_page, retries included, and the parsing of its games.
Fetch(s) ==
    /\ sync[s].pc = "fetch"
    /\ sync' = [sync EXCEPT ![s].pc = "store", ![s].pages = @ + 1,
                            ![s].page = PageAfter(sync[s].cursor),
                            ![s].next = CursorAfter(sync[s].cursor)]
    /\ UNCHANGED <<duels, history, job, stored, faults>>

\* upsert_history_game for each game of the page; Duels shows the revisions
\* it offers while the page is on its way.
Observe(page) ==
    /\ observed' = observed \cup page
    /\ seen' = [g \in Replayed |-> IF g \in page THEN offered[g] ELSE seen[g]]

\* No older page, or nothing on this one that was new: with the whole history
\* observed before, older pages are taken to be observed too.
Exhausts(s) ==
    \/ sync[s].next = 0
    \/ sync[s].was /\ sync[s].page \subseteq observed

\* Mutant: the checkpoint leaves the flag of the last complete run.
CheckpointKeepsFlag(s) == [account EXCEPT !.cursor = sync[s].next]
\* save_sync_checkpoint, in the transaction of the page.
Checkpoint(s) == [cursor |-> sync[s].next, exhausted |-> FALSE]

Store(s) ==
    /\ sync[s].pc = "store"
    /\ Observe(sync[s].page)
    /\ account' = Checkpoint(s)
    /\ sync' = [sync EXCEPT ![s].pc = IF Exhausts(s) \/ sync[s].pages = MaxPages
                                      THEN "finish" ELSE "fetch",
                            ![s].done = Exhausts(s),
                            ![s].cursor = IF Exhausts(s) THEN 0 ELSE sync[s].next]
    /\ UNCHANGED <<duels, job, stored, faults>>

\* finish_sync writes what the run knows, whatever the row holds by now.
Finish(s) ==
    /\ sync[s].pc = "finish"
    /\ account' = [cursor |-> sync[s].cursor, exhausted |-> sync[s].done]
    /\ sync' = [sync EXCEPT ![s].pc = "enqueue", ![s].todo = Replayed]
    /\ UNCHANGED <<duels, observed, seen, job, stored, faults>>

\* pending_replays: a replay is shown and no row holds its revision.
Pending(g) ==
    /\ g \in observed /\ seen[g] # 0
    /\ \A i \in DOMAIN stored[g] : stored[g][i].revision # seen[g]

\* Mutant: the key of the job does without the revision.
EnqueueOncePerGame(s, g) ==
    /\ job' = IF Pending(g) /\ \A r \in 1..MaxRevisions : job[g][r] = NoJob
              THEN [job EXCEPT ![g][seen[g]].state = "queued"] ELSE job
    /\ sync' = [sync EXCEPT ![s].todo = @ \ {g}]
\* enqueue_duels_replay: a key that some job has, decided or not, adds none.
EnqueueReplay(s, g) ==
    /\ job' = IF Pending(g) /\ job[g][seen[g]] = NoJob
              THEN [job EXCEPT ![g][seen[g]].state = "queued"] ELSE job
    /\ sync' = [sync EXCEPT ![s].todo = @ \ {g}]

Enqueue(s) ==
    /\ sync[s].pc = "enqueue"
    /\ \E g \in sync[s].todo : EnqueueReplay(s, g)
    /\ UNCHANGED <<duels, history, stored, faults>>

\* A sync that is not exhausted asks for another, of its own cursor.  It goes
\* the way of every other: Begin.
SyncEnds(s) ==
    /\ sync[s].pc = "enqueue" /\ sync[s].todo = {}
    /\ sync' = [sync EXCEPT ![s] = NoRun]
    /\ UNCHANGED <<duels, history, job, stored, faults>>

\* A refusal, an unreadable game, a failed statement: recorded, and raised.
\* The process dies: the same to what is modelled.
SyncStops(s) ==
    /\ sync[s].pc # "idle"
    /\ Fault
    /\ sync' = [sync EXCEPT ![s] = NoRun]
    /\ UNCHANGED <<duels, history, job, stored>>

SyncStep(s) == Fetch(s) \/ Store(s) \/ Finish(s) \/ Enqueue(s) \/ SyncEnds(s)

\* A sync comes up every six hours, and no step of it waits for ever.
SyncFairness ==
    \A s \in Syncs :
        /\ WF_<<syncVars, stored>>(Begin(s))
        /\ WF_<<syncVars, stored>>(SyncStep(s))

-----------------------------------------------------------------------------
(* A game that is missing although a newer one is observed lies ahead of   *)
(* the walk: the history is not taken to be exhausted, and the walk will   *)
(* come by.  Crashes, limited runs and games played meanwhile leave no gap *)
(* behind the watermark (save_sync_checkpoint, and the early end of        *)
(* sync_history, service.py:191).                                          *)
Missing == {g \in 1..published : g \notin observed /\ \E h \in observed : h > g}
NoGapBehindWatermark ==
    \A g \in Missing :
        /\ ~account.exhausted
        /\ account.cursor = 0 \/ g < account.cursor

(* "Once a recurring sync reaches a complete page already observed by this *)
(* connection, older pages are behind the durable watermark" (comment of   *)
(* sync_history, service.py:192): when no run is under way, a history      *)
(* taken to be exhausted misses no game that is older than an observed     *)
(* one.                                                                    *)
OlderPagesAreObserved ==
    (\A s \in Syncs : sync[s].pc = "idle") /\ account.exhausted => Missing = {}
=============================================================================
