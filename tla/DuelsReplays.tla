---------------------------- MODULE DuelsReplays ----------------------------
(***************************************************************************)
(* One replay downloaded, kept, normalized and measured, step by step and  *)
(* resumable, by jobs that are retried (DuelsService.process_replay,       *)
(* JobExecutor._process_duels_replay).                                     *)
(*                                                                         *)
(* The bytes of an artifact are told apart by their digest; "bad" is what  *)
(* is no replay of the game.  The versions of parser, projection and       *)
(* extractor are those of one deployment.  Left out: force_refresh, jobs   *)
(* pruned, and a replay that Duels withdraws.                              *)
(***************************************************************************)
EXTENDS DuelsSync, Sequences, SequencesExt

CONSTANTS
    Workers,        \* workers that run duels.process_replay
    Attempts        \* attempts of a job (4)

ASSUME ReplayAssumption == IsFiniteSet(Workers) /\ Attempts \in Nat \ {0}

VARIABLES
    bytes,          \* the digest of each revision's artifact, 0: not yet one
    readable,       \* the digests that parse_replay accepts
    normalized,     \* digests with a row in duels_normalizations
    projected,      \* ... in duels_read_models
    measured,       \* ... in duels_feature_sets
    work            \* what each worker does

artifacts == <<bytes, readable>>
derived == <<normalized, projected, measured>>
replayVars == <<syncVars, stored, artifacts, derived, work>>

Digests == {<<g, r>> : g \in Replayed, r \in 1..MaxRevisions}
Bad == <<0, 0>>

\* duels_replays
ReplayRow == [digest : Digests \cup {Bad}, revision : 1..MaxRevisions]

WorkPC == {"idle", "download", "persist", "normalize", "measure"}
\* asked: the revision of the job.  revision: that of the observation read.
Rest == [pc |-> "idle", game |-> 0, asked |-> 0, revision |-> 0,
         digest |-> Bad, lost |-> FALSE]
Work == [pc : WorkPC, game : 0..MaxReplayed, asked : Revisions,
         revision : Revisions, digest : Digests \cup {Bad}, lost : BOOLEAN]

ReplayTypeOK ==
    /\ SyncTypeOK
    /\ bytes \in [Replayed -> [1..MaxRevisions -> Digests \cup {Bad}]]
    /\ readable \subseteq Digests
    /\ stored \in [Replayed -> Seq(ReplayRow)]
    \* uq_duels_replays_connection_game_hash
    /\ \A g \in Replayed : \A i, k \in DOMAIN stored[g] :
          stored[g][i].digest = stored[g][k].digest => i = k
    /\ normalized \subseteq Digests /\ projected \subseteq Digests
    /\ measured \subseteq Digests
    /\ work \in [Workers -> Work]

ReplayInit ==
    /\ SyncInit
    /\ stored = [g \in Replayed |-> <<>>]
    /\ bytes = [g \in Replayed |-> [r \in 1..MaxRevisions |-> Bad]]
    /\ readable \in {Digests, {}}
    /\ normalized = {} /\ projected = {} /\ measured = {}
    /\ work = [w \in Workers |-> Rest]

\* A replay appears, or is revised: with other bytes, or the same under
\* another provider_replay_id.
Revise(g) ==
    /\ g <= published /\ offered[g] < plan.revisions
    /\ offered' = [offered EXCEPT ![g] = @ + 1]
    /\ \E d \in {<<g, offered[g] + 1>>} \cup
                (IF offered[g] = 0 THEN {} ELSE {bytes[g][offered[g]]}) :
          bytes' = [bytes EXCEPT ![g][offered[g] + 1] = d]
    /\ UNCHANGED <<plan, published, history, sync, job, stored, readable, derived,
                   work, faults>>

-----------------------------------------------------------------------------
(* process_replay.                                                         *)

\* Mutant: normalized and projected is taken to be all.
CompleteUnmeasured(d) == d \in normalized /\ d \in projected
\* _existing_complete
Complete(d) == d \in normalized /\ d \in projected /\ d \in measured

\* latest_replay, when it is the revision observed and valid.
Resumable(g) ==
    /\ stored[g] # <<>>
    /\ Last(stored[g]).revision = seen[g]
    /\ Last(stored[g]).digest # Bad

Does(w, pc) == work' = [work EXCEPT ![w].pc = pc]
Decided(g, r, state) == job' = [job EXCEPT ![g][r].state = state]

\* An attempt ends with an error: another one, or the job has failed.  The
\* outcome of a worker whose lease was taken over is refused.
Failed(w) ==
    /\ work' = [work EXCEPT ![w] = Rest]
    /\ IF work[w].lost THEN job' = job
       ELSE Decided(work[w].game, work[w].asked,
                    IF job[work[w].game][work[w].asked].tries < Attempts
                    THEN "queued" ELSE "failed")

Succeeded(w, rest) ==
    /\ work' = [work EXCEPT ![w] = Rest]
    /\ IF rest.lost THEN job' = job ELSE Decided(rest.game, rest.asked, "done")

\* The lease is claimed; connection, observation and latest revision are read.
Start(w, g, r) ==
    /\ work[w] = Rest
    /\ job[g][r].state = "queued"
    /\ IF Resumable(g) /\ Complete(Last(stored[g]).digest)
       THEN /\ job' = [job EXCEPT ![g][r] = [state |-> "done", tries |-> @.tries + 1]]
            /\ UNCHANGED work
       ELSE /\ job' = [job EXCEPT ![g][r] = [state |-> "running", tries |-> @.tries + 1]]
            /\ work' = [work EXCEPT ![w] =
                          [Rest EXCEPT !.game = g, !.asked = r, !.revision = seen[g],
                             !.pc = IF Resumable(g) THEN "normalize" ELSE "download",
                             !.digest = IF Resumable(g) THEN Last(stored[g]).digest
                                        ELSE Bad]]
    /\ UNCHANGED <<duels, history, sync, stored, artifacts, derived, faults>>

Download(w) ==
    /\ work[w].pc = "download"
    /\ \/ /\ work' = [work EXCEPT ![w].pc = "persist",
                        ![w].digest = bytes[work[w].game][work[w].revision]]
          /\ UNCHANGED faults
       \/ /\ Fault                          \* bytes that do not decode
          /\ work' = [work EXCEPT ![w].pc = "persist", ![w].digest = Bad]
    /\ UNCHANGED <<duels, history, sync, job, stored, artifacts, derived>>

\* Mutant: no unique key on the digest.
KeptTwice(g, d, r) ==
    [stored EXCEPT ![g] = Append(@, [digest |-> d, revision |-> r])]
\* insert_replay: bytes that are there already, whatever revision they came
\* with and whatever their status, add no row.
Kept(g, d, r) ==
    IF \E i \in DOMAIN stored[g] : stored[g][i].digest = d THEN stored
    ELSE [stored EXCEPT ![g] = Append(@, [digest |-> d, revision |-> r])]

\* Evidence that is no replay is kept as "invalid", and the attempt fails.
Persist(w) ==
    /\ work[w].pc = "persist"
    /\ stored' = Kept(work[w].game, work[w].digest, work[w].revision)
    /\ IF work[w].digest = Bad THEN Failed(w)
       ELSE Does(w, "normalize") /\ UNCHANGED job
    /\ UNCHANGED <<duels, history, sync, artifacts, derived, faults>>

InsertNormalization(d) ==
    normalized' = normalized \cup {d} /\ projected' = projected \cup {d}
StoreReadModel(d) == projected' = projected \cup {d} /\ UNCHANGED normalized
InsertFeatureSet(d) == measured' = measured \cup {d}

\* parse_replay raises for bytes it cannot read.  insert_normalization adds
\* the read model with the row; a row that is there gets its model again.
Normalize(w) ==
    /\ work[w].pc = "normalize"
    /\ LET d == work[w].digest
       IN  IF d \in normalized \cup readable
           THEN /\ IF d \in normalized THEN StoreReadModel(d) ELSE InsertNormalization(d)
                /\ Does(w, "measure") /\ UNCHANGED job
           ELSE Failed(w) /\ UNCHANGED <<normalized, projected>>
    /\ UNCHANGED <<duels, history, sync, stored, artifacts, measured, faults>>

Measure(w) ==
    /\ work[w].pc = "measure"
    /\ InsertFeatureSet(work[w].digest)
    /\ Succeeded(w, work[w])
    /\ UNCHANGED <<duels, history, sync, stored, artifacts, normalized,
                   projected, faults>>

\* A refused download, a failed statement: nothing of the step is kept.
WorkFails(w) ==
    /\ work[w] # Rest
    /\ Fault
    /\ Failed(w)
    /\ UNCHANGED <<duels, history, sync, stored, artifacts, derived>>

\* The lease runs out: the worker died, or goes on without knowing.
Lapses(w) ==
    /\ work[w] # Rest /\ ~work[w].lost
    /\ Fault
    /\ Decided(work[w].game, work[w].asked,
               IF job[work[w].game][work[w].asked].tries < Attempts
               THEN "queued" ELSE "failed")
    /\ work' \in {[work EXCEPT ![w] = Rest], [work EXCEPT ![w].lost = TRUE]}
    /\ UNCHANGED <<duels, history, sync, stored, artifacts, derived>>

WorkStep(w) == Download(w) \/ Persist(w) \/ Normalize(w) \/ Measure(w)
Starts(w) == \E g \in Replayed, r \in 1..MaxRevisions : Start(w, g, r)

Syncing ==
    /\ Play \/ \E s \in Syncs : Begin(s) \/ SyncStep(s) \/ SyncStops(s)
    /\ UNCHANGED <<artifacts, derived, work>>

ReplayNext ==
    \/ Syncing
    \/ \E g \in Replayed : Revise(g)
    \/ \E w \in Workers : Starts(w) \/ WorkStep(w) \/ WorkFails(w) \/ Lapses(w)

ReplayFairness ==
    /\ SyncFairness
    /\ \A w \in Workers :
          /\ WF_replayVars(Starts(w))
          /\ WF_replayVars(WorkStep(w))

-----------------------------------------------------------------------------
(* A job reported done left a replay of the game that is normalized,       *)
(* projected and measured, of the revision the job was made for or of a    *)
(* later one, whichever attempt did which part of it (process_replay).     *)
DoneMeansComplete ==
    \A g \in Replayed, r \in 1..MaxRevisions :
        job[g][r].state = "done" =>
            \E q \in r..MaxRevisions :
                /\ bytes[g][q] \in normalized \cap projected \cap measured
                /\ \E i \in DOMAIN stored[g] : stored[g][i].digest = bytes[g][q]

(* Every game played is observed in the end, and every replay the history  *)
(* shows is complete in the end, or a job of its game used up its          *)
(* attempts, or a newer revision took its place.  No crash, between the    *)
(* pages, between the sync and its enqueues or within a job, makes the     *)
(* rest forget it.  It need not be the job of that revision: the last      *)
(* attempt for an older one may keep the new bytes as invalid, and then    *)
(* pending_replays never asks for a job of the new one.                    *)
ReplaysAreProcessed ==
    /\ \A g \in Games : (g <= published) ~> (g \in observed)
    /\ \A g \in Replayed, r \in 1..MaxRevisions :
          (seen[g] = r) ~>
             \/ bytes[g][r] \in measured \/ seen[g] > r
             \/ \E q \in 1..r : job[g][q].state = "failed"
=============================================================================
