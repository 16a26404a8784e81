---------------------------- MODULE DuelsProofs ----------------------------
(***************************************************************************)
(* From a Duels account to a review, for any number of games, pages,       *)
(* revisions, workers, frames and faults.  A replay job that is done has   *)
(* done everything, and a sync that nothing overlaps leaves no gap behind  *)
(* its watermark.  The actions that the undos of a game leave are those in *)
(* force.  The reviews are in CoachProofs.                                 *)
(***************************************************************************)
EXTENDS MCDuels, CoachProofs, SequenceTheorems

-----------------------------------------------------------------------------
(* The sync and the replay jobs.                                           *)

ReplaySpec == ReplayInit /\ [][ReplayNext]_replayVars

\* What the runs know of the history lies in it.
CursorsOK ==
    /\ account.cursor <= published
    /\ \A s \in Syncs :
          /\ sync[s].cursor <= published /\ sync[s].next <= published
          /\ sync[s].page \subseteq 1..published
          /\ sync[s].pc = "fetch" => sync[s].pages < MaxPages

\* A digest of a replay, and the rows that keep it.
Keeps(g, d) == \E i \in DOMAIN stored[g] : stored[g][i].digest = d

RowsOK(g) ==
    \A i \in DOMAIN stored[g] :
        LET row == stored[g][i]
        IN  row.digest # Bad =>
              row.revision <= offered[g] /\ row.digest = bytes[g][row.revision]

\* What each step of a worker has left behind for the next.
WorkOK(w) ==
    LET c == work[w]
    IN  /\ c.pc = "idle" => c = Rest
        /\ c.pc # "idle" =>
              /\ c.game \in Replayed /\ c.asked \in 1..MaxRevisions
              /\ c.asked <= c.revision /\ c.revision <= offered[c.game]
              /\ job[c.game][c.asked].state # "none"
        /\ c.pc # "idle" /\ c.digest # Bad => c.digest = bytes[c.game][c.revision]
        /\ c.pc \in {"normalize", "measure"} =>
              c.digest # Bad /\ Keeps(c.game, c.digest)
        /\ c.pc = "measure" => c.digest \in normalized \cap projected

DoneOK(g, r) ==
    job[g][r].state = "done" =>
        \E q \in r..offered[g] :
            /\ bytes[g][q] \in normalized \cap projected \cap measured
            /\ Keeps(g, bytes[g][q])

JobsOK(g) == \A r \in 1..MaxRevisions : /\ job[g][r].state # "none" => r <= seen[g]
                                        /\ DoneOK(g, r)

ReplayInv ==
    /\ ReplayTypeOK /\ CursorsOK
    /\ \A g \in Replayed : seen[g] <= offered[g] /\ RowsOK(g) /\ JobsOK(g)
    /\ \A w \in Workers : WorkOK(w)

-----------------------------------------------------------------------------
LEMMA InvFacts ==
    ASSUME ReplayInv
    PROVE  /\ SyncTypeOK /\ ReplayTypeOK /\ CursorsOK
           /\ plan \in [games : 0..MaxGames, revisions : Revisions]
           /\ published \in Nat /\ published <= plan.games /\ published <= MaxGames
           /\ plan.games \in Nat /\ plan.revisions \in Nat
           /\ plan.revisions <= MaxRevisions
           /\ MaxGames \in Nat /\ MaxRevisions \in Nat /\ MaxReplayed \in Nat
           /\ offered \in [Replayed -> Revisions] /\ seen \in [Replayed -> Revisions]
           /\ account \in Connection /\ observed \subseteq 1..published
           /\ sync \in [Syncs -> Run]
           /\ job \in [Replayed -> [1..MaxRevisions -> Job]]
           /\ faults \in 0..MaxFaults
           /\ bytes \in [Replayed -> [1..MaxRevisions -> Digests \cup {Bad}]]
           /\ readable \subseteq Digests
           /\ stored \in [Replayed -> Seq(ReplayRow)]
           /\ normalized \subseteq Digests /\ projected \subseteq Digests
           /\ measured \subseteq Digests
           /\ work \in [Workers -> Work]
           /\ \A g \in Replayed :
                 /\ seen[g] <= offered[g] /\ RowsOK(g) /\ JobsOK(g)
                 /\ seen[g] \in Nat /\ offered[g] \in Nat /\ offered[g] <= MaxRevisions
           /\ \A w \in Workers : WorkOK(w)
<1>1. ReplayTypeOK /\ SyncTypeOK
  BY DEF ReplayInv, ReplayTypeOK
<1>2. /\ MaxGames \in Nat /\ MaxRevisions \in Nat /\ MaxReplayed \in Nat
  BY SyncAssumption
<1>3. /\ published \in Nat /\ published <= plan.games /\ published <= MaxGames
      /\ plan.games \in Nat /\ plan.revisions \in Nat
      /\ plan.revisions <= MaxRevisions
  BY <1>1, <1>2 DEF SyncTypeOK, Revisions
<1>4. \A g \in Replayed : /\ seen[g] \in Nat /\ offered[g] \in Nat
                          /\ offered[g] <= MaxRevisions
  BY <1>1, <1>2 DEF SyncTypeOK, Revisions
<1>5. QED
  BY <1>1, <1>2, <1>3, <1>4 DEF ReplayInv, ReplayTypeOK, SyncTypeOK

LEMMA FaultCounts ==
    ASSUME faults \in 0..MaxFaults, Fault PROVE faults' \in 0..MaxFaults
  BY SyncAssumption DEF Fault

\* The page after a cursor is what is next in the history.
LEMMA PageIsNext ==
    ASSUME published \in Nat, NEW c \in Nat, c <= published
    PROVE  \E m \in 0..published, lo \in 1..(published + 1) :
              /\ m = IF c = 0 THEN published ELSE c - 1
              /\ lo <= m \/ (m = 0 /\ lo = 1)
              /\ Older(c) = 1..m /\ PageAfter(c) = lo..m
              /\ CursorAfter(c) = IF lo = 1 THEN 0 ELSE lo
<1>1. PageSize \in Nat \ {0}
  BY SyncAssumption
<1>2. PICK m \in 0..published : m = IF c = 0 THEN published ELSE c - 1
  OBVIOUS
<1>3. PICK lo \in 1..(published + 1) : lo = IF m < PageSize THEN 1 ELSE m - PageSize + 1
  <2>1. CASE m < PageSize
    BY <1>2, <2>1
  <2>2. CASE ~(m < PageSize)
    <3>1. m - PageSize + 1 \in 1..(published + 1)
      BY <1>1, <1>2, <2>2
    <3>2. QED
      BY <2>2, <3>1
  <2>3. QED
    BY <2>1, <2>2
<1>4. Older(c) = 1..m
  <2>1. \A g \in 1..published : (c = 0 \/ g < c) <=> g <= m
    BY <1>2
  <2>2. Older(c) = {g \in 1..published : g <= m}
    BY <2>1 DEF Older
  <2>3. QED
    BY <1>2, <2>2
<1>5. PageAfter(c) = lo..m
  <2>1. ASSUME NEW g \in 1..m
        PROVE  Cardinality({h \in 1..m : h > g}) = m - g
    <3>1. {h \in 1..m : h > g} = (g + 1)..m
      OBVIOUS
    <3>2. Cardinality((g + 1)..m) = IF g + 1 > m THEN 0 ELSE m - (g + 1) + 1
      BY FS_Interval
    <3>3. m \in Int /\ g \in Int /\ g <= m
      BY <1>2
    <3>4. (IF g + 1 > m THEN 0 ELSE m - (g + 1) + 1) = m - g
      BY <3>3
    <3>5. QED
      BY <3>1, <3>2, <3>4
  <2>2. PageAfter(c) = {g \in 1..m : m - g < PageSize}
    BY <1>4, <2>1 DEF PageAfter
  <2>3. \A g \in 1..m : m - g < PageSize <=> g >= lo
    BY <1>1, <1>3
  <2>4. QED
    BY <2>2, <2>3, <1>3
<1>6. lo <= m \/ (m = 0 /\ lo = 1)
  BY <1>1, <1>3
<1>7. CursorAfter(c) = IF lo = 1 THEN 0 ELSE lo
  <2>1. CASE lo = 1
    BY <1>4, <1>5, <2>1 DEF CursorAfter
  <2>2. CASE lo # 1
    <3>1. lo <= m /\ 1 \in 1..m /\ 1 \notin lo..m
      BY <1>6, <2>2
    <3>2. PageAfter(c) # Older(c)
      BY <1>4, <1>5, <3>1
    <3>3. Min(lo..m) = lo
      <4>1. lo \in lo..m /\ \A y \in lo..m : lo <= y
        BY <3>1
      <4>2. \A x \in lo..m : (\A y \in lo..m : x <= y) => x = lo
        BY <4>1
      <4>3. QED
        BY <4>1, <4>2 DEF Min
    <3>4. QED
      BY <1>5, <2>2, <3>2, <3>3 DEF CursorAfter
  <2>3. QED
    BY <2>1, <2>2
<1>8. QED
  BY <1>2, <1>4, <1>5, <1>6, <1>7

-----------------------------------------------------------------------------
(***************************************************************************)
(* The syncs, and the replay invariant.                                    *)
(***************************************************************************)
\* What a step outside the replay jobs may do: jobs are asked for.
Asks ==
    /\ SyncTypeOK' /\ CursorsOK'
    /\ \A g \in Replayed :
          /\ seen[g] <= seen'[g] /\ seen'[g] <= offered[g] /\ offered[g] <= offered'[g]
          /\ \A r \in 1..MaxRevisions :
                job'[g][r].state # job[g][r].state =>
                   /\ job[g][r].state = "none" /\ job'[g][r].state = "queued"
                   /\ r <= seen'[g]

LEMMA AsksStays ==
    ASSUME ReplayInv, Asks, UNCHANGED <<stored, readable, derived, work>>,
           bytes' \in [Replayed -> [1..MaxRevisions -> Digests \cup {Bad}]],
           \A g \in Replayed : \A r \in 1..offered[g] : bytes'[g][r] = bytes[g][r]
    PROVE  ReplayInv'
<1>1. /\ SyncTypeOK' /\ CursorsOK'
      /\ stored' = stored /\ readable' = readable /\ work' = work
      /\ normalized' = normalized /\ projected' = projected /\ measured' = measured
      /\ \A g \in Replayed : /\ seen'[g] \in Nat /\ offered'[g] \in Nat
  BY InvFacts DEF Asks, derived, SyncTypeOK, Revisions
<1>2. ReplayTypeOK'
  BY <1>1, InvFacts DEF ReplayTypeOK
<1>3. ASSUME NEW g \in Replayed
      PROVE  seen'[g] <= offered'[g] /\ RowsOK(g)' /\ JobsOK(g)'
  <2>1. /\ seen[g] <= seen'[g] /\ seen'[g] <= offered[g] /\ offered[g] <= offered'[g]
        /\ RowsOK(g) /\ JobsOK(g) /\ stored[g] \in Seq(ReplayRow)
        /\ offered[g] \in Nat
    BY InvFacts DEF Asks
  <2>2. RowsOK(g)'
    <3>1. ASSUME NEW i \in DOMAIN stored[g], stored[g][i].digest # Bad
          PROVE  /\ stored[g][i].revision <= offered'[g]
                 /\ stored[g][i].digest = bytes'[g][stored[g][i].revision]
      <4>1. /\ stored[g][i].revision <= offered[g]
            /\ stored[g][i].digest = bytes[g][stored[g][i].revision]
        BY <2>1, <3>1 DEF RowsOK
      <4>2. stored[g][i] \in ReplayRow
        BY <2>1
      <4>3. stored[g][i].revision \in 1..offered[g]
        BY <2>1, <4>1, <4>2 DEF ReplayRow
      <4>4. QED
        BY <1>1, <2>1, <4>1, <4>3
    <3>2. QED
      BY <1>1, <3>1 DEF RowsOK
  <2>3. ASSUME NEW r \in 1..MaxRevisions
        PROVE  (job'[g][r].state # "none" => r <= seen'[g]) /\ DoneOK(g, r)'
    <3>1. /\ job[g][r].state # "none" => r <= seen[g]
          /\ DoneOK(g, r) /\ seen[g] \in Nat
          /\ job'[g][r].state # job[g][r].state =>
                   /\ job[g][r].state = "none" /\ job'[g][r].state = "queued"
                   /\ r <= seen'[g]
      BY <2>1, InvFacts DEF JobsOK, Asks
    <3>2. job'[g][r].state # "none" => r <= seen'[g]
      BY <1>1, <2>1, <3>1
    <3>3. DoneOK(g, r)'
      <4>1. SUFFICES ASSUME job'[g][r].state = "done"
                     PROVE  \E q \in r..offered'[g] :
                               /\ bytes'[g][q] \in normalized \cap projected \cap measured
                               /\ Keeps(g, bytes'[g][q])
        BY <1>1 DEF DoneOK, Keeps
      <4>2. PICK q \in r..offered[g] :
               /\ bytes[g][q] \in normalized \cap projected \cap measured
               /\ Keeps(g, bytes[g][q])
        BY <3>1, <4>1 DEF DoneOK
      <4>3. q \in 1..offered[g] /\ q \in r..offered'[g]
        BY <1>1, <2>1, <4>2
      <4>4. bytes'[g][q] = bytes[g][q]
        BY <4>3
      <4>5. QED
        BY <4>2, <4>3, <4>4
    <3>4. QED
      BY <3>2, <3>3
  <2>4. QED
    BY <1>1, <2>1, <2>2, <2>3 DEF JobsOK
<1>4. ASSUME NEW w \in Workers PROVE WorkOK(w)'
  <2>1. WorkOK(w) /\ work[w] \in Work
    BY InvFacts
  <2>2. CASE work[w].pc = "idle"
    BY <1>1, <2>1, <2>2 DEF WorkOK
  <2>3. CASE work[w].pc # "idle"
    <3>1. /\ work[w].game \in Replayed /\ work[w].asked \in 1..MaxRevisions
          /\ work[w].revision \in Nat /\ work[w].asked <= work[w].revision
          /\ work[w].revision <= offered[work[w].game]
          /\ job[work[w].game][work[w].asked].state # "none"
      BY <2>1, <2>3 DEF WorkOK, Work, Revisions
    <3>2. PICK g \in Replayed, r \in 1..MaxRevisions, q \in Nat :
             /\ g = work[w].game /\ r = work[w].asked /\ q = work[w].revision
             /\ q \in 1..offered[g]
      BY <3>1, InvFacts
    <3>3. job'[g][r].state # "none" /\ bytes'[g][q] = bytes[g][q]
      BY <3>1, <3>2 DEF Asks
    <3>4. r <= q /\ q <= offered'[g]
      BY <1>1, <3>1, <3>2, InvFacts DEF Asks
    <3>5. QED
      BY <1>1, <2>1, <2>3, <3>2, <3>3, <3>4 DEF WorkOK, Keeps
  <2>4. QED
    BY <2>2, <2>3
<1>5. QED
  BY <1>1, <1>2, <1>3, <1>4 DEF ReplayInv

\* What is left to show of a step of a sync.
LEMMA RunStep ==
    ASSUME ReplayInv, UNCHANGED duels, NEW s \in Syncs, NEW c2 \in Run,
           sync' = [sync EXCEPT ![s] = c2],
           account' \in Connection, account'.cursor <= published,
           c2.cursor <= published, c2.next <= published, c2.page \subseteq 1..published,
           c2.pc = "fetch" => c2.pages < MaxPages,
           observed' \subseteq 1..published, seen' \in [Replayed -> Revisions],
           \A g \in Replayed : seen[g] <= seen'[g] /\ seen'[g] <= offered[g],
           job' \in [Replayed -> [1..MaxRevisions -> Job]],
           \A g \in Replayed, r \in 1..MaxRevisions :
                job'[g][r].state # job[g][r].state =>
                   /\ job[g][r].state = "none" /\ job'[g][r].state = "queued"
                   /\ r <= seen'[g],
           faults' \in 0..MaxFaults
    PROVE  Asks
<1>1. /\ plan' = plan /\ published' = published /\ offered' = offered
      /\ sync' \in [Syncs -> Run] /\ sync'[s] = c2
      /\ \A t \in Syncs \ {s} : sync'[t] = sync[t]
  BY InvFacts DEF duels
<1>2. SyncTypeOK'
  BY <1>1, InvFacts DEF SyncTypeOK
<1>3. CursorsOK'
  BY <1>1, InvFacts DEF CursorsOK
<1>4. \A g \in Replayed : offered[g] <= offered'[g]
  BY <1>1, InvFacts
<1>5. QED
  BY <1>2, <1>3, <1>4 DEF Asks

LEMMA PlayReviseInv ==
    ASSUME ReplayInv,
           \/ Play /\ UNCHANGED <<artifacts, derived, work>>
           \/ \E g \in Replayed : Revise(g)
    PROVE  ReplayInv'
<1>1. CASE Play /\ UNCHANGED <<artifacts, derived, work>>
  <2>1. /\ plan' = plan /\ published' = published + 1 /\ published < plan.games
        /\ offered' = offered /\ account' = account /\ observed' = observed
        /\ seen' = seen /\ sync' = sync /\ job' = job /\ faults' = faults
    BY <1>1 DEF Play, history
  <2>2. SyncTypeOK'
    <3>1. published' \in 0..plan.games /\ observed \subseteq 1..published'
      BY <2>1, InvFacts
    <3>2. QED
      BY <2>1, <3>1, InvFacts DEF SyncTypeOK
  <2>3. CursorsOK'
    <3>1. account.cursor \in Nat /\ \A s \in Syncs : sync[s] \in Run
      BY InvFacts DEF Connection
    <3>2. \A s \in Syncs : sync[s].cursor \in Nat /\ sync[s].next \in Nat
      BY <3>1 DEF Run
    <3>3. \A n \in Nat : n <= published => n <= published'
      BY <2>1, InvFacts
    <3>4. 1..published \subseteq 1..published'
      BY <2>1, InvFacts
    <3>5. QED
      BY <2>1, <3>1, <3>2, <3>3, <3>4, InvFacts DEF CursorsOK
  <2>4. Asks
    BY <2>1, <2>2, <2>3, InvFacts DEF Asks
  <2>5. /\ UNCHANGED <<stored, readable, derived, work>> /\ bytes' = bytes
    BY <1>1 DEF Play, artifacts
  <2>6. QED
    BY <2>4, <2>5, AsksStays, InvFacts
<1>2. ASSUME NEW g \in Replayed, Revise(g) PROVE ReplayInv'
  <2>1. /\ offered[g] < plan.revisions /\ offered' = [offered EXCEPT ![g] = @ + 1]
        /\ plan' = plan /\ published' = published /\ account' = account
        /\ observed' = observed
        /\ seen' = seen /\ sync' = sync /\ job' = job /\ faults' = faults
        /\ UNCHANGED <<stored, readable, derived, work>>
    BY <1>2 DEF Revise, history
  <2>2. PICK n \in 1..MaxRevisions : n = offered[g] + 1
    BY <2>1, InvFacts
  <2>3. PICK d \in Digests \cup {Bad} : bytes' = [bytes EXCEPT ![g][n] = d]
    <3>1. <<g, offered[g] + 1>> \in Digests
      BY <2>2 DEF Digests
    <3>2. offered[g] # 0 => bytes[g][offered[g]] \in Digests \cup {Bad}
      BY <2>2, InvFacts
    <3>3. PICK d : /\ d \in {<<g, offered[g] + 1>>} \cup
                             (IF offered[g] = 0 THEN {} ELSE {bytes[g][offered[g]]})
                  /\ bytes' = [bytes EXCEPT ![g][offered[g] + 1] = d]
      BY <1>2 DEF Revise
    <3>4. QED
      BY <2>2, <3>1, <3>2, <3>3
  <2>4. /\ bytes' \in [Replayed -> [1..MaxRevisions -> Digests \cup {Bad}]]
        /\ \A h \in Replayed : \A r \in 1..offered[h] : bytes'[h][r] = bytes[h][r]
    <3>1. bytes \in [Replayed -> [1..MaxRevisions -> Digests \cup {Bad}]]
      BY InvFacts
    <3>2. PICK row : row = [bytes[g] EXCEPT ![n] = d]
      OBVIOUS
    <3>3. /\ row \in [1..MaxRevisions -> Digests \cup {Bad}]
          /\ \A r \in 1..MaxRevisions : r # n => row[r] = bytes[g][r]
      BY <2>2, <2>3, <3>1, <3>2
    <3>4. bytes' = [bytes EXCEPT ![g] = row]
      BY <2>3, <3>2
    <3>5. \A r \in 1..offered[g] : r \in 1..MaxRevisions /\ r # n
      BY <2>2, InvFacts
    <3>6. QED
      BY <3>1, <3>3, <3>4, <3>5
  <2>5. offered' \in [Replayed -> Revisions] /\ \A h \in Replayed : offered[h] <= offered'[h]
    <3>1. n \in Revisions /\ offered' = [offered EXCEPT ![g] = n]
      BY <2>1, <2>2, InvFacts DEF Revisions
    <3>2. QED
      BY <2>2, <3>1, InvFacts
  <2>6. SyncTypeOK' /\ CursorsOK'
    BY <2>1, <2>5, InvFacts DEF SyncTypeOK, CursorsOK
  <2>7. Asks
    BY <2>1, <2>5, <2>6, InvFacts DEF Asks
  <2>8. QED
    BY <2>1, <2>4, <2>7, AsksStays
<1>3. QED
  BY <1>1, <1>2

LEMMA RunFacts ==
    ASSUME ReplayInv, NEW s \in Syncs
    PROVE  /\ sync[s] \in Run
           /\ sync[s].cursor \in Nat /\ sync[s].cursor <= published
           /\ sync[s].next \in Nat /\ sync[s].next <= published
           /\ sync[s].page \subseteq 1..published
           /\ sync[s].pages \in Nat /\ sync[s].pages <= MaxPages
           /\ sync[s].pc = "fetch" => sync[s].pages < MaxPages
           /\ account.cursor \in Nat /\ account.cursor <= published
           /\ MaxPages \in Nat \ {0}
<1>1. sync[s] \in Run /\ account \in Connection
  BY InvFacts
<1>2. /\ MaxPages \in Nat \ {0} /\ MaxGames \in Nat
  BY SyncAssumption
<1>3. /\ sync[s].cursor \in 0..MaxGames /\ sync[s].next \in 0..MaxGames
      /\ sync[s].pages \in 0..MaxPages
  BY <1>1 DEF Run
<1>4. account.cursor \in 0..MaxGames
  BY <1>1 DEF Connection
<1>5. CursorsOK
  BY InvFacts
<1>6. QED
  BY <1>1, <1>2, <1>3, <1>4, <1>5 DEF CursorsOK

\* Steps of a sync that touch nothing but the run.
LEMMA RunOnly ==
    ASSUME ReplayInv, NEW s \in Syncs, NEW c2 \in Run,
           sync' = [sync EXCEPT ![s] = c2],
           UNCHANGED <<duels, history, job>>, faults' \in 0..MaxFaults,
           c2.cursor <= published, c2.next <= published, c2.page \subseteq 1..published,
           c2.pc = "fetch" => c2.pages < MaxPages
    PROVE  Asks
<1>1. /\ account' = account /\ observed' = observed /\ seen' = seen /\ job' = job
  BY DEF history
<1>2. /\ UNCHANGED duels /\ account' \in Connection /\ account'.cursor <= published
      /\ observed' \subseteq 1..published /\ seen' \in [Replayed -> Revisions]
      /\ job' \in [Replayed -> [1..MaxRevisions -> Job]]
  BY <1>1, InvFacts, RunFacts
<1>3. \A g \in Replayed : seen[g] <= seen'[g] /\ seen'[g] <= offered[g]
  BY <1>1, InvFacts
<1>4. \A g \in Replayed, r \in 1..MaxRevisions : job'[g][r].state = job[g][r].state
  BY <1>1
<1>5. QED
  BY <1>2, <1>3, <1>4, RunStep

LEMMA QuietRunAsks ==
    ASSUME ReplayInv, NEW s \in Syncs, Begin(s) \/ SyncEnds(s) \/ SyncStops(s)
    PROVE  Asks
<1> DEFINE c2 == IF Begin(s)
                 THEN [NoRun EXCEPT !.pc = "fetch", !.was = account.exhausted,
                          !.cursor = IF account.exhausted THEN 0 ELSE account.cursor]
                 ELSE NoRun
<1>1. /\ sync' = [sync EXCEPT ![s] = c2] /\ UNCHANGED <<duels, history, job>>
      /\ faults' \in 0..MaxFaults
  BY InvFacts, FaultCounts DEF Begin, SyncEnds, SyncStops
<1>2. account \in Connection /\ account.cursor \in 0..MaxGames /\ 0 \in 0..MaxPages
  BY InvFacts, RunFacts DEF Connection
<1>3. PICK c \in 0..MaxGames : c = IF account.exhausted THEN 0 ELSE account.cursor
  BY <1>2, InvFacts
<1>4. /\ c2 \in Run /\ c2.cursor \in {0, c} /\ c2.next = 0 /\ c2.page = {}
      /\ c2.pages = 0
  <2>1. CASE Begin(s)
    <3>1. c2 = [pc |-> "fetch", was |-> account.exhausted, cursor |-> c, pages |-> 0,
                page |-> {}, next |-> 0, done |-> FALSE, todo |-> {}]
      BY <1>3, <2>1 DEF NoRun
    <3> HIDE DEF c2
    <3>2. QED
      BY <1>2, <3>1, InvFacts DEF Run, SyncPC, Connection
  <2>2. CASE ~Begin(s)
    <3>1. c2 = NoRun
      BY <2>2
    <3> HIDE DEF c2
    <3>2. QED
      BY <1>2, <3>1, InvFacts DEF Run, SyncPC, NoRun
  <2>3. QED
    BY <2>1, <2>2
<1> HIDE DEF c2
<1>5. c2.cursor <= published /\ c2.next <= published /\ c2.pages < MaxPages
  BY <1>3, <1>4, RunFacts, InvFacts
<1>6. QED
  BY <1>1, <1>4, <1>5, RunOnly

LEMMA FetchAsks ==
    ASSUME ReplayInv, NEW s \in Syncs, Fetch(s)
    PROVE  Asks
<1>1. /\ sync[s].pc = "fetch" /\ UNCHANGED <<duels, history, job>>
      /\ faults' \in 0..MaxFaults
  BY InvFacts DEF Fetch
<1>2. PICK n \in 0..MaxPages : n = sync[s].pages + 1
  BY <1>1, RunFacts
<1>3. PICK page : page = PageAfter(sync[s].cursor)
  OBVIOUS
<1>4. PICK next : next = CursorAfter(sync[s].cursor)
  OBVIOUS
<1>5. /\ page \subseteq 1..published /\ page \subseteq Games
      /\ next \in 0..MaxGames /\ next <= published
  <2>1. sync[s].cursor \in Nat /\ sync[s].cursor <= published
        /\ published \in Nat /\ published <= MaxGames /\ MaxGames \in Nat
    BY RunFacts, InvFacts
  <2>2. PICK m \in 0..published, lo \in 1..(published + 1) :
              /\ lo <= m \/ (m = 0 /\ lo = 1)
              /\ page = lo..m /\ next = IF lo = 1 THEN 0 ELSE lo
    BY <1>3, <1>4, <2>1, PageIsNext
  <2>3. page \subseteq 1..published /\ next \in 0..published
    BY <2>1, <2>2
  <2>4. QED
    BY <2>1, <2>3 DEF Games
<1>6. PICK c2 : c2 = [sync[s] EXCEPT !.pc = "store", !.pages = n, !.page = page,
                                     !.next = next]
  OBVIOUS
<1>7. /\ c2 \in Run /\ c2.pc = "store" /\ c2.cursor = sync[s].cursor
      /\ c2.page = page /\ c2.next = next
  <2>1. sync[s] \in Run /\ "store" \in SyncPC
    BY RunFacts DEF SyncPC
  <2>2. QED
    BY <1>2, <1>5, <1>6, <2>1 DEF Run
<1>8. sync' = [sync EXCEPT ![s] = c2]
  BY <1>2, <1>3, <1>4, <1>6 DEF Fetch
<1>9. c2.cursor <= published /\ c2.next <= published /\ c2.page \subseteq 1..published
      /\ (c2.pc = "fetch" => c2.pages < MaxPages)
  BY <1>5, <1>7, RunFacts
<1>10. QED
  BY <1>1, <1>7, <1>8, <1>9, RunOnly

LEMMA StoreAsks ==
    ASSUME ReplayInv, NEW s \in Syncs, Store(s)
    PROVE  Asks
<1>1. /\ sync[s].pc = "store" /\ UNCHANGED <<duels, job>> /\ job' = job
      /\ account' = [cursor |-> sync[s].next, exhausted |-> FALSE]
      /\ observed' = observed \cup sync[s].page
      /\ seen' = [g \in Replayed |-> IF g \in sync[s].page THEN offered[g] ELSE seen[g]]
      /\ faults' \in 0..MaxFaults
  BY InvFacts DEF Store, Checkpoint, Observe
<1>2. PICK pc2 \in SyncPC : /\ pc2 = IF Exhausts(s) \/ sync[s].pages = MaxPages
                                     THEN "finish" ELSE "fetch"
                            /\ pc2 = "fetch" => sync[s].pages # MaxPages
  BY DEF SyncPC
<1>3. PICK d2 \in BOOLEAN : d2 = Exhausts(s)
  BY DEF Exhausts
<1>4. PICK k \in 0..MaxGames : /\ k = IF Exhausts(s) THEN 0 ELSE sync[s].next
                               /\ k <= published
  <2>1. sync[s].next \in 0..MaxGames /\ 0 \in 0..MaxGames
    BY RunFacts, InvFacts
  <2>2. QED
    BY <2>1, RunFacts, InvFacts
<1>5. PICK c2 : c2 = [sync[s] EXCEPT !.pc = pc2, !.done = d2, !.cursor = k]
  OBVIOUS
<1>6. /\ c2 \in Run /\ c2.pc = pc2 /\ c2.cursor = k /\ c2.next = sync[s].next
      /\ c2.page = sync[s].page /\ c2.pages = sync[s].pages
  <2>1. sync[s] \in Run
    BY RunFacts
  <2>2. QED
    BY <1>2, <1>3, <1>4, <1>5, <2>1 DEF Run
<1>7. sync' = [sync EXCEPT ![s] = c2]
  BY <1>2, <1>3, <1>4, <1>5 DEF Store
<1>8. account' \in Connection /\ account'.cursor <= published
  <2>1. sync[s].next \in 0..MaxGames
    BY RunFacts, InvFacts
  <2>2. QED
    BY <1>1, <2>1, RunFacts DEF Connection
<1>9. /\ c2.cursor <= published /\ c2.next <= published
      /\ c2.page \subseteq 1..published /\ (c2.pc = "fetch" => c2.pages < MaxPages)
  <2>1. sync[s].pages # MaxPages => sync[s].pages < MaxPages
    BY RunFacts
  <2>2. QED
    BY <1>2, <1>4, <1>6, <2>1, RunFacts
<1>10. observed' \subseteq 1..published
  BY <1>1, RunFacts, InvFacts
<1>11. /\ seen' \in [Replayed -> Revisions]
       /\ \A g \in Replayed : seen[g] <= seen'[g] /\ seen'[g] <= offered[g]
  <2>1. seen \in [Replayed -> Revisions] /\ offered \in [Replayed -> Revisions]
        /\ \A g \in Replayed : seen[g] <= offered[g] /\ offered[g] \in Nat /\ seen[g] \in Nat
    BY InvFacts
  <2>2. QED
    BY <1>1, <2>1
<1>12. /\ job' \in [Replayed -> [1..MaxRevisions -> Job]]
       /\ \A g \in Replayed, r \in 1..MaxRevisions : job'[g][r].state = job[g][r].state
  BY <1>1, InvFacts
<1>13. QED
  BY <1>1, <1>6, <1>7, <1>8, <1>9, <1>10, <1>11, <1>12, RunStep

LEMMA FinishAsks ==
    ASSUME ReplayInv, NEW s \in Syncs, Finish(s)
    PROVE  Asks
<1>1. /\ sync[s].pc = "finish" /\ UNCHANGED duels /\ job' = job
      /\ account' = [cursor |-> sync[s].cursor, exhausted |-> sync[s].done]
      /\ observed' = observed /\ seen' = seen
      /\ faults' \in 0..MaxFaults
  BY InvFacts DEF Finish
<1>2. PICK c2 : c2 = [sync[s] EXCEPT !.pc = "enqueue", !.todo = Replayed]
  OBVIOUS
<1>3. /\ c2 \in Run /\ c2.pc = "enqueue" /\ c2.cursor = sync[s].cursor
      /\ c2.next = sync[s].next /\ c2.page = sync[s].page
  <2>1. sync[s] \in Run /\ "enqueue" \in SyncPC
    BY RunFacts DEF SyncPC
  <2>2. QED
    BY <1>2, <2>1 DEF Run
<1>4. sync' = [sync EXCEPT ![s] = c2]
  BY <1>2 DEF Finish
<1>5. account' \in Connection /\ account'.cursor <= published
  <2>1. sync[s].cursor \in 0..MaxGames /\ sync[s].done \in BOOLEAN
    BY RunFacts DEF Run
  <2>2. QED
    BY <1>1, <2>1, RunFacts DEF Connection
<1>6. /\ observed' \subseteq 1..published /\ seen' \in [Replayed -> Revisions]
      /\ \A g \in Replayed : seen[g] <= seen'[g] /\ seen'[g] <= offered[g]
      /\ job' \in [Replayed -> [1..MaxRevisions -> Job]]
      /\ \A g \in Replayed, r \in 1..MaxRevisions : job'[g][r].state = job[g][r].state
  BY <1>1, InvFacts
<1>7. /\ c2.cursor <= published /\ c2.next <= published
      /\ c2.page \subseteq 1..published /\ (c2.pc = "fetch" => c2.pages < MaxPages)
  BY <1>3, RunFacts
<1>8. QED
  BY <1>1, <1>3, <1>4, <1>5, <1>6, <1>7, RunStep

LEMMA EnqueueAsks ==
    ASSUME ReplayInv, NEW s \in Syncs, Enqueue(s)
    PROVE  Asks
<1>1. PICK g \in Replayed : EnqueueReplay(s, g)
  BY RunFacts DEF Enqueue, Run
<1>2. /\ sync[s].pc = "enqueue" /\ UNCHANGED <<duels, history>>
      /\ account' = account /\ observed' = observed /\ seen' = seen
      /\ faults' \in 0..MaxFaults
  BY InvFacts DEF Enqueue, history
<1>3. PICK c2 : c2 = [sync[s] EXCEPT !.todo = @ \ {g}]
  OBVIOUS
<1>4. /\ c2 \in Run /\ c2.pc = "enqueue" /\ c2.cursor = sync[s].cursor
      /\ c2.next = sync[s].next /\ c2.page = sync[s].page
  <2>1. sync[s] \in Run
    BY RunFacts
  <2>2. QED
    BY <1>2, <1>3, <2>1 DEF Run
<1>5. sync' = [sync EXCEPT ![s] = c2]
  BY <1>1, <1>3 DEF EnqueueReplay
<1>6. /\ job' \in [Replayed -> [1..MaxRevisions -> Job]]
      /\ \A h \in Replayed, r \in 1..MaxRevisions :
            job'[h][r].state # job[h][r].state =>
               /\ job[h][r].state = "none" /\ job'[h][r].state = "queued" /\ r <= seen[h]
  <2>1. CASE Pending(g) /\ job[g][seen[g]] = NoJob
    <3>1. PICK r \in 1..MaxRevisions : r = seen[g]
      BY <2>1, InvFacts DEF Pending
    <3>2. PICK j : j = [job[g][r] EXCEPT !.state = "queued"]
      OBVIOUS
    <3>3. job[g][r] = NoJob /\ j = [state |-> "queued", tries |-> 0] /\ j \in Job
      BY <2>1, <3>1, <3>2 DEF NoJob, Job
    <3>4. PICK row : row = [job[g] EXCEPT ![r] = j]
      OBVIOUS
    <3>5. job' = [job EXCEPT ![g] = row]
      BY <1>1, <2>1, <3>1, <3>2, <3>4 DEF EnqueueReplay
    <3>6. job \in [Replayed -> [1..MaxRevisions -> Job]]
      BY InvFacts
    <3>7. /\ row \in [1..MaxRevisions -> Job] /\ row[r] = j
          /\ \A q \in 1..MaxRevisions : q # r => row[q] = job[g][q]
      BY <3>3, <3>4, <3>6
    <3>8. /\ job' \in [Replayed -> [1..MaxRevisions -> Job]] /\ job'[g] = row
          /\ \A h \in Replayed : h # g => job'[h] = job[h]
      BY <3>5, <3>6, <3>7
    <3>9. r <= seen[g]
      BY <3>1
    <3>10. job[g][r].state = "none" /\ j.state = "queued"
      BY <3>3 DEF NoJob
    <3>11. QED
      BY <3>7, <3>8, <3>9, <3>10
  <2>2. CASE ~(Pending(g) /\ job[g][seen[g]] = NoJob)
    <3>1. job' = job
      BY <1>1, <2>2 DEF EnqueueReplay
    <3>2. QED
      BY <3>1, InvFacts
  <2>3. QED
    BY <2>1, <2>2
<1>7. /\ account' \in Connection /\ account'.cursor <= published
      /\ observed' \subseteq 1..published /\ seen' \in [Replayed -> Revisions]
      /\ \A h \in Replayed : seen[h] <= seen'[h] /\ seen'[h] <= offered[h]
  BY <1>2, InvFacts, RunFacts
<1>8. /\ c2.cursor <= published /\ c2.next <= published
      /\ c2.page \subseteq 1..published /\ (c2.pc = "fetch" => c2.pages < MaxPages)
  BY <1>4, RunFacts
<1>9. \A h \in Replayed, r \in 1..MaxRevisions :
         job'[h][r].state # job[h][r].state =>
            /\ job[h][r].state = "none" /\ job'[h][r].state = "queued"
            /\ r <= seen'[h]
  BY <1>2, <1>6
<1>10. job' \in [Replayed -> [1..MaxRevisions -> Job]] /\ UNCHANGED duels
  BY <1>2, <1>6
<1>11. QED
  BY <1>2, <1>4, <1>5, <1>7, <1>8, <1>9, <1>10, RunStep

LEMMA SyncingInv ==
    ASSUME ReplayInv, Syncing
    PROVE  ReplayInv'
<1>1. UNCHANGED <<artifacts, derived, work>>
  BY DEF Syncing
<1>2. CASE Play
  BY <1>1, <1>2, PlayReviseInv
<1>3. ASSUME NEW s \in Syncs, Begin(s) \/ SyncStep(s) \/ SyncStops(s)
      PROVE  ReplayInv'
  <2>1. Asks
    BY <1>3, QuietRunAsks, FetchAsks, StoreAsks, FinishAsks, EnqueueAsks DEF SyncStep
  <2>2. UNCHANGED stored
    BY <1>3 DEF SyncStep, Begin, SyncStops, Fetch, Store, Finish, Enqueue, SyncEnds
  <2>3. UNCHANGED <<stored, readable, derived, work>> /\ bytes' = bytes
    BY <1>1, <2>2 DEF artifacts
  <2>4. QED
    BY <2>1, <2>3, AsksStays, InvFacts
<1>4. QED
  BY <1>2, <1>3 DEF Syncing

-----------------------------------------------------------------------------
(***************************************************************************)
(* The replay jobs.                                                        *)
(***************************************************************************)
LEMMA WorkFacts ==
    ASSUME ReplayInv, NEW w \in Workers
    PROVE  /\ work[w] \in Work /\ WorkOK(w)
           /\ work[w] # Rest =>
                 /\ work[w].pc # "idle"
                 /\ work[w].game \in Replayed /\ work[w].asked \in 1..MaxRevisions
                 /\ work[w].revision \in 1..MaxRevisions
                 /\ work[w].asked <= work[w].revision
                 /\ work[w].revision <= offered[work[w].game]
                 /\ job[work[w].game][work[w].asked].state # "none"
                 /\ work[w].digest # Bad =>
                       /\ work[w].digest \in Digests
                       /\ work[w].digest = bytes[work[w].game][work[w].revision]
<1>1. work[w] \in Work /\ WorkOK(w) /\ MaxRevisions \in Nat
  BY InvFacts
<1>2. ASSUME work[w] # Rest
      PROVE  /\ work[w].pc # "idle"
             /\ work[w].game \in Replayed /\ work[w].asked \in 1..MaxRevisions
             /\ work[w].asked <= work[w].revision
             /\ work[w].revision <= offered[work[w].game]
             /\ job[work[w].game][work[w].asked].state # "none"
             /\ work[w].digest # Bad =>
                   work[w].digest = bytes[work[w].game][work[w].revision]
  BY <1>1, <1>2 DEF WorkOK
<1>3. work[w].revision \in 0..MaxRevisions /\ work[w].digest \in Digests \cup {Bad}
  BY <1>1 DEF Work, Revisions
<1>4. ASSUME work[w] # Rest PROVE work[w].revision \in 1..MaxRevisions
  BY <1>1, <1>2, <1>3, <1>4
<1>5. QED
  BY <1>1, <1>2, <1>3, <1>4

LEMMA RestWorks == Rest \in Work /\ Rest.pc = "idle"
<1>1. 0 \in 0..MaxReplayed /\ 0 \in Revisions
  BY SyncAssumption DEF Revisions
<1>2. QED
  BY <1>1 DEF Rest, Work, WorkPC

\* One job changes.
LEMMA JobSet ==
    ASSUME ReplayInv, NEW g \in Replayed, NEW r \in 1..MaxRevisions, NEW j \in Job,
           job' = [job EXCEPT ![g][r] = j]
    PROVE  /\ job' \in [Replayed -> [1..MaxRevisions -> Job]]
           /\ job'[g][r] = j
           /\ \A h \in Replayed, q \in 1..MaxRevisions :
                 <<h, q>> # <<g, r>> => job'[h][q] = job[h][q]
<1>1. job \in [Replayed -> [1..MaxRevisions -> Job]]
  BY InvFacts
<1>2. PICK row : row = [job[g] EXCEPT ![r] = j]
  OBVIOUS
<1>3. job' = [job EXCEPT ![g] = row]
  BY <1>2
<1>4. /\ row \in [1..MaxRevisions -> Job] /\ row[r] = j
      /\ \A q \in 1..MaxRevisions : q # r => row[q] = job[g][q]
  BY <1>1, <1>2
<1>5. QED
  BY <1>1, <1>3, <1>4

\* A job is queued again, given up or done.
LEMMA JobDecided ==
    ASSUME ReplayInv, NEW g \in Replayed, NEW r \in 1..MaxRevisions,
           NEW s \in {"queued", "failed", "done"}, Decided(g, r, s)
    PROVE  /\ job' \in [Replayed -> [1..MaxRevisions -> Job]]
           /\ job'[g][r].state = s
           /\ \A h \in Replayed, q \in 1..MaxRevisions :
                 <<h, q>> # <<g, r>> => job'[h][q] = job[h][q]
<1>1. job[g][r] \in Job
  <2>1. job \in [Replayed -> [1..MaxRevisions -> Job]]
    BY InvFacts
  <2>2. QED
    BY <2>1
<1>2. PICK j : j = [job[g][r] EXCEPT !.state = s]
  OBVIOUS
<1>3. j \in Job /\ j.state = s
  BY <1>1, <1>2 DEF Job
<1>4. job' = [job EXCEPT ![g][r] = j]
  BY <1>2 DEF Decided
<1>5. /\ job' \in [Replayed -> [1..MaxRevisions -> Job]]
      /\ job'[g][r] = j
      /\ \A h \in Replayed, q \in 1..MaxRevisions :
            <<h, q>> # <<g, r>> => job'[h][q] = job[h][q]
  BY <1>3, <1>4, JobSet, ZenonT(60)
<1>6. QED
  BY <1>3, <1>5

\* What is left to show of a step of a worker.
LEMMA WorkSide ==
    ASSUME ReplayInv, UNCHANGED <<duels, history, sync, artifacts>>,
           faults' \in 0..MaxFaults,
           NEW w \in Workers, NEW c2 \in Work, work' = [work EXCEPT ![w] = c2],
           WorkOK(w)',
           job' \in [Replayed -> [1..MaxRevisions -> Job]],
           \A g \in Replayed, r \in 1..MaxRevisions :
              /\ job'[g][r].state = "none" <=> job[g][r].state = "none"
              /\ job'[g][r].state = "done" => job[g][r].state = "done" \/ DoneOK(g, r)',
           stored' \in [Replayed -> Seq(ReplayRow)],
           \A g \in Replayed : /\ RowsOK(g)'
                               /\ \A i, k \in DOMAIN stored'[g] :
                                    stored'[g][i].digest = stored'[g][k].digest => i = k
                               /\ \A d : Keeps(g, d) => Keeps(g, d)',
           normalized \subseteq normalized', normalized' \subseteq Digests,
           projected \subseteq projected', projected' \subseteq Digests,
           measured \subseteq measured', measured' \subseteq Digests
    PROVE  ReplayInv'
<1>1. /\ plan' = plan /\ published' = published /\ offered' = offered
      /\ account' = account /\ observed' = observed /\ seen' = seen /\ sync' = sync
      /\ bytes' = bytes /\ readable' = readable
  BY DEF duels, history, artifacts
<1>2. SyncTypeOK'
  BY <1>1, InvFacts DEF SyncTypeOK
<1>3. work' \in [Workers -> Work]
  BY InvFacts
<1>4. ReplayTypeOK'
  BY <1>1, <1>2, <1>3, InvFacts DEF ReplayTypeOK
<1>5. CursorsOK'
  BY <1>1, InvFacts DEF CursorsOK
<1>6. ASSUME NEW g \in Replayed
      PROVE  seen'[g] <= offered'[g] /\ RowsOK(g)' /\ JobsOK(g)'
  <2>1. seen'[g] <= offered'[g]
    BY <1>1, InvFacts
  <2>2. ASSUME NEW r \in 1..MaxRevisions
        PROVE  (job'[g][r].state # "none" => r <= seen'[g]) /\ DoneOK(g, r)'
    <3>1. (job[g][r].state # "none" => r <= seen[g]) /\ DoneOK(g, r)
      BY InvFacts DEF JobsOK
    <3>2. job'[g][r].state # "none" => r <= seen'[g]
      BY <1>1, <3>1
    <3>3. CASE job'[g][r].state = "done" /\ job[g][r].state = "done"
      <4>1. PICK q \in r..offered[g] :
               /\ bytes[g][q] \in normalized \cap projected \cap measured
               /\ Keeps(g, bytes[g][q])
        BY <3>1, <3>3 DEF DoneOK
      <4>2. PICK d : d = bytes[g][q]
        OBVIOUS
      <4>3. Keeps(g, d)'
        BY <4>1, <4>2
      <4>4. d = bytes'[g][q] /\ q \in r..offered'[g]
        BY <1>1, <4>2
      <4>5. Keeps(g, bytes[g][q])'
        BY <4>3, <4>4
      <4>6. bytes'[g][q] \in normalized' \cap projected' \cap measured'
        BY <4>1, <4>2, <4>4
      <4>7. QED
        BY <3>2, <4>4, <4>5, <4>6 DEF DoneOK
    <3>4. CASE ~(job'[g][r].state = "done" /\ job[g][r].state = "done")
      <4>1. job'[g][r].state = "done" => DoneOK(g, r)'
        BY <3>4
      <4>2. QED
        BY <3>2, <4>1 DEF DoneOK
    <3>5. QED
      BY <3>2, <3>3, <3>4
  <2>3. QED
    BY <2>1, <2>2 DEF JobsOK
<1>7. ASSUME NEW u \in Workers PROVE WorkOK(u)'
  <2>1. CASE u = w
    BY <2>1
  <2>2. CASE u # w
    <3>1. work'[u] = work[u] /\ WorkOK(u) /\ work[u] \in Work
      BY <2>2, InvFacts
    <3>2. CASE work[u].pc = "idle"
      BY <3>1, <3>2 DEF WorkOK
    <3>3. CASE work[u].pc # "idle"
      <4>1. PICK g \in Replayed, r \in 1..MaxRevisions :
               g = work[u].game /\ r = work[u].asked /\ job[g][r].state # "none"
        BY <3>1, <3>3 DEF WorkOK
      <4>2. job'[g][r].state # "none"
        BY <4>1
      <4>3. PICK d : d = work[u].digest
        OBVIOUS
      <4>4. Keeps(g, d) => Keeps(g, d)'
        OBVIOUS
      <4>5. Keeps(work[u].game, work[u].digest) => Keeps(g, d)
        BY <4>1, <4>3
      <4>6. Keeps(g, d)' => Keeps(work[u].game, work[u].digest)'
        BY <3>1, <4>1, <4>3
      <4>7. QED
        BY <1>1, <3>1, <3>3, <4>1, <4>2, <4>4, <4>5, <4>6 DEF WorkOK
    <3>4. QED
      BY <3>2, <3>3
  <2>3. QED
    BY <2>1, <2>2
<1>8. QED
  BY <1>1, <1>4, <1>5, <1>6, <1>7 DEF ReplayInv

\* Steps that keep no replay and derive nothing.
LEMMA WorkOnly ==
    ASSUME ReplayInv,
           UNCHANGED <<duels, history, sync, stored, artifacts, derived>>,
           faults' \in 0..MaxFaults,
           NEW w \in Workers, NEW c2 \in Work, work' = [work EXCEPT ![w] = c2],
           WorkOK(w)',
           job' \in [Replayed -> [1..MaxRevisions -> Job]],
           \A g \in Replayed, r \in 1..MaxRevisions :
              /\ job'[g][r].state = "none" <=> job[g][r].state = "none"
              /\ job'[g][r].state = "done" => job[g][r].state = "done" \/ DoneOK(g, r)'
    PROVE  ReplayInv'
<1>1. /\ stored' = stored /\ offered' = offered /\ bytes' = bytes
      /\ normalized' = normalized /\ projected' = projected /\ measured' = measured
  BY DEF duels, artifacts, derived
<1>2. \A g \in Replayed : /\ RowsOK(g)'
                          /\ \A i, k \in DOMAIN stored'[g] :
                               stored'[g][i].digest = stored'[g][k].digest => i = k
                          /\ \A d : Keeps(g, d) => Keeps(g, d)'
  BY <1>1, InvFacts DEF ReplayTypeOK, RowsOK, Keeps
<1>3. stored' \in [Replayed -> Seq(ReplayRow)] /\ UNCHANGED <<duels, history, sync, artifacts>>
  BY <1>1, InvFacts
<1>4. /\ normalized \subseteq normalized' /\ normalized' \subseteq Digests
      /\ projected \subseteq projected' /\ projected' \subseteq Digests
      /\ measured \subseteq measured' /\ measured' \subseteq Digests
  BY <1>1, InvFacts
<1>5. QED
  BY <1>2, <1>3, <1>4, WorkSide

\* An attempt that fails, and one whose lease has lapsed, leave a job.
LEMMA FailedFacts ==
    ASSUME ReplayInv, NEW w \in Workers, work[w] # Rest, Failed(w)
    PROVE  /\ work' = [work EXCEPT ![w] = Rest] /\ WorkOK(w)'
           /\ job' \in [Replayed -> [1..MaxRevisions -> Job]]
           /\ \A g \in Replayed, r \in 1..MaxRevisions :
                /\ job'[g][r].state = "none" <=> job[g][r].state = "none"
                /\ job'[g][r].state = "done" => job[g][r].state = "done"
<1>1. work' = [work EXCEPT ![w] = Rest]
  BY DEF Failed
<1>2. WorkOK(w)'
  <2>1. work'[w] = Rest
    BY <1>1, InvFacts
  <2>2. QED
    BY <2>1 DEF WorkOK, Rest
<1>3. PICK g \in Replayed, r \in 1..MaxRevisions :
         g = work[w].game /\ r = work[w].asked /\ job[g][r].state # "none"
  BY WorkFacts
<1>4. CASE job' = job
  BY <1>1, <1>2, <1>4, InvFacts
<1>5. CASE job' # job
  <2>1. PICK s \in {"queued", "failed", "done"} : Decided(g, r, s) /\ s # "done"
    BY <1>3, <1>5 DEF Failed
  <2>2. /\ job' \in [Replayed -> [1..MaxRevisions -> Job]]
        /\ job'[g][r].state = s
        /\ \A h \in Replayed, q \in 1..MaxRevisions :
              <<h, q>> # <<g, r>> => job'[h][q] = job[h][q]
    BY <2>1, JobDecided
  <2>3. s # "none" /\ s # "done"
    BY <2>1
  <2>4. QED
    BY <1>1, <1>2, <1>3, <2>2, <2>3
<1>6. QED
  BY <1>4, <1>5

LEMMA WorkFailsInv ==
    ASSUME ReplayInv, NEW w \in Workers, WorkFails(w)
    PROVE  ReplayInv'
<1>1. /\ work[w] # Rest /\ Failed(w) /\ faults' \in 0..MaxFaults
      /\ UNCHANGED <<duels, history, sync, stored, artifacts, derived>>
  BY InvFacts, FaultCounts DEF WorkFails
<1>2. /\ work' = [work EXCEPT ![w] = Rest] /\ WorkOK(w)'
      /\ job' \in [Replayed -> [1..MaxRevisions -> Job]]
      /\ \A g \in Replayed, r \in 1..MaxRevisions :
                /\ job'[g][r].state = "none" <=> job[g][r].state = "none"
                /\ job'[g][r].state = "done" => job[g][r].state = "done"
  BY <1>1, FailedFacts
<1>3. QED
  BY <1>1, <1>2, RestWorks, WorkOnly

LEMMA LapsesInv ==
    ASSUME ReplayInv, NEW w \in Workers, Lapses(w)
    PROVE  ReplayInv'
<1>1. /\ work[w] # Rest /\ faults' \in 0..MaxFaults
      /\ UNCHANGED <<duels, history, sync, stored, artifacts, derived>>
  BY InvFacts, FaultCounts DEF Lapses
<1>2. PICK g \in Replayed, r \in 1..MaxRevisions :
         g = work[w].game /\ r = work[w].asked /\ job[g][r].state # "none"
  BY <1>1, WorkFacts
<1>3. PICK s \in {"queued", "failed", "done"} : Decided(g, r, s) /\ s # "done"
  BY <1>2 DEF Lapses
<1>4. /\ job' \in [Replayed -> [1..MaxRevisions -> Job]]
      /\ \A h \in Replayed, q \in 1..MaxRevisions :
            /\ job'[h][q].state = "none" <=> job[h][q].state = "none"
            /\ job'[h][q].state = "done" => job[h][q].state = "done"
  <2>1. /\ job' \in [Replayed -> [1..MaxRevisions -> Job]]
        /\ job'[g][r].state = s
        /\ \A h \in Replayed, q \in 1..MaxRevisions :
              <<h, q>> # <<g, r>> => job'[h][q] = job[h][q]
    BY <1>3, JobDecided
  <2>2. s # "none" /\ s # "done"
    BY <1>3
  <2>3. QED
    BY <1>2, <2>1, <2>2
<1>5. PICK c2 \in Work : /\ work' = [work EXCEPT ![w] = c2]
                         /\ c2 = Rest \/ c2 = [work[w] EXCEPT !.lost = TRUE]
  <2>1. work[w] \in Work
    BY WorkFacts
  <2>2. [work[w] EXCEPT !.lost = TRUE] \in Work
    BY <2>1 DEF Work
  <2>3. \/ work' = [work EXCEPT ![w] = Rest]
        \/ work' = [work EXCEPT ![w] = [work[w] EXCEPT !.lost = TRUE]]
    BY DEF Lapses
  <2>4. QED
    BY <2>2, <2>3, RestWorks
<1>6. WorkOK(w)'
  <2>1. work'[w] = c2
    BY <1>5, InvFacts
  <2>2. CASE c2 = Rest
    BY <2>1, <2>2 DEF WorkOK, Rest
  <2>3. CASE c2 = [work[w] EXCEPT !.lost = TRUE]
    <3>1. work[w] \in Work /\ WorkOK(w)
      BY WorkFacts
    <3>2. /\ c2.pc = work[w].pc /\ c2.game = work[w].game /\ c2.asked = work[w].asked
          /\ c2.revision = work[w].revision /\ c2.digest = work[w].digest
      BY <2>3, <3>1 DEF Work
    <3>3. /\ stored' = stored /\ offered' = offered /\ bytes' = bytes
          /\ normalized' = normalized /\ projected' = projected
      BY <1>1 DEF duels, artifacts, derived
    <3>4. job'[work[w].game][work[w].asked].state # "none"
      BY <1>2, <1>4
    <3>5. work[w].pc # "idle"
      BY <1>1, WorkFacts
    <3>6. QED
      BY <2>1, <3>1, <3>2, <3>3, <3>4, <3>5 DEF WorkOK, Keeps
  <2>4. QED
    BY <1>5, <2>2, <2>3
<1>7. QED
  BY <1>1, <1>4, <1>5, <1>6, WorkOnly

LEMMA DownloadInv ==
    ASSUME ReplayInv, NEW w \in Workers, Download(w)
    PROVE  ReplayInv'
<1>1. /\ work[w].pc = "download" /\ work[w] # Rest /\ job' = job
      /\ UNCHANGED <<duels, history, sync, stored, artifacts, derived>>
      /\ faults' \in 0..MaxFaults
  BY InvFacts, FaultCounts DEF Download, Rest
<1>2. PICK d \in Digests \cup {Bad} :
         /\ d # Bad => d = bytes[work[w].game][work[w].revision]
         /\ work' = [work EXCEPT ![w].pc = "persist", ![w].digest = d]
  <2>1. bytes[work[w].game][work[w].revision] \in Digests \cup {Bad}
    BY <1>1, WorkFacts, InvFacts
  <2>2. QED
    BY <2>1 DEF Download
<1>3. PICK c2 : c2 = [work[w] EXCEPT !.pc = "persist", !.digest = d]
  OBVIOUS
<1>4. /\ c2 \in Work
      /\ c2.pc = "persist" /\ c2.game = work[w].game /\ c2.asked = work[w].asked
      /\ c2.revision = work[w].revision /\ c2.digest = d
  <2>1. work[w] \in Work /\ "persist" \in WorkPC
    BY WorkFacts DEF WorkPC
  <2>2. QED
    BY <1>3, <2>1 DEF Work
<1>5. work' = [work EXCEPT ![w] = c2]
  BY <1>2, <1>3
<1>6. WorkOK(w)'
  <2>1. work'[w] = c2
    BY <1>5, InvFacts
  <2>2. /\ offered' = offered /\ bytes' = bytes
    BY <1>1 DEF duels, artifacts
  <2>3. QED
    BY <1>1, <1>2, <1>4, <2>1, <2>2, WorkFacts DEF WorkOK
<1>7. QED
  BY <1>1, <1>4, <1>5, <1>6, WorkOnly, InvFacts

\* The latest replay of a game, when the observation read is of it.
LEMMA ResumableFacts ==
    ASSUME ReplayInv, NEW g \in Replayed, Resumable(g)
    PROVE  /\ Last(stored[g]).digest \in Digests /\ seen[g] \in 1..MaxRevisions
           /\ Last(stored[g]).digest = bytes[g][seen[g]]
           /\ Keeps(g, Last(stored[g]).digest)
<1>1. stored[g] \in Seq(ReplayRow) /\ stored[g] # <<>> /\ RowsOK(g)
  BY InvFacts DEF Resumable
<1>2. PICK i \in DOMAIN stored[g] : Last(stored[g]) = stored[g][i]
  <2>1. Len(stored[g]) \in DOMAIN stored[g]
    BY <1>1
  <2>2. QED
    BY <2>1 DEF Last
<1>3. /\ stored[g][i] \in ReplayRow /\ stored[g][i].digest # Bad
      /\ stored[g][i].revision = seen[g]
  BY <1>1, <1>2 DEF Resumable
<1>4. stored[g][i].digest = bytes[g][seen[g]]
  BY <1>1, <1>3 DEF RowsOK
<1>5. stored[g][i].digest \in Digests /\ seen[g] \in 1..MaxRevisions
  BY <1>3 DEF ReplayRow
<1>6. Keeps(g, stored[g][i].digest)
  BY DEF Keeps
<1>7. QED
  BY <1>2, <1>4, <1>5, <1>6

LEMMA StartInv ==
    ASSUME ReplayInv, NEW w \in Workers, NEW g \in Replayed, NEW r \in 1..MaxRevisions,
           Start(w, g, r)
    PROVE  ReplayInv'
<1>1. /\ work[w] = Rest /\ job[g][r].state = "queued" /\ faults' \in 0..MaxFaults
      /\ UNCHANGED <<duels, history, sync, stored, artifacts, derived>>
      /\ stored' = stored /\ offered' = offered /\ bytes' = bytes
      /\ normalized' = normalized /\ projected' = projected /\ measured' = measured
  BY InvFacts DEF Start, duels, artifacts, derived
<1>2. r <= seen[g] /\ seen[g] <= offered[g] /\ seen[g] \in 1..MaxRevisions
  BY <1>1, InvFacts DEF JobsOK
<1>3. job[g][r].tries + 1 \in Nat
  <2>1. job \in [Replayed -> [1..MaxRevisions -> Job]]
    BY InvFacts
  <2>2. job[g][r] \in Job
    BY <2>1
  <2>3. QED
    BY <2>2 DEF Job
<1>4. PICK n \in Nat : n = job[g][r].tries + 1
  BY <1>3
<1>5. CASE Resumable(g) /\ Complete(Last(stored[g]).digest)
  <2>1. PICK j : j = [state |-> "done", tries |-> n]
    OBVIOUS
  <2>2. j \in Job /\ j.state = "done"
    BY <2>1 DEF Job
  <2>3. job' = [job EXCEPT ![g][r] = j] /\ work' = work
    BY <1>4, <1>5, <2>1 DEF Start
  <2>4. /\ job' \in [Replayed -> [1..MaxRevisions -> Job]]
        /\ job'[g][r] = j
        /\ \A h \in Replayed, q \in 1..MaxRevisions :
              <<h, q>> # <<g, r>> => job'[h][q] = job[h][q]
    BY <2>2, <2>3, JobSet, Zenon
  <2>5. DoneOK(g, r)'
    <3>1. PICK d : d = bytes[g][seen[g]]
      OBVIOUS
    <3>2. Keeps(g, d) /\ d \in normalized \cap projected \cap measured
      BY <1>5, <3>1, ResumableFacts DEF Complete
    <3>3. Keeps(g, d)'
      BY <1>1, <3>2 DEF Keeps
    <3>4. PICK q \in r..offered[g] : d = bytes[g][q]
      BY <1>2, <3>1
    <3>5. d = bytes'[g][q] /\ q \in r..offered'[g]
      BY <1>1, <3>4
    <3>6. Keeps(g, bytes[g][q])'
      BY <3>3, <3>5
    <3>7. bytes'[g][q] \in normalized' \cap projected' \cap measured'
      BY <1>1, <3>2, <3>5
    <3>8. QED
      BY <3>5, <3>6, <3>7 DEF DoneOK
  <2>6. \A h \in Replayed, q \in 1..MaxRevisions :
              /\ job'[h][q].state = "none" <=> job[h][q].state = "none"
              /\ job'[h][q].state = "done" => job[h][q].state = "done" \/ DoneOK(h, q)'
    BY <1>1, <2>2, <2>4, <2>5
  <2>7. work' = [work EXCEPT ![w] = Rest] /\ WorkOK(w)'
    <3>1. work' = [work EXCEPT ![w] = Rest]
      BY <1>1, <2>3, InvFacts
    <3>2. work'[w] = Rest
      BY <1>1, <2>3
    <3>3. QED
      BY <3>1, <3>2 DEF WorkOK, Rest
  <2>8. QED
    BY <1>1, <2>4, <2>6, <2>7, WorkOnly, RestWorks
<1>6. CASE ~(Resumable(g) /\ Complete(Last(stored[g]).digest))
  <2>1. PICK j : j = [state |-> "running", tries |-> n]
    OBVIOUS
  <2>2. j \in Job /\ j.state = "running"
    BY <2>1 DEF Job
  <2>3. PICK pc2 \in {"normalize", "download"} :
           pc2 = IF Resumable(g) THEN "normalize" ELSE "download"
    OBVIOUS
  <2>4. PICK d \in Digests \cup {Bad} :
           /\ d = IF Resumable(g) THEN Last(stored[g]).digest ELSE Bad
           /\ d # Bad => d = bytes[g][seen[g]]
           /\ pc2 = "normalize" => d # Bad /\ Keeps(g, d)
    <3>1. CASE Resumable(g)
      <4>1. Last(stored[g]).digest # Bad
        BY <3>1 DEF Resumable
      <4>2. QED
        BY <3>1, <4>1, ResumableFacts
    <3>2. CASE ~Resumable(g)
      BY <2>3, <3>2
    <3>3. QED
      BY <3>1, <3>2
  <2>5. PICK v \in 1..MaxRevisions : v = seen[g]
    BY <1>2
  <2>6. PICK c2 : c2 = [pc |-> pc2, game |-> g, asked |-> r, revision |-> v,
                        digest |-> d, lost |-> FALSE]
    OBVIOUS
  <2>7. /\ c2 \in Work /\ c2.pc = pc2 /\ c2.game = g /\ c2.asked = r
        /\ c2.revision = v /\ c2.digest = d
    <3>1. pc2 \in WorkPC
      BY <2>3 DEF WorkPC
    <3>2. g \in 0..MaxReplayed /\ r \in Revisions /\ v \in Revisions
      BY InvFacts DEF Replayed, Revisions
    <3>3. QED
      BY <2>6, <3>1, <3>2 DEF Work
  <2>8. /\ job' = [job EXCEPT ![g][r] = j]
        /\ work' = [work EXCEPT ![w] = c2]
    BY <1>4, <1>6, <2>1, <2>3, <2>4, <2>5, <2>6 DEF Start, Rest
  <2>9. /\ job' \in [Replayed -> [1..MaxRevisions -> Job]]
        /\ job'[g][r] = j
        /\ \A h \in Replayed, q \in 1..MaxRevisions :
              <<h, q>> # <<g, r>> => job'[h][q] = job[h][q]
    <3>1. j \in Job /\ job' = [job EXCEPT ![g][r] = j]
      BY <2>2, <2>8
    <3>2. QED
      BY <3>1, JobSet, Zenon
  <2>10. \A h \in Replayed, q \in 1..MaxRevisions :
              /\ job'[h][q].state = "none" <=> job[h][q].state = "none"
              /\ job'[h][q].state = "done" => job[h][q].state = "done" \/ DoneOK(h, q)'
    BY <1>1, <2>2, <2>9
  <2>11. WorkOK(w)'
    <3>1. work'[w] = c2
      BY <2>8, InvFacts
    <3>2. Keeps(g, d) => Keeps(g, d)'
      BY <1>1 DEF Keeps
    <3>3. Keeps(g, d)' => Keeps(c2.game, c2.digest)'
      BY <2>7
    <3>4. job'[g][r].state # "none" /\ c2.pc # "idle" /\ c2.pc # "measure"
      BY <2>2, <2>3, <2>7, <2>9
    <3>5. /\ r <= v /\ v <= offered'[g]
          /\ d # Bad => d = bytes'[g][v]
      BY <1>1, <1>2, <2>4, <2>5
    <3>6. c2.pc \in {"normalize", "measure"} =>
             c2.digest # Bad /\ Keeps(c2.game, c2.digest)'
      BY <2>4, <2>7, <3>2, <3>3, <3>4
    <3>7. QED
      BY <2>7, <3>1, <3>4, <3>5, <3>6 DEF WorkOK, Keeps
  <2>12. QED
    BY <1>1, <2>7, <2>8, <2>9, <2>10, <2>11, WorkOnly
<1>7. QED
  BY <1>5, <1>6

\* Keeping a replay.
LEMMA KeptFacts ==
    ASSUME ReplayInv, NEW g \in Replayed, NEW d \in Digests \cup {Bad},
           NEW r \in 1..MaxRevisions, r <= offered[g],
           d # Bad => d = bytes[g][r],
           stored' = Kept(g, d, r), UNCHANGED <<duels, artifacts>>
    PROVE  /\ stored' \in [Replayed -> Seq(ReplayRow)]
           /\ \A h \in Replayed :
                /\ RowsOK(h)'
                /\ \A i, k \in DOMAIN stored'[h] :
                     stored'[h][i].digest = stored'[h][k].digest => i = k
                /\ \A e : Keeps(h, e) => Keeps(h, e)'
           /\ Keeps(g, d)'
<1>1. /\ stored \in [Replayed -> Seq(ReplayRow)] /\ offered' = offered /\ bytes' = bytes
      /\ \A h \in Replayed : RowsOK(h)
  BY InvFacts DEF duels, artifacts
<1>2. \A h \in Replayed : \A i, k \in DOMAIN stored[h] :
         stored[h][i].digest = stored[h][k].digest => i = k
  BY InvFacts DEF ReplayTypeOK
<1>3. CASE \E i \in DOMAIN stored[g] : stored[g][i].digest = d
  <2>1. stored' = stored
    BY <1>3 DEF Kept
  <2>2. QED
    BY <1>1, <1>2, <1>3, <2>1 DEF RowsOK, Keeps
<1>4. CASE ~\E i \in DOMAIN stored[g] : stored[g][i].digest = d
  <2>1. PICK row : row = [digest |-> d, revision |-> r]
    OBVIOUS
  <2>2. row \in ReplayRow /\ row.digest = d /\ row.revision = r
    BY <2>1 DEF ReplayRow
  <2>3. PICK rows : rows = Append(stored[g], row)
    OBVIOUS
  <2>4. stored[g] \in Seq(ReplayRow)
    BY <1>1
  <2>5. /\ rows \in Seq(ReplayRow) /\ Len(rows) = Len(stored[g]) + 1
        /\ Len(stored[g]) \in Nat
        /\ \A i \in 1..Len(stored[g]) : rows[i] = stored[g][i]
        /\ rows[Len(stored[g]) + 1] = row
    BY <2>2, <2>3, <2>4
  <2>6. /\ DOMAIN stored[g] = 1..Len(stored[g])
        /\ DOMAIN rows = 1..(Len(stored[g]) + 1)
    BY <2>4, <2>5
  <2>7. stored' = [stored EXCEPT ![g] = rows]
    BY <1>4, <2>1, <2>3 DEF Kept
  <2>8. /\ stored' \in [Replayed -> Seq(ReplayRow)] /\ stored'[g] = rows
        /\ \A h \in Replayed : h # g => stored'[h] = stored[h]
    BY <1>1, <2>5, <2>7
  <2>9. \A i \in DOMAIN rows :
           \/ i \in DOMAIN stored[g] /\ rows[i] = stored[g][i]
           \/ i = Len(stored[g]) + 1 /\ rows[i] = row
    BY <2>5, <2>6
  <2>10. Keeps(g, d)'
    <3>1. Len(stored[g]) + 1 \in DOMAIN rows
      BY <2>5, <2>6
    <3>2. QED
      BY <2>2, <2>5, <2>8, <3>1 DEF Keeps
  <2>11. ASSUME NEW h \in Replayed
         PROVE  /\ RowsOK(h)'
                /\ \A i, k \in DOMAIN stored'[h] :
                     stored'[h][i].digest = stored'[h][k].digest => i = k
                /\ \A e : Keeps(h, e) => Keeps(h, e)'
    <3>1. CASE h # g
      BY <1>1, <1>2, <2>8, <3>1 DEF RowsOK, Keeps
    <3>2. CASE h = g
      <4>1. \A i \in DOMAIN rows :
               rows[i].digest # Bad =>
                  /\ rows[i].revision <= offered'[g]
                  /\ rows[i].digest = bytes'[g][rows[i].revision]
        BY <1>1, <2>2, <2>9 DEF RowsOK
      <4>2. RowsOK(h)'
        BY <2>8, <3>2, <4>1 DEF RowsOK
      <4>3. ASSUME NEW i \in DOMAIN rows, NEW k \in DOMAIN rows,
                   rows[i].digest = rows[k].digest
            PROVE  i = k
        <5>1. CASE i \in DOMAIN stored[g] /\ k \in DOMAIN stored[g]
          BY <1>2, <2>5, <2>6, <4>3, <5>1
        <5>2. CASE ~(i \in DOMAIN stored[g] /\ k \in DOMAIN stored[g])
          BY <1>4, <2>2, <2>9, <4>3, <5>2
        <5>3. QED
          BY <5>1, <5>2
      <4>4. ASSUME NEW e, Keeps(h, e) PROVE Keeps(h, e)'
        <5>1. PICK i \in DOMAIN stored[g] : stored[g][i].digest = e
          BY <3>2, <4>4 DEF Keeps
        <5>2. i \in DOMAIN rows /\ rows[i] = stored[g][i]
          BY <2>5, <2>6
        <5>3. QED
          BY <2>8, <3>2, <5>1, <5>2 DEF Keeps
      <4>5. QED
        BY <2>8, <3>2, <4>2, <4>3, <4>4
    <3>3. QED
      BY <3>1, <3>2
  <2>12. QED
    BY <2>8, <2>10, <2>11
<1>5. QED
  BY <1>3, <1>4

LEMMA PersistInv ==
    ASSUME ReplayInv, NEW w \in Workers, Persist(w)
    PROVE  ReplayInv'
<1>1. /\ work[w].pc = "persist" /\ work[w] # Rest /\ faults' \in 0..MaxFaults
      /\ stored' = Kept(work[w].game, work[w].digest, work[w].revision)
      /\ UNCHANGED <<duels, history, sync, artifacts, derived>>
      /\ offered' = offered /\ bytes' = bytes
      /\ normalized' = normalized /\ projected' = projected /\ measured' = measured
  BY InvFacts DEF Persist, Rest, duels, artifacts, derived
<1>2. PICK g \in Replayed, r \in 1..MaxRevisions, d \in Digests \cup {Bad} :
         /\ g = work[w].game /\ r = work[w].revision /\ d = work[w].digest
         /\ r <= offered[g] /\ (d # Bad => d = bytes[g][r])
  <2>1. work[w].digest \in Digests \cup {Bad}
    BY WorkFacts DEF Work
  <2>2. QED
    BY <1>1, <2>1, WorkFacts
<1>3. /\ stored' \in [Replayed -> Seq(ReplayRow)]
      /\ \A h \in Replayed :
           /\ RowsOK(h)'
           /\ \A i, k \in DOMAIN stored'[h] :
                stored'[h][i].digest = stored'[h][k].digest => i = k
           /\ \A e : Keeps(h, e) => Keeps(h, e)'
      /\ Keeps(g, d)'
  BY <1>1, <1>2, KeptFacts
<1>4. PICK c2 \in Work :
         /\ work' = [work EXCEPT ![w] = c2] /\ WorkOK(w)'
         /\ job' \in [Replayed -> [1..MaxRevisions -> Job]]
         /\ \A h \in Replayed, q \in 1..MaxRevisions :
              /\ job'[h][q].state = "none" <=> job[h][q].state = "none"
              /\ job'[h][q].state = "done" => job[h][q].state = "done"
  <2>1. CASE d = Bad
    <3>1. Failed(w)
      BY <1>2, <2>1 DEF Persist
    <3>2. QED
      BY <1>1, <3>1, FailedFacts, RestWorks
  <2>2. CASE d # Bad
    <3>1. job' = job /\ work' = [work EXCEPT ![w].pc = "normalize"]
      BY <1>2, <2>2 DEF Persist, Does
    <3>2. PICK c2 : c2 = [work[w] EXCEPT !.pc = "normalize"]
      OBVIOUS
    <3>3. /\ c2 \in Work
          /\ c2.pc = "normalize" /\ c2.game = work[w].game /\ c2.asked = work[w].asked
          /\ c2.revision = work[w].revision /\ c2.digest = work[w].digest
      <4>1. work[w] \in Work /\ "normalize" \in WorkPC
        BY WorkFacts DEF WorkPC
      <4>2. QED
        BY <3>2, <4>1 DEF Work
    <3>4. work' = [work EXCEPT ![w] = c2]
      BY <3>1, <3>2
    <3>5. work'[w] = c2
      BY <3>4, InvFacts
    <3>6. Keeps(c2.game, c2.digest)'
      BY <1>2, <1>3, <3>3
    <3>7. WorkOK(w)'
      BY <1>1, <1>2, <2>2, <3>1, <3>3, <3>5, <3>6, WorkFacts DEF WorkOK
    <3>8. QED
      BY <3>1, <3>3, <3>4, <3>7, InvFacts
  <2>3. QED
    BY <2>1, <2>2
<1>5. /\ normalized \subseteq normalized' /\ normalized' \subseteq Digests
      /\ projected \subseteq projected' /\ projected' \subseteq Digests
      /\ measured \subseteq measured' /\ measured' \subseteq Digests
  BY <1>1, InvFacts
<1>6. QED
  BY <1>1, <1>3, <1>4, <1>5, WorkSide

LEMMA StoredStays ==
    ASSUME ReplayInv, UNCHANGED <<duels, stored, artifacts>>
    PROVE  /\ stored' \in [Replayed -> Seq(ReplayRow)]
           /\ \A g \in Replayed :
                /\ RowsOK(g)'
                /\ \A i, k \in DOMAIN stored'[g] :
                     stored'[g][i].digest = stored'[g][k].digest => i = k
                /\ \A d : Keeps(g, d) <=> Keeps(g, d)'
<1>1. /\ stored' = stored /\ offered' = offered /\ bytes' = bytes
  BY DEF duels, artifacts
<1>2. QED
  BY <1>1, InvFacts DEF ReplayTypeOK, RowsOK, Keeps

LEMMA NormalizeInv ==
    ASSUME ReplayInv, NEW w \in Workers, Normalize(w)
    PROVE  ReplayInv'
<1>1. /\ work[w].pc = "normalize" /\ work[w] # Rest /\ faults' \in 0..MaxFaults
      /\ UNCHANGED <<duels, history, sync, stored, artifacts>>
      /\ measured' = measured /\ stored' = stored /\ offered' = offered /\ bytes' = bytes
  BY InvFacts DEF Normalize, Rest, duels, artifacts
<1>2. PICK g \in Replayed, r \in 1..MaxRevisions, d \in Digests :
         /\ g = work[w].game /\ r = work[w].revision /\ d = work[w].digest
         /\ r <= offered[g] /\ d = bytes[g][r] /\ d # Bad /\ Keeps(g, d)
  <2>1. work[w].digest # Bad /\ Keeps(work[w].game, work[w].digest)
    BY <1>1, WorkFacts DEF WorkOK
  <2>2. QED
    BY <1>1, <2>1, WorkFacts
<1>3. /\ stored' \in [Replayed -> Seq(ReplayRow)]
      /\ \A h \in Replayed :
           /\ RowsOK(h)'
           /\ \A i, k \in DOMAIN stored'[h] :
                stored'[h][i].digest = stored'[h][k].digest => i = k
           /\ \A e : Keeps(h, e) <=> Keeps(h, e)'
  BY <1>1, StoredStays
<1>4. PICK c2 \in Work :
         /\ work' = [work EXCEPT ![w] = c2] /\ WorkOK(w)'
         /\ job' \in [Replayed -> [1..MaxRevisions -> Job]]
         /\ \A h \in Replayed, q \in 1..MaxRevisions :
              /\ job'[h][q].state = "none" <=> job[h][q].state = "none"
              /\ job'[h][q].state = "done" => job[h][q].state = "done"
         /\ normalized \subseteq normalized' /\ normalized' \subseteq Digests
         /\ projected \subseteq projected' /\ projected' \subseteq Digests
  <2>1. CASE d \in normalized \cup readable
    <3>1. /\ job' = job /\ work' = [work EXCEPT ![w].pc = "measure"]
      BY <1>2, <2>1 DEF Normalize, Does
    <3>2. /\ d \in normalized' /\ d \in projected'
          /\ normalized \subseteq normalized' /\ normalized' \subseteq Digests
          /\ projected \subseteq projected' /\ projected' \subseteq Digests
      <4>1. normalized \subseteq Digests /\ projected \subseteq Digests
        BY InvFacts
      <4>2. CASE d \in normalized
        BY <1>2, <2>1, <4>1, <4>2 DEF Normalize, StoreReadModel
      <4>3. CASE d \notin normalized
        BY <1>2, <2>1, <4>1, <4>3 DEF Normalize, InsertNormalization
      <4>4. QED
        BY <4>2, <4>3
    <3>3. PICK c2 : c2 = [work[w] EXCEPT !.pc = "measure"]
      OBVIOUS
    <3>4. /\ c2 \in Work
          /\ c2.pc = "measure" /\ c2.game = work[w].game /\ c2.asked = work[w].asked
          /\ c2.revision = work[w].revision /\ c2.digest = work[w].digest
      <4>1. work[w] \in Work /\ "measure" \in WorkPC
        BY WorkFacts DEF WorkPC
      <4>2. QED
        BY <3>3, <4>1 DEF Work
    <3>5. work' = [work EXCEPT ![w] = c2]
      BY <3>1, <3>3
    <3>6. work'[w] = c2
      BY <3>5, InvFacts
    <3>7. Keeps(c2.game, c2.digest)'
      BY <1>2, <1>3, <3>4
    <3>8. WorkOK(w)'
      BY <1>1, <1>2, <3>1, <3>2, <3>4, <3>6, <3>7, WorkFacts DEF WorkOK
    <3>9. job' \in [Replayed -> [1..MaxRevisions -> Job]]
      BY <3>1, InvFacts
    <3>10. QED
      BY <3>1, <3>2, <3>4, <3>5, <3>8, <3>9
  <2>2. CASE d \notin normalized \cup readable
    <3>1. Failed(w) /\ normalized' = normalized /\ projected' = projected
      BY <1>2, <2>2 DEF Normalize
    <3>2. normalized \subseteq Digests /\ projected \subseteq Digests
      BY InvFacts
    <3>3. QED
      BY <1>1, <3>1, <3>2, FailedFacts, RestWorks
  <2>3. QED
    BY <2>1, <2>2
<1>5. measured \subseteq measured' /\ measured' \subseteq Digests
  BY <1>1, InvFacts
<1>6. QED
  BY <1>1, <1>3, <1>4, <1>5, WorkSide

LEMMA MeasureInv ==
    ASSUME ReplayInv, NEW w \in Workers, Measure(w)
    PROVE  ReplayInv'
<1>1. /\ work[w].pc = "measure" /\ work[w] # Rest /\ faults' \in 0..MaxFaults
      /\ UNCHANGED <<duels, history, sync, stored, artifacts>>
      /\ normalized' = normalized /\ projected' = projected
      /\ offered' = offered /\ bytes' = bytes
      /\ measured' = measured \cup {work[w].digest}
      /\ work' = [work EXCEPT ![w] = Rest]
  BY InvFacts DEF Measure, Rest, InsertFeatureSet, Succeeded, duels, artifacts
<1>2. PICK g \in Replayed, a \in 1..MaxRevisions, r \in 1..MaxRevisions, d \in Digests :
         /\ g = work[w].game /\ a = work[w].asked /\ r = work[w].revision
         /\ d = work[w].digest /\ a <= r /\ r <= offered[g] /\ d = bytes[g][r]
         /\ Keeps(g, d) /\ d \in normalized \cap projected
         /\ job[g][a].state # "none"
  <2>1. /\ work[w].digest # Bad /\ Keeps(work[w].game, work[w].digest)
        /\ work[w].digest \in normalized \cap projected
    BY <1>1, WorkFacts DEF WorkOK
  <2>2. QED
    BY <1>1, <2>1, WorkFacts
<1>3. /\ stored' \in [Replayed -> Seq(ReplayRow)]
      /\ \A h \in Replayed :
           /\ RowsOK(h)'
           /\ \A i, k \in DOMAIN stored'[h] :
                stored'[h][i].digest = stored'[h][k].digest => i = k
           /\ \A e : Keeps(h, e) <=> Keeps(h, e)'
  BY <1>1, StoredStays
<1>4. DoneOK(g, a)'
  <2>1. d = bytes'[g][r] /\ r \in a..offered'[g]
    BY <1>1, <1>2, InvFacts
  <2>2. Keeps(g, d)'
    BY <1>2, <1>3
  <2>3. Keeps(g, bytes[g][r])'
    BY <2>1, <2>2
  <2>4. bytes'[g][r] \in normalized' \cap projected' \cap measured'
    BY <1>1, <1>2, <2>1
  <2>5. QED
    BY <2>1, <2>3, <2>4 DEF DoneOK
<1>5. /\ job' \in [Replayed -> [1..MaxRevisions -> Job]]
      /\ \A h \in Replayed, q \in 1..MaxRevisions :
           /\ job'[h][q].state = "none" <=> job[h][q].state = "none"
           /\ job'[h][q].state = "done" => job[h][q].state = "done" \/ DoneOK(h, q)'
  <2>1. CASE work[w].lost
    <3>1. job' = job
      BY <2>1 DEF Measure, Succeeded
    <3>2. QED
      BY <3>1, InvFacts
  <2>2. CASE ~work[w].lost
    <3>1. PICK s \in {"queued", "failed", "done"} : s = "done" /\ Decided(g, a, s)
      BY <1>2, <2>2 DEF Measure, Succeeded
    <3>2. /\ job' \in [Replayed -> [1..MaxRevisions -> Job]]
          /\ job'[g][a].state = s
          /\ \A h \in Replayed, q \in 1..MaxRevisions :
                <<h, q>> # <<g, a>> => job'[h][q] = job[h][q]
      BY <3>1, JobDecided
    <3>3. QED
      BY <1>2, <1>4, <3>1, <3>2
  <2>3. QED
    BY <2>1, <2>2
<1>6. WorkOK(w)'
  <2>1. work'[w] = Rest
    BY <1>1, InvFacts
  <2>2. QED
    BY <2>1 DEF WorkOK, Rest
<1>7. /\ normalized \subseteq normalized' /\ normalized' \subseteq Digests
      /\ projected \subseteq projected' /\ projected' \subseteq Digests
      /\ measured \subseteq measured' /\ measured' \subseteq Digests
  BY <1>1, <1>2, InvFacts
<1>8. QED
  BY <1>1, <1>3, <1>5, <1>6, <1>7, RestWorks, WorkSide

LEMMA InitInv ==
    ASSUME ReplayInit
    PROVE  ReplayInv
<1>1. /\ MaxGames \in Nat /\ MaxReplayed \in Nat /\ MaxRevisions \in Nat
      /\ MaxFaults \in Nat /\ MaxPages \in Nat \ {0}
  BY SyncAssumption
<1>2. /\ plan \in [games : 0..MaxGames, revisions : Revisions]
      /\ published = 0 /\ offered = [g \in Replayed |-> 0]
      /\ account = [cursor |-> 0, exhausted |-> FALSE]
      /\ observed = {} /\ seen = [g \in Replayed |-> 0]
      /\ sync = [s \in Syncs |-> NoRun]
      /\ job = [g \in Replayed |-> [r \in 1..MaxRevisions |-> NoJob]]
      /\ faults \in 0..MaxFaults
  BY DEF ReplayInit, SyncInit
<1>3. /\ stored = [g \in Replayed |-> <<>>]
      /\ bytes = [g \in Replayed |-> [r \in 1..MaxRevisions |-> Bad]]
      /\ readable \in {Digests, {}}
      /\ normalized = {} /\ projected = {} /\ measured = {}
      /\ work = [w \in Workers |-> Rest]
  BY DEF ReplayInit
<1>4. SyncTypeOK
  <2>1. NoRun \in Run /\ NoJob \in Job /\ account \in Connection /\ 0 \in Revisions
    BY <1>1, <1>2 DEF NoRun, Run, SyncPC, NoJob, Job, Connection, Revisions
  <2>2. published \in 0..plan.games
    BY <1>1, <1>2
  <2>3. QED
    BY <1>2, <2>1, <2>2 DEF SyncTypeOK
<1>5. ReplayTypeOK
  <2>1. \A g \in Replayed : stored[g] = <<>> /\ <<>> \in Seq(ReplayRow)
    BY <1>3
  <2>2. \A g \in Replayed : DOMAIN stored[g] = {}
    BY <2>1
  <2>3. QED
    BY <1>3, <1>4, <2>1, <2>2, RestWorks DEF ReplayTypeOK
<1>6. CursorsOK
  BY <1>1, <1>2 DEF CursorsOK, NoRun
<1>7. ASSUME NEW g \in Replayed
      PROVE  seen[g] <= offered[g] /\ RowsOK(g) /\ JobsOK(g)
  <2>1. seen[g] <= offered[g]
    BY <1>2, <1>7
  <2>2. DOMAIN stored[g] = {}
    BY <1>3
  <2>3. \A r \in 1..MaxRevisions : job[g][r].state = "none"
    BY <1>2 DEF NoJob
  <2>4. QED
    BY <2>1, <2>2, <2>3 DEF RowsOK, JobsOK, DoneOK
<1>8. \A w \in Workers : WorkOK(w)
  BY <1>3 DEF WorkOK, Rest
<1>9. QED
  BY <1>5, <1>6, <1>7, <1>8 DEF ReplayInv

(* What the syncs and the workers know and leave behind (ReplayInv) is so  *)
(* in every state, whatever fails between two steps (sync_history,         *)
(* process_replay).                                                        *)
THEOREM ReplayInvariance == ReplaySpec => []ReplayInv
<1>1. ReplayInit => ReplayInv
  BY InitInv
<1>2. ReplayInv /\ [ReplayNext]_replayVars => ReplayInv'
  <2> SUFFICES ASSUME ReplayInv, [ReplayNext]_replayVars PROVE ReplayInv'
    OBVIOUS
  <2>1. CASE Syncing
    BY <2>1, SyncingInv
  <2>2. CASE \E g \in Replayed : Revise(g)
    BY <2>2, PlayReviseInv
  <2>3. ASSUME NEW w \in Workers, Starts(w) \/ WorkStep(w) \/ WorkFails(w) \/ Lapses(w)
        PROVE  ReplayInv'
    BY <2>3, StartInv, DownloadInv, PersistInv, NormalizeInv, MeasureInv,
       WorkFailsInv, LapsesInv DEF Starts, WorkStep
  <2>4. CASE UNCHANGED replayVars
    BY <2>4 DEF replayVars, syncVars, duels, history, artifacts, derived,
                ReplayInv, ReplayTypeOK, SyncTypeOK, CursorsOK, RowsOK, JobsOK,
                DoneOK, Keeps, WorkOK
  <2>5. QED
    BY <2>1, <2>2, <2>3, <2>4 DEF ReplayNext
<1>3. QED
  BY <1>1, <1>2, PTL DEF ReplaySpec

(* A job reported done left a complete replay of its revision or of a      *)
(* later one, whatever its attempts did, lost and repeated                 *)
(* (process_replay).                                                       *)
THEOREM DoneIsComplete == ReplaySpec => []DoneMeansComplete
<1>1. ReplayInv => DoneMeansComplete
  <2> SUFFICES ASSUME ReplayInv, NEW g \in Replayed, NEW r \in 1..MaxRevisions,
                      job[g][r].state = "done"
               PROVE  \E q \in r..MaxRevisions :
                         /\ bytes[g][q] \in normalized \cap projected \cap measured
                         /\ \E i \in DOMAIN stored[g] : stored[g][i].digest = bytes[g][q]
    BY DEF DoneMeansComplete
  <2>1. DoneOK(g, r) /\ offered[g] \in Nat /\ offered[g] <= MaxRevisions
    BY InvFacts DEF JobsOK
  <2>2. PICK q \in r..offered[g] :
           /\ bytes[g][q] \in normalized \cap projected \cap measured
           /\ Keeps(g, bytes[g][q])
    BY <2>1 DEF DoneOK
  <2>3. q \in r..MaxRevisions
    BY <2>1, <2>2, InvFacts
  <2>4. QED
    BY <2>2, <2>3 DEF Keeps
<1>2. QED
  BY <1>1, ReplayInvariance, PTL

-----------------------------------------------------------------------------
(***************************************************************************)
(* The watermark, when no two runs of the sync overlap.                    *)
(***************************************************************************)
Walks == {"fetch", "store", "finish"}

\* While one run goes through the history, no other does.
NoOverlap == \A s, t \in Syncs : sync[s].pc \in Walks /\ sync[t].pc \in Walks => s = t

NoneFrom(c) == \A g \in Missing : g < c

\* A run walks from where the row says; below its cursor, what it takes to be
\* observed throughout is.
Walking(s) ==
    sync[s].pc \in {"fetch", "store"} =>
       /\ sync[s].cursor = account.cursor
       /\ sync[s].was =>
             \A h \in observed, g \in 1..published :
                (sync[s].cursor = 0 \/ h < sync[s].cursor) /\ g < h => g \in observed

\* The page at hand leaves out nothing that is newer than its cursor.
PageOK(s) ==
    sync[s].pc = "store" =>
       /\ sync[s].next # 0 => sync[s].next \in sync[s].page
       /\ \A h \in sync[s].page :
             sync[s].next <= h /\ (sync[s].cursor = 0 \/ h < sync[s].cursor)
       /\ \A g \in (1..published) \ sync[s].page :
             (sync[s].cursor # 0 /\ g < sync[s].cursor) \/ (\E h \in sync[s].page : g < h)
                => g < sync[s].next

FinishOK(s) ==
    sync[s].pc = "finish" =>
       NoneFrom(sync[s].cursor) /\ (sync[s].done => sync[s].cursor = 0)

SyncInv ==
    /\ account.exhausted => account.cursor = 0
    /\ NoneFrom(account.cursor)
    /\ \A s \in Syncs : Walking(s) /\ PageOK(s) /\ FinishOK(s)

\* Steps that change neither the history known nor a run.
LEMMA SyncQuiet ==
    ASSUME SyncInv, UNCHANGED <<published, account, observed, sync>>
    PROVE  SyncInv'
<1>1. published' = published /\ account' = account /\ observed' = observed
      /\ sync' = sync
  OBVIOUS
<1>2. Missing' = Missing
  BY <1>1 DEF Missing
<1>3. QED
  BY <1>1, <1>2 DEF SyncInv, NoneFrom, Walking, PageOK, FinishOK

LEMMA PlaySync ==
    ASSUME ReplayInv, SyncInv, Play
    PROVE  SyncInv'
<1>1. /\ published' = published + 1 /\ published \in Nat
      /\ account' = account /\ observed' = observed /\ sync' = sync
      /\ observed \subseteq 1..published
  BY InvFacts DEF Play, history
<1>2. \A g \in 1..published' : g \in 1..published \/ g = published + 1
  BY <1>1
<1>3. Missing' = Missing
  <2>1. \A g \in Missing' : g \in Missing
    BY <1>1, <1>2 DEF Missing
  <2>2. \A g \in Missing : g \in Missing'
    BY <1>1 DEF Missing
  <2>3. QED
    BY <2>1, <2>2
<1>4. ASSUME NEW s \in Syncs PROVE Walking(s)' /\ PageOK(s)' /\ FinishOK(s)'
  <2>1. /\ Walking(s) /\ PageOK(s) /\ FinishOK(s)
        /\ sync[s].page \subseteq 1..published
        /\ sync[s].cursor \in Nat /\ sync[s].cursor <= published
    BY RunFacts DEF SyncInv
  <2>2. Walking(s)'
    BY <1>1, <1>2, <2>1 DEF Walking
  <2>3. PageOK(s)'
    BY <1>1, <1>2, <2>1 DEF PageOK
  <2>4. FinishOK(s)'
    BY <1>1, <1>3, <2>1 DEF FinishOK, NoneFrom
  <2>5. QED
    BY <2>2, <2>3, <2>4
<1>5. QED
  BY <1>1, <1>3, <1>4 DEF SyncInv, NoneFrom

\* A step of one run leaves the others as they are.
LEMMA OtherSyncs ==
    ASSUME ReplayInv, NEW s \in Syncs, Begin(s) \/ SyncStep(s) \/ SyncStops(s)
    PROVE  \A t \in Syncs : t # s => sync'[t] = sync[t]
<1>1. sync \in [Syncs -> Run]
  BY InvFacts
<1>2. QED
  BY <1>1 DEF Begin, SyncStep, Fetch, Store, Finish, Enqueue, EnqueueReplay, SyncEnds,
              SyncStops

\* If no other run walks after a step of one, what is left to show is of it.
LEMMA OneSync ==
    ASSUME NEW s \in Syncs,
           \A t \in Syncs : t # s => sync'[t].pc \notin Walks,
           account'.exhausted => account'.cursor = 0, NoneFrom(account.cursor)',
           Walking(s)' /\ PageOK(s)' /\ FinishOK(s)'
    PROVE  SyncInv'
  BY DEF SyncInv, Walking, PageOK, FinishOK, Walks

\* While one walks, no other does, nor after the step of the one.
LEMMA AloneOnTheWalk ==
    ASSUME ReplayInv, NoOverlap, NEW s \in Syncs, SyncStep(s), sync[s].pc \in Walks
    PROVE  \A t \in Syncs : t # s => sync'[t].pc \notin Walks
  BY OtherSyncs DEF NoOverlap

LEMMA BeginSync ==
    ASSUME ReplayInv, SyncInv, NoOverlap', NEW s \in Syncs, Begin(s)
    PROVE  SyncInv'
<1>1. /\ published' = published /\ account' = account /\ observed' = observed
  BY DEF Begin, duels, history
<1>2. Missing' = Missing
  BY <1>1 DEF Missing
<1>3. /\ sync'[s].pc = "fetch" /\ sync'[s].was = account.exhausted
      /\ sync'[s].cursor = IF account.exhausted THEN 0 ELSE account.cursor
  BY InvFacts DEF Begin, NoRun
<1>4. account.exhausted => account.cursor = 0
  BY DEF SyncInv
<1>5. NoneFrom(account.cursor)
  BY DEF SyncInv
<1>6. sync'[s].cursor = account'.cursor
  BY <1>1, <1>3, <1>4
<1>7. ASSUME sync'[s].was, NEW h \in observed', NEW g \in 1..published', g < h
      PROVE  g \in observed'
  <2>1. account.cursor = 0
    BY <1>3, <1>4, <1>7
  <2>2. g \notin Missing
    BY <1>1, <1>5, <2>1 DEF NoneFrom
  <2>3. QED
    BY <1>1, <1>7, <2>2, InvFacts DEF Missing
<1>8. Walking(s)'
  BY <1>6, <1>7 DEF Walking
<1>9. \A t \in Syncs : t # s => sync'[t].pc \notin Walks
  BY <1>3 DEF NoOverlap, Walks
<1>10. QED
  BY <1>1, <1>2, <1>3, <1>4, <1>5, <1>8, <1>9, OneSync DEF NoneFrom, PageOK, FinishOK

\* A run that ends, or one that has nothing left but jobs to ask for.
LEMMA RestSync ==
    ASSUME SyncInv, NEW s \in Syncs,
           UNCHANGED <<published, account, observed>>,
           \A t \in Syncs : t # s => sync'[t] = sync[t],
           sync'[s].pc \in {"idle", "enqueue"}
    PROVE  SyncInv'
<1>1. published' = published /\ account' = account /\ observed' = observed
  OBVIOUS
<1>2. Missing' = Missing
  BY <1>1 DEF Missing
<1>3. Walking(s)' /\ PageOK(s)' /\ FinishOK(s)'
  BY DEF Walking, PageOK, FinishOK
<1>4. ASSUME NEW t \in Syncs, t # s PROVE Walking(t)' /\ PageOK(t)' /\ FinishOK(t)'
  <2>1. sync'[t] = sync[t] /\ Walking(t) /\ PageOK(t) /\ FinishOK(t)
    BY <1>4 DEF SyncInv
  <2>2. QED
    BY <1>1, <1>2, <2>1 DEF Walking, PageOK, FinishOK, NoneFrom
<1>5. (account'.exhausted => account'.cursor = 0) /\ NoneFrom(account.cursor)'
  BY <1>1, <1>2 DEF SyncInv, NoneFrom
<1>6. QED
  BY <1>3, <1>4, <1>5 DEF SyncInv

LEMMA FetchSync ==
    ASSUME ReplayInv, SyncInv, NoOverlap, NEW s \in Syncs, Fetch(s)
    PROVE  SyncInv'
<1>1. /\ published' = published /\ account' = account /\ observed' = observed
      /\ sync[s].pc = "fetch"
  BY DEF Fetch, duels, history
<1>2. Missing' = Missing
  BY <1>1 DEF Missing
<1>3. PICK c \in Nat : c = sync[s].cursor /\ c <= published
  BY RunFacts
<1>4. PICK m \in 0..published, lo \in 1..(published + 1) :
              /\ m = IF c = 0 THEN published ELSE c - 1
              /\ lo <= m \/ (m = 0 /\ lo = 1)
              /\ PageAfter(c) = lo..m
              /\ CursorAfter(c) = IF lo = 1 THEN 0 ELSE lo
  BY <1>3, PageIsNext, InvFacts
<1>5. /\ sync'[s].pc = "store" /\ sync'[s].cursor = c /\ sync'[s].was = sync[s].was
      /\ sync'[s].page = lo..m /\ sync'[s].next = IF lo = 1 THEN 0 ELSE lo
  <2>1. sync \in [Syncs -> Run] /\ sync[s] \in Run
    BY InvFacts
  <2>2. PICK n : n = sync[s].pages + 1
    OBVIOUS
  <2>3. PICK page : page = PageAfter(sync[s].cursor)
    OBVIOUS
  <2>4. PICK next : next = CursorAfter(sync[s].cursor)
    OBVIOUS
  <2>5. sync'[s] = [sync[s] EXCEPT !.pc = "store", !.pages = n, !.page = page,
                                   !.next = next]
    BY <2>1, <2>2, <2>3, <2>4 DEF Fetch
  <2>6. /\ sync'[s].pc = "store" /\ sync'[s].cursor = sync[s].cursor
        /\ sync'[s].was = sync[s].was /\ sync'[s].page = page /\ sync'[s].next = next
    BY <2>1, <2>5 DEF Run
  <2>7. page = lo..m /\ next = IF lo = 1 THEN 0 ELSE lo
    BY <1>3, <1>4, <2>3, <2>4
  <2>8. QED
    BY <1>3, <2>6, <2>7
<1>6. Walking(s)'
  <2>1. Walking(s)
    BY DEF SyncInv
  <2>2. QED
    BY <1>1, <1>3, <1>5, <2>1 DEF Walking
<1>7. PageOK(s)'
  <2>1. sync'[s].next # 0 => sync'[s].next \in sync'[s].page
    <3>1. \A x, p : p = lo..m /\ x = (IF lo = 1 THEN 0 ELSE lo) /\ x # 0 => x \in p
      BY <1>4
    <3>2. QED
      BY <1>5, <3>1, Zenon
  <2>2. \A h \in lo..m : (IF lo = 1 THEN 0 ELSE lo) <= h /\ (c = 0 \/ h < c)
    BY <1>3, <1>4
  <2>3. ASSUME NEW g \in (1..published) \ (lo..m),
               (c # 0 /\ g < c) \/ (\E h \in lo..m : g < h)
        PROVE  g < IF lo = 1 THEN 0 ELSE lo
    <3>1. g <= m
      BY <1>3, <1>4, <2>3
    <3>2. g < lo
      BY <1>4, <2>3, <3>1
    <3>3. QED
      BY <1>4, <2>3, <3>2
  <2>4. QED
    BY <1>1, <1>5, <2>1, <2>2, <2>3 DEF PageOK
<1>8. FinishOK(s)'
  BY <1>5 DEF FinishOK
<1>9. (account'.exhausted => account'.cursor = 0) /\ NoneFrom(account.cursor)'
  BY <1>1, <1>2 DEF SyncInv, NoneFrom
<1>10. \A t \in Syncs : t # s => sync'[t].pc \notin Walks
  BY <1>1, AloneOnTheWalk DEF SyncStep, Walks
<1>11. QED
  BY <1>6, <1>7, <1>8, <1>9, <1>10, OneSync

LEMMA StoreSync ==
    ASSUME ReplayInv, SyncInv, NoOverlap, NEW s \in Syncs, Store(s)
    PROVE  SyncInv'
<1>1. /\ sync[s].pc = "store" /\ published' = published
      /\ observed' = observed \cup sync[s].page
      /\ account' = [cursor |-> sync[s].next, exhausted |-> FALSE]
  BY DEF Store, Observe, Checkpoint, duels
<1>2. PICK c \in Nat, n \in Nat, page \in SUBSET (1..published) :
         c = sync[s].cursor /\ n = sync[s].next /\ page = sync[s].page
  BY RunFacts
<1>3. /\ c = account.cursor /\ NoneFrom(c)
      /\ sync[s].was =>
             \A h \in observed, g \in 1..published :
                (c = 0 \/ h < c) /\ g < h => g \in observed
  BY <1>1, <1>2 DEF SyncInv, Walking
<1>4. /\ n # 0 => n \in page
      /\ \A h \in page : n <= h /\ (c = 0 \/ h < c)
      /\ \A g \in (1..published) \ page :
             (c # 0 /\ g < c) \/ (\E h \in page : g < h) => g < n
  BY <1>1, <1>2 DEF SyncInv, PageOK
<1>5. ASSUME NEW g \in Missing' PROVE g < n
  <2>1. /\ g \in (1..published) \ page /\ g \notin observed
        /\ \E h \in observed \cup page : h > g
    BY <1>1, <1>2, <1>5 DEF Missing
  <2>2. CASE \E h \in page : h > g
    <3>1. PICK h \in page : h > g
      BY <2>2
    <3>2. g < h
      BY <2>1, <3>1, InvFacts
    <3>3. QED
      BY <1>4, <2>1, <3>2
  <2>3. CASE \E h \in observed : h > g
    <3>1. g \in Missing
      BY <2>1, <2>3 DEF Missing
    <3>2. g < c
      BY <1>3, <3>1 DEF NoneFrom
    <3>3. c # 0
      BY <2>1, <3>2
    <3>4. QED
      BY <1>4, <2>1, <3>2, <3>3
  <2>4. QED
    BY <2>1, <2>2, <2>3
<1>6. /\ sync'[s].was = sync[s].was /\ sync'[s].pc \in {"finish", "fetch"}
      /\ Exhausts(s) => sync'[s].cursor = 0 /\ sync'[s].pc = "finish"
      /\ ~Exhausts(s) => sync'[s].cursor = n /\ ~sync'[s].done
  <2>1. sync \in [Syncs -> Run] /\ sync[s] \in Run
    BY InvFacts
  <2>2. PICK pc2 : pc2 = IF Exhausts(s) \/ sync[s].pages = MaxPages
                         THEN "finish" ELSE "fetch"
    OBVIOUS
  <2>3. PICK d2 \in BOOLEAN : d2 = Exhausts(s)
    BY DEF Exhausts
  <2>4. PICK k : k = IF Exhausts(s) THEN 0 ELSE sync[s].next
    OBVIOUS
  <2>5. sync'[s] = [sync[s] EXCEPT !.pc = pc2, !.done = d2, !.cursor = k]
    BY <2>1, <2>2, <2>3, <2>4 DEF Store
  <2>6. /\ sync'[s].pc = pc2 /\ sync'[s].done = d2 /\ sync'[s].cursor = k
        /\ sync'[s].was = sync[s].was
    BY <2>1, <2>5 DEF Run
  <2>7. pc2 \in {"finish", "fetch"}
    BY <2>2
  <2>8. CASE Exhausts(s)
    <3>1. pc2 = "finish" /\ k = 0
      BY <2>2, <2>4, <2>8
    <3>2. QED
      BY <2>6, <2>8, <3>1
  <2>9. CASE ~Exhausts(s)
    <3>1. ~d2 /\ k = n
      BY <1>2, <2>3, <2>4, <2>9
    <3>2. QED
      BY <2>6, <2>7, <2>9, <3>1
  <2>10. QED
    BY <2>8, <2>9
<1>7. Exhausts(s) <=> n = 0 \/ (sync[s].was /\ page \subseteq observed)
  BY <1>2 DEF Exhausts
<1>8. ASSUME Exhausts(s), NEW g \in Missing' PROVE FALSE
  <2>1. g \in 1..published /\ g \notin observed /\ g < n /\ n # 0
    BY <1>1, <1>5, <1>8 DEF Missing
  <2>2. sync[s].was /\ n \in observed /\ (c = 0 \/ n < c)
    BY <1>4, <1>7, <1>8, <2>1
  <2>3. QED
    BY <1>3, <2>1, <2>2
<1>9. Walking(s)'
  <2> SUFFICES ASSUME sync'[s].pc \in {"fetch", "store"} PROVE Walking(s)'
    BY DEF Walking
  <2>1. ~Exhausts(s) /\ sync'[s].cursor = n /\ n # 0 /\ account'.cursor = n
    BY <1>1, <1>2, <1>6, <1>7
  <2>2. ASSUME sync[s].was, NEW h \in observed \cup page, NEW g \in 1..published,
               h < n, g < h
        PROVE  g \in observed
    <3>1. h \in Nat /\ ~(n <= h)
      <4>1. observed \cup page \subseteq 1..published
        BY InvFacts
      <4>2. h \in 1..published
        BY <2>2, <4>1
      <4>3. QED
        BY <2>2, <4>2
    <3>2. h \notin page /\ h \in observed
      BY <1>4, <2>2, <3>1
    <3>3. n \in page /\ (c = 0 \/ n < c)
      BY <1>4, <2>1
    <3>4. c = 0 \/ h < c
      BY <2>2, <3>1, <3>3
    <3>5. QED
      BY <1>3, <2>2, <3>2, <3>4
  <2>3. QED
    BY <1>1, <1>2, <1>6, <2>1, <2>2 DEF Walking
<1>10. PageOK(s)'
  BY <1>6 DEF PageOK
<1>11. FinishOK(s)'
  <2>1. CASE Exhausts(s)
    BY <1>6, <1>8, <2>1 DEF FinishOK, NoneFrom
  <2>2. CASE ~Exhausts(s)
    BY <1>5, <1>6, <2>2 DEF FinishOK, NoneFrom
  <2>3. QED
    BY <2>1, <2>2
<1>12. (account'.exhausted => account'.cursor = 0) /\ NoneFrom(account.cursor)'
  BY <1>1, <1>2, <1>5 DEF NoneFrom
<1>13. \A t \in Syncs : t # s => sync'[t].pc \notin Walks
  BY <1>1, AloneOnTheWalk DEF SyncStep, Walks
<1>14. QED
  BY <1>9, <1>10, <1>11, <1>12, <1>13, OneSync

LEMMA FinishSync ==
    ASSUME ReplayInv, SyncInv, NoOverlap, NEW s \in Syncs, Finish(s)
    PROVE  SyncInv'
<1>1. /\ sync[s].pc = "finish" /\ published' = published /\ observed' = observed
      /\ account' = [cursor |-> sync[s].cursor, exhausted |-> sync[s].done]
  BY DEF Finish, duels
<1>2. Missing' = Missing
  BY <1>1 DEF Missing
<1>3. FinishOK(s)
  BY DEF SyncInv
<1>4. (account'.exhausted => account'.cursor = 0) /\ NoneFrom(account.cursor)'
  BY <1>1, <1>2, <1>3 DEF FinishOK, NoneFrom
<1>5. sync'[s].pc = "enqueue"
  BY InvFacts DEF Finish, Run
<1>6. \A t \in Syncs : t # s => sync'[t].pc \notin Walks
  BY <1>1, AloneOnTheWalk DEF SyncStep, Walks
<1>7. QED
  BY <1>4, <1>5, <1>6, OneSync DEF Walking, PageOK, FinishOK

LEMMA StepSync ==
    ASSUME ReplayInv, SyncInv, NoOverlap, NoOverlap', [ReplayNext]_replayVars
    PROVE  SyncInv'
<1>1. CASE Play
  BY <1>1, PlaySync
<1>2. ASSUME NEW s \in Syncs, Begin(s) \/ SyncStep(s) \/ SyncStops(s)
      PROVE  SyncInv'
  <2>1. CASE Enqueue(s) \/ SyncEnds(s) \/ SyncStops(s)
    <3>1. UNCHANGED <<published, account, observed>>
      BY <2>1 DEF Enqueue, SyncEnds, SyncStops, duels, history
    <3>2. /\ sync \in [Syncs -> Run]
          /\ \A t \in Syncs : t # s => sync'[t] = sync[t]
      BY <1>2, InvFacts, OtherSyncs
    <3>3. CASE Enqueue(s)
      <4>1. PICK g : EnqueueReplay(s, g)
        BY <3>3 DEF Enqueue
      <4>2. PICK todo : todo = sync[s].todo \ {g}
        OBVIOUS
      <4>3. sync'[s] = [sync[s] EXCEPT !.todo = todo] /\ sync[s] \in Run
        BY <3>2, <4>1, <4>2 DEF EnqueueReplay
      <4>4. sync'[s].pc = "enqueue"
        BY <3>3, <4>3 DEF Run, Enqueue
      <4>5. QED
        BY <3>1, <3>2, <4>4, RestSync
    <3>4. CASE SyncEnds(s) \/ SyncStops(s)
      <4>1. sync'[s].pc = "idle"
        BY <3>2, <3>4 DEF SyncEnds, SyncStops, NoRun
      <4>2. QED
        BY <3>1, <3>2, <4>1, RestSync
    <3>5. QED
      BY <2>1, <3>3, <3>4
  <2>2. CASE Begin(s) \/ Fetch(s) \/ Store(s) \/ Finish(s)
    BY <2>2, BeginSync, FetchSync, StoreSync, FinishSync
  <2>3. QED
    BY <1>2, <2>1, <2>2 DEF SyncStep
<1>3. CASE UNCHANGED <<published, account, observed, sync>>
  BY <1>3, SyncQuiet
<1>4. CASE \/ \E g \in Replayed : Revise(g)
           \/ \E w \in Workers : Starts(w) \/ WorkStep(w) \/ WorkFails(w) \/ Lapses(w)
           \/ UNCHANGED replayVars
  <2>1. UNCHANGED <<published, account, observed, sync>>
    BY <1>4 DEF Revise, Starts, Start, WorkStep, Download, Persist, Normalize,
                Measure, WorkFails, Lapses, replayVars, syncVars, duels, history
  <2>2. QED
    BY <2>1, SyncQuiet
<1>5. QED
  BY <1>1, <1>2, <1>4 DEF ReplayNext, Syncing

(* As long as no two runs of the sync walk at once, a game that is missing *)
(* although a newer one is observed lies ahead of the walk: stops between  *)
(* and within pages, limited runs and games played meanwhile leave no gap  *)
(* behind the watermark (sync_history, save_sync_checkpoint, finish_sync). *)
THEOREM NoGaps == ReplaySpec /\ []NoOverlap => []NoGapBehindWatermark
<1>1. ReplayInit => SyncInv
  BY DEF ReplayInit, SyncInit, SyncInv, NoneFrom, Missing, Walking, PageOK,
         FinishOK, NoRun
<1>2. ReplayInv /\ SyncInv /\ NoOverlap /\ NoOverlap' /\ [ReplayNext]_replayVars => SyncInv'
  BY StepSync
<1>3. ReplayInv /\ SyncInv => NoGapBehindWatermark
  <2> SUFFICES ASSUME ReplayInv, SyncInv, NEW g \in Missing
               PROVE  ~account.exhausted /\ (account.cursor = 0 \/ g < account.cursor)
    BY DEF NoGapBehindWatermark
  <2>1. g < account.cursor /\ g \in Nat /\ g # 0
    BY InvFacts DEF SyncInv, NoneFrom, Missing
  <2>2. QED
    BY <2>1 DEF SyncInv
<1>4. QED
  BY <1>1, <1>2, <1>3, ReplayInvariance, PTL DEF ReplaySpec

(* Under the same condition the comment of sync_history is true: a history *)
(* taken to be exhausted misses no game older than an observed one.        *)
(* MCDuelsOverlap shows that the condition is needed.                      *)
THEOREM WatermarkHolds == ReplaySpec /\ []NoOverlap => []OlderPagesAreObserved
<1>1. NoGapBehindWatermark => OlderPagesAreObserved
  BY DEF NoGapBehindWatermark, OlderPagesAreObserved
<1>2. QED
  BY <1>1, NoGaps, PTL

(* A single process that syncs, which is what the code has where no two    *)
(* jobs of a connection are claimed at once, keeps the watermark without   *)
(* any further condition.                                                  *)
THEOREM OneSyncLeavesNoGaps ==
    ASSUME \A s, t \in Syncs : s = t
    PROVE  ReplaySpec => []NoGapBehindWatermark
<1>1. NoOverlap
  BY DEF NoOverlap
<1>2. QED
  BY <1>1, NoGaps, PTL

-----------------------------------------------------------------------------
(* The game and its undos.                                                 *)

ParserSpec == ParserInit /\ [][ParserNext]_parserVars

IsList(s) == Len(s) \in Nat /\ s = [i \in 1..Len(s) |-> s[i]]

\* What a board is at least: the zones hold cards, and a game that awaits the
\* mulligan still has its first hand.
BoardOK(b) ==
    /\ Zones \cup {"status", "turn"} \subseteq DOMAIN b
    /\ \A z \in Zones : b[z] \in Seq(Cards)
    /\ b.status = "mulligan" => b.hand = <<1, 2>> /\ "prompt" \notin DOMAIN b

\* Only the first frame can be a mulligan, so no undo leads back to one.
FramesOK ==
    /\ IsList(frames) /\ IsList(past) /\ IsList(logs)
    /\ Len(past) = Len(frames) /\ Len(frames) <= MaxFrames
    /\ force \subseteq 1..Len(frames)
    /\ Len(frames) # 0 => board.status # "mulligan"
    /\ \A i \in 1..Len(frames) :
          /\ frames[i].count \in Nat /\ BoardOK(past[i])
          /\ past[i].status = "mulligan" => frames[i].type = "mulligan"

ParserInv ==
    /\ BoardOK(board) /\ FramesOK
    /\ drawn \in 2..Deck /\ cuts \in BOOLEAN /\ terse \in BOOLEAN

-----------------------------------------------------------------------------
LEMMA SeqIsList ==
    ASSUME NEW S, NEW s \in Seq(S)
    PROVE  IsList(s)
<1>1. Len(s) \in Nat /\ s \in [1..Len(s) -> S]
  BY LenProperties
<1> DEFINE n == Len(s)
<1>2. n \in Nat /\ s \in [1..n -> S]
  BY <1>1
<1> HIDE DEF n
<1>3. s = [i \in 1..n |-> s[i]]
  BY <1>2
<1>4. QED
  BY <1>2, <1>3 DEF IsList, n

LEMMA ListAppend ==
    ASSUME NEW s, IsList(s), NEW e
    PROVE  /\ IsList(Append(s, e)) /\ Len(Append(s, e)) = Len(s) + 1
           /\ \A i \in 1..Len(s) : Append(s, e)[i] = s[i]
           /\ Append(s, e)[Len(s) + 1] = e
<1> DEFINE S == {s[i] : i \in 1..Len(s)} \cup {e}
<1>1. s \in Seq(S)
  BY DEF IsList
<1>2. e \in S
  OBVIOUS
<1> HIDE DEF S
<1>3. /\ Append(s, e) \in Seq(S) /\ Len(Append(s, e)) = Len(s) + 1
      /\ \A i \in 1..Len(s) : Append(s, e)[i] = s[i]
      /\ Append(s, e)[Len(s) + 1] = e
  BY <1>1, <1>2, AppendProperties
<1>4. IsList(Append(s, e))
  BY <1>3, SeqIsList
<1>5. QED
  BY <1>3, <1>4

LEMMA ListConcat ==
    ASSUME NEW s, IsList(s), NEW t, IsList(t)
    PROVE  IsList(s \o t) /\ Len(s \o t) = Len(s) + Len(t)
<1> DEFINE S == {s[i] : i \in 1..Len(s)} \cup {t[i] : i \in 1..Len(t)}
<1>1. s \in Seq(S) /\ t \in Seq(S)
  <2>1. \A i \in 1..Len(s) : s[i] \in S
    OBVIOUS
  <2>2. \A i \in 1..Len(t) : t[i] \in S
    OBVIOUS
  <2> HIDE DEF S
  <2>3. s \in Seq(S)
    BY <2>1 DEF IsList
  <2>4. t \in Seq(S)
    BY <2>2 DEF IsList
  <2>5. QED
    BY <2>3, <2>4
<1> HIDE DEF S
<1>2. s \o t \in Seq(S) /\ Len(s \o t) = Len(s) + Len(t)
  BY <1>1, ConcatProperties
<1>3. QED
  BY <1>2, SeqIsList

LEMMA ListCut ==
    ASSUME NEW s, NEW n \in Nat
    PROVE  IsList(SubSeq(s, 1, n)) /\ Len(SubSeq(s, 1, n)) = n
<1> DEFINE S == {s[i] : i \in 1..n}
<1>1. \A i \in 1..n : s[i] \in S
  OBVIOUS
<1> HIDE DEF S
<1>2. /\ SubSeq(s, 1, n) \in Seq(S)
      /\ Len(SubSeq(s, 1, n)) = IF 1 <= n THEN n - 1 + 1 ELSE 0
  BY <1>1, SubSeqProperties, 1 \in Int, n \in Int
<1>3. IsList(SubSeq(s, 1, n))
  BY <1>2, SeqIsList
<1>4. QED
  BY <1>2, <1>3

LEMMA RemoveIsSeq ==
    ASSUME NEW S, NEW s \in Seq(S), NEW i \in DOMAIN s
    PROVE  RemoveAt(s, i) \in Seq(S)
<1>1. i \in 1..Len(s) /\ Len(s) \in Nat
  BY LenProperties
<1>2. SubSeq(s, 1, i - 1) \in Seq(S) /\ SubSeq(s, i + 1, Len(s)) \in Seq(S)
  BY <1>1, SubSeqProperties
<1>3. QED
  BY <1>2, ConcatProperties DEF RemoveAt

LEMMA ParserStarts ==
    ASSUME ParserInit
    PROVE  ParserInv
<1>1. /\ board \in {Base("mulligan"), Base("playing")}
      /\ past = <<>> /\ drawn = 2 /\ frames = <<>> /\ logs = <<>> /\ force = {}
  BY DEF ParserInit
<1>2. <<1, 2>> \in Seq(Cards) /\ <<>> \in Seq(Cards)
  BY ParserAssumption DEF Cards
<1>3. BoardOK(board)
  <2>1. PICK s : board = Base(s)
    BY <1>1
  <2>2. /\ DOMAIN board = {"status", "turn", "hand", "field", "discard"}
        /\ board["hand"] = <<1, 2>> /\ board["field"] = <<>> /\ board["discard"] = <<>>
    BY <2>1 DEF Base
  <2>3. QED
    BY <1>2, <2>2 DEF BoardOK, Zones
<1>4. FramesOK
  BY <1>1, ParserAssumption DEF FramesOK, IsList
<1>5. QED
  BY <1>1, <1>3, <1>4, ParserAssumption DEF ParserInv, ParserInit

\* A frame that leads to a board is recorded with its lines.
LEMMA RecordKeeps ==
    ASSUME ParserInv, NEW type, NEW named, NEW target, NEW b, NEW lines,
           Record(type, named, target, b, lines), BoardOK(b), b.status # "mulligan",
           IsList(lines), board.status = "mulligan" => type = "mulligan", drawn' \in 2..Deck
    PROVE  ParserInv'
<1> DEFINE n == Len(frames)
           f == [type |-> type, card |-> named, target |-> target,
                 patch |-> Patch(board, b), count |-> Len(logs) + Len(lines)]
<1>1. /\ n < MaxFrames /\ board' = b /\ past' = Append(past, board) /\ logs' = logs \o lines
      /\ frames' = Append(frames, f) /\ force' = force \cup {n + 1} /\ UNCHANGED style
  BY DEF Record
<1>2. /\ IsList(frames) /\ IsList(past) /\ IsList(logs) /\ Len(past) = n /\ n \in Nat
      /\ Len(logs) \in Nat /\ Len(lines) \in Nat
      /\ force \subseteq 1..n /\ BoardOK(board)
      /\ \A i \in 1..n : /\ frames[i].count \in Nat /\ BoardOK(past[i])
                         /\ past[i].status = "mulligan" => frames[i].type = "mulligan"
  BY DEF ParserInv, FramesOK, IsList
<1>3. f.count \in Nat /\ f.type = type
  BY <1>2
<1> HIDE DEF f, n
<1>4. /\ IsList(frames') /\ Len(frames') = n + 1 /\ frames'[n + 1] = f
      /\ \A i \in 1..n : frames'[i] = frames[i]
      /\ IsList(past') /\ Len(past') = n + 1 /\ past'[n + 1] = board
      /\ \A i \in 1..n : past'[i] = past[i]
      /\ IsList(logs')
  BY <1>1, <1>2, ListAppend, ListConcat DEF n
<1>5. n + 1 <= MaxFrames /\ MaxFrames \in Nat
  BY <1>1, <1>2, ParserAssumption
<1>6. \A i \in 1..(n + 1) :
         /\ frames'[i].count \in Nat /\ BoardOK(past'[i])
         /\ past'[i].status = "mulligan" => frames'[i].type = "mulligan"
  <2> TAKE i \in 1..(n + 1)
  <2>1. i \in 1..n \/ i = n + 1
    BY <1>2
  <2>2. CASE i \in 1..n
    BY <1>2, <1>4, <2>2
  <2>3. CASE i = n + 1
    BY <1>2, <1>3, <1>4, <2>3
  <2>4. QED
    BY <2>1, <2>2, <2>3
<1>7. force' \subseteq 1..(n + 1)
  BY <1>1, <1>2
<1>8. FramesOK'
  BY <1>1, <1>4, <1>5, <1>6, <1>7 DEF FramesOK
<1>9. QED
  BY <1>1, <1>8 DEF ParserInv, style

LEMMA InvParts ==
    ASSUME ParserInv
    PROVE  /\ BoardOK(board) /\ Zones \cup {"status", "turn"} \subseteq DOMAIN board
           /\ board.hand \in Seq(Cards) /\ board.field \in Seq(Cards)
           /\ board.discard \in Seq(Cards)
           /\ drawn \in 2..Deck /\ Deck \in Nat
           /\ IsList(<<>>) /\ (\A x : IsList(<<x>>)) /\ (\A x, y : IsList(<<x, y>>))
  BY ParserAssumption DEF ParserInv, BoardOK, Zones, IsList

LEMMA AscendingIsSeq ==
    ASSUME NEW a \in Nat, NEW b \in Nat
    PROVE  Ascending(a, b) \in Seq(a..b)
<1> DEFINE n == IF a <= b THEN b + 1 - a ELSE 0
<1>1. n \in Nat /\ 1..(b + 1 - a) = 1..n
  OBVIOUS
<1>2. Ascending(a, b) \in [1..n -> a..b]
  BY <1>1 DEF Ascending
<1>3. QED
  BY <1>1, <1>2, SeqDef

LEMMA MulliganKeeps ==
    ASSUME ParserInv, Mulligan
    PROVE  ParserInv'
<1>1. PICK n \in 0..2 :
         /\ board.status = "mulligan" /\ drawn + n \in Cards /\ drawn' = drawn + n
         /\ Record("mulligan", NoCard, n,
                   [board EXCEPT !.status = "playing",
                      !.hand = SubSeq(@, n + 1, 2) \o Ascending(drawn + 1, drawn + n)],
                   <<Line("MULLIGAN", n)>>)
  BY DEF Mulligan
<1> DEFINE hand == SubSeq(board.hand, n + 1, 2) \o Ascending(drawn + 1, drawn + n)
           b == [board EXCEPT !.status = "playing", !.hand = hand]
<1>2. hand \in Seq(Cards)
  <2>1. \A i \in (n + 1)..2 : board.hand[i] \in Cards
    <3>1. board.hand = <<1, 2>> /\ 2 <= Deck /\ Deck \in Nat
      BY <1>1, InvParts, ParserAssumption DEF BoardOK
    <3>2. board.hand[1] \in Cards /\ board.hand[2] \in Cards
      BY <3>1 DEF Cards
    <3>3. \A i \in (n + 1)..2 : i = 1 \/ i = 2
      BY <1>1
    <3>4. QED
      BY <3>2, <3>3
  <2>2. SubSeq(board.hand, n + 1, 2) \in Seq(Cards)
    BY <2>1, SubSeqProperties
  <2>3. Ascending(drawn + 1, drawn + n) \in Seq((drawn + 1)..(drawn + n))
    <3>1. drawn + 1 \in Nat /\ drawn + n \in Nat
      BY <1>1, InvParts
    <3>2. QED
      BY <3>1, AscendingIsSeq
  <2>4. (drawn + 1)..(drawn + n) \subseteq Cards
    BY <1>1, InvParts DEF Cards
  <2>5. Ascending(drawn + 1, drawn + n) \in Seq(Cards)
    BY <2>3, <2>4, SeqMonotonic
  <2>6. QED
    BY <2>2, <2>5, ConcatProperties
<1> HIDE DEF hand
<1>3. BoardOK(b) /\ b.status # "mulligan"
  BY <1>2, InvParts DEF BoardOK, Zones
<1>4. drawn' \in 2..Deck
  BY <1>1, InvParts DEF Cards
<1>5. Record("mulligan", NoCard, n, b, <<Line("MULLIGAN", n)>>)
  BY <1>1 DEF hand
<1> HIDE DEF b
<1>6. QED
  BY <1>3, <1>4, <1>5, InvParts, RecordKeeps

LEMMA PlayCardKeeps ==
    ASSUME ParserInv, PlayCard
    PROVE  ParserInv'
<1>1. PICK i \in DOMAIN board.hand :
         LET c == board.hand[i]
         IN  Record("play", IF terse THEN NoCard ELSE c, c,
                    [board EXCEPT !.hand = RemoveAt(@, i), !.field = Append(@, c)],
                    <<Line("CARD_PLAYED", c)>>)
  BY DEF PlayCard
<1> DEFINE c == board.hand[i]
           hand == RemoveAt(board.hand, i)
           field == Append(board.field, c)
           b == [board EXCEPT !.hand = hand, !.field = field]
<1>2. c \in Cards /\ hand \in Seq(Cards) /\ field \in Seq(Cards)
  <2>1. c \in Cards
    BY InvParts, LenProperties
  <2>2. hand \in Seq(Cards)
    BY InvParts, RemoveIsSeq
  <2>3. field \in Seq(Cards)
    BY <2>1, InvParts, AppendProperties
  <2>4. QED
    BY <2>1, <2>2, <2>3
<1>3. /\ board.status = "playing" /\ drawn' = drawn
      /\ Record("play", IF terse THEN NoCard ELSE c, c, b, <<Line("CARD_PLAYED", c)>>)
  BY <1>1 DEF PlayCard, Playing
<1> HIDE DEF hand, field, c
<1>4. BoardOK(b) /\ b.status # "mulligan"
  BY <1>2, <1>3, InvParts DEF BoardOK, Zones
<1> HIDE DEF b
<1>5. QED
  BY <1>3, <1>4, InvParts, RecordKeeps

LEMMA ChallengeKeeps ==
    ASSUME ParserInv, Challenge
    PROVE  ParserInv'
<1>1. PICK i \in DOMAIN board.field :
         Record("challenge", board.field[i], board.field[i],
                [board EXCEPT !.field = RemoveAt(@, i),
                              !.discard = Append(@, board.field[i])],
                <<Line("CARD_ATTACK", NoCard), Line("CARD_ATTACK", board.field[i])>>)
  BY DEF Challenge
<1> DEFINE c == board.field[i]
           field == RemoveAt(board.field, i)
           discard == Append(board.discard, c)
           b == [board EXCEPT !.field = field, !.discard = discard]
<1>2. field \in Seq(Cards) /\ discard \in Seq(Cards)
  <2>1. c \in Cards
    BY InvParts, LenProperties
  <2>2. field \in Seq(Cards)
    BY InvParts, RemoveIsSeq
  <2>3. discard \in Seq(Cards)
    BY <2>1, InvParts, AppendProperties
  <2>4. QED
    BY <2>2, <2>3
<1>3. /\ board.status = "playing" /\ drawn' = drawn
      /\ Record("challenge", c, c, b, <<Line("CARD_ATTACK", NoCard), Line("CARD_ATTACK", c)>>)
  BY <1>1 DEF Challenge, Playing
<1> HIDE DEF field, discard, c
<1>4. BoardOK(b) /\ b.status # "mulligan"
  BY <1>2, <1>3, InvParts DEF BoardOK, Zones
<1> HIDE DEF b
<1>5. QED
  BY <1>3, <1>4, InvParts, RecordKeeps

LEMMA EndTurnKeeps ==
    ASSUME ParserInv, EndTurn
    PROVE  ParserInv'
<1> DEFINE hand == Append(board.hand, drawn + 1)
           b == [board EXCEPT !.turn = @ + 1, !.hand = hand]
<1>1. /\ board.status = "playing" /\ drawn + 1 \in Cards /\ drawn' = drawn + 1
      /\ Record("end_turn", NoCard, NoCard, b, <<>>)
  BY DEF EndTurn, Playing
<1>2. hand \in Seq(Cards)
  BY <1>1, InvParts, AppendProperties
<1>3. drawn' \in 2..Deck
  BY <1>1, InvParts DEF Cards
<1> HIDE DEF hand
<1>4. BoardOK(b) /\ b.status # "mulligan"
  BY <1>1, <1>2, InvParts DEF BoardOK, Zones
<1> HIDE DEF b
<1>5. QED
  BY <1>1, <1>3, <1>4, InvParts, RecordKeeps

LEMMA ActivateKeeps ==
    ASSUME ParserInv, Activate
    PROVE  ParserInv'
<1>1. PICK i \in DOMAIN board.field, n \in 0..MaxPrompts :
         LET c == board.field[i]
         IN  IF n = 0
             THEN Record("ability", NoCard, c, board, <<Line("ABILITY_ACTIVATED", c)>>)
             ELSE Record("ability", NoCard, c,
                         SetKey(board, "prompt", [card |-> c, left |-> n]), <<>>)
  BY DEF Activate
<1> DEFINE c == board.field[i]
           prompt == [card |-> c, left |-> n]
           b == SetKey(board, "prompt", prompt)
<1>2. board.status = "playing" /\ drawn' = drawn
  BY DEF Activate, Playing
<1>3. /\ n = 0 => Record("ability", NoCard, c, board, <<Line("ABILITY_ACTIVATED", c)>>)
      /\ n # 0 => Record("ability", NoCard, c, b, <<>>)
  BY <1>1
<1> HIDE DEF prompt, c
<1>4. BoardOK(b) /\ b.status # "mulligan"
  BY <1>2, InvParts DEF BoardOK, Zones, SetKey
<1> HIDE DEF b
<1>5. CASE n = 0
  BY <1>2, <1>3, <1>5, InvParts, RecordKeeps
<1>6. CASE n # 0
  BY <1>2, <1>3, <1>4, <1>6, InvParts, RecordKeeps
<1>7. QED
  BY <1>5, <1>6

LEMMA RespondKeeps ==
    ASSUME ParserInv, Respond
    PROVE  ParserInv'
<1> DEFINE more == [board EXCEPT !.prompt.left = @ - 1]
           done == Restrict(board, DOMAIN board \ {"prompt"})
<1>1. /\ "prompt" \in DOMAIN board /\ drawn' = drawn
      /\ \/ Record("choice", NoCard, board.prompt.card, more, <<>>)
         \/ Record("choice", NoCard, board.prompt.card, done,
                   <<Line("ABILITY_ACTIVATED", board.prompt.card)>>)
  BY DEF Respond
<1>2. board.status # "mulligan"
  BY <1>1, InvParts DEF BoardOK
<1>3. BoardOK(more) /\ more.status # "mulligan"
  BY <1>2, InvParts DEF BoardOK, Zones
<1>4. BoardOK(done) /\ done.status # "mulligan"
  BY <1>2, InvParts DEF BoardOK, Zones, Restrict
<1> HIDE DEF more, done
<1>5. QED
  BY <1>1, <1>2, <1>3, <1>4, InvParts, RecordKeeps

LEMMA UndoKeeps ==
    ASSUME ParserInv, Undo
    PROVE  ParserInv'
<1>1. PICK t \in force :
         /\ frames[t].type # "mulligan"
         /\ LET kept == IF cuts THEN SubSeq(logs, 1, IF t = 1 THEN 0 ELSE frames[t - 1].count)
                        ELSE Append(logs, Line("UNDO", NoCard))
            IN  /\ logs' = kept
                /\ frames' = Append(frames,
                                    [type |-> "undo", card |-> NoCard, target |-> t,
                                     patch |-> Patch(board, past[t]), count |-> Len(kept)])
         /\ board' = past[t]
         /\ force' = force \cap 1..(t - 1)
  BY DEF Undo
<1> DEFINE n == Len(frames)
           cut == IF t = 1 THEN 0 ELSE frames[t - 1].count
           f == [type |-> "undo", card |-> NoCard, target |-> t,
                 patch |-> Patch(board, past[t]), count |-> Len(logs')]
<1>2. /\ n < MaxFrames /\ past' = Append(past, board) /\ frames' = Append(frames, f)
      /\ drawn' = drawn /\ UNCHANGED style
  BY <1>1 DEF Undo
<1>3. /\ IsList(frames) /\ IsList(past) /\ IsList(logs) /\ Len(past) = n /\ n \in Nat
      /\ force \subseteq 1..n /\ BoardOK(board) /\ (n # 0 => board.status # "mulligan")
      /\ \A i \in 1..n : /\ frames[i].count \in Nat /\ BoardOK(past[i])
                         /\ past[i].status = "mulligan" => frames[i].type = "mulligan"
  BY DEF ParserInv, FramesOK, IsList
<1>4. t \in 1..n /\ board.status # "mulligan"
  BY <1>3
<1>5. IsList(logs') /\ Len(logs') \in Nat
  <2>1. cut \in Nat
    BY <1>3, <1>4
  <2> HIDE DEF cut
  <2>2. IsList(SubSeq(logs, 1, cut))
    BY <2>1, ListCut
  <2>3. IsList(Append(logs, Line("UNDO", NoCard)))
    BY <1>3, ListAppend
  <2>4. logs' = IF cuts THEN SubSeq(logs, 1, cut) ELSE Append(logs, Line("UNDO", NoCard))
    BY <1>1 DEF cut
  <2>5. IsList(logs')
    BY <2>2, <2>3, <2>4
  <2>6. QED
    BY <2>5 DEF IsList
<1>6. f.count \in Nat /\ f.type = "undo"
  BY <1>5
<1> HIDE DEF f, n
<1>7. /\ IsList(frames') /\ Len(frames') = n + 1 /\ frames'[n + 1] = f
      /\ \A i \in 1..n : frames'[i] = frames[i]
      /\ IsList(past') /\ Len(past') = n + 1 /\ past'[n + 1] = board
      /\ \A i \in 1..n : past'[i] = past[i]
  BY <1>2, <1>3, ListAppend DEF n
<1>8. n + 1 <= MaxFrames
  BY <1>2, <1>3, ParserAssumption
<1>9. \A i \in 1..(n + 1) :
         /\ frames'[i].count \in Nat /\ BoardOK(past'[i])
         /\ past'[i].status = "mulligan" => frames'[i].type = "mulligan"
  <2> TAKE i \in 1..(n + 1)
  <2>1. i \in 1..n \/ i = n + 1
    BY <1>3
  <2>2. CASE i \in 1..n
    BY <1>3, <1>7, <2>2
  <2>3. CASE i = n + 1
    BY <1>3, <1>4, <1>6, <1>7, <2>3
  <2>4. QED
    BY <2>1, <2>2, <2>3
<1>10. BoardOK(board') /\ board'.status # "mulligan"
  BY <1>1, <1>3, <1>4
<1>11. force' \subseteq 1..(n + 1)
  BY <1>1, <1>3
<1>12. FramesOK'
  BY <1>5, <1>7, <1>8, <1>9, <1>10, <1>11 DEF FramesOK
<1>13. BoardOK(board)'
  BY <1>10 DEF BoardOK
<1>14. QED
  BY <1>2, <1>12, <1>13 DEF ParserInv, style

LEMMA ParserStep ==
    ASSUME ParserInv, [ParserNext]_parserVars
    PROVE  ParserInv'
<1>1. CASE UNCHANGED parserVars
  BY <1>1 DEF parserVars, style, ParserInv, FramesOK, BoardOK, IsList
<1>2. QED
  BY <1>1, MulliganKeeps, PlayCardKeeps, ChallengeKeeps, EndTurnKeeps, ActivateKeeps,
     RespondKeeps, UndoKeeps DEF ParserNext

\* Whatever is played and undone, the board holds cards of the deck, and each
\* frame in force is there with the state before it (parse_replay takes a log
\* position and a target from each).
THEOREM ParserInvariance == ParserSpec => []ParserInv
  BY ParserStarts, ParserStep, PTL DEF ParserSpec

\* The game that is recorded keeps its types.
THEOREM ParserTypeCorrect == ParserSpec => []ParserTypeOK
<1>1. ASSUME ParserInv
      PROVE  ParserTypeOK
  <2>1. /\ IsList(frames) /\ Len(past) = Len(frames) /\ Len(frames) <= MaxFrames
        /\ force \subseteq 1..Len(frames)
        /\ \A i \in 1..Len(frames) : frames[i].count \in Nat
        /\ \A z \in Zones : board[z] \in Seq(Cards)
        /\ cuts \in BOOLEAN /\ terse \in BOOLEAN
    BY <1>1 DEF ParserInv, FramesOK, BoardOK
  <2>2. Len(frames) \in Nat /\ DOMAIN frames = 1..Len(frames)
    BY <2>1 DEF IsList
  <2>3. QED
    BY <2>1, <2>2, ParserAssumption DEF ParserTypeOK
<1>2. QED
  BY <1>1, ParserInvariance, PTL

-----------------------------------------------------------------------------
\* What the parser goes by: frame i is no undo, and no undo after it reaches
\* back to it.
Effective(i) ==
    /\ frames[i].type # "undo"
    /\ \A j \in (i + 1)..Len(frames) :
          frames[j].type = "undo" => ~TakenBack([seq |-> i], frames[j])

ForceIsEffective == force = {i \in 1..Len(frames) : Effective(i)}

LEMMA RecordsAreNoUndos ==
    ASSUME Mulligan \/ PlayCard \/ Challenge \/ EndTurn \/ Activate \/ Respond
    PROVE  \E f : /\ frames' = Append(frames, f) /\ f.type # "undo"
                 /\ force' = force \cup {Len(frames) + 1}
<1>1. \A type, named, target, b, lines :
         type # "undo" /\ Record(type, named, target, b, lines) =>
            \E f : /\ frames' = Append(frames, f) /\ f.type # "undo"
                 /\ force' = force \cup {Len(frames) + 1}
  <2> TAKE type, named, target, b, lines
  <2> DEFINE f == [type |-> type, card |-> named, target |-> target,
                   patch |-> Patch(board, b), count |-> Len(logs) + Len(lines)]
  <2>1. ASSUME type # "undo", Record(type, named, target, b, lines)
        PROVE  /\ frames' = Append(frames, f) /\ f.type # "undo"
               /\ force' = force \cup {Len(frames) + 1}
    BY <2>1 DEF Record
  <2> HIDE DEF f
  <2>2. QED
    BY <2>1
<1>2. \E type, named, target, b, lines :
         type # "undo" /\ Record(type, named, target, b, lines)
  <2>1. \A type : type \in {"mulligan", "play", "challenge", "end_turn", "ability", "choice"}
           => type # "undo"
    OBVIOUS
  <2>2. CASE Mulligan
    BY <2>1, <2>2, Zenon DEF Mulligan
  <2>3. CASE PlayCard
    BY <2>1, <2>3, Zenon DEF PlayCard
  <2>4. CASE Challenge
    BY <2>1, <2>4, Zenon DEF Challenge
  <2>5. CASE EndTurn
    BY <2>1, <2>5, Zenon DEF EndTurn
  <2>6. CASE Activate
    BY <2>1, <2>6, Zenon DEF Activate
  <2>7. CASE Respond
    BY <2>1, <2>7, Zenon DEF Respond
  <2>8. QED
    BY <2>2, <2>3, <2>4, <2>5, <2>6, <2>7
<1>3. QED
  BY <1>1, <1>2

LEMMA ForceStep ==
    ASSUME ParserInv, ForceIsEffective, [ParserNext]_parserVars
    PROVE  ForceIsEffective'
<1> DEFINE n == Len(frames)
<1>1. IsList(frames) /\ n \in Nat /\ force \subseteq 1..n
  BY DEF ParserInv, FramesOK, IsList
<1>2. ASSUME NEW f, frames' = Append(frames, f), NEW S,
             force' = {i \in 1..n : Effective(i) /\ i \notin S} \cup
                         (IF f.type = "undo" THEN {} ELSE {n + 1}),
             \A i \in 1..n : i \in S <=> f.type = "undo" /\ TakenBack([seq |-> i], f)
      PROVE  ForceIsEffective'
  <2>1. /\ Len(frames') = n + 1 /\ frames'[n + 1] = f
        /\ \A i \in 1..n : frames'[i] = frames[i]
    BY <1>1, <1>2, ListAppend
  <2>2. ASSUME NEW i \in 1..n
        PROVE  Effective(i)' <=> Effective(i) /\ i \notin S
    <3>1. Effective(i)' <=>
             /\ frames'[i].type # "undo"
             /\ \A j \in (i + 1)..(n + 1) :
                   frames'[j].type = "undo" => ~TakenBack([seq |-> i], frames'[j])
      BY <2>1 DEF Effective, TakenBack
    <3>2. \A j \in (i + 1)..(n + 1) : j = n + 1 \/ j \in (i + 1)..n
      BY <1>1
    <3>3. n + 1 \in (i + 1)..(n + 1) /\ \A j \in (i + 1)..n : j \in 1..n /\ j \in (i + 1)..(n + 1)
      BY <1>1
    <3> HIDE DEF n
    <3>4. QED
      BY <1>2, <2>1, <3>1, <3>2, <3>3 DEF Effective, n
  <2>3. ASSUME NEW i, i = n + 1
        PROVE  Effective(i)' <=> f.type # "undo"
    <3>1. Effective(i)' <=>
             /\ frames'[i].type # "undo"
             /\ \A j \in (i + 1)..(n + 1) :
                   frames'[j].type = "undo" => ~TakenBack([seq |-> i], frames'[j])
      BY <2>1 DEF Effective, TakenBack
    <3>2. \A j : j \notin (i + 1)..(n + 1)
      BY <1>1, <2>3
    <3>3. QED
      BY <2>1, <2>3, <3>1, <3>2
  <2>4. 1..(n + 1) = 1..n \cup {n + 1} /\ n + 1 \notin 1..n
    BY <1>1
  <2>5. \A i \in 1..(n + 1) : i \in force' <=> Effective(i)'
    <3> HIDE DEF n
    <3>1. QED
      BY <1>2, <2>2, <2>3, <2>4
  <2>6. force' \subseteq 1..(n + 1)
    BY <1>2, <2>4
  <2>7. force' = {i \in 1..Len(frames') : Effective(i)'}
    BY <2>1, <2>5, <2>6
  <2>8. QED
    BY <2>7 DEF ForceIsEffective
<1>3. CASE UNCHANGED parserVars
  BY <1>3 DEF parserVars, ForceIsEffective, Effective, TakenBack
<1>4. CASE Mulligan \/ PlayCard \/ Challenge \/ EndTurn \/ Activate \/ Respond
  <2>1. PICK f : /\ frames' = Append(frames, f) /\ f.type # "undo"
                 /\ force' = force \cup {n + 1}
    BY <1>4, RecordsAreNoUndos
  <2>2. force' = {i \in 1..n : Effective(i) /\ i \notin {}} \cup
                    (IF f.type = "undo" THEN {} ELSE {n + 1})
    BY <2>1 DEF ForceIsEffective
  <2>3. \A i \in 1..n : i \in {} <=> f.type = "undo" /\ TakenBack([seq |-> i], f)
    BY <2>1
  <2> HIDE DEF n
  <2>4. QED
    BY <1>2, <2>1, <2>2, <2>3
<1>5. CASE Undo
  <2>1. PICK t \in force :
           /\ \E kept : frames' = Append(frames, [type |-> "undo", card |-> NoCard, target |-> t,
                                 patch |-> Patch(board, past[t]), count |-> Len(kept)])
           /\ force' = force \cap 1..(t - 1)
    BY <1>5 DEF Undo
  <2>2. PICK kept : frames' = Append(frames, [type |-> "undo", card |-> NoCard, target |-> t,
                                 patch |-> Patch(board, past[t]), count |-> Len(kept)])
    BY <2>1
  <2> DEFINE f == [type |-> "undo", card |-> NoCard, target |-> t,
                   patch |-> Patch(board, past[t]), count |-> Len(kept)]
             S == t..n
  <2>3. frames' = Append(frames, f) /\ f.type = "undo" /\ f.target = t /\ t \in 1..n
    BY <1>1, <2>2
  <2> HIDE DEF f
  <2>4. \A i \in 1..n : i \in S <=> f.type = "undo" /\ TakenBack([seq |-> i], f)
    BY <1>1, <2>3 DEF TakenBack
  <2>5. force' = {i \in 1..n : Effective(i) /\ i \notin S}
    <3>1. \A i \in 1..n : i \in 1..(t - 1) <=> i \notin S
      BY <1>1, <2>3
    <3>2. force = {i \in 1..n : Effective(i)}
      BY DEF ForceIsEffective
    <3> HIDE DEF n, S
    <3>3. QED
      BY <2>1, <3>1, <3>2
  <2>6. QED
    BY <1>2, <2>3, <2>4, <2>5
<1>6. QED
  BY <1>3, <1>4, <1>5 DEF ParserNext

\* The frames that the parser's undo ranges leave are the actions in force, for
\* games of any length: no undo reaches too far or stops short (parse_replay
\* marks the actions from the target of a FREE_UNDO on as undone).
THEOREM UndoneIsTakenBack == ParserSpec => []ForceIsEffective
<1>1. ParserInit => ForceIsEffective
  BY DEF ParserInit, ForceIsEffective
<1>2. ParserInv /\ ForceIsEffective /\ [ParserNext]_parserVars => ForceIsEffective'
  BY ForceStep
<1>3. QED
  BY <1>1, <1>2, ParserInvariance, PTL DEF ParserSpec

-----------------------------------------------------------------------------
(* The three parts share no variable, so whatever holds of each of them    *)
(* holds of a system that runs any of them: replays, reviews and games     *)
(* keep their types, a job that is done is complete, a review is paid for  *)
(* as asked and kept, and undos take back what they should.                *)
THEOREM DuelsAreSafe ==
    Spec => [](TypeOK /\ DoneMeansComplete /\ PaidAsAsked /\ ReportsAreKept /\ ForceIsEffective)
<1>1. Init => ReplayInit /\ CoachInit /\ ParserInit
  BY DEF Init
<1>2. [Next]_vars => [ReplayNext]_replayVars /\ [CoachNext]_coachVars /\ [ParserNext]_parserVars
  BY DEF Next, vars
<1>3. Spec => ReplaySpec /\ CoachSpec /\ ParserSpec
  BY <1>1, <1>2, PTL DEF Spec, ReplaySpec, CoachSpec, ParserSpec
<1>4. ReplayInv => ReplayTypeOK
  BY DEF ReplayInv
<1>5. CoachInv => CoachTypeOK
  BY DEF CoachInv, PayInv
<1>6. ReplayTypeOK /\ CoachTypeOK /\ ParserTypeOK => TypeOK
  BY DEF TypeOK
<1>7. QED
  BY <1>3, <1>4, <1>5, <1>6, ReplayInvariance, CoachInvariance, ParserTypeCorrect,
     DoneIsComplete, OneCallPerRequest, ReportsStay, UndoneIsTakenBack, PTL
=============================================================================
