------------------------------ MODULE MCDuels ------------------------------
(***************************************************************************)
(* From a Duels account to a review: three parts that meet in the rows     *)
(* they leave behind.  One part moves in a behaviour: the sync with the    *)
(* replay jobs, the reviews of one replay, or a game being recorded.       *)
(***************************************************************************)
EXTENDS DuelsReplays, CoachReviews, ReplayParser

VARIABLE part

vars == <<replayVars, coachVars, parserVars, part>>

\* One game with a revised replay, and a fault or two; or more games than a
\* run of the sync fetches, with one fault more.
SmallWorld ==
    \/ plan = [games |-> 1, revisions |-> MaxRevisions] /\ faults = 1
    \/ plan = [games |-> MaxGames, revisions |-> 0] /\ faults = 0

Init ==
    /\ ReplayInit /\ SmallWorld /\ CoachInit /\ ParserInit
    /\ \/ part = "replays" /\ board = Base("playing") /\ ~cuts /\ ~terse
          /\ \A q \in Requests : ~ask[q].old
       \/ part = "reviews" /\ board = Base("playing") /\ ~cuts /\ ~terse
          /\ plan.games = 1 /\ readable = {}
       \/ part = "game" /\ plan.games = 1 /\ readable = {}
          /\ \A q \in Requests : ~ask[q].old

Next ==
    /\ UNCHANGED part
    /\ \/ part = "replays" /\ ReplayNext /\ UNCHANGED <<coachVars, parserVars>>
       \/ part = "reviews" /\ CoachNext /\ UNCHANGED <<replayVars, parserVars>>
       \/ part = "game" /\ ParserNext /\ UNCHANGED <<replayVars, coachVars>>

Spec == Init /\ [][Next]_vars /\ (part = "replays" => ReplayFairness)

\* The rows and local data of the three parts keep their types.
TypeOK == ReplayTypeOK /\ CoachTypeOK /\ ParserTypeOK
=============================================================================
