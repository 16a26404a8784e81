--------------------------- MODULE MCNotifications ---------------------------
(***************************************************************************)
(* The bot's two delivery tasks.  They share nothing but their process, so *)
(* they are checked one at a time, the other not being configured.         *)
(***************************************************************************)
EXTENDS LiveLinks, WeeklyPosts

vars == <<linkVars, postVars>>

MCPages == [r \in Reports |-> IF r = "long" THEN 2 ELSE 1]

\* Two bots and one event, with a member who comes to play in it.
Delivery ==
    /\ linksOn /\ ~weeklyOn /\ faults = 0 /\ results = "long"
    /\ \A e \in Events :
          IF e = 1 THEN playing[e] = "registered" /\ stage[e] = "open"
                   ELSE playing[e] = "absent" /\ stage[e] = "closed"

\* More events than a scan refreshes, none of them the team's.
Rotation ==
    /\ linksOn /\ ~weeklyOn /\ faults = 0 /\ results = "long"
    /\ \A e \in Events : stage[e] = "before" /\ playing[e] = "absent"

Weekly ==
    /\ weeklyOn /\ ~linksOn /\ faults = 0
    /\ \A e \in Events : stage[e] = "closed" /\ playing[e] = "absent"

Init ==
    /\ LinkInit /\ WeekInit
    /\ Delivery \/ Rotation \/ Weekly

Next ==
    \/ weeklyOn /\ WeekNext /\ UNCHANGED linkVars
    \/ linksOn /\ LinkNext /\ UNCHANGED postVars

Spec == Init /\ [][Next]_vars /\ LinkFairness /\ WeekFairness

\* Both tasks' rows and local data keep their types.
TypeOK == LinkTypeOK /\ WeekTypeOK
=============================================================================
