------------------------------ MODULE LiveLinks ------------------------------
(***************************************************************************)
(* Links to the live events of a team: the worker's scan, which refreshes  *)
(* events that may be live and reserves a link for each eligible one, and  *)
(* the bot's task that posts reserved links to Discord                     *)
(* (lorcana/notifications/live_events.py, JobExecutor._scan_live_events,   *)
(* LorcanaBot.deliver_live_event_links).                                   *)
(*                                                                         *)
(* Clock times are told apart by what the code compares them with: the     *)
(* stage an event is in, whether what is stored of it is older than ten    *)
(* minutes, whether its last attempt is five minutes old, and whether the  *)
(* delay of a link has passed.  Left out: the wording of a link, the count *)
(* of its attempts, which only sets the delay, and events whose hours are  *)
(* changed or last more than a day.                                        *)
(***************************************************************************)
EXTENDS Naturals, FiniteSets, SequencesExt

CONSTANTS
    Events,         \* event ids
    Bots,           \* processes that run the delivery task
    Limit,          \* how many events a scan refreshes
    MaxFaults       \* bound on refusals, lost answers, failed statements, crashes

ASSUME LinkAssumption ==
    /\ Events \subseteq Nat /\ IsFiniteSet(Events) /\ IsFiniteSet(Bots)
    /\ Limit \in Nat /\ MaxFaults \in Nat

VARIABLES
    linksOn,        \* the live event channel is configured
    stage,          \* where the clock stands in the hours of an event
    playing,        \* whether Play Hub shows a member of the team playing in it
    stored,         \* what the database holds of that
    tried,          \* events by their last attempt, oldest first
    rested,         \* those whose last attempt is five minutes old
    scan,           \* the job discord.scan_live_events
    link,           \* discord_live_event_announcements, by event
    queue,          \* events by the creation of their link
    bot,            \* the delivery task of each bot
    copies,         \* messages Discord has accepted for an event
    unsure,         \* those whose acceptance the bot never recorded
    faults

world == <<linksOn, stage, playing>>
scanned == <<stored, tried, rested, scan>>
links == <<link, queue>>
told == <<copies, unsure>>
linkVars == <<world, scanned, links, bot, told, faults>>

\* "late": the end has not come, but the day of the start is over where the
\* event takes place.
Stages == {"before", "open", "late", "closed"}
Running(e) == stage[e] \in {"open", "late"}

\* "unknown": no registration of a member is stored.  "out": one is, but the
\* event is not in progress or the registration not active.  "stale": it was
\* live when stored, more than ten minutes ago.
Stores == {"unknown", "out", "live", "stale"}

\* eligible_events with event_date_is_current.
Eligible(e) == stage[e] = "open" /\ stored[e] = "live"

ScanPC == {"idle", "eligible", "insert", "next", "import"}
BotPC == {"idle", "check", "send", "mark", "fail", "ended", "down"}
Task == [pc : BotPC, event : Events \cup {0}]
Idle == [pc |-> "idle", event |-> 0]

Links == {"none", "waiting", "due", "sent"}
Pending(e) == link[e] \in {"waiting", "due"}

NewTask(b, pc, e) == bot' = [bot EXCEPT ![b] = [pc |-> pc, event |-> e]]

Fault == faults < MaxFaults /\ faults' = faults + 1

LinkTypeOK ==
    /\ linksOn \in BOOLEAN
    /\ stage \in [Events -> Stages]
    /\ playing \in [Events -> {"absent", "registered", "playing", "over"}]
    /\ stored \in [Events -> Stores]
    /\ tried \in Seq(Events) /\ IsInjective(tried)
    /\ rested \subseteq ToSet(tried)
    /\ scan.pc \in ScanPC /\ scan.todo \in Seq(Events) /\ scan.picked \subseteq Events
    /\ link \in [Events -> Links]
    /\ queue \in Seq(Events) /\ IsInjective(queue)
    /\ ToSet(queue) = {e \in Events : link[e] # "none"}
    /\ bot \in [Bots -> Task]
    /\ copies \in [Events -> Nat] /\ unsure \in [Events -> Nat]
    /\ faults \in 0..MaxFaults

LinkInit ==
    /\ linksOn \in BOOLEAN
    /\ stage \in [Events -> Stages]
    /\ playing \in [Events -> {"absent", "registered", "over"}]
    /\ stored = [e \in Events |-> "unknown"]
    /\ tried = <<>> /\ rested = {}
    /\ scan = [pc |-> "idle", todo |-> <<>>, picked |-> {}]
    /\ link = [e \in Events |-> "none"] /\ queue = <<>>
    /\ bot = [b \in Bots |-> IF linksOn THEN Idle ELSE [Idle EXCEPT !.pc = "ended"]]
    /\ copies = [e \in Events |-> 0] /\ unsure = [e \in Events |-> 0]
    /\ faults \in 0..MaxFaults

-----------------------------------------------------------------------------
(* Time and Play Hub.                                                      *)

Passes(e) ==
    /\ stage' \in {[stage EXCEPT ![e] = s] :
                     s \in CASE stage[e] = "before" -> {"open"}
                             [] stage[e] = "open" -> {"late", "closed"}
                             [] stage[e] = "late" -> {"closed"}
                             [] OTHER -> {}}
    /\ UNCHANGED <<linksOn, playing, scanned, links, bot, told, faults>>

Plays(e) ==
    /\ \/ playing[e] = "registered" /\ playing' = [playing EXCEPT ![e] = "playing"]
       \/ playing[e] = "playing" /\ playing' = [playing EXCEPT ![e] = "over"]
    /\ UNCHANGED <<linksOn, stage, scanned, links, bot, told, faults>>

GoesStale(e) ==
    /\ stored[e] = "live"
    /\ stored' = [stored EXCEPT ![e] = "stale"]
    /\ UNCHANGED <<world, tried, rested, scan, links, bot, told, faults>>

Rests(e) ==
    /\ e \in ToSet(tried) \ rested
    /\ rested' = rested \cup {e}
    /\ UNCHANGED <<world, stored, tried, scan, links, bot, told, faults>>

DelayPasses(e) ==
    /\ link[e] = "waiting"
    /\ link' = [link EXCEPT ![e] = "due"]
    /\ UNCHANGED <<world, scanned, queue, bot, told, faults>>

-----------------------------------------------------------------------------
(* The scan.                                                               *)

\* ORDER BY, of a set that "before" puts in order.
Ordered(S, before(_, _)) ==
    CHOOSE s \in SetToSeqs(S) : \A i, j \in DOMAIN s : i < j => before(s[i], s[j])

AtMost(s, n) == SubSeq(s, 1, IF Len(s) < n THEN Len(s) ELSE n)

\* ORDER BY last_attempt_at NULLS FIRST, event_id.
Rank(e) == IF e \in ToSet(tried) THEN CHOOSE i \in 1..Len(tried) : tried[i] = e ELSE 0
Sooner(d, e) == Rank(d) < Rank(e) \/ (Rank(d) = Rank(e) /\ d < e)

\* Known events of the team come first; the rest of the budget goes round the
\* other running events.
TeamEvents ==
    LET known == {e \in Events : Running(e) /\ stored[e] # "unknown"}
    IN  AtMost(Ordered(known, <), Limit)

PotentialEvents ==
    LET due == {e \in Events : /\ Running(e)
                               /\ e \notin ToSet(tried) \/ e \in rested}
        others == Ordered(due \ ToSet(TeamEvents), Sooner)
    IN  TeamEvents \o AtMost(others, Limit - Len(TeamEvents))

BeginScan ==
    /\ scan.pc = "idle" /\ linksOn
    /\ scan' = [pc |-> "eligible", todo |-> PotentialEvents, picked |-> {}]
    /\ UNCHANGED <<world, stored, tried, rested, links, bot, told, faults>>

\* reserve_eligible reads its candidates in one transaction ...
ReadEligible ==
    /\ scan.pc = "eligible"
    /\ scan' = [scan EXCEPT !.pc = "insert", !.picked = {e \in Events : Eligible(e)}]
    /\ UNCHANGED <<world, stored, tried, rested, links, bot, told, faults>>

\* Mutant: the row is written whether or not there is one.
Inserted(picked) == picked
\* ... and inserts in another, ON CONFLICT DO NOTHING: an event that has a link
\* keeps it.
New(picked) == {e \in picked : link[e] = "none"}

Reserve ==
    LET new == New(scan.picked)
    IN  /\ scan.pc = "insert"
        /\ scan' = [scan EXCEPT !.pc = "next", !.picked = {}]
        /\ link' = [e \in Events |-> IF e \in new THEN "due" ELSE link[e]]
        /\ \E order \in SetToSeqs(new) : queue' = queue \o order
        /\ UNCHANGED <<world, stored, tried, rested, bot, told, faults>>

FinishScan ==
    /\ scan.pc = "next" /\ scan.todo = <<>>
    /\ scan' = [scan EXCEPT !.pc = "idle"]
    /\ UNCHANGED <<world, stored, tried, rested, links, bot, told, faults>>

\* Mutant: the attempt is not recorded.
RecordNothing(e) == UNCHANGED <<tried, rested>>
RecordAttempt(e) ==
    /\ tried' = Append(IF e \in ToSet(tried) THEN RemoveAt(tried, Rank(e)) ELSE tried, e)
    /\ rested' = rested \ {e}

\* The attempt is recorded before the network is used.
NextEvent ==
    /\ scan.pc = "next" /\ scan.todo # <<>>
    /\ RecordAttempt(Head(scan.todo))
    /\ scan' = [scan EXCEPT !.pc = "import"]
    /\ UNCHANGED <<world, stored, links, bot, told, faults>>

Imported(e) ==
    CASE playing[e] = "absent" -> "unknown"
      [] playing[e] = "playing" -> "live"
      [] OTHER -> "out"

ImportSucceeds ==
    LET e == Head(scan.todo)
    IN  /\ scan.pc = "import"
        /\ stored' = [stored EXCEPT ![e] = Imported(e)]
        /\ scan' = [scan EXCEPT !.pc = "eligible", !.todo = Tail(@)]
        /\ UNCHANGED <<world, tried, rested, links, bot, told, faults>>

ImportFails ==
    /\ scan.pc = "import"
    /\ scan' = [scan EXCEPT !.pc = "next", !.todo = Tail(@)]
    /\ UNCHANGED <<world, stored, tried, rested, links, bot, told, faults>>

\* The worker dies or loses the database; the schedule starts another scan.
ScanDies ==
    /\ scan.pc # "idle" /\ Fault
    /\ scan' = [pc |-> "idle", todo |-> <<>>, picked |-> {}]
    /\ UNCHANGED <<world, stored, tried, rested, links, bot, told>>

Scans == \/ BeginScan \/ ReadEligible \/ Reserve \/ FinishScan \/ NextEvent
         \/ ImportSucceeds \/ ImportFails

-----------------------------------------------------------------------------
(* Delivery.                                                               *)

\* Mutant: links that were sent are picked again.
DeliverableAgain(e) == link[e] \in {"due", "sent"} /\ stage[e] # "closed"
Deliverable(e) == link[e] = "due" /\ stage[e] # "closed"

\* next_pending: the oldest link that is pending, due and not expired.
Oldest(e) ==
    /\ Deliverable(e)
    /\ LET q == SelectSeq(queue, Deliverable) IN e = q[1]

Pick(b, e) ==
    /\ bot[b].pc = "idle" /\ Oldest(e)
    /\ NewTask(b, "check", e)
    /\ UNCHANGED <<world, scanned, links, told, faults>>

Check(b) ==
    /\ bot[b].pc = "check"
    /\ NewTask(b, IF Eligible(bot[b].event) THEN "send" ELSE "fail", bot[b].event)
    /\ UNCHANGED <<world, scanned, links, told, faults>>

\* The channel and the message are accepted; the event may have ended meanwhile.
Send(b, e) ==
    /\ bot[b].pc = "send" /\ bot[b].event = e
    /\ copies' = [copies EXCEPT ![e] = @ + 1]
    /\ NewTask(b, "mark", e)
    /\ UNCHANGED <<world, scanned, links, unsure, faults>>

SendFails(b) ==
    /\ bot[b].pc = "send" /\ Fault
    /\ NewTask(b, "fail", bot[b].event)
    /\ UNCHANGED <<world, scanned, links, told>>

Posted(e) ==
    /\ copies' = [copies EXCEPT ![e] = @ + 1]
    /\ unsure' = [unsure EXCEPT ![e] = @ + 1]

\* The message is accepted but its answer lost.
AnswerLost(b) ==
    /\ bot[b].pc = "send" /\ Fault
    /\ Posted(bot[b].event)
    /\ NewTask(b, "fail", bot[b].event)
    /\ UNCHANGED <<world, scanned, links>>

Mark(b) ==
    /\ bot[b].pc = "mark"
    /\ link' = [link EXCEPT ![bot[b].event] = "sent"]
    /\ bot' = [bot EXCEPT ![b] = Idle]
    /\ UNCHANGED <<world, scanned, queue, told, faults>>

\* Mutant: a link that failed once is done with.
GiveUp(e) == link' = [link EXCEPT ![e] = "sent"]
\* mark_failed sets the delay by id, whatever has become of the link: a link
\* that another bot has marked sent meanwhile stays so.
Delay(e) == link' = [link EXCEPT ![e] = IF @ = "sent" THEN @ ELSE "waiting"]

Fail(b) ==
    /\ bot[b].pc = "fail"
    /\ Delay(bot[b].event)
    /\ bot' = [bot EXCEPT ![b] = Idle]
    /\ UNCHANGED <<world, scanned, queue, told, faults>>

Forget(b) ==
    unsure' = IF bot[b].pc = "mark"
              THEN [unsure EXCEPT ![bot[b].event] = @ + 1] ELSE unsure

\* An error of the database outside the try statement, in next_pending,
\* mark_sent or mark_failed, ends the task for good: the bot goes on without.
TaskEnds(b) ==
    /\ bot[b].pc \in {"idle", "mark", "fail"} /\ Fault
    /\ Forget(b)
    /\ NewTask(b, "ended", 0)
    /\ UNCHANGED <<world, scanned, links, copies>>

Crash(b) ==
    /\ bot[b].pc # "down" /\ Fault
    /\ Forget(b)
    /\ NewTask(b, "down", 0)
    /\ UNCHANGED <<world, scanned, links, copies>>

Start(b) ==
    /\ bot[b].pc = "down" /\ linksOn
    /\ bot' = [bot EXCEPT ![b] = Idle]
    /\ UNCHANGED <<world, scanned, links, told, faults>>

Delivers(b) ==
    \/ Check(b) \/ Mark(b) \/ Fail(b) \/ Start(b)
    \/ \E e \in Events : Pick(b, e) \/ Send(b, e)

LinkNext ==
    \/ \E e \in Events :
          \/ Passes(e) \/ Plays(e) \/ GoesStale(e) \/ Rests(e) \/ DelayPasses(e)
    \/ Scans \/ ScanDies
    \/ \E b \in Bots :
          Delivers(b) \/ SendFails(b) \/ AnswerLost(b) \/ TaskEnds(b) \/ Crash(b)

\* Loops go on and time passes.
LinkFairness ==
    /\ WF_linkVars(Scans)
    /\ \A e \in Events : WF_linkVars(Rests(e)) /\ WF_linkVars(DelayPasses(e))
    /\ \A b \in Bots : WF_linkVars(Delivers(b))

-----------------------------------------------------------------------------
\* Of the copies of a link that Discord has accepted, at most one per bot is
\* due to bots that worked on it at the same time; each of the others goes back
\* to a message whose acceptance was never recorded.
CopiesAreExplained ==
    \A e \in Events : copies[e] <= Cardinality(Bots) + unsure[e]

\* "Record before network I/O so repeated fetch failures cannot monopolize the
\* bounded discovery batch", "so they cannot be starved": an event that goes on
\* is refreshed again and again, though imports fail, if it is one of the
\* team's that fit in a scan or these leave room in it.
EveryEventIsRefreshed ==
    linksOn => \A e \in Events :
        <>[](Running(e) /\ (e \in ToSet(TeamEvents) \/ Len(TeamEvents) < Limit))
            => []<>(scan.pc = "import" /\ Head(scan.todo) = e)

\* An event that stays eligible gets its link, unless the delivery task of
\* every bot has ended.
LinksAreDelivered ==
    linksOn => \A e \in Events :
        <>[]Eligible(e) => <>(copies[e] > 0 \/ \A b \in Bots : bot[b].pc = "ended")
=============================================================================
