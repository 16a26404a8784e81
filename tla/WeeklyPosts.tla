----------------------------- MODULE WeeklyPosts -----------------------------
(***************************************************************************)
(* The weekly Duels report, posted page by page under a persisted lease    *)
(* (lorcana/notifications/weekly_duels.py,                                 *)
(* LorcanaBot.deliver_weekly_duels).                                       *)
(*                                                                         *)
(* A lease is a time, and a claim carries the value it wrote: statements   *)
(* of the claim apply only to a row that still has this value.  Here the   *)
(* lease of a row is the poster whose claim carries its value, or Orphan   *)
(* when no claim does.                                                     *)
(***************************************************************************)
EXTENDS Naturals, FiniteSets

CONSTANTS
    Weeks,          \* the Sundays at 09:00 that end a report, 1..n
    Posters,        \* bots that run the delivery task
    Reports,        \* what the results imported so far make of the report
    Pages,          \* how many pages each has
    MaxUnsure       \* bound on refusals, lost answers, failures, crashes, lapses

VARIABLES
    weeklyOn,       \* the weekly channel is configured
    week,           \* latest_weekly_boundary
    results,        \* what a report would be made of now
    post,           \* discord_weekly_duels_posts, by period_end
    poster,         \* the delivery task of each bot
    shown,          \* pages Discord has accepted for a week, with their report
    sends,          \* how many times it accepted one, repetitions included
    lost,           \* accepted pages that were not recorded in next_page
    upsets

postVars == <<weeklyOn, week, results, post, poster, shown, sends, lost, upsets>>

Free == "free"
Orphan == "orphan"

ASSUME WeekAssumption ==
    /\ Weeks \subseteq Nat
    /\ IsFiniteSet(Posters) /\ {Free, Orphan} \cap Posters = {}
    /\ Pages \in [Reports -> Nat \ {0}] /\ "none" \notin Reports
    /\ MaxUnsure \in Nat

Absent == [report |-> "none", next |-> 0, lease |-> Free, lapsed |-> FALSE, sent |-> FALSE]
Row == [report : Reports \cup {"none"}, next : Nat,
        lease : Posters \cup {Free, Orphan}, lapsed : BOOLEAN, sent : BOOLEAN]

PosterPC == {"idle", "build", "insert", "take", "open", "send", "advance", "release", "down"}
Claim == [pc : PosterPC, week : Weeks \cup {0}, report : Reports \cup {"none"}, next : Nat]
Asleep == [pc |-> "idle", week |-> 0, report |-> "none", next |-> 0]

PageNumbers == UNION {0..(Pages[r] - 1) : r \in Reports}

WeekTypeOK ==
    /\ weeklyOn \in BOOLEAN /\ week \in Weeks /\ results \in Reports
    /\ post \in [Weeks -> Row]
    /\ poster \in [Posters -> Claim]
    /\ shown \in [Weeks -> SUBSET (Reports \X PageNumbers)]
    /\ sends \in [Weeks -> Nat]
    /\ lost \in [Weeks -> Nat]
    /\ upsets \in 0..MaxUnsure

WeekInit ==
    /\ weeklyOn \in BOOLEAN
    /\ week \in Weeks /\ \A w \in Weeks : week <= w
    /\ results \in Reports
    /\ post = [w \in Weeks |-> Absent]
    /\ poster = [b \in Posters |-> Asleep]
    /\ shown = [w \in Weeks |-> {}]
    /\ sends = [w \in Weeks |-> 0]
    /\ lost = [w \in Weeks |-> 0]
    /\ upsets = 0

At(b, pc) == poster[b].pc = pc
Go(b, pc) == poster' = [poster EXCEPT ![b].pc = pc]
Upset == upsets < MaxUnsure /\ upsets' = upsets + 1
Loses(b) == lost' = [lost EXCEPT ![poster[b].week] = @ + 1]

-----------------------------------------------------------------------------
(* The world: Sundays pass, results are imported, leases lapse.            *)

NextWeek ==
    /\ week + 1 \in Weeks /\ week' = week + 1
    /\ UNCHANGED <<weeklyOn, results, post, poster, shown, sends, lost, upsets>>

ResultsImported ==
    /\ results' \in Reports \ {results}
    /\ UNCHANGED <<weeklyOn, week, post, poster, shown, sends, lost, upsets>>

\* Ten minutes pass.  While the claim is still worked on, this is an upset.
Lapse(w) ==
    /\ post[w].lease # Free /\ ~post[w].lapsed
    /\ post' = [post EXCEPT ![w].lapsed = TRUE]
    /\ IF post[w].lease = Orphan THEN UNCHANGED upsets ELSE Upset
    /\ UNCHANGED <<weeklyOn, week, results, poster, shown, sends, lost>>

-----------------------------------------------------------------------------
(* WeeklyDuelsDelivery.claim, in three transactions.                       *)

Look(b) ==
    /\ At(b, "idle") /\ weeklyOn
    /\ poster' = [poster EXCEPT ![b].week = week,
                                ![b].pc = IF post[week] = Absent THEN "build" ELSE "take"]
    /\ UNCHANGED <<weeklyOn, week, results, post, shown, sends, lost, upsets>>

Build(b) ==
    /\ At(b, "build")
    /\ poster' = [poster EXCEPT ![b].report = results, ![b].pc = "insert"]
    /\ UNCHANGED <<weeklyOn, week, results, post, shown, sends, lost, upsets>>

\* Mutant: the last report stays.
StoredAnew(row, report) == [row EXCEPT !.report = report]
\* ON CONFLICT DO NOTHING: the first report stays.
Stored(row, report) == IF row = Absent THEN [Absent EXCEPT !.report = report] ELSE row

Insert(b) ==
    /\ At(b, "insert")
    /\ post' = [post EXCEPT ![poster[b].week] = Stored(@, poster[b].report)]
    /\ Go(b, "take")
    /\ UNCHANGED <<weeklyOn, week, results, shown, sends, lost, upsets>>

\* Mutant: a lease never lapses.
TakeableIfFree(row) == ~row.sent /\ row.lease = Free
Takeable(row) == ~row.sent /\ (row.lease = Free \/ row.lapsed)

\* The pages and the next of them are those of the row.  (A lease that lapsed
\* after the claim read the clock would in fact be taken a minute later.)
Take(b) ==
    LET w == poster[b].week
    IN  /\ At(b, "take")
        /\ IF Takeable(post[w])
           THEN /\ post' = [post EXCEPT ![w].lease = b, ![w].lapsed = FALSE]
                /\ poster' = [poster EXCEPT ![b] = [pc |-> "open", week |-> w,
                                 report |-> post[w].report, next |-> post[w].next]]
           ELSE /\ poster' = [poster EXCEPT ![b] = Asleep]
                /\ UNCHANGED post
        /\ UNCHANGED <<weeklyOn, week, results, shown, sends, lost, upsets>>

\* A statement of the claim raises: the loop logs it and polls again.
ClaimFails(b) ==
    /\ poster[b].pc \in {"idle", "build", "insert", "take"} /\ Upset
    /\ poster' = [poster EXCEPT ![b] = Asleep]
    /\ UNCHANGED <<weeklyOn, week, results, post, shown, sends, lost>>

-----------------------------------------------------------------------------
(* The pages, one after the other.                                         *)

Open(b) ==
    /\ At(b, "open") /\ Go(b, "send")
    /\ UNCHANGED <<weeklyOn, week, results, post, shown, sends, lost, upsets>>

Accepted(b) ==
    LET c == poster[b]
    IN  /\ shown' = [shown EXCEPT ![c.week] = @ \cup {<<c.report, c.next>>}]
        /\ sends' = [sends EXCEPT ![c.week] = @ + 1]

SendPage(b) ==
    /\ At(b, "send") /\ Accepted(b) /\ Go(b, "advance")
    /\ UNCHANGED <<weeklyOn, week, results, post, lost, upsets>>

\* The channel or the page is refused.
Refused(b) ==
    /\ poster[b].pc \in {"open", "send"} /\ Upset /\ Go(b, "release")
    /\ UNCHANGED <<weeklyOn, week, results, post, shown, sends, lost>>

\* The minute for a send is over, or its answer lost, when Discord has the page.
TimesOut(b) ==
    /\ At(b, "send") /\ Upset
    /\ Accepted(b) /\ Loses(b) /\ Go(b, "release")
    /\ UNCHANGED <<weeklyOn, week, results, post>>

\* Mutant: the row is written by anyone who once had the lease.
HoldsUnfenced(b) == TRUE
Holds(b) == post[poster[b].week].lease = b

Advanced(row, b) ==
    [row EXCEPT !.next = poster[b].next + 1, !.lapsed = FALSE,
                !.sent = (poster[b].next + 1 = Pages[poster[b].report])]

Advance(b) ==
    LET c == poster[b]
        more == c.next + 1 < Pages[c.report]
    IN  /\ At(b, "advance") /\ Holds(b)
        /\ post' = [post EXCEPT ![c.week] = Advanced(@, b)]
        /\ poster' = [poster EXCEPT ![b].next = @ + 1,
                                    ![b].pc = IF more THEN "send" ELSE "release"]
        /\ UNCHANGED <<weeklyOn, week, results, shown, sends, lost, upsets>>

\* "Weekly Duels delivery lease was lost".
AdvanceRefused(b) ==
    /\ At(b, "advance") /\ ~Holds(b)
    /\ Loses(b) /\ Go(b, "release")
    /\ UNCHANGED <<weeklyOn, week, results, post, shown, sends, upsets>>

\* The statement fails, or commits though it seems to fail: then the row has a
\* lease that the claim does not know.
AdvanceFails(b) ==
    /\ At(b, "advance") /\ Upset /\ Go(b, "release")
    /\ \/ Loses(b) /\ UNCHANGED post
       \/ /\ Holds(b)
          /\ post' = [post EXCEPT ![poster[b].week] =
                        [Advanced(@, b) EXCEPT !.lease = Orphan]]
          /\ UNCHANGED lost
    /\ UNCHANGED <<weeklyOn, week, results, shown, sends>>

Release(b) ==
    LET w == poster[b].week
    IN  /\ At(b, "release")
        /\ post' = IF Holds(b)
                   THEN [post EXCEPT ![w].lease = Free, ![w].lapsed = FALSE] ELSE post
        /\ poster' = [poster EXCEPT ![b] = Asleep]
        /\ UNCHANGED <<weeklyOn, week, results, shown, sends, lost, upsets>>

Orphaned(b) ==
    [w \in Weeks |-> IF post[w].lease = b THEN [post[w] EXCEPT !.lease = Orphan] ELSE post[w]]

ReleaseFails(b) ==
    /\ At(b, "release") /\ Upset
    /\ post' = Orphaned(b)
    /\ poster' = [poster EXCEPT ![b] = Asleep]
    /\ UNCHANGED <<weeklyOn, week, results, shown, sends, lost>>

PosterCrashes(b) ==
    /\ ~At(b, "down") /\ Upset
    /\ IF At(b, "advance") THEN Loses(b) ELSE UNCHANGED lost
    /\ post' = Orphaned(b)
    /\ poster' = [poster EXCEPT ![b] = [Asleep EXCEPT !.pc = "down"]]
    /\ UNCHANGED <<weeklyOn, week, results, shown, sends>>

PosterStarts(b) ==
    /\ At(b, "down")
    /\ poster' = [poster EXCEPT ![b] = Asleep]
    /\ UNCHANGED <<weeklyOn, week, results, post, shown, sends, lost, upsets>>

Posts(b) ==
    \/ Look(b) \/ Build(b) \/ Insert(b) \/ Take(b) \/ Open(b) \/ SendPage(b)
    \/ Advance(b) \/ AdvanceRefused(b) \/ Release(b) \/ PosterStarts(b)

WeekNext ==
    \/ NextWeek \/ ResultsImported
    \/ \E w \in Weeks : Lapse(w)
    \/ \E b \in Posters :
          \/ Posts(b) \/ ClaimFails(b) \/ Refused(b) \/ TimesOut(b) \/ AdvanceFails(b)
          \/ ReleaseFails(b) \/ PosterCrashes(b)

\* The loop polls every minute, and a lease lapses.
WeekFairness ==
    /\ \A w \in Weeks : WF_postVars(Lapse(w))
    /\ \A b \in Posters : WF_postVars(Posts(b))

-----------------------------------------------------------------------------
\* "One immutable report per team/channel/week; progress survives bot
\* restarts": whichever bots post the pages of a week, and whatever is imported
\* meanwhile, all of them are pages of one report.
OneReportPerWeek ==
    \A w \in Weeks : \A s \in shown[w] : s[1] = post[w].report

\* "persisted pages and progress allow retries to resume after completed
\* pages": pages appear in order, a page that progress has passed was accepted,
\* and progress has passed a page for each one accepted, but for those that
\* were lost between Discord and the database, and those on their way.
OnTheirWay(w) == {b \in Posters : At(b, "advance") /\ poster[b].week = w}
PagesAreAccountedFor ==
    \A w \in Weeks :
        /\ \A p \in PageNumbers : p < post[w].next => <<post[w].report, p>> \in shown[w]
        /\ \A s \in shown[w] : s[2] <= post[w].next
        /\ sends[w] = post[w].next + lost[w] + Cardinality(OnTheirWay(w))
        /\ post[w].sent <=> post[w] # Absent /\ post[w].next = Pages[post[w].report]

\* The report of a week that does not end before is posted to its last page.
LastWeekIsPosted ==
    weeklyOn => \A w \in Weeks : <>[](week = w) => <>post[w].sent
=============================================================================
