------------------------- MODULE NotificationProofs -------------------------
(***************************************************************************)
(* The bot's two delivery tasks, for any number of events, weeks, bots,    *)
(* pages and faults.  The weekly report is one report, posted page after   *)
(* page, and every page Discord accepted is accounted for.  The copies of  *)
(* a live event link are those of bots that worked on it at the same time, *)
(* and those whose acceptance was never recorded; the scan has left what   *)
(* it has yet to import, and every link is in the queue once.              *)
(***************************************************************************)
EXTENDS MCNotifications, TLAPS, FiniteSetTheorems, SequenceTheorems,
        WellFoundedInduction

-----------------------------------------------------------------------------
(* The weekly report.                                                      *)

WeekSpec == WeekInit /\ [][WeekNext]_postVars

\* A row that was inserted has a report, and is sent once all pages are.
RowOK(row) ==
    \/ row = Absent
    \/ /\ row.report \in Reports
       /\ row.next \in 0..Pages[row.report]
       /\ row.sent <=> row.next = Pages[row.report]

\* What Discord has of a week are the pages of the row's report, in order.
ShownOK(w) ==
    /\ shown[w] # {} => post[w] # Absent
    /\ \A s \in shown[w] :
          /\ s[1] = post[w].report /\ s[2] <= post[w].next
    /\ \A p \in PageNumbers :
          p < post[w].next => <<post[w].report, p>> \in shown[w]

\* A poster at the pages of a week has them from the row, and is not ahead of
\* it; while it holds the lease, nobody else has moved the row.
Posting == {"open", "send", "advance"}
PosterOK(b) ==
    LET c == poster[b]
    IN  /\ c.pc \notin {"idle", "down"} => c.week \in Weeks
        /\ c.pc = "insert" => c.report \in Reports
        /\ c.pc = "take" => post[c.week] # Absent
        /\ c.pc \in Posting =>
              /\ post[c.week] # Absent
              /\ c.report = post[c.week].report
              /\ c.next \in Nat /\ c.next < Pages[c.report]
              /\ c.next <= post[c.week].next
              /\ Holds(b) => c.next = post[c.week].next
        /\ c.pc = "advance" => <<c.report, c.next>> \in shown[c.week]

Counted(w) == sends[w] = post[w].next + lost[w] + Cardinality(OnTheirWay(w))

WeekInv ==
    /\ WeekTypeOK
    /\ \A w \in Weeks : RowOK(post[w]) /\ ShownOK(w) /\ Counted(w)
    /\ \A b \in Posters : PosterOK(b)

-----------------------------------------------------------------------------
LEMMA InvFacts ==
    ASSUME WeekInv
    PROVE  /\ WeekTypeOK
           /\ \A w \in Weeks : post[w] \in Row /\ RowOK(post[w])
                               /\ ShownOK(w) /\ Counted(w)
           /\ \A b \in Posters : PosterOK(b) /\ poster[b] \in Claim
           /\ post \in [Weeks -> Row] /\ poster \in [Posters -> Claim]
           /\ shown \in [Weeks -> SUBSET (Reports \X PageNumbers)]
           /\ sends \in [Weeks -> Nat] /\ lost \in [Weeks -> Nat]
  BY DEF WeekInv, WeekTypeOK

\* How many pages are on their way after poster b has moved on to c2.
OnIt(c, w) == IF c.pc = "advance" /\ c.week = w THEN 1 ELSE 0

LEMMA OnItIsNat ==
    ASSUME NEW c \in Claim, NEW w \in Weeks PROVE OnIt(c, w) \in {0, 1}
  BY DEF OnIt

LEMMA Counting ==
    ASSUME poster \in [Posters -> Claim], NEW b \in Posters, NEW c2 \in Claim,
           poster' = [poster EXCEPT ![b] = c2], NEW w \in Weeks
    PROVE  /\ Cardinality(OnTheirWay(w)) \in Nat
           /\ Cardinality(OnTheirWay(w)') \in Nat
           /\ Cardinality(OnTheirWay(w)') + OnIt(poster[b], w)
                 = Cardinality(OnTheirWay(w)) + OnIt(c2, w)
<1> DEFINE before == OnTheirWay(w)
<1>1. /\ IsFiniteSet(before) /\ IsFiniteSet(before')
      /\ \A a \in Posters : a \in before <=> At(a, "advance") /\ poster[a].week = w
  BY WeekAssumption, FS_Subset DEF OnTheirWay
<1>2. \A a \in Posters \ {b} : a \in before' <=> a \in before
  BY DEF OnTheirWay, At
<1>3. /\ OnIt(c2, w) = IF b \in before' THEN 1 ELSE 0
      /\ OnIt(poster[b], w) = IF b \in before THEN 1 ELSE 0
  BY DEF OnTheirWay, At, OnIt
<1>4. before \subseteq Posters /\ before' \subseteq Posters
  BY DEF OnTheirWay
<1>5. Cardinality(before) \in Nat /\ Cardinality(before') \in Nat
  BY <1>1, FS_CardinalityType
<1> HIDE DEF before
<1>6. CASE b \in before <=> b \in before'
  <2>1. before' = before
    BY <1>2, <1>4, <1>6
  <2>2. QED
    BY <1>3, <1>5, <1>6, <2>1 DEF before
<1>7. CASE b \in before /\ b \notin before'
  <2>1. before' = before \ {b}
    BY <1>2, <1>4, <1>7
  <2>2. Cardinality(before') = Cardinality(before) - 1
    BY <1>1, <1>7, <2>1, FS_RemoveElement
  <2>3. QED
    BY <1>3, <1>5, <1>7, <2>2 DEF before
<1>8. CASE b \notin before /\ b \in before'
  <2>1. before' = before \cup {b}
    BY <1>2, <1>4, <1>8
  <2>2. Cardinality(before') = Cardinality(before) + 1
    BY <1>1, <1>8, <2>1, FS_AddElement
  <2>3. QED
    BY <1>3, <1>5, <1>8, <2>2 DEF before
<1>9. QED
  BY <1>6, <1>7, <1>8

LEMMA CountedAnew ==
    ASSUME WeekInv, NEW b \in Posters, NEW c2 \in Claim,
           poster' = [poster EXCEPT ![b] = c2], NEW w \in Weeks,
           post'[w].next \in Nat, sends'[w] \in Nat, lost'[w] \in Nat,
           sends'[w] + post[w].next + lost[w] + OnIt(poster[b], w)
              = sends[w] + post'[w].next + lost'[w] + OnIt(c2, w)
    PROVE  Counted(w)'
<1>1. /\ poster \in [Posters -> Claim] /\ post[w] \in Row /\ Counted(w)
      /\ sends[w] \in Nat /\ lost[w] \in Nat
  BY InvFacts
<1>2. /\ post[w].next \in Nat
      /\ OnIt(c2, w) \in Nat /\ OnIt(poster[b], w) \in Nat
  BY <1>1, OnItIsNat DEF Row
<1>3. /\ Cardinality(OnTheirWay(w)) \in Nat
      /\ Cardinality(OnTheirWay(w)') \in Nat
      /\ Cardinality(OnTheirWay(w)') + OnIt(poster[b], w)
            = Cardinality(OnTheirWay(w)) + OnIt(c2, w)
  BY <1>1, Counting
<1>4. sends[w] = post[w].next + lost[w] + Cardinality(OnTheirWay(w))
  BY <1>1 DEF Counted
<1>5. sends'[w] = post'[w].next + lost'[w] + Cardinality(OnTheirWay(w)')
  BY <1>1, <1>2, <1>3, <1>4
<1>6. QED
  BY <1>5 DEF Counted

\* Rows only ever move on, and only the holder of a lease moves its row; what
\* Discord has, it keeps.
Grows(a) ==
    \A w \in Weeks :
        /\ post[w] # Absent => /\ post'[w] # Absent
                               /\ post'[w].report = post[w].report
                               /\ post[w].next <= post'[w].next
        /\ post'[w].lease = a =>
              post[w].lease = a /\ post'[w].next = post[w].next
        /\ shown[w] \subseteq shown'[w]

LEMMA OthersStay ==
    ASSUME WeekInv, NEW a \in Posters, poster'[a] = poster[a], Grows(a),
           \A w \in Weeks : post'[w] \in Row
    PROVE  PosterOK(a)'
<1>1. PosterOK(a) /\ \A w \in Weeks : post[w] \in Row
  BY InvFacts
<1>2. poster[a].pc \in Posting \cup {"insert", "take"} =>
         poster[a].week \in Weeks
  BY <1>1 DEF PosterOK, Posting
<1>3. CASE poster[a].pc \in Posting
  <2>1. /\ poster[a].week \in Weeks
        /\ post[poster[a].week] # Absent
        /\ poster[a].report = post[poster[a].week].report
        /\ poster[a].next \in Nat /\ poster[a].next < Pages[poster[a].report]
        /\ poster[a].next <= post[poster[a].week].next
        /\ Holds(a) => poster[a].next = post[poster[a].week].next
        /\ poster[a].pc = "advance" =>
             <<poster[a].report, poster[a].next>> \in shown[poster[a].week]
        /\ poster[a].pc \notin {"insert", "take"}
    BY <1>1, <1>2, <1>3 DEF PosterOK, Posting
  <2>2. post[poster[a].week].next \in Nat /\ post'[poster[a].week].next \in Nat
    BY <1>1, <2>1 DEF Row
  <2>3. QED
    BY <2>1, <2>2 DEF Grows, PosterOK, Holds
<1>4. CASE poster[a].pc \notin Posting
  BY <1>1, <1>2, <1>4 DEF Grows, PosterOK, Posting
<1>5. QED
  BY <1>3, <1>4

\* What is left to show of a step: the tables, and the posters that moved or
\* whose rows did.
LEMMA InvByParts ==
    ASSUME WeekInv,
           weeklyOn' \in BOOLEAN, week' \in Weeks, results' \in Reports,
           upsets' \in 0..MaxUnsure,
           poster' \in [Posters -> Claim], post' \in [Weeks -> Row],
           shown' \in [Weeks -> SUBSET (Reports \X PageNumbers)],
           sends' \in [Weeks -> Nat], lost' \in [Weeks -> Nat],
           \A w \in Weeks : RowOK(post'[w]) /\ ShownOK(w)' /\ Counted(w)',
           \A a \in Posters : PosterOK(a)' \/ (poster'[a] = poster[a] /\ Grows(a))
    PROVE  WeekInv'
<1>2. WeekTypeOK'
  BY DEF WeekTypeOK
<1>3. \A a \in Posters : PosterOK(a)'
  BY OthersStay
<1>4. QED
  BY <1>2, <1>3 DEF WeekInv

\* A step of one poster that touches no table.
LEMMA TablesStay ==
    ASSUME WeekInv, UNCHANGED <<post, shown, sends, lost>>,
           weeklyOn' \in BOOLEAN, week' \in Weeks, results' \in Reports,
           upsets' \in 0..MaxUnsure,
           NEW b \in Posters, NEW c2 \in Claim,
           poster' = [poster EXCEPT ![b] = c2],
           c2.pc # "advance", ~At(b, "advance"),
           PosterOK(b)'
    PROVE  WeekInv'
<1>1. \A a \in Posters : Grows(a)
  BY InvFacts DEF Grows, Row
<1>2. ASSUME NEW w \in Weeks PROVE Counted(w)'
  <2>1. /\ post[w].next \in Nat /\ sends[w] \in Nat /\ lost[w] \in Nat
    BY InvFacts DEF Row
  <2>2. OnIt(c2, w) = 0 /\ OnIt(poster[b], w) = 0
    BY DEF OnIt, At
  <2>3. QED
    BY <2>1, <2>2, CountedAnew
<1>3. \A w \in Weeks : RowOK(post'[w]) /\ ShownOK(w)'
  BY InvFacts DEF ShownOK
<1>4. /\ post' \in [Weeks -> Row] /\ poster' \in [Posters -> Claim]
      /\ shown' \in [Weeks -> SUBSET (Reports \X PageNumbers)]
      /\ sends' \in [Weeks -> Nat] /\ lost' \in [Weeks -> Nat]
      /\ \A a \in Posters \ {b} : poster'[a] = poster[a]
  BY InvFacts
<1>5. QED
  BY <1>1, <1>2, <1>3, <1>4, InvByParts

\* Steps that write only leases and their lapses.
LEMMA LeasesMove ==
    ASSUME WeekInv, post' \in [Weeks -> Row], shown' = shown,
           \A w \in Weeks :
              /\ post'[w] = Absent <=> post[w] = Absent
              /\ post'[w].report = post[w].report /\ post'[w].next = post[w].next
              /\ post'[w].sent = post[w].sent
    PROVE  /\ \A w \in Weeks : RowOK(post'[w]) /\ ShownOK(w)'
           /\ \A a \in Posters :
                 (\A w \in Weeks : post'[w].lease = a => post[w].lease = a) => Grows(a)
<1>1. \A w \in Weeks : post[w] \in Row /\ RowOK(post[w]) /\ ShownOK(w)
  BY InvFacts
<1>2. \A w \in Weeks : RowOK(post'[w])
  BY <1>1 DEF RowOK
<1>3. \A w \in Weeks : ShownOK(w)'
  BY <1>1 DEF ShownOK
<1>4. \A w \in Weeks : post[w].next \in Nat
  BY <1>1 DEF Row
<1>5. QED
  BY <1>2, <1>3, <1>4 DEF Grows

LEMMA UpsetCounts == ASSUME WeekTypeOK, Upset PROVE upsets' \in 0..MaxUnsure
  BY WeekAssumption DEF WeekTypeOK, Upset

\* The pages a poster may have before it: those of the row it took.
LEMMA PageExists ==
    ASSUME NEW r \in Reports, NEW n \in Nat, n < Pages[r]
    PROVE  n \in PageNumbers /\ n + 1 \in 0..Pages[r]
<1>1. Pages[r] \in Nat
  BY WeekAssumption
<1>2. n \in 0..(Pages[r] - 1)
  BY <1>1
<1>3. QED
  BY <1>1, <1>2 DEF PageNumbers

-----------------------------------------------------------------------------
(***************************************************************************)
(* One lemma per action.                                                   *)
(***************************************************************************)
LEMMA QuietInv ==
    ASSUME WeekInv, NEW b \in Posters,
           \/ Look(b) \/ Build(b) \/ Open(b) \/ PosterStarts(b)
           \/ ClaimFails(b) \/ Refused(b)
    PROVE  WeekInv'
<1>0. /\ WeekTypeOK /\ poster \in [Posters -> Claim]
      /\ poster[b] \in Claim /\ PosterOK(b)
      /\ post' = post /\ shown' = shown /\ sends' = sends /\ lost' = lost
      /\ weeklyOn' \in BOOLEAN /\ week' \in Weeks /\ results' \in Reports
      /\ upsets' \in 0..MaxUnsure
  BY InvFacts, UpsetCounts
    DEF Look, Build, Open, PosterStarts, ClaimFails, Refused, WeekTypeOK
<1>1. CASE Look(b)
  <2> DEFINE c2 == [poster[b] EXCEPT !.week = week,
                      !.pc = IF post[week] = Absent THEN "build" ELSE "take"]
  <2>1. poster' = [poster EXCEPT ![b] = c2]
    BY <1>1 DEF Look
  <2>2. /\ c2 \in Claim /\ c2.week = week
        /\ c2.pc = IF post[week] = Absent THEN "build" ELSE "take"
    BY <1>0 DEF Claim, PosterPC, WeekTypeOK
  <2> HIDE DEF c2
  <2>3. PosterOK(b)'
    BY <1>0, <2>1, <2>2 DEF PosterOK, Posting, WeekTypeOK
  <2>4. ~At(b, "advance")
    BY <1>1 DEF Look, At
  <2>5. QED
    BY <1>0, <2>1, <2>2, <2>3, <2>4, TablesStay
<1>2. CASE Build(b)
  <2> DEFINE c2 == [poster[b] EXCEPT !.report = results, !.pc = "insert"]
  <2>1. poster' = [poster EXCEPT ![b] = c2]
    BY <1>2 DEF Build
  <2>2. /\ c2 \in Claim /\ c2.week = poster[b].week
        /\ c2.pc = "insert" /\ c2.report = results
    BY <1>0 DEF Claim, PosterPC, WeekTypeOK
  <2> HIDE DEF c2
  <2>3. PosterOK(b)' /\ ~At(b, "advance")
    BY <1>0, <1>2, <2>1, <2>2 DEF Build, At, PosterOK, Posting, WeekTypeOK
  <2>4. QED
    BY <1>0, <2>1, <2>2, <2>3, TablesStay
<1>3. CASE Open(b) \/ Refused(b)
  <2> DEFINE pc2 == IF Open(b) THEN "send" ELSE "release"
             c2 == [poster[b] EXCEPT !.pc = pc2]
  <2>1. poster' = [poster EXCEPT ![b] = c2]
    BY <1>3 DEF Open, Refused, Go
  <2>2. /\ c2 \in Claim /\ c2.week = poster[b].week /\ c2.next = poster[b].next
        /\ c2.report = poster[b].report /\ c2.pc = pc2
    BY <1>0 DEF Claim, PosterPC
  <2>3. pc2 \in {"send", "release"} /\ poster[b].pc \in {"open", "send"}
    BY <1>3 DEF Open, Refused, At
  <2> HIDE DEF c2, pc2
  <2>4. PosterOK(b)' /\ ~At(b, "advance")
    BY <1>0, <2>1, <2>2, <2>3 DEF At, PosterOK, Posting, Holds
  <2>5. QED
    BY <1>0, <2>1, <2>2, <2>3, <2>4, TablesStay
<1>4. CASE PosterStarts(b) \/ ClaimFails(b)
  <2>1. poster' = [poster EXCEPT ![b] = Asleep] /\ ~At(b, "advance")
    BY <1>4 DEF PosterStarts, ClaimFails, At
  <2>2. Asleep \in Claim /\ Asleep.pc = "idle"
    BY DEF Asleep, Claim, PosterPC
  <2>3. PosterOK(b)'
    BY <1>0, <2>1, <2>2 DEF PosterOK, Posting
  <2>4. QED
    BY <1>0, <2>1, <2>2, <2>3, TablesStay
<1>5. QED
  BY <1>1, <1>2, <1>3, <1>4

LEMMA WorldInv ==
    ASSUME WeekInv, NextWeek \/ ResultsImported PROVE WeekInv'
<1>1. /\ post' = post /\ poster' = poster /\ shown' = shown /\ sends' = sends
      /\ lost' = lost /\ upsets' = upsets
      /\ weeklyOn' = weeklyOn /\ week' \in Weeks /\ results' \in Reports
  BY InvFacts DEF NextWeek, ResultsImported, WeekTypeOK
<1>2. WeekTypeOK'
  BY <1>1, InvFacts DEF WeekTypeOK
<1>3. \A w \in Weeks : RowOK(post'[w]) /\ ShownOK(w)' /\ Counted(w)'
  BY <1>1, InvFacts DEF ShownOK, Counted, OnTheirWay, At
<1>4. \A b \in Posters : PosterOK(b)'
  BY <1>1, InvFacts DEF PosterOK, Holds
<1>5. QED
  BY <1>2, <1>3, <1>4 DEF WeekInv

LEMMA LapseInv ==
    ASSUME WeekInv, NEW v \in Weeks, Lapse(v) PROVE WeekInv'
<1> DEFINE row == [post[v] EXCEPT !.lapsed = TRUE]
<1>1. /\ WeekTypeOK /\ post[v] \in Row /\ post[v].lease # Free
      /\ poster' = poster /\ shown' = shown /\ sends' = sends /\ lost' = lost
      /\ weeklyOn' = weeklyOn /\ week' = week /\ results' = results
      /\ post' = [post EXCEPT ![v] = row]
  BY InvFacts DEF Lapse
<1>2. upsets' \in 0..MaxUnsure
  BY <1>1, UpsetCounts DEF Lapse, WeekTypeOK
<1>3. /\ row \in Row /\ row.report = post[v].report /\ row.next = post[v].next
      /\ row.sent = post[v].sent /\ row.lease = post[v].lease
  BY <1>1 DEF Row
<1> HIDE DEF row
<1>4. /\ post' \in [Weeks -> Row]
      /\ \A w \in Weeks :
            /\ post'[w].report = post[w].report /\ post'[w].next = post[w].next
            /\ post'[w].sent = post[w].sent /\ post'[w].lease = post[w].lease
            /\ post'[w] = Absent <=> post[w] = Absent
  <2>1. row # Absent /\ post[v] # Absent
    BY <1>1, <1>3 DEF Absent
  <2>2. QED
    BY <1>1, <1>3, <2>1 DEF WeekTypeOK
<1>5. /\ \A w \in Weeks : RowOK(post'[w]) /\ ShownOK(w)'
      /\ \A a \in Posters : Grows(a)
  BY <1>1, <1>4, LeasesMove
<1>6. \A w \in Weeks : Counted(w)'
  BY <1>1, <1>4, InvFacts DEF Counted, OnTheirWay, At
<1>7. QED
  BY <1>1, <1>2, <1>4, <1>5, <1>6, InvByParts, InvFacts DEF WeekTypeOK

LEMMA InsertInv ==
    ASSUME WeekInv, NEW b \in Posters, Insert(b) PROVE WeekInv'
<1>0. poster[b].week \in Weeks
  BY InvFacts DEF PosterOK, Insert, At
<1> PICK v \in Weeks : v = poster[b].week
  BY <1>0
<1> DEFINE row == Stored(post[v], poster[b].report)
           c2 == [poster[b] EXCEPT !.pc = "take"]
<1>1. /\ WeekTypeOK /\ PosterOK(b) /\ poster[b] \in Claim /\ poster[b].pc = "insert"
      /\ shown' = shown /\ sends' = sends /\ lost' = lost /\ upsets' = upsets
      /\ weeklyOn' = weeklyOn /\ week' = week /\ results' = results
      /\ post' = [post EXCEPT ![v] = row]
      /\ poster' = [poster EXCEPT ![b] = c2]
  BY InvFacts DEF Insert, Go, At
<1>2. /\ v \in Weeks /\ poster[b].report \in Reports
      /\ post[v] \in Row /\ RowOK(post[v]) /\ ShownOK(v)
  BY <1>1, InvFacts DEF PosterOK
<1>3. c2 \in Claim /\ c2.week = v /\ c2.pc = "take"
  BY <1>1 DEF Claim, PosterPC
<1>4. /\ row \in Row /\ row # Absent /\ RowOK(row) /\ row.next = post[v].next
      /\ row.lease = post[v].lease
      /\ post[v] # Absent => row = post[v]
  <2>1. CASE post[v] # Absent
    BY <1>2, <2>1 DEF Stored
  <2>2. CASE post[v] = Absent
    <3>1. row = [report |-> poster[b].report, next |-> 0, lease |-> Free,
                 lapsed |-> FALSE, sent |-> FALSE]
      BY <2>2 DEF Stored, Absent
    <3>2. poster[b].report # "none" /\ Pages[poster[b].report] \in Nat \ {0}
      BY <1>2, WeekAssumption
    <3>3. row \in Row /\ row # Absent
      BY <1>2, <3>1, <3>2 DEF Row, Absent
    <3>4. RowOK(row) /\ row.next = 0 /\ row.lease = Free
      BY <1>2, <3>1, <3>2 DEF RowOK
    <3>5. QED
      BY <2>2, <3>3, <3>4 DEF Absent
  <2>3. QED
    BY <2>1, <2>2
<1> HIDE DEF row, c2
<1>5. /\ post' \in [Weeks -> Row] /\ post'[v] = row
      /\ \A w \in Weeks \ {v} : post'[w] = post[w]
  BY <1>1, <1>2, <1>4 DEF WeekTypeOK
<1>6. \A w \in Weeks : RowOK(post'[w])
  BY <1>4, <1>5, InvFacts
<1>7. \A w \in Weeks : ShownOK(w)'
  <2>1. ShownOK(v)'
    <3>1. CASE post[v] # Absent
      BY <1>1, <1>2, <1>4, <1>5, <3>1 DEF ShownOK
    <3>2. CASE post[v] = Absent
      <4>1. shown[v] = {} /\ post'[v].next = 0
        BY <1>2, <1>4, <1>5, <3>2 DEF ShownOK, Absent
      <4>2. \A p \in PageNumbers : p \in Nat
        BY WeekAssumption DEF PageNumbers
      <4>3. QED
        BY <1>1, <4>1, <4>2 DEF ShownOK
    <3>3. QED
      BY <3>1, <3>2
  <2>2. QED
    BY <1>1, <1>5, <2>1, InvFacts DEF ShownOK
<1>8. \A w \in Weeks : Counted(w)'
  <2> TAKE w \in Weeks
  <2>1. /\ post'[w].next = post[w].next /\ post[w].next \in Nat
        /\ sends[w] \in Nat /\ lost[w] \in Nat
    BY <1>4, <1>5, InvFacts DEF Row
  <2>2. OnIt(c2, w) = 0 /\ OnIt(poster[b], w) = 0
    BY <1>1, <1>3 DEF OnIt
  <2>3. QED
    BY <1>1, <1>3, <2>1, <2>2, CountedAnew
<1>9. \A a \in Posters : Grows(a)
  <2>1. \A w \in Weeks : post[w].next \in Nat
    BY InvFacts DEF Row
  <2>2. QED
    BY <1>1, <1>4, <1>5, <2>1 DEF Grows
<1>10. PosterOK(b)' /\ \A a \in Posters \ {b} : poster'[a] = poster[a]
  BY <1>1, <1>2, <1>3, <1>4, <1>5, InvFacts DEF PosterOK, Posting
<1>11. poster' \in [Posters -> Claim]
  BY <1>1, <1>3, InvFacts
<1>12. QED
  BY <1>1, <1>5, <1>6, <1>7, <1>8, <1>9, <1>10, <1>11, InvByParts
    DEF WeekTypeOK

LEMMA TakeInv ==
    ASSUME WeekInv, NEW b \in Posters, Take(b) PROVE WeekInv'
<1>0. poster[b].week \in Weeks
  BY InvFacts DEF PosterOK, Take, At
<1> PICK v \in Weeks : v = poster[b].week
  BY <1>0
<1>1. /\ WeekTypeOK /\ PosterOK(b) /\ poster[b].pc = "take" /\ ~At(b, "advance")
      /\ shown' = shown /\ sends' = sends /\ lost' = lost /\ upsets' = upsets
      /\ weeklyOn' = weeklyOn /\ week' = week /\ results' = results
  BY InvFacts DEF Take, At
<1>2. /\ post[v] \in Row /\ RowOK(post[v]) /\ ShownOK(v) /\ post[v] # Absent
  BY <1>1, InvFacts DEF PosterOK
<1>3. /\ post[v].report \in Reports /\ post[v].next \in Nat
      /\ Pages[post[v].report] \in Nat
      /\ ~post[v].sent => post[v].next < Pages[post[v].report]
  BY <1>2, WeekAssumption DEF RowOK, Row
<1>4. CASE ~Takeable(post[v])
  <2>1. post' = post /\ poster' = [poster EXCEPT ![b] = Asleep]
    BY <1>4 DEF Take
  <2>2. Asleep \in Claim /\ Asleep.pc = "idle"
    BY DEF Asleep, Claim, PosterPC
  <2>3. PosterOK(b)'
    BY <1>1, <2>1, <2>2, InvFacts DEF PosterOK, Posting
  <2>4. QED
    BY <1>1, <2>1, <2>2, <2>3, TablesStay DEF WeekTypeOK
<1>5. CASE Takeable(post[v])
  <2> DEFINE row == [post[v] EXCEPT !.lease = b, !.lapsed = FALSE]
             c2 == [pc |-> "open", week |-> v,
                    report |-> post[v].report, next |-> post[v].next]
  <2>1. post' = [post EXCEPT ![v] = row] /\ poster' = [poster EXCEPT ![b] = c2]
    BY <1>5 DEF Take
  <2>2. /\ c2 \in Claim /\ c2.pc = "open" /\ c2.week = v
        /\ c2.report = post[v].report /\ c2.next = post[v].next
    BY <1>3 DEF Claim, PosterPC
  <2>3. /\ row \in Row /\ row.report = post[v].report /\ row.next = post[v].next
        /\ row.sent = post[v].sent /\ row.lease = b /\ ~post[v].sent
    BY <1>2, <1>5 DEF Row, Takeable
  <2>4. row # Absent
    BY <1>3, <2>3, WeekAssumption DEF Absent
  <2> HIDE DEF row, c2
  <2>5. /\ post' \in [Weeks -> Row] /\ post'[v] = row
        /\ \A w \in Weeks \ {v} : post'[w] = post[w]
        /\ poster' \in [Posters -> Claim] /\ poster'[b] = c2
        /\ \A a \in Posters \ {b} : poster'[a] = poster[a]
    BY <2>1, <2>2, <2>3, InvFacts
  <2>6. /\ \A w \in Weeks : RowOK(post'[w]) /\ ShownOK(w)'
        /\ \A a \in Posters \ {b} : Grows(a)
    BY <1>1, <1>2, <2>3, <2>4, <2>5, LeasesMove
  <2>7. ASSUME NEW w \in Weeks PROVE Counted(w)'
    <3>1. /\ post'[w].next = post[w].next /\ post[w].next \in Nat
          /\ sends[w] \in Nat /\ lost[w] \in Nat
      BY <2>3, <2>5, InvFacts DEF Row
    <3>2. OnIt(c2, w) = 0 /\ OnIt(poster[b], w) = 0
      BY <1>1, <2>2 DEF OnIt
    <3>3. QED
      BY <1>1, <2>1, <2>2, <3>1, <3>2, CountedAnew
  <2>8. PosterOK(b)'
    BY <1>3, <2>2, <2>3, <2>4, <2>5 DEF PosterOK, Posting, Holds
  <2>9. QED
    BY <1>1, <2>5, <2>6, <2>7, <2>8, InvByParts DEF WeekTypeOK
<1>6. QED
  BY <1>4, <1>5

\* What a poster at its pages knows.
LEMMA AtItsPages ==
    ASSUME WeekInv, NEW b \in Posters, poster[b].pc \in Posting,
           NEW v, v = poster[b].week
    PROVE  /\ v \in Weeks /\ post[v] \in Row /\ post[v] # Absent
           /\ RowOK(post[v]) /\ ShownOK(v)
           /\ post[v].report \in Reports /\ poster[b].report = post[v].report
           /\ post[v].next \in Nat
           /\ poster[b].next \in Nat /\ poster[b].next <= post[v].next
           /\ poster[b].next < Pages[post[v].report]
           /\ Pages[post[v].report] \in Nat
           /\ poster[b].next \in PageNumbers
           /\ post[v].lease = b => poster[b].next = post[v].next
           /\ poster[b].pc = "advance" =>
                 <<poster[b].report, poster[b].next>> \in shown[v]
<1>1. PosterOK(b)
  BY InvFacts
<1>2. v \in Weeks
  BY <1>1 DEF PosterOK, Posting
<1>3. post[v] \in Row /\ RowOK(post[v]) /\ ShownOK(v) /\ post[v] # Absent
  BY <1>1, <1>2, InvFacts DEF PosterOK
<1>4. /\ post[v].report \in Reports /\ post[v].next \in Nat
      /\ Pages[post[v].report] \in Nat
  BY <1>3, WeekAssumption DEF RowOK, Row
<1>5. QED
  BY <1>1, <1>2, <1>3, <1>4, PageExists DEF PosterOK, Holds

\* Discord has accepted the page.
LEMMA AcceptedPage ==
    ASSUME WeekInv, NEW b \in Posters, At(b, "send"), Accepted(b), post' = post,
           NEW v, v = poster[b].week
    PROVE  /\ \A w \in Weeks : RowOK(post'[w]) /\ ShownOK(w)'
           /\ \A a \in Posters : Grows(a)
           /\ shown' \in [Weeks -> SUBSET (Reports \X PageNumbers)]
           /\ sends' \in [Weeks -> Nat]
           /\ sends'[v] = sends[v] + 1
           /\ \A w \in Weeks \ {v} : sends'[w] = sends[w]
           /\ <<poster[b].report, poster[b].next>> \in shown'[v]
<1> DEFINE page == <<poster[b].report, poster[b].next>>
<1>1. /\ v \in Weeks /\ post[v] # Absent /\ ShownOK(v)
      /\ page \in Reports \X PageNumbers
      /\ page[1] = post[v].report /\ page[2] <= post[v].next
  BY AtItsPages DEF At, Posting
<1> HIDE DEF page
<1>2. /\ shown'[v] = shown[v] \cup {page}
      /\ \A w \in Weeks \ {v} : shown'[w] = shown[w]
      /\ shown' \in [Weeks -> SUBSET (Reports \X PageNumbers)]
  <2>1. shown \in [Weeks -> SUBSET (Reports \X PageNumbers)]
    BY InvFacts
  <2>2. shown' = [shown EXCEPT ![v] = @ \cup {page}]
    BY DEF Accepted, page
  <2>3. QED
    BY <1>1, <2>1, <2>2
<1>3. ASSUME NEW w \in Weeks PROVE ShownOK(w)'
  BY <1>1, <1>2, InvFacts DEF ShownOK
<1>4. \A a \in Posters : Grows(a)
  BY <1>2, InvFacts DEF Grows, Row
<1>5. sends \in [Weeks -> Nat] /\ sends' = [sends EXCEPT ![v] = @ + 1]
  BY InvFacts DEF Accepted
<1>6. QED
  BY <1>1, <1>2, <1>3, <1>4, <1>5, InvFacts DEF page

\* A page that Discord has accepted goes on its way, or is lost with its answer.
LEMMA SendInv ==
    ASSUME WeekInv, NEW b \in Posters, SendPage(b) \/ TimesOut(b) PROVE WeekInv'
<1>0. poster[b].pc = "send"
  BY DEF SendPage, TimesOut, At
<1> PICK v \in Weeks : v = poster[b].week
  BY <1>0, AtItsPages DEF Posting
<1> DEFINE pc2 == IF SendPage(b) THEN "advance" ELSE "release"
           c2 == [poster[b] EXCEPT !.pc = pc2]
<1>1. /\ WeekTypeOK /\ poster[b] \in Claim /\ post' = post
      /\ weeklyOn' = weeklyOn /\ week' = week /\ results' = results
      /\ upsets' \in 0..MaxUnsure
      /\ Accepted(b) /\ At(b, "send")
      /\ poster' = [poster EXCEPT ![b] = c2]
      /\ pc2 = "advance" => lost' = lost
      /\ pc2 = "release" => lost' = [lost EXCEPT ![v] = @ + 1]
  BY InvFacts, UpsetCounts DEF SendPage, TimesOut, Go, Loses, WeekTypeOK
<1>2. /\ c2 \in Claim /\ c2.week = v /\ c2.pc = pc2
      /\ c2.report = poster[b].report /\ c2.next = poster[b].next
      /\ pc2 \in {"advance", "release"}
  BY <1>1 DEF Claim, PosterPC
<1> HIDE DEF c2, pc2
<1>3. /\ \A w \in Weeks : RowOK(post'[w]) /\ ShownOK(w)'
      /\ \A a \in Posters : Grows(a)
      /\ shown' \in [Weeks -> SUBSET (Reports \X PageNumbers)]
      /\ sends' \in [Weeks -> Nat] /\ sends'[v] = sends[v] + 1
      /\ \A w \in Weeks \ {v} : sends'[w] = sends[w]
      /\ <<poster[b].report, poster[b].next>> \in shown'[v]
  BY <1>1, AcceptedPage
<1>4. /\ lost' \in [Weeks -> Nat]
      /\ lost'[v] + OnIt(c2, v) = lost[v] + 1
      /\ \A w \in Weeks \ {v} : lost'[w] = lost[w]
  BY <1>1, <1>2, InvFacts DEF OnIt
<1>5. ASSUME NEW w \in Weeks PROVE Counted(w)'
  <2>1. /\ post'[w].next = post[w].next /\ post[w].next \in Nat
        /\ sends[w] \in Nat /\ lost[w] \in Nat
        /\ sends'[w] \in Nat /\ lost'[w] \in Nat
    BY <1>1, <1>3, <1>4, InvFacts DEF Row
  <2>2. OnIt(poster[b], w) = 0 /\ OnIt(c2, w) \in {0, 1}
    BY <1>0, <1>2, OnItIsNat DEF OnIt
  <2>3. CASE w = v
    <3>1. sends'[w] = sends[w] + 1 /\ lost'[w] + OnIt(c2, w) = lost[w] + 1
      BY <1>3, <1>4, <2>3
    <3>2. sends'[w] + post[w].next + lost[w] + OnIt(poster[b], w)
             = sends[w] + post'[w].next + lost'[w] + OnIt(c2, w)
      BY <2>1, <2>2, <3>1
    <3>3. QED
      BY <1>1, <1>2, <2>1, <3>2, CountedAnew
  <2>4. CASE w # v
    <3>1. OnIt(c2, w) = 0 /\ sends'[w] = sends[w] /\ lost'[w] = lost[w]
      BY <1>2, <1>3, <1>4, <2>4 DEF OnIt
    <3>2. QED
      BY <1>1, <1>2, <2>1, <2>2, <3>1, CountedAnew
  <2>5. QED
    BY <2>3, <2>4
<1>6. /\ poster' \in [Posters -> Claim] /\ poster'[b] = c2
      /\ \A a \in Posters \ {b} : poster'[a] = poster[a]
      /\ post' \in [Weeks -> Row]
  BY <1>1, <1>2, InvFacts
<1>7. PosterOK(b)'
  <2>1. /\ post[v] # Absent /\ poster[b].report = post[v].report
        /\ poster[b].next \in Nat /\ poster[b].next < Pages[poster[b].report]
        /\ poster[b].next <= post[v].next
        /\ post[v].lease = b => poster[b].next = post[v].next
    BY <1>0, AtItsPages DEF Posting
  <2>2. QED
    BY <1>1, <1>2, <1>3, <1>6, <2>1 DEF PosterOK, Posting, Holds
<1>8. QED
  BY <1>1, <1>3, <1>4, <1>5, <1>6, <1>7, InvByParts DEF WeekTypeOK

\* The row moves past the page on its way: with the claim, or with a lease the
\* claim does not know.
LEMMA RowMovesOn ==
    ASSUME WeekInv, NEW b \in Posters, At(b, "advance"), Holds(b),
           NEW v, v = poster[b].week, NEW row \in Row,
           post' = [post EXCEPT ![v] = row], shown' = shown,
           row.report = post[v].report, row.next = poster[b].next + 1,
           row.sent <=> poster[b].next + 1 = Pages[poster[b].report],
           row.lease \in {b, Orphan}
    PROVE  /\ post' \in [Weeks -> Row] /\ post'[v] = row /\ row # Absent
           /\ post'[v].next = post[v].next + 1
           /\ \A w \in Weeks \ {v} : post'[w] = post[w]
           /\ \A w \in Weeks : RowOK(post'[w]) /\ ShownOK(w)'
           /\ \A a \in Posters \ {b} : Grows(a)
<1>1. /\ v \in Weeks /\ post[v] \in Row /\ post[v] # Absent
      /\ ShownOK(v)
      /\ post[v].report \in Reports /\ poster[b].report = post[v].report
      /\ post[v].next \in Nat /\ poster[b].next = post[v].next
      /\ post[v].next < Pages[post[v].report]
      /\ Pages[post[v].report] \in Nat
      /\ <<post[v].report, post[v].next>> \in shown[v]
  BY AtItsPages DEF At, Posting, Holds
<1>2. row # Absent
  BY <1>1, WeekAssumption DEF Absent
<1>3. /\ post' \in [Weeks -> Row] /\ post'[v] = row
      /\ \A w \in Weeks \ {v} : post'[w] = post[w]
  BY <1>1, InvFacts
<1>4. row.next \in 0..Pages[row.report] /\ row.next = post[v].next + 1
  BY <1>1
<1>5. \A w \in Weeks : RowOK(post'[w])
  <2>1. RowOK(row)
    BY <1>1, <1>4 DEF RowOK
  <2>2. QED
    BY <1>3, <2>1, InvFacts
<1>6. \A w \in Weeks : ShownOK(w)'
  <2>1. \A s \in shown[v] : s[2] <= row.next
    <3>1. shown[v] \subseteq Reports \X PageNumbers
      BY <1>1, InvFacts
    <3>2. \A p \in PageNumbers : p \in Nat
      BY WeekAssumption DEF PageNumbers
    <3>3. QED
      BY <1>1, <1>4, <3>1, <3>2 DEF ShownOK
  <2>2. \A p \in PageNumbers : p < row.next => <<row.report, p>> \in shown[v]
    <3>1. \A p \in PageNumbers : p \in Nat
      BY WeekAssumption DEF PageNumbers
    <3>2. \A p \in PageNumbers : p < row.next => p < post[v].next \/ p = post[v].next
      BY <1>1, <1>4, <3>1
    <3>3. QED
      BY <1>1, <3>2 DEF ShownOK
  <2>3. \A s \in shown[v] : s[1] = row.report
    BY <1>1 DEF ShownOK
  <2>4. ShownOK(v)'
    BY <1>2, <1>3, <2>1, <2>2, <2>3 DEF ShownOK
  <2>5. \A w \in Weeks \ {v} : ShownOK(w)'
    BY <1>3, InvFacts DEF ShownOK
  <2>6. QED
    BY <2>4, <2>5
<1>7. \A a \in Posters \ {b} : Grows(a)
  <2>1. \A w \in Weeks : post[w].next \in Nat
    BY InvFacts DEF Row
  <2>2. Orphan \notin Posters
    BY WeekAssumption
  <2>3. QED
    BY <1>1, <1>2, <1>3, <1>4, <2>1, <2>2 DEF Grows
<1>8. QED
  BY <1>2, <1>3, <1>4, <1>5, <1>6, <1>7

LEMMA AdvanceInv ==
    ASSUME WeekInv, NEW b \in Posters, Advance(b) PROVE WeekInv'
<1>0. poster[b].pc = "advance"
  BY DEF Advance, At
<1> PICK v \in Weeks : v = poster[b].week
  BY <1>0, AtItsPages DEF Posting
<1> DEFINE more == poster[b].next + 1 < Pages[poster[b].report]
           row == Advanced(post[v], b)
           c2 == [poster[b] EXCEPT !.next = @ + 1,
                                   !.pc = IF more THEN "send" ELSE "release"]
<1>1. /\ WeekTypeOK /\ poster[b] \in Claim /\ Holds(b) /\ At(b, "advance")
      /\ weeklyOn' = weeklyOn /\ week' = week /\ results' = results
      /\ shown' = shown /\ sends' = sends /\ lost' = lost /\ upsets' = upsets
      /\ post' = [post EXCEPT ![v] = row]
      /\ poster' = [poster EXCEPT ![b] = c2]
  BY InvFacts DEF Advance
<1>2. /\ post[v] \in Row /\ post[v].lease = b
      /\ poster[b].next \in Nat /\ poster[b].next = post[v].next
      /\ poster[b].report = post[v].report
  BY <1>1, AtItsPages DEF Holds, At, Posting
<1>3. /\ c2 \in Claim /\ c2.week = v /\ c2.next = poster[b].next + 1
      /\ c2.report = poster[b].report
      /\ c2.pc = IF more THEN "send" ELSE "release"
  <2>1. PICK n \in Nat : n = poster[b].next + 1
    BY <1>2
  <2>2. PICK pc2 \in PosterPC : pc2 = IF more THEN "send" ELSE "release"
    BY DEF PosterPC
  <2>3. c2 = [poster[b] EXCEPT !.next = n, !.pc = pc2]
    BY <2>1, <2>2
  <2> HIDE DEF more, c2
  <2>4. c2 \in Claim /\ c2.week = poster[b].week /\ c2.next = n
        /\ c2.report = poster[b].report /\ c2.pc = pc2
    BY <1>1, <2>3 DEF Claim
  <2>5. QED
    BY <2>1, <2>2, <2>4
<1>4. /\ row \in Row /\ row.report = post[v].report
      /\ row.next = poster[b].next + 1 /\ row.lease = b
      /\ row.sent <=> poster[b].next + 1 = Pages[poster[b].report]
  <2>1. PICK n \in Nat : n = poster[b].next + 1
    BY <1>2
  <2>2. PICK s \in BOOLEAN : s <=> n = Pages[poster[b].report]
    OBVIOUS
  <2>3. row = [post[v] EXCEPT !.next = n, !.lapsed = FALSE, !.sent = s]
    BY <2>1, <2>2 DEF Advanced
  <2> HIDE DEF row
  <2>4. row \in Row /\ row.report = post[v].report /\ row.next = n
        /\ row.sent = s /\ row.lease = post[v].lease
    BY <1>2, <2>3 DEF Row
  <2>5. QED
    BY <1>2, <2>1, <2>2, <2>4
<1> HIDE DEF row, c2
<1>5. /\ post' \in [Weeks -> Row] /\ post'[v] = row /\ row # Absent
      /\ post'[v].next = post[v].next + 1
      /\ \A w \in Weeks \ {v} : post'[w] = post[w]
      /\ \A w \in Weeks : RowOK(post'[w]) /\ ShownOK(w)'
      /\ \A a \in Posters \ {b} : Grows(a)
  BY <1>1, <1>4, RowMovesOn
<1>6. ASSUME NEW w \in Weeks PROVE Counted(w)'
  <2>1. /\ post[w].next \in Nat /\ sends[w] \in Nat /\ lost[w] \in Nat
        /\ post'[w].next \in Nat
    BY <1>5, InvFacts DEF Row
  <2>2. OnIt(c2, w) = 0 /\ OnIt(poster[b], w) = IF w = v THEN 1 ELSE 0
    BY <1>0, <1>3 DEF OnIt
  <2>3. post'[w].next = post[w].next + OnIt(poster[b], w)
    BY <1>5, <2>1, <2>2
  <2>4. sends'[w] + post[w].next + lost[w] + OnIt(poster[b], w)
           = sends[w] + post'[w].next + lost'[w] + OnIt(c2, w)
    BY <1>1, <2>1, <2>2, <2>3
  <2>5. QED
    BY <1>1, <1>3, <2>1, <2>4, CountedAnew
<1>7. /\ poster' \in [Posters -> Claim] /\ poster'[b] = c2
      /\ \A a \in Posters \ {b} : poster'[a] = poster[a]
  BY <1>1, <1>3, InvFacts
<1>8. PosterOK(b)'
  BY <1>2, <1>3, <1>4, <1>5, <1>7 DEF PosterOK, Posting, Holds
<1>9. QED
  BY <1>1, <1>5, <1>6, <1>7, <1>8, InvByParts, InvFacts DEF WeekTypeOK

\* The row does not move, or not for this claim: the page is lost, or the row
\* has a lease that the claim does not know.
LEMMA NotAdvancedInv ==
    ASSUME WeekInv, NEW b \in Posters, AdvanceRefused(b) \/ AdvanceFails(b)
    PROVE  WeekInv'
<1>0. poster[b].pc = "advance"
  BY DEF AdvanceRefused, AdvanceFails, At
<1> PICK v \in Weeks : v = poster[b].week
  BY <1>0, AtItsPages DEF Posting
<1> DEFINE c2 == [poster[b] EXCEPT !.pc = "release"]
           row == [Advanced(post[v], b) EXCEPT !.lease = Orphan]
<1>1. /\ WeekTypeOK /\ poster[b] \in Claim /\ At(b, "advance")
      /\ weeklyOn' = weeklyOn /\ week' = week /\ results' = results
      /\ shown' = shown /\ sends' = sends /\ upsets' \in 0..MaxUnsure
      /\ poster' = [poster EXCEPT ![b] = c2]
      /\ \/ lost' = [lost EXCEPT ![v] = @ + 1] /\ post' = post
         \/ Holds(b) /\ lost' = lost /\ post' = [post EXCEPT ![v] = row]
  BY InvFacts, UpsetCounts DEF AdvanceRefused, AdvanceFails, Go, Loses, WeekTypeOK
<1>2. c2 \in Claim /\ c2.week = v /\ c2.pc = "release"
  BY <1>1 DEF Claim, PosterPC
<1>3. /\ poster' \in [Posters -> Claim] /\ poster'[b] = c2
      /\ \A a \in Posters \ {b} : poster'[a] = poster[a]
  BY <1>1, <1>2, InvFacts
<1>4. /\ post[v] \in Row /\ poster[b].next \in Nat
      /\ Holds(b) => poster[b].next = post[v].next
      /\ poster[b].report = post[v].report
  BY <1>0, AtItsPages DEF Holds, Posting
<1>5. /\ row \in Row /\ row.report = post[v].report
      /\ row.next = poster[b].next + 1 /\ row.lease = Orphan
      /\ row.sent <=> poster[b].next + 1 = Pages[poster[b].report]
  <2>1. PICK n \in Nat : n = poster[b].next + 1
    BY <1>4
  <2>2. PICK s \in BOOLEAN : s <=> n = Pages[poster[b].report]
    OBVIOUS
  <2>3. row = [[post[v] EXCEPT !.next = n, !.lapsed = FALSE, !.sent = s]
                 EXCEPT !.lease = Orphan]
    BY <2>1, <2>2 DEF Advanced
  <2> HIDE DEF row
  <2>4. row \in Row /\ row.report = post[v].report /\ row.next = n
        /\ row.sent = s /\ row.lease = Orphan
    BY <1>4, <2>3 DEF Row
  <2>5. QED
    BY <1>4, <2>1, <2>2, <2>4
<1> HIDE DEF row, c2
<1>6. PosterOK(b)'
  BY <1>2, <1>3 DEF PosterOK, Posting
<1>7. \A w \in Weeks : /\ OnIt(c2, w) = 0
                       /\ OnIt(poster[b], w) = IF w = v THEN 1 ELSE 0
  BY <1>0, <1>2 DEF OnIt
<1>8. CASE lost' = [lost EXCEPT ![v] = @ + 1] /\ post' = post
  <2>1. /\ lost' \in [Weeks -> Nat] /\ post' \in [Weeks -> Row]
        /\ \A w \in Weeks : RowOK(post'[w]) /\ ShownOK(w)'
        /\ \A a \in Posters : Grows(a)
    BY <1>1, <1>8, InvFacts DEF ShownOK, Grows, Row
  <2>2. ASSUME NEW w \in Weeks PROVE Counted(w)'
    <3>1. /\ post[w].next \in Nat /\ sends[w] \in Nat /\ lost[w] \in Nat
          /\ lost'[w] \in Nat /\ lost'[w] = lost[w] + OnIt(poster[b], w)
      BY <1>7, <1>8, <2>1, InvFacts DEF Row
    <3>2. sends'[w] + post[w].next + lost[w] + OnIt(poster[b], w)
             = sends[w] + post'[w].next + lost'[w] + OnIt(c2, w)
      BY <1>1, <1>7, <1>8, <3>1
    <3>3. QED
      BY <1>1, <1>2, <1>8, <3>1, <3>2, CountedAnew
  <2>3. QED
    BY <1>1, <1>3, <1>6, <2>1, <2>2, InvByParts, InvFacts DEF WeekTypeOK
<1>9. CASE Holds(b) /\ lost' = lost /\ post' = [post EXCEPT ![v] = row]
  <2>1. /\ post' \in [Weeks -> Row] /\ post'[v].next = post[v].next + 1
        /\ \A w \in Weeks \ {v} : post'[w] = post[w]
        /\ \A w \in Weeks : RowOK(post'[w]) /\ ShownOK(w)'
        /\ \A a \in Posters \ {b} : Grows(a)
    BY <1>1, <1>5, <1>9, RowMovesOn
  <2>2. ASSUME NEW w \in Weeks PROVE Counted(w)'
    <3>1. /\ post[w].next \in Nat /\ sends[w] \in Nat /\ lost[w] \in Nat
          /\ post'[w].next \in Nat
          /\ post'[w].next = post[w].next + OnIt(poster[b], w)
      BY <1>7, <2>1, InvFacts DEF Row
    <3>2. sends'[w] + post[w].next + lost[w] + OnIt(poster[b], w)
             = sends[w] + post'[w].next + lost'[w] + OnIt(c2, w)
      BY <1>1, <1>7, <1>9, <3>1
    <3>3. QED
      BY <1>1, <1>2, <1>9, <3>1, <3>2, CountedAnew
  <2>3. QED
    BY <1>1, <1>3, <1>6, <1>9, <2>1, <2>2, InvByParts, InvFacts DEF WeekTypeOK
<1>10. QED
  BY <1>1, <1>8, <1>9

\* A claim ends: its lease is freed, or stays with nobody; a page on its way is
\* lost.
LEMMA ClaimEnds ==
    ASSUME WeekInv, NEW b \in Posters, NEW c2 \in Claim, c2.pc \in {"idle", "down"},
           poster' = [poster EXCEPT ![b] = c2],
           weeklyOn' = weeklyOn, week' = week, results' = results,
           upsets' \in 0..MaxUnsure, shown' = shown, sends' = sends,
           lost' = IF At(b, "advance") THEN [lost EXCEPT ![poster[b].week] = @ + 1]
                   ELSE lost,
           post' \in [Weeks -> Row],
           \A w \in Weeks :
              \/ post'[w] = post[w]
              \/ /\ post[w].lease = b /\ post'[w].lease \in {Free, Orphan}
                 /\ post'[w].report = post[w].report
                 /\ post'[w].next = post[w].next /\ post'[w].sent = post[w].sent
    PROVE  WeekInv'
<1>1. /\ WeekTypeOK /\ Free \notin Posters /\ Orphan \notin Posters
      /\ poster' \in [Posters -> Claim] /\ poster'[b] = c2
      /\ \A a \in Posters \ {b} : poster'[a] = poster[a]
  BY InvFacts, WeekAssumption
<1>2. \A w \in Weeks :
         /\ post'[w] = Absent <=> post[w] = Absent
         /\ post'[w].report = post[w].report /\ post'[w].next = post[w].next
         /\ post'[w].sent = post[w].sent
         /\ \A a \in Posters : post'[w].lease = a => post[w].lease = a
  <2> TAKE w \in Weeks
  <2>1. post[w].lease = b => post[w].report # "none"
    BY <1>1, InvFacts, WeekAssumption DEF RowOK, Absent
  <2>2. CASE post'[w] = post[w]
    BY <2>2
  <2>3. CASE post'[w] # post[w]
    <3>1. /\ post[w].lease = b /\ post'[w].lease \notin Posters
          /\ post'[w].report = post[w].report
          /\ post'[w].next = post[w].next /\ post'[w].sent = post[w].sent
      BY <1>1, <2>3
    <3>2. post'[w] # Absent /\ post[w] # Absent
      BY <2>1, <3>1 DEF Absent
    <3>3. QED
      BY <3>1, <3>2
  <2>4. QED
    BY <2>2, <2>3
<1>3. /\ \A w \in Weeks : RowOK(post'[w]) /\ ShownOK(w)'
      /\ \A a \in Posters : Grows(a)
  BY <1>2, LeasesMove
<1>4. At(b, "advance") => poster[b].week \in Weeks
  BY AtItsPages DEF At, Posting
<1>5. lost' \in [Weeks -> Nat]
      /\ \A w \in Weeks : lost'[w] = lost[w] + OnIt(poster[b], w)
  BY <1>4, InvFacts DEF OnIt, At
<1>6. ASSUME NEW w \in Weeks PROVE Counted(w)'
  <2>1. /\ post[w].next \in Nat /\ sends[w] \in Nat /\ lost[w] \in Nat
        /\ lost'[w] \in Nat /\ lost'[w] = lost[w] + OnIt(poster[b], w)
        /\ post'[w].next = post[w].next
    BY <1>2, <1>5, InvFacts DEF Row
  <2>2. OnIt(c2, w) = 0 /\ OnIt(poster[b], w) \in Nat
    BY OnItIsNat, InvFacts DEF OnIt
  <2>3. sends'[w] + post[w].next + lost[w] + OnIt(poster[b], w)
           = sends[w] + post'[w].next + lost'[w] + OnIt(c2, w)
    BY <2>1, <2>2
  <2>4. sends'[w] \in Nat /\ post'[w].next \in Nat
    BY <2>1
  <2>5. QED
    BY <2>1, <2>3, <2>4, CountedAnew
<1>7. PosterOK(b)'
  BY <1>1 DEF PosterOK, Posting
<1>8. QED
  BY <1>1, <1>3, <1>5, <1>6, <1>7, InvByParts, InvFacts DEF WeekTypeOK

LEMMA EndInv ==
    ASSUME WeekInv, NEW b \in Posters,
           Release(b) \/ ReleaseFails(b) \/ PosterCrashes(b)
    PROVE  WeekInv'
<1> DEFINE c2 == IF PosterCrashes(b) THEN [Asleep EXCEPT !.pc = "down"] ELSE Asleep
<1>1. /\ WeekTypeOK /\ PosterOK(b)
      /\ weeklyOn' = weeklyOn /\ week' = week /\ results' = results
      /\ shown' = shown /\ sends' = sends
  BY InvFacts DEF Release, ReleaseFails, PosterCrashes
<1>2. upsets' \in 0..MaxUnsure
  BY <1>1, UpsetCounts DEF Release, ReleaseFails, PosterCrashes, WeekTypeOK
<1>3. /\ lost' = IF At(b, "advance") THEN [lost EXCEPT ![poster[b].week] = @ + 1]
                 ELSE lost
      /\ PosterCrashes(b) <=> ~At(b, "release") \/ c2.pc = "down"
      /\ poster' = [poster EXCEPT ![b] = c2]
      /\ c2 \in Claim /\ c2.pc \in {"idle", "down"}
  BY DEF Release, ReleaseFails, PosterCrashes, At, Loses, Asleep, Claim, PosterPC
<1>4. post' = Orphaned(b) \/ Release(b)
  BY DEF ReleaseFails, PosterCrashes
<1> HIDE DEF c2
<1>5. CASE post' = Orphaned(b)
  <2>1. /\ post' \in [Weeks -> Row]
        /\ \A w \in Weeks :
              \/ post'[w] = post[w]
              \/ /\ post[w].lease = b /\ post'[w].lease \in {Free, Orphan}
                 /\ post'[w].report = post[w].report
                 /\ post'[w].next = post[w].next /\ post'[w].sent = post[w].sent
    <3>1. \A w \in Weeks :
             /\ post[w] \in Row /\ [post[w] EXCEPT !.lease = Orphan] \in Row
             /\ post'[w] = IF post[w].lease = b
                           THEN [post[w] EXCEPT !.lease = Orphan] ELSE post[w]
      BY <1>5, InvFacts DEF Orphaned, Row
    <3>2. post' \in [Weeks -> Row]
      BY <1>5, <3>1 DEF Orphaned
    <3>3. QED
      BY <3>1, <3>2 DEF Row
  <2>2. QED
    BY <1>1, <1>2, <1>3, <2>1, ClaimEnds
<1>6. CASE Release(b)
  <2>1. poster[b].week \in Weeks
    BY <1>1, <1>6 DEF Release, At, PosterOK
  <2>2. PICK v \in Weeks : v = poster[b].week
    BY <2>1
  <2> DEFINE row == [post[v] EXCEPT !.lease = Free, !.lapsed = FALSE]
  <2>3. post' = IF post[v].lease = b THEN [post EXCEPT ![v] = row] ELSE post
    BY <1>6, <2>2 DEF Release, Holds
  <2>4. /\ row \in Row /\ row.lease = Free /\ row.report = post[v].report
        /\ row.next = post[v].next /\ row.sent = post[v].sent
    BY InvFacts DEF Row
  <2> HIDE DEF row
  <2>5. /\ post' \in [Weeks -> Row]
        /\ \A w \in Weeks :
              \/ post'[w] = post[w]
              \/ /\ post[w].lease = b /\ post'[w].lease \in {Free, Orphan}
                 /\ post'[w].report = post[w].report
                 /\ post'[w].next = post[w].next /\ post'[w].sent = post[w].sent
    BY <2>3, <2>4, InvFacts
  <2>6. QED
    BY <1>1, <1>2, <1>3, <2>5, ClaimEnds
<1>7. QED
  BY <1>4, <1>5, <1>6

-----------------------------------------------------------------------------
LEMMA InitInv == WeekInit => WeekInv
<1> SUFFICES ASSUME WeekInit PROVE WeekInv
  OBVIOUS
<1>1. /\ Absent \in Row /\ Asleep \in Claim /\ Asleep.pc = "idle"
      /\ Absent.next = 0
  BY DEF Absent, Row, Asleep, Claim, PosterPC
<1>2. WeekTypeOK
  BY <1>1, WeekAssumption DEF WeekInit, WeekTypeOK
<1>3. \A w \in Weeks : OnTheirWay(w) = {}
  BY <1>1 DEF WeekInit, OnTheirWay, At
<1>4. \A p \in PageNumbers : p \in Nat
  BY WeekAssumption DEF PageNumbers
<1>5. \A w \in Weeks : RowOK(post[w]) /\ ShownOK(w) /\ Counted(w)
  BY <1>1, <1>3, <1>4, FS_EmptySet DEF WeekInit, RowOK, ShownOK, Counted
<1>6. \A b \in Posters : PosterOK(b)
  BY <1>1 DEF WeekInit, PosterOK, Posting
<1>7. QED
  BY <1>2, <1>5, <1>6 DEF WeekInv

LEMMA NextInv == WeekInv /\ [WeekNext]_postVars => WeekInv'
<1> SUFFICES ASSUME WeekInv, [WeekNext]_postVars PROVE WeekInv'
  OBVIOUS
<1>1. CASE WeekNext
  BY <1>1, WorldInv, LapseInv, QuietInv, InsertInv, TakeInv, SendInv, AdvanceInv,
     NotAdvancedInv, EndInv DEF WeekNext, Posts
<1>2. CASE UNCHANGED postVars
  <2>1. WeekTypeOK' /\ \A b \in Posters : PosterOK(b)'
    BY <1>2, InvFacts DEF postVars, WeekTypeOK, PosterOK, Holds
  <2>2. \A w \in Weeks : RowOK(post'[w]) /\ ShownOK(w)' /\ Counted(w)'
    BY <1>2, InvFacts DEF postVars, ShownOK, Counted, OnTheirWay, At
  <2>3. QED
    BY <2>1, <2>2 DEF WeekInv
<1>3. QED
  BY <1>1, <1>2

\* The inductive invariant of the weekly posts.
THEOREM WeekInvariance == WeekSpec => []WeekInv
  BY InitInv, NextInv, PTL DEF WeekSpec

\* However many bots post a week, whatever is imported meanwhile, and whichever
\* of them crash, time out or lose their lease: Discord has the pages of one
\* report, the one the row was first inserted with.
THEOREM OneReport == WeekSpec => []OneReportPerWeek
<1>1. WeekInv => OneReportPerWeek
  BY InvFacts DEF OneReportPerWeek, ShownOK
<1>2. QED
  BY <1>1, WeekInvariance, PTL

\* No page is skipped, none is sent ahead of the progress, and each one that
\* Discord has accepted is recorded, lost, or on its way.
THEOREM PagesAccountedFor == WeekSpec => []PagesAreAccountedFor
<1>1. WeekInv => PagesAreAccountedFor
  <2> SUFFICES ASSUME WeekInv, NEW w \in Weeks
               PROVE  /\ \A p \in PageNumbers :
                            p < post[w].next => <<post[w].report, p>> \in shown[w]
                      /\ \A s \in shown[w] : s[2] <= post[w].next
                      /\ sends[w] = post[w].next + lost[w] + Cardinality(OnTheirWay(w))
                      /\ post[w].sent <=>
                            post[w] # Absent /\ post[w].next = Pages[post[w].report]
    BY DEF PagesAreAccountedFor
  <2>1. RowOK(post[w]) /\ ShownOK(w) /\ Counted(w)
    BY InvFacts
  <2>2. post[w].sent <=> post[w] # Absent /\ post[w].next = Pages[post[w].report]
    <3>1. CASE post[w] = Absent
      BY <3>1 DEF Absent
    <3>2. CASE post[w] # Absent
      BY <2>1, <3>2 DEF RowOK
    <3>3. QED
      BY <3>1, <3>2
  <2>3. QED
    BY <2>1, <2>2 DEF ShownOK, Counted
<1>2. QED
  BY <1>1, WeekInvariance, PTL

-----------------------------------------------------------------------------
(* Links to live events.                                                   *)

LinkSpec == LinkInit /\ [][LinkNext]_linkVars

\* The bots at these points of posting the link of an event.
Doing(at, e) == {b \in Bots : bot[b].pc \in at /\ bot[b].event = e}
Ahead == {"check", "send"}
Weight(task, at, e) == IF task.pc \in at /\ task.event = e THEN 1 ELSE 0

\* A copy whose acceptance is not unsure was posted by a bot that is about to
\* mark the link, until it is; from then on only bots that picked the link
\* before it was marked may add to the copies, each of them once.
CopiesOK(e) ==
    /\ link[e] # "sent" => copies[e] = unsure[e] + Cardinality(Doing({"mark"}, e))
    /\ link[e] = "sent" => copies[e] + Cardinality(Doing(Ahead, e)) <= Cardinality(Bots) + unsure[e]

LinkInv ==
    /\ link \in [Events -> Links] /\ bot \in [Bots -> Task]
    /\ copies \in [Events -> Nat] /\ unsure \in [Events -> Nat]
    /\ \A b \in Bots : bot[b].pc \in {"check", "send", "mark", "fail"} => bot[b].event \in Events
    /\ \A e \in Events : CopiesOK(e)

-----------------------------------------------------------------------------
LEMMA DoingIsFinite ==
    ASSUME NEW at, NEW e
    PROVE  /\ IsFiniteSet(Doing(at, e)) /\ Cardinality(Doing(at, e)) \in Nat
           /\ Cardinality(Doing(at, e)) <= Cardinality(Bots) /\ Cardinality(Bots) \in Nat
<1>1. IsFiniteSet(Bots)
  BY LinkAssumption
<1>2. Doing(at, e) \in SUBSET Bots
  BY DEF Doing
<1>3. IsFiniteSet(Doing(at, e)) /\ Cardinality(Doing(at, e)) <= Cardinality(Bots)
  BY <1>1, <1>2, FS_Subset
<1>4. QED
  BY <1>1, <1>3, FS_CardinalityType

\* Bots are at one point at a time.
LEMMA DoingApart ==
    ASSUME NEW e
    PROVE  Cardinality(Doing({"mark"}, e)) + Cardinality(Doing(Ahead, e)) <= Cardinality(Bots)
<1> DEFINE M == Doing({"mark"}, e)
           A == Doing(Ahead, e)
<1>1. /\ IsFiniteSet(M) /\ Cardinality(M) \in Nat /\ IsFiniteSet(A) /\ Cardinality(A) \in Nat
      /\ Cardinality(Bots) \in Nat /\ IsFiniteSet(Bots)
  BY DoingIsFinite, LinkAssumption
<1>2. M \cup A \in SUBSET Bots /\ M \cap A = {}
  BY DEF Doing, Ahead
<1> HIDE DEF M, A
<1>3. Cardinality(M \cup A) = Cardinality(M) + Cardinality(A) - Cardinality(M \cap A)
  BY <1>1, FS_Union
<1>4. Cardinality(M \cap A) = 0
  BY <1>2, FS_EmptySet
<1>5. Cardinality(M \cup A) <= Cardinality(Bots)
  BY <1>1, <1>2, FS_Subset
<1>6. Cardinality(M) + Cardinality(A) <= Cardinality(Bots)
  BY <1>1, <1>3, <1>4, <1>5
<1>7. QED
  BY <1>6 DEF M, A

\* One bot moves.
LEMMA DoingMoves ==
    ASSUME bot \in [Bots -> Task], NEW b \in Bots, NEW task \in Task,
           bot' = [bot EXCEPT ![b] = task], NEW at, NEW e
    PROVE  /\ Cardinality(Doing(at, e)') + Weight(bot[b], at, e) =
                 Cardinality(Doing(at, e)) + Weight(task, at, e)
           /\ Cardinality(Doing(at, e)') \in Nat
<1> DEFINE D == Doing(at, e)
           D1 == Doing(at, e)'
           R == D \ {b}
<1>1. IsFiniteSet(D) /\ Cardinality(D) \in Nat
  BY DoingIsFinite
<1>2. \A c \in Bots : bot'[c] = IF c = b THEN task ELSE bot[c]
  OBVIOUS
<1>3. D1 = {c \in Bots : bot'[c].pc \in at /\ bot'[c].event = e}
  BY DEF Doing
<1>4. /\ b \in D <=> (bot[b].pc \in at /\ bot[b].event = e)
      /\ b \in D1 <=> (task.pc \in at /\ task.event = e)
  BY <1>2, <1>3 DEF Doing
<1>5. D1 = IF b \in D1 THEN R \cup {b} ELSE R
  BY <1>2, <1>3 DEF Doing
<1> HIDE DEF D, D1
<1>6. IsFiniteSet(R) /\ Cardinality(R) = IF b \in D THEN Cardinality(D) - 1 ELSE Cardinality(D)
  BY <1>1, FS_RemoveElement
<1>7. b \in D => Cardinality(D) # 0
  BY <1>1, FS_EmptySet
<1>8. Cardinality(R \cup {b}) = Cardinality(R) + 1
  BY <1>6, FS_AddElement DEF R
<1>9. Cardinality(R) \in Nat
  BY <1>6, FS_CardinalityType
<1>10. Cardinality(D1) = IF b \in D1 THEN Cardinality(R) + 1 ELSE Cardinality(R)
  BY <1>5, <1>8
<1>11. /\ Weight(bot[b], at, e) = IF b \in D THEN 1 ELSE 0
       /\ Weight(task, at, e) = IF b \in D1 THEN 1 ELSE 0
  BY <1>4 DEF Weight
<1>12. /\ Cardinality(D1) + Weight(bot[b], at, e) = Cardinality(D) + Weight(task, at, e)
       /\ Cardinality(D1) \in Nat
  <2> HIDE DEF R
  <2>1. QED
    BY <1>1, <1>6, <1>7, <1>9, <1>10, <1>11
<1>13. QED
  BY <1>12 DEF D, D1

LEMMA LinkStarts ==
    ASSUME LinkInit
    PROVE  LinkInv
<1>1. /\ link = [e \in Events |-> "none"] /\ copies = [e \in Events |-> 0]
      /\ unsure = [e \in Events |-> 0]
      /\ bot = [b \in Bots |-> IF linksOn THEN Idle ELSE [Idle EXCEPT !.pc = "ended"]]
  BY DEF LinkInit
<1>2. Idle \in Task /\ [Idle EXCEPT !.pc = "ended"] \in Task
  BY DEF Idle, Task, BotPC
<1>3. \A b \in Bots : bot[b] \in Task /\ bot[b].pc \in {"idle", "ended"}
  BY <1>1, <1>2 DEF Idle
<1>4. bot \in [Bots -> Task] /\ link \in [Events -> Links]
      /\ copies \in [Events -> Nat] /\ unsure \in [Events -> Nat]
  BY <1>1, <1>2 DEF Links
<1>5. \A e \in Events : CopiesOK(e)
  <2> TAKE e \in Events
  <2>1. Doing({"mark"}, e) = {}
    BY <1>3 DEF Doing
  <2>2. Cardinality(Doing({"mark"}, e)) = 0
    BY <2>1, FS_EmptySet
  <2>3. QED
    BY <1>1, <2>2 DEF CopiesOK
<1>6. QED
  BY <1>3, <1>4, <1>5 DEF LinkInv

\* No bot moves, and links change only while they are not sent.
LEMMA LinksChange ==
    ASSUME LinkInv, UNCHANGED <<bot, copies, unsure>>, link' \in [Events -> Links],
           \A e \in Events : link'[e] = "sent" <=> link[e] = "sent"
    PROVE  LinkInv'
<1>1. \A at, e : Doing(at, e)' = Doing(at, e)
  BY DEF Doing
<1>2. \A e \in Events : CopiesOK(e)'
  BY <1>1 DEF LinkInv, CopiesOK
<1>3. QED
  BY <1>2 DEF LinkInv

\* What a bot that becomes "task" does to the copies is accounted for.
KeepsAccount(b, task) ==
    \A e \in Events :
       \/ /\ link[e] # "sent" /\ link'[e] # "sent"
          /\ copies'[e] - copies[e] + Weight(bot[b], {"mark"}, e) =
                unsure'[e] - unsure[e] + Weight(task, {"mark"}, e)
       \/ /\ link[e] = "sent" /\ link'[e] = "sent"
          /\ copies'[e] - copies[e] + Weight(task, Ahead, e) <=
                unsure'[e] - unsure[e] + Weight(bot[b], Ahead, e)
       \/ /\ link[e] # "sent" /\ link'[e] = "sent"
          /\ copies'[e] = copies[e] /\ unsure'[e] = unsure[e]
          /\ Weight(task, Ahead, e) = 0

\* One bot moves.
LEMMA BotMoves ==
    ASSUME LinkInv, NEW b \in Bots, NEW task \in Task, bot' = [bot EXCEPT ![b] = task],
           task.pc \in {"check", "send", "mark", "fail"} => task.event \in Events,
           link' \in [Events -> Links],
           copies' \in [Events -> Nat], unsure' \in [Events -> Nat], KeepsAccount(b, task)
    PROVE  LinkInv'
<1>1. /\ bot \in [Bots -> Task] /\ copies \in [Events -> Nat] /\ unsure \in [Events -> Nat]
      /\ \A c \in Bots : bot[c].pc \in {"check", "send", "mark", "fail"} => bot[c].event \in Events
  BY DEF LinkInv
<1>2. /\ bot' \in [Bots -> Task]
      /\ \A c \in Bots : bot'[c].pc \in {"check", "send", "mark", "fail"} => bot'[c].event \in Events
  BY <1>1
<1>3. \A e \in Events : CopiesOK(e)'
  <2> TAKE e \in Events
  <2> DEFINE m == Cardinality(Doing({"mark"}, e))
             m1 == Cardinality(Doing({"mark"}, e)')
             d == Cardinality(Doing(Ahead, e))
             d1 == Cardinality(Doing(Ahead, e)')
             n == Cardinality(Bots)
  <2>1. /\ m1 + Weight(bot[b], {"mark"}, e) = m + Weight(task, {"mark"}, e)
        /\ d1 + Weight(bot[b], Ahead, e) = d + Weight(task, Ahead, e)
        /\ m1 \in Nat /\ d1 \in Nat
    <3>1. \A at : /\ Cardinality(Doing(at, e)') + Weight(bot[b], at, e) =
                        Cardinality(Doing(at, e)) + Weight(task, at, e)
                  /\ Cardinality(Doing(at, e)') \in Nat
      BY <1>1, DoingMoves
    <3>2. QED
      BY <3>1
  <2>2. m \in Nat /\ d \in Nat /\ n \in Nat /\ m + d <= n
    BY DoingIsFinite, DoingApart
  <2>3. \A at : Weight(bot[b], at, e) \in {0, 1} /\ Weight(task, at, e) \in {0, 1}
    BY DEF Weight
  <2>4. /\ copies[e] \in Nat /\ unsure[e] \in Nat /\ copies'[e] \in Nat /\ unsure'[e] \in Nat
        /\ link[e] # "sent" => copies[e] = unsure[e] + m
        /\ link[e] = "sent" => copies[e] + d <= n + unsure[e]
    BY <1>1 DEF LinkInv, CopiesOK
  <2> DEFINE wm == Weight(bot[b], {"mark"}, e)
             wm1 == Weight(task, {"mark"}, e)
             wd == Weight(bot[b], Ahead, e)
             wd1 == Weight(task, Ahead, e)
  <2>5. wm \in {0, 1} /\ wm1 \in {0, 1} /\ wd \in {0, 1} /\ wd1 \in {0, 1}
    BY <2>3
  <2>6. /\ m1 + wm = m + wm1 /\ d1 + wd = d + wd1
        /\ \/ /\ link[e] # "sent" /\ link'[e] # "sent"
              /\ copies'[e] - copies[e] + wm = unsure'[e] - unsure[e] + wm1
           \/ /\ link[e] = "sent" /\ link'[e] = "sent"
              /\ copies'[e] - copies[e] + wd1 <= unsure'[e] - unsure[e] + wd
           \/ /\ link[e] # "sent" /\ link'[e] = "sent"
              /\ copies'[e] = copies[e] /\ unsure'[e] = unsure[e] /\ wd1 = 0
    BY <2>1 DEF KeepsAccount
  <2> HIDE DEF m, m1, d, d1, n, wm, wm1, wd, wd1
  <2>7. /\ link'[e] # "sent" => copies'[e] = unsure'[e] + m1
        /\ link'[e] = "sent" => copies'[e] + d1 <= n + unsure'[e]
    BY <2>1, <2>2, <2>4, <2>5, <2>6
  <2>8. QED
    BY <2>7 DEF CopiesOK, m1, d1, n
<1>4. QED
  BY <1>2, <1>3 DEF LinkInv

LEMMA LinkFacts ==
    ASSUME LinkInv
    PROVE  /\ link \in [Events -> Links] /\ bot \in [Bots -> Task]
           /\ copies \in [Events -> Nat] /\ unsure \in [Events -> Nat]
           /\ \A b \in Bots : /\ bot[b].pc \in BotPC /\ bot[b] \in Task
                              /\ bot[b].pc \in {"check", "send", "mark", "fail"}
                                    => bot[b].event \in Events
           /\ \A n \in Nat : n + 1 \in Nat
  BY DEF LinkInv, Task

\* The clock, Play Hub and the scan leave the bots and what was sent alone.
LEMMA OthersKeep ==
    ASSUME LinkInv,
           \/ \E e \in Events : Passes(e) \/ Plays(e) \/ GoesStale(e) \/ Rests(e) \/ DelayPasses(e)
           \/ Scans \/ ScanDies
    PROVE  LinkInv'
<1>1. link \in [Events -> Links]
  BY DEF LinkInv
<1>2. CASE UNCHANGED <<link, bot, copies, unsure>>
  BY <1>1, <1>2, LinksChange
<1>3. CASE \E e \in Events : DelayPasses(e)
  <2>1. PICK d \in Events : DelayPasses(d)
    BY <1>3
  <2>2. /\ link[d] = "waiting" /\ link' = [link EXCEPT ![d] = "due"]
        /\ UNCHANGED <<bot, copies, unsure>>
    BY <2>1 DEF DelayPasses, told
  <2>3. link' \in [Events -> Links] /\ \A e \in Events : link'[e] = "sent" <=> link[e] = "sent"
    BY <1>1, <2>2 DEF Links
  <2>4. QED
    BY <2>2, <2>3, LinksChange
<1>4. CASE Reserve
  <2>1. /\ link' = [e \in Events |-> IF e \in New(scan.picked) THEN "due" ELSE link[e]]
        /\ UNCHANGED <<bot, copies, unsure>>
    BY <1>4 DEF Reserve, told
  <2>2. \A e \in New(scan.picked) : link[e] = "none"
    BY DEF New
  <2>3. link' \in [Events -> Links] /\ \A e \in Events : link'[e] = "sent" <=> link[e] = "sent"
    BY <1>1, <2>1, <2>2 DEF Links
  <2>4. QED
    BY <2>1, <2>3, LinksChange
<1>5. CASE \E e \in Events : Passes(e) \/ Plays(e) \/ GoesStale(e) \/ Rests(e)
  <2>1. UNCHANGED <<link, bot, copies, unsure>>
    BY <1>5 DEF Passes, Plays, GoesStale, Rests, links, told
  <2>2. QED
    BY <1>2, <2>1
<1>6. CASE \/ BeginScan \/ ReadEligible \/ FinishScan \/ NextEvent
           \/ ImportSucceeds \/ ImportFails \/ ScanDies
  <2>1. UNCHANGED <<link, bot, copies, unsure>>
    BY <1>6 DEF BeginScan, ReadEligible, FinishScan, NextEvent, ImportSucceeds, ImportFails,
                ScanDies, links, told
  <2>2. QED
    BY <1>2, <2>1
<1>7. QED
  BY <1>3, <1>4, <1>5, <1>6 DEF Scans

LEMMA PickKeeps ==
    ASSUME LinkInv, NEW b \in Bots, NEW d \in Events, Pick(b, d)
    PROVE  LinkInv'
<1> DEFINE task == [pc |-> "check", event |-> d]
<1>1. /\ bot[b].pc = "idle" /\ link[d] = "due" /\ bot' = [bot EXCEPT ![b] = task]
      /\ UNCHANGED <<link, copies, unsure>>
  BY DEF Pick, Oldest, Deliverable, NewTask, links, told
<1>2. /\ task \in Task /\ link' \in [Events -> Links]
      /\ copies' \in [Events -> Nat] /\ unsure' \in [Events -> Nat]
  BY <1>1, LinkFacts DEF Task, BotPC
<1>3. \A e : /\ Weight(bot[b], {"mark"}, e) = 0 /\ Weight(task, {"mark"}, e) = 0
             /\ e # d => Weight(task, Ahead, e) = 0
             /\ Weight(bot[b], Ahead, e) \in {0, 1}
  BY <1>1 DEF Weight
<1>4. task.event \in Events
  OBVIOUS
<1> HIDE DEF task
<1>5. KeepsAccount(b, task)
  BY <1>1, <1>3, LinkFacts DEF KeepsAccount
<1>6. QED
  BY <1>1, <1>2, <1>4, <1>5, BotMoves

LEMMA CheckKeeps ==
    ASSUME LinkInv, NEW b \in Bots, Check(b)
    PROVE  LinkInv'
<1> DEFINE task == [pc |-> IF Eligible(bot[b].event) THEN "send" ELSE "fail", event |-> bot[b].event]
           d == bot[b].event
<1>1. /\ bot[b].pc = "check" /\ bot' = [bot EXCEPT ![b] = task]
      /\ UNCHANGED <<link, copies, unsure>>
  BY DEF Check, NewTask, links, told
<1>2. /\ task \in Task
      /\ task.pc \in {"check", "send", "mark", "fail"} => task.event \in Events
      /\ link' \in [Events -> Links]
      /\ copies' \in [Events -> Nat] /\ unsure' \in [Events -> Nat]
  BY <1>1, LinkFacts DEF Task, BotPC, Idle, Links
<1>3. \A e : /\ Weight(bot[b], {"mark"}, e) = 0 /\ Weight(task, {"mark"}, e) = 0
             /\ Weight(bot[b], Ahead, e) = IF e = d THEN 1 ELSE 0
             /\ Weight(task, Ahead, e) \in {0, 1}
             /\ e # d => Weight(task, Ahead, e) = 0
  BY <1>1 DEF Weight, Ahead, Idle
<1> HIDE DEF task, d
<1>4. KeepsAccount(b, task)
  BY <1>1, <1>3, LinkFacts DEF KeepsAccount
<1>5. QED
  BY <1>1, <1>2, <1>4, BotMoves

LEMMA SendKeeps ==
    ASSUME LinkInv, NEW b \in Bots, NEW e0 \in Events, Send(b, e0)
    PROVE  LinkInv'
<1> DEFINE task == [pc |-> "mark", event |-> bot[b].event]
           d == bot[b].event
<1>1. /\ bot[b].pc = "send" /\ d = e0 /\ bot' = [bot EXCEPT ![b] = task]
      /\ copies' = [copies EXCEPT ![d] = @ + 1] /\ UNCHANGED <<link, unsure>>
  BY DEF Send, NewTask, links
<1>2. /\ task \in Task
      /\ task.pc \in {"check", "send", "mark", "fail"} => task.event \in Events
      /\ link' \in [Events -> Links]
      /\ copies' \in [Events -> Nat] /\ unsure' \in [Events -> Nat]
  BY <1>1, LinkFacts DEF Task, BotPC, Idle, Links
<1>3. \A e : /\ Weight(bot[b], {"mark"}, e) = 0
             /\ Weight(task, {"mark"}, e) = IF e = d THEN 1 ELSE 0
             /\ Weight(bot[b], Ahead, e) = IF e = d THEN 1 ELSE 0
             /\ Weight(task, Ahead, e) = 0
  BY <1>1 DEF Weight, Ahead, Idle
<1> HIDE DEF task, d
<1>4. KeepsAccount(b, task)
  BY <1>1, <1>3, LinkFacts DEF KeepsAccount
<1>5. QED
  BY <1>1, <1>2, <1>4, BotMoves

LEMMA SendFailsKeeps ==
    ASSUME LinkInv, NEW b \in Bots, SendFails(b)
    PROVE  LinkInv'
<1> DEFINE task == [pc |-> "fail", event |-> bot[b].event]
           d == bot[b].event
<1>1. /\ bot[b].pc = "send" /\ bot' = [bot EXCEPT ![b] = task]
      /\ UNCHANGED <<link, copies, unsure>>
  BY DEF SendFails, NewTask, links, told
<1>2. /\ task \in Task
      /\ task.pc \in {"check", "send", "mark", "fail"} => task.event \in Events
      /\ link' \in [Events -> Links]
      /\ copies' \in [Events -> Nat] /\ unsure' \in [Events -> Nat]
  BY <1>1, LinkFacts DEF Task, BotPC, Idle, Links
<1>3. \A e : /\ Weight(bot[b], {"mark"}, e) = 0 /\ Weight(task, {"mark"}, e) = 0
             /\ Weight(bot[b], Ahead, e) = IF e = d THEN 1 ELSE 0
             /\ Weight(task, Ahead, e) = 0
  BY <1>1 DEF Weight, Ahead, Idle
<1> HIDE DEF task, d
<1>4. KeepsAccount(b, task)
  BY <1>1, <1>3, LinkFacts DEF KeepsAccount
<1>5. QED
  BY <1>1, <1>2, <1>4, BotMoves

LEMMA AnswerLostKeeps ==
    ASSUME LinkInv, NEW b \in Bots, AnswerLost(b)
    PROVE  LinkInv'
<1> DEFINE task == [pc |-> "fail", event |-> bot[b].event]
           d == bot[b].event
<1>1. /\ bot[b].pc = "send" /\ bot' = [bot EXCEPT ![b] = task]
      /\ copies' = [copies EXCEPT ![d] = @ + 1]
      /\ unsure' = [unsure EXCEPT ![d] = @ + 1] /\ link' = link
  BY DEF AnswerLost, Posted, NewTask, links
<1>2. /\ task \in Task
      /\ task.pc \in {"check", "send", "mark", "fail"} => task.event \in Events
      /\ link' \in [Events -> Links]
      /\ copies' \in [Events -> Nat] /\ unsure' \in [Events -> Nat]
  BY <1>1, LinkFacts DEF Task, BotPC, Idle, Links
<1>3. \A e : /\ Weight(bot[b], {"mark"}, e) = 0 /\ Weight(task, {"mark"}, e) = 0
             /\ Weight(bot[b], Ahead, e) = IF e = d THEN 1 ELSE 0
             /\ Weight(task, Ahead, e) = 0
  BY <1>1 DEF Weight, Ahead, Idle
<1> HIDE DEF task, d
<1>4. KeepsAccount(b, task)
  BY <1>1, <1>3, LinkFacts DEF KeepsAccount
<1>5. QED
  BY <1>1, <1>2, <1>4, BotMoves

\* The copy of the bot that marks the link is one that no bot is about to mark.
LEMMA MarkKeeps ==
    ASSUME LinkInv, NEW b \in Bots, Mark(b)
    PROVE  LinkInv'
<1> DEFINE task == Idle
           d == bot[b].event
<1>1. /\ bot[b].pc = "mark" /\ bot' = [bot EXCEPT ![b] = task]
      /\ link' = [link EXCEPT ![d] = "sent"] /\ UNCHANGED <<copies, unsure>>
  BY DEF Mark, told
<1>2. /\ task \in Task
      /\ task.pc \in {"check", "send", "mark", "fail"} => task.event \in Events
      /\ link' \in [Events -> Links]
      /\ copies' \in [Events -> Nat] /\ unsure' \in [Events -> Nat]
  BY <1>1, LinkFacts DEF Task, BotPC, Idle, Links
<1>3. \A e : /\ Weight(bot[b], {"mark"}, e) = IF e = d THEN 1 ELSE 0
             /\ Weight(task, {"mark"}, e) = 0
             /\ Weight(bot[b], Ahead, e) = 0 /\ Weight(task, Ahead, e) = 0
  BY <1>1 DEF Weight, Ahead, Idle
<1> HIDE DEF task, d
<1>4. KeepsAccount(b, task)
  BY <1>1, <1>3, LinkFacts DEF KeepsAccount
<1>5. QED
  BY <1>1, <1>2, <1>4, BotMoves

LEMMA FailKeeps ==
    ASSUME LinkInv, NEW b \in Bots, Fail(b)
    PROVE  LinkInv'
<1> DEFINE task == Idle
           d == bot[b].event
<1>1. /\ bot[b].pc = "fail" /\ bot' = [bot EXCEPT ![b] = task]
      /\ link' = [link EXCEPT ![d] = IF @ = "sent" THEN @ ELSE "waiting"]
      /\ UNCHANGED <<copies, unsure>>
  BY DEF Fail, Delay, told
<1>2. /\ task \in Task
      /\ task.pc \in {"check", "send", "mark", "fail"} => task.event \in Events
      /\ link' \in [Events -> Links]
      /\ copies' \in [Events -> Nat] /\ unsure' \in [Events -> Nat]
  BY <1>1, LinkFacts DEF Task, BotPC, Idle, Links
<1>3. \A e : /\ Weight(bot[b], {"mark"}, e) = 0 /\ Weight(task, {"mark"}, e) = 0
             /\ Weight(bot[b], Ahead, e) = 0 /\ Weight(task, Ahead, e) = 0
  BY <1>1 DEF Weight, Ahead, Idle
<1> HIDE DEF task, d
<1>4. KeepsAccount(b, task)
  BY <1>1, <1>3, LinkFacts DEF KeepsAccount
<1>5. QED
  BY <1>1, <1>2, <1>4, BotMoves

LEMMA TaskEndsKeeps ==
    ASSUME LinkInv, NEW b \in Bots, TaskEnds(b)
    PROVE  LinkInv'
<1> DEFINE task == [pc |-> "ended", event |-> 0]
           d == bot[b].event
<1>1. /\ bot' = [bot EXCEPT ![b] = task] /\ UNCHANGED <<link, copies>>
      /\ unsure' = IF bot[b].pc = "mark"
                    THEN [unsure EXCEPT ![d] = @ + 1] ELSE unsure
  BY DEF TaskEnds, Forget, NewTask, links
<1>2. /\ task \in Task
      /\ task.pc \in {"check", "send", "mark", "fail"} => task.event \in Events
      /\ link' \in [Events -> Links]
      /\ copies' \in [Events -> Nat] /\ unsure' \in [Events -> Nat]
  BY <1>1, LinkFacts DEF Task, BotPC, Idle, Links
<1>3. \A e : /\ Weight(bot[b], {"mark"}, e) = IF bot[b].pc = "mark" /\ e = d THEN 1 ELSE 0
             /\ Weight(task, {"mark"}, e) = 0 /\ Weight(task, Ahead, e) = 0
             /\ Weight(bot[b], Ahead, e) \in {0, 1}
  BY <1>1 DEF Weight, Ahead, Idle
<1> HIDE DEF task, d
<1>4. KeepsAccount(b, task)
  BY <1>1, <1>3, LinkFacts DEF KeepsAccount
<1>5. QED
  BY <1>1, <1>2, <1>4, BotMoves

LEMMA CrashKeeps ==
    ASSUME LinkInv, NEW b \in Bots, Crash(b)
    PROVE  LinkInv'
<1> DEFINE task == [pc |-> "down", event |-> 0]
           d == bot[b].event
<1>1. /\ bot' = [bot EXCEPT ![b] = task] /\ UNCHANGED <<link, copies>>
      /\ unsure' = IF bot[b].pc = "mark"
                    THEN [unsure EXCEPT ![d] = @ + 1] ELSE unsure
  BY DEF Crash, Forget, NewTask, links
<1>2. /\ task \in Task
      /\ task.pc \in {"check", "send", "mark", "fail"} => task.event \in Events
      /\ link' \in [Events -> Links]
      /\ copies' \in [Events -> Nat] /\ unsure' \in [Events -> Nat]
  BY <1>1, LinkFacts DEF Task, BotPC, Idle, Links
<1>3. \A e : /\ Weight(bot[b], {"mark"}, e) = IF bot[b].pc = "mark" /\ e = d THEN 1 ELSE 0
             /\ Weight(task, {"mark"}, e) = 0 /\ Weight(task, Ahead, e) = 0
             /\ Weight(bot[b], Ahead, e) \in {0, 1}
  BY <1>1 DEF Weight, Ahead, Idle
<1> HIDE DEF task, d
<1>4. KeepsAccount(b, task)
  BY <1>1, <1>3, LinkFacts DEF KeepsAccount
<1>5. QED
  BY <1>1, <1>2, <1>4, BotMoves

LEMMA StartKeeps ==
    ASSUME LinkInv, NEW b \in Bots, Start(b)
    PROVE  LinkInv'
<1> DEFINE task == Idle
           d == bot[b].event
<1>1. /\ bot[b].pc = "down" /\ bot' = [bot EXCEPT ![b] = task]
      /\ UNCHANGED <<link, copies, unsure>>
  BY DEF Start, links, told
<1>2. /\ task \in Task
      /\ task.pc \in {"check", "send", "mark", "fail"} => task.event \in Events
      /\ link' \in [Events -> Links]
      /\ copies' \in [Events -> Nat] /\ unsure' \in [Events -> Nat]
  BY <1>1, LinkFacts DEF Task, BotPC, Idle, Links
<1>3. \A e : /\ Weight(bot[b], {"mark"}, e) = 0 /\ Weight(task, {"mark"}, e) = 0
             /\ Weight(bot[b], Ahead, e) = 0 /\ Weight(task, Ahead, e) = 0
  BY <1>1 DEF Weight, Ahead, Idle
<1> HIDE DEF task, d
<1>4. KeepsAccount(b, task)
  BY <1>1, <1>3, LinkFacts DEF KeepsAccount
<1>5. QED
  BY <1>1, <1>2, <1>4, BotMoves

\* Every step of the scans and of the bots keeps the account of the copies.
LEMMA LinkStep ==
    ASSUME LinkInv, [LinkNext]_linkVars
    PROVE  LinkInv'
<1>1. CASE UNCHANGED linkVars
  <2>1. UNCHANGED <<link, bot, copies, unsure>>
    BY <1>1 DEF linkVars, links, told
  <2>2. link' \in [Events -> Links]
    BY <2>1, LinkFacts
  <2>3. QED
    BY <2>1, <2>2, LinksChange
<1>2. ASSUME NEW b \in Bots, Delivers(b)
      PROVE  LinkInv'
  BY <1>2, CheckKeeps, MarkKeeps, FailKeeps, StartKeeps, PickKeeps, SendKeeps DEF Delivers
<1>3. ASSUME NEW b \in Bots, SendFails(b) \/ AnswerLost(b) \/ TaskEnds(b) \/ Crash(b)
      PROVE  LinkInv'
  BY <1>3, SendFailsKeeps, AnswerLostKeeps, TaskEndsKeeps, CrashKeeps
<1>4. QED
  BY <1>1, <1>2, <1>3, OthersKeep DEF LinkNext

-----------------------------------------------------------------------------
\* For any events and bots: the copies of a link are those of the bots about to
\* mark it and the unsure ones until it is marked sent, and afterwards a bot
\* adds one only if it had picked the link before (live_events.py mark_sent,
\* deliver_live_event_links).
THEOREM LinkInvariance == LinkSpec => []LinkInv
<1>1. LinkInit => LinkInv
  BY LinkStarts
<1>2. LinkInv /\ [LinkNext]_linkVars => LinkInv'
  BY LinkStep
<1>3. QED
  BY <1>1, <1>2, PTL DEF LinkSpec

\* At most one copy of a link per bot goes back to bots that worked on it at the
\* same time; each of the others was sent again because the acceptance of one
\* before it was never recorded (LorcanaBot.deliver_live_event_links).
THEOREM CopiesExplained == LinkSpec => []CopiesAreExplained
<1>1. ASSUME LinkInv
      PROVE  CopiesAreExplained
  <2>1. SUFFICES ASSUME NEW e \in Events
                 PROVE  copies[e] <= Cardinality(Bots) + unsure[e]
    BY DEF CopiesAreExplained
  <2>2. /\ Cardinality(Doing({"mark"}, e)) \in Nat
        /\ Cardinality(Doing({"mark"}, e)) <= Cardinality(Bots)
        /\ Cardinality(Doing(Ahead, e)) \in Nat /\ Cardinality(Bots) \in Nat
    BY DoingIsFinite
  <2>3. copies[e] \in Nat /\ unsure[e] \in Nat
    BY <1>1, LinkFacts
  <2>4. CopiesOK(e)
    BY <1>1 DEF LinkInv
  <2>5. QED
    BY <2>2, <2>3, <2>4 DEF CopiesOK
<1>2. QED
  BY <1>1, LinkInvariance, PTL

-----------------------------------------------------------------------------
(* The scan and the types.  The answers of the database come in the order  *)
(* the queries ask for, so what the operators on sequences return comes    *)
(* first.                                                                  *)

\* A set of numbers has a least member.

LEMMA LeastOf ==
    ASSUME NEW T, T \subseteq Nat, T # {}
    PROVE  \E n \in T : \A m \in T : n <= m
<1> DEFINE R == OpToRel(<, Nat)
<1>1. IsWellFoundedOn(R, Nat)
  BY NatLessThanWellFounded
<1>2. \A x, y \in Nat : x < y => <<x, y>> \in R
  BY DEF OpToRel
<1> HIDE DEF R
<1>3. PICK n \in T : \A m \in T : <<m, n>> \notin R
  BY <1>1, WFMin
<1>4. ASSUME NEW m \in T
      PROVE  n <= m
  <2>1. n \in Nat /\ m \in Nat /\ ~(m < n)
    BY <1>2, <1>3
  <2>2. QED
    BY <2>1
<1>5. QED
  BY <1>4

\* A relation that puts the members of S in order.
Orders(R, S) ==
    /\ \A x, y \in S : x # y => <<x, y>> \in R \/ <<y, x>> \in R
    /\ \A x \in S : <<x, x>> \notin R
    /\ \A x, y, z \in S : <<x, y>> \in R /\ <<y, z>> \in R => <<x, z>> \in R

Arranged(s, R) == \A i, j \in DOMAIN s : i < j => <<s[i], s[j]>> \in R

\* There is a last member.
LEMMA LastOf ==
    ASSUME NEW S, IsFiniteSet(S), S # {}, NEW R, Orders(R, S)
    PROVE  \E x \in S : \A y \in S \ {x} : <<y, x>> \in R
<1> DEFINE Above(x) == {y \in S : <<x, y>> \in R}
           T == {Cardinality(Above(x)) : x \in S}
<1>1. \A x \in S : IsFiniteSet(Above(x)) /\ Cardinality(Above(x)) \in Nat
  BY FS_Subset, FS_CardinalityType
<1>2. PICK x \in S : \A y \in S : Cardinality(Above(x)) <= Cardinality(Above(y))
  <2>1. T \subseteq Nat /\ T # {}
    BY <1>1
  <2> HIDE DEF Above
  <2>2. PICK n \in T : \A m \in T : n <= m
    BY <2>1, LeastOf
  <2>3. PICK x \in S : n = Cardinality(Above(x))
    BY <2>2
  <2>4. \A y \in S : Cardinality(Above(y)) \in T
    OBVIOUS
  <2> HIDE DEF T
  <2>5. QED
    BY <2>2, <2>3, <2>4
<1>3. Above(x) = {}
  <2>1. SUFFICES ASSUME NEW y \in Above(x)
                 PROVE  FALSE
    OBVIOUS
  <2>2. y \in S /\ Above(y) \subseteq Above(x) /\ y \notin Above(y)
    BY DEF Orders
  <2>3. IsFiniteSet(Above(x)) /\ IsFiniteSet(Above(y)) /\ Cardinality(Above(x)) \in Nat
        /\ Cardinality(Above(y)) \in Nat /\ Cardinality(Above(x)) <= Cardinality(Above(y))
    BY <1>1, <1>2, <2>2
  <2> HIDE DEF Above
  <2>4. /\ Cardinality(Above(y)) <= Cardinality(Above(x))
        /\ Cardinality(Above(x)) = Cardinality(Above(y)) => Above(x) = Above(y)
    BY <2>2, <2>3, FS_Subset
  <2>5. Above(x) = Above(y)
    BY <2>3, <2>4
  <2>6. QED
    BY <2>2, <2>5
<1>4. QED
  BY <1>3 DEF Orders

\* What is last can follow the others in order.
LEMMA ArrangeLast ==
    ASSUME NEW A, IsFiniteSet(A), NEW x \in A, NEW R, \A y \in A \ {x} : <<y, x>> \in R,
           NEW s \in SetToSeqs(A \ {x}), Arranged(s, R)
    PROVE  \E t \in SetToSeqs(A) : Arranged(t, R)
<1> DEFINE n == Cardinality(A)
           m == Cardinality(A \ {x})
           t == [i \in 1..n |-> IF i = n THEN x ELSE s[i]]
<1>1. n \in Nat /\ m \in Nat /\ n = m + 1
  <2>1. IsFiniteSet(A \ {x}) /\ m = n - 1
    BY FS_RemoveElement
  <2>2. n \in Nat /\ m \in Nat
    BY <2>1, FS_CardinalityType
  <2> HIDE DEF n, m
  <2>3. QED
    BY <2>1, <2>2
<1>2. /\ s \in [1..m -> A \ {x}]
      /\ \A i, j \in 1..m : i # j => s[i] # s[j]
  BY DEF SetToSeqs
<1> HIDE DEF m
<1>3. \A i \in 1..n : i = n \/ i \in 1..m
  BY <1>1
<1>4. t \in [1..n -> A]
  BY <1>2, <1>3
<1>5. \A i, j \in 1..n : i # j => t[i] # t[j]
  BY <1>2, <1>3
<1>6. t \in SetToSeqs(A)
  BY <1>4, <1>5 DEF SetToSeqs
<1>7. \A i, j \in 1..m : i < j => <<s[i], s[j]>> \in R
  BY <1>2 DEF Arranged
<1>8. ASSUME NEW i \in 1..n, NEW j \in 1..n, i < j
      PROVE  <<t[i], t[j]>> \in R
  <2>1. i \in 1..m /\ i # n
    BY <1>1, <1>8
  <2>2. CASE j = n
    BY <1>2, <2>1, <2>2
  <2>3. CASE j # n
    BY <1>3, <1>7, <1>8, <2>1, <2>3
  <2>4. QED
    BY <2>2, <2>3
<1>9. DOMAIN t = 1..n
  OBVIOUS
<1> HIDE DEF t
<1>10. QED
  BY <1>6, <1>8, <1>9 DEF Arranged

\* Every finite set can be arranged in order: the least set that could not is
\* neither empty nor, without its last member, one that can.
LEMMA Arrangement ==
    ASSUME NEW S, IsFiniteSet(S), NEW R, Orders(R, S)
    PROVE  \E s \in SetToSeqs(S) : Arranged(s, R)
<1> DEFINE Bad(A) == ~ \E s \in SetToSeqs(A) : Arranged(s, R)
           T == {n \in Nat : \E A \in SUBSET S : Cardinality(A) = n /\ Bad(A)}
<1>1. SUFFICES ASSUME Bad(S)
               PROVE  FALSE
  OBVIOUS
<1>2. \A A \in SUBSET S : IsFiniteSet(A) /\ Cardinality(A) \in Nat /\ Orders(R, A)
  BY FS_Subset, FS_CardinalityType DEF Orders
<1> HIDE DEF Bad
<1>3. T \subseteq Nat /\ T # {}
  BY <1>1, <1>2
<1>4. PICK n \in T : \A m \in T : n <= m
  BY <1>3, LeastOf
<1>5. PICK A \in SUBSET S : Cardinality(A) = n /\ Bad(A)
  BY <1>4
<1>6. CASE A = {}
  <2>1. <<>> \in SetToSeqs(A) /\ Arranged(<<>>, R)
    BY <1>6, FS_EmptySet DEF SetToSeqs, Arranged
  <2>2. QED
    BY <1>5, <2>1 DEF Bad
<1>7. CASE A # {}
  <2>1. PICK x \in A : \A y \in A \ {x} : <<y, x>> \in R
    BY <1>2, <1>7, LastOf
  <2>2. /\ A \ {x} \in SUBSET S /\ Cardinality(A \ {x}) \in Nat
        /\ Cardinality(A \ {x}) = n - 1 /\ n \in Nat
    BY <1>2, <1>5, FS_RemoveElement
  <2>3. ~Bad(A \ {x})
    BY <1>4, <2>2
  <2>4. QED
    BY <1>2, <1>5, <2>1, <2>3, ArrangeLast DEF Bad
<1>8. QED
  BY <1>6, <1>7

-----------------------------------------------------------------------------
\* A sequence of all members of a set.
LEMMA SeqOfAll ==
    ASSUME NEW S, IsFiniteSet(S), NEW s \in SetToSeqs(S)
    PROVE  s \in Seq(S) /\ IsInjective(s) /\ ToSet(s) = S
<1> DEFINE n == Cardinality(S)
<1>1. /\ n \in Nat /\ s \in [1..n -> S]
      /\ \A i, j \in 1..n : i # j => s[i] # s[j]
  BY FS_CardinalityType DEF SetToSeqs
<1>2. s \in Seq(S)
  BY <1>1, SeqDef
<1>3. IsInjective(s)
  BY <1>1 DEF IsInjective
<1>4. s \in Surjection(1..n, S)
  <2>1. s \in Injection(1..n, S)
    BY <1>1, <1>3 DEF Injection
  <2>2. Cardinality(1..n) = n
    BY <1>1, FS_Interval
  <2>3. QED
    BY <2>1, <2>2, FS_Injection
<1>5. ToSet(s) = S
  BY <1>1, <1>4 DEF ToSet, Surjection
<1>6. QED
  BY <1>2, <1>3, <1>5

LEMMA AtMostIsSeq ==
    ASSUME NEW S, NEW s \in Seq(S), NEW k \in Int
    PROVE  AtMost(s, k) \in Seq(S)
<1> DEFINE m == IF Len(s) < k THEN Len(s) ELSE k
<1>1. /\ s \in [1..Len(s) -> S] /\ Len(s) \in Nat /\ m \in Int
      /\ \A i \in 1..m : i \in 1..Len(s)
  BY LenProperties
<1>2. \A i \in 1..m : s[i] \in S
  BY <1>1
<1> HIDE DEF m
<1>3. SubSeq(s, 1, m) \in Seq(S)
  BY <1>1, <1>2, SubSeqProperties
<1>4. QED
  BY <1>3 DEF AtMost, m

LEMMA TeamEventsTyped == TeamEvents \in Seq(Events)
<1> DEFINE known == {e \in Events : Running(e) /\ stored[e] # "unknown"}
           R == {p \in Nat \X Nat : p[1] < p[2]}
           InOrder(s) == \A i, j \in DOMAIN s : i < j => s[i] < s[j]
           all == CHOOSE s \in SetToSeqs(known) : InOrder(s)
<1>1. known \subseteq Nat /\ IsFiniteSet(known) /\ known \in SUBSET Events
  BY LinkAssumption, FS_Subset
<1>2. \A x, y \in Nat : <<x, y>> \in R <=> x < y
  OBVIOUS
<1> HIDE DEF known, R
<1>3. Orders(R, known)
  BY <1>1, <1>2 DEF Orders
<1>4. PICK s \in SetToSeqs(known) : Arranged(s, R)
  BY <1>1, <1>3, Arrangement
<1>5. InOrder(s)
  <2>1. s \in [1..Cardinality(known) -> known]
    BY DEF SetToSeqs
  <2>2. QED
    BY <1>1, <1>2, <1>4, <2>1 DEF Arranged
<1>6. all \in SetToSeqs(known)
  <2> HIDE DEF InOrder
  <2>1. QED
    BY <1>5
<1>7. all \in Seq(Events)
  <2> HIDE DEF all
  <2>1. all \in Seq(known)
    BY <1>1, <1>6, SeqOfAll
  <2>2. QED
    BY <1>1, <2>1, SeqMonotonic
<1>8. TeamEvents = AtMost(all, Limit)
  BY DEF TeamEvents, Ordered, known
<1> HIDE DEF all
<1>9. QED
  BY <1>7, <1>8, LinkAssumption, AtMostIsSeq

LEMMA PotentialEventsTyped ==
    ASSUME tried \in Seq(Events)
    PROVE  PotentialEvents \in Seq(Events)
<1> DEFINE due == {e \in Events : /\ Running(e)
                                  /\ e \notin ToSet(tried) \/ e \in rested}
           rest == due \ ToSet(TeamEvents)
           R == {p \in Events \X Events : Sooner(p[1], p[2])}
           InOrder(s) == \A i, j \in DOMAIN s : i < j => Sooner(s[i], s[j])
           others == CHOOSE s \in SetToSeqs(rest) : InOrder(s)
<1>1. rest \in SUBSET Events /\ IsFiniteSet(rest)
  BY LinkAssumption, FS_Subset
<1>2. \A x, y \in Events : <<x, y>> \in R <=> Sooner(x, y)
  OBVIOUS
<1>3. \A e : Rank(e) \in Nat
  <2>1. ASSUME NEW e, e \in ToSet(tried)
        PROVE  \E i \in 1..Len(tried) : tried[i] = e
    BY <2>1 DEF ToSet
  <2>2. 1..Len(tried) \subseteq Nat
    OBVIOUS
  <2>3. QED
    BY <2>1, <2>2 DEF Rank
<1> HIDE DEF rest, R
<1>4. Orders(R, rest)
  <2>1. \A x, y \in Events :
          /\ x # y => Sooner(x, y) \/ Sooner(y, x)
          /\ ~Sooner(x, x)
          /\ \A z \in Events : Sooner(x, y) /\ Sooner(y, z) => Sooner(x, z)
    <3> TAKE x, y \in Events
    <3>1. x \in Nat /\ y \in Nat /\ \A z \in Events : z \in Nat
      BY LinkAssumption
    <3>2. QED
      BY <1>3, <3>1 DEF Sooner
  <2>2. QED
    BY <1>1, <1>2, <2>1 DEF Orders
<1>5. PICK s \in SetToSeqs(rest) : Arranged(s, R)
  BY <1>1, <1>4, Arrangement
<1>6. InOrder(s)
  <2>1. s \in [1..Cardinality(rest) -> rest]
    BY DEF SetToSeqs
  <2>2. \A i \in DOMAIN s : s[i] \in Events
    BY <1>1, <2>1
  <2>3. QED
    BY <1>2, <1>5, <2>2 DEF Arranged
<1>7. others \in SetToSeqs(rest)
  <2> HIDE DEF InOrder
  <2>1. QED
    BY <1>6
<1>8. others \in Seq(Events)
  <2> HIDE DEF others
  <2>1. others \in Seq(rest)
    BY <1>1, <1>7, SeqOfAll
  <2>2. QED
    BY <1>1, <2>1, SeqMonotonic
<1>9. PotentialEvents = TeamEvents \o AtMost(others, Limit - Len(TeamEvents))
  BY DEF PotentialEvents, Ordered, rest
<1> HIDE DEF others
<1>10. TeamEvents \in Seq(Events) /\ Limit - Len(TeamEvents) \in Int
  BY TeamEventsTyped, LenProperties, LinkAssumption
<1>11. AtMost(others, Limit - Len(TeamEvents)) \in Seq(Events)
  BY <1>8, <1>10, AtMostIsSeq
<1>12. QED
  BY <1>9, <1>10, <1>11, ConcatProperties

-----------------------------------------------------------------------------
WorldOK ==
    /\ linksOn \in BOOLEAN /\ stage \in [Events -> Stages]
    /\ playing \in [Events -> {"absent", "registered", "playing", "over"}]
    /\ stored \in [Events -> Stores] /\ faults \in 0..MaxFaults

TriedOK == tried \in Seq(Events) /\ IsInjective(tried) /\ rested \subseteq ToSet(tried)

\* An event that is imported is the first one that is left to the scan.
ScanOK ==
    /\ scan \in [pc : ScanPC, todo : Seq(Events), picked : SUBSET Events]
    /\ scan.pc = "import" => scan.todo # <<>>

\* A link is created once, and a bot works on one that is there.
QueueOK ==
    /\ queue \in Seq(Events) /\ IsInjective(queue)
    /\ ToSet(queue) = {e \in Events : link[e] # "none"}

BusyOK ==
    \A b \in Bots : bot[b].pc \in {"check", "send", "mark", "fail"} => link[bot[b].event] # "none"

ScanInv == LinkInv /\ WorldOK /\ TriedOK /\ ScanOK /\ QueueOK /\ BusyOK

-----------------------------------------------------------------------------
LEMMA InvImpliesLinkType ==
    ASSUME ScanInv
    PROVE  LinkTypeOK
  BY LinkFacts DEF ScanInv, WorldOK, TriedOK, ScanOK, QueueOK, LinkTypeOK

LEMMA NothingListed == <<>> \in Seq(Events) /\ IsInjective(<<>>) /\ ToSet(<<>>) = {}
  BY DEF IsInjective, ToSet

LEMMA ScanStarts ==
    ASSUME LinkInit
    PROVE  ScanInv
<1>1. /\ tried = <<>> /\ rested = {} /\ queue = <<>> /\ link = [e \in Events |-> "none"]
      /\ scan = [pc |-> "idle", todo |-> <<>>, picked |-> {}]
      /\ bot = [b \in Bots |-> IF linksOn THEN Idle ELSE [Idle EXCEPT !.pc = "ended"]]
  BY DEF LinkInit
<1>2. WorldOK
  BY DEF LinkInit, WorldOK, Stores
<1>3. TriedOK /\ QueueOK
  BY <1>1, NothingListed DEF TriedOK, QueueOK
<1>4. ScanOK
  BY <1>1, NothingListed DEF ScanOK, ScanPC
<1>5. BusyOK
  BY <1>1 DEF BusyOK, Idle
<1>6. QED
  BY <1>2, <1>3, <1>4, <1>5, LinkStarts DEF ScanInv

LEMMA FaultCounts ==
    ASSUME faults \in 0..MaxFaults, Fault
    PROVE  faults' \in 0..MaxFaults
  BY LinkAssumption DEF Fault

\* Time, Play Hub and the delay of a link.
LEMMA TimeKeeps ==
    ASSUME ScanInv, NEW e \in Events,
           Passes(e) \/ Plays(e) \/ GoesStale(e) \/ Rests(e) \/ DelayPasses(e)
    PROVE  WorldOK' /\ TriedOK' /\ ScanOK' /\ QueueOK' /\ BusyOK'
<1>1. WorldOK /\ TriedOK /\ ScanOK /\ QueueOK /\ BusyOK
  BY DEF ScanInv
<1>2. CASE Passes(e)
  <2>1. PICK s \in Stages : stage' = [stage EXCEPT ![e] = s]
    BY <1>2 DEF Passes, Stages
  <2>2. QED
    BY <1>1, <1>2, <2>1 DEF Passes, scanned, links, told, WorldOK, TriedOK, ScanOK, QueueOK, BusyOK
<1>3. CASE Plays(e)
  BY <1>1, <1>3 DEF Plays, scanned, links, told, WorldOK, TriedOK, ScanOK, QueueOK, BusyOK
<1>4. CASE GoesStale(e)
  BY <1>1, <1>4 DEF GoesStale, world, links, told, WorldOK, TriedOK, ScanOK, QueueOK, BusyOK, Stores
<1>5. CASE Rests(e)
  BY <1>1, <1>5 DEF Rests, world, links, told, WorldOK, TriedOK, ScanOK, QueueOK, BusyOK
<1>6. CASE DelayPasses(e)
  <2>1. /\ link \in [Events -> Links] /\ link[e] = "waiting"
        /\ link' = [link EXCEPT ![e] = "due"]
    BY <1>6, LinkFacts DEF ScanInv, DelayPasses
  <2>2. \A d \in Events : link'[d] = "none" <=> link[d] = "none"
    BY <2>1
  <2>3. UNCHANGED <<world, scanned, queue, bot, told, faults>>
    BY <1>6 DEF DelayPasses
  <2>4. WorldOK' /\ TriedOK' /\ ScanOK'
    BY <1>1, <2>3 DEF world, scanned, WorldOK, TriedOK, ScanOK
  <2>5. QueueOK'
    BY <1>1, <2>2, <2>3 DEF QueueOK
  <2>6. BusyOK'
    BY <1>1, <2>2, <2>3, LinkFacts DEF ScanInv, BusyOK
  <2>7. QED
    BY <2>4, <2>5, <2>6
<1>7. QED
  BY <1>2, <1>3, <1>4, <1>5, <1>6

\* What the scan does to its own data.
LEMMA ScanMoves ==
    ASSUME ScanInv, UNCHANGED <<world, links, bot, told>>, stored' \in [Events -> Stores],
           TriedOK', ScanOK', faults' \in 0..MaxFaults
    PROVE  WorldOK' /\ TriedOK' /\ ScanOK' /\ QueueOK' /\ BusyOK'
  BY DEF ScanInv, WorldOK, QueueOK, BusyOK, world, links

LEMMA ScanFacts ==
    ASSUME ScanInv
    PROVE  /\ scan.pc \in ScanPC /\ scan.todo \in Seq(Events) /\ scan.picked \subseteq Events
           /\ scan.pc = "import" => scan.todo # <<>>
           /\ scan \in [pc : ScanPC, todo : Seq(Events), picked : SUBSET Events]
           /\ TriedOK /\ stored \in [Events -> Stores] /\ faults \in 0..MaxFaults
  BY DEF ScanInv, ScanOK, WorldOK

LEMMA ScanKeeps ==
    ASSUME ScanInv, BeginScan \/ ReadEligible \/ FinishScan \/ ImportFails \/ ScanDies
    PROVE  WorldOK' /\ TriedOK' /\ ScanOK' /\ QueueOK' /\ BusyOK'
<1>1. UNCHANGED <<world, links, bot, told, stored, tried, rested>>
  BY DEF BeginScan, ReadEligible, FinishScan, ImportFails, ScanDies
<1>2. faults' \in 0..MaxFaults
  BY ScanFacts, FaultCounts DEF BeginScan, ReadEligible, FinishScan, ImportFails, ScanDies
<1>3. TriedOK'
  BY <1>1, ScanFacts DEF TriedOK
<1>4. ScanOK'
  <2>1. CASE BeginScan
    <3>1. PotentialEvents \in Seq(Events)
      BY ScanFacts, PotentialEventsTyped DEF TriedOK
    <3>2. QED
      BY <2>1, <3>1 DEF BeginScan, ScanOK, ScanPC
  <2>2. CASE ReadEligible
    <3>1. PICK p \in SUBSET Events : scan' = [scan EXCEPT !.pc = "insert", !.picked = p]
      BY <2>2 DEF ReadEligible
    <3>2. QED
      BY <3>1, ScanFacts DEF ScanOK, ScanPC
  <2>3. CASE FinishScan
    BY <2>3, ScanFacts DEF FinishScan, ScanOK, ScanPC
  <2>4. CASE ImportFails
    <3>1. Tail(scan.todo) \in Seq(Events)
      BY <2>4, ScanFacts, HeadTailProperties DEF ImportFails
    <3>2. PICK rest \in Seq(Events) : scan' = [scan EXCEPT !.pc = "next", !.todo = rest]
      BY <2>4, <3>1 DEF ImportFails
    <3>3. QED
      BY <3>2, ScanFacts DEF ScanOK, ScanPC
  <2>5. CASE ScanDies
    BY <2>5, NothingListed DEF ScanDies, ScanOK, ScanPC
  <2>6. QED
    BY <2>1, <2>2, <2>3, <2>4, <2>5
<1>5. QED
  BY <1>1, <1>2, <1>3, <1>4, ScanFacts, ScanMoves

LEMMA RemoveKeeps ==
    ASSUME NEW S, NEW s \in Seq(S), IsInjective(s), NEW i \in 1..Len(s)
    PROVE  /\ RemoveAt(s, i) \in Seq(S) /\ IsInjective(RemoveAt(s, i))
           /\ ToSet(RemoveAt(s, i)) = ToSet(s) \ {s[i]}
<1> DEFINE n == Len(s)
           a == SubSeq(s, 1, i - 1)
           z == SubSeq(s, i + 1, n)
           r == RemoveAt(s, i)
           Back(k) == IF k < i THEN k ELSE k + 1
<1>1. n \in Nat /\ s \in [1..n -> S] /\ i \in 1..n
  BY LenProperties
<1> HIDE DEF n
<1>2. /\ a \in Seq(S) /\ Len(a) = i - 1 /\ \A k \in 1..(i - 1) : a[k] = s[k]
  <2>1. \A k \in 1..(i - 1) : s[k] \in S
    BY <1>1
  <2>2. /\ a \in Seq(S) /\ Len(a) = (IF 1 <= i - 1 THEN (i - 1) - 1 + 1 ELSE 0)
        /\ \A k \in 1..((i - 1) - 1 + 1) : a[k] = s[1 + k - 1]
    BY <1>1, <2>1, SubSeqProperties
  <2> HIDE DEF a
  <2>3. QED
    BY <1>1, <2>2
<1>3. /\ z \in Seq(S) /\ Len(z) = n - i /\ \A k \in 1..(n - i) : z[k] = s[i + k]
  <2>1. \A k \in (i + 1)..n : s[k] \in S
    BY <1>1
  <2>2. /\ z \in Seq(S) /\ Len(z) = (IF i + 1 <= n THEN n - (i + 1) + 1 ELSE 0)
        /\ \A k \in 1..(n - (i + 1) + 1) : z[k] = s[(i + 1) + k - 1]
    BY <1>1, <2>1, SubSeqProperties
  <2> HIDE DEF z
  <2>3. \A k \in 1..(n - i) : k \in 1..(n - (i + 1) + 1) /\ (i + 1) + k - 1 = i + k
    BY <1>1
  <2>4. QED
    BY <1>1, <2>2, <2>3
<1>4. r = a \o z
  BY DEF RemoveAt, n
<1> HIDE DEF a, z, r
<1>5. /\ r \in Seq(S) /\ Len(r) = n - 1
      /\ \A k \in 1..(n - 1) : r[k] = s[Back(k)]
  <2>1. /\ r \in Seq(S) /\ Len(r) = Len(a) + Len(z)
        /\ \A k \in 1..(Len(a) + Len(z)) :
              r[k] = IF k <= Len(a) THEN a[k] ELSE z[k - Len(a)]
    BY <1>2, <1>3, <1>4, ConcatProperties
  <2>2. Len(a) + Len(z) = n - 1
    BY <1>1, <1>2, <1>3
  <2>3. ASSUME NEW k \in 1..(n - 1)
        PROVE  r[k] = s[Back(k)]
    <3>1. CASE k < i
      <4>1. k \in 1..(i - 1) /\ k <= Len(a)
        BY <1>1, <1>2, <3>1
      <4>2. QED
        BY <1>2, <2>1, <2>2, <3>1, <4>1
    <3>2. CASE ~(k < i)
      <4>1. /\ k - (i - 1) \in 1..(n - i) /\ ~(k <= Len(a)) /\ Len(a) = i - 1
            /\ i + (k - (i - 1)) = k + 1
        BY <1>1, <1>2, <3>2
      <4>2. r[k] = z[k - (i - 1)]
        BY <2>1, <2>2, <4>1
      <4>3. z[k - (i - 1)] = s[k + 1]
        BY <1>3, <4>1
      <4>4. QED
        BY <3>2, <4>2, <4>3
    <3>3. QED
      BY <3>1, <3>2
  <2>4. QED
    BY <2>1, <2>2, <2>3
<1>6. /\ \A k \in 1..(n - 1) : Back(k) \in 1..n /\ Back(k) # i
      /\ \A k, l \in 1..(n - 1) : Back(k) = Back(l) => k = l
      /\ \A k \in 1..n : k # i => \E l \in 1..(n - 1) : Back(l) = k
  <2>1. ASSUME NEW k \in 1..n, k # i
        PROVE  \E l \in 1..(n - 1) : Back(l) = k
    <3>1. CASE k < i
      BY <1>1, <2>1, <3>1
    <3>2. CASE k > i
      <4>1. k - 1 \in 1..(n - 1) /\ Back(k - 1) = k
        BY <1>1, <2>1, <3>2
      <4>2. QED
        BY <4>1
    <3>3. QED
      BY <1>1, <2>1, <3>1, <3>2
  <2>2. QED
    BY <1>1, <2>1
<1>7. DOMAIN r = 1..(n - 1) /\ DOMAIN s = 1..n
  BY <1>1, <1>5, LenProperties
<1> HIDE DEF Back
<1>8. \A k, l \in 1..n : s[k] = s[l] => k = l
  BY <1>7 DEF IsInjective
<1>9. IsInjective(r)
  BY <1>5, <1>6, <1>7, <1>8 DEF IsInjective
<1>10. ToSet(r) = ToSet(s) \ {s[i]}
  <2>1. ASSUME NEW x \in ToSet(r)
        PROVE  x \in ToSet(s) \ {s[i]}
    <3>1. PICK k \in 1..(n - 1) : x = s[Back(k)]
      BY <1>5, <1>7, <2>1 DEF ToSet
    <3>2. QED
      BY <1>1, <1>6, <1>7, <1>8, <3>1 DEF ToSet
  <2>2. ASSUME NEW x \in ToSet(s) \ {s[i]}
        PROVE  x \in ToSet(r)
    <3>1. PICK k \in 1..n : x = s[k] /\ k # i
      BY <1>7, <2>2 DEF ToSet
    <3>2. PICK l \in 1..(n - 1) : Back(l) = k
      BY <1>6, <3>1
    <3>3. QED
      BY <1>5, <1>7, <3>1, <3>2 DEF ToSet
  <2>3. QED
    BY <2>1, <2>2
<1>11. QED
  BY <1>5, <1>9, <1>10 DEF r

LEMMA AppendNew ==
    ASSUME NEW S, NEW s \in Seq(S), IsInjective(s), NEW e \in S, e \notin ToSet(s)
    PROVE  /\ Append(s, e) \in Seq(S) /\ IsInjective(Append(s, e))
           /\ ToSet(Append(s, e)) = ToSet(s) \cup {e}
<1> DEFINE n == Len(s)
           r == Append(s, e)
<1>1. n \in Nat /\ DOMAIN s = 1..n
  BY LenProperties
<1>2. /\ r \in Seq(S) /\ Len(r) = n + 1 /\ r[n + 1] = e
      /\ \A k \in 1..n : r[k] = s[k]
  BY AppendProperties
<1>3. DOMAIN r = 1..(n + 1)
  BY <1>2, LenProperties
<1> HIDE DEF r, n
<1>4. \A k \in 1..(n + 1) : k \in 1..n \/ k = n + 1
  BY <1>1
<1>5. \A k \in 1..n : s[k] # e /\ k \in 1..(n + 1)
  BY <1>1 DEF ToSet
<1>6. n + 1 \in 1..(n + 1)
  BY <1>1
<1>7. IsInjective(r)
  BY <1>1, <1>2, <1>3, <1>4, <1>5 DEF IsInjective
<1>8. ToSet(r) = ToSet(s) \cup {e}
  BY <1>1, <1>2, <1>3, <1>4, <1>5, <1>6 DEF ToSet
<1>9. QED
  BY <1>2, <1>7, <1>8 DEF r

LEMMA ConcatApart ==
    ASSUME NEW S, NEW s \in Seq(S), IsInjective(s), NEW t \in Seq(S), IsInjective(t),
           ToSet(s) \cap ToSet(t) = {}
    PROVE  /\ s \o t \in Seq(S) /\ IsInjective(s \o t)
           /\ ToSet(s \o t) = ToSet(s) \cup ToSet(t)
<1> DEFINE n == Len(s)
           m == Len(t)
           r == s \o t
<1>1. n \in Nat /\ m \in Nat /\ DOMAIN s = 1..n /\ DOMAIN t = 1..m
  BY LenProperties
<1>2. /\ r \in Seq(S) /\ Len(r) = n + m
      /\ \A k \in 1..(n + m) : r[k] = IF k <= n THEN s[k] ELSE t[k - n]
  BY ConcatProperties
<1>3. DOMAIN r = 1..(n + m)
  BY <1>2, LenProperties
<1> HIDE DEF r, n, m
<1>4. ASSUME NEW k \in 1..(n + m)
      PROVE  \/ k \in 1..n /\ r[k] = s[k]
             \/ k \notin 1..n /\ k - n \in 1..m /\ r[k] = t[k - n]
  <2>1. CASE k <= n
    BY <1>1, <1>2, <2>1
  <2>2. CASE ~(k <= n)
    BY <1>1, <1>2, <2>2
  <2>3. QED
    BY <2>1, <2>2
<1>5. /\ \A k \in 1..n : s[k] \in ToSet(s) /\ k \in 1..(n + m) /\ r[k] = s[k]
      /\ \A k \in 1..m : t[k] \in ToSet(t) /\ k + n \in 1..(n + m) /\ r[k + n] = t[k]
  <2>1. ASSUME NEW k \in 1..n
        PROVE  s[k] \in ToSet(s) /\ k \in 1..(n + m) /\ r[k] = s[k]
    BY <1>1, <1>2 DEF ToSet
  <2>2. ASSUME NEW k \in 1..m
        PROVE  t[k] \in ToSet(t) /\ k + n \in 1..(n + m) /\ r[k + n] = t[k]
    <3>1. k + n \in 1..(n + m) /\ ~(k + n <= n) /\ (k + n) - n = k
      BY <1>1
    <3>2. r[k + n] = t[k]
      BY <1>2, <3>1
    <3>3. QED
      BY <1>1, <3>1, <3>2 DEF ToSet
  <2>3. QED
    BY <2>1, <2>2
<1>6. IsInjective(r)
  <2>1. SUFFICES ASSUME NEW k \in 1..(n + m), NEW l \in 1..(n + m), r[k] = r[l]
                 PROVE  k = l
    BY <1>3 DEF IsInjective
  <2>2. CASE k \in 1..n /\ l \in 1..n
    BY <1>1, <1>5, <2>1, <2>2 DEF IsInjective
  <2>3. CASE k \notin 1..n /\ l \notin 1..n
    <3>1. k - n \in 1..m /\ l - n \in 1..m /\ t[k - n] = t[l - n]
      BY <1>4, <2>1, <2>3
    <3>2. k - n = l - n
      BY <1>1, <3>1 DEF IsInjective
    <3>3. QED
      BY <1>1, <3>2
  <2>4. CASE k \in 1..n <=> l \notin 1..n
    BY <1>4, <1>5, <2>1, <2>4
  <2>5. QED
    BY <2>2, <2>3, <2>4
<1>7. ToSet(r) = ToSet(s) \cup ToSet(t)
  <2>1. ASSUME NEW x \in ToSet(r)
        PROVE  x \in ToSet(s) \cup ToSet(t)
    <3>1. PICK k \in 1..(n + m) : x = r[k]
      BY <1>3, <2>1 DEF ToSet
    <3>2. QED
      BY <1>4, <1>5, <3>1
  <2>2. ASSUME NEW x \in ToSet(s)
        PROVE  x \in ToSet(r)
    <3>1. PICK k \in 1..n : x = s[k]
      BY <1>1, <2>2 DEF ToSet
    <3>2. QED
      BY <1>3, <1>5, <3>1 DEF ToSet
  <2>3. ASSUME NEW x \in ToSet(t)
        PROVE  x \in ToSet(r)
    <3>1. PICK k \in 1..m : x = t[k]
      BY <1>1, <2>3 DEF ToSet
    <3>2. QED
      BY <1>3, <1>5, <3>1 DEF ToSet
  <2>4. QED
    BY <2>1, <2>2, <2>3
<1>8. QED
  BY <1>2, <1>6, <1>7 DEF r

LEMMA NextEventKeeps ==
    ASSUME ScanInv, NextEvent
    PROVE  WorldOK' /\ TriedOK' /\ ScanOK' /\ QueueOK' /\ BusyOK'
<1> DEFINE e == Head(scan.todo)
           others == IF e \in ToSet(tried) THEN RemoveAt(tried, Rank(e)) ELSE tried
<1>1. /\ tried' = Append(others, e) /\ rested' = rested \ {e}
      /\ scan.todo # <<>> /\ scan' = [scan EXCEPT !.pc = "import"]
      /\ UNCHANGED <<world, stored, links, bot, told, faults>>
  BY DEF NextEvent, RecordAttempt
<1>2. e \in Events
  BY <1>1, ScanFacts, HeadTailProperties
<1>3. tried \in Seq(Events) /\ IsInjective(tried) /\ rested \subseteq ToSet(tried)
  BY ScanFacts DEF TriedOK
<1> HIDE DEF e
<1>4. /\ others \in Seq(Events) /\ IsInjective(others)
      /\ ToSet(others) = ToSet(tried) \ {e}
  <2>1. CASE e \in ToSet(tried)
    <3>1. \E i \in 1..Len(tried) : tried[i] = e
      BY <1>3, <2>1, LenProperties DEF ToSet
    <3>2. Rank(e) \in 1..Len(tried) /\ tried[Rank(e)] = e
      BY <2>1, <3>1 DEF Rank
    <3>3. QED
      BY <1>3, <2>1, <3>2, RemoveKeeps
  <2>2. CASE e \notin ToSet(tried)
    BY <1>3, <2>2
  <2>3. QED
    BY <2>1, <2>2
<1> HIDE DEF others
<1>5. TriedOK'
  <2>1. /\ Append(others, e) \in Seq(Events) /\ IsInjective(Append(others, e))
        /\ ToSet(Append(others, e)) = ToSet(others) \cup {e}
    BY <1>2, <1>4, AppendNew
  <2>2. tried' \in Seq(Events) /\ IsInjective(tried') /\ rested' \subseteq ToSet(tried')
    BY <1>1, <1>3, <1>4, <2>1
  <2>3. QED
    BY <2>2 DEF TriedOK, IsInjective, ToSet
<1>6. ScanOK'
  BY <1>1, ScanFacts DEF ScanOK, ScanPC
<1>7. QED
  BY <1>1, <1>5, <1>6, ScanFacts, ScanMoves

LEMMA ImportSucceedsKeeps ==
    ASSUME ScanInv, ImportSucceeds
    PROVE  WorldOK' /\ TriedOK' /\ ScanOK' /\ QueueOK' /\ BusyOK'
<1>1. /\ scan.pc = "import" /\ scan' = [scan EXCEPT !.pc = "eligible", !.todo = Tail(@)]
      /\ stored' = [stored EXCEPT ![Head(scan.todo)] = Imported(Head(scan.todo))]
      /\ UNCHANGED <<world, tried, rested, links, bot, told, faults>>
  BY DEF ImportSucceeds
<1>2. Tail(scan.todo) \in Seq(Events)
  BY <1>1, ScanFacts, HeadTailProperties
<1>3. \A e : Imported(e) \in Stores
  BY DEF Imported, Stores
<1>4. stored' \in [Events -> Stores]
  BY <1>1, <1>3, ScanFacts
<1>5. ScanOK'
  <2>1. PICK rest \in Seq(Events) : scan' = [scan EXCEPT !.pc = "eligible", !.todo = rest]
    BY <1>1, <1>2
  <2>2. QED
    BY <2>1, ScanFacts DEF ScanOK, ScanPC
<1>6. TriedOK'
  BY <1>1, ScanFacts DEF TriedOK
<1>7. QED
  BY <1>1, <1>4, <1>5, <1>6, ScanFacts, ScanMoves

LEMMA ReserveKeeps ==
    ASSUME ScanInv, Reserve
    PROVE  WorldOK' /\ TriedOK' /\ ScanOK' /\ QueueOK' /\ BusyOK'
<1> DEFINE new == New(scan.picked)
<1>1. PICK order \in SetToSeqs(new) : queue' = queue \o order
  BY DEF Reserve
<1>2. /\ scan' = [scan EXCEPT !.pc = "next", !.picked = {}]
      /\ link' = [e \in Events |-> IF e \in new THEN "due" ELSE link[e]]
      /\ UNCHANGED <<world, stored, tried, rested, bot, told, faults>>
  BY DEF Reserve
<1>3. new \in SUBSET Events /\ (\A e \in new : link[e] = "none") /\ IsFiniteSet(new)
  BY ScanFacts, LinkAssumption, FS_Subset DEF New
<1>4. /\ queue \in Seq(Events) /\ IsInjective(queue)
      /\ ToSet(queue) = {e \in Events : link[e] # "none"}
  BY DEF ScanInv, QueueOK
<1> HIDE DEF new
<1>5. order \in Seq(Events) /\ IsInjective(order) /\ ToSet(order) = new
  BY <1>3, SeqOfAll, SeqMonotonic
<1>6. ToSet(queue) \cap ToSet(order) = {}
  BY <1>3, <1>4, <1>5
<1>7. /\ queue' \in Seq(Events) /\ IsInjective(queue')
      /\ ToSet(queue') = ToSet(queue) \cup new
  BY <1>1, <1>4, <1>5, <1>6, ConcatApart
<1>8. ToSet(queue') = {e \in Events : link'[e] # "none"}
  BY <1>2, <1>3, <1>4, <1>7
<1>9. QueueOK'
  BY <1>7, <1>8 DEF QueueOK, IsInjective, ToSet
<1>10. WorldOK' /\ TriedOK'
  BY <1>2 DEF ScanInv, WorldOK, TriedOK, world
<1>11. ScanOK'
  BY <1>2, ScanFacts DEF ScanOK, ScanPC
<1>12. BusyOK'
  <2>1. \A b \in Bots : bot[b].pc \in {"check", "send", "mark", "fail"} =>
                            bot[b].event \in Events /\ link[bot[b].event] # "none"
    BY LinkFacts DEF ScanInv, BusyOK
  <2>2. QED
    BY <1>2, <1>3, <2>1 DEF BusyOK
<1>13. QED
  BY <1>9, <1>10, <1>11, <1>12

\* What a bot does: a link stays there, and the bot works on one that is.
LEMMA BotStepKeeps ==
    ASSUME ScanInv, NEW b \in Bots,
           Delivers(b) \/ SendFails(b) \/ AnswerLost(b) \/ TaskEnds(b) \/ Crash(b)
    PROVE  WorldOK' /\ TriedOK' /\ ScanOK' /\ QueueOK' /\ BusyOK'
<1> DEFINE Busy(c) == c.pc \in {"check", "send", "mark", "fail"}
<1>1. /\ bot \in [Bots -> Task] /\ link \in [Events -> Links]
      /\ \A c \in Bots : Busy(bot[c]) => bot[c].event \in Events /\ link[bot[c].event] # "none"
  BY LinkFacts DEF ScanInv, BusyOK
<1>2. UNCHANGED <<world, scanned, queue>>
  BY DEF Delivers, Pick, Check, Send, SendFails, AnswerLost, Mark, Fail, TaskEnds, Crash, Start, links
<1>3. faults' \in 0..MaxFaults
  BY ScanFacts, FaultCounts
     DEF Delivers, Pick, Check, Send, SendFails, AnswerLost, Mark, Fail, TaskEnds, Crash, Start
<1>4. \A e \in Events : link'[e] = "none" <=> link[e] = "none"
  <2>1. CASE Mark(b)
    BY <1>1, <2>1 DEF Mark
  <2>2. CASE Fail(b)
    <3>1. link' = [link EXCEPT ![bot[b].event] = IF @ = "sent" THEN @ ELSE "waiting"] /\ Busy(bot[b])
      BY <2>2 DEF Fail, Delay
    <3>2. QED
      BY <1>1, <3>1
  <2>3. CASE ~Mark(b) /\ ~Fail(b)
    <3>1. link' = link
      BY <2>3 DEF Delivers, Pick, Check, Send, SendFails, AnswerLost, TaskEnds, Crash, Start, links
    <3>2. QED
      BY <3>1
  <2>4. QED
    BY <2>1, <2>2, <2>3
<1>5. PICK c : /\ bot' = [bot EXCEPT ![b] = c]
               /\ Busy(c) => c.event \in Events /\ link[c.event] # "none"
  <2>1. CASE \E e \in Events : Pick(b, e)
    <3>1. PICK e \in Events : Pick(b, e)
      BY <2>1
    <3>2. bot' = [bot EXCEPT ![b] = [pc |-> "check", event |-> e]] /\ link[e] # "none"
      BY <3>1 DEF Pick, NewTask, Oldest, Deliverable
    <3> DEFINE d == [pc |-> "check", event |-> e]
    <3>3. d.event = e
      OBVIOUS
    <3> HIDE DEF d
    <3>4. bot' = [bot EXCEPT ![b] = d] /\ (Busy(d) => d.event \in Events /\ link[d.event] # "none")
      BY <3>2, <3>3 DEF d
    <3>5. QED
      BY <3>4
  <2>2. CASE \/ Check(b) \/ SendFails(b) \/ AnswerLost(b)
             \/ \E e \in Events : Send(b, e)
    <3>1. PICK pc : bot' = [bot EXCEPT ![b] = [pc |-> pc, event |-> bot[b].event]] /\ Busy(bot[b])
      BY <2>2 DEF Check, SendFails, AnswerLost, Send, NewTask
    <3> DEFINE d == [pc |-> pc, event |-> bot[b].event]
    <3>2. d.event = bot[b].event
      OBVIOUS
    <3> HIDE DEF d
    <3>3. bot' = [bot EXCEPT ![b] = d] /\ (Busy(d) => d.event \in Events /\ link[d.event] # "none")
      BY <1>1, <3>1, <3>2 DEF d
    <3>4. QED
      BY <3>3
  <2>3. CASE Mark(b) \/ Fail(b) \/ Start(b) \/ TaskEnds(b) \/ Crash(b)
    <3>1. PICK pc \in {"idle", "ended", "down"} : bot' = [bot EXCEPT ![b] = [pc |-> pc, event |-> 0]]
      BY <2>3 DEF Mark, Fail, Start, TaskEnds, Crash, NewTask, Idle
    <3> DEFINE d == [pc |-> pc, event |-> 0]
    <3>2. ~Busy(d)
      OBVIOUS
    <3>3. bot' = [bot EXCEPT ![b] = d]
      BY <3>1
    <3> HIDE DEF d
    <3>4. QED
      BY <3>2, <3>3
  <2>4. QED
    BY <2>1, <2>2, <2>3 DEF Delivers
<1>6. BusyOK'
  <2>1. SUFFICES ASSUME NEW d \in Bots, Busy(bot'[d])
                 PROVE  link'[bot'[d].event] # "none"
    BY DEF BusyOK
  <2>2. bot'[d] = IF d = b THEN c ELSE bot[d]
    BY <1>1, <1>5
  <2>3. bot'[d].event \in Events /\ link[bot'[d].event] # "none"
    BY <1>1, <1>5, <2>1, <2>2
  <2>4. QED
    BY <1>4, <2>3
<1>7. QueueOK'
  <2>1. QueueOK /\ queue' = queue
    BY <1>2 DEF ScanInv
  <2>2. {e \in Events : link'[e] # "none"} = {e \in Events : link[e] # "none"}
    BY <1>4
  <2>3. QED
    BY <2>1, <2>2 DEF QueueOK
<1>8. WorldOK' /\ TriedOK' /\ ScanOK'
  BY <1>2, <1>3 DEF ScanInv, WorldOK, TriedOK, ScanOK, world, scanned
<1>9. QED
  BY <1>6, <1>7, <1>8

LEMMA ScanStep ==
    ASSUME ScanInv, [LinkNext]_linkVars
    PROVE  ScanInv'
<1>1. LinkInv'
  BY LinkStep DEF ScanInv
<1>2. WorldOK' /\ TriedOK' /\ ScanOK' /\ QueueOK' /\ BusyOK'
  <2>1. CASE UNCHANGED linkVars
    BY <2>1 DEF linkVars, world, scanned, links, ScanInv, WorldOK, TriedOK, ScanOK, QueueOK, BusyOK
  <2>2. QED
    BY <2>1, TimeKeeps, ScanKeeps, NextEventKeeps, ImportSucceedsKeeps, ReserveKeeps, BotStepKeeps
       DEF LinkNext, Scans
<1>3. QED
  BY <1>1, <1>2 DEF ScanInv

\* For any events: a link is created once and stays in the queue of its
\* creation, a bot works on a link that is there, and what the scan has left
\* are events it has yet to import (reserve_eligible, _scan_live_events).
THEOREM ScanInvariance == LinkSpec => []ScanInv
  BY ScanStarts, ScanStep, PTL DEF LinkSpec

\* The rows and the local data of the scan and of the bots keep their types;
\* the queue holds every link once.
THEOREM LinkTypeCorrect == LinkSpec => []LinkTypeOK
  BY ScanInvariance, InvImpliesLinkType, PTL

-----------------------------------------------------------------------------
\* Both tasks in one bot: neither changes what the other has told Discord, so
\* each keeps its promises, and its rows their types, for every value of the
\* constants.
THEOREM NotificationsAreSafe ==
    Spec => [](TypeOK /\ CopiesAreExplained /\ OneReportPerWeek /\ PagesAreAccountedFor)
<1>1. Init => LinkInit /\ WeekInit
  BY DEF Init
<1>2. [Next]_vars => [LinkNext]_linkVars /\ [WeekNext]_postVars
  BY DEF Next, vars
<1>3. Spec => LinkSpec /\ WeekSpec
  BY <1>1, <1>2, PTL DEF Spec, LinkSpec, WeekSpec
<1>4. LinkTypeOK /\ WeekInv => TypeOK
  BY DEF TypeOK, WeekInv
<1>5. QED
  BY <1>3, <1>4, WeekInvariance, LinkTypeCorrect, CopiesExplained, OneReport,
     PagesAccountedFor, PTL
=============================================================================
