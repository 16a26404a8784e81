---------------------------- MODULE RatingQueries ----------------------------
(***************************************************************************)
(* Questions about published ratings (lorcana/ratings/query_service.py,    *)
(* lorcana/teams/query_service.py): "Resolve a publication once, then      *)
(* query only that immutable run", with one statement after another, while *)
(* publications rotate and prune older runs (RatingPublication has the     *)
(* transaction that does; here it is one step).                            *)
(*                                                                         *)
(* Statements are READ COMMITTED: each sees the runs that are there when   *)
(* it starts.  Of a run we keep the players' ratings and how many rated    *)
(* matches each played; wins, names, events, digests, averages and sums    *)
(* come from the same rows and are left out.                               *)
(***************************************************************************)
EXTENDS Naturals, Sequences, FiniteSets

CONSTANTS
    PlayerIds,
    Contents,       \* what runs may hold
    TeamIds,        \* the players linked to the members of a team
    Askers,         \* processes that ask
    MinimumMatches, PageLimit, PageOffset,
    MaxRuns         \* bound on the runs ever built

Standing == [rating : Nat, matches : Nat]
NoRows == [p \in PlayerIds |-> [rating |-> 0, matches |-> 0]]

ASSUME QueryAssumption ==
    /\ PlayerIds \subseteq Nat /\ TeamIds \subseteq PlayerIds
    /\ Contents \subseteq [PlayerIds -> Standing] /\ Contents # {}
    \* A player without rated matches has no row.
    /\ \A rows \in Contents, p \in PlayerIds : rows[p].matches = 0 => rows[p] = NoRows[p]
    /\ {MinimumMatches, PageLimit, MaxRuns} \subseteq Nat \ {0} /\ PageOffset \in Nat

VARIABLES
    built,          \* the contents of all runs so far; a run is its number
    held,           \* the runs whose rows are there
    shown,          \* the row of rating_publications
    known,          \* rows of playhub_players
    asker           \* the question each process asks

queryVars == <<built, held, shown, known, asker>>

Unpublished == 0
NoAnswer == [s \in {} |-> NoRows]
NoQuestion == [pc |-> "idle", kind |-> "rating", player |-> 0, run |-> 0,
               answer |-> NoAnswer, turnovers |-> 0]

\* The statements of each question after the publication was resolved.
Plan == [leaderboard |-> <<"page">>, competitive |-> <<"filtered", "eligible">>,
         rating |-> <<"ranked">>, search |-> <<"found">>,
         profile |-> <<"source", "current", "stats", "history", "best">>,
         history |-> <<"source", "tournaments">>, team |-> <<"several">>]
Kinds == DOMAIN Plan

QueryTypeOK ==
    /\ built \in Seq(Contents) /\ Len(built) <= MaxRuns
    /\ held \subseteq DOMAIN built /\ {shown.current, shown.previous} \subseteq 0..Len(built)
    /\ known \subseteq PlayerIds
    /\ \A a \in Askers :
          /\ asker[a].pc \in {"idle", "resolve", "ask", "answered", "missing"}
          /\ asker[a].kind \in Kinds /\ asker[a].run \in 0..Len(built)

QueryInit ==
    /\ built = <<>> /\ held = {} /\ known \in SUBSET PlayerIds
    /\ shown = [current |-> Unpublished, previous |-> Unpublished]
    /\ asker = [a \in Askers |-> NoQuestion]

-----------------------------------------------------------------------------
(* What the statements answer, given the rows of the run they ask about.   *)

InRun(rows) == {p \in PlayerIds : rows[p].matches > 0}

\* ORDER BY rating DESC, matches_played DESC, player_id
Ahead(rows, p, q) ==
    \/ rows[p].rating > rows[q].rating
    \/ rows[p].rating = rows[q].rating /\ rows[p].matches > rows[q].matches
    \/ rows[p] = rows[q] /\ p < q

\* row_number() OVER that order, among some players.
Numbered(rows, players) ==
    {[player |-> p, standing |-> rows[p],
      rank |-> 1 + Cardinality({q \in players : Ahead(rows, q, p)})] : p \in players}

Ranked(rows) == Numbered(rows, InRun(rows))

LeaderboardPage(rows) ==
    {e \in Ranked(rows) : e.rank > PageOffset /\ e.rank <= PageOffset + PageLimit}

PlayerRating(rows, p) == {e \in Ranked(rows) : e.player = p}

Eligible(rows) == {p \in InRun(rows) : rows[p].matches >= MinimumMatches}
Filtered(rows) == {e \in Numbered(rows, Eligible(rows)) : e.rank <= PageLimit}

\* Every player found has a row, with or without a rating.
Found(rows, p) == {[player |-> q, standing |-> rows[q]] : q \in known \cap {p}}

CurrentRaw(rows, p) == {rows[p]} \ {NoRows[p]}

RankStats(rows, rating) ==
    [total |-> Cardinality(InRun(rows)),
     above |-> Cardinality({q \in InRun(rows) : rows[q].rating > rating}),
     below |-> Cardinality({q \in InRun(rows) : rows[q].rating < rating})]

\* Newest first: a run has a row for each of the player's rated matches.
RatedHistory(rows, p) == [i \in 1..rows[p].matches |-> rows[p].matches + 1 - i]

BestWin(rows, p) == IF rows[p].matches = 0 THEN {} ELSE {<<p, rows[p].rating>>}

\* The matches of the Play Hub tables that are inputs of the run.
RatedMatches(rows, p) == 1..rows[p].matches

CurrentForPlayers(rows) == {[player |-> p, standing |-> rows[p]] : p \in TeamIds \cap InRun(rows)}

Value(statement, rows, p, rating) ==
    CASE statement = "page" -> LeaderboardPage(rows)
      [] statement = "filtered" -> Filtered(rows)
      [] statement = "eligible" -> Cardinality(Eligible(rows))
      [] statement = "ranked" -> PlayerRating(rows, p)
      [] statement = "found" -> Found(rows, p)
      [] statement = "source" -> known \cap {p}
      [] statement = "current" -> CurrentRaw(rows, p)
      [] statement = "stats" -> RankStats(rows, rating)
      [] statement = "history" -> RatedHistory(rows, p)
      [] statement = "best" -> BestWin(rows, p)
      [] statement = "tournaments" -> RatedMatches(rows, p)
      [] statement = "several" -> CurrentForPlayers(rows)

-----------------------------------------------------------------------------
(* The tables change.                                                      *)

\* Mutant: the previous generation goes at once.
RetainsCurrent(publication) == {publication.current}
\* retained_run_ids
Retains(publication) == {publication.current, publication.previous} \ {Unpublished}

Turned ==
    [a \in Askers |-> IF asker[a].run = Unpublished THEN asker[a]
                      ELSE [asker[a] EXCEPT !.turnovers = IF @ < 2 THEN @ + 1 ELSE @]]

\* publish, of a new run or of the previous one by hand, with its pruning.
Shows(publication, runs) ==
    /\ shown' = publication
    /\ held' = runs \cap Retains(publication)
    /\ asker' = Turned
    /\ UNCHANGED known

PublishNew(content) ==
    /\ Len(built) < MaxRuns
    /\ built' = Append(built, content)
    /\ Shows([current |-> Len(built) + 1, previous |-> shown.current], held \cup {Len(built) + 1})

PublishPrevious ==
    /\ shown.previous # Unpublished
    /\ Shows([current |-> shown.previous, previous |-> shown.current], held)
    /\ UNCHANGED built

\* An import stores a player.
LearnPlayer(p) ==
    /\ p \notin known /\ known' = known \cup {p}
    /\ UNCHANGED <<built, held, shown, asker>>

-----------------------------------------------------------------------------
(* The questions.                                                          *)

Asks(a, question) ==
    /\ asker' = [asker EXCEPT ![a] = question]
    /\ UNCHANGED <<built, held, shown, known>>

StartQuestion(a, kind, p) ==
    /\ asker[a].pc \in {"idle", "answered", "missing"}
    /\ Asks(a, [NoQuestion EXCEPT !.pc = "resolve", !.kind = kind, !.player = p])

\* Publication and run are joined in one statement.
Resolve(a) ==
    /\ asker[a].pc = "resolve"
    /\ Asks(a, IF shown.current \in held
               THEN [asker[a] EXCEPT !.pc = "ask", !.run = shown.current]
               ELSE [asker[a] EXCEPT !.pc = "missing"])     \* RatingPublicationNotFound

RowsSeen(r) == IF r \in held THEN built[r] ELSE NoRows

\* The rating of a player whose current row was found.
RatingOf(answer) ==
    IF "current" \in DOMAIN answer
    THEN (CHOOSE standing \in answer["current"] : TRUE).rating ELSE 0

With(answer, statement, value) ==
    [s \in DOMAIN answer \cup {statement} |-> IF s = statement THEN value ELSE answer[s]]

\* player_profile and player_history return without a player, and the former
\* without a rating.
EndsEarly(statement, value) == statement \in {"source", "current"} /\ value = {}

AskNext(a) ==
    LET q == asker[a]
        statement == Plan[q.kind][Cardinality(DOMAIN q.answer) + 1]
        value == Value(statement, RowsSeen(q.run), q.player, RatingOf(q.answer))
    IN  /\ q.pc = "ask"
        /\ Asks(a, [q EXCEPT
              !.answer = With(@, statement, value),
              !.pc = IF \/ EndsEarly(statement, value)
                        \/ Cardinality(DOMAIN q.answer) + 1 = Len(Plan[q.kind])
                     THEN "answered" ELSE "ask"])

QueryNext ==
    \/ \E content \in Contents : PublishNew(content)
    \/ PublishPrevious
    \/ \E p \in PlayerIds : LearnPlayer(p)
    \/ \E a \in Askers :
          \/ \E kind \in Kinds, p \in PlayerIds : StartQuestion(a, kind, p)
          \/ Resolve(a) \/ AskNext(a)

-----------------------------------------------------------------------------
\* The statements that are asked when all of them see these rows.
Needed(kind, rows, p, answer) ==
    IF "source" \in DOMAIN answer /\ answer["source"] = {} THEN {"source"}
    ELSE IF kind = "profile" /\ rows[p].matches = 0 THEN {"source", "current"}
    ELSE {Plan[kind][i] : i \in DOMAIN Plan[kind]}

OfRun == {"page", "filtered", "eligible", "ranked", "current", "stats", "history", "best",
          "tournaments", "several"}

\* "Resolve a publication once, then query only that immutable run": an answer
\* during which at most one publication turned over is complete, and all its
\* parts - ranks, counts, histories - are those of the run it names, also if
\* another run is current by then.
AnswersAreOfOneRun ==
    \A a \in Askers :
        LET q == asker[a]
            rows == built[q.run]
            rating == rows[q.player].rating
        IN  q.pc = "answered" /\ q.turnovers <= 1 =>
              /\ DOMAIN q.answer = Needed(q.kind, rows, q.player, q.answer)
              /\ \A s \in DOMAIN q.answer \cap OfRun :
                    q.answer[s] = Value(s, rows, q.player, rating)
              /\ "found" \in DOMAIN q.answer =>
                    \A e \in q.answer["found"] : e.standing = rows[e.player]
=============================================================================
