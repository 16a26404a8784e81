---------------------------- MODULE ReplayParser ----------------------------
(***************************************************************************)
(* A Duels game recorded frame by frame, and the parser that rebuilds it:  *)
(* patches applied to the visible state, the lines of the log that belong  *)
(* to each frame, and the actions that undos take back                     *)
(* (lorcana/duels/replay_parser.py).                                       *)
(*                                                                         *)
(* The game is what the parser takes for granted of Duels; the parser is   *)
(* the operator Parse.  A game may stop after any frame.  A card is one    *)
(* instance; what is known of it is left out, as are the other player's    *)
(* zones, the inkwell, the winner and the rendering of the result.         *)
(***************************************************************************)
EXTENDS Naturals, Sequences, SequencesExt, Functions

CONSTANTS
    Deck,           \* cards in the deck, told apart by their position
    MaxFrames,
    MaxPrompts,     \* prompts of an ability
    Window          \* frames after an ability that may name it (3)

ASSUME ParserAssumption ==
    {Deck, MaxFrames, MaxPrompts, Window} \subseteq Nat /\ 2 <= Deck

VARIABLES
    board,          \* the visible state
    past,           \* it before each frame
    drawn,          \* cards drawn from the deck so far
    frames,
    logs,
    force,          \* the frames that no undo took back
    cuts,           \* whether an undo cuts the log or only goes on with it
    terse           \* whether Duels leaves the card that is played to the log,
                    \* and writes "replace" where it adds to a list

style == <<cuts, terse>>
parserVars == <<board, past, drawn, frames, logs, force, style>>

Cards == 1..Deck
NoCard == 0
Zones == {"hand", "field", "discard"}

\* Every line is told apart by the frame that wrote it.
Line(type, card) == [of |-> Len(frames) + 1, type |-> type, card |-> card]

ParserTypeOK ==
    /\ \A z \in Zones : board[z] \in Seq(Cards)
    /\ Len(frames) \in 0..MaxFrames /\ Len(past) = Len(frames)
    /\ force \subseteq 1..Len(frames)
    /\ \A i \in DOMAIN frames : frames[i].count \in Nat
    /\ cuts \in BOOLEAN /\ terse \in BOOLEAN

\* baseSnapshot: two cards in hand, before the mulligan or after it.
Base(status) == [status |-> status, turn |-> 1,
                 hand |-> <<1, 2>>, field |-> <<>>, discard |-> <<>>]

ParserInit ==
    /\ board \in {Base("mulligan"), Base("playing")}
    /\ past = <<>> /\ drawn = 2
    /\ frames = <<>> /\ logs = <<>> /\ force = {}
    /\ cuts \in BOOLEAN /\ terse \in BOOLEAN

-----------------------------------------------------------------------------
(* Patches.  An operation is at a key of the state, or at a position of a  *)
(* zone; position p here is index p - 1 there.                             *)

Op(op, key, at, value) == [op |-> op, key |-> key, at |-> at, value |-> value]

\* No state: the operation raised, and with it parse_replay.
Broken == [status |-> "broken"]

SetKey(doc, key, value) ==
    [k \in DOMAIN doc \cup {key} |-> IF k = key THEN value ELSE doc[k]]

\* apply_duels_patch_operation: "replace" sets, at the end of a list too, and
\* what is not there is removed without an error.
Apply(doc, o) ==
    LET list == doc[o.key]
    IN  CASE doc = Broken -> Broken
          [] o.at = 0 /\ o.op = "remove" -> Restrict(doc, DOMAIN doc \ {o.key})
          [] o.at = 0 /\ o.op # "remove" -> SetKey(doc, o.key, o.value)
          [] o.at > 0 /\ o.op = "remove" ->
                IF o.at <= Len(list) THEN SetKey(doc, o.key, RemoveAt(list, o.at))
                ELSE doc
          [] o.at > 0 /\ o.op # "remove" /\ o.at > Len(list) + 1 -> Broken
          [] o.op = "add" /\ o.at \in 1..(Len(list) + 1) ->
                SetKey(doc, o.key, InsertAt(list, o.at, o.value))
          [] o.op = "replace" /\ o.at = Len(list) + 1 ->
                SetKey(doc, o.key, Append(list, o.value))
          [] o.op = "replace" /\ o.at \in DOMAIN list ->
                SetKey(doc, o.key, [list EXCEPT ![o.at] = o.value])

\* apply_duels_patch
Patched(doc, patch) == FoldLeft(Apply, doc, patch)

\* The patches Duels sends: elements are replaced, then added, or the surplus
\* is removed from the end.
Ascending(a, b) == [i \in 1..(b + 1 - a) |-> a + i - 1]
ListPatch(key, from, to) ==
    LET both == IF Len(from) < Len(to) THEN Len(from) ELSE Len(to)
        differ == SelectSeq(Ascending(1, both), LAMBDA i : from[i] # to[i])
        more == Ascending(both + 1, Len(to))
        less == Reverse(Ascending(both + 1, Len(from)))
    IN  [i \in DOMAIN differ |-> Op("replace", key, differ[i], to[differ[i]])]
        \o [i \in DOMAIN more |-> Op(IF terse THEN "replace" ELSE "add", key, more[i], to[more[i]])]
        \o [i \in DOMAIN less |-> Op("remove", key, less[i], NoCard)]

KeyPatch(key, from, to) ==
    IF key \notin DOMAIN to THEN <<Op("remove", key, 0, NoCard)>>
    ELSE IF key \in DOMAIN from /\ from[key] = to[key] THEN <<>>
    ELSE <<Op("replace", key, 0, to[key])>>

Patch(from, to) ==
    FoldLeft(LAMBDA p, z : p \o ListPatch(z, from[z], to[z]),
             FoldLeft(LAMBDA p, k : p \o KeyPatch(k, from, to), <<>>,
                      <<"status", "turn", "prompt">>),
             <<"hand", "field", "discard">>)

-----------------------------------------------------------------------------
(* The game.                                                               *)

\* A frame leads to board b and writes lines.  A card that takenAction names
\* is named; others are left to the log.
Record(type, named, target, b, lines) ==
    /\ Len(frames) < MaxFrames
    /\ board' = b
    /\ past' = Append(past, board)
    /\ logs' = logs \o lines
    /\ frames' = Append(frames, [type |-> type, card |-> named, target |-> target,
                                 patch |-> Patch(board, b),
                                 count |-> Len(logs) + Len(lines)])
    /\ force' = force \cup {Len(frames) + 1}
    /\ UNCHANGED style

Playing == board.status = "playing" /\ "prompt" \notin DOMAIN board

Mulligan ==
    /\ board.status = "mulligan"
    /\ \E n \in 0..2 :
          /\ drawn + n \in Cards
          /\ drawn' = drawn + n
          /\ Record("mulligan", NoCard, n,
                    [board EXCEPT !.status = "playing",
                       !.hand = SubSeq(@, n + 1, 2) \o Ascending(drawn + 1, drawn + n)],
                    <<Line("MULLIGAN", n)>>)

PlayCard ==
    /\ Playing
    /\ \E i \in DOMAIN board.hand :
          LET c == board.hand[i]
          IN  Record("play", IF terse THEN NoCard ELSE c, c,
                     [board EXCEPT !.hand = RemoveAt(@, i), !.field = Append(@, c)],
                     <<Line("CARD_PLAYED", c)>>)
    /\ UNCHANGED drawn

\* A card in play is banished: two lines, one of them with the arithmetic.
Challenge ==
    /\ Playing
    /\ \E i \in DOMAIN board.field :
          Record("challenge", board.field[i], board.field[i],
                 [board EXCEPT !.field = RemoveAt(@, i),
                               !.discard = Append(@, board.field[i])],
                 <<Line("CARD_ATTACK", NoCard), Line("CARD_ATTACK", board.field[i])>>)
    /\ UNCHANGED drawn

\* The turn ends with no line of its own; the next hand has one card more.
EndTurn ==
    /\ Playing /\ drawn + 1 \in Cards
    /\ drawn' = drawn + 1
    /\ Record("end_turn", NoCard, NoCard,
              [board EXCEPT !.turn = @ + 1, !.hand = Append(@, drawn + 1)], <<>>)

\* An ability is named by its own frame's log, or prompts somebody first.
Activate ==
    /\ Playing
    /\ \E i \in DOMAIN board.field, n \in 0..MaxPrompts :
          LET c == board.field[i]
          IN  IF n = 0
              THEN Record("ability", NoCard, c, board, <<Line("ABILITY_ACTIVATED", c)>>)
              ELSE Record("ability", NoCard, c,
                          SetKey(board, "prompt", [card |-> c, left |-> n]), <<>>)
    /\ UNCHANGED drawn

Respond ==
    /\ "prompt" \in DOMAIN board
    /\ IF board.prompt.left > 1
       THEN Record("choice", NoCard, board.prompt.card,
                   [board EXCEPT !.prompt.left = @ - 1], <<>>)
       ELSE Record("choice", NoCard, board.prompt.card,
                   Restrict(board, DOMAIN board \ {"prompt"}),
                   <<Line("ABILITY_ACTIVATED", board.prompt.card)>>)
    /\ UNCHANGED drawn

\* FREE_UNDO:t, of an action that is in force and is no undo itself: back to
\* the state before it.  The log is cut, or goes on with a line.
Undo ==
    /\ Len(frames) < MaxFrames
    /\ \E t \in force :
          /\ frames[t].type # "mulligan"
          /\ LET kept == IF cuts THEN SubSeq(logs, 1, IF t = 1 THEN 0
                                                      ELSE frames[t - 1].count)
                         ELSE Append(logs, Line("UNDO", NoCard))
             IN  /\ logs' = kept
                 /\ frames' = Append(frames,
                                     [type |-> "undo", card |-> NoCard, target |-> t,
                                      patch |-> Patch(board, past[t]),
                                      count |-> Len(kept)])
          /\ board' = past[t]
          /\ force' = force \cap 1..(t - 1)
    /\ past' = Append(past, board)
    /\ UNCHANGED <<drawn, style>>

ParserNext ==
    Mulligan \/ PlayCard \/ Challenge \/ EndTurn \/ Activate \/ Respond \/ Undo

-----------------------------------------------------------------------------
(* The parser.                                                             *)

\* Mutant: the position is kept when the count has gone down.
SliceForward(prev, count) ==
    IF count < prev THEN [lines |-> <<>>, count |-> prev]
    ELSE LET end == IF count > Len(logs) THEN Len(logs) ELSE count
         IN  [lines |-> SubSeq(logs, prev + 1, end), count |-> end]
\* get_frame_logs, of the log as it is when the game is over.
Slice(prev, count) ==
    IF count < prev THEN [lines |-> <<>>, count |-> count]
    ELSE LET end == IF count > Len(logs) THEN Len(logs) ELSE count
         IN  [lines |-> SubSeq(logs, prev + 1, end), count |-> end]

\* first_log and what infer_*_from_logs take from it
Named(lines, type) ==
    LET of == SelectSeq(lines, LAMBDA l : l.type = type)
    IN  IF of = <<>> THEN NoCard ELSE Head(of).card

\* find_card_in_state
ZoneOf(doc, c) ==
    IF \E z \in Zones : \E i \in DOMAIN doc[z] : doc[z][i] = c
    THEN CHOOSE z \in Zones : \E i \in DOMAIN doc[z] : doc[z][i] = c
    ELSE "none"

\* compare_hands: the cards of the hand before that are gone.
SentBack(before, after) ==
    SelectSeq(before.hand, LAMBDA c : \A i \in DOMAIN after.hand : after.hand[i] # c)

\* challenge_from_frame
Moved(card, before, after) == <<ZoneOf(before, card), ZoneOf(after, card)>>

\* prompt_summary
Prompt(doc) == IF "prompt" \in DOMAIN doc THEN doc.prompt.card ELSE NoCard

\* The entry of a frame: what every type has, and what its own branch adds.
Entry(seq, f, before, after, lines) ==
    [seq |-> seq, type |-> f.type, lines |-> lines, undone |-> FALSE,
     turn |-> IF before.status = "playing" THEN before.turn ELSE 0,
     card |-> CASE f.card # NoCard -> f.card
                [] f.type = "play" -> Named(lines, "CARD_PLAYED")
                [] f.type = "ability" -> Named(lines, "ABILITY_ACTIVATED")
                [] OTHER -> NoCard,
     moved |-> IF f.type = "challenge" THEN Moved(f.card, before, after) ELSE <<>>,
     sent |-> IF f.type = "mulligan" THEN Len(SentBack(before, after)) ELSE 0,
     prompt |-> IF f.type = "choice" THEN Prompt(before) ELSE NoCard]

\* The range of an undo: from its target on, and up to itself.
TakenBack(a, f) == f.target <= a.seq

ParseFrame(p, f) ==
    LET seq == Len(p.actions) + 1
        slice == Slice(p.prev, f.count)
        after == Patched(p.state, f.patch)
        priors == [i \in DOMAIN p.actions |->
                      [p.actions[i] EXCEPT !.undone =
                          @ \/ (f.type = "undo" /\ TakenBack(p.actions[i], f))]]
    IN  [state |-> after, prev |-> slice.count,
         actions |-> Append(priors, Entry(seq, f, p.state, after, slice.lines))]

\* The responses that follow an ability at once, as far as the window goes.
FollowUp(actions, i) ==
    LET last == IF i + Window < Len(actions) THEN i + Window ELSE Len(actions)
        run == {k \in (i + 1)..last :
                   \A j \in (i + 1)..k : actions[j].type = "choice"}
        naming == {k \in run : Named(actions[k].lines, "ABILITY_ACTIVATED") # NoCard}
    IN  IF naming = {} THEN NoCard
        ELSE Named(actions[CHOOSE k \in naming : \A j \in naming : k <= j].lines,
                   "ABILITY_ACTIVATED")

\* parse_replay
Parse ==
    LET base == IF past = <<>> THEN board ELSE past[1]
        p == FoldLeft(ParseFrame, [state |-> base, prev |-> 0, actions |-> <<>>],
                      frames)
    IN  [state |-> p.state,
         actions |-> [i \in DOMAIN p.actions |->
                        IF p.actions[i].type = "ability" /\ p.actions[i].card = NoCard
                        THEN [p.actions[i] EXCEPT !.card = FollowUp(p.actions, i)]
                        ELSE p.actions[i]]]

-----------------------------------------------------------------------------
(* The lines that a frame wrote and that are still in the log.             *)
Own(seq) == SelectSeq(logs, LAMBDA l : l.of = seq)

(* Whatever was undone, and however Duels keeps its log, the rebuilt state *)
(* is the state of the game, and the effective actions are the actions in  *)
(* force, each with the turn it was made in, the lines it wrote, and the   *)
(* cards it was about - or none, where the log does not tell: they are the *)
(* evidence that features, summaries and the coach go by (parse_replay).   *)
EffectiveActionsAreTheGame ==
    LET parsed == Parse
    IN  /\ parsed.state = board
        /\ {i \in 1..Len(frames) : ~parsed.actions[i].undone /\ frames[i].type # "undo"}
             = force
        /\ \A i \in force :
              LET a == parsed.actions[i]
                  truth == frames[i].target
              IN  /\ a.turn = IF past[i].status = "playing" THEN past[i].turn ELSE 0
                  /\ a.lines = Own(i)
                  /\ a.type \in {"play", "challenge"} => a.card = truth
                  /\ a.type = "ability" => a.card \in {truth, NoCard}
                  /\ a.type = "challenge" => a.moved = <<"field", "discard">>
                  /\ a.type = "mulligan" => a.sent = truth
                  /\ a.type = "choice" => a.prompt = truth
=============================================================================
