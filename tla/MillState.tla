------------------------------ MODULE MillState ------------------------------
(***************************************************************************)
(* The position of a game of N men's morris and the helpers of             *)
(* crates/tgf-mill/src/rules that read or rewrite one: line geometry,      *)
(* captures (captures.rs), phase transitions and bookkeeping               *)
(* (transitions.rs).                                                       *)
(*                                                                         *)
(* The source mutates a `MillState` in place; here every helper is an      *)
(* operator that returns the new record, under the name it has in the      *)
(* source.  A bitboard is a set of nodes and a set of mill-line bits is a  *)
(* set of lines.  The caches derived from the board (by_color_bb,          *)
(* mobility_diff, zobrist_key), the UI hint preferred_remove_target (-1 in *)
(* play) and the write-only used_mill_lines and move_number are left out.  *)
(* The capture counts of the source are functions of the target sets and   *)
(* are computed from them.                                                 *)
(*                                                                         *)
(* An operator named BUG_... is a plausible mistake in the operator it     *)
(* precedes and is used by no definition: put in that operator's place it  *)
(* makes some property fail, which shows that the property can.            *)
(***************************************************************************)
EXTENDS Integers, FiniteSets, Sequences

CONSTANTS
  Nodes,          \* the points of the board (0..23 in the source)
  Neighbors,      \* Neighbors[diagonal][n]: the points adjacent to n
  StandardLines,  \* the mill lines of the board without diagonals
  DiagonalLines,  \* its diagonals, as triples <<end, middle, end>>
  EdgeLines,      \* capture lines along the square edges, as triples
  CrossLines,     \* capture lines along the cross spokes, as triples
  HistoryCap      \* MILL_REPETITION_HISTORY_CAP

Sides == {0, 1}
NONE == -1        \* empty point, no side to move, no winner, no square
DRAW == 2         \* `winner` of a drawn game
Opp(c) == 1 - c

MillFormationActions == {"RemoveOpponentsPieceFromBoard",
  "RemoveOpponentsPieceFromHandThenOpponentsTurn",
  "RemoveOpponentsPieceFromHandThenYourTurn",
  "OpponentRemovesOwnPiece", "MarkAndDelayRemovingPieces",
  "RemovalBasedOnMillCounts"}
BoardFullActions == {"FirstPlayerLose", "FirstAndSecondPlayerRemovePiece",
  "SecondAndFirstPlayerRemovePiece", "SideToMoveRemovePiece", "AgreeToDraw"}
StalemateActions == {"EndWithStalemateLoss", "ChangeSideToMove",
  "RemoveOpponentsPieceAndMakeNextMove",
  "RemoveOpponentsPieceAndChangeSideToMove",
  "EndWithStalemateDraw", "BothPlayersRemoveOpponentsPiece"}

CaptureRuleConfigs ==
  [enabled: BOOLEAN, in_placing_phase: BOOLEAN, in_moving_phase: BOOLEAN,
   on_square_edges: BOOLEAN, on_cross_lines: BOOLEAN,
   on_diagonal_lines: BOOLEAN, only_available_when_own_pieces_leq3: BOOLEAN]

MillVariantOptions ==
  [piece_count: Nat, fly_piece_count: Nat, pieces_at_least_count: Nat,
   has_diagonal_lines: BOOLEAN, may_fly: BOOLEAN,
   may_move_in_placing_phase: BOOLEAN, is_defender_move_first: BOOLEAN,
   may_remove_multiple: BOOLEAN, may_remove_from_mills_always: BOOLEAN,
   restrict_repeated_mills_formation: BOOLEAN, one_time_use_mill: BOOLEAN,
   stop_placing_when_two_empty_squares: BOOLEAN,
   threefold_repetition_rule: BOOLEAN,
   n_move_rule: Nat, endgame_n_move_rule: Nat,
   mill_formation_action_in_placing_phase: MillFormationActions,
   board_full_action: BoardFullActions, stalemate_action: StalemateActions,
   custodian_capture: CaptureRuleConfigs,
   intervention_capture: CaptureRuleConfigs,
   leap_capture: CaptureRuleConfigs]

(* A capture line joins two different ends.                                *)
CaptureTriples == {l \in Nodes \X Nodes \X Nodes : l[1] # l[3]}

ASSUME BoardAssumption ==
  /\ IsFiniteSet(Nodes)
  /\ NONE \notin Nodes
  /\ Neighbors \in [BOOLEAN -> [Nodes -> SUBSET Nodes]]
  /\ StandardLines \subseteq SUBSET Nodes
  /\ \A l \in StandardLines : Cardinality(l) = 3
  /\ DiagonalLines \in Seq(CaptureTriples)
  /\ EdgeLines \in Seq(CaptureTriples)
  /\ CrossLines \in Seq(CaptureTriples)
  /\ HistoryCap \in Nat \ {0}

Phases == {"Placing", "Moving", "GameOver"}
ActionStates == {"Place", "Select", "Remove", "GameOver"}
Outcomes == {"Ongoing", "LoseFewerThanThree", "DrawFullBoard", "LoseFullBoard",
  "DrawThreefold", "LoseNoLegalMoves", "DrawStalemate", "DrawFiftyMove",
  "DrawEndgameFiftyMove"}

(* What a repetition signature tells apart.  The Zobrist hash is taken to  *)
(* be injective; the capture targets and the removal count it also mixes   *)
(* in are empty in every state whose signature is recorded.                *)
Signatures ==
  [board: [Nodes -> Sides \union {NONE}], marked: SUBSET Nodes,
   side_to_move: Sides]

MillStates ==
  [board: [Nodes -> Sides \union {NONE}],
   marked: SUBSET Nodes,                    \* delayed_marked_pieces
   side_to_move: Sides \union {NONE},
   phase: Phases,
   action: ActionStates,
   pieces_in_hand: [Sides -> Nat],
   pieces_on_board: [Sides -> Int],
   pending_removals: [Sides -> Nat],
   mill_available_at_removal: BOOLEAN,
   stalemate_removing: BOOLEAN,
   both_stalemate_removing: BOOLEAN,
   board_full_removing: BOOLEAN,
   remove_own_piece: [Sides -> BOOLEAN],
   winner: Sides \union {NONE, DRAW},
   outcome_reason: Outcomes,
   ply_since_capture: Nat,
   last_mill_from: [Sides -> Nodes \union {NONE}],
   last_mill_to: [Sides -> Nodes \union {NONE}],
   formed_mills: [Sides -> SUBSET Nodes],   \* formed_mills_bb
   custodian_targets: [Sides -> SUBSET Nodes],
   intervention_targets: [Sides -> SUBSET Nodes],
   leap_targets: [Sides -> SUBSET Nodes],
   key_history: Seq(Signatures)]

Both(x) == [c \in Sides |-> x]

initial_state(o) ==
  [board |-> [n \in Nodes |-> NONE], marked |-> {}, side_to_move |-> 0,
   phase |-> "Placing", action |-> "Place",
   pieces_in_hand |-> Both(o.piece_count), pieces_on_board |-> Both(0),
   pending_removals |-> Both(0), mill_available_at_removal |-> FALSE,
   stalemate_removing |-> FALSE, both_stalemate_removing |-> FALSE,
   board_full_removing |-> FALSE, remove_own_piece |-> Both(FALSE),
   winner |-> NONE, outcome_reason |-> "Ongoing", ply_since_capture |-> 0,
   last_mill_from |-> Both(NONE), last_mill_to |-> Both(NONE),
   formed_mills |-> Both({}), custodian_targets |-> Both({}),
   intervention_targets |-> Both({}), leap_targets |-> Both({}),
   key_history |-> << >>]

-----------------------------------------------------------------------------
(* Occupancy and mills *)

live_piece(s, n) == IF n \in s.marked THEN NONE ELSE s.board[n]
piece_bitboard(s, c) == {n \in Nodes : live_piece(s, n) = c}
board_occupied(s) == {n \in Nodes : s.board[n] # NONE} \union s.marked
empty_squares(s) == Nodes \ board_occupied(s)

(* The source's test `piece_count == 12`: on the 24-point board the two    *)
(* sides' pieces can fill it exactly then.                                 *)
FillsBoard(o) == 2 * o.piece_count = Cardinality(Nodes)

Squares(l) == {l[1], l[2], l[3]}
mill_lines(o) ==
  StandardLines \union
  (IF o.has_diagonal_lines
     THEN {Squares(DiagonalLines[i]) : i \in DOMAIN DiagonalLines} ELSE {})

MillsOf(s, o, c) == {l \in mill_lines(o) : l \subseteq piece_bitboard(s, c)}
mill_members(s, o, c) == UNION MillsOf(s, o, c)
total_mills_count(s, o, c) == Cardinality(MillsOf(s, o, c))
formed_mills_at(s, o, n, c) == {l \in MillsOf(s, o, c) : n \in l}

(* one_time_use_mill: a line whose squares are all recorded for the side   *)
(* has been used.                                                          *)
UsableFor(s, o, c, l) == o.one_time_use_mill => ~(l \subseteq s.formed_mills[c])
BUG_used_lines_kept(s, o, lines) == lines

usable_mills(s, o, lines) ==
  {l \in lines : UsableFor(s, o, s.side_to_move, l)}

(* Usable lines that c would complete by occupying `to`, with the points   *)
(* in `gone` taken to be empty.                                            *)
potential_mills_at(s, o, to, c, gone) ==
  {l \in mill_lines(o) :
     /\ to \in l
     /\ (l \ {to}) \subseteq (piece_bitboard(s, c) \ gone)
     /\ UsableFor(s, o, c, l)}

(* Removals that completing `lines` (never empty here) earns.              *)
removal_count(lines, o) ==
  IF o.may_remove_multiple THEN Cardinality(lines) ELSE 1

note_mill_formation(s, o, c, from, to, lines) ==
  LET noted == o.restrict_repeated_mills_formation
  IN [s EXCEPT
        !.last_mill_from[c] = IF noted THEN from ELSE NONE,
        !.last_mill_to[c] = IF noted THEN to ELSE NONE,
        !.formed_mills[c] =
            IF o.one_time_use_mill THEN @ \union UNION lines ELSE @]

-----------------------------------------------------------------------------
(* Custodian, intervention and leap captures *)

active_capture_lines(config, o) ==
     (IF config.on_cross_lines THEN CrossLines ELSE << >>)
  \o (IF config.on_square_edges THEN EdgeLines ELSE << >>)
  \o (IF config.on_diagonal_lines /\ o.has_diagonal_lines
        THEN DiagonalLines ELSE << >>)

LinesOf(config, o) ==
  {active_capture_lines(config, o)[i] :
     i \in DOMAIN active_capture_lines(config, o)}

FirstOf(indices) == {i \in indices : \A j \in indices : i <= j}

capture_phase_allowed(config, s) ==
  /\ config.enabled
  /\ \/ s.phase = "Placing" /\ config.in_placing_phase
     \/ s.phase = "Moving" /\ config.in_moving_phase

capture_piece_count_allowed(config, s) ==
  \/ ~config.only_available_when_own_pieces_leq3
  \/ s.phase # "Moving"
  \/ s.pieces_on_board[s.side_to_move] <= 3

capture_piece_count_allowed_leap(config, s) ==
  \/ ~config.only_available_when_own_pieces_leq3
  \/ s.pieces_on_board[s.side_to_move] <= 3

(* Pieces of c that mill protection leaves removable among `targets`.      *)
Unprotected(s, o, c, targets) ==
  LET members == mill_members(s, o, c)
      exposed == piece_bitboard(s, c) \ members
  IN IF o.may_remove_from_mills_always \/ exposed = {}
       THEN targets ELSE targets \ members

BUG_mills_unprotected(s, o, targets) ==
  targets \intersect piece_bitboard(s, Opp(s.side_to_move))

filter_capture_targets(s, o, targets) ==
  LET them == Opp(s.side_to_move)
  IN Unprotected(s, o, them, targets \intersect piece_bitboard(s, them))

leap_capture_target_is_removable(s, o, mid) ==
  mid \in filter_capture_targets(s, o, {mid})

detect_custodian_targets(s, o, to) ==
  LET config == o.custodian_capture
      us == piece_bitboard(s, s.side_to_move)
      bracketed == {l[2] : l \in {k \in LinesOf(config, o) :
                      \/ to = k[1] /\ k[3] \in us
                      \/ to = k[3] /\ k[1] \in us}}
  IN IF /\ capture_phase_allowed(config, s)
        /\ capture_piece_count_allowed(config, s)
       THEN filter_capture_targets(s, o, bracketed) ELSE {}

(* Only the first line in table order counts, and mill protection filters  *)
(* that line alone.                                                        *)
detect_intervention_targets(s, o, to) ==
  LET config == o.intervention_capture
      lines == active_capture_lines(config, o)
      them == piece_bitboard(s, Opp(s.side_to_move))
      between == {i \in DOMAIN lines : /\ to = lines[i][2]
                                       /\ {lines[i][1], lines[i][3]} \subseteq them}
  IN IF /\ capture_phase_allowed(config, s)
        /\ capture_piece_count_allowed(config, s)
       THEN filter_capture_targets(s, o,
              UNION {{lines[i][1], lines[i][3]} : i \in FirstOf(between)})
       ELSE {}

detect_leap_targets(s, o, from, to) ==
  LET config == o.leap_capture
      jumped == {l[2] : l \in {k \in LinesOf(config, o) :
                   \/ to = k[3] /\ from = k[1]
                   \/ to = k[1] /\ from = k[3]}}
  IN IF /\ capture_phase_allowed(config, s)
        /\ capture_piece_count_allowed_leap(config, s)
       THEN filter_capture_targets(s, o, jumped) ELSE {}

clear_capture_state(s) ==
  [s EXCEPT !.custodian_targets = Both({}), !.intervention_targets = Both({}),
            !.leap_targets = Both({}), !.mill_available_at_removal = FALSE]

clear_capture_state_for_side(s, c) ==
  [s EXCEPT !.custodian_targets[c] = {}, !.intervention_targets[c] = {},
            !.leap_targets[c] = {}, !.mill_available_at_removal = FALSE]

activate_capture_state(s, custodian, intervention, leap) ==
  [s EXCEPT !.custodian_targets[s.side_to_move] = custodian,
            !.intervention_targets[s.side_to_move] = intervention,
            !.leap_targets[s.side_to_move] = leap]

(* A custodian capture takes one of its candidates, the others take all.   *)
capture_total(s) ==
  LET c == s.side_to_move
  IN (IF s.custodian_targets[c] = {} THEN 0 ELSE 1)
     + Cardinality(s.intervention_targets[c]) + Cardinality(s.leap_targets[c])

capture_targets(s) ==
  LET c == s.side_to_move
  IN s.custodian_targets[c] \union s.intervention_targets[c]
     \union s.leap_targets[c]

find_paired_intervention_target(removed, targets, o) ==
  LET lines == active_capture_lines(o.intervention_capture, o)
      Far(l) == IF removed = l[1] THEN l[3] ELSE l[1]
      paired == {i \in DOMAIN lines :
                   /\ removed \in {lines[i][1], lines[i][3]}
                   /\ Far(lines[i]) \in targets}
  IN IF paired = {} THEN targets \ {removed}
     ELSE {Far(lines[i]) : i \in FirstOf(paired)}

-----------------------------------------------------------------------------
(* Phase transitions and bookkeeping *)

synced_action(s) ==
  IF s.phase = "GameOver" THEN "GameOver"
  ELSE IF s.side_to_move \in Sides /\ s.pending_removals[s.side_to_move] > 0
    THEN "Remove"
  ELSE IF s.phase = "Placing" THEN "Place" ELSE "Select"

sync_action_state(s) == [s EXCEPT !.action = synced_action(s)]

game_over(s, winner, reason) ==
  [s EXCEPT !.phase = "GameOver", !.winner = winner,
            !.outcome_reason = reason, !.side_to_move = NONE]

BUG_phase_kept(s) == s

(* The phase follows the hand of the side to move.                         *)
sync_phase_with_active_hand(s) ==
  IF s.phase = "GameOver" \/ s.side_to_move = NONE THEN s
  ELSE [s EXCEPT !.phase = IF s.pieces_in_hand[s.side_to_move] = 0
                             THEN "Moving" ELSE "Placing"]

(* One removal each, of their own pieces, when neither side has a mill;    *)
(* otherwise the side with fewer mills is owed that many, at least one,    *)
(* and the other one more, or as many on a tie.                            *)
apply_removal_based_on_mill_counts(s, o) ==
  LET m == [c \in Sides |-> total_mills_count(s, o, c)]
      Owed(c) ==
        IF m[0] = 0 /\ m[1] = 0 THEN 1
        ELSE IF m[Opp(c)] = 0 THEN 2
        ELSE IF m[c] = 0 THEN 1
        ELSE IF m[c] > m[Opp(c)] THEN m[Opp(c)] + 1 ELSE m[c]
  IN [s EXCEPT !.remove_own_piece = Both(m[0] = 0 /\ m[1] = 0),
               !.pending_removals = [c \in Sides |-> Owed(c)],
               !.mill_available_at_removal = TRUE]

FromHandActions == {"RemoveOpponentsPieceFromHandThenOpponentsTurn",
                    "RemoveOpponentsPieceFromHandThenYourTurn"}

(* Variants in which the side to move survives the end of placing.         *)
KeepsSideAtPlacingEnd(o) ==
  LET action == o.mill_formation_action_in_placing_phase
  IN /\ action \notin {"MarkAndDelayRemovingPieces", "RemovalBasedOnMillCounts"}
     /\ \/ action = "RemoveOpponentsPieceFromHandThenOpponentsTurn"
        \/ /\ action = "RemoveOpponentsPieceFromHandThenYourTurn"
           /\ o.may_remove_multiple
        \/ o.may_move_in_placing_phase

BUG_marks_forgotten(s) == [s EXCEPT !.marked = {}]

sweep_marked(s) ==
  [s EXCEPT !.marked = {},
            !.board = [n \in Nodes |->
                         IF n \in s.marked THEN NONE ELSE s.board[n]]]

enter_moving_phase(s, o) ==
  LET swept == sweep_marked([s EXCEPT !.phase = "Moving"])
      counted ==
        IF o.mill_formation_action_in_placing_phase = "RemovalBasedOnMillCounts"
          THEN apply_removal_based_on_mill_counts(swept, o) ELSE swept
  IN [counted EXCEPT !.side_to_move =
        IF o.is_defender_move_first THEN 1
        ELSE IF KeepsSideAtPlacingEnd(o) THEN @ ELSE 0]

maybe_transition_to_moving(s, o) ==
  LET placed == IF s.phase = "Placing" /\ s.pieces_in_hand = Both(0)
                  THEN enter_moving_phase(s, o) ELSE s
  IN IF /\ FillsBoard(o) /\ o.stop_placing_when_two_empty_squares
        /\ placed.phase = "Placing"
        /\ Cardinality(empty_squares(placed)) <= 2
       THEN enter_moving_phase([placed EXCEPT !.pieces_in_hand = Both(0)], o)
       ELSE placed

maybe_stop_placing_when_two_empty(s, o) ==
  IF /\ FillsBoard(o) /\ o.stop_placing_when_two_empty_squares
     /\ Cardinality(empty_squares(s)) <= 2
    THEN [s EXCEPT !.pieces_in_hand = Both(0)] ELSE s

board_is_full(s) == empty_squares(s) = {}

board_full_removals(s, owed, first) ==
  [s EXCEPT !.pending_removals = owed, !.side_to_move = first,
            !.board_full_removing = TRUE]

maybe_finish_full_board(s, o) ==
  LET action == o.board_full_action
      remover == IF o.is_defender_move_first THEN 1 ELSE 0
  IN IF \/ ~FillsBoard(o) \/ s.phase # "Moving" \/ ~board_is_full(s)
        \/ \E c \in Sides : s.pending_removals[c] > 0
       THEN s
     ELSE IF action = "FirstPlayerLose" THEN game_over(s, 1, "LoseFullBoard")
     ELSE IF action = "AgreeToDraw" THEN game_over(s, DRAW, "DrawFullBoard")
     ELSE IF action = "FirstAndSecondPlayerRemovePiece"
       THEN board_full_removals(s, Both(1), 0)
     ELSE IF action = "SecondAndFirstPlayerRemovePiece"
       THEN board_full_removals(s, Both(1), 1)
     ELSE board_full_removals(s, [Both(0) EXCEPT ![remover] = 1], remover)

(* The tail every completed turn runs.                                     *)
settle(s, o) ==
  sync_action_state(maybe_finish_full_board(
    sync_phase_with_active_hand(maybe_transition_to_moving(s, o)), o))

MoveCounting(s, o) ==
  \/ s.phase = "Moving"
  \/ s.phase = "Placing" /\ o.may_move_in_placing_phase

BUG_never_counts(s, o) == s

bump_ply_since_capture(s, o) ==
  IF MoveCounting(s, o)
    THEN [s EXCEPT !.ply_since_capture = @ + 1] ELSE s

three_piece_endgame(s, o) ==
  /\ o.endgame_n_move_rule > 0
  /\ o.endgame_n_move_rule < o.n_move_rule
  /\ \E c \in Sides : s.pieces_on_board[c] = 3

draw_threshold(s, o) ==
  IF three_piece_endgame(s, o) THEN o.endgame_n_move_rule ELSE o.n_move_rule

n_move_rule_reached(s, o) ==
  draw_threshold(s, o) > 0 /\ s.ply_since_capture >= draw_threshold(s, o)

BUG_only_when_moving(s, o) ==
  IF s.phase = "Moving" /\ n_move_rule_reached(s, o)
    THEN game_over(s, DRAW, "DrawFiftyMove") ELSE s

maybe_draw_by_n_move_rule(s, o) ==
  IF MoveCounting(s, o) /\ n_move_rule_reached(s, o)
    THEN game_over(s, DRAW, IF three_piece_endgame(s, o)
                              THEN "DrawEndgameFiftyMove" ELSE "DrawFiftyMove")
    ELSE s

clear_key_history(s) == [s EXCEPT !.key_history = << >>]

repetition_signature(s) ==
  [board |-> s.board, marked |-> s.marked, side_to_move |-> s.side_to_move]

Occurrences(history, key) ==
  Cardinality({i \in DOMAIN history : history[i] = key})

push_key(s, o) ==
  LET key == repetition_signature(s)
      room == IF Len(s.key_history) >= HistoryCap
                THEN Tail(s.key_history) ELSE s.key_history
  IN IF ~o.threefold_repetition_rule THEN s
     ELSE [s EXCEPT !.key_history = Append(room, key)]

push_key_and_check_threefold(s, o) ==
  LET pushed == push_key(s, o)
  IN IF /\ o.threefold_repetition_rule
        /\ Occurrences(pushed.key_history, repetition_signature(s)) >= 3
       THEN game_over(pushed, DRAW, "DrawThreefold") ELSE pushed
=============================================================================
