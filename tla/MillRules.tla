------------------------------ MODULE MillRules ------------------------------
(***************************************************************************)
(* The rules engine of crates/tgf-mill: which actions are legal in a       *)
(* position (legal_actions.rs) and what applying one does                  *)
(* (legal_apply.rs).  A behaviour is a whole game: `options` is the        *)
(* variant, fixed in the initial state, and `state` the position.          *)
(***************************************************************************)
EXTENDS MillState

CONSTANT Variants   \* the variant options games are played with

(* What MillVariantOptions::assert_valid relates: the small games of the   *)
(* checks keep that relation and not its absolute ranges.                  *)
ASSUME VariantsAssumption ==
  /\ Variants \subseteq MillVariantOptions
  /\ \A o \in Variants : /\ o.piece_count > 0
                         /\ o.pieces_at_least_count <= o.piece_count

VARIABLES options, state
vars == <<options, state>>

-----------------------------------------------------------------------------
(* Blocked sides *)

AdjacentTo(o, n) == Neighbors[o.has_diagonal_lines][n]
empty_adjacent(s, o, n) == AdjacentTo(o, n) \ board_occupied(s)

BUG_same_direction(s, o, c, from, to) ==
  /\ o.restrict_repeated_mills_formation
  /\ from = s.last_mill_from[c] /\ to = s.last_mill_to[c]

(* restrict_repeated_mills_formation: a usable mill may not be opened and  *)
(* closed again by shuttling the piece that closed it back.                *)
is_restricted_repeated_mill(s, o, c, from, to) ==
  /\ o.restrict_repeated_mills_formation
  /\ s.last_mill_from[c] # NONE /\ s.last_mill_to[c] # NONE
  /\ from = s.last_mill_to[c] /\ to = s.last_mill_from[c]
  /\ potential_mills_at(s, o, from, c, {}) # {}
  /\ potential_mills_at(s, o, to, c, {from}) # {}

OnBoard(s) == s.pieces_on_board[0] + s.pieces_on_board[1]
BelowFlyLimit(s, o, c) == o.may_fly /\ s.pieces_on_board[c] <= o.fly_piece_count

piece_is_stuck(s, o, c, from) ==
  \/ empty_adjacent(s, o, from) = {}
  \/ \E to \in empty_adjacent(s, o, from) :
       /\ empty_adjacent(s, o, from) = {to}
       /\ is_restricted_repeated_mill(s, o, c, from, to)

BUG_wrong_side(s, o, c) ==
  /\ ~BelowFlyLimit(s, o, c)
  /\ \A from \in piece_bitboard(s, Opp(c)) : piece_is_stuck(s, o, Opp(c), from)

is_all_surrounded(s, o, c) ==
  \/ OnBoard(s) >= Cardinality(Nodes)
  \/ /\ ~BelowFlyLimit(s, o, c)
     /\ \A from \in piece_bitboard(s, c) : piece_is_stuck(s, o, c, from)

StalemateRemovals == {"RemoveOpponentsPieceAndMakeNextMove",
  "RemoveOpponentsPieceAndChangeSideToMove", "BothPlayersRemoveOpponentsPiece"}

resolve_stalemate(s, o) ==
  LET c == s.side_to_move
      action == o.stalemate_action
      owing == [s EXCEPT !.pending_removals[c] = 1]
  IN IF action = "EndWithStalemateLoss"
       THEN [s EXCEPT !.phase = "GameOver", !.winner = Opp(c),
                      !.outcome_reason = "LoseNoLegalMoves"]
     ELSE IF action = "EndWithStalemateDraw"
       THEN [s EXCEPT !.phase = "GameOver", !.winner = DRAW,
                      !.outcome_reason = "DrawStalemate"]
     ELSE IF action = "ChangeSideToMove"
       THEN sync_phase_with_active_hand([s EXCEPT !.side_to_move = Opp(c)])
     ELSE IF action = "RemoveOpponentsPieceAndMakeNextMove"
       THEN clear_capture_state([owing EXCEPT !.stalemate_removing = TRUE])
     ELSE IF action = "RemoveOpponentsPieceAndChangeSideToMove"
       THEN clear_capture_state(owing)
     ELSE clear_capture_state([owing EXCEPT !.pending_removals[Opp(c)] = 1,
                                            !.both_stalemate_removing = TRUE])

is_stalemate(s, o) ==
  /\ s.phase = "Moving" /\ s.side_to_move # NONE
  /\ s.pending_removals[s.side_to_move] = 0
  /\ ~(BelowFlyLimit(s, o, s.side_to_move) /\ OnBoard(s) < Cardinality(Nodes))
  /\ is_all_surrounded(s, o, s.side_to_move)

BUG_action_not_synced(s, o) ==
  IF is_stalemate(s, o) THEN resolve_stalemate(s, o) ELSE s

maybe_handle_stalemate(s, o) ==
  IF is_stalemate(s, o) THEN sync_action_state(resolve_stalemate(s, o)) ELSE s

-----------------------------------------------------------------------------
(* Legal actions *)

PlaceAction(to) == [kind |-> "Place", from |-> NONE, to |-> to]
MoveAction(from, to) == [kind |-> "Move", from |-> from, to |-> to]
RemoveAction(to) == [kind |-> "Remove", from |-> NONE, to |-> to]

leap_enabled(s, o) ==
  /\ s.pieces_in_hand[s.side_to_move] = 0
  /\ capture_phase_allowed(o.leap_capture, s)
  /\ capture_piece_count_allowed_leap(o.leap_capture, s)
  /\ s.phase = "Moving" \/ o.may_move_in_placing_phase

leap_moves(s, o) ==
  LET them == piece_bitboard(s, Opp(s.side_to_move))
      Jumps(l) == {<<l[1], l[2], l[3]>>, <<l[3], l[2], l[1]>>}
      jumps == UNION {Jumps(l) : l \in LinesOf(o.leap_capture, o)}
  IN {<<j[1], j[3]>> : j \in {k \in jumps :
        /\ k[1] \in piece_bitboard(s, s.side_to_move)
        /\ k[3] \in empty_squares(s)
        /\ k[2] \in them
        /\ leap_capture_target_is_removable(s, o, k[2])}}

generate_move_actions(s, o, allow_fly) ==
  LET c == s.side_to_move
      flies == /\ allow_fly /\ s.pieces_in_hand[c] = 0
               /\ BelowFlyLimit(s, o, c)
      steps == {m \in piece_bitboard(s, c) \X empty_squares(s) :
                  flies \/ m[2] \in AdjacentTo(o, m[1])}
      leaps == IF ~flies /\ leap_enabled(s, o) THEN leap_moves(s, o) ELSE {}
  IN {MoveAction(m[1], m[2]) : m \in {x \in steps \union leaps :
        ~is_restricted_repeated_mill(s, o, c, x[1], x[2])}}

is_stalemate_removal_context(s, o) ==
  \/ s.stalemate_removing \/ s.both_stalemate_removing
  \/ /\ o.stalemate_action \in StalemateRemovals
     /\ s.phase = "Moving"
     /\ s.pending_removals[s.side_to_move] > 0
     /\ is_all_surrounded(s, o, s.side_to_move)

(* A stalemate removal takes an opponent's piece next to one of the        *)
(* remover's; any other one respects mill protection.                      *)
regular_remove_targets(s, o, target) ==
  LET us == piece_bitboard(s, s.side_to_move)
      pieces == piece_bitboard(s, target)
  IN IF is_stalemate_removal_context(s, o)
       THEN {n \in pieces : \/ target = s.side_to_move
                            \/ AdjacentTo(o, n) \intersect us # {}}
       ELSE Unprotected(s, o, target, pieces)

generate_remove_actions(s, o) ==
  LET c == s.side_to_move
      captures == capture_targets(s) \intersect piece_bitboard(s, Opp(c))
      regular == IF s.remove_own_piece[c]
                   THEN regular_remove_targets(s, o, c)
                   ELSE regular_remove_targets(s, o, Opp(c))
  IN {RemoveAction(n) : n \in
        IF /\ capture_targets(s) # {}
           /\ s.pending_removals[c] <= capture_total(s)
          THEN captures ELSE captures \union regular}

action_for_legal_generation(s) ==
  IF s.phase = "GameOver" \/ s.side_to_move = NONE THEN "GameOver"
  ELSE IF /\ s.action = "Place"
          /\ s.phase # "Placing" \/ s.pending_removals[s.side_to_move] > 0
    THEN synced_action(s) ELSE s.action

legal_actions(s, o) ==
  LET c == s.side_to_move
      turn == action_for_legal_generation(s)
  IN IF turn = "Remove" /\ s.pending_removals[c] > 0
       THEN generate_remove_actions(s, o)
     ELSE IF turn = "Place"
       THEN (IF s.pieces_in_hand[c] > 0
               THEN {PlaceAction(n) : n \in empty_squares(s)} ELSE {})
            \union (IF o.may_move_in_placing_phase
                      THEN generate_move_actions(s, o, FALSE) ELSE {})
     ELSE IF turn = "Select" /\ s.phase = "Moving"
       THEN generate_move_actions(s, o, TRUE) ELSE {}

-----------------------------------------------------------------------------
(* Applying an action *)

place_live_piece(s, to) ==
  LET c == s.side_to_move
  IN clear_key_history(
       [s EXCEPT !.board[to] = c, !.pieces_in_hand[c] = IF @ > 0 THEN @ - 1 ELSE 0,
                 !.pieces_on_board[c] = @ + 1, !.ply_since_capture = 0])

owe(s, count) == [s EXCEPT !.pending_removals[s.side_to_move] = count]

(* Custodian and intervention captures without a mill: they are the whole  *)
(* obligation.                                                             *)
capture_only(s, custodian, intervention) ==
  LET active == activate_capture_state(s, custodian, intervention, {})
  IN sync_action_state([owe(active, capture_total(active))
                          EXCEPT !.mill_available_at_removal = FALSE])

BUG_hand_underflow(earned, hand) == earned
hand_removed(earned, hand) == IF earned <= hand THEN earned ELSE hand

place_mill_from_hand(s, o, lines) ==
  LET c == s.side_to_move
      earned == removal_count(lines, o)
      taken == hand_removed(earned, s.pieces_in_hand[Opp(c)])
      drawn == [s EXCEPT !.pieces_in_hand[Opp(c)] = @ - taken]
      next == IF o.mill_formation_action_in_placing_phase
                   = "RemoveOpponentsPieceFromHandThenOpponentsTurn"
                THEN Opp(c) ELSE c
  IN clear_capture_state(
       IF earned > taken THEN sync_action_state(owe(drawn, earned - taken))
       ELSE settle([drawn EXCEPT !.side_to_move = next], o))

place_mill_counted(s, o) ==
  LET cleared == clear_capture_state(s)
  IN settle(IF s.pieces_in_hand = Both(0)
              THEN apply_removal_based_on_mill_counts(cleared, o)
              ELSE [cleared EXCEPT !.side_to_move = Opp(@)], o)

place_mill_on_board(s, o, lines, custodian, intervention) ==
  LET earned == removal_count(lines, o)
      active == activate_capture_state(
                  [owe(s, earned) EXCEPT !.mill_available_at_removal = TRUE],
                  custodian, intervention, {})
  IN sync_action_state(
       IF o.may_remove_multiple
         THEN owe(active, earned + capture_total(active)) ELSE active)

place_quietly(s, o) ==
  LET stopped == maybe_stop_placing_when_two_empty(clear_capture_state(s), o)
      counted == /\ o.mill_formation_action_in_placing_phase
                      = "RemovalBasedOnMillCounts"
                 /\ stopped.pieces_in_hand = Both(0)
  IN settle(IF counted THEN stopped
            ELSE [stopped EXCEPT !.side_to_move = Opp(@)], o)

apply_place(s, o, to) ==
  LET c == s.side_to_move
      placed == place_live_piece(s, to)
      custodian == detect_custodian_targets(placed, o, to)
      intervention == detect_intervention_targets(placed, o, to)
      lines == usable_mills(placed, o, formed_mills_at(placed, o, to, c))
      action == o.mill_formation_action_in_placing_phase
      mill == IF action \in FromHandActions
                THEN place_mill_from_hand(placed, o, lines)
              ELSE IF action = "RemovalBasedOnMillCounts"
                THEN place_mill_counted(placed, o)
              ELSE place_mill_on_board(placed, o, lines, custodian, intervention)
  IN IF lines # {} THEN note_mill_formation(mill, o, c, NONE, to, lines)
     ELSE IF custodian \union intervention # {}
       THEN capture_only(placed, custodian, intervention)
     ELSE place_quietly(placed, o)

move_live_piece(s, from, to) ==
  [s EXCEPT !.board = [@ EXCEPT ![from] = NONE, ![to] = s.side_to_move]]

(* A move that changes nothing but the piece's place hands the turn over,  *)
(* is recorded for repetition and may end the game in a draw.              *)
move_quietly(s, o, adjudicate) ==
  LET c == s.side_to_move
      passed == [clear_capture_state(s) EXCEPT !.last_mill_from[c] = NONE,
                   !.last_mill_to[c] = NONE, !.side_to_move = Opp(c)]
  IN sync_action_state(sync_phase_with_active_hand(
       IF adjudicate
         THEN maybe_draw_by_n_move_rule(push_key_and_check_threefold(passed, o), o)
         ELSE passed))

apply_move(s, o, from, to, adjudicate) ==
  LET c == s.side_to_move
      moved == bump_ply_since_capture(move_live_piece(s, from, to), o)
      custodian == IF o.custodian_capture.in_moving_phase
                     THEN detect_custodian_targets(moved, o, to) ELSE {}
      intervention == IF o.intervention_capture.in_moving_phase
                        THEN detect_intervention_targets(moved, o, to) ELSE {}
      leap == IF o.leap_capture.in_moving_phase
                THEN detect_leap_targets(moved, o, from, to) ELSE {}
      lines == usable_mills(moved, o, formed_mills_at(moved, o, to, c))
  IN IF leap # {}
       THEN sync_action_state([owe(activate_capture_state(moved, {}, {}, leap), 1)
                                 EXCEPT !.mill_available_at_removal = FALSE])
     ELSE IF lines # {}
       THEN sync_action_state(note_mill_formation(
              activate_capture_state(
                [owe(moved, removal_count(lines, o))
                   EXCEPT !.mill_available_at_removal = TRUE],
                custodian, intervention, {}), o, c, from, to, lines))
     ELSE IF custodian \union intervention # {}
       THEN capture_only(moved, custodian, intervention)
     ELSE move_quietly(moved, o, adjudicate)

(* The first removal of a turn settles which obligation the turn is under: *)
(* intervention, custodian, leap or mill.                                  *)
choose_obligation(s, o, n) ==
  LET c == s.side_to_move
      total == capture_total(s)
      none == [s EXCEPT !.mill_available_at_removal = FALSE,
                 !.custodian_targets[c] = {}, !.intervention_targets[c] = {},
                 !.leap_targets[c] = {}]
  IN IF n \in s.intervention_targets[c]
       THEN [owe(none, Cardinality(s.intervention_targets[c]))
               EXCEPT !.intervention_targets[c] = s.intervention_targets[c]]
     ELSE IF n \in s.custodian_targets[c]
       THEN [owe(none, 1) EXCEPT !.custodian_targets[c] = s.custodian_targets[c]]
     ELSE IF n \in s.leap_targets[c]
       THEN [owe(none, 1) EXCEPT !.leap_targets[c] = s.leap_targets[c]]
     ELSE IF s.mill_available_at_removal /\ total > 0
       THEN [owe(none, IF o.may_remove_multiple /\ s.pending_removals[c] > total
                         THEN s.pending_removals[c] - total
                         ELSE s.pending_removals[c])
               EXCEPT !.mill_available_at_removal = TRUE]
     ELSE s

BUG_target_kept(s, o, n) == s

(* The targets left once n is taken.                                       *)
consume_target(s, o, n) ==
  LET c == s.side_to_move
      pair == s.intervention_targets[c]
  IN [s EXCEPT !.custodian_targets[c] = IF n \in @ THEN {} ELSE @,
               !.leap_targets[c] = @ \ {n},
               !.intervention_targets[c] =
                  IF n \notin pair THEN pair
                  ELSE IF pair = {n} THEN {}
                  ELSE find_paired_intervention_target(n, pair, o)]

marks_removal(s, o) ==
  /\ o.mill_formation_action_in_placing_phase = "MarkAndDelayRemovingPieces"
  /\ s.phase = "Placing"
  /\ ~s.remove_own_piece[s.side_to_move]

take_piece(s, o, n, target) ==
  LET c == s.side_to_move
      Less(k) == IF k > 0 THEN k - 1 ELSE 0
      taken == IF marks_removal(s, o) THEN [s EXCEPT !.marked = @ \union {n}]
               ELSE [s EXCEPT !.board[n] = NONE]
  IN clear_key_history(
       [taken EXCEPT !.pieces_on_board[target] = Less(@),
                     !.pending_removals[c] = Less(@), !.ply_since_capture = 0])

finish_removal(s, o, own) ==
  LET c == s.side_to_move
      paid == clear_capture_state_for_side(s, c)
  IN settle([paid EXCEPT
        !.remove_own_piece[c] = IF own THEN FALSE ELSE @,
        !.stalemate_removing = FALSE,
        !.side_to_move = IF s.stalemate_removing THEN @ ELSE Opp(@),
        !.both_stalemate_removing = @ /\ s.pending_removals # Both(0),
        !.board_full_removing = @ /\ s.pending_removals # Both(0)], o)

BUG_one_piece_late(s, o, c) ==
  s.pieces_on_board[c] + s.pieces_in_hand[c] + 1 < o.pieces_at_least_count
BUG_one_piece_early(s, o, c) ==
  s.pieces_on_board[c] + s.pieces_in_hand[c] <= o.pieces_at_least_count

has_too_few(s, o, c) ==
  s.pieces_on_board[c] + s.pieces_in_hand[c] < o.pieces_at_least_count

apply_remove(s, o, n) ==
  LET c == s.side_to_move
      own == s.remove_own_piece[c]
      target == IF own THEN c ELSE Opp(c)
      taken == consume_target(take_piece(choose_obligation(s, o, n), o, n, target),
                              o, n)
  IN IF has_too_few(taken, o, target)
       THEN game_over(taken, Opp(target), "LoseFewerThanThree")
     ELSE IF taken.pending_removals[c] = 0 THEN finish_removal(taken, o, own)
     ELSE taken

(* The general path, every variant.                                        *)
apply_generally(s, o, a, adjudicate) ==
  maybe_handle_stalemate(
    IF a.kind = "Place" THEN apply_place(s, o, a.to)
    ELSE IF a.kind = "Move" THEN apply_move(s, o, a.from, a.to, adjudicate)
    ELSE apply_remove(s, o, a.to), o)

-----------------------------------------------------------------------------
(* Fast paths: the source short-cuts the standard rules, placing always,   *)
(* moving and removing only inside the search tree.                        *)

standard_fast_path_enabled(o) ==
  /\ o.mill_formation_action_in_placing_phase = "RemoveOpponentsPieceFromBoard"
  /\ ~o.has_diagonal_lines /\ ~o.may_move_in_placing_phase
  /\ ~o.may_remove_multiple /\ ~o.restrict_repeated_mills_formation
  /\ ~o.one_time_use_mill /\ ~o.stop_placing_when_two_empty_squares
  /\ ~o.custodian_capture.enabled /\ ~o.intervention_capture.enabled
  /\ ~o.leap_capture.enabled

fast_placed(s, o, to) ==
  LET c == s.side_to_move
      placed == place_live_piece(s, to)
      lines == IF s.pieces_on_board[c] >= 2
                 THEN formed_mills_at(placed, o, to, c) ELSE {}
  IN IF lines # {}
       THEN note_mill_formation(sync_action_state(
              [owe(placed, removal_count(lines, o))
                 EXCEPT !.mill_available_at_removal = TRUE]), o, c, NONE, to, lines)
       ELSE settle([placed EXCEPT !.side_to_move = Opp(c)], o)

fast_place(s, o, to) ==
  LET done == fast_placed(s, o, to)
  IN IF done.phase = "Moving" THEN maybe_handle_stalemate(done, o) ELSE done

BUG_mill_overlooked(s, o, from, to) ==
  standard_fast_path_enabled(o) /\ s.phase = "Moving"

fast_move_applies(s, o, from, to) ==
  /\ standard_fast_path_enabled(o) /\ s.phase = "Moving"
  /\ potential_mills_at(s, o, to, s.side_to_move, {from}) = {}

fast_move(s, o, from, to) ==
  LET c == s.side_to_move
      moved == bump_ply_since_capture(move_live_piece(s, from, to), o)
  IN maybe_handle_stalemate(sync_action_state(sync_phase_with_active_hand(
       [moved EXCEPT !.last_mill_from[c] = NONE, !.last_mill_to[c] = NONE,
                     !.side_to_move = Opp(c)])), o)

fast_remove_applies(s, o) ==
  LET c == s.side_to_move
  IN /\ standard_fast_path_enabled(o)
     /\ s.marked = {} /\ s.mill_available_at_removal
     /\ ~s.stalemate_removing /\ ~s.both_stalemate_removing
     /\ ~s.board_full_removing
     /\ s.pending_removals[c] = 1 /\ ~s.remove_own_piece[c]
     /\ \A k \in Sides : {} = s.custodian_targets[k] \union
          s.intervention_targets[k] \union s.leap_targets[k]

fast_remove(s, o, n) ==
  LET c == s.side_to_move
      them == Opp(c)
      taken == clear_key_history(
        [s EXCEPT !.board[n] = NONE, !.pieces_on_board[them] = @ - 1,
                  !.pending_removals[c] = 0, !.ply_since_capture = 0,
                  !.mill_available_at_removal = FALSE])
  IN maybe_handle_stalemate(
       IF has_too_few(taken, o, them)
         THEN game_over(taken, c, "LoseFewerThanThree")
         ELSE settle([taken EXCEPT !.side_to_move = them], o), o)

(* `adjudicate` is TRUE in play and FALSE inside the search tree, where    *)
(* repetition and the n-move rule are the searcher's business.             *)
apply_to_state(s, o, a, adjudicate) ==
  IF a.kind = "Place" /\ s.phase = "Placing" /\ standard_fast_path_enabled(o)
    THEN fast_place(s, o, a.to)
  ELSE IF a.kind = "Move" /\ ~adjudicate /\ fast_move_applies(s, o, a.from, a.to)
    THEN fast_move(s, o, a.from, a.to)
  ELSE IF a.kind = "Remove" /\ ~adjudicate /\ fast_remove_applies(s, o)
    THEN fast_remove(s, o, a.to)
  ELSE apply_generally(s, o, a, adjudicate)

-----------------------------------------------------------------------------
(* The game *)

Init ==
  /\ options \in Variants
  /\ state = initial_state(options)

Apply(kind) ==
  /\ \E a \in {x \in legal_actions(state, options) : x.kind = kind} :
       state' = apply_to_state(state, options, a, TRUE)
  /\ UNCHANGED options

Place == Apply("Place")
Move == Apply("Move")
Remove == Apply("Remove")

Next == Place \/ Move \/ Remove

Spec == Init /\ [][Next]_vars

(* Weak fairness of Next, with ENABLED Next spelled out: while the game is *)
(* on, the side to move (a player or the engine) eventually acts.          *)
(* OngoingHasLegalAction shows that it can.                                *)
PlayersAct == []<>(state.phase = "GameOver") \/ []<><<Next>>_vars
FairSpec == Spec /\ PlayersAct

-----------------------------------------------------------------------------
(* Properties *)

(* Every position a game reaches is a well-formed MillState and the        *)
(* variant is one of the options' type.                                    *)
TypeOK == options \in MillVariantOptions /\ state \in MillStates

Ongoing == state.phase # "GameOver"
Material(c) == state.pieces_on_board[c] + state.pieces_in_hand[c]
Owing == \E c \in Sides : state.pending_removals[c] > 0

(* legal_actions: a game that is not over always offers the side to move   *)
(* an action; no obligation can be impossible to meet and no blocked       *)
(* position goes unnoticed.                                                *)
OngoingHasLegalAction == Ongoing => legal_actions(state, options) # {}

(* The counters of apply_to_state agree with the board they summarise: the *)
(* live pieces of each side are counted exactly, no side has more material *)
(* than it started with, and a delayed mark does not outlive the placing   *)
(* phase.                                                                  *)
MaterialAccounted ==
  /\ \A c \in Sides :
       /\ state.pieces_on_board[c] = Cardinality(piece_bitboard(state, c))
       /\ Material(c) <= options.piece_count
  /\ \A n \in state.marked : state.board[n] # NONE
  /\ (Ongoing /\ ~Owing /\ state.pieces_in_hand = Both(0)) => state.marked = {}

(* The flags that steer a removal never outlive it: when the side to move  *)
(* is to place or to move, nothing is owed by anybody, no capture target   *)
(* and no removal flag is left; while a removal is owed, capture targets   *)
(* are live pieces of the opponent of the side that owes it.  The fast     *)
(* paths assert the first half and drop the code that would re-establish   *)
(* it.                                                                     *)
ObligationsCoherent ==
  Ongoing =>
    /\ (state.action # "Remove") =>
         /\ ~Owing
         /\ ~state.mill_available_at_removal /\ ~state.stalemate_removing
         /\ ~state.both_stalemate_removing /\ ~state.board_full_removing
    /\ \A c \in Sides :
         LET targets == state.custodian_targets[c] \union
                        state.intervention_targets[c] \union state.leap_targets[c]
         IN targets # {} =>
              /\ c = state.side_to_move /\ state.pending_removals[c] > 0
              /\ targets \subseteq piece_bitboard(state, Opp(c))

(* The cached `action` byte that move generation dispatches on is what     *)
(* sync_action_state would compute, in every position that is not over.    *)
Synced(s) ==
  s.phase # "GameOver" => s.side_to_move \in Sides /\ s.action = synced_action(s)
ActionCoherent == Synced(state)

(* sync_phase_with_active_hand: a side that owes nothing is placing        *)
(* exactly while it has pieces in hand, also when the hands run out at     *)
(* different times.                                                        *)
PhaseFollowsHand ==
  (Ongoing /\ state.action # "Remove") =>
    (state.phase = "Moving" <=> state.pieces_in_hand[state.side_to_move] = 0)

(* apply_to_state declares the loss at once when a side can no longer      *)
(* reach pieces_at_least_count, whatever the phase and whoever removed.    *)
LossDeclaredAtOnce ==
  Ongoing => \A c \in Sides : Material(c) >= options.pieces_at_least_count

(* A result is earned: the loser of a material loss is below the minimum   *)
(* and the winner is not, a full board is full, and a draw by the n-move   *)
(* rule comes exactly at the threshold in force.                           *)
ResultIsEarned ==
  LET reason == state.outcome_reason
  IN /\ (reason = "Ongoing") <=> Ongoing
     /\ (state.winner = NONE) <=> Ongoing
     /\ (reason = "LoseFewerThanThree") =>
          /\ state.winner \in Sides
          /\ Material(Opp(state.winner)) < options.pieces_at_least_count
          /\ Material(state.winner) >= options.pieces_at_least_count
     /\ (reason \in {"LoseFullBoard", "DrawFullBoard"}) =>
          empty_squares(state) = {}
     /\ (reason \in {"DrawFiftyMove", "DrawEndgameFiftyMove"}) =>
          state.ply_since_capture = draw_threshold(state, options)

(* maybe_handle_stalemate decides with is_all_surrounded, move generation  *)
(* with its own scan: a game ended for lack of moves is one in which the   *)
(* generator finds none for the side to move.                              *)
StalemateMeansNoMove ==
  (state.outcome_reason \in {"LoseNoLegalMoves", "DrawStalemate"}) =>
    /\ state.side_to_move \in Sides
    /\ generate_move_actions([state EXCEPT !.phase = "Moving"], options, TRUE) = {}

(* The n-move rule cannot be outrun: no position in which a side is to     *)
(* move, not to remove, has gone the threshold without a capture.          *)
NMoveRuleBites ==
  (Ongoing /\ ~Owing /\ draw_threshold(state, options) > 0) =>
    state.ply_since_capture < draw_threshold(state, options)

(* n is left of an intervention pair that enclosed a piece, and with the    *)
(* other one of the pair all pieces of c stood in mills.                   *)
LeftOfPair(s, o, c, n) ==
  /\ s.intervention_targets[Opp(c)] = {n}
  /\ \E l \in LinesOf(o.intervention_capture, o), first \in Nodes \ piece_bitboard(s, c) :
       /\ {n, first} = {l[1], l[3]}
       /\ l[2] \in piece_bitboard(s, Opp(c))
       /\ LET paired == [s EXCEPT !.board[first] = c, !.marked = @ \ {first}]
          IN piece_bitboard(paired, c) \subseteq mill_members(paired, o, c)

(* Mill protection, at the moment a piece is removed: outside stalemate    *)
(* removals and unless may_remove_from_mills_always, a piece standing in a *)
(* mill is taken only when all pieces of its side do; or as the second of  *)
(* an intervention pair, when they did before the first was taken, since   *)
(* filter_capture_targets looks when the pair is offered.                  *)
MillProtection ==
  [][(/\ state.action = "Remove"
      /\ ~options.may_remove_from_mills_always
      /\ ~is_stalemate_removal_context(state, options)) =>
     \A c \in Sides :
       LET before == piece_bitboard(state, c)
           members == mill_members(state, options, c)
           gone == before \ piece_bitboard(state', c)
       IN \/ gone \intersect members = {}
          \/ before \subseteq members
          \/ \A n \in gone : LeftOfPair(state, options, c, n)]_vars

(* The three fast paths and the general path are one function, and the     *)
(* search tree sees the successors that play sees except where play        *)
(* adjudicates a draw.  Once the game is over the fast removal leaves      *)
(* mill_available_at_removal cleared and the general one set: nothing      *)
(* reads it any more.                                                      *)
PathsAgree ==
  LET Seen(s) == IF s.phase = "GameOver"
                   THEN [s EXCEPT !.mill_available_at_removal = FALSE] ELSE s
  IN \A a \in legal_actions(state, options) :
       LET next == [played \in BOOLEAN |->
                      Seen(apply_to_state(state, options, a, played))]
       IN /\ \A played \in BOOLEAN :
               next[played] = Seen(apply_generally(state, options, a, played))
          /\ \/ next[TRUE].outcome_reason \in {"DrawThreefold", "DrawFiftyMove",
                                               "DrawEndgameFiftyMove"}
             \/ clear_key_history(next[TRUE]) = clear_key_history(next[FALSE])

(* With an n-move rule in force every game that goes on being played ends. *)
GameEnds == <>(state.phase = "GameOver")
=============================================================================
