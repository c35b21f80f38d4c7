------------------------------- MODULE MillFen -------------------------------
(***************************************************************************)
(* What a FEN says of a position (export_fen) and what reading it makes of *)
(* it (set_from_fen).  A FEN goes to the clipboard, to saved games and to  *)
(* the position editor and back, and play goes on from what was read.      *)
(*                                                                         *)
(* A FEN is a record of its fields; their spelling is left out, and so are *)
(* the errors of malformed text and the move number, which no rule reads.  *)
(***************************************************************************)
EXTENDS MillRules

Signed(s, c) ==
  IF s.remove_own_piece[c] THEN -s.pending_removals[c] ELSE s.pending_removals[c]
Abs(n) == IF n < 0 THEN -n ELSE n

stalemate_flag(s) ==
  IF s.stalemate_removing THEN 1 ELSE IF s.both_stalemate_removing THEN 2 ELSE 0

(* A marked piece is an X: its square is taken and its colour is gone.     *)
export_fen(s) ==
  [board |-> [n \in Nodes |-> live_piece(s, n)], marked |-> s.marked,
   side |-> IF s.side_to_move = 1 THEN 1 ELSE 0,
   phase |-> s.phase, action |-> s.action,
   on_board |-> s.pieces_on_board, in_hand |-> s.pieces_in_hand,
   remove |-> [c \in Sides |-> Signed(s, c)],
   last_mill_from |-> s.last_mill_from, last_mill_to |-> s.last_mill_to,
   formed_mills |-> s.formed_mills, rule50 |-> s.ply_since_capture,
   custodian |-> s.custodian_targets, intervention |-> s.intervention_targets,
   leap |-> s.leap_targets, stalemate |-> stalemate_flag(s)]

captures_of(fen) ==
  fen.custodian[fen.side] \union fen.intervention[fen.side] \union fen.leap[fen.side]

(* A FEN that says "remove" and owes nothing owes one removal.             *)
owed_removals(fen) ==
  IF fen.action = "Remove" /\ fen.remove = Both(0) /\ captures_of(fen) = {}
    THEN [Both(0) EXCEPT ![fen.side] = 1]
    ELSE [c \in Sides |-> Abs(fen.remove[c])]

mill_is_available(fen) == owed_removals(fen) # Both(0) /\ captures_of(fen) = {}

BUG_own_piece_unsigned(fen) == Both(FALSE)

removes_own(fen) == [c \in Sides |-> fen.remove[c] < 0]

read_fen(fen) ==
  [board |-> fen.board, marked |-> fen.marked, side_to_move |-> fen.side,
   phase |-> fen.phase, action |-> fen.action,
   pieces_in_hand |-> fen.in_hand, pieces_on_board |-> fen.on_board,
   pending_removals |-> owed_removals(fen),
   mill_available_at_removal |-> mill_is_available(fen),
   stalemate_removing |-> fen.stalemate = 1,
   both_stalemate_removing |-> fen.stalemate = 2,
   board_full_removing |-> FALSE, remove_own_piece |-> removes_own(fen),
   winner |-> NONE, outcome_reason |-> "Ongoing",
   ply_since_capture |-> fen.rule50,
   last_mill_from |-> fen.last_mill_from, last_mill_to |-> fen.last_mill_to,
   formed_mills |-> fen.formed_mills, custodian_targets |-> fen.custodian,
   intervention_targets |-> fen.intervention, leap_targets |-> fen.leap,
   key_history |-> << >>]

check_too_few(s, o) ==
  LET short == {c \in Sides : has_too_few(s, o, c)}
  IN IF s.phase = "Moving" /\ short # {}
       THEN game_over(s, IF 0 \in short THEN 1 ELSE 0, "LoseFewerThanThree")
       ELSE s

check_if_game_is_over(s, o) ==
  LET full == maybe_finish_full_board(s, o)
      drawn == maybe_draw_by_n_move_rule(full, o)
      short == check_too_few(drawn, o)
  IN IF full.phase = "GameOver" THEN full
     ELSE IF drawn.phase = "GameOver" THEN drawn
     ELSE IF short.phase = "GameOver" THEN short
     ELSE maybe_handle_stalemate(short, o)

set_from_fen(fen, o) ==
  IF fen.phase = "GameOver" THEN read_fen(fen)
  ELSE check_if_game_is_over(read_fen(fen), o)

-----------------------------------------------------------------------------
(* Properties *)

(* What no FEN says: the repetition keys, which full-board rule a removal  *)
(* comes from (nothing asks), the colour under a mark (it is swept away    *)
(* without being looked at) and whether a removal is owed for a mill: the  *)
(* reader takes it for one exactly when no capture is to be made.          *)
Carried(s) ==
  [s EXCEPT !.key_history = << >>, !.board_full_removing = FALSE,
     !.board = [n \in Nodes |-> live_piece(s, n)],
     !.mill_available_at_removal = Owing /\ capture_targets(s) = {}]

(* A mill completed on the very ply that reaches the n-move limit: its     *)
(* removal is still owed.                                                  *)
OwesAtTheLimit(s, o) == Owing /\ MoveCounting(s, o) /\ n_move_rule_reached(s, o)

(* export_fen and set_from_fen: a game carried over by its FEN at any      *)
(* moment, with obligations of any kind open, goes on from the same        *)
(* position; reading it neither ends the game nor adds an obligation.  The *)
(* exception is a removal owed at the n-move limit: the reader calls the   *)
(* draw that play leaves to the removal.                                   *)
FenKeepsTheGame ==
  Ongoing =>
    LET reread == set_from_fen(export_fen(state), options)
    IN IF OwesAtTheLimit(state, options) THEN reread.winner = DRAW
       ELSE reread = Carried(state)
=============================================================================
