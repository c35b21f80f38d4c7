----------------------------- MODULE MCMillRules -----------------------------
(***************************************************************************)
(* Small boards and variant sets for model checking MillRules.             *)
(*                                                                         *)
(* Ring   : nodes 0..7, the inner square of the real board, its four mill  *)
(*          lines and its edge capture lines (lines.rs).                   *)
(* Sector : nodes 7 0 1 / 15 8 9 / 23 16 17, the top sector of the real    *)
(*          board: three edge lines, the spoke 0-8-16 and, on the diagonal *)
(*          board, the columns 7-15-23 and 1-9-17.                         *)
(* Both keep the node numbers and the line order of the source.            *)
(***************************************************************************)
EXTENDS MillWorkbench, MillFen

LinksOf(edges, nodes) ==
  [n \in nodes |-> {m \in nodes : {n, m} \in edges}]

RingNodes == 0..7
RingEdges == {{0, 1}, {1, 2}, {2, 3}, {3, 4}, {4, 5}, {5, 6}, {6, 7}, {7, 0}}
RingNeighbors == [diagonal \in BOOLEAN |-> LinksOf(RingEdges, RingNodes)]
RingLines == {{7, 0, 1}, {1, 2, 3}, {3, 4, 5}, {5, 6, 7}}
RingEdgeLines == << <<7, 0, 1>>, <<5, 4, 3>>, <<7, 6, 5>>, <<1, 2, 3>> >>
NoLines == << >>

SectorNodes == {0, 1, 7, 8, 9, 15, 16, 17, 23}
SectorEdges == {{7, 0}, {0, 1}, {15, 8}, {8, 9}, {23, 16}, {16, 17},
                {0, 8}, {8, 16}}
SectorColumns == {{7, 15}, {15, 23}, {1, 9}, {9, 17}}
SectorNeighbors ==
  [diagonal \in BOOLEAN |->
     LinksOf(IF diagonal THEN SectorEdges \union SectorColumns ELSE SectorEdges,
             SectorNodes)]
SectorLines == {{7, 0, 1}, {15, 8, 9}, {23, 16, 17}, {0, 8, 16}}
SectorEdgeLines == << <<23, 16, 17>>, <<15, 8, 9>>, <<7, 0, 1>> >>
SectorCrossLines == << <<16, 8, 0>> >>
SectorDiagonalLines == << <<23, 15, 7>>, <<1, 9, 17>> >>

-----------------------------------------------------------------------------
(* Variants.  The source keeps piece_count in 9..12, n_move_rule 0 or      *)
(* 10..200 and endgame_n_move_rule 0 or 5..200; a board of eight or nine   *)
(* points needs fewer of each.                                             *)

Off == [enabled |-> FALSE, in_placing_phase |-> FALSE,
        in_moving_phase |-> FALSE, on_square_edges |-> FALSE,
        on_cross_lines |-> FALSE, on_diagonal_lines |-> FALSE,
        only_available_when_own_pieces_leq3 |-> FALSE]
On == [Off EXCEPT !.enabled = TRUE, !.in_placing_phase = TRUE,
                  !.in_moving_phase = TRUE, !.on_square_edges = TRUE,
                  !.on_cross_lines = TRUE, !.on_diagonal_lines = TRUE]

Standard ==
  [piece_count |-> 4, fly_piece_count |-> 3, pieces_at_least_count |-> 3,
   has_diagonal_lines |-> FALSE, may_fly |-> TRUE,
   may_move_in_placing_phase |-> FALSE, is_defender_move_first |-> FALSE,
   may_remove_multiple |-> FALSE, may_remove_from_mills_always |-> FALSE,
   restrict_repeated_mills_formation |-> FALSE, one_time_use_mill |-> FALSE,
   stop_placing_when_two_empty_squares |-> FALSE,
   threefold_repetition_rule |-> FALSE,
   n_move_rule |-> 3, endgame_n_move_rule |-> 2,
   mill_formation_action_in_placing_phase |-> "RemoveOpponentsPieceFromBoard",
   board_full_action |-> "FirstPlayerLose",
   stalemate_action |-> "EndWithStalemateLoss",
   custodian_capture |-> Off, intervention_capture |-> Off,
   leap_capture |-> Off]

StandardVariants == {Standard, [Standard EXCEPT !.may_fly = FALSE]}

(* The diagonal sector is a 3x3 grid: most lines cross and most points     *)
(* have three neighbours or four.                                          *)
Grid == [Standard EXCEPT !.may_fly = FALSE, !.has_diagonal_lines = TRUE]

(* Each capture rule, all of them at once, with and without removing       *)
(* several pieces, and the rules that start at three pieces.               *)
AllCaptures == [Grid EXCEPT !.custodian_capture = On,
                            !.intervention_capture = On, !.leap_capture = On]
(* Six pieces a side can all stand in two mills, where an intervention     *)
(* takes its second piece from a closed mill.  The side that takes them has*)
(* three points to stand on (InTwoMills), so it moves while it could place.*)
Crowded == [Standard EXCEPT !.may_fly = FALSE, !.piece_count = 6,
                            !.may_move_in_placing_phase = TRUE,
                            !.intervention_capture = On]
Late == [On EXCEPT !.only_available_when_own_pieces_leq3 = TRUE]
CaptureVariants ==
  {[Grid EXCEPT !.custodian_capture = On],
   [Grid EXCEPT !.intervention_capture = On], Crowded,
   [AllCaptures EXCEPT !.may_remove_multiple = TRUE],
   [AllCaptures EXCEPT !.custodian_capture = Late,
                       !.intervention_capture = Late, !.leap_capture = Late]}
(* A side that can only leap is declared blocked (README); in no run.      *)
LeapVariants == {[Grid EXCEPT !.leap_capture = On]}

(* What completing a mill while placing does.                              *)
WithMillAction(o, action) ==
  [o EXCEPT !.mill_formation_action_in_placing_phase = action]
PlacingMillVariants ==
  {[WithMillAction(Grid, a) EXCEPT !.may_remove_multiple = TRUE] :
     a \in FromHandActions}
  \union {WithMillAction(Grid, "RemoveOpponentsPieceFromHandThenYourTurn"),
          WithMillAction(Grid, "MarkAndDelayRemovingPieces"),
          WithMillAction(Grid, "RemovalBasedOnMillCounts")}

(* Moving while pieces are still in hand; losses from the hand are not     *)
(* declared (README); in no run.                                           *)
FromHandLaskerVariants ==
  {WithMillAction([Grid EXCEPT !.may_move_in_placing_phase = TRUE],
                  "RemoveOpponentsPieceFromHandThenYourTurn")}

(* Repetition keys are kept from quiet moves to the next removal, and with *)
(* HistoryCap = 2 the oldest are dropped on the way.                       *)
KeyedVariants == {[Standard EXCEPT !.threefold_repetition_rule = TRUE]}

(* Everything played on the sector. *)
SectorVariants ==
  StandardVariants \union KeyedVariants \union CaptureVariants \union PlacingMillVariants

(* Constraint: in Crowded side 0 keeps to the outer and the inner edge and *)
(* side 1 to the middle one, so that the nine points are never full.       *)
OuterAndInner == {7, 0, 1, 23, 16, 17}
InTwoMills ==
  options = Crowded =>
    \A n \in Nodes : state.board[n] # NONE =>
      (n \in OuterAndInner <=> state.board[n] = 0)

(* A ring of eight points, which four pieces a side can fill.              *)
RingGame == [Standard EXCEPT !.pieces_at_least_count = 2, !.may_fly = FALSE]
BoardFullVariants ==
  {[RingGame EXCEPT !.board_full_action = a, !.is_defender_move_first = d] :
     a \in BoardFullActions, d \in BOOLEAN}
  \union {[RingGame EXCEPT !.stop_placing_when_two_empty_squares = TRUE]}
StalemateVariants ==
  {[RingGame EXCEPT !.stalemate_action = a, !.board_full_action = f] :
     a \in StalemateActions, f \in {"SideToMoveRemovePiece", "AgreeToDraw"}}

(* Games without an end would come from turns that go back and forth:      *)
(* stalemates that pass the turn, flying, placing and moving by turns.     *)
RingVariants ==
  BoardFullVariants \union StalemateVariants \union
  {[RingGame EXCEPT !.may_move_in_placing_phase = TRUE, !.may_fly = TRUE]}

=============================================================================
