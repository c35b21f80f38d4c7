---------------------------- MODULE MCGameKernel ----------------------------
(***************************************************************************)
(* A board on which positions repeat: the inner square of the real board   *)
(* cut open between the nodes 5 and 7, so that pieces can only pass along  *)
(* it.  The position set up has two white pieces and a third one that can  *)
(* complete their mill, against two black pieces at the other end.         *)
(***************************************************************************)
EXTENDS MCMillRules, GameKernel

ArcNodes == {7, 0, 1, 2, 3, 4, 5}
ArcEdges == {{7, 0}, {0, 1}, {1, 2}, {2, 3}, {3, 4}, {4, 5}}
ArcNeighbors == [diagonal \in BOOLEAN |-> LinksOf(ArcEdges, ArcNodes)]
ArcLines == {{7, 0, 1}, {1, 2, 3}, {3, 4, 5}}

(* The n-move rule ends a quiet line after ten plies, one more than the    *)
(* third observation of a position takes; a snapshot keeps two keys.       *)
Repeating ==
  [Standard EXCEPT !.piece_count = 3, !.pieces_at_least_count = 1,
                   !.may_fly = FALSE, !.threefold_repetition_rule = TRUE,
                   !.n_move_rule = 10, !.endgame_n_move_rule = 0]
RepeatingVariants == {Repeating}

ArcPosition(white, black) ==
  sync_action_state(
    [initial_state(Repeating) EXCEPT
       !.board = [n \in Nodes |-> IF n \in white THEN 0
                                  ELSE IF n \in black THEN 1 ELSE NONE],
       !.pieces_on_board = [c \in Sides |->
                              Cardinality(IF c = 0 THEN white ELSE black)],
       !.pieces_in_hand = Both(0), !.phase = "Moving"])
ArcPositions == {ArcPosition({7, 0, 2}, {4, 5})}

(* Games that start on the empty board are looked at for two plies only:   *)
(* positions repeat from the position set up.                              *)
ShortPlacing == Played[1].phase = "Placing" => Len(Line) <= 3
=============================================================================
