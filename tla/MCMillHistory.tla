---------------------------- MODULE MCMillHistory ----------------------------
(***************************************************************************)
(* Variants and boards for MillHistory.  A mill can be closed again only   *)
(* after four quiet plies, so the n-move rule is longer here.              *)
(***************************************************************************)
EXTENDS MCMillRules, MillHistory

OneTime ==
  [RingGame EXCEPT !.one_time_use_mill = TRUE,
                   !.n_move_rule = 5, !.endgame_n_move_rule = 0]

(* Two mills that share a point take four pieces, and a piece that flies   *)
(* shuttles between them; the opponent survives three removals.            *)
Restricted ==
  [RingGame EXCEPT !.restrict_repeated_mills_formation = TRUE,
                   !.pieces_at_least_count = 1, !.may_fly = TRUE,
                   !.fly_piece_count = 4,
                   !.n_move_rule = 2, !.endgame_n_move_rule = 0]

ObservedVariants == {OneTime, Restricted}
ObservedRing == RingVariants \union ObservedVariants

=============================================================================
