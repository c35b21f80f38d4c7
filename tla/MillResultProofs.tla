--------------------------- MODULE MillResultProofs ---------------------------
(***************************************************************************)
(* How the games of MillRules end: a side that can no longer reach         *)
(* pieces_at_least_count has lost at once, every result is earned, and a   *)
(* game ended for lack of moves is one without any; what a removal may     *)
(* take on the way there; and that an action leaves nothing undecided.     *)
(*                                                                         *)
(* The first two need that material is lost on the board only              *)
(* (LostOnTheBoard): the source looks for too few pieces in handle_remove  *)
(* alone, so a variant whose mills take pieces from the opponent's hand,   *)
(* or one that drops both hands when two points are left, can go on with a *)
(* side below the minimum.  The third needs that there are no leaps.  Mill *)
(* protection needs that there are no intervention captures: the first of  *)
(* a pair may open one mill, and the other is taken all the same.          *)
(***************************************************************************)
EXTENDS MillGameProofs

LostOnTheBoard(o) ==
  /\ o.mill_formation_action_in_placing_phase \notin FromHandActions
  /\ ~(FillsBoard(o) /\ o.stop_placing_when_two_empty_squares)

-----------------------------------------------------------------------------
(* What every helper but a removal does to the result *)

BlockedReasons == {"LoseNoLegalMoves", "DrawStalemate"}

(* A position that is not over has no winner and no reason; one that is    *)
(* over for anything but a loss of material or a lack of moves has both,   *)
(* and the board or the counter the reason speaks of bears it out.         *)
Verdict(s, o) ==
  IF s.phase # "GameOver" THEN s.winner = NONE /\ s.outcome_reason = "Ongoing"
  ELSE /\ s.winner # NONE
       /\ s.outcome_reason \notin {"Ongoing", "LoseFewerThanThree"} \union BlockedReasons
       /\ s.outcome_reason \in {"LoseFullBoard", "DrawFullBoard"} =>
            empty_squares(s) = {}
       /\ s.outcome_reason \in {"DrawFiftyMove", "DrawEndgameFiftyMove"} =>
            s.ply_since_capture = draw_threshold(s, o)

Follows(s, t, o) ==
  /\ Verdict(t, o)
  /\ LostOnTheBoard(o) => t.pieces_in_hand = s.pieces_in_hand

VerdictFields == MaterialFields \union {"phase", "winner", "outcome_reason"}

LEMMA SameVerdict ==
  ASSUME NEW s, NEW o, Verdict(s, o), NEW t, NEW F, Alters(s, t, F),
         F \intersect VerdictFields = {}
  PROVE  Follows(s, t, o)
<1>1. /\ t.phase = s.phase /\ t.winner = s.winner
      /\ t.outcome_reason = s.outcome_reason /\ t.board = s.board
      /\ t.marked = s.marked /\ t.pieces_in_hand = s.pieces_in_hand
      /\ t.pieces_on_board = s.pieces_on_board
      /\ t.ply_since_capture = s.ply_since_capture
  BY DEF Alters, Fields, VerdictFields, MaterialFields
<1>2. empty_squares(t) = empty_squares(s)
  BY <1>1 DEF empty_squares, board_occupied
<1>3. draw_threshold(t, o) = draw_threshold(s, o)
  BY <1>1, SameThreshold
<1> QED BY <1>1, <1>2, <1>3 DEF Verdict, Follows

LEMMA StillOpen ==
  ASSUME NEW s, NEW o, Verdict(s, o), s.phase # "GameOver", NEW t, NEW F,
         Alters(s, t, F), t.phase # "GameOver",
         F \intersect {"winner", "outcome_reason"} = {},
         LostOnTheBoard(o) => "pieces_in_hand" \notin F
  PROVE  Follows(s, t, o)
<1>1. /\ t.winner = s.winner /\ t.outcome_reason = s.outcome_reason
      /\ LostOnTheBoard(o) => t.pieces_in_hand = s.pieces_in_hand
  BY DEF Alters, Fields
<1> QED BY <1>1 DEF Verdict, Follows

LEMMA FollowsTwice ==
  ASSUME NEW s, NEW t, NEW u, NEW o, Follows(s, t, o), Follows(t, u, o)
  PROVE  Follows(s, u, o)
BY DEF Follows

-----------------------------------------------------------------------------
(* Settling a turn and the stalemate check *)

LEMMA TransitionVerdict ==
  ASSUME NEW s, Live(s), s.phase # "GameOver", NEW o \in MillVariantOptions,
         Verdict(s, o)
  PROVE  LET t == maybe_transition_to_moving(s, o)
         IN Follows(s, t, o) /\ Live(t) /\ t.phase # "GameOver"
<1> DEFINE placed == IF s.phase = "Placing" /\ s.pieces_in_hand = Both(0)
                       THEN enter_moving_phase(s, o) ELSE s
           emptied == [placed EXCEPT !.pieces_in_hand = Both(0)]
           t == maybe_transition_to_moving(s, o)
           F == {"phase", "marked", "board", "side_to_move"}
                    \union (IF CountedAction(o) THEN Counting ELSE {})
<1>1. F \intersect {"winner", "outcome_reason"} = {} /\ "pieces_in_hand" \notin F
  BY DEF Counting
<1>2. ASSUME NEW r, Live(r), r.phase # "GameOver", Verdict(r, o)
      PROVE  LET e == enter_moving_phase(r, o)
             IN Follows(r, e, o) /\ Live(e) /\ e.phase # "GameOver"
  <2> DEFINE e == enter_moving_phase(r, o)
  <2>1. Live(e) /\ Alters(r, e, F) /\ e.phase = "Moving"
    BY <1>2, EnterMovingEffect
  <2> HIDE DEF F, e
  <2>2. Follows(r, e, o)
    BY <1>1, <1>2, <2>1, StillOpen
  <2> QED BY <2>1, <2>2 DEF e
<1>3. Follows(s, placed, o) /\ Live(placed) /\ placed.phase # "GameOver"
  BY <1>2 DEF Follows
<1>4. \/ t = placed
      \/ ~LostOnTheBoard(o) /\ t = enter_moving_phase(emptied, o)
  BY DEF maybe_transition_to_moving, LostOnTheBoard
<1> HIDE DEF placed, t, F
<1>5. ~LostOnTheBoard(o) =>
        Follows(placed, emptied, o) /\ Live(emptied) /\ emptied.phase # "GameOver"
  <2>1. /\ Live(emptied) /\ Alters(placed, emptied, {"pieces_in_hand"})
        /\ emptied.phase # "GameOver"
    BY <1>3, FieldsOfState DEF Live, MillStates, Both, Alters, Fields
  <2> HIDE DEF emptied
  <2> QED BY <1>3, <2>1, StillOpen DEF Follows
<1> HIDE DEF emptied
<1>6. ~LostOnTheBoard(o) /\ t = enter_moving_phase(emptied, o) =>
        Follows(s, t, o) /\ Live(t) /\ t.phase # "GameOver"
  BY <1>2, <1>5 DEF Follows
<1> QED BY <1>3, <1>4, <1>6 DEF t

LEMMA PhaseVerdict ==
  ASSUME NEW s, Live(s), s.phase # "GameOver", NEW o, Verdict(s, o)
  PROVE  LET t == sync_phase_with_active_hand(s)
         IN Follows(s, t, o) /\ Live(t) /\ t.phase # "GameOver"
<1> DEFINE t == sync_phase_with_active_hand(s)
<1>1. Alters(s, t, {"phase"}) /\ t.phase # "GameOver"
  BY SyncPhaseEffect DEF Live
<1>2. t \in MillStates
  BY SyncPhaseTyped DEF Live
<1> HIDE DEF t
<1>3. t.side_to_move = s.side_to_move
  BY <1>1 DEF Alters, Fields
<1>4. Follows(s, t, o)
  BY <1>1, StillOpen
<1> QED BY <1>1, <1>2, <1>3, <1>4 DEF Live, t

LEMMA FullBoardVerdict ==
  ASSUME NEW s, Live(s), s.phase # "GameOver", NEW o, Verdict(s, o)
  PROVE  Follows(s, maybe_finish_full_board(s, o), o)
<1> DEFINE t == maybe_finish_full_board(s, o)
           remover == IF o.is_defender_move_first THEN 1 ELSE 0
<1>1. s \in MillStates
  BY DEF Live
<1>2. CASE t = s
  BY <1>2 DEF Follows
<1>3. ASSUME NEW winner, winner # NONE, NEW reason, t = game_over(s, winner, reason),
             reason \in {"LoseFullBoard", "DrawFullBoard"}, empty_squares(s) = {}
      PROVE  Follows(s, t, o)
  <2>1. /\ Alters(s, t, {"phase", "winner", "outcome_reason", "side_to_move"})
        /\ t.phase = "GameOver" /\ t.winner = winner /\ t.outcome_reason = reason
    BY <1>1, <1>3, GameOverEffect
  <2> HIDE DEF t
  <2>2. /\ t.board = s.board /\ t.marked = s.marked
        /\ t.pieces_in_hand = s.pieces_in_hand
    BY <2>1 DEF Alters, Fields
  <2>3. empty_squares(t) = {}
    BY <1>3, <2>2 DEF empty_squares, board_occupied
  <2> QED BY <1>3, <2>1, <2>2, <2>3 DEF Follows, Verdict, BlockedReasons
<1>4. ASSUME NEW owed, NEW first, t = board_full_removals(s, owed, first)
      PROVE  Follows(s, t, o)
  <2>1. Alters(s, t, {"pending_removals", "side_to_move", "board_full_removing"})
    BY <1>1, <1>4, FieldsOfState DEF Alters, Fields, board_full_removals
  <2> HIDE DEF t
  <2> QED BY <2>1, SameVerdict DEF VerdictFields, MaterialFields
<1>5. \/ t = s
      \/ /\ empty_squares(s) = {}
         /\ \/ t = game_over(s, 1, "LoseFullBoard")
            \/ t = game_over(s, DRAW, "DrawFullBoard")
      \/ t = board_full_removals(s, Both(1), 0)
      \/ t = board_full_removals(s, Both(1), 1)
      \/ t = board_full_removals(s, [Both(0) EXCEPT ![remover] = 1], remover)
  BY DEF maybe_finish_full_board, board_is_full
<1>6. 1 # NONE /\ DRAW # NONE
  BY DEF NONE, DRAW
<1> HIDE DEF t, remover
<1>7. (\/ t = board_full_removals(s, Both(1), 0)
       \/ t = board_full_removals(s, Both(1), 1)
       \/ t = board_full_removals(s, [Both(0) EXCEPT ![remover] = 1], remover)) =>
        Follows(s, t, o)
  BY Zenon, <1>4
<1>8. (/\ empty_squares(s) = {}
       /\ \/ t = game_over(s, 1, "LoseFullBoard")
          \/ t = game_over(s, DRAW, "DrawFullBoard")) => Follows(s, t, o)
  BY <1>3, <1>6
<1> QED BY <1>2, <1>5, <1>7, <1>8 DEF t

LEMMA SettleVerdict ==
  ASSUME NEW s, Live(s), s.phase # "GameOver", NEW o \in MillVariantOptions,
         Verdict(s, o)
  PROVE  Follows(s, settle(s, o), o)
<1> DEFINE entered == maybe_transition_to_moving(s, o)
           phased == sync_phase_with_active_hand(entered)
           finished == maybe_finish_full_board(phased, o)
           t == sync_action_state(finished)
<1>1. Follows(s, entered, o) /\ Live(entered) /\ entered.phase # "GameOver"
  BY TransitionVerdict
<1> HIDE DEF entered
<1>2. Follows(entered, phased, o) /\ Live(phased) /\ phased.phase # "GameOver"
  BY <1>1, PhaseVerdict DEF Follows
<1> HIDE DEF phased
<1>3. Follows(phased, finished, o) /\ finished \in MillStates
  BY <1>2, FullBoardVerdict, FullBoardTyped DEF Follows, Live
<1> HIDE DEF finished
<1>4. Follows(finished, t, o)
  BY <1>3, SyncActionEffect, SameVerdict DEF VerdictFields, MaterialFields, Follows
<1>5. settle(s, o) = t
  BY DEF settle, finished, phased, entered
<1> HIDE DEF t
<1>6. Follows(s, t, o)
  BY <1>1, <1>2, <1>3, <1>4, FollowsTwice
<1> QED BY <1>5, <1>6

(* The game is over because the side to move was found to be surrounded.   *)
Blocked(s, o) ==
  /\ s.phase = "GameOver" /\ s.winner # NONE /\ s.outcome_reason \in BlockedReasons
  /\ s.side_to_move \in Sides
  /\ ~(BelowFlyLimit(s, o, s.side_to_move) /\ OnBoard(s) < Cardinality(Nodes))
  /\ is_all_surrounded(s, o, s.side_to_move)

SurroundingFields == {"board", "marked", "pieces_on_board", "last_mill_from",
                      "last_mill_to", "formed_mills"}

(* What is_all_surrounded asks of a position.                              *)
SameGround(s, t) ==
  /\ \A k : piece_bitboard(t, k) = piece_bitboard(s, k)
  /\ board_occupied(t) = board_occupied(s)
  /\ \A f \in {"pieces_on_board", "last_mill_from", "last_mill_to", "formed_mills"} :
       t[f] = s[f]

LEMMA GroundSurrounding ==
  ASSUME NEW s, NEW t, SameGround(s, t), NEW o, NEW c
  PROVE  /\ is_all_surrounded(t, o, c) <=> is_all_surrounded(s, o, c)
         /\ BelowFlyLimit(t, o, c) <=> BelowFlyLimit(s, o, c)
         /\ OnBoard(t) = OnBoard(s)
         /\ \A from, to : is_restricted_repeated_mill(t, o, c, from, to)
                            <=> is_restricted_repeated_mill(s, o, c, from, to)
<1>1. /\ t.pieces_on_board = s.pieces_on_board
      /\ t.last_mill_from = s.last_mill_from /\ t.last_mill_to = s.last_mill_to
      /\ t.formed_mills = s.formed_mills
  BY DEF SameGround
<1>2. /\ piece_bitboard(t, c) = piece_bitboard(s, c)
      /\ board_occupied(t) = board_occupied(s)
  BY DEF SameGround
<1>3. \A from : empty_adjacent(t, o, from) = empty_adjacent(s, o, from)
  BY <1>2 DEF empty_adjacent
<1>4. \A to, gone : potential_mills_at(t, o, to, c, gone) = potential_mills_at(s, o, to, c, gone)
  BY <1>1, <1>2 DEF potential_mills_at, UsableFor
<1>5. \A from, to : is_restricted_repeated_mill(t, o, c, from, to)
                      <=> is_restricted_repeated_mill(s, o, c, from, to)
  BY <1>1, <1>4 DEF is_restricted_repeated_mill
<1>6. \A from : piece_is_stuck(t, o, c, from) <=> piece_is_stuck(s, o, c, from)
  BY <1>3, <1>5 DEF piece_is_stuck
<1>7. (BelowFlyLimit(t, o, c) <=> BelowFlyLimit(s, o, c)) /\ OnBoard(t) = OnBoard(s)
  BY <1>1 DEF BelowFlyLimit, OnBoard
<1> QED BY <1>2, <1>5, <1>6, <1>7 DEF is_all_surrounded

LEMMA SameSurrounding ==
  ASSUME NEW s, NEW t, \A f \in SurroundingFields : t[f] = s[f], NEW o, NEW c
  PROVE  /\ is_all_surrounded(t, o, c) <=> is_all_surrounded(s, o, c)
         /\ BelowFlyLimit(t, o, c) <=> BelowFlyLimit(s, o, c)
         /\ OnBoard(t) = OnBoard(s)
         /\ \A from, to : is_restricted_repeated_mill(t, o, c, from, to)
                            <=> is_restricted_repeated_mill(s, o, c, from, to)
<1>1. t.board = s.board /\ t.marked = s.marked
  BY DEF SurroundingFields
<1>2. SameGround(s, t)
  BY <1>1, SameBitboards DEF SameGround, SurroundingFields, board_occupied
<1> QED BY <1>2, GroundSurrounding

(* maybe_handle_stalemate ends the game for lack of moves or goes on.      *)
LEMMA StalemateVerdict ==
  ASSUME NEW s, Coherent(s), NEW o \in MillVariantOptions, Verdict(s, o)
  PROVE  \/ Follows(s, maybe_handle_stalemate(s, o), o)
         \/ Blocked(maybe_handle_stalemate(s, o), o)
<1> DEFINE c == s.side_to_move
           r == resolve_stalemate(s, o)
<1>1. CASE ~is_stalemate(s, o)
  BY <1>1 DEF maybe_handle_stalemate, Follows
<1>2. CASE is_stalemate(s, o)
  <2>1. s \in MillStates /\ c \in Sides /\ Opp(c) \in Sides /\ s.phase = "Moving"
    BY <1>2, OppIsSide DEF is_stalemate, Coherent, Synced
  <2>2. s.phase # "GameOver"
    BY <2>1
  <2>3. ASSUME NEW winner, winner # NONE, NEW reason,
               reason \in {"LoseNoLegalMoves", "DrawStalemate"},
               r = [s EXCEPT !.phase = "GameOver", !.winner = winner,
                             !.outcome_reason = reason]
        PROVE  Blocked(sync_action_state(r), o)
    <3>1. /\ Alters(s, r, {"phase", "winner", "outcome_reason"})
          /\ r.phase = "GameOver" /\ r.winner = winner /\ r.outcome_reason = reason
      BY <2>1, <2>3, FieldsOfState DEF Alters, Fields
    <3> HIDE DEF r
    <3> DEFINE u == sync_action_state(r)
    <3>2. Alters(r, u, {"action"})
      BY <3>1 DEF Alters, Fields, sync_action_state
    <3> HIDE DEF u
    <3>3. /\ u.phase = "GameOver" /\ u.winner = winner /\ u.outcome_reason = reason
          /\ u.side_to_move = c
          /\ \A f \in SurroundingFields : u[f] = s[f]
      BY <3>1, <3>2 DEF Alters, Fields, SurroundingFields
    <3>4. /\ is_all_surrounded(s, o, c)
          /\ ~(BelowFlyLimit(s, o, c) /\ OnBoard(s) < Cardinality(Nodes))
      BY <1>2 DEF is_stalemate
    <3>5. /\ is_all_surrounded(u, o, c) <=> is_all_surrounded(s, o, c)
          /\ BelowFlyLimit(u, o, c) <=> BelowFlyLimit(s, o, c)
          /\ OnBoard(u) = OnBoard(s)
      BY <3>3, SameSurrounding
    <3>6. Blocked(u, o)
      BY <2>1, <2>3, <3>3, <3>4, <3>5 DEF Blocked, BlockedReasons
    <3> QED BY <3>6 DEF u
  <2>4. r = sync_phase_with_active_hand([s EXCEPT !.side_to_move = Opp(c)])
          => Follows(s, r, o)
    <3> DEFINE p == [s EXCEPT !.side_to_move = Opp(c)]
    <3>1. Live(p) /\ Alters(s, p, {"side_to_move"})
      BY <2>1, PassLive, PassEffect DEF Live
    <3> HIDE DEF p, r
    <3>2. Follows(s, p, o) /\ p.phase # "GameOver"
      <4>1. p.phase # "GameOver"
        BY <2>2, <3>1 DEF Alters, Fields
      <4> QED BY <2>2, <3>1, <4>1, StillOpen
    <3>3. Follows(p, sync_phase_with_active_hand(p), o)
      BY <3>1, <3>2, PhaseVerdict DEF Follows
    <3>4. Follows(s, sync_phase_with_active_hand(p), o)
      BY <3>2, <3>3, FollowsTwice
    <3> QED BY <3>4 DEF p
  <2> DEFINE owing == [s EXCEPT !.pending_removals[c] = 1]
             again == [owing EXCEPT !.stalemate_removing = TRUE]
             both == [owing EXCEPT !.pending_removals[Opp(c)] = 1,
                                   !.both_stalemate_removing = TRUE]
             G == {"pending_removals", "stalemate_removing", "both_stalemate_removing"}
  <2>5. \A u \in {owing, again, both} : r = clear_capture_state(u) =>
          Alters(s, r, G \union CaptureState)
    <3>1. Alters(s, owing, G) /\ DOMAIN owing = Fields
      BY <2>1, FieldsOfState DEF Alters, Fields
    <3> HIDE DEF owing
    <3>2. Alters(owing, again, G) /\ Alters(owing, both, G)
      BY <3>1 DEF Alters, Fields
    <3> HIDE DEF again, both
    <3>3. \A u \in {owing, again, both} : Alters(s, u, G)
      BY <3>1, <3>2 DEF Alters
    <3>4. ASSUME NEW u, Alters(s, u, G)
          PROVE  Alters(s, clear_capture_state(u), G \union CaptureState)
      <4>1. DOMAIN u = Fields
        BY <3>4 DEF Alters
      <4>2. Alters(u, clear_capture_state(u), CaptureState)
        BY <4>1 DEF Alters, Fields, CaptureState, clear_capture_state
      <4> QED BY <3>4, <4>2, AltersTwice
    <3> HIDE DEF r, G
    <3> QED BY <3>3, <3>4
  <2>6. \/ r = [s EXCEPT !.phase = "GameOver", !.winner = Opp(c),
                         !.outcome_reason = "LoseNoLegalMoves"]
        \/ r = [s EXCEPT !.phase = "GameOver", !.winner = DRAW,
                         !.outcome_reason = "DrawStalemate"]
        \/ r = sync_phase_with_active_hand([s EXCEPT !.side_to_move = Opp(c)])
        \/ \E u \in {owing, again, both} : r = clear_capture_state(u)
    BY DEF resolve_stalemate
  <2>7. (\E u \in {owing, again, both} : r = clear_capture_state(u)) => Follows(s, r, o)
    <3> HIDE DEF owing, again, both, r
    <3>1. (G \union CaptureState) \intersect VerdictFields = {}
      BY DEF CaptureState, VerdictFields, MaterialFields
    <3> HIDE DEF G
    <3> QED BY <2>5, <3>1, SameVerdict
  <2>8. Opp(c) # NONE /\ DRAW # NONE
    BY <2>1 DEF Sides, NONE, DRAW
  <2> HIDE DEF r, owing, again, both
  <2>9. r = [s EXCEPT !.phase = "GameOver", !.winner = Opp(c),
                      !.outcome_reason = "LoseNoLegalMoves"]
          => Blocked(sync_action_state(r), o)
    BY <2>3, <2>8
  <2>10. r = [s EXCEPT !.phase = "GameOver", !.winner = DRAW,
                       !.outcome_reason = "DrawStalemate"]
          => Blocked(sync_action_state(r), o)
    BY <2>3, <2>8
  <2>11. Follows(s, r, o) \/ Blocked(sync_action_state(r), o)
    BY Zenon, <2>4, <2>6, <2>7, <2>9, <2>10
  <2>12. r \in MillStates
    BY <1>2, StalemateTyped DEF r
  <2>13. Follows(s, r, o) => Follows(r, sync_action_state(r), o)
    BY <2>12, SyncActionEffect, SameVerdict
       DEF VerdictFields, MaterialFields, Follows
  <2>14. maybe_handle_stalemate(s, o) = sync_action_state(r)
    BY <1>2 DEF maybe_handle_stalemate, r
  <2> QED BY <2>11, <2>13, <2>14, FollowsTwice
<1> QED BY <1>1, <1>2

-----------------------------------------------------------------------------
(* Placing *)

(* What the steps of a turn touch, whatever the values they write.         *)
LEMMA StepAlters ==
  ASSUME NEW s, DOMAIN s = Fields
  PROVE  /\ \A x, y, z : Alters(s, activate_capture_state(s, x, y, z), CaptureState)
         /\ Alters(s, clear_capture_state(s), CaptureState)
         /\ \A n : Alters(s, owe(s, n), {"pending_removals"})
         /\ \A b : Alters(s, [s EXCEPT !.mill_available_at_removal = b], CaptureState)
         /\ Alters(s, sync_action_state(s), {"action"})
<1>1. \A x, y, z : Alters(s, activate_capture_state(s, x, y, z), CaptureState)
  BY DEF Alters, Fields, CaptureState, activate_capture_state
<1>2. Alters(s, clear_capture_state(s), CaptureState)
  BY DEF Alters, Fields, CaptureState, clear_capture_state
<1>3. \A n : Alters(s, owe(s, n), {"pending_removals"})
  BY DEF Alters, Fields, owe
<1>4. \A b : Alters(s, [s EXCEPT !.mill_available_at_removal = b], CaptureState)
  BY DEF Alters, Fields, CaptureState
<1>5. Alters(s, sync_action_state(s), {"action"})
  BY DEF Alters, Fields, sync_action_state
<1> QED BY <1>1, <1>2, <1>3, <1>4, <1>5

LEMMA CaptureOnlyAlters ==
  ASSUME NEW s, DOMAIN s = Fields, NEW custodian, NEW intervention
  PROVE  Alters(s, capture_only(s, custodian, intervention), TurnFields)
<1> DEFINE active == activate_capture_state(s, custodian, intervention, {})
           owing == owe(active, capture_total(active))
           unavailable == [owing EXCEPT !.mill_available_at_removal = FALSE]
           t == sync_action_state(unavailable)
<1>1. Alters(s, active, CaptureState)
  BY StepAlters
<1> HIDE DEF active
<1>2. Alters(active, owing, {"pending_removals"})
  <2>1. DOMAIN active = Fields
    BY <1>1 DEF Alters
  <2> QED BY <2>1, StepAlters
<1> HIDE DEF owing
<1>3. Alters(owing, unavailable, CaptureState)
  <2>1. DOMAIN owing = Fields
    BY <1>2 DEF Alters
  <2> QED BY <2>1, StepAlters
<1> HIDE DEF unavailable
<1>4. Alters(unavailable, t, {"action"})
  <2>1. DOMAIN unavailable = Fields
    BY <1>3 DEF Alters
  <2> QED BY <2>1, StepAlters
<1>5. capture_only(s, custodian, intervention) = t
  BY DEF capture_only, unavailable, owing, active
<1> HIDE DEF t
<1>6. Alters(s, t, TurnFields)
  BY <1>1, <1>2, <1>3, <1>4 DEF Alters, TurnFields, Notes
<1> QED BY <1>5, <1>6

LEMMA OnBoardAlters ==
  ASSUME NEW s, DOMAIN s = Fields, NEW o, NEW lines, NEW custodian, NEW intervention
  PROVE  Alters(s, place_mill_on_board(s, o, lines, custodian, intervention), TurnFields)
<1> DEFINE owed == owe(s, removal_count(lines, o))
           owing == [owed EXCEPT !.mill_available_at_removal = TRUE]
           active == activate_capture_state(owing, custodian, intervention, {})
           total == removal_count(lines, o) + capture_total(active)
           all == owe(active, total)
           both == IF o.may_remove_multiple THEN all ELSE active
           t == sync_action_state(both)
<1>1. Alters(s, owed, {"pending_removals"})
  BY StepAlters
<1> HIDE DEF owed
<1>2. Alters(owed, owing, CaptureState)
  <2>1. DOMAIN owed = Fields
    BY <1>1 DEF Alters
  <2> QED BY <2>1, StepAlters
<1> HIDE DEF owing
<1>3. Alters(owing, active, CaptureState)
  <2>1. DOMAIN owing = Fields
    BY <1>2 DEF Alters
  <2> QED BY <2>1, StepAlters
<1> HIDE DEF active
<1> HIDE DEF total
<1>4. Alters(active, all, {"pending_removals"})
  <2>1. DOMAIN active = Fields
    BY <1>3 DEF Alters
  <2> QED BY <2>1, StepAlters
<1> HIDE DEF all
<1>5. Alters(active, both, {"pending_removals"})
  <2>1. Alters(active, active, {"pending_removals"})
    BY <1>3 DEF Alters
  <2> QED BY <1>4, <2>1
<1> HIDE DEF both
<1>6. Alters(both, t, {"action"})
  <2>1. DOMAIN both = Fields
    BY <1>5 DEF Alters
  <2> QED BY <2>1, StepAlters
<1>7. place_mill_on_board(s, o, lines, custodian, intervention) = t
  BY DEF place_mill_on_board, both, all, total, active, owing, owed
<1> HIDE DEF t
<1>8. Alters(s, t, TurnFields)
  BY <1>1, <1>2, <1>3, <1>5, <1>6 DEF Alters, TurnFields, Notes
<1> QED BY <1>7, <1>8

LEMMA TurnVerdict ==
  ASSUME NEW s, NEW o, Verdict(s, o), NEW t, Alters(s, t, TurnFields)
  PROVE  Follows(s, t, o)
<1>1. TurnFields \intersect VerdictFields = {}
  BY DEF TurnFields, CaptureState, Notes, VerdictFields, MaterialFields
<1> HIDE DEF TurnFields
<1> QED BY <1>1, SameVerdict

LEMMA NotedVerdict ==
  ASSUME NEW s, NEW o, Verdict(s, o), DOMAIN s = Fields,
         NEW c, NEW from, NEW to, NEW lines
  PROVE  Follows(s, note_mill_formation(s, o, c, from, to, lines), o)
<1>1. Alters(s, note_mill_formation(s, o, c, from, to, lines), Notes)
  BY DEF Alters, Fields, Notes, note_mill_formation
<1>2. Alters(s, note_mill_formation(s, o, c, from, to, lines), TurnFields)
  BY <1>1, AltersMore DEF TurnFields
<1> QED BY <1>2, TurnVerdict

LEMMA PassedVerdict ==
  ASSUME NEW s, Live(s), s.phase # "GameOver", NEW o \in MillVariantOptions,
         Verdict(s, o), NEW c \in Sides
  PROVE  Follows(s, settle([s EXCEPT !.side_to_move = c], o), o)
<1> DEFINE passed == [s EXCEPT !.side_to_move = c]
<1>1. Live(passed) /\ Alters(s, passed, {"side_to_move"})
  BY PassLive, PassEffect DEF Live
<1> HIDE DEF passed
<1>2. Follows(s, passed, o)
  BY <1>1, SameVerdict DEF VerdictFields, MaterialFields
<1>3. passed.phase # "GameOver"
  BY <1>1 DEF Alters, Fields
<1>4. Follows(passed, settle(passed, o), o)
  BY <1>1, <1>2, <1>3, SettleVerdict DEF Follows
<1>5. Follows(s, settle(passed, o), o)
  BY <1>2, <1>4, FollowsTwice
<1> QED BY <1>5 DEF passed

LEMMA ClearedVerdict ==
  ASSUME NEW s, Live(s), s.phase # "GameOver", NEW o, Verdict(s, o)
  PROVE  LET t == clear_capture_state(s)
         IN /\ Follows(s, t, o) /\ Live(t) /\ t.phase # "GameOver"
            /\ t.side_to_move = s.side_to_move
<1> DEFINE t == clear_capture_state(s)
<1>1. Alters(s, t, CaptureState) /\ Live(t)
  BY ClearEffect, ClearLive DEF Live
<1> HIDE DEF t
<1>2. Alters(s, t, TurnFields)
  BY <1>1 DEF Alters, TurnFields
<1>3. t.phase = s.phase /\ t.side_to_move = s.side_to_move
  BY <1>1 DEF Alters, Fields, CaptureState
<1> QED BY <1>1, <1>2, <1>3, TurnVerdict DEF t

LEMMA CountedVerdict ==
  ASSUME NEW s, Live(s), s.phase # "GameOver", NEW o \in MillVariantOptions,
         Verdict(s, o)
  PROVE  Follows(s, place_mill_counted(s, o), o)
<1> DEFINE cleared == clear_capture_state(s)
           counted == apply_removal_based_on_mill_counts(cleared, o)
           passed == [cleared EXCEPT !.side_to_move = Opp(cleared.side_to_move)]
<1>1. /\ Follows(s, cleared, o) /\ Live(cleared) /\ cleared.phase # "GameOver"
      /\ Opp(cleared.side_to_move) \in Sides
  BY ClearedVerdict, OppIsSide DEF Live
<1> HIDE DEF cleared
<1>2. Follows(s, settle(passed, o), o)
  <2>1. Follows(cleared, settle(passed, o), o)
    BY <1>1, PassedVerdict DEF Follows
  <2> QED BY <1>1, <2>1, FollowsTwice
<1>3. Follows(s, settle(counted, o), o)
  <2>1. Alters(cleared, counted, Counting) /\ counted \in MillStates
    BY <1>1, CountsEffect, MillCountRemovalsTyped DEF Counting, Live
  <2> HIDE DEF counted
  <2>2. counted.phase # "GameOver" /\ Live(counted)
    BY <1>1, <2>1 DEF Alters, Fields, Counting, Live
  <2>3. Follows(cleared, counted, o)
    BY <1>1, <2>1, SameVerdict DEF Counting, VerdictFields, MaterialFields, Follows
  <2>4. Follows(counted, settle(counted, o), o)
    BY <2>2, <2>3, SettleVerdict DEF Follows
  <2> QED BY <1>1, <2>3, <2>4, FollowsTwice
<1>4. place_mill_counted(s, o) =
        settle(IF s.pieces_in_hand = Both(0) THEN counted ELSE passed, o)
  BY DEF place_mill_counted, cleared
<1> HIDE DEF counted, passed
<1> QED BY <1>2, <1>3, <1>4

LEMMA QuietPlaceVerdict ==
  ASSUME NEW s, Live(s), s.phase # "GameOver", NEW o \in MillVariantOptions,
         Verdict(s, o)
  PROVE  Follows(s, place_quietly(s, o), o)
<1> DEFINE cleared == clear_capture_state(s)
           stopped == maybe_stop_placing_when_two_empty(cleared, o)
           passed == [stopped EXCEPT !.side_to_move = Opp(stopped.side_to_move)]
<1>1. Follows(s, cleared, o) /\ Live(cleared) /\ cleared.phase # "GameOver"
  BY ClearedVerdict
<1> HIDE DEF cleared
<1>2. Live(stopped) /\ Opp(stopped.side_to_move) \in Sides
  BY <1>1, StopPlacingTyped, OppIsSide DEF Live
<1>3. Follows(cleared, stopped, o) /\ stopped.phase # "GameOver"
  <2> DEFINE F == IF LostOnTheBoard(o) THEN {} ELSE {"pieces_in_hand"}
  <2>1. Alters(cleared, stopped, F)
    BY <1>1, FieldsOfState
       DEF Alters, Fields, Live, maybe_stop_placing_when_two_empty, LostOnTheBoard
  <2>2. stopped.phase # "GameOver"
    BY <1>1, <2>1 DEF Alters, Fields
  <2>3. /\ F \intersect {"winner", "outcome_reason"} = {}
        /\ LostOnTheBoard(o) => "pieces_in_hand" \notin F
    OBVIOUS
  <2> HIDE DEF F, stopped
  <2> QED BY <1>1, <2>1, <2>2, <2>3, StillOpen DEF Follows
<1>4. \/ place_quietly(s, o) = settle(stopped, o)
      \/ place_quietly(s, o) = settle(passed, o)
  BY DEF place_quietly, stopped, cleared
<1> HIDE DEF stopped
<1>5. Follows(stopped, settle(stopped, o), o) /\ Follows(stopped, settle(passed, o), o)
  BY <1>2, <1>3, SettleVerdict, PassedVerdict DEF Follows
<1> HIDE DEF passed
<1>6. Follows(s, settle(stopped, o), o) /\ Follows(s, settle(passed, o), o)
  BY <1>1, <1>3, <1>5, FollowsTwice
<1> QED BY <1>4, <1>6

LEMMA FromHandVerdict ==
  ASSUME NEW s, Live(s), s.phase # "GameOver", NEW o \in MillVariantOptions,
         Verdict(s, o), NEW lines \in SUBSET mill_lines(o), ~LostOnTheBoard(o)
  PROVE  Follows(s, place_mill_from_hand(s, o, lines), o)
<1> DEFINE c == s.side_to_move
           d == Opp(c)
           earned == removal_count(lines, o)
           hand == s.pieces_in_hand[d]
           taken == hand_removed(earned, hand)
           left == hand - taken
           drawn == [s EXCEPT !.pieces_in_hand[d] = left]
           next == IF o.mill_formation_action_in_placing_phase
                        = "RemoveOpponentsPieceFromHandThenOpponentsTurn"
                     THEN d ELSE c
           owing == owe(drawn, earned - taken)
           passed == [drawn EXCEPT !.side_to_move = next]
           t == IF earned > taken THEN sync_action_state(owing) ELSE settle(passed, o)
<1>1. c \in Sides /\ d \in Sides /\ next \in Sides
  BY OppIsSide DEF Live
<1>2. left \in Nat
  <2>1. earned \in Nat /\ hand \in Nat
    BY <1>1, CountsAreNatural DEF Live, MillStates
  <2> QED BY <2>1 DEF hand_removed
<1> HIDE DEF left
<1>3. Live(drawn) /\ Alters(s, drawn, {"pieces_in_hand"})
  BY <1>1, <1>2, FieldsOfState DEF Live, MillStates, Alters, Fields
<1> HIDE DEF drawn
<1>4. drawn.phase # "GameOver"
  BY <1>3 DEF Alters, Fields
<1>5. Follows(s, drawn, o)
  BY <1>3, <1>4, StillOpen
<1>6. /\ Follows(drawn, sync_action_state(owing), o)
      /\ DOMAIN sync_action_state(owing) = Fields
  <2>1. DOMAIN drawn = Fields
    BY <1>3 DEF Alters
  <2>2. Alters(drawn, owing, {"pending_removals"})
    BY <2>1, StepAlters
  <2> HIDE DEF owing
  <2>3. DOMAIN owing = Fields
    BY <2>2 DEF Alters
  <2>4. Alters(owing, sync_action_state(owing), {"action"})
    BY <2>3, StepAlters
  <2>5. Alters(drawn, sync_action_state(owing), TurnFields)
    BY <2>2, <2>4 DEF Alters, TurnFields, Notes
  <2>6. DOMAIN sync_action_state(owing) = Fields
    BY <2>4 DEF Alters
  <2> QED BY <1>5, <2>5, <2>6, TurnVerdict DEF Follows
<1>7. Follows(drawn, settle(passed, o), o)
  BY <1>1, <1>3, <1>4, <1>5, PassedVerdict DEF Follows
<1>8. Verdict(t, o)
  BY <1>6, <1>7 DEF Follows
<1>9. DOMAIN t = Fields
  <2>1. Coherent(settle(passed, o))
    BY <1>1, <1>3, PassLive, SettleCoherent
  <2>2. DOMAIN settle(passed, o) = Fields
    BY <2>1, FieldsOfState DEF Coherent
  <2> QED BY <1>6, <2>2
<1>10. place_mill_from_hand(s, o, lines) = clear_capture_state(t)
  BY DEF place_mill_from_hand, drawn, left
<1> HIDE DEF t
<1>11. Alters(t, clear_capture_state(t), CaptureState)
  BY <1>9, StepAlters
<1>12. Alters(t, clear_capture_state(t), TurnFields)
  BY <1>11 DEF Alters, TurnFields
<1>13. Follows(t, clear_capture_state(t), o)
  BY <1>8, <1>12, TurnVerdict
<1> QED BY <1>10, <1>13 DEF Follows

LEMMA PlaceVerdict ==
  ASSUME NEW s, Live(s), s.phase # "GameOver", NEW o \in MillVariantOptions,
         Verdict(s, o), NEW to \in Nodes
  PROVE  Follows(place_live_piece(s, to), apply_place(s, o, to), o)
<1> DEFINE c == s.side_to_move
           placed == place_live_piece(s, to)
           custodian == detect_custodian_targets(placed, o, to)
           intervention == detect_intervention_targets(placed, o, to)
           lines == usable_mills(placed, o, formed_mills_at(placed, o, to, c))
           drawn == place_mill_from_hand(placed, o, lines)
           counted == place_mill_counted(placed, o)
           onboard == place_mill_on_board(placed, o, lines, custodian, intervention)
           Noted(mill) == note_mill_formation(mill, o, c, NONE, to, lines)
           captured == capture_only(placed, custodian, intervention)
           quiet == place_quietly(placed, o)
           t == apply_place(s, o, to)
<1>1. \/ t \in {Noted(counted), Noted(onboard), captured, quiet}
      \/ ~LostOnTheBoard(o) /\ t = Noted(drawn)
  BY DEF apply_place, LostOnTheBoard
<1>2. /\ Live(placed) /\ placed.phase # "GameOver" /\ Verdict(placed, o)
  <2>1. Live(placed)
    BY PlacedLive
  <2>2. /\ placed.phase = s.phase /\ placed.winner = s.winner
        /\ placed.outcome_reason = s.outcome_reason
    <3>1. DOMAIN s = Fields
      BY FieldsOfState DEF Live
    <3> QED BY <3>1 DEF place_live_piece, clear_key_history, Fields
  <2> QED BY <2>1, <2>2 DEF Verdict
<1>3. lines \in SUBSET mill_lines(o)
  <2> HIDE DEF placed
  <2> QED BY CountsAreNatural
<1> HIDE DEF placed, custodian, intervention, lines, t
<1>4. DOMAIN placed = Fields
  BY <1>2, FieldsOfState DEF Live
<1>5. Follows(placed, counted, o) /\ Follows(placed, quiet, o)
  BY <1>2, CountedVerdict, QuietPlaceVerdict
<1>6. Alters(placed, onboard, TurnFields) /\ Alters(placed, captured, TurnFields)
  BY <1>4, OnBoardAlters, CaptureOnlyAlters
<1>7. Follows(placed, onboard, o) /\ Follows(placed, captured, o)
  BY <1>2, <1>6, TurnVerdict
<1>8. /\ DOMAIN counted = Fields /\ DOMAIN onboard = Fields
      /\ DOMAIN drawn = Fields
  BY <1>2, <1>3, <1>6, CountedCoherent, FromHandCoherent, FieldsOfState
     DEF Coherent, Alters
<1> HIDE DEF counted, onboard, captured, quiet
<1>9. /\ Follows(placed, Noted(counted), o) /\ Follows(placed, Noted(onboard), o)
      /\ ~LostOnTheBoard(o) => Follows(placed, Noted(drawn), o)
  <2>1. /\ Follows(counted, Noted(counted), o)
        /\ Follows(onboard, Noted(onboard), o)
    BY <1>5, <1>7, <1>8, NotedVerdict DEF Follows
  <2>2. ~LostOnTheBoard(o) => Follows(placed, drawn, o)
    BY <1>2, <1>3, FromHandVerdict
  <2> HIDE DEF drawn
  <2>3. ~LostOnTheBoard(o) => Follows(drawn, Noted(drawn), o)
    BY <1>8, <2>2, NotedVerdict DEF Follows
  <2> QED BY <1>5, <1>7, <2>1, <2>2, <2>3, FollowsTwice
<1> HIDE DEF Noted
<1>10. Follows(placed, t, o)
  BY <1>1, <1>5, <1>7, <1>9
<1> QED BY <1>10 DEF placed, t

LEMMA FastPlacedVerdict ==
  ASSUME NEW s, Live(s), s.phase # "GameOver", NEW o \in MillVariantOptions,
         Verdict(s, o), NEW to \in Nodes
  PROVE  Follows(place_live_piece(s, to), fast_placed(s, o, to), o)
<1> DEFINE c == s.side_to_move
           placed == place_live_piece(s, to)
           lines == IF s.pieces_on_board[c] >= 2
                      THEN formed_mills_at(placed, o, to, c) ELSE {}
           owed == owe(placed, removal_count(lines, o))
           owing == [owed EXCEPT !.mill_available_at_removal = TRUE]
           milled == sync_action_state(owing)
           noted == note_mill_formation(milled, o, c, NONE, to, lines)
           settled == settle([placed EXCEPT !.side_to_move = Opp(c)], o)
           t == fast_placed(s, o, to)
<1>1. t = noted \/ t = settled
  BY DEF fast_placed
<1>2. /\ Live(placed) /\ placed.phase # "GameOver" /\ Verdict(placed, o)
  <2>1. Live(placed)
    BY PlacedLive
  <2>2. /\ placed.phase = s.phase /\ placed.winner = s.winner
        /\ placed.outcome_reason = s.outcome_reason
    <3>1. DOMAIN s = Fields
      BY FieldsOfState DEF Live
    <3> QED BY <3>1 DEF place_live_piece, clear_key_history, Fields
  <2> QED BY <2>1, <2>2 DEF Verdict
<1>3. Opp(c) \in Sides
  BY OppIsSide DEF Live
<1> HIDE DEF placed, lines, t
<1>4. Follows(placed, settled, o)
  BY <1>2, <1>3, PassedVerdict
<1> HIDE DEF settled
<1>5. DOMAIN placed = Fields
  BY <1>2, FieldsOfState DEF Live
<1>6. Alters(placed, owed, {"pending_removals"})
  BY <1>5, StepAlters
<1> HIDE DEF owed
<1>7. Alters(owed, owing, CaptureState)
  <2>1. DOMAIN owed = Fields
    BY <1>6 DEF Alters
  <2> QED BY <2>1, StepAlters
<1> HIDE DEF owing
<1>8. Alters(owing, milled, {"action"})
  <2>1. DOMAIN owing = Fields
    BY <1>7 DEF Alters
  <2> QED BY <2>1, StepAlters
<1> HIDE DEF milled
<1>9. Alters(placed, milled, TurnFields) /\ DOMAIN milled = Fields
  BY <1>6, <1>7, <1>8 DEF Alters, TurnFields, Notes
<1>10. Follows(placed, milled, o)
  BY <1>2, <1>9, TurnVerdict
<1>11. Follows(milled, noted, o)
  BY <1>9, <1>10, NotedVerdict DEF Follows
<1> HIDE DEF noted
<1>12. Follows(placed, t, o)
  BY <1>1, <1>4, <1>10, <1>11, FollowsTwice
<1> QED BY <1>12 DEF placed, t

-----------------------------------------------------------------------------
(* Moving *)

(* maybe_draw_by_n_move_rule draws at the threshold in force, provided the *)
(* counter has not outrun it.                                              *)
LEMMA QuietMoveVerdict ==
  ASSUME NEW s, Live(s), s.phase # "GameOver", NEW o \in MillVariantOptions,
         Verdict(s, o),
         n_move_rule_reached(s, o) => s.ply_since_capture = draw_threshold(s, o)
  PROVE  Follows(s, move_quietly(s, o, TRUE), o)
<1> DEFINE c == s.side_to_move
           cleared == clear_capture_state(s)
           passed == [cleared EXCEPT !.last_mill_from[c] = NONE,
                        !.last_mill_to[c] = NONE, !.side_to_move = Opp(c)]
           judged == maybe_draw_by_n_move_rule(push_key_and_check_threefold(passed, o), o)
           phased == sync_phase_with_active_hand(judged)
           t == sync_action_state(phased)
           Forgotten == {"last_mill_from", "last_mill_to", "side_to_move"}
<1>1. /\ Follows(s, cleared, o) /\ Live(cleared) /\ cleared.phase # "GameOver"
      /\ cleared.side_to_move = c /\ c \in Sides /\ Opp(c) \in Sides
  BY ClearedVerdict, OppIsSide DEF Live
<1>2. /\ cleared.ply_since_capture = s.ply_since_capture
      /\ cleared.pieces_on_board = s.pieces_on_board
  BY ClearEffect DEF Alters, Fields, CaptureState, Live
<1> HIDE DEF cleared
<1>3. Live(passed) /\ Alters(cleared, passed, Forgotten)
  <2>1. Live(passed)
    BY <1>1, ForgetMillLive
  <2>2. cleared \in MillStates
    BY <1>1 DEF Live
  <2> QED BY <2>1, <2>2, FieldsOfState DEF Alters, Fields
<1> HIDE DEF passed
<1>4. Follows(cleared, passed, o)
  BY <1>1, <1>3, SameVerdict DEF VerdictFields, MaterialFields, Follows
<1>5. /\ passed.phase # "GameOver" /\ passed.ply_since_capture = s.ply_since_capture
      /\ passed.pieces_on_board = s.pieces_on_board
  BY <1>1, <1>2, <1>3 DEF Alters, Fields
<1>6. n_move_rule_reached(passed, o) =>
        passed.ply_since_capture = draw_threshold(passed, o)
  BY <1>5, SameThreshold DEF n_move_rule_reached
<1>7. /\ Playable(judged)
      /\ \/ Alters(passed, judged, {"key_history"})
         \/ /\ Alters(passed, judged, {"key_history", "phase", "winner", "outcome_reason",
                                       "side_to_move"})
            /\ judged.phase = "GameOver" /\ judged.winner = DRAW
            /\ \/ judged.outcome_reason = "DrawThreefold"
               \/ /\ n_move_rule_reached(passed, o)
                  /\ judged.outcome_reason \in {"DrawFiftyMove", "DrawEndgameFiftyMove"}
  BY <1>3, <1>5, JudgedEffect
<1> HIDE DEF judged
<1>8. Follows(passed, judged, o)
  <2>1. CASE Alters(passed, judged, {"key_history"})
    BY <1>4, <2>1, SameVerdict DEF VerdictFields, MaterialFields, Follows
  <2>2. CASE /\ Alters(passed, judged, {"key_history", "phase", "winner",
                                        "outcome_reason", "side_to_move"})
             /\ judged.phase = "GameOver" /\ judged.winner = DRAW
             /\ \/ judged.outcome_reason = "DrawThreefold"
                \/ /\ n_move_rule_reached(passed, o)
                   /\ judged.outcome_reason \in {"DrawFiftyMove", "DrawEndgameFiftyMove"}
    <3>1. /\ judged.pieces_in_hand = passed.pieces_in_hand
          /\ judged.ply_since_capture = passed.ply_since_capture
          /\ judged.pieces_on_board = passed.pieces_on_board
      BY <2>2 DEF Alters, Fields
    <3>2. draw_threshold(judged, o) = draw_threshold(passed, o)
      BY <3>1, SameThreshold
    <3>3. DRAW # NONE
      BY DEF DRAW, NONE
    <3> QED BY <1>6, <2>2, <3>1, <3>2, <3>3 DEF Follows, Verdict, BlockedReasons
  <2> QED BY <1>7, <2>1, <2>2
<1>9. Follows(judged, phased, o) /\ phased \in MillStates
  <2>1. CASE judged.phase = "GameOver"
    <3>1. phased = judged
      BY <2>1 DEF sync_phase_with_active_hand
    <3> QED BY <1>7, <1>8, <3>1 DEF Follows, Playable
  <2>2. CASE judged.phase # "GameOver"
    <3>1. Live(judged)
      BY <1>7, <2>2 DEF Playable, Live
    <3> QED BY <1>8, <2>2, <3>1, PhaseVerdict DEF Follows, Live
  <2> QED BY <2>1, <2>2
<1> HIDE DEF phased
<1>10. Follows(phased, t, o)
  BY <1>9, SyncActionEffect, SameVerdict DEF VerdictFields, MaterialFields, Follows
<1>11. move_quietly(s, o, TRUE) = t
  BY DEF move_quietly, phased, judged, passed, cleared
<1> HIDE DEF t
<1>12. Follows(s, t, o)
  BY <1>1, <1>4, <1>8, <1>9, <1>10, FollowsTwice
<1> QED BY <1>11, <1>12

(* A move that is not quiet leaves the board as it was moved.              *)
LEMMA MoveAlters ==
  ASSUME NEW s, Fresh(s), NEW o, NEW from \in Nodes, NEW to \in Nodes
  PROVE  LET moved == bump_ply_since_capture(move_live_piece(s, from, to), o)
             t == apply_move(s, o, from, to, TRUE)
         IN t = move_quietly(moved, o, TRUE) \/ Alters(moved, t, TurnFields)
<1> DEFINE c == s.side_to_move
           moved == bump_ply_since_capture(move_live_piece(s, from, to), o)
           custodian == IF o.custodian_capture.in_moving_phase
                          THEN detect_custodian_targets(moved, o, to) ELSE {}
           intervention == IF o.intervention_capture.in_moving_phase
                             THEN detect_intervention_targets(moved, o, to) ELSE {}
           leap == IF o.leap_capture.in_moving_phase
                     THEN detect_leap_targets(moved, o, from, to) ELSE {}
           lines == usable_mills(moved, o, formed_mills_at(moved, o, to, c))
           leaping == activate_capture_state(moved, {}, {}, leap)
           leapowed == owe(leaping, 1)
           leapdone == [leapowed EXCEPT !.mill_available_at_removal = FALSE]
           leapt == sync_action_state(leapdone)
           owed == owe(moved, removal_count(lines, o))
           owing == [owed EXCEPT !.mill_available_at_removal = TRUE]
           active == activate_capture_state(owing, custodian, intervention, {})
           noted == note_mill_formation(active, o, c, from, to, lines)
           milled == sync_action_state(noted)
           captured == capture_only(moved, custodian, intervention)
           quiet == move_quietly(moved, o, TRUE)
           t == apply_move(s, o, from, to, TRUE)
<1>1. t \in {leapt, milled, captured, quiet}
  BY DEF apply_move
<1>2. Fresh(moved)
  BY MovedFresh
<1> HIDE DEF moved, custodian, intervention, leap, lines, t, quiet
<1>3. DOMAIN moved = Fields
  BY <1>2, FieldsOfState DEF Fresh, Live
<1>4. Alters(moved, captured, TurnFields)
  BY <1>3, CaptureOnlyAlters
<1> HIDE DEF captured
<1>5. Alters(moved, leapt, TurnFields)
  <2>1. Alters(moved, leaping, CaptureState)
    BY <1>3, StepAlters
  <2> HIDE DEF leaping
  <2>2. Alters(leaping, leapowed, {"pending_removals"})
    <3>1. DOMAIN leaping = Fields
      BY <2>1 DEF Alters
    <3> QED BY <3>1, StepAlters
  <2> HIDE DEF leapowed
  <2>3. Alters(leapowed, leapdone, CaptureState)
    <3>1. DOMAIN leapowed = Fields
      BY <2>2 DEF Alters
    <3> QED BY <3>1, StepAlters
  <2> HIDE DEF leapdone
  <2>4. Alters(leapdone, leapt, {"action"})
    <3>1. DOMAIN leapdone = Fields
      BY <2>3 DEF Alters
    <3> QED BY <3>1, StepAlters
  <2> HIDE DEF leapt
  <2> QED BY <2>1, <2>2, <2>3, <2>4 DEF Alters, TurnFields, Notes
<1> HIDE DEF leapt, leapdone, leapowed, leaping
<1>6. Alters(moved, milled, TurnFields)
  <2>1. Alters(moved, owed, {"pending_removals"})
    BY <1>3, StepAlters
  <2> HIDE DEF owed
  <2>2. Alters(owed, owing, CaptureState)
    <3>1. DOMAIN owed = Fields
      BY <2>1 DEF Alters
    <3> QED BY <3>1, StepAlters
  <2> HIDE DEF owing
  <2>3. Alters(owing, active, CaptureState)
    <3>1. DOMAIN owing = Fields
      BY <2>2 DEF Alters
    <3> QED BY <3>1, StepAlters
  <2> HIDE DEF active
  <2>4. Alters(active, noted, Notes)
    BY <2>3 DEF Alters, Fields, Notes, note_mill_formation
  <2> HIDE DEF noted
  <2>5. Alters(noted, milled, {"action"})
    <3>1. DOMAIN noted = Fields
      BY <2>4 DEF Alters
    <3> QED BY <3>1, StepAlters
  <2> HIDE DEF milled
  <2> QED BY <2>1, <2>2, <2>3, <2>4, <2>5 DEF Alters, TurnFields, Notes
<1> HIDE DEF milled, noted, active, owing, owed
<1>7. t = quiet \/ Alters(moved, t, TurnFields)
  BY <1>1, <1>4, <1>5, <1>6
<1> QED BY <1>7 DEF moved, t, quiet

LEMMA MoveVerdict ==
  ASSUME NEW s, Fresh(s), NEW o \in MillVariantOptions, Verdict(s, o),
         NEW from \in Nodes, NEW to \in Nodes,
         LET moved == bump_ply_since_capture(move_live_piece(s, from, to), o)
         IN n_move_rule_reached(moved, o) =>
              moved.ply_since_capture = draw_threshold(moved, o)
  PROVE  Follows(bump_ply_since_capture(move_live_piece(s, from, to), o),
                 apply_move(s, o, from, to, TRUE), o)
<1> DEFINE moved == bump_ply_since_capture(move_live_piece(s, from, to), o)
           quiet == move_quietly(moved, o, TRUE)
           t == apply_move(s, o, from, to, TRUE)
<1>1. t = quiet \/ Alters(moved, t, TurnFields)
  BY MoveAlters
<1>2. Fresh(moved) /\ Alters(s, moved, {"board", "ply_since_capture"})
  BY MovedFresh
<1> HIDE DEF moved, t
<1>3. moved.phase # "GameOver" /\ Live(moved) /\ Verdict(moved, o)
  <2>1. /\ moved.phase = s.phase /\ moved.winner = s.winner
        /\ moved.outcome_reason = s.outcome_reason
    BY <1>2 DEF Alters, Fields
  <2> QED BY <1>2, <2>1 DEF Fresh, Verdict
<1>4. Follows(moved, quiet, o)
  BY <1>3, QuietMoveVerdict DEF moved
<1> HIDE DEF quiet
<1>5. Follows(moved, t, o)
  BY <1>1, <1>3, <1>4, TurnVerdict
<1> QED BY <1>5 DEF moved, t

-----------------------------------------------------------------------------
(* Removing *)

LEMMA RemovalTaken ==
  ASSUME NEW s, Live(s), Owes(s), NEW o, NEW n \in Nodes, NEW target \in Sides,
         n \in piece_bitboard(s, target), s.pieces_on_board[target] > 0
  PROVE  LET w == consume_target(take_piece(choose_obligation(s, o, n), o, n, target),
                                 o, n)
         IN /\ Live(w) /\ Taken(s, w, n, target) /\ w.phase = s.phase
            /\ w.winner = s.winner /\ w.outcome_reason = s.outcome_reason
<1> DEFINE owing == choose_obligation(s, o, n)
           less == take_piece(owing, o, n, target)
           w == consume_target(less, o, n)
<1>1. s \in MillStates /\ s.side_to_move \in Sides
  BY DEF Live
<1>2. /\ Alters(s, owing, CaptureState \union {"pending_removals"})
      /\ owing \in MillStates /\ owing.side_to_move = s.side_to_move
      /\ owing.pending_removals[s.side_to_move] > 0
  BY ObligationEffect
<1> HIDE DEF owing
<1>3. /\ owing.board = s.board /\ owing.marked = s.marked /\ owing.phase = s.phase
      /\ owing.pieces_on_board = s.pieces_on_board
      /\ owing.pieces_in_hand = s.pieces_in_hand
      /\ owing.winner = s.winner /\ owing.outcome_reason = s.outcome_reason
  BY <1>2 DEF Alters, Fields, CaptureState
<1>4. \A k : piece_bitboard(owing, k) = piece_bitboard(s, k)
  BY <1>3, SameBitboards
<1>5. Live(owing) /\ Owes(owing)
  BY <1>1, <1>2 DEF Live, Owes
<1>6. /\ less \in MillStates /\ less.side_to_move = owing.side_to_move
      /\ less.phase = owing.phase
      /\ Alters(owing, less, {"board", "marked", "pieces_on_board", "pending_removals",
                              "ply_since_capture", "key_history"})
      /\ Taken(owing, less, n, target)
  <2>1. n \in piece_bitboard(owing, target) /\ owing.pieces_on_board[target] > 0
    BY <1>3, <1>4
  <2> DEFINE e == owing.side_to_move
  <2>2. /\ less \in MillStates /\ less.side_to_move = e /\ less.phase = owing.phase
        /\ Alters(owing, less, {"board", "marked", "pieces_on_board", "pending_removals",
                                "ply_since_capture", "key_history"})
        /\ less.pending_removals = [owing.pending_removals EXCEPT ![e] = @ - 1]
        /\ owing.phase = "Moving" => less.marked = owing.marked
        /\ Taken(owing, less, n, target)
    BY <1>5, <2>1, TakeEffect
  <2> HIDE DEF less
  <2> QED BY <2>2
<1> HIDE DEF less
<1>7. less.winner = s.winner /\ less.outcome_reason = s.outcome_reason
  BY <1>3, <1>6 DEF Alters, Fields
<1>8. /\ w \in MillStates /\ w.side_to_move = less.side_to_move
      /\ Alters(less, w, CaptureState \ {"mill_available_at_removal"})
  <2>1. Live(less)
    BY <1>1, <1>2, <1>6 DEF Live
  <2> QED BY <2>1, ConsumeEffect
<1> HIDE DEF w
<1>9. /\ w.board = less.board /\ w.marked = less.marked /\ w.phase = less.phase
      /\ w.pieces_on_board = less.pieces_on_board
      /\ w.pieces_in_hand = less.pieces_in_hand
      /\ w.ply_since_capture = less.ply_since_capture
      /\ w.winner = less.winner /\ w.outcome_reason = less.outcome_reason
  BY <1>8 DEF Alters, Fields, CaptureState
<1>10. \A k : piece_bitboard(w, k) = piece_bitboard(less, k)
  BY <1>9, SameBitboards
<1>11. Taken(s, w, n, target)
  BY <1>3, <1>4, <1>6, <1>9, <1>10 DEF Taken
<1>12. Live(w) /\ w.phase = s.phase
  BY <1>1, <1>2, <1>3, <1>6, <1>8, <1>9 DEF Live
<1> QED BY <1>7, <1>9, <1>11, <1>12 DEF w, less, owing

LEMMA FinishVerdict ==
  ASSUME NEW s, Live(s), s.phase # "GameOver", NEW o \in MillVariantOptions,
         Verdict(s, o), NEW own
  PROVE  Follows(s, finish_removal(s, o, own), o)
<1> DEFINE c == s.side_to_move
           paid == clear_capture_state_for_side(s, c)
           own_left == IF own THEN FALSE ELSE paid.remove_own_piece[c]
           side == IF s.stalemate_removing THEN paid.side_to_move
                   ELSE Opp(paid.side_to_move)
           both == paid.both_stalemate_removing /\ s.pending_removals # Both(0)
           full == paid.board_full_removing /\ s.pending_removals # Both(0)
           kept == [paid EXCEPT !.remove_own_piece[c] = own_left]
           passed == [kept EXCEPT !.stalemate_removing = FALSE, !.side_to_move = side,
                        !.both_stalemate_removing = both, !.board_full_removing = full]
           F == {"remove_own_piece", "stalemate_removing", "side_to_move",
                 "both_stalemate_removing", "board_full_removing"}
<1>1. s \in MillStates /\ c \in Sides /\ Opp(c) \in Sides
  BY OppIsSide DEF Live
<1>2. Alters(s, paid, CaptureState) /\ paid \in MillStates
  BY <1>1, ClearSideTyped, FieldsOfState
     DEF Alters, Fields, CaptureState, clear_capture_state_for_side
<1>3. paid.side_to_move = c
  BY <1>2 DEF Alters, Fields, CaptureState
<1>4. finish_removal(s, o, own) = settle(passed, o)
  BY DEF finish_removal, paid
<1> HIDE DEF paid
<1>5. /\ own_left \in BOOLEAN /\ side \in Sides /\ both \in BOOLEAN /\ full \in BOOLEAN
  BY <1>1, <1>2, <1>3 DEF MillStates
<1> HIDE DEF own_left, side, both, full
<1>6. kept \in MillStates /\ Alters(paid, kept, F)
  BY <1>1, <1>2, <1>5, FieldsOfState DEF MillStates, Alters, Fields
<1> HIDE DEF kept
<1>7. Alters(kept, passed, F) /\ passed.side_to_move \in Sides
  BY <1>5, <1>6, FieldsOfState DEF Alters, Fields
<1>8. passed \in MillStates
  BY ZenonT(60), <1>5, <1>6 DEF MillStates
<1> HIDE DEF passed
<1>9. Alters(s, passed, CaptureState \union F) /\ Live(passed)
  BY <1>2, <1>7, <1>8, <1>6 DEF Alters, Live
<1>10. Follows(s, passed, o)
  <2>1. (CaptureState \union F) \intersect VerdictFields = {}
    BY DEF CaptureState, VerdictFields, MaterialFields
  <2> HIDE DEF F
  <2> QED BY <1>9, <2>1, SameVerdict
<1>11. passed.phase # "GameOver"
  BY <1>9 DEF Alters, Fields, CaptureState
<1>12. Follows(passed, settle(passed, o), o)
  BY <1>9, <1>10, <1>11, SettleVerdict DEF Follows
<1>13. Follows(s, settle(passed, o), o)
  BY <1>10, <1>12, FollowsTwice
<1> QED BY <1>4, <1>13

(* apply_remove: the side whose piece was taken has too few and has lost,  *)
(* or the turn goes on.                                                    *)
LEMMA RemoveVerdict ==
  ASSUME NEW s, Live(s), s.phase # "GameOver", Owes(s), NEW o \in MillVariantOptions,
         Verdict(s, o), NEW n \in Nodes,
         NEW target \in Sides,
         target = IF s.remove_own_piece[s.side_to_move]
                    THEN s.side_to_move ELSE Opp(s.side_to_move),
         n \in piece_bitboard(s, target), s.pieces_on_board[target] > 0
  PROVE  \E w \in MillStates :
           /\ Taken(s, w, n, target)
           /\ \/ /\ has_too_few(w, o, target)
                 /\ apply_remove(s, o, n) = game_over(w, Opp(target), "LoseFewerThanThree")
              \/ /\ ~has_too_few(w, o, target)
                 /\ Follows(w, apply_remove(s, o, n), o)
<1> DEFINE own == s.remove_own_piece[s.side_to_move]
           w == consume_target(take_piece(choose_obligation(s, o, n), o, n, target), o, n)
           t == apply_remove(s, o, n)
<1>1. t = IF has_too_few(w, o, target)
            THEN game_over(w, Opp(target), "LoseFewerThanThree")
          ELSE IF w.pending_removals[s.side_to_move] = 0 THEN finish_removal(w, o, own)
          ELSE w
  BY DEF apply_remove
<1>2. /\ Live(w) /\ Taken(s, w, n, target) /\ w.phase = s.phase
      /\ w.winner = s.winner /\ w.outcome_reason = s.outcome_reason
  BY RemovalTaken
<1> HIDE DEF w, t
<1>3. Verdict(w, o) /\ w.phase # "GameOver" /\ w \in MillStates
  BY <1>2 DEF Verdict, Live
<1>4. Follows(w, finish_removal(w, o, own), o) /\ Follows(w, w, o)
  BY <1>2, <1>3, FinishVerdict DEF Follows
<1>5. ~has_too_few(w, o, target) => Follows(w, t, o)
  BY <1>1, <1>4
<1>6. /\ Taken(s, w, n, target)
      /\ \/ /\ has_too_few(w, o, target)
            /\ t = game_over(w, Opp(target), "LoseFewerThanThree")
         \/ ~has_too_few(w, o, target) /\ Follows(w, t, o)
  BY <1>1, <1>2, <1>5
<1> QED BY <1>3, <1>6 DEF t

-----------------------------------------------------------------------------
(* Results and material *)

Held(s, k) == s.pieces_on_board[k] + s.pieces_in_hand[k]
Enough(s, o) == \A k \in Sides : Held(s, k) >= o.pieces_at_least_count

(* A game goes on, with enough material on both sides, or ends for a       *)
(* reason that Verdict bears out, or because the side to move is blocked,  *)
(* or because one side, and one only, has too few.                         *)
Judged(s, o) ==
  \/ Verdict(s, o) /\ (LostOnTheBoard(o) /\ s.phase # "GameOver" => Enough(s, o))
  \/ Blocked(s, o)
  \/ /\ s.phase = "GameOver" /\ s.outcome_reason = "LoseFewerThanThree"
     /\ s.winner \in Sides
     /\ Held(s, Opp(s.winner)) < o.pieces_at_least_count
     /\ LostOnTheBoard(o) => Held(s, s.winner) >= o.pieces_at_least_count

LEMMA TailJudged ==
  ASSUME NEW w, NEW o \in MillVariantOptions, LostOnTheBoard(o) => Enough(w, o),
         NEW t, Coherent(t), Sound(t), t.pieces_on_board = w.pieces_on_board,
         Follows(w, t, o)
  PROVE  Judged(maybe_handle_stalemate(t, o), o)
<1> DEFINE u == maybe_handle_stalemate(t, o)
<1>1. (Follows(t, u, o) \/ Blocked(u, o)) /\ Keeps(t, u)
  BY StalemateVerdict, StalemateSound DEF Follows
<1> HIDE DEF u
<1>2. ASSUME Follows(t, u, o), LostOnTheBoard(o) PROVE Enough(u, o)
  <2>1. /\ u.pieces_in_hand = w.pieces_in_hand
        /\ u.pieces_on_board = w.pieces_on_board
    BY <1>1, <1>2 DEF Follows, Keeps
  <2> QED BY <1>2, <2>1 DEF Enough, Held
<1> QED BY <1>1, <1>2 DEF Judged, Follows, u

LEMMA StillEnough ==
  ASSUME NEW s, NEW o, Judged(s, o), s.phase # "GameOver"
  PROVE  Verdict(s, o) /\ (LostOnTheBoard(o) => Enough(s, o))
BY DEF Judged, Blocked

LEMMA PlaceJudged ==
  ASSUME NEW s, NEW o \in MillVariantOptions, Good(s, o), Judged(s, o),
         NEW a \in legal_actions(s, o), a.kind = "Place"
  PROVE  Judged(apply_to_state(s, o, a, TRUE), o)
<1> DEFINE c == s.side_to_move
           placed == place_live_piece(s, a.to)
           done == fast_placed(s, o, a.to)
           t == apply_place(s, o, a.to)
<1>1. /\ Fresh(s) /\ s.phase = "Placing" /\ s.pieces_in_hand[c] > 0
      /\ a.to \in Nodes /\ Live(s) /\ s.phase # "GameOver"
  BY LegalPlace, OccupancyOnBoard DEF Good, Fresh
<1>2. Verdict(s, o) /\ (LostOnTheBoard(o) => Enough(s, o))
  BY <1>1, StillEnough
<1>3. LostOnTheBoard(o) => Enough(placed, o)
  <2>1. /\ placed.pieces_in_hand =
             [s.pieces_in_hand EXCEPT ![c] = IF @ > 0 THEN @ - 1 ELSE 0]
        /\ placed.pieces_on_board = [s.pieces_on_board EXCEPT ![c] = @ + 1]
    BY <1>1, PlacedFresh
  <2> HIDE DEF placed
  <2>2. /\ s.pieces_in_hand \in [Sides -> Nat] /\ s.pieces_on_board \in [Sides -> Int]
        /\ c \in Sides
    BY <1>1 DEF Live, MillStates
  <2>3. \A k \in Sides : Held(placed, k) = Held(s, k)
    BY <1>1, <2>1, <2>2 DEF Held
  <2> QED BY <1>2, <2>3 DEF Enough
<1>4. Judged(maybe_handle_stalemate(t, o), o)
  <2>1. Coherent(t) /\ Sound(t) /\ Keeps(placed, t) /\ Follows(placed, t, o)
    BY <1>1, <1>2, PlaceSound, PlaceCoherent, PlaceVerdict
  <2> HIDE DEF t, placed
  <2> QED BY <1>3, <2>1, TailJudged DEF Keeps
<1>5. Judged(fast_place(s, o, a.to), o)
  <2>1. Coherent(done) /\ Sound(done) /\ Keeps(placed, done) /\ Follows(placed, done, o)
    BY <1>1, <1>2, FastPlacedSound, FastPlacedVerdict
  <2> HIDE DEF done, placed
  <2>2. Judged(maybe_handle_stalemate(done, o), o)
    BY <1>3, <2>1, TailJudged DEF Keeps
  <2>3. done.phase # "Moving" => maybe_handle_stalemate(done, o) = done
    BY DEF maybe_handle_stalemate, is_stalemate
  <2> QED BY <2>2, <2>3 DEF fast_place, done
<1>6. \/ apply_to_state(s, o, a, TRUE) = fast_place(s, o, a.to)
      \/ apply_to_state(s, o, a, TRUE) = maybe_handle_stalemate(t, o)
  BY DEF apply_to_state, apply_generally
<1> QED BY <1>4, <1>5, <1>6

LEMMA MoveJudged ==
  ASSUME NEW s, NEW o \in MillVariantOptions, Good(s, o), Judged(s, o),
         NEW a \in legal_actions(s, o), a.kind = "Move"
  PROVE  Judged(apply_to_state(s, o, a, TRUE), o)
<1> DEFINE moved == bump_ply_since_capture(move_live_piece(s, a.from, a.to), o)
           t == apply_move(s, o, a.from, a.to, TRUE)
<1>1. /\ Fresh(s) /\ MoveCounting(s, o)
      /\ s.pieces_in_hand = Both(0) => s.phase = "Moving"
      /\ a.from \in Nodes /\ a.to \in Nodes
  BY LegalMove, OccupancyOnBoard DEF Good
<1>2. Verdict(s, o) /\ (LostOnTheBoard(o) => Enough(s, o))
  BY <1>1, StillEnough DEF Fresh
<1>3. /\ Alters(s, moved, {"board", "ply_since_capture"})
      /\ moved.ply_since_capture = s.ply_since_capture + 1
  <2> DEFINE c == s.side_to_move
  <2>1. /\ Fresh(moved) /\ moved.phase = s.phase /\ moved.side_to_move = c
        /\ Alters(s, moved, {"board", "ply_since_capture"})
        /\ moved.board = [s.board EXCEPT ![a.from] = NONE, ![a.to] = c]
        /\ moved.ply_since_capture =
             IF MoveCounting(s, o) THEN s.ply_since_capture + 1
                                   ELSE s.ply_since_capture
    BY <1>1, MovedFresh, ZenonT(60)
  <2> HIDE DEF moved
  <2> QED BY <1>1, <2>1
<1>4. n_move_rule_reached(moved, o) =>
        moved.ply_since_capture = draw_threshold(moved, o)
  <2> HIDE DEF moved
  <2>1. moved.pieces_on_board = s.pieces_on_board
    BY <1>3 DEF Alters, Fields
  <2>2. draw_threshold(moved, o) = draw_threshold(s, o) /\ draw_threshold(s, o) \in Nat
    BY <2>1, SameThreshold, ThresholdNatural
  <2>3. ~Owes(s) /\ s.phase # "GameOver" /\ s.ply_since_capture \in Nat
    BY <1>1 DEF Fresh, Clean, Owes, Live, MillStates
  <2>4. draw_threshold(s, o) > 0 => s.ply_since_capture < draw_threshold(s, o)
    BY <2>3 DEF Good, Paced
  <2> QED BY <1>3, <2>2, <2>3, <2>4 DEF n_move_rule_reached
<1>5. LostOnTheBoard(o) => Enough(moved, o)
  <2> HIDE DEF moved
  <2>1. /\ moved.pieces_on_board = s.pieces_on_board
        /\ moved.pieces_in_hand = s.pieces_in_hand
    BY <1>3 DEF Alters, Fields
  <2> QED BY <1>2, <2>1 DEF Enough, Held
<1>6. Coherent(t) /\ Sound(t) /\ Keeps(moved, t) /\ Follows(moved, t, o)
  <2>1. Coherent(t)
    BY <1>1, MoveCoherent DEF Fresh
  <2>2. Sound(t) /\ Keeps(moved, t)
    BY <1>1, MoveSound
  <2>3. Follows(moved, t, o)
    BY <1>1, <1>2, <1>4, MoveVerdict
  <2> QED BY <2>1, <2>2, <2>3
<1>7. Judged(maybe_handle_stalemate(t, o), o)
  <2> HIDE DEF t, moved
  <2> QED BY <1>5, <1>6, TailJudged DEF Keeps
<1>8. apply_to_state(s, o, a, TRUE) = maybe_handle_stalemate(t, o)
  BY DEF apply_to_state, apply_generally
<1> QED BY <1>7, <1>8

LEMMA RemoveJudged ==
  ASSUME NEW s, NEW o \in MillVariantOptions, Good(s, o), Judged(s, o),
         NEW a \in legal_actions(s, o), a.kind = "Remove"
  PROVE  Judged(apply_to_state(s, o, a, TRUE), o)
<1> DEFINE c == s.side_to_move
           target == IF s.remove_own_piece[c] THEN c ELSE Opp(c)
           t == apply_remove(s, o, a.to)
<1>1. /\ Live(s) /\ s.phase # "GameOver" /\ s.action = "Remove" /\ Owes(s)
      /\ target \in Sides /\ a.to \in piece_bitboard(s, target) /\ a.to \in Nodes
      /\ Sound(s) /\ Counted(s, o)
  BY LegalRemove, OccupancyOnBoard DEF Good
<1>2. s.pieces_on_board[target] > 0
  BY <1>1, PieceIsCounted
<1>3. Verdict(s, o) /\ (LostOnTheBoard(o) => Enough(s, o))
  BY <1>1, StillEnough
<1>4. Coherent(t)
  BY <1>1, RemoveCoherent
<1>5. Sound(t) /\ \E w \in MillStates : Taken(s, w, a.to, target) /\ Keeps(w, t)
  BY <1>1, <1>2, RemoveSound
<1>6. \E w \in MillStates :
        /\ Taken(s, w, a.to, target)
        /\ \/ /\ has_too_few(w, o, target)
              /\ t = game_over(w, Opp(target), "LoseFewerThanThree")
           \/ /\ ~has_too_few(w, o, target)
              /\ Follows(w, t, o)
  BY <1>1, <1>2, <1>3, RemoveVerdict
<1>7. apply_to_state(s, o, a, TRUE) = maybe_handle_stalemate(t, o)
  BY DEF apply_to_state, apply_generally
<1> HIDE DEF t, target
<1>8. PICK w \in MillStates :
        /\ Taken(s, w, a.to, target)
        /\ \/ /\ has_too_few(w, o, target)
              /\ t = game_over(w, Opp(target), "LoseFewerThanThree")
           \/ /\ ~has_too_few(w, o, target)
              /\ Follows(w, t, o)
  BY <1>6
<1>9. LostOnTheBoard(o) => \A k \in Sides \ {target} : Held(w, k) >= o.pieces_at_least_count
  BY <1>3, <1>8 DEF Enough, Held, Taken
<1>10. CASE has_too_few(w, o, target)
  <2>1. t = game_over(w, Opp(target), "LoseFewerThanThree")
    BY <1>8, <1>10
  <2>2. /\ t.phase = "GameOver" /\ t.outcome_reason = "LoseFewerThanThree"
        /\ t.winner = Opp(target) /\ t.pieces_on_board = w.pieces_on_board
        /\ t.pieces_in_hand = w.pieces_in_hand
    BY <2>1 DEF game_over, MillStates
  <2>3. Opp(target) \in Sides \ {target} /\ Opp(Opp(target)) = target
    BY <1>1, OppIsSide, TwoSides
  <2>4. /\ Held(t, target) < o.pieces_at_least_count
        /\ LostOnTheBoard(o) => Held(t, Opp(target)) >= o.pieces_at_least_count
    BY <1>9, <1>10, <2>2, <2>3 DEF Held, has_too_few
  <2>5. Judged(t, o)
    BY <2>2, <2>3, <2>4 DEF Judged
  <2>6. maybe_handle_stalemate(t, o) = t
    BY <2>2 DEF maybe_handle_stalemate, is_stalemate
  <2> QED BY <1>7, <2>5, <2>6
<1>11. CASE ~has_too_few(w, o, target)
  <2>1. Follows(w, t, o)
    BY <1>8, <1>11
  <2>2. LostOnTheBoard(o) => Enough(w, o)
    <3>1. /\ w.pieces_on_board[target] \in Int /\ w.pieces_in_hand[target] \in Int
          /\ o.pieces_at_least_count \in Int
      BY <1>1 DEF MillStates, MillVariantOptions
    <3>2. Held(w, target) >= o.pieces_at_least_count
      BY <1>11, <3>1 DEF Held, has_too_few
    <3> QED BY <1>9, <3>2 DEF Enough
  <2>3. t.pieces_on_board = w.pieces_on_board
    <3>1. PICK x \in MillStates : Taken(s, x, a.to, target) /\ Keeps(x, t)
      BY <1>5
    <3>2. /\ x.pieces_on_board \in [Sides -> Int]
          /\ w.pieces_on_board \in [Sides -> Int]
      BY <3>1 DEF MillStates
    <3>3. \A k \in Sides : x.pieces_on_board[k] = w.pieces_on_board[k]
      BY <1>8, <3>1 DEF Taken
    <3>4. x.pieces_on_board = w.pieces_on_board
      BY <3>2, <3>3
    <3> QED BY <3>1, <3>4 DEF Keeps
  <2>4. Judged(maybe_handle_stalemate(t, o), o)
    BY <1>4, <1>5, <2>1, <2>2, <2>3, TailJudged
  <2> QED BY <1>7, <2>4
<1> QED BY <1>10, <1>11

LEMMA InitialJudged ==
  ASSUME NEW o \in MillVariantOptions, o.pieces_at_least_count <= o.piece_count
  PROVE  Judged(initial_state(o), o)
<1> DEFINE s == initial_state(o)
<1>1. /\ s.phase = "Placing" /\ s.winner = NONE /\ s.outcome_reason = "Ongoing"
      /\ s.pieces_on_board = Both(0) /\ s.pieces_in_hand = Both(o.piece_count)
  BY DEF initial_state
<1> HIDE DEF s
<1>2. \A k \in Sides : Held(s, k) = o.piece_count
  BY <1>1 DEF Held, Both, MillVariantOptions
<1> QED BY <1>1, <1>2 DEF Judged, Verdict, Enough, s

-----------------------------------------------------------------------------
(* Every game *)

(* The inductive invariant.  GameInv is part of it: that a removal takes a *)
(* piece that is counted, and a move is counted once, is what keeps the    *)
(* loser's material and the n-move counter where the result says they are. *)
ResultInv == GameInv /\ Judged(state, options)

THEOREM ResultInvariant == Spec => []ResultInv
<1>1. Init => Judged(state, options)
  <2> SUFFICES ASSUME Init PROVE Judged(state, options)
    OBVIOUS
  <2>1. /\ options \in MillVariantOptions
        /\ options.pieces_at_least_count <= options.piece_count
    BY VariantsAssumption DEF Init
  <2> QED BY <2>1, InitialJudged DEF Init
<1>2. GameInv /\ Judged(state, options) /\ [Next]_vars => Judged(state, options)'
  <2> SUFFICES ASSUME GameInv, Judged(state, options), [Next]_vars
               PROVE  Judged(state', options')
    OBVIOUS
  <2>1. options \in MillVariantOptions /\ Good(state, options)
    BY VariantsAssumption DEF GameInv
  <2>2. CASE UNCHANGED vars
    BY <2>2 DEF vars
  <2>3. CASE Place
    <3>1. PICK a \in legal_actions(state, options) :
             a.kind = "Place" /\ state' = apply_to_state(state, options, a, TRUE)
      BY <2>3 DEF Place, Apply
    <3>2. Judged(apply_to_state(state, options, a, TRUE), options)
      BY <2>1, <3>1, PlaceJudged
    <3> QED BY <2>3, <3>1, <3>2 DEF Place, Apply
  <2>4. CASE Move
    <3>1. PICK a \in legal_actions(state, options) :
             a.kind = "Move" /\ state' = apply_to_state(state, options, a, TRUE)
      BY <2>4 DEF Move, Apply
    <3>2. Judged(apply_to_state(state, options, a, TRUE), options)
      BY <2>1, <3>1, MoveJudged
    <3> QED BY <2>4, <3>1, <3>2 DEF Move, Apply
  <2>5. CASE Remove
    <3>1. PICK a \in legal_actions(state, options) :
             a.kind = "Remove" /\ state' = apply_to_state(state, options, a, TRUE)
      BY <2>5 DEF Remove, Apply
    <3>2. Judged(apply_to_state(state, options, a, TRUE), options)
      BY <2>1, <3>1, RemoveJudged
    <3> QED BY <2>5, <3>1, <3>2 DEF Remove, Apply
  <2> QED BY <2>2, <2>3, <2>4, <2>5 DEF Next
<1>3. Spec => []GameInv
  BY GameInvariant
<1> QED BY <1>1, <1>2, <1>3, PTL DEF Spec, ResultInv

(* handle_remove declares the loss at once: while a game goes on, both     *)
(* sides can still muster pieces_at_least_count, whatever was removed and  *)
(* by whom.                                                                *)
THEOREM LossIsDeclared ==
  ASSUME \A o \in Variants : LostOnTheBoard(o)
  PROVE  Spec => []LossDeclaredAtOnce
<1>1. ResultInv => LossDeclaredAtOnce
  <2> SUFFICES ASSUME ResultInv, Ongoing PROVE LossDeclaredAtOnce
    BY DEF LossDeclaredAtOnce
  <2>1. LostOnTheBoard(options) /\ Judged(state, options)
    BY DEF ResultInv, GameInv
  <2>2. Enough(state, options)
    BY <2>1, StillEnough DEF Ongoing
  <2> QED BY <2>2 DEF Enough, Held, LossDeclaredAtOnce, Material
<1>2. Spec => []ResultInv
  BY ResultInvariant
<1> QED BY <1>1, <1>2, PTL

(* Every result a game of the engine ends with is earned: exactly the      *)
(* loser of a material loss is below the minimum, the board of a full-     *)
(* board result is full, an n-move draw comes exactly at the threshold in  *)
(* force, and a game that goes on has neither winner nor reason.           *)
THEOREM ResultsAreEarned ==
  ASSUME \A o \in Variants : LostOnTheBoard(o)
  PROVE  Spec => []ResultIsEarned
<1>1. ResultInv => ResultIsEarned
  <2> SUFFICES ASSUME Judged(state, options), LostOnTheBoard(options)
               PROVE  ResultIsEarned
    BY DEF ResultInv, GameInv
  <2>1. \A k : Material(k) = Held(state, k)
    BY DEF Material, Held
  <2>2. CASE Verdict(state, options)
    BY <2>2 DEF Verdict, ResultIsEarned, Ongoing
  <2>3. CASE ~Verdict(state, options)
    <3>1. \A k \in Sides : k # NONE
      BY DEF Sides, NONE
    <3>2. CASE Blocked(state, options)
      BY <3>2 DEF Blocked, BlockedReasons, ResultIsEarned, Ongoing
    <3>3. CASE ~Blocked(state, options)
      BY <2>1, <2>3, <3>1, <3>3 DEF Judged, ResultIsEarned, Ongoing
    <3> QED BY <3>2, <3>3
  <2> QED BY <2>2, <2>3
<1>2. Spec => []ResultInv
  BY ResultInvariant
<1> QED BY <1>1, <1>2, PTL

-----------------------------------------------------------------------------
(* A game ended for lack of moves *)

(* As many live pieces as points: no point is empty.                       *)
LEMMA FullWhenCounted ==
  ASSUME NEW s \in MillStates, NEW o, Counted(s, o), OnBoard(s) >= Cardinality(Nodes)
  PROVE  empty_squares(s) = {}
<1> DEFINE A == piece_bitboard(s, 0)
           B == piece_bitboard(s, 1)
<1>1. /\ IsFiniteSet(A) /\ Cardinality(A) = s.pieces_on_board[0]
      /\ IsFiniteSet(B) /\ Cardinality(B) = s.pieces_on_board[1]
  BY BitboardsCounted DEF Counted, Sides
<1>2. A \intersect B = {} /\ (A \union B) \in SUBSET Nodes /\ IsFiniteSet(Nodes)
  BY BoardAssumption DEF piece_bitboard
<1> HIDE DEF A, B
<1>3. /\ IsFiniteSet(A \union B)
      /\ Cardinality(A \union B) = Cardinality(A) + Cardinality(B)
  <2>1. Cardinality(A \intersect B) = 0
    BY <1>2, FS_EmptySet
  <2>2. Cardinality(A) \in Nat /\ Cardinality(B) \in Nat
    BY <1>1, FS_CardinalityType
  <2>3. /\ IsFiniteSet(A \union B)
        /\ Cardinality(A \union B) =
             Cardinality(A) + Cardinality(B) - Cardinality(A \intersect B)
    BY Zenon, <1>1, FS_Union
  <2> QED BY <2>1, <2>2, <2>3
<1>4. Cardinality(A \union B) >= Cardinality(Nodes)
  BY <1>1, <1>3 DEF OnBoard
<1>5. A \union B = Nodes
  BY <1>2, <1>3, <1>4, FS_Subset, FS_CardinalityType
<1>6. \A n \in A \union B : n \in board_occupied(s)
  BY DEF A, B, piece_bitboard, live_piece, board_occupied, NONE
<1> QED BY <1>5, <1>6 DEF empty_squares

LEMMA BlockedHasNoAction ==
  ASSUME NEW s \in MillStates, NEW o, Counted(s, o), Blocked(s, o),
         ~o.leap_capture.enabled
  PROVE  generate_move_actions([s EXCEPT !.phase = "Moving"], o, TRUE) = {}
<1> DEFINE t == [s EXCEPT !.phase = "Moving"]
           c == s.side_to_move
           flies == /\ TRUE /\ t.pieces_in_hand[c] = 0
                    /\ BelowFlyLimit(t, o, c)
           steps == {m \in piece_bitboard(t, c) \X empty_squares(t) :
                       flies \/ m[2] \in AdjacentTo(o, m[1])}
<1>1. /\ t.side_to_move = c
      /\ \A f \in SurroundingFields : t[f] = s[f]
  BY FieldsOfState DEF Fields, SurroundingFields
<1>2. ~leap_enabled(t, o)
  BY DEF leap_enabled, capture_phase_allowed
<1>3. generate_move_actions(t, o, TRUE) = {MoveAction(m[1], m[2]) : m \in
        {x \in steps \union {} : ~is_restricted_repeated_mill(t, o, c, x[1], x[2])}}
  <2> HIDE DEF t
  <2> QED BY <1>1, <1>2 DEF generate_move_actions
<1>4. /\ BelowFlyLimit(t, o, c) <=> BelowFlyLimit(s, o, c)
      /\ \A from, to : is_restricted_repeated_mill(t, o, c, from, to)
                         <=> is_restricted_repeated_mill(s, o, c, from, to)
      /\ piece_bitboard(t, c) = piece_bitboard(s, c)
      /\ empty_squares(t) = empty_squares(s)
  <2> HIDE DEF t
  <2>1. t.board = s.board /\ t.marked = s.marked
    BY <1>1 DEF SurroundingFields
  <2>2. piece_bitboard(t, c) = piece_bitboard(s, c) /\ empty_squares(t) = empty_squares(s)
    BY <2>1, SameBitboards DEF empty_squares, board_occupied
  <2> QED BY <1>1, <2>2, SameSurrounding
<1> HIDE DEF t
<1>5. ASSUME NEW x \in steps, ~is_restricted_repeated_mill(s, o, c, x[1], x[2])
      PROVE  FALSE
  <2>1. x[1] \in piece_bitboard(s, c) /\ x[2] \in empty_squares(s)
    BY <1>4, <1>5
  <2>2. ~(OnBoard(s) >= Cardinality(Nodes))
    BY <2>1, FullWhenCounted
  <2>3. OnBoard(s) < Cardinality(Nodes)
    <3>1. OnBoard(s) \in Int /\ Cardinality(Nodes) \in Nat
      BY BoardAssumption, FS_CardinalityType DEF OnBoard, MillStates, Sides
    <3> QED BY <2>2, <3>1
  <2>4. ~BelowFlyLimit(s, o, c) /\ is_all_surrounded(s, o, c)
    BY <2>3 DEF Blocked
  <2>5. x[2] \in empty_adjacent(s, o, x[1])
    BY <1>4, <1>5, <2>1, <2>4 DEF empty_adjacent, empty_squares
  <2>6. piece_is_stuck(s, o, c, x[1])
    BY <2>1, <2>2, <2>4 DEF is_all_surrounded
  <2> QED BY <1>5, <2>5, <2>6 DEF piece_is_stuck
<1> QED BY <1>3, <1>4, <1>5 DEF t

(* maybe_handle_stalemate and move generation scan the board separately: a *)
(* game ended for lack of moves is one in which the generator finds none,  *)
(* for every variant without leap captures (with them a side whose only    *)
(* moves are leaps is declared blocked).                                   *)
THEOREM BlockedSideHasNoMove ==
  ASSUME \A o \in Variants : ~o.leap_capture.enabled
  PROVE  Spec => []StalemateMeansNoMove
<1>1. ResultInv => StalemateMeansNoMove
  <2> SUFFICES ASSUME ResultInv, state.outcome_reason \in BlockedReasons
               PROVE  /\ state.side_to_move \in Sides
                      /\ generate_move_actions([state EXCEPT !.phase = "Moving"],
                                               options, TRUE) = {}
    BY DEF StalemateMeansNoMove, BlockedReasons
  <2>1. /\ ~options.leap_capture.enabled /\ Judged(state, options)
        /\ Counted(state, options) /\ state \in MillStates
    BY DEF ResultInv, GameInv, Good, Coherent
  <2>2. Blocked(state, options)
    BY <2>1 DEF Judged, Verdict, BlockedReasons
  <2> QED BY <2>1, <2>2, BlockedHasNoAction DEF Blocked
<1>2. Spec => []ResultInv
  BY ResultInvariant
<1> QED BY <1>1, <1>2, PTL

-----------------------------------------------------------------------------
(* Nothing left to capture *)

TargetFields == {"custodian_targets", "intervention_targets", "leap_targets"}

(* No capture target is left to either side, as after every turn that      *)
(* offers none: what ends a turn clears them and adds none.                *)
Untargeted(s) == DOMAIN s = Fields /\ \A f \in TargetFields : s[f] = Both({})

LEMMA StillUntargeted ==
  ASSUME NEW s, Untargeted(s), NEW t, NEW F, Alters(s, t, F),
         F \intersect TargetFields = {}
  PROVE  Untargeted(t)
BY DEF Untargeted, Alters, TargetFields, Fields

LEMMA SmallStepsUntargeted ==
  ASSUME NEW s, Untargeted(s)
  PROVE  /\ Untargeted(sync_action_state(s))
         /\ Untargeted(sync_phase_with_active_hand(s))
         /\ \A n : Untargeted(owe(s, n))
         /\ \A c : Untargeted([s EXCEPT !.side_to_move = c])
         /\ \A f : Untargeted([s EXCEPT !.pieces_in_hand = f])
         /\ \A w, x : Untargeted(game_over(s, w, x))
<1>1. DOMAIN s = Fields
  BY DEF Untargeted
<1>2. /\ Alters(s, sync_action_state(s), {"action"})
      /\ Alters(s, sync_phase_with_active_hand(s), {"phase"})
      /\ \A n : Alters(s, owe(s, n), {"pending_removals"})
      /\ \A c : Alters(s, [s EXCEPT !.side_to_move = c], {"side_to_move"})
      /\ \A f : Alters(s, [s EXCEPT !.pieces_in_hand = f], {"pieces_in_hand"})
      /\ \A w, x : Alters(s, game_over(s, w, x),
                          {"phase", "winner", "outcome_reason", "side_to_move"})
  BY <1>1 DEF Alters, Fields, sync_action_state, sync_phase_with_active_hand, owe,
              game_over
<1>3. /\ {"action"} \intersect TargetFields = {}
      /\ {"phase"} \intersect TargetFields = {}
      /\ {"pending_removals"} \intersect TargetFields = {}
      /\ {"side_to_move"} \intersect TargetFields = {}
      /\ {"pieces_in_hand"} \intersect TargetFields = {}
      /\ {"phase", "winner", "outcome_reason", "side_to_move"}
           \intersect TargetFields = {}
  BY DEF TargetFields
<1> QED BY <1>2, <1>3, StillUntargeted

LEMMA ClearedIsUntargeted ==
  ASSUME NEW s, DOMAIN s = Fields
  PROVE  Untargeted(clear_capture_state(s))
BY DEF Untargeted, Fields, TargetFields, clear_capture_state

LEMMA NotedUntargeted ==
  ASSUME NEW s, Untargeted(s), NEW o, NEW c, NEW from, NEW to, NEW lines
  PROVE  Untargeted(note_mill_formation(s, o, c, from, to, lines))
<1> DEFINE t == note_mill_formation(s, o, c, from, to, lines)
<1>1. Alters(s, t, {"last_mill_from", "last_mill_to", "formed_mills"})
  BY DEF Untargeted, Alters, Fields, note_mill_formation
<1>2. {"last_mill_from", "last_mill_to", "formed_mills"} \intersect TargetFields = {}
  BY DEF TargetFields
<1> HIDE DEF t
<1>3. Untargeted(t)
  BY <1>1, <1>2, StillUntargeted
<1> QED BY <1>3 DEF t

LEMMA EnterMovingUntargeted ==
  ASSUME NEW s, Untargeted(s), NEW o
  PROVE  Untargeted(enter_moving_phase(s, o))
<1> DEFINE swept == sweep_marked([s EXCEPT !.phase = "Moving"])
           counts == apply_removal_based_on_mill_counts(swept, o)
           counted == IF o.mill_formation_action_in_placing_phase
                           = "RemovalBasedOnMillCounts" THEN counts ELSE swept
           side == IF o.is_defender_move_first THEN 1
                   ELSE IF KeepsSideAtPlacingEnd(o) THEN counted.side_to_move ELSE 0
<1>1. Alters(s, swept, {"phase", "marked", "board"})
  BY DEF Untargeted, Alters, Fields, sweep_marked
<1>2. {"phase", "marked", "board"} \intersect TargetFields = {}
  BY DEF TargetFields
<1> HIDE DEF swept
<1>3. Untargeted(swept)
  BY <1>1, <1>2, StillUntargeted
<1>4. Alters(swept, counts, Counting)
  <2>1. DOMAIN swept = Fields
    BY <1>1 DEF Alters
  <2>2. \A own, owed :
          Alters(swept, [swept EXCEPT !.remove_own_piece = own,
                           !.pending_removals = owed,
                           !.mill_available_at_removal = TRUE], Counting)
    BY <2>1 DEF Alters, Fields, Counting
  <2> QED BY <2>2 DEF apply_removal_based_on_mill_counts
<1>5. Counting \intersect TargetFields = {}
  BY DEF Counting, TargetFields
<1> HIDE DEF counts
<1>6. Untargeted(counted)
  BY <1>3, <1>4, <1>5, StillUntargeted
<1> HIDE DEF counted
<1>7. Untargeted([counted EXCEPT !.side_to_move = side])
  BY <1>6, SmallStepsUntargeted
<1>8. enter_moving_phase(s, o) = [counted EXCEPT !.side_to_move = side]
  BY DEF enter_moving_phase, counted, counts, swept
<1> QED BY <1>7, <1>8

LEMMA SettleUntargeted ==
  ASSUME NEW s, Untargeted(s), NEW o
  PROVE  Untargeted(settle(s, o))
<1> DEFINE placed == IF s.phase = "Placing" /\ s.pieces_in_hand = Both(0)
                       THEN enter_moving_phase(s, o) ELSE s
           emptied == [placed EXCEPT !.pieces_in_hand = Both(0)]
           moved == maybe_transition_to_moving(s, o)
           phased == sync_phase_with_active_hand(moved)
           finished == maybe_finish_full_board(phased, o)
           Removals == {"pending_removals", "side_to_move", "board_full_removing"}
<1>1. Untargeted(placed)
  BY EnterMovingUntargeted
<1>2. \/ moved = enter_moving_phase(emptied, o)
      \/ moved = placed
  BY DEF maybe_transition_to_moving
<1> HIDE DEF placed
<1>3. Untargeted(emptied)
  BY <1>1, SmallStepsUntargeted
<1> HIDE DEF emptied, moved
<1>4. Untargeted(moved)
  BY <1>1, <1>2, <1>3, EnterMovingUntargeted
<1>5. Untargeted(phased)
  BY <1>4, SmallStepsUntargeted
<1>6. \/ finished = phased
      \/ \E w, x : finished = game_over(phased, w, x)
      \/ \E owed, first : finished = board_full_removals(phased, owed, first)
  BY DEF maybe_finish_full_board
<1> HIDE DEF phased, finished
<1>7. \A owed, first : Alters(phased, board_full_removals(phased, owed, first), Removals)
  BY <1>5 DEF Untargeted, Alters, Fields, board_full_removals
<1>8. Removals \intersect TargetFields = {}
  BY DEF TargetFields
<1> HIDE DEF Removals
<1>9. Untargeted(finished)
  BY <1>5, <1>6, <1>7, <1>8, StillUntargeted, SmallStepsUntargeted
<1>10. Untargeted(sync_action_state(finished))
  BY <1>9, SmallStepsUntargeted
<1> QED BY <1>10 DEF settle, finished, phased, moved

LEMMA CleanIsUntargeted ==
  ASSUME NEW s \in MillStates, \A k \in Sides : Targets(s, k) = {}
  PROVE  Untargeted(s)
<1>1. DOMAIN s = Fields
  BY FieldsOfState
<1>2. \A f \in TargetFields : s[f] \in [Sides -> SUBSET Nodes]
  BY DEF MillStates, TargetFields
<1>3. \A f \in TargetFields : \A k \in Sides : s[f][k] = {}
  BY DEF Targets, TargetFields
<1>4. \A f \in TargetFields : s[f] = Both({})
  BY <1>2, <1>3, BothIs
<1> QED BY <1>1, <1>4 DEF Untargeted

LEMMA StalemateUntargeted ==
  ASSUME NEW s, Untargeted(s), NEW o
  PROVE  Untargeted(maybe_handle_stalemate(s, o))
<1> DEFINE c == s.side_to_move
           owing == [s EXCEPT !.pending_removals[c] = 1]
           over(w, x) == [s EXCEPT !.phase = "GameOver", !.winner = w,
                                   !.outcome_reason = x]
           first == [owing EXCEPT !.stalemate_removing = TRUE]
           both == [owing EXCEPT !.pending_removals[Opp(c)] = 1,
                                 !.both_stalemate_removing = TRUE]
           passed == [s EXCEPT !.side_to_move = Opp(c)]
           u == resolve_stalemate(s, o)
<1>1. DOMAIN s = Fields
  BY DEF Untargeted
<1>2. \A w, x : Untargeted(over(w, x))
  <2>1. \A w, x : Alters(s, over(w, x), {"phase", "winner", "outcome_reason"})
    BY <1>1 DEF Alters, Fields
  <2>2. {"phase", "winner", "outcome_reason"} \intersect TargetFields = {}
    BY DEF TargetFields
  <2> HIDE DEF over
  <2> QED BY <2>1, <2>2, StillUntargeted
<1>3. DOMAIN owing = Fields /\ DOMAIN first = Fields /\ DOMAIN both = Fields
  BY <1>1
<1>4. Untargeted(sync_phase_with_active_hand(passed))
  <2>1. Untargeted(passed)
    BY SmallStepsUntargeted
  <2> HIDE DEF passed
  <2> QED BY <2>1, SmallStepsUntargeted
<1>5. \/ \E w, x : u = over(w, x)
      \/ u = sync_phase_with_active_hand(passed)
      \/ u = clear_capture_state(owing)
      \/ u = clear_capture_state(first)
      \/ u = clear_capture_state(both)
  BY ZenonT(60) DEF resolve_stalemate
<1> HIDE DEF owing, over, first, both, passed, u
<1>6. Untargeted(u)
  BY <1>2, <1>3, <1>4, <1>5, ClearedIsUntargeted
<1>7. Untargeted(sync_action_state(u))
  BY <1>6, SmallStepsUntargeted
<1> QED BY <1>7 DEF maybe_handle_stalemate, u

LEMMA FromHandUntargeted ==
  ASSUME NEW s, Untargeted(s), NEW o, NEW lines
  PROVE  Untargeted(place_mill_from_hand(s, o, lines))
<1> DEFINE c == s.side_to_move
           earned == removal_count(lines, o)
           taken == hand_removed(earned, s.pieces_in_hand[Opp(c)])
           drawn == [s EXCEPT !.pieces_in_hand[Opp(c)] = @ - taken]
           next == IF o.mill_formation_action_in_placing_phase
                        = "RemoveOpponentsPieceFromHandThenOpponentsTurn"
                     THEN Opp(c) ELSE c
           owing == owe(drawn, earned - taken)
           passed == [drawn EXCEPT !.side_to_move = next]
           t == IF earned > taken THEN sync_action_state(owing) ELSE settle(passed, o)
<1>1. Untargeted(drawn)
  BY SmallStepsUntargeted
<1> HIDE DEF drawn
<1>2. Untargeted(owing) /\ Untargeted(passed)
  BY <1>1, SmallStepsUntargeted
<1> HIDE DEF owing, passed
<1>3. Untargeted(t)
  BY <1>2, SmallStepsUntargeted, SettleUntargeted
<1> HIDE DEF t
<1>4. Untargeted(clear_capture_state(t))
  BY <1>3, ClearedIsUntargeted DEF Untargeted
<1> QED BY <1>4 DEF place_mill_from_hand, t, passed, owing, drawn

LEMMA CountedUntargeted ==
  ASSUME NEW s, DOMAIN s = Fields, NEW o
  PROVE  Untargeted(place_mill_counted(s, o))
<1> DEFINE cleared == clear_capture_state(s)
           counts == apply_removal_based_on_mill_counts(cleared, o)
           passed == [cleared EXCEPT !.side_to_move = Opp(@)]
           t == IF s.pieces_in_hand = Both(0) THEN counts ELSE passed
<1>1. Untargeted(cleared)
  BY ClearedIsUntargeted
<1> HIDE DEF cleared
<1>2. Untargeted(passed)
  BY <1>1, SmallStepsUntargeted
<1>3. Untargeted(counts)
  <2>1. DOMAIN cleared = Fields
    BY <1>1 DEF Untargeted
  <2>2. \A own, owed :
          Alters(cleared, [cleared EXCEPT !.remove_own_piece = own,
                             !.pending_removals = owed,
                             !.mill_available_at_removal = TRUE], Counting)
    BY <2>1 DEF Alters, Fields, Counting
  <2>3. Alters(cleared, counts, Counting)
    BY <2>2 DEF apply_removal_based_on_mill_counts
  <2>4. Counting \intersect TargetFields = {}
    BY DEF Counting, TargetFields
  <2> HIDE DEF counts
  <2> QED BY <1>1, <2>3, <2>4, StillUntargeted
<1> HIDE DEF counts, passed
<1>4. Untargeted(settle(t, o))
  BY <1>2, <1>3, SettleUntargeted
<1> QED BY <1>4 DEF place_mill_counted, t, passed, counts, cleared

LEMMA QuietPlaceUntargeted ==
  ASSUME NEW s, DOMAIN s = Fields, NEW o
  PROVE  Untargeted(place_quietly(s, o))
<1> DEFINE cleared == clear_capture_state(s)
           stopped == maybe_stop_placing_when_two_empty(cleared, o)
           passed == [stopped EXCEPT !.side_to_move = Opp(@)]
<1>1. Untargeted(cleared)
  BY ClearedIsUntargeted
<1> HIDE DEF cleared
<1>2. Untargeted(stopped)
  BY <1>1, SmallStepsUntargeted DEF maybe_stop_placing_when_two_empty
<1> HIDE DEF stopped
<1>3. Untargeted(passed)
  BY <1>2, SmallStepsUntargeted
<1> HIDE DEF passed
<1>4. Untargeted(settle(stopped, o)) /\ Untargeted(settle(passed, o))
  BY <1>2, <1>3, SettleUntargeted
<1>5. \/ place_quietly(s, o) = settle(stopped, o)
      \/ place_quietly(s, o) = settle(passed, o)
  BY DEF place_quietly, passed, stopped, cleared
<1> QED BY <1>4, <1>5

LEMMA QuietMoveUntargeted ==
  ASSUME NEW s, DOMAIN s = Fields, NEW o
  PROVE  Untargeted(move_quietly(s, o, TRUE))
<1> DEFINE c == s.side_to_move
           cleared == clear_capture_state(s)
           passed == [cleared EXCEPT !.last_mill_from[c] = NONE,
                        !.last_mill_to[c] = NONE, !.side_to_move = Opp(c)]
           pushed == push_key(passed, o)
           seen == push_key_and_check_threefold(passed, o)
           judged == maybe_draw_by_n_move_rule(seen, o)
           phased == sync_phase_with_active_hand(judged)
<1>1. Untargeted(cleared)
  BY ClearedIsUntargeted
<1> HIDE DEF cleared
<1>2. Untargeted(passed)
  <2>1. Alters(cleared, passed, {"last_mill_from", "last_mill_to", "side_to_move"})
    BY <1>1 DEF Untargeted, Alters, Fields
  <2>2. {"last_mill_from", "last_mill_to", "side_to_move"} \intersect TargetFields = {}
    BY DEF TargetFields
  <2> HIDE DEF passed
  <2> QED BY <1>1, <2>1, <2>2, StillUntargeted
<1> HIDE DEF passed
<1>3. Untargeted(pushed)
  <2>1. Alters(passed, pushed, {"key_history"})
    BY <1>2 DEF Untargeted, Alters, Fields, push_key
  <2>2. {"key_history"} \intersect TargetFields = {}
    BY DEF TargetFields
  <2> HIDE DEF pushed
  <2> QED BY <1>2, <2>1, <2>2, StillUntargeted
<1>4. seen = pushed \/ \E w, x : seen = game_over(pushed, w, x)
  BY DEF push_key_and_check_threefold
<1> HIDE DEF pushed, seen
<1>5. Untargeted(seen)
  BY <1>3, <1>4, SmallStepsUntargeted
<1>6. Untargeted(judged)
  BY <1>5, SmallStepsUntargeted DEF maybe_draw_by_n_move_rule
<1> HIDE DEF judged
<1>7. Untargeted(phased)
  BY <1>6, SmallStepsUntargeted
<1> HIDE DEF phased
<1>8. Untargeted(sync_action_state(phased))
  BY <1>7, SmallStepsUntargeted
<1> QED BY <1>8 DEF move_quietly, phased, judged, seen, passed, cleared

-----------------------------------------------------------------------------
(* What a removal may take *)

(* The opponent's pieces that mill protection leaves to the side to move.  *)
Removable(s, o) == {n \in Nodes : n \in Unprotected(s, o, Opp(s.side_to_move), {n})}

(* The capture targets on offer are not protected, none of them is one of  *)
(* a pair, and they are offered alone unless a mill is to be paid for too: *)
(* so whatever is removed first, no target outlives it while the protected *)
(* pieces change.                                                          *)
Fair(s, o) ==
  LET c == s.side_to_move
  IN (s.phase # "GameOver" /\ Targets(s, c) # {}) =>
       /\ Targets(s, c) \subseteq Removable(s, o)
       /\ s.mill_available_at_removal \/ s.pending_removals[c] <= capture_total(s)
       /\ s.intervention_targets[c] = {}

FairFields == TargetFields \union
  {"board", "marked", "side_to_move", "phase", "pending_removals",
   "mill_available_at_removal"}

LEMMA SameRemovable ==
  ASSUME NEW s, NEW t, NEW o, t.board = s.board, t.marked = s.marked,
         t.side_to_move = s.side_to_move
  PROVE  Removable(t, o) = Removable(s, o)
<1>1. \A k : piece_bitboard(t, k) = piece_bitboard(s, k)
  BY SameBitboards
<1>2. \A k : mill_members(t, o, k) = mill_members(s, o, k)
  BY <1>1 DEF mill_members, MillsOf
<1>3. \A k, T : Unprotected(t, o, k, T) = Unprotected(s, o, k, T)
  BY <1>1, <1>2 DEF Unprotected
<1> QED BY <1>3 DEF Removable

LEMMA StillFair ==
  ASSUME NEW s, NEW o, Fair(s, o), NEW t, NEW F, Alters(s, t, F),
         F \intersect FairFields = {}
  PROVE  Fair(t, o)
<1>1. \A f \in FairFields : t[f] = s[f]
  BY DEF Alters, FairFields, TargetFields, Fields
<1>2. /\ t.board = s.board /\ t.marked = s.marked /\ t.phase = s.phase
      /\ t.side_to_move = s.side_to_move
      /\ t.pending_removals = s.pending_removals
      /\ t.mill_available_at_removal = s.mill_available_at_removal
      /\ t.custodian_targets = s.custodian_targets
      /\ t.intervention_targets = s.intervention_targets
      /\ t.leap_targets = s.leap_targets
  BY <1>1 DEF FairFields, TargetFields
<1>3. Removable(t, o) = Removable(s, o)
  BY <1>2, SameRemovable
<1>4. capture_total(t) = capture_total(s) /\ \A k : Targets(t, k) = Targets(s, k)
  BY <1>2 DEF capture_total, Targets
<1> QED BY <1>2, <1>3, <1>4 DEF Fair

LEMMA UntargetedIsFair ==
  ASSUME NEW t, Untargeted(t), NEW o, t.side_to_move \in Sides \/ t.phase = "GameOver"
  PROVE  Fair(t, o)
<1>1. \A k \in Sides : Targets(t, k) = {}
  BY DEF Untargeted, TargetFields, Targets, Both
<1> QED BY <1>1 DEF Fair

(* Targets offered by a turn that began with nothing owed.                 *)
LEMMA OfferedIsFair ==
  ASSUME NEW s, NEW o, NEW t, Alters(s, t, TurnFields),
         Targets(t, s.side_to_move) \subseteq Removable(s, o),
         t.intervention_targets[s.side_to_move] = {},
         \/ t.mill_available_at_removal
         \/ t.pending_removals[s.side_to_move] <= capture_total(t)
  PROVE  Fair(t, o)
<1>1. /\ t.board = s.board /\ t.marked = s.marked
      /\ t.side_to_move = s.side_to_move
  BY DEF Alters, Fields, TurnFields, CaptureState, Notes
<1>2. Removable(t, o) = Removable(s, o)
  BY <1>1, SameRemovable
<1> QED BY <1>1, <1>2 DEF Fair

(* What the three searches for targets return can be taken.                *)
LEMMA DetectedAreRemovable ==
  ASSUME NEW s, NEW o
  PROVE  /\ \A to : detect_custodian_targets(s, o, to) \subseteq Removable(s, o)
         /\ \A from, to : detect_leap_targets(s, o, from, to) \subseteq Removable(s, o)
<1>1. \A T : filter_capture_targets(s, o, T) \subseteq Removable(s, o)
  <2> SUFFICES ASSUME NEW T, NEW n \in filter_capture_targets(s, o, T)
               PROVE  n \in Removable(s, o)
    OBVIOUS
  <2> DEFINE them == Opp(s.side_to_move)
             theirs == piece_bitboard(s, them)
  <2>1. n \in Unprotected(s, o, them, T \intersect theirs)
    BY DEF filter_capture_targets
  <2>2. theirs \subseteq Nodes
    BY DEF piece_bitboard
  <2> HIDE DEF them, theirs
  <2>3. n \in theirs /\ n \in Unprotected(s, o, them, {n})
    BY <2>1 DEF Unprotected
  <2> QED BY <2>2, <2>3 DEF Removable, them
<1>2. {} \subseteq Removable(s, o)
  OBVIOUS
<1>3. /\ \A to : \/ detect_custodian_targets(s, o, to) = {}
                 \/ \E T : detect_custodian_targets(s, o, to) = filter_capture_targets(s, o, T)
      /\ \A from, to : \/ detect_leap_targets(s, o, from, to) = {}
                       \/ \E T : detect_leap_targets(s, o, from, to)
                                   = filter_capture_targets(s, o, T)
  BY Zenon DEF detect_custodian_targets, detect_leap_targets
<1> QED BY <1>1, <1>3

LEMMA NoPairs ==
  ASSUME NEW s, NEW o, ~o.intervention_capture.enabled, NEW to
  PROVE  detect_intervention_targets(s, o, to) = {}
BY DEF detect_intervention_targets, capture_phase_allowed

(* The capture fields of a position in which targets have just been set.   *)
LEMMA ActivatedFields ==
  ASSUME NEW s, DOMAIN s = Fields, s.side_to_move \in Sides, Untargeted(s),
         NEW custodian, NEW leap
  PROVE  LET t == activate_capture_state(s, custodian, {}, leap)
             c == s.side_to_move
         IN /\ Alters(s, t, TargetFields)
            /\ t.custodian_targets[c] = custodian
            /\ t.intervention_targets[c] = {}
            /\ t.leap_targets[c] = leap
            /\ Targets(t, c) = custodian \union leap
            /\ leap = {} => Targets(t, c) = custodian
            /\ custodian = {} => Targets(t, c) = leap
<1> DEFINE c == s.side_to_move
           t == activate_capture_state(s, custodian, {}, leap)
<1>1. Alters(s, t, TargetFields)
  BY DEF Alters, Fields, TargetFields, activate_capture_state
<1>2. /\ t.custodian_targets = [s.custodian_targets EXCEPT ![c] = custodian]
      /\ t.intervention_targets = [s.intervention_targets EXCEPT ![c] = {}]
      /\ t.leap_targets = [s.leap_targets EXCEPT ![c] = leap]
  BY DEF Fields, activate_capture_state
<1>3. /\ DOMAIN s.custodian_targets = Sides /\ DOMAIN s.intervention_targets = Sides
      /\ DOMAIN s.leap_targets = Sides
  BY DEF Untargeted, TargetFields, Both
<1> HIDE DEF t
<1>4. /\ t.custodian_targets[c] = custodian
      /\ t.intervention_targets[c] = {} /\ t.leap_targets[c] = leap
  BY <1>2, <1>3
<1>5. Targets(t, c) = (custodian \union {}) \union leap
  BY <1>4 DEF Targets
<1>6. /\ (custodian \union {}) \union leap = custodian \union leap
      /\ leap = {} => (custodian \union {}) \union leap = custodian
      /\ custodian = {} => (custodian \union {}) \union leap = leap
  OBVIOUS
<1> QED BY <1>1, <1>4, <1>5, <1>6 DEF t

LEMMA CaptureOnlyFair ==
  ASSUME NEW s, Fresh(s), NEW o, NEW custodian, custodian \subseteq Removable(s, o)
  PROVE  Fair(capture_only(s, custodian, {}), o)
<1> DEFINE c == s.side_to_move
           active == activate_capture_state(s, custodian, {}, {})
           owing == owe(active, capture_total(active))
           unavailable == [owing EXCEPT !.mill_available_at_removal = FALSE]
           t == sync_action_state(unavailable)
<1>1. /\ DOMAIN s = Fields /\ c \in Sides /\ Untargeted(s)
      /\ s.pending_removals \in [Sides -> Nat]
  BY FieldsOfState, CleanIsUntargeted DEF Fresh, Live, Clean, MillStates
<1>2. /\ Alters(s, active, TargetFields)
      /\ active.intervention_targets[c] = {}
      /\ Targets(active, c) = custodian
  <2> HIDE DEF active
  <2>1. LET u == active
        IN /\ Alters(s, u, TargetFields)
           /\ u.intervention_targets[c] = {}
           /\ Targets(u, c) = custodian
    BY <1>1, ActivatedFields DEF active
  <2> QED BY <2>1
<1> HIDE DEF active
<1>3. /\ DOMAIN active = Fields /\ active.side_to_move = c
      /\ active.pending_removals = s.pending_removals
  BY <1>2 DEF Alters, Fields, TargetFields
<1>4. /\ Alters(active, owing, {"pending_removals"})
      /\ owing.pending_removals = [s.pending_removals EXCEPT ![c] = capture_total(active)]
  BY <1>3 DEF Alters, Fields, owe
<1> HIDE DEF owing
<1>5. Alters(owing, unavailable, {"mill_available_at_removal"})
  BY <1>4 DEF Alters, Fields
<1> HIDE DEF unavailable
<1>6. Alters(unavailable, t, {"action"})
  BY <1>5 DEF Alters, Fields, sync_action_state
<1> HIDE DEF t
<1>7. /\ t.pending_removals[c] = capture_total(active)
      /\ t.side_to_move = active.side_to_move
      /\ t.custodian_targets = active.custodian_targets
      /\ t.intervention_targets = active.intervention_targets
      /\ t.leap_targets = active.leap_targets
  BY <1>1, <1>3, <1>4, <1>5, <1>6 DEF Alters, Fields
<1>8. capture_total(t) = capture_total(active) /\ Targets(t, c) = custodian
  BY <1>2, <1>7 DEF capture_total, Targets
<1>9. capture_only(s, custodian, {}) = t
  BY DEF capture_only, t, unavailable, owing, active
<1>10. Alters(s, t, TurnFields)
  BY <1>1, <1>9, CaptureOnlyAlters
<1>11. capture_total(active) \in Nat
  <2>1. custodian \in SUBSET Nodes /\ {} \in SUBSET Nodes /\ s \in MillStates
    BY DEF Removable, Fresh, Live
  <2>2. active \in MillStates
    BY <2>1, ActivateTyped DEF active
  <2> QED BY <1>1, <1>3, <2>2, CaptureTotalTyped
<1> QED BY <1>2, <1>7, <1>8, <1>9, <1>10, <1>11, OfferedIsFair

(* A mill to be paid for, with custodian captures on offer as well.        *)
LEMMA MillActive ==
  ASSUME NEW s, Fresh(s), NEW count, NEW custodian
  PROVE  LET t == activate_capture_state(
                    [owe(s, count) EXCEPT !.mill_available_at_removal = TRUE],
                    custodian, {}, {})
             c == s.side_to_move
         IN /\ Alters(s, t, TurnFields) /\ t.mill_available_at_removal
            /\ t.intervention_targets[c] = {} /\ Targets(t, c) = custodian
<1> DEFINE c == s.side_to_move
           owed == owe(s, count)
           owing == [owed EXCEPT !.mill_available_at_removal = TRUE]
           t == activate_capture_state(owing, custodian, {}, {})
<1>1. DOMAIN s = Fields /\ c \in Sides /\ Untargeted(s)
  BY FieldsOfState, CleanIsUntargeted DEF Fresh, Live, Clean
<1>2. Alters(s, owed, {"pending_removals"})
  BY <1>1 DEF Alters, Fields, owe
<1> HIDE DEF owed
<1>3. /\ Alters(owed, owing, {"mill_available_at_removal"})
      /\ owing.mill_available_at_removal
  BY <1>2 DEF Alters, Fields
<1> HIDE DEF owing
<1>4. Alters(s, owing, {"pending_removals", "mill_available_at_removal"})
  BY <1>2, <1>3 DEF Alters
<1>5. Untargeted(owing) /\ owing.side_to_move = c
  <2>1. {"pending_removals", "mill_available_at_removal"} \intersect TargetFields = {}
    BY DEF TargetFields
  <2>2. owing.side_to_move = c
    BY <1>4 DEF Alters, Fields
  <2> QED BY <1>1, <1>4, <2>1, <2>2, StillUntargeted
<1> HIDE DEF t
<1>6. LET u == t
          d == owing.side_to_move
      IN /\ Alters(owing, u, TargetFields)
         /\ u.intervention_targets[d] = {}
         /\ Targets(u, d) = custodian
  BY <1>1, <1>5, ActivatedFields DEF Untargeted, t
<1>7. /\ Alters(owing, t, TargetFields) /\ t.intervention_targets[c] = {}
      /\ Targets(t, c) = custodian
  BY <1>5, <1>6
<1>8. t.mill_available_at_removal
  BY <1>3, <1>7 DEF Alters, Fields, TargetFields
<1>9. Alters(s, t, TurnFields)
  BY <1>4, <1>7 DEF Alters, TurnFields, CaptureState, TargetFields
<1> QED BY <1>7, <1>8, <1>9 DEF t, owing, owed

LEMMA OnBoardFair ==
  ASSUME NEW s, Fresh(s), NEW o, NEW lines,
         NEW custodian, custodian \subseteq Removable(s, o)
  PROVE  Fair(place_mill_on_board(s, o, lines, custodian, {}), o)
<1> DEFINE c == s.side_to_move
           earned == removal_count(lines, o)
           active == activate_capture_state(
                       [owe(s, earned) EXCEPT !.mill_available_at_removal = TRUE],
                       custodian, {}, {})
           all == owe(active, earned + capture_total(active))
           both == IF o.may_remove_multiple THEN all ELSE active
           t == sync_action_state(both)
<1>1. /\ Alters(s, active, TurnFields) /\ active.mill_available_at_removal
      /\ active.intervention_targets[c] = {} /\ Targets(active, c) = custodian
  BY MillActive
<1> HIDE DEF active
<1>2. /\ Alters(active, all, {"pending_removals"})
      /\ Alters(active, active, {"pending_removals"})
  BY <1>1 DEF Alters, Fields, owe
<1> HIDE DEF all
<1>3. Alters(active, both, {"pending_removals"})
  BY <1>2
<1> HIDE DEF both
<1>4. Alters(both, t, {"action"})
  BY <1>3 DEF Alters, Fields, sync_action_state
<1> HIDE DEF t
<1>5. /\ Alters(s, t, TurnFields)
      /\ t.mill_available_at_removal = active.mill_available_at_removal
      /\ t.custodian_targets = active.custodian_targets
      /\ t.intervention_targets = active.intervention_targets
      /\ t.leap_targets = active.leap_targets
  BY <1>1, <1>3, <1>4 DEF Alters, Fields, TurnFields, Notes
<1>6. Targets(t, c) = custodian
  BY <1>1, <1>5 DEF Targets
<1>7. Fair(t, o)
  BY <1>1, <1>5, <1>6, OfferedIsFair
<1> QED BY <1>7 DEF place_mill_on_board, t, both, all, active, earned

LEMMA MillMoveFair ==
  ASSUME NEW s, Fresh(s), NEW o, NEW lines, NEW from, NEW to, NEW k,
         NEW custodian, custodian \subseteq Removable(s, o)
  PROVE  Fair(sync_action_state(note_mill_formation(
                activate_capture_state(
                  [owe(s, removal_count(lines, o))
                     EXCEPT !.mill_available_at_removal = TRUE],
                  custodian, {}, {}), o, k, from, to, lines)), o)
<1> DEFINE c == s.side_to_move
           earned == removal_count(lines, o)
           active == activate_capture_state(
                       [owe(s, earned) EXCEPT !.mill_available_at_removal = TRUE],
                       custodian, {}, {})
           noted == note_mill_formation(active, o, k, from, to, lines)
           t == sync_action_state(noted)
<1>1. /\ Alters(s, active, TurnFields) /\ active.mill_available_at_removal
      /\ active.intervention_targets[c] = {} /\ Targets(active, c) = custodian
  BY MillActive
<1> HIDE DEF active
<1>2. Alters(active, noted, {"last_mill_from", "last_mill_to", "formed_mills"})
  BY <1>1 DEF Alters, Fields, note_mill_formation
<1> HIDE DEF noted
<1>3. Alters(noted, t, {"action"})
  BY <1>2 DEF Alters, Fields, sync_action_state
<1> HIDE DEF t
<1>4. Fair(active, o)
  BY <1>1, OfferedIsFair
<1>5. /\ {"last_mill_from", "last_mill_to", "formed_mills"} \intersect FairFields = {}
      /\ {"action"} \intersect FairFields = {}
  BY DEF FairFields, TargetFields
<1>6. Fair(t, o)
  BY <1>2, <1>3, <1>4, <1>5, StillFair
<1> QED BY <1>6 DEF t, noted, active, earned

LEMMA LeapFair ==
  ASSUME NEW s, Fresh(s), NEW o, NEW leap, leap \subseteq Removable(s, o), leap # {}
  PROVE  Fair(sync_action_state([owe(activate_capture_state(s, {}, {}, leap), 1)
                                   EXCEPT !.mill_available_at_removal = FALSE]), o)
<1> DEFINE c == s.side_to_move
           active == activate_capture_state(s, {}, {}, leap)
           owing == owe(active, 1)
           unavailable == [owing EXCEPT !.mill_available_at_removal = FALSE]
           t == sync_action_state(unavailable)
<1>1. /\ DOMAIN s = Fields /\ c \in Sides /\ Untargeted(s)
      /\ s.pending_removals \in [Sides -> Nat]
  BY FieldsOfState, CleanIsUntargeted DEF Fresh, Live, Clean, MillStates
<1>2. /\ Alters(s, active, TargetFields)
      /\ active.intervention_targets[c] = {}
      /\ Targets(active, c) = leap
  <2> HIDE DEF active
  <2>1. LET u == active
        IN /\ Alters(s, u, TargetFields)
           /\ u.intervention_targets[c] = {}
           /\ Targets(u, c) = leap
    BY <1>1, ActivatedFields DEF active
  <2> QED BY <2>1
<1>3. capture_total(active) \in Nat \ {0}
  <2>1. leap \in SUBSET Nodes /\ {} \in SUBSET Nodes /\ s \in MillStates
    BY DEF Removable, Fresh, Live
  <2>2. active \in MillStates
    BY <2>1, ActivateTyped DEF active
  <2> HIDE DEF active
  <2>3. active.side_to_move = c
    BY <1>2 DEF Alters, Fields, TargetFields
  <2> QED BY <1>1, <1>2, <2>2, <2>3, TotalIsPositive
<1> HIDE DEF active
<1>4. /\ DOMAIN active = Fields /\ active.side_to_move = c
      /\ active.pending_removals = s.pending_removals
  BY <1>2 DEF Alters, Fields, TargetFields
<1>5. /\ Alters(active, owing, {"pending_removals"})
      /\ owing.pending_removals = [s.pending_removals EXCEPT ![c] = 1]
  BY <1>4 DEF Alters, Fields, owe
<1> HIDE DEF owing
<1>6. Alters(owing, unavailable, {"mill_available_at_removal"})
  BY <1>5 DEF Alters, Fields
<1> HIDE DEF unavailable
<1>7. Alters(unavailable, t, {"action"})
  BY <1>6 DEF Alters, Fields, sync_action_state
<1> HIDE DEF t
<1>8. /\ t.pending_removals[c] = 1
      /\ t.side_to_move = active.side_to_move
      /\ t.custodian_targets = active.custodian_targets
      /\ t.intervention_targets = active.intervention_targets
      /\ t.leap_targets = active.leap_targets
  BY <1>1, <1>4, <1>5, <1>6, <1>7 DEF Alters, Fields
<1>9. capture_total(t) = capture_total(active) /\ Targets(t, c) = leap
  BY <1>2, <1>8 DEF capture_total, Targets
<1>10. Alters(s, t, TurnFields)
  BY <1>2, <1>5, <1>6, <1>7 DEF Alters, TurnFields, TargetFields, CaptureState, Notes
<1>11. Fair(t, o)
  BY <1>2, <1>3, <1>8, <1>9, <1>10, OfferedIsFair
<1> QED BY <1>11 DEF t, unavailable, owing, active

-----------------------------------------------------------------------------
(* Every action leaves a fair position *)

LEMMA NotedFair ==
  ASSUME NEW s, DOMAIN s = Fields, NEW o, Fair(s, o), NEW c, NEW from, NEW to, NEW lines
  PROVE  Fair(note_mill_formation(s, o, c, from, to, lines), o)
<1> DEFINE t == note_mill_formation(s, o, c, from, to, lines)
<1>1. Alters(s, t, {"last_mill_from", "last_mill_to", "formed_mills"})
  BY DEF Alters, Fields, note_mill_formation
<1>2. {"last_mill_from", "last_mill_to", "formed_mills"} \intersect FairFields = {}
  BY DEF FairFields, TargetFields
<1> HIDE DEF t
<1>3. Fair(t, o)
  BY <1>1, <1>2, StillFair
<1> QED BY <1>3 DEF t

LEMMA UntargetedPlayIsFair ==
  ASSUME NEW t, Coherent(t), Untargeted(t), NEW o
  PROVE  Fair(t, o)
BY UntargetedIsFair DEF Coherent, Synced

LEMMA PlaceFair ==
  ASSUME NEW s, Fresh(s), s.phase = "Placing",
         NEW o \in MillVariantOptions, ~o.intervention_capture.enabled,
         NEW to \in Nodes
  PROVE  Fair(apply_place(s, o, to), o)
<1> DEFINE c == s.side_to_move
           placed == place_live_piece(s, to)
           custodian == detect_custodian_targets(placed, o, to)
           intervention == detect_intervention_targets(placed, o, to)
           lines == usable_mills(placed, o, formed_mills_at(placed, o, to, c))
           mill == IF o.mill_formation_action_in_placing_phase \in FromHandActions
                     THEN place_mill_from_hand(placed, o, lines)
                   ELSE IF o.mill_formation_action_in_placing_phase
                             = "RemovalBasedOnMillCounts"
                     THEN place_mill_counted(placed, o)
                   ELSE place_mill_on_board(placed, o, lines, custodian, intervention)
           noted == note_mill_formation(mill, o, c, NONE, to, lines)
           captured == capture_only(placed, custodian, intervention)
           quiet == place_quietly(placed, o)
<1>1. Fresh(placed) /\ placed.side_to_move = c
  BY PlacedFresh
<1> HIDE DEF placed
<1>2. DOMAIN placed = Fields /\ Untargeted(placed)
  BY <1>1, FieldsOfState, CleanIsUntargeted DEF Fresh, Live, Clean
<1>3. custodian \subseteq Removable(placed, o) /\ intervention = {}
  BY DetectedAreRemovable, NoPairs
<1>4. /\ custodian \in SUBSET Nodes /\ intervention \in SUBSET Nodes
      /\ lines \in SUBSET mill_lines(o)
  BY <1>3, CountsAreNatural DEF Removable
<1> HIDE DEF custodian, intervention, lines
<1>5. Coherent(mill) /\ Fair(mill, o)
  <2>1. Coherent(mill)
    BY <1>1, <1>4, FromHandCoherent, CountedCoherent, OnBoardCoherent DEF Fresh
  <2>2. \/ Untargeted(mill)
        \/ mill = place_mill_on_board(placed, o, lines, custodian, {})
    BY <1>2, <1>3, FromHandUntargeted, CountedUntargeted
  <2> HIDE DEF mill
  <2>3. CASE Untargeted(mill)
    BY <2>1, <2>3, UntargetedPlayIsFair
  <2>4. CASE mill = place_mill_on_board(placed, o, lines, custodian, {})
    BY <1>1, <1>3, <2>1, <2>4, OnBoardFair
  <2> QED BY <2>1, <2>2, <2>3, <2>4
<1> HIDE DEF mill
<1>6. Fair(noted, o)
  BY <1>5, FieldsOfState, NotedFair DEF Coherent
<1>7. Fair(captured, o)
  BY <1>1, <1>3, CaptureOnlyFair
<1>8. Fair(quiet, o)
  <2>1. Coherent(quiet)
    BY <1>1, QuietPlaceCoherent DEF Fresh
  <2>2. Untargeted(quiet)
    BY <1>2, QuietPlaceUntargeted
  <2> HIDE DEF quiet
  <2> QED BY <2>1, <2>2, UntargetedPlayIsFair
<1>9. \/ apply_place(s, o, to) = noted
      \/ apply_place(s, o, to) = captured
      \/ apply_place(s, o, to) = quiet
  BY DEF apply_place, placed, custodian, intervention, lines, mill
<1> HIDE DEF noted, captured, quiet
<1> QED BY <1>6, <1>7, <1>8, <1>9

LEMMA FastPlacedFair ==
  ASSUME NEW s, Fresh(s), s.phase = "Placing", NEW o \in MillVariantOptions,
         NEW to \in Nodes
  PROVE  Fair(fast_placed(s, o, to), o)
<1> DEFINE c == s.side_to_move
           placed == place_live_piece(s, to)
           lines == IF s.pieces_on_board[c] >= 2
                      THEN formed_mills_at(placed, o, to, c) ELSE {}
           owed == owe(placed, removal_count(lines, o))
           owing == [owed EXCEPT !.mill_available_at_removal = TRUE]
           milled == sync_action_state(owing)
           noted == note_mill_formation(milled, o, c, NONE, to, lines)
           passed == [placed EXCEPT !.side_to_move = Opp(c)]
           settled == settle(passed, o)
<1>1. Fresh(placed)
  BY PlacedFresh
<1> HIDE DEF placed
<1>2. Untargeted(placed)
  BY <1>1, CleanIsUntargeted DEF Fresh, Live, Clean
<1> HIDE DEF lines
<1>3. Untargeted(owed)
  BY <1>2, SmallStepsUntargeted
<1> HIDE DEF owed
<1>4. Untargeted(owing)
  <2>1. Alters(owed, owing, {"mill_available_at_removal"})
    BY <1>3 DEF Untargeted, Alters, Fields
  <2>2. {"mill_available_at_removal"} \intersect TargetFields = {}
    BY DEF TargetFields
  <2> HIDE DEF owing
  <2> QED BY <1>3, <2>1, <2>2, StillUntargeted
<1> HIDE DEF owing
<1>5. Untargeted(milled)
  BY <1>4, SmallStepsUntargeted
<1> HIDE DEF milled
<1>6. Untargeted(noted)
  BY <1>5, NotedUntargeted
<1>7. Untargeted(passed)
  BY <1>2, SmallStepsUntargeted
<1> HIDE DEF passed
<1>8. Untargeted(settled)
  BY <1>7, SettleUntargeted
<1>9. fast_placed(s, o, to) = noted \/ fast_placed(s, o, to) = settled
  BY DEF fast_placed, placed, lines, owed, owing, milled, passed
<1> HIDE DEF noted, settled
<1>10. Untargeted(fast_placed(s, o, to))
  BY <1>6, <1>8, <1>9
<1>11. Coherent(fast_placed(s, o, to))
  BY FastPlacedSound
<1> QED BY <1>10, <1>11, UntargetedPlayIsFair

LEMMA MoveFair ==
  ASSUME NEW s, Fresh(s), NEW o \in MillVariantOptions,
         ~o.intervention_capture.enabled, NEW from \in Nodes, NEW to \in Nodes
  PROVE  Fair(apply_move(s, o, from, to, TRUE), o)
<1> DEFINE c == s.side_to_move
           moved == bump_ply_since_capture(move_live_piece(s, from, to), o)
           custodian == IF o.custodian_capture.in_moving_phase
                          THEN detect_custodian_targets(moved, o, to) ELSE {}
           intervention == IF o.intervention_capture.in_moving_phase
                             THEN detect_intervention_targets(moved, o, to) ELSE {}
           leap == IF o.leap_capture.in_moving_phase
                     THEN detect_leap_targets(moved, o, from, to) ELSE {}
           lines == usable_mills(moved, o, formed_mills_at(moved, o, to, c))
           leapt == sync_action_state([owe(activate_capture_state(moved, {}, {}, leap), 1)
                       EXCEPT !.mill_available_at_removal = FALSE])
           milled == sync_action_state(note_mill_formation(
                       activate_capture_state(
                         [owe(moved, removal_count(lines, o))
                            EXCEPT !.mill_available_at_removal = TRUE],
                         custodian, intervention, {}), o, c, from, to, lines))
           captured == capture_only(moved, custodian, intervention)
           quiet == move_quietly(moved, o, TRUE)
<1>1. Fresh(moved)
  BY MovedFresh
<1> HIDE DEF moved
<1>2. /\ custodian \subseteq Removable(moved, o) /\ leap \subseteq Removable(moved, o)
      /\ intervention = {}
  BY DetectedAreRemovable, NoPairs
<1> HIDE DEF custodian, intervention, leap, lines
<1>3. leap # {} => Fair(leapt, o)
  BY <1>1, <1>2, LeapFair
<1>4. Fair(milled, o)
  BY <1>1, <1>2, MillMoveFair
<1>5. Fair(captured, o)
  BY <1>1, <1>2, CaptureOnlyFair
<1>6. Fair(quiet, o)
  <2>1. Coherent(quiet)
    BY <1>1, QuietMoveCoherent DEF Fresh
  <2>2. Untargeted(quiet)
    BY <1>1, FieldsOfState, QuietMoveUntargeted DEF Fresh, Live
  <2> HIDE DEF quiet
  <2> QED BY <2>1, <2>2, UntargetedPlayIsFair
<1>7. \/ leap # {} /\ apply_move(s, o, from, to, TRUE) = leapt
      \/ apply_move(s, o, from, to, TRUE) = milled
      \/ apply_move(s, o, from, to, TRUE) = captured
      \/ apply_move(s, o, from, to, TRUE) = quiet
  BY DEF apply_move, moved, custodian, intervention, leap, lines
<1> HIDE DEF leapt, milled, captured, quiet
<1> QED BY <1>3, <1>4, <1>5, <1>6, <1>7

LEMMA StalemateFair ==
  ASSUME NEW s, Coherent(s), Sound(s), NEW o \in MillVariantOptions, Fair(s, o)
  PROVE  Fair(maybe_handle_stalemate(s, o), o)
<1> DEFINE t == maybe_handle_stalemate(s, o)
<1>1. CASE ~is_stalemate(s, o)
  BY <1>1 DEF maybe_handle_stalemate
<1>2. CASE is_stalemate(s, o)
  <2>1. Live(s) /\ Clean(s)
    BY <1>2, StalemateClean DEF Sound
  <2>2. Untargeted(s)
    BY <2>1, CleanIsUntargeted DEF Live, Clean
  <2>3. Untargeted(t) /\ Coherent(t)
    BY <2>2, StalemateUntargeted, StalemateCoherent
  <2> HIDE DEF t
  <2>4. Fair(t, o)
    BY <2>3, UntargetedPlayIsFair
  <2> QED BY <2>4 DEF t
<1> QED BY <1>1, <1>2

(* The first removal of a turn decides: a capture taken is the only one    *)
(* owed, and a mill paid for by another piece forgoes the captures.        *)
LEMMA OneObligation ==
  ASSUME NEW s, Live(s), NEW o, NEW n,
         s.intervention_targets[s.side_to_move] = {}
  PROVE  LET t == choose_obligation(s, o, n)
             c == s.side_to_move
         IN /\ n \in Targets(s, c) => t.pending_removals[c] = 1
            /\ (/\ n \notin Targets(s, c) /\ Targets(s, c) # {}
                /\ s.mill_available_at_removal) => Targets(t, c) = {}
<1> DEFINE c == s.side_to_move
           total == capture_total(s)
           none == [s EXCEPT !.mill_available_at_removal = FALSE,
                      !.custodian_targets[c] = {}, !.intervention_targets[c] = {},
                      !.leap_targets[c] = {}]
           left == IF o.may_remove_multiple /\ s.pending_removals[c] > total
                     THEN s.pending_removals[c] - total ELSE s.pending_removals[c]
           one == owe(none, 1)
           mill == owe(none, left)
           B == [one EXCEPT !.custodian_targets[c] = s.custodian_targets[c]]
           C == [one EXCEPT !.leap_targets[c] = s.leap_targets[c]]
           D == [mill EXCEPT !.mill_available_at_removal = TRUE]
           t == choose_obligation(s, o, n)
<1>1. /\ s \in MillStates /\ c \in Sides
      /\ s.custodian_targets \in [Sides -> SUBSET Nodes]
      /\ s.intervention_targets \in [Sides -> SUBSET Nodes]
      /\ s.leap_targets \in [Sides -> SUBSET Nodes]
      /\ s.pending_removals \in [Sides -> Nat]
  BY DEF Live, MillStates
<1>2. Targets(s, c) # {} => total > 0
  BY <1>1, TotalIsPositive
<1>3. n \in Targets(s, c) => n \in s.custodian_targets[c] \/ n \in s.leap_targets[c]
  BY DEF Targets
<1>4. n \notin Targets(s, c) => n \notin s.custodian_targets[c] /\ n \notin s.leap_targets[c]
  BY DEF Targets
<1>5. /\ n \in Targets(s, c) => t = B \/ t = C
      /\ (/\ n \notin Targets(s, c) /\ Targets(s, c) # {}
          /\ s.mill_available_at_removal) => t = D
  <2>1. t = IF n \in s.custodian_targets[c] THEN B
            ELSE IF n \in s.leap_targets[c] THEN C
            ELSE IF s.mill_available_at_removal /\ total > 0 THEN D ELSE s
    BY DEF choose_obligation
  <2> HIDE DEF t, B, C, D, total
  <2> QED BY <1>2, <1>3, <1>4, <2>1
<1> HIDE DEF t, total, left
<1>6. /\ Alters(s, none, CaptureState)
      /\ none.custodian_targets = [s.custodian_targets EXCEPT ![c] = {}]
      /\ none.intervention_targets = [s.intervention_targets EXCEPT ![c] = {}]
      /\ none.leap_targets = [s.leap_targets EXCEPT ![c] = {}]
  BY <1>1, FieldsOfState DEF Alters, Fields, CaptureState
<1> HIDE DEF none
<1>7. none.side_to_move = c /\ none.pending_removals = s.pending_removals
  BY <1>6 DEF Alters, Fields, CaptureState
<1>8. /\ Alters(none, one, {"pending_removals"})
      /\ one.pending_removals = [s.pending_removals EXCEPT ![c] = 1]
      /\ Alters(none, mill, {"pending_removals"})
  BY <1>6, <1>7 DEF Alters, Fields, owe
<1> HIDE DEF one, mill
<1>9. /\ Alters(one, B, {"custodian_targets"}) /\ Alters(one, C, {"leap_targets"})
      /\ Alters(mill, D, {"mill_available_at_removal"})
  BY <1>8 DEF Alters, Fields
<1> HIDE DEF B, C, D
<1>10. B.pending_removals[c] = 1 /\ C.pending_removals[c] = 1
  <2>1. /\ B.pending_removals = one.pending_removals
        /\ C.pending_removals = one.pending_removals
    BY <1>9 DEF Alters, Fields
  <2> QED BY <1>1, <1>8, <2>1
<1>11. Targets(D, c) = {}
  <2>1. /\ D.custodian_targets = none.custodian_targets
        /\ D.intervention_targets = none.intervention_targets
        /\ D.leap_targets = none.leap_targets
    BY <1>8, <1>9 DEF Alters, Fields
  <2> QED BY <1>1, <1>6, <2>1 DEF Targets
<1>12. /\ n \in Targets(s, c) => t.pending_removals[c] = 1
       /\ (/\ n \notin Targets(s, c) /\ Targets(s, c) # {}
           /\ s.mill_available_at_removal) => Targets(t, c) = {}
  BY <1>5, <1>10, <1>11
<1> QED BY <1>12 DEF t

LEMMA FinishUntargeted ==
  ASSUME NEW s, Live(s), Targets(s, Opp(s.side_to_move)) = {}, NEW o, NEW own
  PROVE  Untargeted(finish_removal(s, o, own))
<1> DEFINE c == s.side_to_move
           d == Opp(c)
           paid == clear_capture_state_for_side(s, c)
           passed == [paid EXCEPT
                        !.remove_own_piece[c] = IF own THEN FALSE ELSE @,
                        !.stalemate_removing = FALSE,
                        !.side_to_move = IF s.stalemate_removing THEN @ ELSE Opp(@),
                        !.both_stalemate_removing = @ /\ s.pending_removals # Both(0),
                        !.board_full_removing = @ /\ s.pending_removals # Both(0)]
           F == {"remove_own_piece", "stalemate_removing", "side_to_move",
                 "both_stalemate_removing", "board_full_removing"}
<1>1. /\ s \in MillStates /\ c \in Sides /\ d \in Sides \ {c} /\ Sides = {c, d}
      /\ s.custodian_targets \in [Sides -> SUBSET Nodes]
      /\ s.intervention_targets \in [Sides -> SUBSET Nodes]
      /\ s.leap_targets \in [Sides -> SUBSET Nodes]
  BY TwoSides DEF Live, MillStates
<1>2. paid \in MillStates /\ \A k \in Sides : Targets(paid, k) = {}
  <2>1. paid \in MillStates
    BY <1>1, ClearSideTyped
  <2>2. /\ paid.custodian_targets = [s.custodian_targets EXCEPT ![c] = {}]
        /\ paid.intervention_targets = [s.intervention_targets EXCEPT ![c] = {}]
        /\ paid.leap_targets = [s.leap_targets EXCEPT ![c] = {}]
    BY <1>1, FieldsOfState DEF Fields, clear_capture_state_for_side
  <2> HIDE DEF paid
  <2> QED BY <1>1, <2>1, <2>2 DEF Targets
<1>3. finish_removal(s, o, own) = settle(passed, o)
  BY DEF finish_removal, paid
<1> HIDE DEF paid
<1>4. Untargeted(paid)
  BY <1>2, CleanIsUntargeted
<1>5. Alters(paid, passed, F)
  BY <1>4 DEF Untargeted, Alters, Fields
<1>6. F \intersect TargetFields = {}
  BY DEF TargetFields
<1> HIDE DEF passed, F
<1>7. Untargeted(passed)
  BY <1>4, <1>5, <1>6, StillUntargeted
<1> QED BY <1>3, <1>7, SettleUntargeted

(* What generate_remove_actions offers: a capture target, or a piece that  *)
(* regular removal allows unless the targets are all that is owed.         *)
LEMMA RemovalChoice ==
  ASSUME NEW s, Coherent(s), Sound(s), NEW o, NEW a \in legal_actions(s, o),
         a.kind = "Remove"
  PROVE  LET c == s.side_to_move
             target == IF s.remove_own_piece[c] THEN c ELSE Opp(c)
         IN \/ a.to \in Targets(s, c) /\ target = Opp(c)
            \/ /\ a.to \in regular_remove_targets(s, o, target)
               /\ Targets(s, c) = {} \/ ~(s.pending_removals[c] <= capture_total(s))
<1> DEFINE c == s.side_to_move
           own == s.remove_own_piece[c]
           target == IF own THEN c ELSE Opp(c)
           captures == capture_targets(s) \intersect piece_bitboard(s, Opp(c))
           regular == regular_remove_targets(s, o, target)
<1>1. /\ s.phase # "GameOver" /\ Live(s) /\ s.action = "Remove"
  BY LegalActionTyped
<1>2. \A fly : \A x \in generate_move_actions(s, o, fly) : x.kind = "Move"
  BY MoveActionsTyped
<1>3. \A n : PlaceAction(n).kind = "Place"
  BY DEF PlaceAction
<1>4. a \in generate_remove_actions(s, o)
  BY <1>2, <1>3 DEF legal_actions
<1>5. capture_targets(s) = Targets(s, c) /\ (own => Targets(s, c) = {})
  BY <1>1 DEF capture_targets, Targets, Sound, Due
<1>6. \E n : /\ a = RemoveAction(n)
             /\ n \in IF /\ capture_targets(s) # {}
                         /\ s.pending_removals[c] <= capture_total(s)
                        THEN captures ELSE captures \union regular
  BY <1>4 DEF generate_remove_actions
<1>7. \A n : RemoveAction(n).to = n
  BY DEF RemoveAction
<1> HIDE DEF regular
<1>8. \/ a.to \in Targets(s, c)
      \/ /\ a.to \in regular
         /\ Targets(s, c) = {} \/ ~(s.pending_removals[c] <= capture_total(s))
  BY <1>5, <1>6, <1>7
<1>9. a.to \in Targets(s, c) => target = Opp(c)
  BY <1>5
<1> QED BY <1>8, <1>9 DEF regular

(* After a removal the turn is over or no target is left.                  *)
LEMMA RemovalSettled ==
  ASSUME NEW s, Live(s), Sound(s), s.phase # "GameOver", Owes(s), NEW o,
         NEW n \in Nodes, NEW target \in Sides,
         n \in piece_bitboard(s, target), s.pieces_on_board[target] > 0,
         s.intervention_targets[s.side_to_move] = {},
         \/ n \in Targets(s, s.side_to_move) \/ Targets(s, s.side_to_move) = {}
         \/ s.mill_available_at_removal
  PROVE  LET w == consume_target(take_piece(choose_obligation(s, o, n), o, n, target),
                                 o, n)
             c == s.side_to_move
         IN /\ w \in MillStates /\ w.side_to_move = c /\ Targets(w, Opp(c)) = {}
            /\ w.pending_removals[c] = 0 \/ Targets(w, c) = {}
<1> DEFINE c == s.side_to_move
           d == Opp(c)
           owing == choose_obligation(s, o, n)
           less == take_piece(owing, o, n, target)
           w == consume_target(less, o, n)
<1>1. s \in MillStates /\ c \in Sides /\ d \in Sides
  BY OppIsSide DEF Live
<1>2. /\ Alters(s, owing, CaptureState \union {"pending_removals"})
      /\ owing \in MillStates /\ owing.side_to_move = c
      /\ owing.pending_removals[c] > 0
      /\ Targets(owing, c) \subseteq Targets(s, c)
      /\ Targets(owing, d) = Targets(s, d)
  BY ObligationEffect
<1>3. owing.pending_removals[c] = 1 \/ Targets(owing, c) = {}
  <2>1. /\ n \in Targets(s, c) => owing.pending_removals[c] = 1
        /\ (/\ n \notin Targets(s, c) /\ Targets(s, c) # {}
            /\ s.mill_available_at_removal) => Targets(owing, c) = {}
    BY OneObligation
  <2> HIDE DEF owing
  <2> QED BY <1>2, <2>1
<1> HIDE DEF owing
<1>4. Live(owing) /\ Owes(owing)
  BY <1>1, <1>2 DEF Live, Owes
<1>5. /\ less \in MillStates /\ less.side_to_move = c
      /\ Alters(owing, less, {"board", "marked", "pieces_on_board", "pending_removals",
                              "ply_since_capture", "key_history"})
      /\ less.pending_removals = [owing.pending_removals EXCEPT ![c] = @ - 1]
  <2> DEFINE e == owing.side_to_move
  <2>1. n \in piece_bitboard(owing, target) /\ owing.pieces_on_board[target] > 0
    <3>1. /\ owing.board = s.board /\ owing.marked = s.marked
          /\ owing.pieces_on_board = s.pieces_on_board
      BY <1>2 DEF Alters, Fields, CaptureState
    <3> QED BY <3>1, SameBitboards
  <2>2. /\ less \in MillStates /\ less.side_to_move = e /\ less.phase = owing.phase
        /\ Alters(owing, less, {"board", "marked", "pieces_on_board", "pending_removals",
                                "ply_since_capture", "key_history"})
        /\ less.pending_removals = [owing.pending_removals EXCEPT ![e] = @ - 1]
        /\ owing.phase = "Moving" => less.marked = owing.marked
        /\ Taken(owing, less, n, target)
    BY <1>4, <2>1, TakeEffect
  <2> HIDE DEF less
  <2> QED BY <1>2, <2>2
<1> HIDE DEF less
<1>6. /\ w \in MillStates /\ w.side_to_move = c
      /\ Alters(less, w, CaptureState \ {"mill_available_at_removal"})
      /\ Targets(w, c) \subseteq Targets(less, c) \ {n}
      /\ Targets(w, d) = Targets(less, d)
  <2> DEFINE e == less.side_to_move
  <2>1. Live(less)
    BY <1>1, <1>5 DEF Live
  <2>2. /\ w \in MillStates /\ w.side_to_move = e
        /\ Alters(less, w, CaptureState \ {"mill_available_at_removal"})
        /\ Targets(w, e) \subseteq Targets(less, e) \ {n}
        /\ Targets(w, Opp(e)) = Targets(less, Opp(e))
    BY <2>1, ConsumeEffect
  <2> HIDE DEF w
  <2> QED BY <1>5, <2>2
<1> HIDE DEF w
<1>7. /\ w.pending_removals = less.pending_removals
      /\ \A k : Targets(less, k) = Targets(owing, k)
  BY <1>5, <1>6 DEF Alters, Fields, CaptureState, Targets
<1>8. Targets(w, d) = {}
  BY <1>2, <1>6, <1>7 DEF Sound, Due
<1>9. w.pending_removals[c] = 0 \/ Targets(w, c) = {}
  <2>1. owing.pending_removals \in [Sides -> Nat]
    BY <1>2 DEF MillStates
  <2>2. less.pending_removals[c] = owing.pending_removals[c] - 1
    BY <1>1, <1>5, <2>1
  <2> QED BY <1>3, <1>6, <1>7, <2>2
<1> QED BY <1>6, <1>8, <1>9 DEF w, less, owing

LEMMA RemoveFair ==
  ASSUME NEW s, NEW o \in MillVariantOptions, Good(s, o), Fair(s, o),
         NEW a \in legal_actions(s, o), a.kind = "Remove"
  PROVE  Fair(apply_remove(s, o, a.to), o)
<1> DEFINE c == s.side_to_move
           own == s.remove_own_piece[c]
           target == IF own THEN c ELSE Opp(c)
           n == a.to
           w == consume_target(take_piece(choose_obligation(s, o, n), o, n, target),
                               o, n)
           over == game_over(w, Opp(target), "LoseFewerThanThree")
           done == finish_removal(w, o, own)
           t == apply_remove(s, o, n)
<1>1. /\ Live(s) /\ s.phase # "GameOver" /\ Owes(s)
      /\ target \in Sides /\ n \in piece_bitboard(s, target) /\ n \in Nodes
      /\ Sound(s) /\ Coherent(s) /\ Counted(s, o)
  BY LegalRemove, OccupancyOnBoard DEF Good
<1>2. \/ n \in Targets(s, c)
      \/ Targets(s, c) = {} \/ ~(s.pending_removals[c] <= capture_total(s))
  BY <1>1, RemovalChoice
<1>3. t = IF has_too_few(w, o, target) THEN over
          ELSE IF w.pending_removals[c] = 0 THEN done ELSE w
  BY DEF apply_remove
<1> HIDE DEF target
<1>4. s.pieces_on_board[target] > 0
  BY <1>1, PieceIsCounted
<1>5. s.intervention_targets[c] = {}
  BY <1>1 DEF Fair, Targets
<1>6. \/ n \in Targets(s, c) \/ Targets(s, c) = {} \/ s.mill_available_at_removal
  BY <1>1, <1>2 DEF Fair
<1>7. /\ w \in MillStates /\ w.side_to_move = c /\ Targets(w, Opp(c)) = {}
      /\ w.pending_removals[c] = 0 \/ Targets(w, c) = {}
  BY <1>1, <1>4, <1>5, <1>6, RemovalSettled
<1> HIDE DEF w, t
<1>8. Live(w)
  BY <1>1, <1>7 DEF Live
<1>9. Fair(over, o)
  BY <1>7, GameOverEffect DEF Fair
<1>10. Fair(done, o)
  <2>1. Untargeted(done)
    BY <1>7, <1>8, FinishUntargeted
  <2>2. Coherent(done)
    BY <1>8, FinishCoherent
  <2> HIDE DEF done
  <2> QED BY <2>1, <2>2, UntargetedPlayIsFair
<1>11. w.pending_removals[c] # 0 => Fair(w, o)
  BY <1>7 DEF Fair
<1> HIDE DEF over, done
<1>12. Fair(t, o)
  BY <1>3, <1>9, <1>10, <1>11
<1> QED BY <1>12 DEF t

LEMMA ActionFair ==
  ASSUME NEW s, NEW o \in MillVariantOptions, ~o.intervention_capture.enabled,
         Good(s, o), Fair(s, o), NEW a \in legal_actions(s, o)
  PROVE  Fair(apply_to_state(s, o, a, TRUE), o)
<1> DEFINE next == apply_to_state(s, o, a, TRUE)
<1>1. CASE a.kind = "Place"
  <2> DEFINE done == fast_placed(s, o, a.to)
             t == apply_place(s, o, a.to)
  <2>1. Fresh(s) /\ s.phase = "Placing" /\ a.to \in Nodes
    BY <1>1, LegalPlace, OccupancyOnBoard DEF Good
  <2>2. Coherent(t) /\ Sound(t) /\ Fair(t, o)
    BY <2>1, PlaceSound, PlaceCoherent, PlaceFair DEF Fresh
  <2>3. Coherent(done) /\ Sound(done) /\ Fair(done, o)
    BY <2>1, FastPlacedSound, FastPlacedFair
  <2>4. \/ next = maybe_handle_stalemate(t, o)
        \/ next = maybe_handle_stalemate(done, o)
        \/ next = done
    BY <1>1 DEF apply_to_state, apply_generally, fast_place
  <2> HIDE DEF done, t, next
  <2> QED BY <2>2, <2>3, <2>4, StalemateFair DEF next
<1>2. CASE a.kind = "Move"
  <2> DEFINE t == apply_move(s, o, a.from, a.to, TRUE)
  <2>1. /\ Fresh(s) /\ a.from \in Nodes /\ a.to \in Nodes
        /\ s.pieces_in_hand = Both(0) => s.phase = "Moving"
    BY <1>2, LegalMove, OccupancyOnBoard DEF Good
  <2>2. Coherent(t) /\ Sound(t) /\ Fair(t, o)
    BY <2>1, MoveSound, MoveCoherent, MoveFair DEF Fresh
  <2>3. next = maybe_handle_stalemate(t, o)
    BY <1>2 DEF apply_to_state, apply_generally
  <2> HIDE DEF t, next
  <2> QED BY <2>2, <2>3, StalemateFair DEF next
<1>3. CASE a.kind = "Remove"
  <2> DEFINE c == s.side_to_move
             target == IF s.remove_own_piece[c] THEN c ELSE Opp(c)
             t == apply_remove(s, o, a.to)
  <2>1. /\ Live(s) /\ s.phase # "GameOver" /\ s.action = "Remove" /\ Owes(s)
        /\ target \in Sides /\ a.to \in piece_bitboard(s, target) /\ a.to \in Nodes
        /\ Sound(s) /\ Counted(s, o)
    BY <1>3, LegalRemove, OccupancyOnBoard DEF Good
  <2>2. s.pieces_on_board[target] > 0
    <3> HIDE DEF target
    <3> QED BY <2>1, PieceIsCounted
  <2>3. Coherent(t) /\ Sound(t)
    BY <2>1, <2>2, RemoveCoherent, RemoveSound
  <2>4. Fair(t, o)
    BY <1>3, RemoveFair
  <2>5. next = maybe_handle_stalemate(t, o)
    BY <1>3 DEF apply_to_state, apply_generally
  <2> HIDE DEF t, next
  <2> QED BY <2>3, <2>4, <2>5, StalemateFair DEF next
<1> QED BY <1>1, <1>2, <1>3, LegalActionTyped DEF Good

(* A piece that mill protection leaves among any targets stands in no      *)
(* mill, or all pieces of its side do.                                     *)
LEMMA UnprotectedStands ==
  ASSUME NEW s, NEW o, ~o.may_remove_from_mills_always, NEW c, NEW T,
         NEW n \in Unprotected(s, o, c, T)
  PROVE  \/ n \notin mill_members(s, o, c)
         \/ piece_bitboard(s, c) \subseteq mill_members(s, o, c)
BY DEF Unprotected

(* What one removal takes.                                                 *)
LEMMA RemovalProtects ==
  ASSUME NEW s, NEW o \in MillVariantOptions, Good(s, o), Fair(s, o),
         ~o.may_remove_from_mills_always, ~is_stalemate_removal_context(s, o),
         NEW a \in legal_actions(s, o), a.kind = "Remove", NEW k \in Sides
  PROVE  LET before == piece_bitboard(s, k)
             members == mill_members(s, o, k)
             gone == before \ piece_bitboard(apply_to_state(s, o, a, TRUE), k)
         IN gone \intersect members = {} \/ before \subseteq members
<1> DEFINE c == s.side_to_move
           own == s.remove_own_piece[c]
           target == IF own THEN c ELSE Opp(c)
           n == a.to
           t == apply_remove(s, o, n)
           u == apply_to_state(s, o, a, TRUE)
<1>1. /\ Live(s) /\ s.phase # "GameOver" /\ s.action = "Remove" /\ Owes(s)
      /\ target \in Sides /\ n \in piece_bitboard(s, target) /\ n \in Nodes
      /\ Sound(s) /\ Coherent(s) /\ Counted(s, o)
  BY LegalRemove, OccupancyOnBoard DEF Good
<1>2. \/ n \in Targets(s, c) /\ target = Opp(c)
      \/ n \in regular_remove_targets(s, o, target)
  BY <1>1, RemovalChoice
<1>3. \E T : n \in Unprotected(s, o, target, T)
  <2>1. n \in Targets(s, c) => n \in Unprotected(s, o, Opp(c), {n})
    BY <1>1 DEF Fair, Removable
  <2>2. n \in regular_remove_targets(s, o, target) =>
          n \in Unprotected(s, o, target, piece_bitboard(s, target))
    BY DEF regular_remove_targets
  <2> QED BY <1>2, <2>1, <2>2
<1>4. \/ n \notin mill_members(s, o, target)
      \/ piece_bitboard(s, target) \subseteq mill_members(s, o, target)
  BY <1>3, UnprotectedStands
<1>5. s.pieces_on_board[target] > 0
  <2> HIDE DEF target
  <2> QED BY <1>1, PieceIsCounted
<1>6. Sound(t) /\ \E w \in MillStates : Taken(s, w, n, target) /\ Keeps(w, t)
  BY <1>1, <1>5, RemoveSound
<1>7. Coherent(t)
  BY <1>1, RemoveCoherent
<1>8. u = maybe_handle_stalemate(t, o)
  BY DEF apply_to_state, apply_generally
<1> HIDE DEF t, u
<1>9. piece_bitboard(u, k) = piece_bitboard(s, k) \ {n}
  <2>1. PICK w \in MillStates : Taken(s, w, n, target) /\ Keeps(w, t)
    BY <1>6
  <2>2. Keeps(t, u)
    BY <1>6, <1>7, <1>8, StalemateSound
  <2> QED BY <2>1, <2>2 DEF Taken, Keeps
<1>10. n \in piece_bitboard(s, k) => k = target
  BY <1>1 DEF piece_bitboard
<1>11. \/ (piece_bitboard(s, k) \ piece_bitboard(u, k)) \intersect mill_members(s, o, k) = {}
       \/ piece_bitboard(s, k) \subseteq mill_members(s, o, k)
  <2>1. CASE n \in piece_bitboard(s, k)
    <3>1. k = target
      BY <1>10, <2>1
    <3> QED BY <1>4, <1>9, <3>1
  <2>2. CASE n \notin piece_bitboard(s, k)
    BY <1>9, <2>2
  <2> QED BY <2>1, <2>2
<1> QED BY <1>11 DEF u

-----------------------------------------------------------------------------
(* What every game protects *)

(* The inductive invariant.  A custodian or leap target was looked for     *)
(* when it was offered; that it may still be taken is a fact about a later *)
(* position, and holds because no other removal comes between.             *)
FairInv == GameInv /\ Fair(state, options)

LEMMA FairInvariant ==
  ASSUME \A o \in Variants : ~o.intervention_capture.enabled
  PROVE  Spec => []FairInv
<1>1. Init => Fair(state, options)
  <2> SUFFICES ASSUME Init PROVE Fair(state, options)
    OBVIOUS
  <2>1. Targets(state, 0) = {} /\ state.side_to_move = 0
    BY DEF Init, initial_state, Targets, Both, Sides
  <2> QED BY <2>1 DEF Fair
<1>2. GameInv /\ Fair(state, options) /\ [Next]_vars => Fair(state, options)'
  <2> SUFFICES ASSUME GameInv, Fair(state, options), [Next]_vars
               PROVE  Fair(state', options')
    OBVIOUS
  <2>1. /\ options \in MillVariantOptions /\ Good(state, options)
        /\ ~options.intervention_capture.enabled
    BY VariantsAssumption DEF GameInv
  <2>2. CASE UNCHANGED vars
    BY <2>2 DEF vars
  <2>3. ASSUME NEW kind, Apply(kind)
        PROVE  Fair(state', options')
    <3>1. PICK a \in legal_actions(state, options) :
             state' = apply_to_state(state, options, a, TRUE)
      BY <2>3 DEF Apply
    <3>2. Fair(apply_to_state(state, options, a, TRUE), options)
      BY <2>1, <3>1, ActionFair
    <3> QED BY <2>3, <3>1, <3>2 DEF Apply
  <2> QED BY <2>2, <2>3 DEF Next, Place, Move, Remove
<1>3. Spec => []GameInv
  BY GameInvariant
<1> QED BY <1>1, <1>2, <1>3, PTL DEF Spec, FairInv

(* generate_remove_actions and the capture searches protect mills in every *)
(* variant without intervention captures, whose pairs are the exception the*)
(* property names: outside stalemate removals a piece standing in a mill is*)
(* removed only when all pieces of its side do, also when the removal was  *)
(* offered before the position changed.                                    *)
THEOREM MillsAreProtected ==
  ASSUME \A o \in Variants : ~o.intervention_capture.enabled
  PROVE  Spec => MillProtection
<1> DEFINE Protects ==
             (/\ state.action = "Remove"
              /\ ~options.may_remove_from_mills_always
              /\ ~is_stalemate_removal_context(state, options)) =>
             \A c \in Sides :
               LET before == piece_bitboard(state, c)
                   members == mill_members(state, options, c)
                   gone == before \ piece_bitboard(state', c)
               IN \/ gone \intersect members = {}
                  \/ before \subseteq members
                  \/ \A n \in gone : LeftOfPair(state, options, c, n)
<1>1. FairInv /\ [Next]_vars => [Protects]_vars
  <2> SUFFICES ASSUME FairInv, Next, state.action = "Remove",
                      ~options.may_remove_from_mills_always,
                      ~is_stalemate_removal_context(state, options),
                      NEW c \in Sides
               PROVE  LET before == piece_bitboard(state, c)
                          members == mill_members(state, options, c)
                          gone == before \ piece_bitboard(state', c)
                      IN gone \intersect members = {} \/ before \subseteq members
    OBVIOUS
  <2>1. /\ options \in MillVariantOptions /\ Good(state, options)
        /\ Fair(state, options)
    BY VariantsAssumption DEF FairInv, GameInv
  <2>2. PICK a \in legal_actions(state, options) :
           state' = apply_to_state(state, options, a, TRUE)
    BY DEF Next, Place, Move, Remove, Apply
  <2>3. a.kind = "Remove"
    <3>1. state.phase # "GameOver" /\ Live(state)
      BY <2>1, <2>2, LegalActionTyped DEF Good
    <3>2. state.action = synced_action(state)
      BY <2>1, <3>1 DEF Good, Coherent, Synced
    <3>3. state.pending_removals[state.side_to_move] > 0
      BY <3>1, <3>2 DEF synced_action
    <3>4. ~Fresh(state)
      BY <3>1, <3>3 DEF Fresh, Clean, Live
    <3> QED BY <2>1, <2>2, <3>4, LegalActionTyped, LegalPlace, LegalMove DEF Good
  <2>4. LET before == piece_bitboard(state, c)
            members == mill_members(state, options, c)
            gone == before \ piece_bitboard(apply_to_state(state, options, a, TRUE), c)
        IN gone \intersect members = {} \/ before \subseteq members
    BY <2>1, <2>2, <2>3, RemovalProtects
  <2> QED BY <2>2, <2>4
<1>2. Spec => []FairInv
  BY FairInvariant
<1> HIDE DEF Protects
<1>3. Spec => [][Protects]_vars
  BY <1>1, <1>2, PTL DEF Spec
<1> QED BY <1>3 DEF MillProtection, Protects

-----------------------------------------------------------------------------
(* What an action leaves undecided *)

(* A full board that nobody has decided yet.                               *)
Undecided(s, o) ==
  /\ FillsBoard(o) /\ s.phase = "Moving" /\ board_is_full(s)
  /\ \A c \in Sides : ~(s.pending_removals[c] > 0)

StalemateFlags == {"stalemate_removing", "both_stalemate_removing"}

(* t comes from s by steps that have nothing to do with stalemates.        *)
Unflagged(s, t) == Alters(s, t, Fields \ StalemateFlags)

LEMMA UnflaggedTwice ==
  ASSUME NEW s, NEW t, NEW u, Unflagged(s, t), Unflagged(t, u)
  PROVE  Unflagged(s, u)
BY DEF Unflagged, Alters

LEMMA AltersUnflagged ==
  ASSUME NEW s, NEW t, NEW F, Alters(s, t, F), F \intersect StalemateFlags = {}
  PROVE  Unflagged(s, t)
BY DEF Unflagged, Alters

LEMMA UnflaggedItself ==
  ASSUME NEW s, DOMAIN s = Fields
  PROVE  Unflagged(s, s)
BY DEF Unflagged, Alters

LEMMA TurnUnflagged ==
  ASSUME NEW s, NEW t, Alters(s, t, TurnFields)
  PROVE  Unflagged(s, t)
<1>1. TurnFields \intersect StalemateFlags = {}
  BY DEF TurnFields, CaptureState, Notes, StalemateFlags
<1> QED BY <1>1, AltersUnflagged

LEMMA StepsUnflagged ==
  ASSUME NEW s, DOMAIN s = Fields
  PROVE  /\ \A w, x : Unflagged(s, game_over(s, w, x))
         /\ \A owed, first : Unflagged(s, board_full_removals(s, owed, first))
         /\ Unflagged(s, sync_action_state(s))
         /\ Unflagged(s, sync_phase_with_active_hand(s))
         /\ Unflagged(s, clear_capture_state(s))
         /\ \A c : Unflagged(s, [s EXCEPT !.side_to_move = c])
         /\ \A h : Unflagged(s, [s EXCEPT !.pieces_in_hand = h])
         /\ \A n : Unflagged(s, owe(s, n))
<1>1. \A w, x : Unflagged(s, game_over(s, w, x))
  BY DEF Unflagged, StalemateFlags, Alters, Fields, game_over
<1>2. \A owed, first : Unflagged(s, board_full_removals(s, owed, first))
  BY DEF Unflagged, StalemateFlags, Alters, Fields, board_full_removals
<1>3. Unflagged(s, sync_action_state(s))
  BY DEF Unflagged, StalemateFlags, Alters, Fields, sync_action_state
<1>4. Unflagged(s, sync_phase_with_active_hand(s))
  BY DEF Unflagged, StalemateFlags, Alters, Fields, sync_phase_with_active_hand
<1>5. Unflagged(s, clear_capture_state(s))
  BY DEF Unflagged, StalemateFlags, Alters, Fields, clear_capture_state
<1>6. \A c : Unflagged(s, [s EXCEPT !.side_to_move = c])
  BY DEF Unflagged, StalemateFlags, Alters, Fields
<1>7. \A h : Unflagged(s, [s EXCEPT !.pieces_in_hand = h])
  BY DEF Unflagged, StalemateFlags, Alters, Fields
<1>8. \A n : Unflagged(s, owe(s, n))
  BY DEF Unflagged, StalemateFlags, Alters, Fields, owe
<1> QED BY <1>1, <1>2, <1>3, <1>4, <1>5, <1>6, <1>7, <1>8

LEMMA NoteUnflagged ==
  ASSUME NEW s, DOMAIN s = Fields, NEW o, NEW c, NEW from, NEW to, NEW lines
  PROVE  Unflagged(s, note_mill_formation(s, o, c, from, to, lines))
BY DEF Unflagged, StalemateFlags, Alters, Fields, note_mill_formation

LEMMA CountsUnflagged ==
  ASSUME NEW s, DOMAIN s = Fields, NEW o
  PROVE  Unflagged(s, apply_removal_based_on_mill_counts(s, o))
<1>1. \A own, owed :
        Unflagged(s, [s EXCEPT !.remove_own_piece = own, !.pending_removals = owed,
                               !.mill_available_at_removal = TRUE])
  BY DEF Unflagged, StalemateFlags, Alters, Fields
<1> QED BY <1>1 DEF apply_removal_based_on_mill_counts

LEMMA EnterMovingUnflagged ==
  ASSUME NEW s, DOMAIN s = Fields, NEW o
  PROVE  Unflagged(s, enter_moving_phase(s, o))
<1> DEFINE swept == sweep_marked([s EXCEPT !.phase = "Moving"])
           counts == apply_removal_based_on_mill_counts(swept, o)
           counted == IF o.mill_formation_action_in_placing_phase
                           = "RemovalBasedOnMillCounts" THEN counts ELSE swept
           side == IF o.is_defender_move_first THEN 1
                   ELSE IF KeepsSideAtPlacingEnd(o) THEN counted.side_to_move ELSE 0
<1>1. Unflagged(s, swept) /\ DOMAIN swept = Fields
  BY DEF Unflagged, StalemateFlags, Alters, Fields, sweep_marked
<1> HIDE DEF swept
<1>2. Unflagged(swept, counts)
  BY <1>1, CountsUnflagged
<1> HIDE DEF counts
<1>3. Unflagged(s, counted)
  BY <1>1, <1>2, UnflaggedTwice
<1> HIDE DEF counted
<1>4. DOMAIN counted = Fields
  BY <1>3 DEF Unflagged, Alters
<1>5. Unflagged(counted, [counted EXCEPT !.side_to_move = side])
  BY <1>4, StepsUnflagged
<1>6. enter_moving_phase(s, o) = [counted EXCEPT !.side_to_move = side]
  BY DEF enter_moving_phase, counted, counts, swept
<1> HIDE DEF side
<1>7. Unflagged(s, [counted EXCEPT !.side_to_move = side])
  BY <1>3, <1>5, UnflaggedTwice
<1> QED BY <1>6, <1>7

LEMMA TransitionUnflagged ==
  ASSUME NEW s, DOMAIN s = Fields, NEW o
  PROVE  Unflagged(s, maybe_transition_to_moving(s, o))
<1> DEFINE placed == IF s.phase = "Placing" /\ s.pieces_in_hand = Both(0)
                       THEN enter_moving_phase(s, o) ELSE s
           emptied == [placed EXCEPT !.pieces_in_hand = Both(0)]
           moved == maybe_transition_to_moving(s, o)
<1>1. Unflagged(s, placed)
  BY EnterMovingUnflagged, UnflaggedItself
<1>2. moved = enter_moving_phase(emptied, o) \/ moved = placed
  BY DEF maybe_transition_to_moving
<1> HIDE DEF placed, moved
<1>3. DOMAIN placed = Fields
  BY <1>1 DEF Unflagged, Alters
<1>4. Unflagged(placed, emptied)
  BY <1>3, StepsUnflagged
<1> HIDE DEF emptied
<1>5. DOMAIN emptied = Fields
  BY <1>4 DEF Unflagged, Alters
<1>6. Unflagged(emptied, enter_moving_phase(emptied, o))
  BY <1>5, EnterMovingUnflagged
<1>7. Unflagged(s, enter_moving_phase(emptied, o))
  BY <1>1, <1>4, <1>6, UnflaggedTwice
<1>8. Unflagged(s, moved)
  BY <1>1, <1>2, <1>7
<1> QED BY <1>8 DEF moved

(* Every completed turn decides a full board.                              *)
LEMMA SettleDecides ==
  ASSUME NEW s, DOMAIN s = Fields, NEW o
  PROVE  Unflagged(s, settle(s, o)) /\ ~Undecided(settle(s, o), o)
<1> DEFINE moved == maybe_transition_to_moving(s, o)
           phased == sync_phase_with_active_hand(moved)
           finished == maybe_finish_full_board(phased, o)
           t == sync_action_state(finished)
           remover == IF o.is_defender_move_first THEN 1 ELSE 0
<1>1. settle(s, o) = t
  BY DEF settle
<1>2. Unflagged(s, moved)
  BY TransitionUnflagged
<1> HIDE DEF moved
<1>3. Unflagged(moved, phased)
  <2>1. DOMAIN moved = Fields
    BY <1>2 DEF Unflagged, Alters
  <2> QED BY <2>1, StepsUnflagged
<1> HIDE DEF phased
<1>4. DOMAIN phased = Fields
  BY <1>3 DEF Unflagged, Alters
<1>5. \/ finished = phased /\ ~Undecided(phased, o)
      \/ \E w, x : finished = game_over(phased, w, x)
      \/ \E owed : \E c \in Sides :
           owed[c] = 1 /\ finished = board_full_removals(phased, owed, c)
  <2>1. /\ 0 \in Sides /\ 1 \in Sides /\ remover \in Sides
        /\ Both(1)[0] = 1 /\ Both(1)[1] = 1
        /\ [Both(0) EXCEPT ![remover] = 1][remover] = 1
    BY DEF Sides, Both
  <2>2. \/ finished = phased /\ ~Undecided(phased, o)
        \/ finished = game_over(phased, 1, "LoseFullBoard")
        \/ finished = game_over(phased, DRAW, "DrawFullBoard")
        \/ finished = board_full_removals(phased, Both(1), 0)
        \/ finished = board_full_removals(phased, Both(1), 1)
        \/ finished = board_full_removals(phased, [Both(0) EXCEPT ![remover] = 1], remover)
    BY DEF maybe_finish_full_board, Undecided
  <2> HIDE DEF finished, remover
  <2> QED BY Zenon, <2>1, <2>2
<1> HIDE DEF finished
<1>6. Unflagged(phased, finished) /\ ~Undecided(finished, o)
  <2>1. CASE finished = phased /\ ~Undecided(phased, o)
    BY <1>4, <2>1, UnflaggedItself
  <2>2. CASE \E w, x : finished = game_over(phased, w, x)
    <3>1. Unflagged(phased, finished)
      BY <1>4, <2>2, StepsUnflagged
    <3>2. finished.phase = "GameOver"
      BY <1>4, <2>2 DEF game_over, Fields
    <3> QED BY <3>1, <3>2 DEF Undecided
  <2>3. CASE \E owed : \E c \in Sides :
               owed[c] = 1 /\ finished = board_full_removals(phased, owed, c)
    <3>1. PICK owed : \E c \in Sides :
            owed[c] = 1 /\ finished = board_full_removals(phased, owed, c)
      BY <2>3
    <3>2. PICK c \in Sides :
            owed[c] = 1 /\ finished = board_full_removals(phased, owed, c)
      BY <3>1
    <3>3. Unflagged(phased, finished)
      BY <1>4, <3>2, StepsUnflagged
    <3>4. finished.pending_removals = owed
      BY <1>4, <3>2 DEF board_full_removals, Fields
    <3>5. 1 > 0
      OBVIOUS
    <3> QED BY <3>2, <3>3, <3>4, <3>5 DEF Undecided
  <2> QED BY <1>5, <2>1, <2>2, <2>3
<1>7. DOMAIN finished = Fields
  BY <1>6 DEF Unflagged, Alters
<1>8. Unflagged(finished, t) /\ Alters(finished, t, {"action"})
  BY <1>7, StepsUnflagged, StepAlters
<1> HIDE DEF t
<1>9. ~Undecided(t, o)
  <2>1. /\ t.phase = finished.phase /\ t.board = finished.board
        /\ t.marked = finished.marked
        /\ t.pending_removals = finished.pending_removals
    BY <1>8 DEF Alters, Fields
  <2> QED BY <1>6, <2>1 DEF Undecided, board_is_full, empty_squares, board_occupied
<1>10. Unflagged(s, t)
  BY <1>2, <1>3, <1>6, <1>8, UnflaggedTwice
<1> QED BY <1>1, <1>9, <1>10

(* No full board is left undecided, and no stalemate removal is begun.     *)
Decides(s, t, o) == Unflagged(s, t) /\ ~Undecided(t, o)

LEMMA StillPlacing ==
  ASSUME NEW s, s.phase = "Placing", NEW t, NEW F, Alters(s, t, F),
         "phase" \notin F, F \intersect StalemateFlags = {}, NEW o
  PROVE  Decides(s, t, o)
<1>1. t.phase = "Placing"
  BY DEF Alters, Fields
<1> QED BY <1>1, AltersUnflagged DEF Decides, Undecided

LEMMA StillDecides ==
  ASSUME NEW s, NEW t, NEW u, NEW o, Decides(s, t, o), NEW F, Alters(t, u, F),
         F \intersect ({"board", "marked", "phase", "pending_removals"}
                         \union StalemateFlags) = {}
  PROVE  Decides(s, u, o)
<1>1. /\ u.phase = t.phase /\ u.board = t.board /\ u.marked = t.marked
      /\ u.pending_removals = t.pending_removals
  BY DEF Alters, Fields
<1>2. ~Undecided(u, o)
  BY <1>1 DEF Decides, Undecided, board_is_full, empty_squares, board_occupied
<1>3. Unflagged(s, u)
  BY AltersUnflagged, UnflaggedTwice DEF Decides
<1> QED BY <1>2, <1>3 DEF Decides

LEMMA SettleAfter ==
  ASSUME NEW s, NEW t, NEW o, Unflagged(s, t)
  PROVE  Decides(s, settle(t, o), o)
<1>1. DOMAIN t = Fields
  BY DEF Unflagged, Alters
<1>2. Unflagged(t, settle(t, o)) /\ ~Undecided(settle(t, o), o)
  BY <1>1, SettleDecides
<1> QED BY <1>2, UnflaggedTwice DEF Decides

LEMMA FromHandDecides ==
  ASSUME NEW s, DOMAIN s = Fields, s.phase = "Placing", NEW o, NEW lines
  PROVE  Decides(s, place_mill_from_hand(s, o, lines), o)
<1> DEFINE c == s.side_to_move
           d == Opp(c)
           earned == removal_count(lines, o)
           taken == hand_removed(earned, s.pieces_in_hand[d])
           left == s.pieces_in_hand[d] - taken
           drawn == [s EXCEPT !.pieces_in_hand[d] = left]
           next == IF o.mill_formation_action_in_placing_phase
                        = "RemoveOpponentsPieceFromHandThenOpponentsTurn"
                     THEN d ELSE c
           owing == owe(drawn, earned - taken)
           synced == sync_action_state(owing)
           passed == [drawn EXCEPT !.side_to_move = next]
           t == IF earned > taken THEN synced ELSE settle(passed, o)
<1>1. Alters(s, drawn, {"pieces_in_hand"})
  BY DEF Alters, Fields
<1>2. place_mill_from_hand(s, o, lines) = clear_capture_state(t)
  BY DEF place_mill_from_hand
<1> HIDE DEF drawn
<1>3. DOMAIN drawn = Fields
  BY <1>1 DEF Alters
<1>4. Decides(s, synced, o)
  <2>1. Alters(drawn, owing, {"pending_removals"})
    BY <1>3, StepAlters
  <2> HIDE DEF owing
  <2>2. DOMAIN owing = Fields
    BY <2>1 DEF Alters
  <2>3. Alters(owing, synced, {"action"})
    BY <2>2, StepAlters
  <2> HIDE DEF synced
  <2> DEFINE F == {"pieces_in_hand", "pending_removals", "action"}
  <2>4. Alters(s, synced, F)
    BY <1>1, <2>1, <2>3 DEF Alters
  <2>5. "phase" \notin F /\ F \intersect StalemateFlags = {}
    BY DEF StalemateFlags
  <2> HIDE DEF F
  <2> QED BY <2>4, <2>5, StillPlacing
<1>5. Decides(s, settle(passed, o), o)
  <2>1. Unflagged(s, drawn)
    BY <1>1, AltersUnflagged DEF StalemateFlags
  <2>2. Unflagged(drawn, passed)
    BY <1>3, StepsUnflagged
  <2> HIDE DEF passed
  <2> QED BY <2>1, <2>2, UnflaggedTwice, SettleAfter
<1> HIDE DEF passed, synced
<1>6. Decides(s, t, o)
  BY <1>4, <1>5
<1> HIDE DEF t
<1>7. DOMAIN t = Fields
  BY <1>6 DEF Decides, Unflagged, Alters
<1>8. Alters(t, clear_capture_state(t), CaptureState)
  BY <1>7, StepAlters
<1>9. CaptureState \intersect ({"board", "marked", "phase", "pending_removals"}
                                 \union StalemateFlags) = {}
  BY DEF CaptureState, StalemateFlags
<1>10. Decides(s, clear_capture_state(t), o)
  BY <1>6, <1>8, <1>9, StillDecides
<1> QED BY <1>2, <1>10

LEMMA CountedDecides ==
  ASSUME NEW s, DOMAIN s = Fields, NEW o
  PROVE  Decides(s, place_mill_counted(s, o), o)
<1> DEFINE cleared == clear_capture_state(s)
           counted == apply_removal_based_on_mill_counts(cleared, o)
           passed == [cleared EXCEPT !.side_to_move = Opp(cleared.side_to_move)]
<1>1. Unflagged(s, cleared)
  BY StepsUnflagged
<1>2. place_mill_counted(s, o) =
        settle(IF s.pieces_in_hand = Both(0) THEN counted ELSE passed, o)
  BY DEF place_mill_counted
<1> HIDE DEF cleared
<1>3. DOMAIN cleared = Fields
  BY <1>1 DEF Unflagged, Alters
<1>4. Unflagged(cleared, counted) /\ Unflagged(cleared, passed)
  BY <1>3, CountsUnflagged, StepsUnflagged
<1> HIDE DEF counted, passed
<1>5. Unflagged(s, counted) /\ Unflagged(s, passed)
  BY <1>1, <1>4, UnflaggedTwice
<1> QED BY <1>2, <1>5, SettleAfter

LEMMA QuietPlaceDecides ==
  ASSUME NEW s, DOMAIN s = Fields, NEW o
  PROVE  Decides(s, place_quietly(s, o), o)
<1> DEFINE cleared == clear_capture_state(s)
           stopped == maybe_stop_placing_when_two_empty(cleared, o)
           passed == [stopped EXCEPT !.side_to_move = Opp(@)]
<1>1. Unflagged(s, cleared)
  BY StepsUnflagged
<1>2. \/ place_quietly(s, o) = settle(stopped, o)
      \/ place_quietly(s, o) = settle(passed, o)
  BY DEF place_quietly
<1> HIDE DEF cleared
<1>3. DOMAIN cleared = Fields
  BY <1>1 DEF Unflagged, Alters
<1>4. Unflagged(cleared, stopped)
  BY <1>3, StepsUnflagged, UnflaggedItself DEF maybe_stop_placing_when_two_empty
<1> HIDE DEF stopped
<1>5. DOMAIN stopped = Fields
  BY <1>4 DEF Unflagged, Alters
<1>6. Unflagged(stopped, passed)
  BY <1>5, StepsUnflagged
<1> HIDE DEF passed
<1>7. Unflagged(s, stopped) /\ Unflagged(s, passed)
  BY <1>1, <1>4, <1>6, UnflaggedTwice
<1> QED BY <1>2, <1>7, SettleAfter

LEMMA PlaceDecides ==
  ASSUME NEW s, Fresh(s), s.phase = "Placing", NEW o, NEW to \in Nodes
  PROVE  Decides(s, apply_place(s, o, to), o)
<1> DEFINE c == s.side_to_move
           placed == place_live_piece(s, to)
           custodian == detect_custodian_targets(placed, o, to)
           intervention == detect_intervention_targets(placed, o, to)
           lines == usable_mills(placed, o, formed_mills_at(placed, o, to, c))
           fromhand == place_mill_from_hand(placed, o, lines)
           counted == place_mill_counted(placed, o)
           onboard == place_mill_on_board(placed, o, lines, custodian, intervention)
           mill == IF o.mill_formation_action_in_placing_phase \in FromHandActions
                     THEN fromhand
                   ELSE IF o.mill_formation_action_in_placing_phase
                             = "RemovalBasedOnMillCounts"
                     THEN counted
                   ELSE onboard
           noted == note_mill_formation(mill, o, c, NONE, to, lines)
           captured == capture_only(placed, custodian, intervention)
           quiet == place_quietly(placed, o)
           PlacedFields == {"board", "pieces_in_hand", "pieces_on_board",
                            "ply_since_capture", "key_history"}
<1>1. apply_place(s, o, to) \in {noted, captured, quiet}
  BY DEF apply_place
<1>2. placed.phase = "Placing" /\ Alters(s, placed, PlacedFields)
  BY PlacedFresh
<1> HIDE DEF placed, custodian, intervention, lines
<1>3. DOMAIN placed = Fields /\ Unflagged(s, placed)
  <2>1. PlacedFields \intersect StalemateFlags = {}
    BY DEF StalemateFlags
  <2> QED BY <1>2, <2>1, AltersUnflagged DEF Alters
<1>4. "phase" \notin TurnFields /\ TurnFields \intersect StalemateFlags = {}
  BY DEF TurnFields, CaptureState, Notes, StalemateFlags
<1>5. Decides(placed, onboard, o) /\ Decides(placed, captured, o)
  BY <1>2, <1>3, <1>4, OnBoardAlters, CaptureOnlyAlters, StillPlacing
<1>6. Decides(placed, fromhand, o) /\ Decides(placed, counted, o)
  BY <1>2, <1>3, FromHandDecides, CountedDecides
<1>7. Decides(placed, quiet, o)
  BY <1>3, QuietPlaceDecides
<1> HIDE DEF captured, quiet, fromhand, counted, onboard
<1>8. Decides(placed, mill, o)
  BY <1>5, <1>6
<1> HIDE DEF mill
<1>9. Decides(placed, noted, o)
  <2>1. DOMAIN mill = Fields
    BY <1>8 DEF Decides, Unflagged, Alters
  <2>2. Alters(mill, noted, {"last_mill_from", "last_mill_to", "formed_mills"})
    BY <2>1 DEF Alters, Fields, note_mill_formation
  <2>3. {"last_mill_from", "last_mill_to", "formed_mills"} \intersect
          ({"board", "marked", "phase", "pending_removals"} \union StalemateFlags) = {}
    BY DEF StalemateFlags
  <2> HIDE DEF noted
  <2> QED BY <1>8, <2>2, <2>3, StillDecides
<1> HIDE DEF noted
<1>10. \A t \in {noted, captured, quiet} : Decides(s, t, o)
  BY <1>3, <1>5, <1>7, <1>9, UnflaggedTwice DEF Decides
<1> QED BY <1>1, <1>10

LEMMA FastPlacedDecides ==
  ASSUME NEW s, Fresh(s), s.phase = "Placing", NEW o, NEW to \in Nodes
  PROVE  Decides(s, fast_placed(s, o, to), o)
<1> DEFINE c == s.side_to_move
           placed == place_live_piece(s, to)
           lines == IF s.pieces_on_board[c] >= 2
                      THEN formed_mills_at(placed, o, to, c) ELSE {}
           owing == [owe(placed, removal_count(lines, o))
                       EXCEPT !.mill_available_at_removal = TRUE]
           synced == sync_action_state(owing)
           noted == note_mill_formation(synced, o, c, NONE, to, lines)
           passed == [placed EXCEPT !.side_to_move = Opp(c)]
           G == {"pending_removals", "mill_available_at_removal", "action",
                 "last_mill_from", "last_mill_to", "formed_mills"}
           PlacedFields == {"board", "pieces_in_hand", "pieces_on_board",
                            "ply_since_capture", "key_history"}
<1>1. fast_placed(s, o, to) \in {noted, settle(passed, o)}
  BY DEF fast_placed
<1>2. placed.phase = "Placing" /\ Alters(s, placed, PlacedFields)
  BY PlacedFresh
<1> HIDE DEF placed, lines
<1>3. DOMAIN placed = Fields /\ Unflagged(s, placed)
  <2>1. PlacedFields \intersect StalemateFlags = {}
    BY DEF StalemateFlags
  <2> QED BY <1>2, <2>1, AltersUnflagged DEF Alters
<1>4. Decides(placed, noted, o)
  <2>1. Alters(placed, owing, {"pending_removals", "mill_available_at_removal"})
    BY <1>3 DEF Alters, Fields, owe
  <2> HIDE DEF owing
  <2>2. Alters(owing, synced, {"action"})
    <3>1. DOMAIN owing = Fields
      BY <2>1 DEF Alters
    <3> QED BY <3>1, StepAlters
  <2> HIDE DEF synced
  <2>3. Alters(synced, noted, {"last_mill_from", "last_mill_to", "formed_mills"})
    BY <2>2 DEF Alters, Fields, note_mill_formation
  <2> HIDE DEF noted
  <2>4. Alters(placed, noted, G)
    BY <2>1, <2>2, <2>3 DEF Alters
  <2>5. "phase" \notin G /\ G \intersect StalemateFlags = {}
    BY DEF StalemateFlags
  <2> HIDE DEF G
  <2> QED BY <1>2, <2>4, <2>5, StillPlacing
<1>5. Decides(placed, settle(passed, o), o)
  <2>1. Unflagged(placed, passed)
    BY <1>3, StepsUnflagged
  <2> HIDE DEF passed
  <2> QED BY <2>1, SettleAfter
<1> HIDE DEF noted, passed
<1>6. Decides(s, noted, o) /\ Decides(s, settle(passed, o), o)
  BY <1>3, <1>4, <1>5, UnflaggedTwice DEF Decides
<1> QED BY <1>1, <1>6

(* A step that leaves the board with an empty point.                       *)
BoardAndFlags == {"board", "marked"} \union StalemateFlags

LEMMA RoomLeft ==
  ASSUME NEW s, empty_squares(s) # {}, NEW t, NEW F, Alters(s, t, F),
         F \intersect BoardAndFlags = {}, NEW o
  PROVE  Decides(s, t, o)
<1>1. t.board = s.board /\ t.marked = s.marked
  BY DEF Alters, Fields, BoardAndFlags
<1>2. empty_squares(t) # {}
  BY <1>1 DEF empty_squares, board_occupied
<1>3. Unflagged(s, t)
  BY AltersUnflagged DEF BoardAndFlags
<1> QED BY <1>2, <1>3 DEF Decides, Undecided, board_is_full

QuietFields == CaptureState \union
  {"last_mill_from", "last_mill_to", "side_to_move", "key_history", "phase",
   "winner", "outcome_reason", "action"}

LEMMA QuietMoveAlters ==
  ASSUME NEW s, DOMAIN s = Fields, NEW o
  PROVE  Alters(s, move_quietly(s, o, TRUE), QuietFields)
<1> DEFINE c == s.side_to_move
           cleared == clear_capture_state(s)
           passed == [cleared EXCEPT !.last_mill_from[c] = NONE,
                        !.last_mill_to[c] = NONE, !.side_to_move = Opp(c)]
           pushed == push_key(passed, o)
           seen == push_key_and_check_threefold(passed, o)
           judged == maybe_draw_by_n_move_rule(seen, o)
           phased == sync_phase_with_active_hand(judged)
           t == sync_action_state(phased)
           Over == {"phase", "winner", "outcome_reason", "side_to_move"}
<1>1. Alters(s, cleared, CaptureState)
  BY StepAlters
<1>2. move_quietly(s, o, TRUE) = t
  BY DEF move_quietly
<1> HIDE DEF cleared
<1>3. Alters(cleared, passed, {"last_mill_from", "last_mill_to", "side_to_move"})
  BY <1>1 DEF Alters, Fields
<1> HIDE DEF passed
<1>4. Alters(passed, pushed, {"key_history"})
  BY <1>3 DEF Alters, Fields, push_key
<1>5. seen = pushed \/ \E w, x : seen = game_over(pushed, w, x)
  BY DEF push_key_and_check_threefold
<1> HIDE DEF pushed, seen
<1>6. \A u : DOMAIN u = Fields => Alters(u, u, Over) /\ \A w, x : Alters(u, game_over(u, w, x), Over)
  BY DEF Alters, Fields, game_over
<1>7. Alters(pushed, seen, Over)
  <2>1. DOMAIN pushed = Fields
    BY <1>4 DEF Alters
  <2> HIDE DEF Over
  <2> QED BY <1>5, <1>6, <2>1
<1>8. Alters(seen, judged, Over)
  <2>1. DOMAIN seen = Fields
    BY <1>7 DEF Alters
  <2>2. judged = seen \/ \E w, x : judged = game_over(seen, w, x)
    BY DEF maybe_draw_by_n_move_rule
  <2> HIDE DEF Over, judged
  <2> QED BY <1>6, <2>1, <2>2
<1> HIDE DEF judged
<1>9. Alters(judged, phased, {"phase"})
  BY <1>8 DEF Alters, Fields, sync_phase_with_active_hand
<1> HIDE DEF phased
<1>10. Alters(phased, t, {"action"})
  <2>1. DOMAIN phased = Fields
    BY <1>9 DEF Alters
  <2> QED BY <2>1, StepAlters
<1> HIDE DEF t
<1>11. Alters(s, t, QuietFields)
  BY <1>1, <1>3, <1>4, <1>7, <1>8, <1>9, <1>10 DEF Alters, QuietFields
<1> QED BY <1>2, <1>11

LEMMA MoveDecides ==
  ASSUME NEW s, Fresh(s), NEW o \in MillVariantOptions,
         NEW from \in Nodes, NEW to \in Nodes,
         from \in piece_bitboard(s, s.side_to_move), to \in empty_squares(s)
  PROVE  Decides(s, apply_move(s, o, from, to, TRUE), o)
<1> DEFINE c == s.side_to_move
           moved == bump_ply_since_capture(move_live_piece(s, from, to), o)
           t == apply_move(s, o, from, to, TRUE)
<1>1. from \in Nodes /\ to \in Nodes /\ c \in Sides
  BY DEF Fresh, Live
<1>2. /\ Fresh(moved) /\ Alters(s, moved, {"board", "ply_since_capture"})
      /\ moved.board = [s.board EXCEPT ![from] = NONE, ![to] = c]
  <2>1. /\ Fresh(moved) /\ moved.phase = s.phase /\ moved.side_to_move = c
        /\ Alters(s, moved, {"board", "ply_since_capture"})
        /\ moved.board = [s.board EXCEPT ![from] = NONE, ![to] = c]
        /\ moved.ply_since_capture =
             IF MoveCounting(s, o) THEN s.ply_since_capture + 1
                                   ELSE s.ply_since_capture
    BY SMTT(60), MovedFresh
  <2> HIDE DEF moved
  <2> QED BY <2>1
<1>3. t = move_quietly(moved, o, TRUE) \/ Alters(moved, t, TurnFields)
  BY MoveAlters
<1> HIDE DEF moved, t
<1>4. empty_squares(moved) # {}
  <2>1. from # to /\ from \notin s.marked
    <3>1. c # NONE
      BY <1>1 DEF Sides, NONE
    <3>2. from \notin s.marked /\ s.board[from] = c
      BY <1>1, <3>1 DEF piece_bitboard, live_piece
    <3>3. from \in board_occupied(s) /\ to \notin board_occupied(s)
      BY <1>1, <3>1, <3>2 DEF empty_squares, board_occupied
    <3> QED BY <3>2, <3>3
  <2>2. s.board \in [Nodes -> Sides \union {NONE}]
    BY DEF Fresh, Live, MillStates
  <2>3. moved.board[from] = NONE /\ moved.marked = s.marked
    BY <1>1, <1>2, <2>1, <2>2 DEF Alters, Fields
  <2>4. from \in empty_squares(moved)
    BY <1>1, <2>1, <2>3 DEF empty_squares, board_occupied
  <2> QED BY <2>4
<1>5. Decides(moved, t, o)
  <2>1. DOMAIN moved = Fields
    BY <1>2 DEF Alters
  <2>2. /\ TurnFields \intersect BoardAndFlags = {}
        /\ QuietFields \intersect BoardAndFlags = {}
    BY DEF TurnFields, QuietFields, CaptureState, Notes, BoardAndFlags, StalemateFlags
  <2>3. CASE Alters(moved, t, TurnFields)
    BY <1>4, <2>2, <2>3, RoomLeft
  <2>4. CASE t = move_quietly(moved, o, TRUE)
    <3>1. Alters(moved, t, QuietFields)
      BY <2>1, <2>4, QuietMoveAlters
    <3> QED BY <1>4, <2>2, <3>1, RoomLeft
  <2> QED BY <1>3, <2>3, <2>4
<1>6. Unflagged(s, moved)
  BY <1>2, AltersUnflagged DEF StalemateFlags
<1>7. Decides(s, t, o)
  BY <1>5, <1>6, UnflaggedTwice DEF Decides
<1> QED BY <1>7 DEF t

(* At most one kind of stalemate removal is under way.                     *)
OneFlag(s) == ~(s.stalemate_removing /\ s.both_stalemate_removing)

LEMMA UnflaggedOne ==
  ASSUME NEW s, NEW t, Unflagged(s, t), OneFlag(s)
  PROVE  OneFlag(t)
BY DEF Unflagged, Alters, StalemateFlags, Fields, OneFlag

LEMMA RemovalUnflagged ==
  ASSUME NEW s, Live(s), Owes(s), NEW o, NEW n \in Nodes, NEW target \in Sides,
         n \in piece_bitboard(s, target), s.pieces_on_board[target] > 0
  PROVE  LET w == consume_target(take_piece(choose_obligation(s, o, n), o, n, target),
                                 o, n)
         IN Unflagged(s, w) /\ w \in MillStates /\ w.side_to_move = s.side_to_move
<1> DEFINE owing == choose_obligation(s, o, n)
           less == take_piece(owing, o, n, target)
           w == consume_target(less, o, n)
<1>1. s \in MillStates /\ s.side_to_move \in Sides
  BY DEF Live
<1>2. /\ Alters(s, owing, CaptureState \union {"pending_removals"})
      /\ owing \in MillStates /\ owing.side_to_move = s.side_to_move
      /\ owing.pending_removals[s.side_to_move] > 0
  BY ObligationEffect
<1> HIDE DEF owing
<1>3. owing.board = s.board /\ owing.marked = s.marked /\ owing.pieces_on_board = s.pieces_on_board
  BY <1>2 DEF Alters, Fields, CaptureState
<1>4. n \in piece_bitboard(owing, target) /\ owing.pieces_on_board[target] > 0
  BY <1>3, SameBitboards
<1>5. Live(owing) /\ Owes(owing)
  BY <1>1, <1>2 DEF Live, Owes
<1>6. /\ less \in MillStates /\ less.side_to_move = owing.side_to_move
      /\ Alters(owing, less, {"board", "marked", "pieces_on_board", "pending_removals",
                              "ply_since_capture", "key_history"})
  <2> DEFINE e == owing.side_to_move
  <2>1. /\ less \in MillStates /\ less.side_to_move = e /\ less.phase = owing.phase
        /\ Alters(owing, less, {"board", "marked", "pieces_on_board", "pending_removals",
                                "ply_since_capture", "key_history"})
        /\ less.pending_removals = [owing.pending_removals EXCEPT ![e] = @ - 1]
        /\ owing.phase = "Moving" => less.marked = owing.marked
        /\ Taken(owing, less, n, target)
    BY <1>4, <1>5, TakeEffect
  <2> HIDE DEF less
  <2> QED BY <2>1
<1> HIDE DEF less
<1>7. /\ w \in MillStates /\ w.side_to_move = less.side_to_move
      /\ Alters(less, w, CaptureState \ {"mill_available_at_removal"})
  <2>1. Live(less)
    BY <1>1, <1>2, <1>6 DEF Live
  <2> QED BY <2>1, ConsumeEffect
<1> HIDE DEF w
<1>8. Unflagged(s, w)
  BY <1>2, <1>6, <1>7 DEF Unflagged, Alters, StalemateFlags, CaptureState
<1>9. w.side_to_move = s.side_to_move
  BY <1>2, <1>6, <1>7
<1> QED BY <1>7, <1>8, <1>9 DEF w, less, owing

LEMMA FinishDecides ==
  ASSUME NEW s, Live(s), NEW o, NEW own
  PROVE  LET t == finish_removal(s, o, own) IN ~Undecided(t, o) /\ OneFlag(t)
<1> DEFINE c == s.side_to_move
           paid == clear_capture_state_for_side(s, c)
           own_left == IF own THEN FALSE ELSE paid.remove_own_piece[c]
           side == IF s.stalemate_removing THEN paid.side_to_move
                   ELSE Opp(paid.side_to_move)
           both == paid.both_stalemate_removing /\ s.pending_removals # Both(0)
           full == paid.board_full_removing /\ s.pending_removals # Both(0)
           kept == [paid EXCEPT !.remove_own_piece[c] = own_left]
           passed == [kept EXCEPT !.stalemate_removing = FALSE, !.side_to_move = side,
                        !.both_stalemate_removing = both, !.board_full_removing = full]
           t == settle(passed, o)
<1>1. DOMAIN s = Fields
  BY FieldsOfState DEF Live
<1>2. DOMAIN paid = Fields
  BY <1>1 DEF clear_capture_state_for_side
<1>3. finish_removal(s, o, own) = t
  BY DEF finish_removal
<1> HIDE DEF paid, own_left
<1>4. DOMAIN kept = Fields
  BY <1>2
<1> HIDE DEF kept, side, both, full
<1>5. DOMAIN passed = Fields
  BY <1>4
<1>6. passed.stalemate_removing = FALSE
  BY <1>4 DEF Fields
<1> HIDE DEF passed
<1>7. Unflagged(passed, t) /\ ~Undecided(t, o)
  BY <1>5, SettleDecides
<1> HIDE DEF t
<1>8. OneFlag(t)
  BY <1>6, <1>7, UnflaggedOne DEF OneFlag
<1> QED BY <1>3, <1>7, <1>8

LEMMA RemoveDecides ==
  ASSUME NEW s, Live(s), Owes(s), OneFlag(s), NEW o, NEW n \in Nodes,
         NEW target \in Sides,
         target = IF s.remove_own_piece[s.side_to_move]
                    THEN s.side_to_move ELSE Opp(s.side_to_move),
         n \in piece_bitboard(s, target), s.pieces_on_board[target] > 0
  PROVE  LET t == apply_remove(s, o, n) IN ~Undecided(t, o) /\ OneFlag(t)
<1> DEFINE c == s.side_to_move
           own == s.remove_own_piece[c]
           w == consume_target(take_piece(choose_obligation(s, o, n), o, n, target), o, n)
           over == game_over(w, Opp(target), "LoseFewerThanThree")
           t == apply_remove(s, o, n)
<1>1. \/ t = over
      \/ t = finish_removal(w, o, own)
      \/ t = w /\ w.pending_removals[c] # 0
  BY DEF apply_remove
<1>2. Unflagged(s, w) /\ w \in MillStates /\ w.side_to_move = c /\ c \in Sides
  BY RemovalUnflagged DEF Live
<1> HIDE DEF t, w
<1>3. OneFlag(w) /\ DOMAIN w = Fields
  BY <1>2, UnflaggedOne DEF Unflagged, Alters
<1>4. CASE t = over
  <2>1. Unflagged(w, over) /\ over.phase = "GameOver"
    BY <1>3, StepsUnflagged DEF game_over, Fields
  <2> HIDE DEF over
  <2> QED BY <1>3, <1>4, <2>1, UnflaggedOne DEF Undecided, t
<1>5. CASE t = finish_removal(w, o, own)
  BY <1>2, <1>5, FinishDecides DEF Live, t
<1>6. CASE t = w /\ w.pending_removals[c] # 0
  <2>1. w.pending_removals[c] > 0
    BY <1>2, <1>6, HandsAreNatural
  <2> QED BY <1>2, <1>3, <1>6, <2>1 DEF Undecided, t
<1> QED BY <1>1, <1>4, <1>5, <1>6

-----------------------------------------------------------------------------
(* Every action leaves a calm position *)

(* Nothing is left to find for somebody who meets the position: a full     *)
(* board is decided and the side to move is not blocked, unless a blocked  *)
(* side just passes the turn on: the source looks at one side per action.  *)
Calm(s, o) ==
  s.phase # "GameOver" =>
    /\ ~Undecided(s, o) /\ OneFlag(s)
    /\ o.stalemate_action # "ChangeSideToMove" => ~is_stalemate(s, o)

LEMMA TailCalm ==
  ASSUME NEW t, Coherent(t), Sound(t), NEW o \in MillVariantOptions,
         ~Undecided(t, o), OneFlag(t)
  PROVE  Calm(maybe_handle_stalemate(t, o), o)
<1> DEFINE c == t.side_to_move
           r == resolve_stalemate(t, o)
           u == sync_action_state(r)
           owing == [t EXCEPT !.pending_removals[c] = 1]
<1>1. CASE ~is_stalemate(t, o)
  BY <1>1 DEF maybe_handle_stalemate, Calm
<1>2. CASE is_stalemate(t, o)
  <2>1. Live(t) /\ Clean(t) /\ DOMAIN t = Fields
    BY <1>2, StalemateClean, FieldsOfState DEF Sound, Live
  <2>2. maybe_handle_stalemate(t, o) = u
    BY <1>2 DEF maybe_handle_stalemate
  <2>3. c \in Sides /\ Opp(c) \in Sides /\ t.pending_removals \in [Sides -> Nat]
    BY <2>1, OppIsSide DEF Live, MillStates
  <2>4. \/ r.phase = "GameOver"
        \/ /\ o.stalemate_action = "ChangeSideToMove"
           /\ Alters(t, r, {"side_to_move", "phase"})
        \/ r.pending_removals[c] = 1 /\ r.side_to_move = c /\ OneFlag(r)
    <3> DEFINE passed == [t EXCEPT !.side_to_move = Opp(c)]
               one == [owing EXCEPT !.stalemate_removing = TRUE]
               two == [owing EXCEPT !.pending_removals[Opp(c)] = 1,
                                    !.both_stalemate_removing = TRUE]
    <3>1. \/ r = [t EXCEPT !.phase = "GameOver", !.winner = Opp(c),
                      !.outcome_reason = "LoseNoLegalMoves"]
          \/ r = [t EXCEPT !.phase = "GameOver", !.winner = DRAW,
                      !.outcome_reason = "DrawStalemate"]
          \/ /\ o.stalemate_action = "ChangeSideToMove"
             /\ r = sync_phase_with_active_hand(passed)
          \/ \E x \in {owing, one, two} : r = clear_capture_state(x)
      BY DEF resolve_stalemate
    <3>2. /\ DOMAIN owing = Fields /\ owing.pending_removals[c] = 1
          /\ owing.side_to_move = c /\ OneFlag(owing)
          /\ ~owing.stalemate_removing /\ ~owing.both_stalemate_removing
          /\ owing.pending_removals \in [Sides -> Nat]
      BY <2>1, <2>3 DEF Fields, OneFlag, Clean
    <3> HIDE DEF r, owing
    <3>3. Opp(c) # c
      BY <2>3, OppIsSide
    <3>4. \A x \in {owing, one, two} :
            /\ DOMAIN x = Fields /\ x.pending_removals[c] = 1
            /\ x.side_to_move = c /\ OneFlag(x)
      <4>1. /\ DOMAIN one = Fields /\ one.pending_removals[c] = 1
            /\ one.side_to_move = c /\ OneFlag(one)
        BY <3>2 DEF Fields, OneFlag
      <4>2. /\ DOMAIN two = Fields /\ two.pending_removals[c] = 1
            /\ two.side_to_move = c
        BY <3>2, <3>3 DEF Fields
      <4>3. OneFlag(two)
        BY <3>2 DEF Fields, OneFlag
      <4> HIDE DEF one, two
      <4> QED BY <3>2, <4>1, <4>2, <4>3
    <3> HIDE DEF one, two
    <3>5. ASSUME NEW x \in {owing, one, two}, r = clear_capture_state(x)
          PROVE  r.pending_removals[c] = 1 /\ r.side_to_move = c /\ OneFlag(r)
      <4>1. DOMAIN x = Fields
        BY <3>4
      <4>2. /\ r.pending_removals = x.pending_removals /\ r.side_to_move = x.side_to_move
            /\ r.stalemate_removing = x.stalemate_removing
            /\ r.both_stalemate_removing = x.both_stalemate_removing
        BY <3>5, <4>1 DEF clear_capture_state, Fields
      <4> QED BY <3>4, <4>2 DEF OneFlag
    <3>6. \A w, y : [t EXCEPT !.phase = "GameOver", !.winner = w,
                      !.outcome_reason = y].phase = "GameOver"
      BY <2>1 DEF Fields
    <3>7. r = sync_phase_with_active_hand(passed) => Alters(t, r, {"side_to_move", "phase"})
      BY <2>1 DEF sync_phase_with_active_hand, Alters, Fields
    <3> HIDE DEF passed
    <3> QED BY <3>1, <3>5, <3>6, <3>7
  <2>5. Unflagged(r, u) /\ Alters(r, u, {"action"})
    <3>1. DOMAIN r = Fields
      BY <1>2, StalemateTyped, FieldsOfState
    <3> HIDE DEF r
    <3> QED BY <3>1, StepsUnflagged, StepAlters
  <2> HIDE DEF r
  <2>6. /\ u.phase = r.phase /\ u.side_to_move = r.side_to_move
        /\ u.pending_removals = r.pending_removals
        /\ u.board = r.board /\ u.marked = r.marked
    BY <2>5 DEF Alters, Fields
  <2> HIDE DEF u
  <2>7. CASE r.phase = "GameOver"
    BY <2>2, <2>6, <2>7 DEF Calm
  <2>8. CASE r.pending_removals[c] = 1 /\ r.side_to_move = c /\ OneFlag(r)
    BY <2>2, <2>3, <2>5, <2>6, <2>8, UnflaggedOne DEF Calm, Undecided, is_stalemate
  <2>9. CASE /\ o.stalemate_action = "ChangeSideToMove"
             /\ Alters(t, r, {"side_to_move", "phase"})
    <3>1. Unflagged(t, r)
      BY <2>9, AltersUnflagged DEF StalemateFlags
    <3>2. OneFlag(u)
      BY <2>5, <3>1, UnflaggedOne
    <3>3. /\ u.board = t.board /\ u.marked = t.marked
          /\ u.pending_removals = t.pending_removals /\ t.phase = "Moving"
      BY <1>2, <2>6, <2>9 DEF Alters, Fields, is_stalemate
    <3>4. ~Undecided(u, o)
      BY <3>3 DEF Undecided, board_is_full, empty_squares, board_occupied
    <3> QED BY <2>2, <2>9, <3>2, <3>4 DEF Calm
  <2> QED BY <2>4, <2>7, <2>8, <2>9
<1> QED BY <1>1, <1>2

LEMMA ActionCalm ==
  ASSUME NEW s, NEW o \in MillVariantOptions, Good(s, o), Calm(s, o),
         NEW a \in legal_actions(s, o)
  PROVE  Calm(apply_to_state(s, o, a, TRUE), o)
<1> DEFINE c == s.side_to_move
           u == apply_to_state(s, o, a, TRUE)
<1>1. /\ Live(s) /\ s.phase # "GameOver" /\ a.to \in Nodes
      /\ a.kind \in {"Place", "Move", "Remove"}
      /\ a.kind = "Move" => a.from \in Nodes
  BY LegalActionTyped DEF Good
<1>2. OneFlag(s) /\ Sound(s) /\ Coherent(s) /\ Counted(s, o)
  BY <1>1 DEF Calm, Good
<1>3. ASSUME NEW t, Coherent(t), Sound(t), Decides(s, t, o)
      PROVE  Calm(maybe_handle_stalemate(t, o), o)
  BY <1>2, <1>3, UnflaggedOne, TailCalm DEF Decides
<1>4. CASE a.kind = "Place"
  <2> DEFINE done == fast_placed(s, o, a.to)
             t == apply_place(s, o, a.to)
  <2>1. Fresh(s) /\ s.phase = "Placing"
    BY <1>2, <1>4, LegalPlace
  <2>2. u = fast_place(s, o, a.to) \/ u = maybe_handle_stalemate(t, o)
    BY <1>4 DEF apply_to_state, apply_generally
  <2>3. fast_place(s, o, a.to) = maybe_handle_stalemate(done, o)
    BY DEF fast_place, maybe_handle_stalemate, is_stalemate
  <2>4. Coherent(t) /\ Sound(t) /\ Decides(s, t, o)
    BY <1>1, <2>1, PlaceCoherent, PlaceSound, PlaceDecides
  <2>5. Coherent(done) /\ Sound(done) /\ Decides(s, done, o)
    BY <1>1, <2>1, FastPlacedSound, FastPlacedDecides
  <2> HIDE DEF u, done, t
  <2> QED BY <1>3, <2>2, <2>3, <2>4, <2>5 DEF u
<1>5. CASE a.kind = "Move"
  <2> DEFINE t == apply_move(s, o, a.from, a.to, TRUE)
  <2>1. /\ Fresh(s)
        /\ s.pieces_in_hand = Both(0) => s.phase = "Moving"
        /\ a.from \in piece_bitboard(s, c) /\ a.to \in empty_squares(s)
    BY <1>2, <1>5, LegalMove
  <2>2. u = maybe_handle_stalemate(t, o)
    BY <1>5 DEF apply_to_state, apply_generally
  <2>3. a.from \in Nodes /\ a.to \in Nodes /\ Live(s)
    BY <1>1, <1>5
  <2>4. Coherent(t)
    BY <2>3, MoveCoherent
  <2>5. Sound(t)
    BY <2>1, <2>3, MoveSound
  <2>6. Decides(s, t, o)
    <3> DEFINE from == a.from
               to == a.to
    <3>1. /\ from \in Nodes /\ to \in Nodes /\ Fresh(s)
          /\ from \in piece_bitboard(s, s.side_to_move) /\ to \in empty_squares(s)
      BY <2>1, <2>3
    <3> HIDE DEF from, to
    <3>2. Decides(s, apply_move(s, o, from, to, TRUE), o)
      BY <3>1, MoveDecides
    <3> QED BY <3>2 DEF from, to
  <2> HIDE DEF u, t
  <2> QED BY <1>3, <2>2, <2>4, <2>5, <2>6 DEF u
<1>6. CASE a.kind = "Remove"
  <2> DEFINE target == IF s.remove_own_piece[c] THEN c ELSE Opp(c)
             t == apply_remove(s, o, a.to)
  <2>1. /\ s.action = "Remove" /\ Owes(s)
        /\ target \in Sides /\ a.to \in piece_bitboard(s, target)
    BY <1>2, <1>6, LegalRemove
  <2>2. s.pieces_on_board[target] > 0
    BY <1>2, <2>1, PieceIsCounted
  <2>3. u = maybe_handle_stalemate(t, o)
    BY <1>6 DEF apply_to_state, apply_generally
  <2>4. Coherent(t) /\ Sound(t)
    BY <1>1, <1>2, <2>1, <2>2, RemoveCoherent, RemoveSound
  <2>5. ~Undecided(t, o) /\ OneFlag(t)
    BY <1>1, <1>2, <2>1, <2>2, RemoveDecides
  <2> HIDE DEF u, t
  <2> QED BY <2>3, <2>4, <2>5, TailCalm DEF u
<1> QED BY <1>1, <1>4, <1>5, <1>6

LEMMA InitialCalm ==
  ASSUME NEW o \in MillVariantOptions
  PROVE  Calm(initial_state(o), o)
BY DEF Calm, initial_state, Undecided, OneFlag, is_stalemate

CalmInv == ResultInv /\ Calm(state, options)

THEOREM CalmInvariant == Spec => []CalmInv
<1>1. Init => Calm(state, options)
  BY InitialCalm, VariantsAssumption DEF Init
<1>2. ResultInv /\ Calm(state, options) /\ [Next]_vars => Calm(state, options)'
  <2> SUFFICES ASSUME ResultInv, Calm(state, options), [Next]_vars
               PROVE  Calm(state, options)'
    OBVIOUS
  <2>1. options \in MillVariantOptions /\ Good(state, options)
    BY VariantsAssumption DEF ResultInv, GameInv
  <2>2. CASE UNCHANGED vars
    BY <2>2 DEF vars
  <2>3. CASE Next
    <3>1. PICK kind : Apply(kind)
      BY <2>3 DEF Next, Place, Move, Remove
    <3>2. PICK a \in {x \in legal_actions(state, options) : x.kind = kind} :
            state' = apply_to_state(state, options, a, TRUE)
      BY <3>1 DEF Apply
    <3>3. options' = options /\ a \in legal_actions(state, options)
      BY <3>1, <3>2 DEF Apply
    <3>4. Calm(apply_to_state(state, options, a, TRUE), options)
      BY <2>1, <3>3, ActionCalm
    <3> QED BY <3>2, <3>3, <3>4
  <2> QED BY <2>2, <2>3
<1> QED BY <1>1, <1>2, ResultInvariant, PTL DEF Spec, CalmInv
=============================================================================
