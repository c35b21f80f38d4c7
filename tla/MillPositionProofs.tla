------------------------- MODULE MillPositionProofs -------------------------
(***************************************************************************)
(* Positions away from the game, for every board and every set of          *)
(* variants: what a search tries on its one mutable position it can take   *)
(* back (MillWorkbench), the shortcuts it takes lead where the rules lead  *)
(* (the fast paths of MillRules), and a FEN brings back the position it    *)
(* was written of (MillFen).                                               *)
(***************************************************************************)
EXTENDS MillWorkbench, MillFen, MillResultProofs

-----------------------------------------------------------------------------
(* What a record is enough for *)

(* t can be taken back to r by the record made of r before action a: off   *)
(* the cells it keeps the board is that of r unless it keeps the whole     *)
(* board, what a standard record leaves out is as in r, and the repetition *)
(* keys are those of r or were dropped by an action that saves them.       *)
Undoable(r, o, a, t) ==
  /\ DOMAIN t = Fields /\ DOMAIN t.board = Nodes
  /\ ~requires_full_board_snapshot(r, o) =>
       /\ t.marked = {}
       /\ \A n \in Nodes \ {a.from, a.to} : t.board[n] = r.board[n]
  /\ is_standard_undo(r, o) =>
       /\ \A f \in CaptureFields : t[f] = Both({})
       /\ t.formed_mills = r.formed_mills
  /\ t.key_history = r.key_history \/ (a.kind # "Move" /\ t.key_history = << >>)

LEMMA UndoableRoot ==
  ASSUME NEW r \in MillStates, NEW o, NEW a
  PROVE  Undoable(r, o, a, r)
<1>1. DOMAIN r = Fields /\ DOMAIN r.board = Nodes
  BY FieldsOfState DEF MillStates
<1> QED
  BY <1>1 DEF Undoable, requires_full_board_snapshot, is_standard_undo

(* A standard record is made where no capture rule is on.                  *)
LEMMA StandardHasNoCaptures ==
  ASSUME NEW o, standard_fast_path_enabled(o)
  PROVE  /\ \A s, to : detect_custodian_targets(s, o, to) = {}
         /\ \A s, to : detect_intervention_targets(s, o, to) = {}
         /\ \A s, from, to : detect_leap_targets(s, o, from, to) = {}
<1>1. /\ \A s : ~capture_phase_allowed(o.custodian_capture, s)
      /\ \A s : ~capture_phase_allowed(o.intervention_capture, s)
      /\ \A s : ~capture_phase_allowed(o.leap_capture, s)
  BY DEF standard_fast_path_enabled, capture_phase_allowed
<1> QED BY <1>1 DEF detect_custodian_targets, detect_intervention_targets,
                    detect_leap_targets

(* A step that leaves board, marks and keys alone, and what a standard     *)
(* record leaves out as well.                                              *)
LEMMA StepUndoable ==
  ASSUME NEW r, NEW o, NEW a, NEW t, Undoable(r, o, a, t),
         NEW u, DOMAIN u = Fields, u.board = t.board, u.marked = t.marked,
         u.key_history = t.key_history,
         is_standard_undo(r, o) =>
           /\ \A f \in CaptureFields : u[f] = Both({})
           /\ u.formed_mills = t.formed_mills
  PROVE  Undoable(r, o, a, u)
BY DEF Undoable

(* The fields that every record holds.                                     *)
Recorded == Fields \ ({"board", "marked", "formed_mills", "key_history"}
                        \union CaptureFields)

LEMMA RecordedUndoable ==
  ASSUME NEW r, NEW o, NEW a, NEW t, Undoable(r, o, a, t),
         NEW u, NEW F, Alters(t, u, F), F \subseteq Recorded
  PROVE  Undoable(r, o, a, u)
<1>1. /\ DOMAIN u = Fields
      /\ \A f \in {"board", "marked", "formed_mills", "key_history"}
                    \union CaptureFields : u[f] = t[f]
  BY DEF Alters, Recorded, Fields, CaptureFields
<1>2. /\ u.board = t.board /\ u.marked = t.marked
      /\ u.formed_mills = t.formed_mills /\ u.key_history = t.key_history
      /\ \A f \in CaptureFields : u[f] = t[f]
  BY <1>1
<1>3. is_standard_undo(r, o) => \A f \in CaptureFields : t[f] = Both({})
  BY DEF Undoable
<1> QED BY <1>1, <1>2, <1>3, StepUndoable

-----------------------------------------------------------------------------
(* What the helpers touch *)

LEMMA SmallSteps ==
  ASSUME NEW r, NEW o, NEW a, NEW t, Undoable(r, o, a, t)
  PROVE  /\ Undoable(r, o, a, sync_action_state(t))
         /\ Undoable(r, o, a, sync_phase_with_active_hand(t))
         /\ \A n : Undoable(r, o, a, owe(t, n))
         /\ \A b : Undoable(r, o, a, [t EXCEPT !.mill_available_at_removal = b])
         /\ \A b : Undoable(r, o, a, [t EXCEPT !.stalemate_removing = b])
         /\ \A c : Undoable(r, o, a, [t EXCEPT !.side_to_move = c])
         /\ \A f : Undoable(r, o, a, [t EXCEPT !.pieces_in_hand = f])
         /\ \A w, x : Undoable(r, o, a, game_over(t, w, x))
         /\ Undoable(r, o, a, bump_ply_since_capture(t, o))
<1>1. DOMAIN t = Fields
  BY DEF Undoable
<1>2. /\ Alters(t, sync_action_state(t), {"action"})
      /\ Alters(t, sync_phase_with_active_hand(t), {"phase"})
      /\ \A n : Alters(t, owe(t, n), {"pending_removals"})
      /\ \A b : Alters(t, [t EXCEPT !.mill_available_at_removal = b],
                       {"mill_available_at_removal"})
      /\ \A b : Alters(t, [t EXCEPT !.stalemate_removing = b], {"stalemate_removing"})
      /\ \A c : Alters(t, [t EXCEPT !.side_to_move = c], {"side_to_move"})
      /\ \A f : Alters(t, [t EXCEPT !.pieces_in_hand = f], {"pieces_in_hand"})
      /\ \A w, x : Alters(t, game_over(t, w, x),
                          {"phase", "winner", "outcome_reason", "side_to_move"})
      /\ Alters(t, bump_ply_since_capture(t, o), {"ply_since_capture"})
  BY <1>1 DEF Alters, Fields, sync_action_state, sync_phase_with_active_hand, owe,
              game_over, bump_ply_since_capture
<1>3. /\ {"action"} \subseteq Recorded /\ {"phase"} \subseteq Recorded
      /\ {"pending_removals"} \subseteq Recorded
      /\ {"mill_available_at_removal"} \subseteq Recorded
      /\ {"stalemate_removing"} \subseteq Recorded
      /\ {"side_to_move"} \subseteq Recorded /\ {"pieces_in_hand"} \subseteq Recorded
      /\ {"phase", "winner", "outcome_reason", "side_to_move"} \subseteq Recorded
      /\ {"ply_since_capture"} \subseteq Recorded
  BY DEF Recorded, Fields, CaptureFields
<1>4. ASSUME NEW u, NEW F, Alters(t, u, F), F \subseteq Recorded
      PROVE  Undoable(r, o, a, u)
  BY <1>4, RecordedUndoable
<1>5. Undoable(r, o, a, sync_action_state(t))
  BY <1>2, <1>3, <1>4
<1>6. Undoable(r, o, a, sync_phase_with_active_hand(t))
  BY <1>2, <1>3, <1>4
<1>7. \A n : Undoable(r, o, a, owe(t, n))
  BY <1>2, <1>3, <1>4
<1>8. \A b : Undoable(r, o, a, [t EXCEPT !.mill_available_at_removal = b])
  BY <1>2, <1>3, <1>4
<1>9. \A b : Undoable(r, o, a, [t EXCEPT !.stalemate_removing = b])
  BY <1>2, <1>3, <1>4
<1>10. \A c : Undoable(r, o, a, [t EXCEPT !.side_to_move = c])
  BY <1>2, <1>3, <1>4
<1>11. \A f : Undoable(r, o, a, [t EXCEPT !.pieces_in_hand = f])
  BY <1>2, <1>3, <1>4
<1>12. \A w, x : Undoable(r, o, a, game_over(t, w, x))
  BY <1>2, <1>3, <1>4
<1>13. Undoable(r, o, a, bump_ply_since_capture(t, o))
  BY <1>2, <1>3, <1>4
<1> QED BY <1>5, <1>6, <1>7, <1>8, <1>9, <1>10, <1>11, <1>12, <1>13

LEMMA ClearUndoable ==
  ASSUME NEW r, NEW o, NEW a, NEW t, Undoable(r, o, a, t)
  PROVE  Undoable(r, o, a, clear_capture_state(t))
<1> DEFINE u == clear_capture_state(t)
<1>1. DOMAIN t = Fields
  BY DEF Undoable
<1>2. /\ DOMAIN u = Fields /\ u.board = t.board /\ u.marked = t.marked
      /\ u.key_history = t.key_history /\ u.formed_mills = t.formed_mills
      /\ \A f \in CaptureFields : u[f] = Both({})
  BY <1>1 DEF clear_capture_state, Fields, CaptureFields
<1> HIDE DEF u
<1>3. Undoable(r, o, a, u)
  BY <1>2, StepUndoable
<1> QED BY <1>3 DEF u

(* Taking targets from an entry that has none changes nothing.             *)
LEMMA StillNone ==
  \A c : [Both({}) EXCEPT ![c] = {}] = Both({})
BY DEF Both

LEMMA ActivateUndoable ==
  ASSUME NEW r, NEW o, NEW a, NEW t, Undoable(r, o, a, t),
         NEW custodian, NEW intervention, NEW leap,
         is_standard_undo(r, o) =>
           custodian = {} /\ intervention = {} /\ leap = {}
  PROVE  Undoable(r, o, a, activate_capture_state(t, custodian, intervention, leap))
<1> DEFINE c == t.side_to_move
           u == activate_capture_state(t, custodian, intervention, leap)
<1>1. DOMAIN t = Fields
  BY DEF Undoable
<1>2. /\ DOMAIN u = Fields /\ u.board = t.board /\ u.marked = t.marked
      /\ u.key_history = t.key_history /\ u.formed_mills = t.formed_mills
      /\ u.custodian_targets = [t.custodian_targets EXCEPT ![c] = custodian]
      /\ u.intervention_targets = [t.intervention_targets EXCEPT ![c] = intervention]
      /\ u.leap_targets = [t.leap_targets EXCEPT ![c] = leap]
  BY <1>1 DEF activate_capture_state, Fields
<1> HIDE DEF u
<1>3. is_standard_undo(r, o) => \A f \in CaptureFields : u[f] = Both({})
  <2>1. is_standard_undo(r, o) => /\ t.custodian_targets = Both({})
                                  /\ t.intervention_targets = Both({})
                                  /\ t.leap_targets = Both({})
    BY DEF Undoable, CaptureFields
  <2> QED BY <1>2, <2>1, StillNone, SMTT(30) DEF CaptureFields
<1>4. Undoable(r, o, a, u)
  BY <1>2, <1>3, StepUndoable
<1> QED BY <1>4 DEF u

LEMMA NoteUndoable ==
  ASSUME NEW r \in MillStates, NEW o, NEW a, NEW t, Undoable(r, o, a, t),
         NEW c, NEW from, NEW to, NEW lines
  PROVE  Undoable(r, o, a, note_mill_formation(t, o, c, from, to, lines))
<1> DEFINE u == note_mill_formation(t, o, c, from, to, lines)
<1>1. DOMAIN t = Fields
  BY DEF Undoable
<1>2. /\ DOMAIN u = Fields /\ u.board = t.board /\ u.marked = t.marked
      /\ u.key_history = t.key_history
      /\ \A f \in CaptureFields : u[f] = t[f]
      /\ u.formed_mills =
           [t.formed_mills EXCEPT ![c] = IF o.one_time_use_mill
              THEN t.formed_mills[c] \union UNION lines ELSE t.formed_mills[c]]
  BY <1>1 DEF note_mill_formation, Fields, CaptureFields
<1> HIDE DEF u
<1>3. is_standard_undo(r, o) => /\ \A f \in CaptureFields : u[f] = Both({})
                                /\ ~o.one_time_use_mill
  BY <1>2 DEF Undoable, is_standard_undo, standard_fast_path_enabled
<1>4. is_standard_undo(r, o) => t.formed_mills \in [Sides -> SUBSET Nodes]
  BY DEF Undoable, MillStates
<1>5. is_standard_undo(r, o) => u.formed_mills = t.formed_mills
  BY <1>2, <1>3, <1>4
<1>6. Undoable(r, o, a, u)
  BY <1>2, <1>3, <1>5, StepUndoable
<1> QED BY <1>6 DEF u

LEMMA CountsUndoable ==
  ASSUME NEW r, NEW o, NEW a, NEW t, Undoable(r, o, a, t)
  PROVE  Undoable(r, o, a, apply_removal_based_on_mill_counts(t, o))
<1> DEFINE m == [c \in Sides |-> total_mills_count(t, o, c)]
           Owed(c) ==
             IF m[0] = 0 /\ m[1] = 0 THEN 1
             ELSE IF m[Opp(c)] = 0 THEN 2
             ELSE IF m[c] = 0 THEN 1
             ELSE IF m[c] > m[Opp(c)] THEN m[Opp(c)] + 1 ELSE m[c]
           own == Both(m[0] = 0 /\ m[1] = 0)
           owed == [c \in Sides |-> Owed(c)]
<1>1. DOMAIN t = Fields
  BY DEF Undoable
<1>2. apply_removal_based_on_mill_counts(t, o) =
        [t EXCEPT !.remove_own_piece = own, !.pending_removals = owed,
                  !.mill_available_at_removal = TRUE]
  BY DEF apply_removal_based_on_mill_counts
<1> HIDE DEF own, owed
<1>3. Alters(t, [t EXCEPT !.remove_own_piece = own, !.pending_removals = owed,
                          !.mill_available_at_removal = TRUE], Counting)
  BY <1>1 DEF Alters, Fields, Counting
<1>4. Alters(t, apply_removal_based_on_mill_counts(t, o), Counting)
  BY <1>2, <1>3
<1>5. Counting \subseteq Recorded
  BY DEF Counting, Recorded, Fields, CaptureFields
<1> QED BY <1>4, <1>5, RecordedUndoable

(* Sweeping the marked pieces away touches cells that no action names; it  *)
(* happens only where the whole board is kept.                             *)
LEMMA EnterMovingUndoable ==
  ASSUME NEW r, NEW o, NEW a, NEW t, Undoable(r, o, a, t)
  PROVE  Undoable(r, o, a, enter_moving_phase(t, o))
<1> DEFINE swept == sweep_marked([t EXCEPT !.phase = "Moving"])
           counted == IF o.mill_formation_action_in_placing_phase
                           = "RemovalBasedOnMillCounts"
                        THEN apply_removal_based_on_mill_counts(swept, o) ELSE swept
           side == IF o.is_defender_move_first THEN 1
                   ELSE IF KeepsSideAtPlacingEnd(o) THEN counted.side_to_move ELSE 0
<1>1. Undoable(r, o, a, swept)
  <2>1. DOMAIN t = Fields
    BY DEF Undoable
  <2>2. /\ DOMAIN swept = Fields /\ swept.marked = {}
        /\ swept.key_history = t.key_history
        /\ swept.formed_mills = t.formed_mills
        /\ \A f \in CaptureFields : swept[f] = t[f]
        /\ swept.board = [n \in Nodes |-> IF n \in t.marked THEN NONE ELSE t.board[n]]
    BY <2>1 DEF sweep_marked, Fields, CaptureFields
  <2> HIDE DEF swept
  <2>3. DOMAIN swept.board = Nodes
    BY <2>2
  <2>4. t.marked = {} => \A n \in Nodes : swept.board[n] = t.board[n]
    BY <2>2
  <2> QED BY <2>2, <2>3, <2>4 DEF Undoable
<1> HIDE DEF swept
<1>2. Undoable(r, o, a, counted)
  BY <1>1, CountsUndoable
<1> HIDE DEF counted
<1>3. Undoable(r, o, a, [counted EXCEPT !.side_to_move = side])
  BY <1>2, SmallSteps
<1>4. enter_moving_phase(t, o) = [counted EXCEPT !.side_to_move = side]
  BY DEF enter_moving_phase, counted, swept
<1> QED BY <1>3, <1>4

LEMMA TransitionUndoable ==
  ASSUME NEW r, NEW o, NEW a, NEW t, Undoable(r, o, a, t)
  PROVE  Undoable(r, o, a, maybe_transition_to_moving(t, o))
<1> DEFINE placed == IF t.phase = "Placing" /\ t.pieces_in_hand = Both(0)
                       THEN enter_moving_phase(t, o) ELSE t
           emptied == [placed EXCEPT !.pieces_in_hand = Both(0)]
<1>1. Undoable(r, o, a, placed)
  BY EnterMovingUndoable
<1> HIDE DEF placed
<1>2. Undoable(r, o, a, emptied)
  BY <1>1, SmallSteps
<1> HIDE DEF emptied
<1>3. Undoable(r, o, a, enter_moving_phase(emptied, o))
  BY <1>2, EnterMovingUndoable
<1>4. \/ maybe_transition_to_moving(t, o) = enter_moving_phase(emptied, o)
      \/ maybe_transition_to_moving(t, o) = placed
  BY DEF maybe_transition_to_moving, placed, emptied
<1> QED BY <1>1, <1>3, <1>4

LEMMA FullBoardUndoable ==
  ASSUME NEW r, NEW o, NEW a, NEW t, Undoable(r, o, a, t)
  PROVE  Undoable(r, o, a, maybe_finish_full_board(t, o))
<1> DEFINE Removals == {"pending_removals", "side_to_move", "board_full_removing"}
<1>1. DOMAIN t = Fields
  BY DEF Undoable
<1>2. \A owed, first : Alters(t, board_full_removals(t, owed, first), Removals)
  BY <1>1 DEF Alters, Fields, board_full_removals
<1>3. Removals \subseteq Recorded
  BY DEF Recorded, Fields, CaptureFields
<1>4. /\ \A owed, first : Undoable(r, o, a, board_full_removals(t, owed, first))
      /\ \A w, x : Undoable(r, o, a, game_over(t, w, x))
  BY <1>2, <1>3, RecordedUndoable, SmallSteps
<1>5. \/ maybe_finish_full_board(t, o) = t
      \/ \E w, x : maybe_finish_full_board(t, o) = game_over(t, w, x)
      \/ \E owed, first :
           maybe_finish_full_board(t, o) = board_full_removals(t, owed, first)
  BY DEF maybe_finish_full_board
<1> QED BY <1>4, <1>5

LEMMA SettleUndoable ==
  ASSUME NEW r, NEW o, NEW a, NEW t, Undoable(r, o, a, t)
  PROVE  Undoable(r, o, a, settle(t, o))
<1> DEFINE moved == maybe_transition_to_moving(t, o)
           phased == sync_phase_with_active_hand(moved)
           finished == maybe_finish_full_board(phased, o)
<1>1. Undoable(r, o, a, moved)
  BY TransitionUndoable
<1> HIDE DEF moved
<1>2. Undoable(r, o, a, phased)
  BY <1>1, SmallSteps
<1> HIDE DEF phased
<1>3. Undoable(r, o, a, finished)
  BY <1>2, FullBoardUndoable
<1> HIDE DEF finished
<1>4. Undoable(r, o, a, sync_action_state(finished))
  BY <1>3, SmallSteps
<1> QED BY <1>4 DEF settle, finished, phased, moved

LEMMA StalemateUndoable ==
  ASSUME NEW r, NEW o, NEW a, NEW t, Undoable(r, o, a, t)
  PROVE  Undoable(r, o, a, maybe_handle_stalemate(t, o))
<1> DEFINE c == t.side_to_move
           owing == [t EXCEPT !.pending_removals[c] = 1]
           over(w, x) == [t EXCEPT !.phase = "GameOver", !.winner = w,
                                   !.outcome_reason = x]
           first == [owing EXCEPT !.stalemate_removing = TRUE]
           both == [owing EXCEPT !.pending_removals[Opp(c)] = 1,
                                 !.both_stalemate_removing = TRUE]
           passed == [t EXCEPT !.side_to_move = Opp(c)]
           u == resolve_stalemate(t, o)
<1>1. DOMAIN t = Fields
  BY DEF Undoable
<1>2. Undoable(r, o, a, owing)
  BY SmallSteps DEF owe
<1>3. \A w, x : Undoable(r, o, a, over(w, x))
  <2>1. \A w, x : Alters(t, over(w, x), {"phase", "winner", "outcome_reason"})
    BY <1>1 DEF Alters, Fields
  <2>2. {"phase", "winner", "outcome_reason"} \subseteq Recorded
    BY DEF Recorded, Fields, CaptureFields
  <2> HIDE DEF over
  <2> QED BY <2>1, <2>2, RecordedUndoable
<1>4. Undoable(r, o, a, first) /\ Undoable(r, o, a, both)
  <2>1. DOMAIN owing = Fields
    BY <1>1
  <2> HIDE DEF owing
  <2>2. /\ Alters(owing, first, {"stalemate_removing"})
        /\ Alters(owing, both, {"pending_removals", "both_stalemate_removing"})
    BY <2>1 DEF Alters, Fields
  <2>3. /\ {"stalemate_removing"} \subseteq Recorded
        /\ {"pending_removals", "both_stalemate_removing"} \subseteq Recorded
    BY DEF Recorded, Fields, CaptureFields
  <2> HIDE DEF first, both
  <2> QED BY <1>2, <2>2, <2>3, RecordedUndoable
<1>5. Undoable(r, o, a, sync_phase_with_active_hand(passed))
  <2>1. Undoable(r, o, a, passed)
    BY SmallSteps
  <2> HIDE DEF passed
  <2> QED BY <2>1, SmallSteps
<1>6. \/ \E w, x : u = over(w, x)
      \/ u = sync_phase_with_active_hand(passed)
      \/ u = clear_capture_state(owing)
      \/ u = clear_capture_state(first)
      \/ u = clear_capture_state(both)
  BY ZenonT(60) DEF resolve_stalemate
<1> HIDE DEF owing, over, first, both, passed, u
<1>7. Undoable(r, o, a, u)
  BY <1>2, <1>3, <1>4, <1>5, <1>6, ClearUndoable
<1>8. Undoable(r, o, a, sync_action_state(u))
  BY <1>7, SmallSteps
<1> QED BY <1>8 DEF maybe_handle_stalemate, u

-----------------------------------------------------------------------------
(* What the actions touch *)

LEMMA PlacedUndoable ==
  ASSUME NEW r, NEW o, NEW a, NEW t, Undoable(r, o, a, t), a.kind = "Place"
  PROVE  Undoable(r, o, a, place_live_piece(t, a.to))
<1> DEFINE u == place_live_piece(t, a.to)
<1>1. DOMAIN t = Fields /\ DOMAIN t.board = Nodes
  BY DEF Undoable
<1>2. /\ DOMAIN u = Fields /\ u.marked = t.marked /\ u.key_history = << >>
      /\ u.formed_mills = t.formed_mills
      /\ \A f \in CaptureFields : u[f] = t[f]
      /\ u.board = [t.board EXCEPT ![a.to] = t.side_to_move]
  BY <1>1 DEF place_live_piece, clear_key_history, Fields, CaptureFields
<1> HIDE DEF u
<1>3. /\ DOMAIN u.board = Nodes
      /\ \A n \in Nodes \ {a.from, a.to} : u.board[n] = t.board[n]
  BY <1>1, <1>2
<1>4. a.kind # "Move"
  OBVIOUS
<1>5. Undoable(r, o, a, u)
  BY <1>2, <1>3, <1>4 DEF Undoable
<1> QED BY <1>5 DEF u

LEMMA CaptureOnlyUndoable ==
  ASSUME NEW r, NEW o, NEW a, NEW t, Undoable(r, o, a, t),
         NEW custodian, NEW intervention,
         is_standard_undo(r, o) => custodian = {} /\ intervention = {}
  PROVE  Undoable(r, o, a, capture_only(t, custodian, intervention))
<1> DEFINE active == activate_capture_state(t, custodian, intervention, {})
           owing == owe(active, capture_total(active))
           unavailable == [owing EXCEPT !.mill_available_at_removal = FALSE]
<1>1. Undoable(r, o, a, active)
  BY ActivateUndoable
<1> HIDE DEF active
<1>2. Undoable(r, o, a, owing)
  BY <1>1, SmallSteps
<1> HIDE DEF owing
<1>3. Undoable(r, o, a, unavailable)
  BY <1>2, SmallSteps
<1> HIDE DEF unavailable
<1>4. Undoable(r, o, a, sync_action_state(unavailable))
  BY <1>3, SmallSteps
<1> QED BY <1>4 DEF capture_only, unavailable, owing, active

(* A mill that has been paid for with a removal still to come, with other  *)
(* captures on top of it or without.                                       *)
LEMMA MillOwedUndoable ==
  ASSUME NEW r, NEW o, NEW a, NEW t, Undoable(r, o, a, t), NEW earned,
         NEW custodian, NEW intervention,
         is_standard_undo(r, o) => custodian = {} /\ intervention = {}
  PROVE  Undoable(r, o, a, activate_capture_state(
           [owe(t, earned) EXCEPT !.mill_available_at_removal = TRUE],
           custodian, intervention, {}))
<1> DEFINE owed == owe(t, earned)
           owing == [owed EXCEPT !.mill_available_at_removal = TRUE]
<1>1. Undoable(r, o, a, owed)
  BY SmallSteps
<1> HIDE DEF owed
<1>2. Undoable(r, o, a, owing)
  BY <1>1, SmallSteps
<1> HIDE DEF owing
<1>3. Undoable(r, o, a, activate_capture_state(owing, custodian, intervention, {}))
  BY <1>2, ActivateUndoable
<1> QED BY <1>3 DEF owing, owed

LEMMA OnBoardUndoable ==
  ASSUME NEW r, NEW o, NEW a, NEW t, Undoable(r, o, a, t), NEW lines,
         NEW custodian, NEW intervention,
         is_standard_undo(r, o) => custodian = {} /\ intervention = {}
  PROVE  Undoable(r, o, a, place_mill_on_board(t, o, lines, custodian, intervention))
<1> DEFINE earned == removal_count(lines, o)
           active == activate_capture_state(
                       [owe(t, earned) EXCEPT !.mill_available_at_removal = TRUE],
                       custodian, intervention, {})
           u == IF o.may_remove_multiple
                  THEN owe(active, earned + capture_total(active)) ELSE active
<1>1. Undoable(r, o, a, active)
  BY MillOwedUndoable
<1> HIDE DEF active
<1>2. Undoable(r, o, a, u)
  BY <1>1, SmallSteps
<1> HIDE DEF u
<1>3. Undoable(r, o, a, sync_action_state(u))
  BY <1>2, SmallSteps
<1> QED BY <1>3 DEF place_mill_on_board, u, active

LEMMA FromHandUndoable ==
  ASSUME NEW r, NEW o, NEW a, NEW t, Undoable(r, o, a, t), NEW lines
  PROVE  Undoable(r, o, a, place_mill_from_hand(t, o, lines))
<1> DEFINE c == t.side_to_move
           earned == removal_count(lines, o)
           taken == hand_removed(earned, t.pieces_in_hand[Opp(c)])
           drawn == [t EXCEPT !.pieces_in_hand[Opp(c)] = @ - taken]
           next == IF o.mill_formation_action_in_placing_phase
                        = "RemoveOpponentsPieceFromHandThenOpponentsTurn"
                     THEN Opp(c) ELSE c
           owing == owe(drawn, earned - taken)
           passed == [drawn EXCEPT !.side_to_move = next]
           u == IF earned > taken THEN sync_action_state(owing) ELSE settle(passed, o)
<1>1. Undoable(r, o, a, drawn)
  BY SmallSteps
<1> HIDE DEF drawn
<1>2. Undoable(r, o, a, owing) /\ Undoable(r, o, a, passed)
  BY <1>1, SmallSteps
<1> HIDE DEF owing, passed
<1>3. Undoable(r, o, a, u)
  BY <1>2, SmallSteps, SettleUndoable
<1> HIDE DEF u
<1>4. Undoable(r, o, a, clear_capture_state(u))
  BY <1>3, ClearUndoable
<1> QED BY <1>4 DEF place_mill_from_hand, u, passed, owing, drawn

LEMMA CountedUndoable ==
  ASSUME NEW r, NEW o, NEW a, NEW t, Undoable(r, o, a, t)
  PROVE  Undoable(r, o, a, place_mill_counted(t, o))
<1> DEFINE cleared == clear_capture_state(t)
           passed == [cleared EXCEPT !.side_to_move = Opp(@)]
           u == IF t.pieces_in_hand = Both(0)
                  THEN apply_removal_based_on_mill_counts(cleared, o) ELSE passed
<1>1. Undoable(r, o, a, cleared)
  BY ClearUndoable
<1> HIDE DEF cleared
<1>2. Undoable(r, o, a, passed)
  BY <1>1, SmallSteps
<1> HIDE DEF passed
<1>3. Undoable(r, o, a, u)
  BY <1>1, <1>2, CountsUndoable
<1> HIDE DEF u
<1>4. Undoable(r, o, a, settle(u, o))
  BY <1>3, SettleUndoable
<1> QED BY <1>4 DEF place_mill_counted, u, passed, cleared

LEMMA QuietPlaceUndoable ==
  ASSUME NEW r, NEW o, NEW a, NEW t, Undoable(r, o, a, t)
  PROVE  Undoable(r, o, a, place_quietly(t, o))
<1> DEFINE cleared == clear_capture_state(t)
           stopped == maybe_stop_placing_when_two_empty(cleared, o)
           passed == [stopped EXCEPT !.side_to_move = Opp(@)]
<1>1. Undoable(r, o, a, cleared)
  BY ClearUndoable
<1> HIDE DEF cleared
<1>2. Undoable(r, o, a, stopped)
  BY <1>1, SmallSteps DEF maybe_stop_placing_when_two_empty
<1> HIDE DEF stopped
<1>3. Undoable(r, o, a, passed)
  BY <1>2, SmallSteps
<1> HIDE DEF passed
<1>4. Undoable(r, o, a, settle(stopped, o)) /\ Undoable(r, o, a, settle(passed, o))
  BY <1>2, <1>3, SettleUndoable
<1>5. \/ place_quietly(t, o) = settle(stopped, o)
      \/ place_quietly(t, o) = settle(passed, o)
  BY DEF place_quietly, passed, stopped, cleared
<1> QED BY <1>4, <1>5

LEMMA PlaceUndoable ==
  ASSUME NEW r \in MillStates, NEW o, NEW a, a.kind = "Place"
  PROVE  Undoable(r, o, a, apply_place(r, o, a.to))
<1> DEFINE c == r.side_to_move
           placed == place_live_piece(r, a.to)
           custodian == detect_custodian_targets(placed, o, a.to)
           intervention == detect_intervention_targets(placed, o, a.to)
           lines == usable_mills(placed, o, formed_mills_at(placed, o, a.to, c))
           mill == IF o.mill_formation_action_in_placing_phase \in FromHandActions
                     THEN place_mill_from_hand(placed, o, lines)
                   ELSE IF o.mill_formation_action_in_placing_phase
                             = "RemovalBasedOnMillCounts"
                     THEN place_mill_counted(placed, o)
                   ELSE place_mill_on_board(placed, o, lines, custodian, intervention)
<1>1. Undoable(r, o, a, placed)
  BY UndoableRoot, PlacedUndoable
<1>2. is_standard_undo(r, o) => custodian = {} /\ intervention = {}
  BY StandardHasNoCaptures DEF is_standard_undo
<1> HIDE DEF placed, custodian, intervention, lines
<1>3. Undoable(r, o, a, mill)
  BY <1>1, <1>2, FromHandUndoable, CountedUndoable, OnBoardUndoable
<1> HIDE DEF mill
<1>4. Undoable(r, o, a, note_mill_formation(mill, o, c, NONE, a.to, lines))
  BY <1>3, NoteUndoable
<1>5. Undoable(r, o, a, capture_only(placed, custodian, intervention))
  BY <1>1, <1>2, CaptureOnlyUndoable
<1>6. Undoable(r, o, a, place_quietly(placed, o))
  BY <1>1, QuietPlaceUndoable
<1>7. \/ apply_place(r, o, a.to) = note_mill_formation(mill, o, c, NONE, a.to, lines)
      \/ apply_place(r, o, a.to) = capture_only(placed, custodian, intervention)
      \/ apply_place(r, o, a.to) = place_quietly(placed, o)
  BY DEF apply_place, mill, lines, intervention, custodian, placed
<1> QED BY <1>4, <1>5, <1>6, <1>7

LEMMA MovedUndoable ==
  ASSUME NEW r, NEW o, NEW a, NEW t, Undoable(r, o, a, t)
  PROVE  Undoable(r, o, a,
           bump_ply_since_capture(move_live_piece(t, a.from, a.to), o))
<1> DEFINE u == move_live_piece(t, a.from, a.to)
<1>1. DOMAIN t = Fields /\ DOMAIN t.board = Nodes
  BY DEF Undoable
<1>2. /\ DOMAIN u = Fields /\ u.marked = t.marked /\ u.key_history = t.key_history
      /\ u.formed_mills = t.formed_mills
      /\ \A f \in CaptureFields : u[f] = t[f]
      /\ u.board = [t.board EXCEPT ![a.from] = NONE, ![a.to] = t.side_to_move]
  BY <1>1 DEF move_live_piece, Fields, CaptureFields
<1> HIDE DEF u
<1>3. /\ DOMAIN u.board = Nodes
      /\ \A n \in Nodes \ {a.from, a.to} : u.board[n] = t.board[n]
  BY <1>1, <1>2
<1>4. Undoable(r, o, a, u)
  BY <1>2, <1>3 DEF Undoable
<1> QED BY <1>4, SmallSteps DEF u

LEMMA ForgetUndoable ==
  ASSUME NEW r, NEW o, NEW a, NEW t, Undoable(r, o, a, t), NEW c, NEW d
  PROVE  Undoable(r, o, a, [t EXCEPT !.last_mill_from[c] = NONE,
                              !.last_mill_to[c] = NONE, !.side_to_move = d])
<1> DEFINE u == [t EXCEPT !.last_mill_from[c] = NONE,
                   !.last_mill_to[c] = NONE, !.side_to_move = d]
           Forgotten == {"last_mill_from", "last_mill_to", "side_to_move"}
<1>1. DOMAIN t = Fields
  BY DEF Undoable
<1>2. Alters(t, u, Forgotten)
  BY <1>1 DEF Alters, Fields
<1>3. Forgotten \subseteq Recorded
  BY DEF Recorded, Fields, CaptureFields
<1> HIDE DEF u, Forgotten
<1>4. Undoable(r, o, a, u)
  BY <1>2, <1>3, RecordedUndoable
<1> QED BY <1>4 DEF u

LEMMA QuietMoveUndoable ==
  ASSUME NEW r, NEW o, NEW a, NEW t, Undoable(r, o, a, t)
  PROVE  Undoable(r, o, a, move_quietly(t, o, FALSE))
<1> DEFINE c == t.side_to_move
           cleared == clear_capture_state(t)
           passed == [cleared EXCEPT !.last_mill_from[c] = NONE,
                        !.last_mill_to[c] = NONE, !.side_to_move = Opp(c)]
           phased == sync_phase_with_active_hand(passed)
<1>1. Undoable(r, o, a, cleared)
  BY ClearUndoable
<1> HIDE DEF cleared
<1>2. Undoable(r, o, a, passed)
  BY <1>1, ForgetUndoable
<1> HIDE DEF passed
<1>3. Undoable(r, o, a, phased)
  BY <1>2, SmallSteps
<1> HIDE DEF phased
<1>4. Undoable(r, o, a, sync_action_state(phased))
  BY <1>3, SmallSteps
<1> QED BY <1>4 DEF move_quietly, phased, passed, cleared

LEMMA MoveUndoable ==
  ASSUME NEW r \in MillStates, NEW o, NEW a
  PROVE  Undoable(r, o, a, apply_move(r, o, a.from, a.to, FALSE))
<1> DEFINE c == r.side_to_move
           moved == bump_ply_since_capture(move_live_piece(r, a.from, a.to), o)
           custodian == IF o.custodian_capture.in_moving_phase
                          THEN detect_custodian_targets(moved, o, a.to) ELSE {}
           intervention == IF o.intervention_capture.in_moving_phase
                             THEN detect_intervention_targets(moved, o, a.to) ELSE {}
           leap == IF o.leap_capture.in_moving_phase
                     THEN detect_leap_targets(moved, o, a.from, a.to) ELSE {}
           lines == usable_mills(moved, o, formed_mills_at(moved, o, a.to, c))
           leapt == activate_capture_state(moved, {}, {}, leap)
           owing == owe(leapt, 1)
           unavailable == [owing EXCEPT !.mill_available_at_removal = FALSE]
           active == activate_capture_state(
                       [owe(moved, removal_count(lines, o))
                          EXCEPT !.mill_available_at_removal = TRUE],
                       custodian, intervention, {})
           noted == note_mill_formation(active, o, c, a.from, a.to, lines)
<1>1. Undoable(r, o, a, moved)
  BY UndoableRoot, MovedUndoable
<1>2. is_standard_undo(r, o) => custodian = {} /\ intervention = {} /\ leap = {}
  BY StandardHasNoCaptures DEF is_standard_undo
<1> HIDE DEF moved, custodian, intervention, leap, lines
<1>3. Undoable(r, o, a, sync_action_state(unavailable))
  <2>1. Undoable(r, o, a, leapt)
    BY <1>1, <1>2, ActivateUndoable
  <2> HIDE DEF leapt
  <2>2. Undoable(r, o, a, owing)
    BY <2>1, SmallSteps
  <2> HIDE DEF owing
  <2>3. Undoable(r, o, a, unavailable)
    BY <2>2, SmallSteps
  <2> HIDE DEF unavailable
  <2> QED BY <2>3, SmallSteps
<1>4. Undoable(r, o, a, sync_action_state(noted))
  <2>1. Undoable(r, o, a, active)
    BY <1>1, <1>2, MillOwedUndoable
  <2> HIDE DEF active
  <2>2. Undoable(r, o, a, noted)
    BY <2>1, NoteUndoable
  <2> HIDE DEF noted
  <2> QED BY <2>2, SmallSteps
<1>5. Undoable(r, o, a, capture_only(moved, custodian, intervention))
  BY <1>1, <1>2, CaptureOnlyUndoable
<1>6. Undoable(r, o, a, move_quietly(moved, o, FALSE))
  BY <1>1, QuietMoveUndoable
<1>7. LET t == apply_move(r, o, a.from, a.to, FALSE)
      IN \/ t = sync_action_state(unavailable)
         \/ t = sync_action_state(noted)
         \/ t = capture_only(moved, custodian, intervention)
         \/ t = move_quietly(moved, o, FALSE)
  BY DEF apply_move, noted, active, unavailable, owing, leapt, lines, leap,
         intervention, custodian, moved
<1> HIDE DEF unavailable, noted
<1> QED BY <1>3, <1>4, <1>5, <1>6, <1>7

(* Choosing an obligation and taking a target from it touch targets only,  *)
(* of which a standard record has none.                                    *)
LEMMA ObligationUndoable ==
  ASSUME NEW r, NEW o, NEW a, NEW t, Undoable(r, o, a, t),
         t.side_to_move \in Sides, NEW n
  PROVE  Undoable(r, o, a, choose_obligation(t, o, n))
<1> DEFINE c == t.side_to_move
           total == capture_total(t)
           none == [t EXCEPT !.mill_available_at_removal = FALSE,
                      !.custodian_targets[c] = {}, !.intervention_targets[c] = {},
                      !.leap_targets[c] = {}]
           lesser == IF o.may_remove_multiple /\ t.pending_removals[c] > total
                       THEN t.pending_removals[c] - total ELSE t.pending_removals[c]
           custodian(k, x) == [owe(none, k) EXCEPT !.custodian_targets[c] = x]
           intervention(k, x) == [owe(none, k) EXCEPT !.intervention_targets[c] = x]
           leap(k, x) == [owe(none, k) EXCEPT !.leap_targets[c] = x]
           u == choose_obligation(t, o, n)
<1>1. DOMAIN t = Fields
  BY DEF Undoable
<1>2. is_standard_undo(r, o) => /\ t.custodian_targets = Both({})
                                /\ t.intervention_targets = Both({})
                                /\ t.leap_targets = Both({})
  BY DEF Undoable, CaptureFields
<1>3. /\ DOMAIN none = Fields /\ none.board = t.board /\ none.marked = t.marked
      /\ none.key_history = t.key_history /\ none.formed_mills = t.formed_mills
      /\ none.custodian_targets = [t.custodian_targets EXCEPT ![c] = {}]
      /\ none.intervention_targets = [t.intervention_targets EXCEPT ![c] = {}]
      /\ none.leap_targets = [t.leap_targets EXCEPT ![c] = {}]
  BY <1>1 DEF Fields
<1>4. Undoable(r, o, a, none)
  <2> HIDE DEF none
  <2>1. is_standard_undo(r, o) => \A f \in CaptureFields : none[f] = Both({})
    BY <1>2, <1>3, StillNone DEF CaptureFields
  <2> QED BY <1>3, <2>1, StepUndoable
<1> HIDE DEF none
<1>5. \A k : /\ Undoable(r, o, a, owe(none, k))
             /\ DOMAIN owe(none, k) = Fields
  <2>1. \A k : Undoable(r, o, a, owe(none, k))
    BY <1>4, SmallSteps
  <2> QED BY <2>1 DEF Undoable
<1>6. ~is_standard_undo(r, o) =>
        \A k, x : /\ Undoable(r, o, a, custodian(k, x))
                  /\ Undoable(r, o, a, intervention(k, x))
                  /\ Undoable(r, o, a, leap(k, x))
  <2> SUFFICES ASSUME ~is_standard_undo(r, o), NEW k, NEW x
               PROVE  /\ Undoable(r, o, a, custodian(k, x))
                      /\ Undoable(r, o, a, intervention(k, x))
                      /\ Undoable(r, o, a, leap(k, x))
    OBVIOUS
  <2> DEFINE w == owe(none, k)
             u1 == [w EXCEPT !.custodian_targets[c] = x]
             u2 == [w EXCEPT !.intervention_targets[c] = x]
             u3 == [w EXCEPT !.leap_targets[c] = x]
  <2>1. Undoable(r, o, a, w) /\ DOMAIN w = Fields
    BY <1>5
  <2> HIDE DEF w
  <2>2. \A v \in {u1, u2, u3} :
          /\ DOMAIN v = Fields /\ v.board = w.board /\ v.marked = w.marked
          /\ v.key_history = w.key_history
    BY <2>1 DEF Fields
  <2> HIDE DEF u1, u2, u3
  <2>3. Undoable(r, o, a, u1) /\ Undoable(r, o, a, u2) /\ Undoable(r, o, a, u3)
    BY <2>1, <2>2, StepUndoable
  <2>4. custodian(k, x) = u1 /\ intervention(k, x) = u2 /\ leap(k, x) = u3
    BY DEF u1, u2, u3, w
  <2> QED BY <2>3, <2>4
<1>7. \A k : Undoable(r, o, a, [owe(none, k) EXCEPT !.mill_available_at_removal = TRUE])
  <2> TAKE k
  <2> DEFINE w == owe(none, k)
  <2>1. Undoable(r, o, a, w)
    BY <1>5
  <2> HIDE DEF w
  <2>2. Undoable(r, o, a, [w EXCEPT !.mill_available_at_removal = TRUE])
    BY <2>1, SmallSteps
  <2> QED BY <2>2 DEF w
<1>8. is_standard_undo(r, o) =>
        /\ n \notin t.intervention_targets[c] /\ n \notin t.custodian_targets[c]
        /\ n \notin t.leap_targets[c]
  BY <1>2 DEF Both
<1>9. \/ u = t
      \/ \E k : u = [owe(none, k) EXCEPT !.mill_available_at_removal = TRUE]
      \/ /\ ~is_standard_undo(r, o)
         /\ \E k, x : \/ u = custodian(k, x)
                      \/ u = intervention(k, x)
                      \/ u = leap(k, x)
  <2>1. CASE n \in t.intervention_targets[c]
    <3>1. u = [owe(none, Cardinality(t.intervention_targets[c]))
                 EXCEPT !.intervention_targets[c] = t.intervention_targets[c]]
      BY <2>1 DEF choose_obligation, none
    <3> QED BY <1>8, <2>1, <3>1
  <2>2. CASE n \notin t.intervention_targets[c] /\ n \in t.custodian_targets[c]
    <3>1. u = [owe(none, 1) EXCEPT !.custodian_targets[c] = t.custodian_targets[c]]
      BY <2>2 DEF choose_obligation, none
    <3> QED BY <1>8, <2>2, <3>1
  <2>3. CASE /\ n \notin t.intervention_targets[c] /\ n \notin t.custodian_targets[c]
             /\ n \in t.leap_targets[c]
    <3>1. u = [owe(none, 1) EXCEPT !.leap_targets[c] = t.leap_targets[c]]
      BY <2>3 DEF choose_obligation, none
    <3> QED BY <1>8, <2>3, <3>1
  <2>4. CASE /\ n \notin t.intervention_targets[c] /\ n \notin t.custodian_targets[c]
             /\ n \notin t.leap_targets[c]
    <3>1. \/ u = [owe(none, lesser) EXCEPT !.mill_available_at_removal = TRUE]
          \/ u = t
      BY <2>4 DEF choose_obligation, none
    <3> QED BY <3>1
  <2> QED BY <2>1, <2>2, <2>3, <2>4
<1> HIDE DEF u, custodian, intervention, leap
<1>10. Undoable(r, o, a, u)
  <2>1. CASE u = t
    BY <2>1
  <2>2. CASE \E k : u = [owe(none, k) EXCEPT !.mill_available_at_removal = TRUE]
    BY ONLY <2>2, <1>7
  <2>3. CASE /\ ~is_standard_undo(r, o)
             /\ \E k, x : \/ u = custodian(k, x)
                          \/ u = intervention(k, x)
                          \/ u = leap(k, x)
    BY ONLY <2>3, <1>6
  <2> QED BY <1>9, <2>1, <2>2, <2>3
<1> QED BY <1>10 DEF u

(* A marked piece stays on its cell, which the record then need not keep,  *)
(* but a record that keeps the whole board is made where pieces are marked.*)
LEMMA TakeUndoable ==
  ASSUME NEW r, NEW o, NEW a, NEW t, Undoable(r, o, a, t), a.kind # "Move",
         NEW target
  PROVE  Undoable(r, o, a, take_piece(t, o, a.to, target))
<1> DEFINE c == t.side_to_move
           u == take_piece(t, o, a.to, target)
<1>1. DOMAIN t = Fields /\ DOMAIN t.board = Nodes
  BY DEF Undoable
<1>2. /\ DOMAIN u = Fields /\ u.key_history = << >>
      /\ u.formed_mills = t.formed_mills
      /\ \A f \in CaptureFields : u[f] = t[f]
      /\ marks_removal(t, o) => u.board = t.board
      /\ ~marks_removal(t, o) =>
           u.marked = t.marked /\ u.board = [t.board EXCEPT ![a.to] = NONE]
  <2>1. CASE marks_removal(t, o)
    BY <1>1, <2>1 DEF take_piece, clear_key_history, Fields, CaptureFields
  <2>2. CASE ~marks_removal(t, o)
    BY <1>1, <2>2 DEF take_piece, clear_key_history, Fields, CaptureFields
  <2> QED BY <2>1, <2>2
<1> HIDE DEF u
<1>3. /\ DOMAIN u.board = Nodes
      /\ \A n \in Nodes \ {a.from, a.to} : u.board[n] = t.board[n]
  BY <1>1, <1>2
<1>4. marks_removal(t, o) => requires_full_board_snapshot(r, o)
  BY DEF marks_removal, requires_full_board_snapshot
<1>5. Undoable(r, o, a, u)
  BY <1>2, <1>3, <1>4 DEF Undoable
<1> QED BY <1>5 DEF u

LEMMA ConsumeUndoable ==
  ASSUME NEW r, NEW o, NEW a, NEW t, Undoable(r, o, a, t),
         t.side_to_move \in Sides, NEW n
  PROVE  Undoable(r, o, a, consume_target(t, o, n))
<1> DEFINE c == t.side_to_move
           pair == t.intervention_targets[c]
           custodian == IF n \in t.custodian_targets[c] THEN {} ELSE t.custodian_targets[c]
           leap == t.leap_targets[c] \ {n}
           intervention == IF n \notin pair THEN pair
                           ELSE IF pair = {n} THEN {}
                           ELSE find_paired_intervention_target(n, pair, o)
           u == [t EXCEPT !.custodian_targets[c] = custodian,
                          !.leap_targets[c] = leap,
                          !.intervention_targets[c] = intervention]
<1>1. DOMAIN t = Fields
  BY DEF Undoable
<1>2. consume_target(t, o, n) = u
  BY DEF consume_target
<1>3. is_standard_undo(r, o) =>
        /\ t.custodian_targets = Both({}) /\ t.intervention_targets = Both({})
        /\ t.leap_targets = Both({})
  BY DEF Undoable, CaptureFields
<1>4. is_standard_undo(r, o) => custodian = {} /\ leap = {} /\ intervention = {}
  BY <1>3, BothAt
<1> HIDE DEF custodian, leap, intervention
<1>5. /\ DOMAIN u = Fields /\ u.board = t.board /\ u.marked = t.marked
      /\ u.key_history = t.key_history /\ u.formed_mills = t.formed_mills
      /\ u.custodian_targets = [t.custodian_targets EXCEPT ![c] = custodian]
      /\ u.intervention_targets = [t.intervention_targets EXCEPT ![c] = intervention]
      /\ u.leap_targets = [t.leap_targets EXCEPT ![c] = leap]
  BY <1>1 DEF Fields
<1> HIDE DEF u
<1>6. is_standard_undo(r, o) => \A f \in CaptureFields : u[f] = Both({})
  BY <1>3, <1>4, <1>5, StillNone DEF CaptureFields
<1> QED BY <1>2, <1>5, <1>6, StepUndoable

LEMMA FinishUndoable ==
  ASSUME NEW r, NEW o, NEW a, NEW t, Undoable(r, o, a, t), NEW own
  PROVE  Undoable(r, o, a, finish_removal(t, o, own))
<1> DEFINE c == t.side_to_move
           paid == clear_capture_state_for_side(t, c)
           done == [paid EXCEPT
                      !.remove_own_piece[c] = IF own THEN FALSE ELSE @,
                      !.stalemate_removing = FALSE,
                      !.side_to_move = IF t.stalemate_removing THEN @ ELSE Opp(@),
                      !.both_stalemate_removing = @ /\ t.pending_removals # Both(0),
                      !.board_full_removing = @ /\ t.pending_removals # Both(0)]
           Finished == {"remove_own_piece", "stalemate_removing", "side_to_move",
                        "both_stalemate_removing", "board_full_removing"}
<1>1. DOMAIN t = Fields
  BY DEF Undoable
<1>2. Undoable(r, o, a, paid)
  <2>1. is_standard_undo(r, o) =>
          /\ t.custodian_targets = Both({}) /\ t.intervention_targets = Both({})
          /\ t.leap_targets = Both({})
    BY DEF Undoable, CaptureFields
  <2>2. /\ DOMAIN paid = Fields /\ paid.board = t.board /\ paid.marked = t.marked
        /\ paid.key_history = t.key_history /\ paid.formed_mills = t.formed_mills
        /\ paid.custodian_targets = [t.custodian_targets EXCEPT ![c] = {}]
        /\ paid.intervention_targets = [t.intervention_targets EXCEPT ![c] = {}]
        /\ paid.leap_targets = [t.leap_targets EXCEPT ![c] = {}]
    BY <1>1 DEF Fields, clear_capture_state_for_side
  <2> HIDE DEF paid
  <2>3. is_standard_undo(r, o) => \A f \in CaptureFields : paid[f] = Both({})
    BY <2>1, <2>2, StillNone DEF CaptureFields
  <2> QED BY <2>2, <2>3, StepUndoable
<1>3. DOMAIN paid = Fields
  BY <1>2 DEF Undoable
<1> HIDE DEF paid
<1>4. Alters(paid, done, Finished)
  BY <1>3 DEF Alters, Fields
<1>5. Finished \subseteq Recorded
  BY DEF Recorded, Fields, CaptureFields
<1> HIDE DEF done, Finished
<1>6. Undoable(r, o, a, done)
  BY <1>2, <1>4, <1>5, RecordedUndoable
<1>7. Undoable(r, o, a, settle(done, o))
  BY <1>6, SettleUndoable
<1> QED BY <1>7 DEF finish_removal, done, paid

LEMMA RemoveUndoable ==
  ASSUME NEW r, Live(r), r.action = "Remove", NEW o, NEW a, a.kind = "Remove",
         a.to \in Nodes
  PROVE  Undoable(r, o, a, apply_remove(r, o, a.to))
<1> DEFINE c == r.side_to_move
           own == r.remove_own_piece[c]
           target == IF own THEN c ELSE Opp(c)
           owing == choose_obligation(r, o, a.to)
           less == take_piece(owing, o, a.to, target)
           taken == consume_target(less, o, a.to)
<1>1. c \in Sides /\ target \in Sides
  BY OppIsSide DEF Live
<1> HIDE DEF target
<1>2. Undoable(r, o, a, owing) /\ Live(owing) /\ owing.side_to_move = c
  BY <1>1, UndoableRoot, ObligationUndoable, ObligationSameTurn DEF Live, SameTurn
<1> HIDE DEF owing
<1>3. Undoable(r, o, a, less) /\ Live(less) /\ less.side_to_move = c
  BY <1>1, <1>2, TakeUndoable, TakeSameTurn DEF Live, SameTurn
<1> HIDE DEF less
<1>4. Undoable(r, o, a, taken)
  BY <1>1, <1>3, ConsumeUndoable
<1> HIDE DEF taken
<1>5. /\ \A w, x : Undoable(r, o, a, game_over(taken, w, x))
      /\ Undoable(r, o, a, finish_removal(taken, o, own))
  BY <1>4, SmallSteps, FinishUndoable
<1>6. LET t == apply_remove(r, o, a.to)
      IN \/ t = game_over(taken, Opp(target), "LoseFewerThanThree")
         \/ t = finish_removal(taken, o, own) \/ t = taken
  BY DEF apply_remove, taken, less, owing, target
<1> QED BY <1>4, <1>5, <1>6

LEMMA FastPlaceUndoable ==
  ASSUME NEW r \in MillStates, NEW o, NEW a, a.kind = "Place"
  PROVE  Undoable(r, o, a, fast_place(r, o, a.to))
<1> DEFINE c == r.side_to_move
           placed == place_live_piece(r, a.to)
           lines == IF r.pieces_on_board[c] >= 2
                      THEN formed_mills_at(placed, o, a.to, c) ELSE {}
           owed == owe(placed, removal_count(lines, o))
           owing == [owed EXCEPT !.mill_available_at_removal = TRUE]
           milled == sync_action_state(owing)
           passed == [placed EXCEPT !.side_to_move = Opp(c)]
           done == fast_placed(r, o, a.to)
<1>1. Undoable(r, o, a, placed)
  BY UndoableRoot, PlacedUndoable
<1> HIDE DEF placed, lines
<1>2. Undoable(r, o, a, owed) /\ Undoable(r, o, a, passed)
  BY <1>1, SmallSteps
<1> HIDE DEF owed, passed
<1>3. Undoable(r, o, a, owing)
  BY <1>2, SmallSteps
<1> HIDE DEF owing
<1>4. Undoable(r, o, a, milled)
  BY <1>3, SmallSteps
<1> HIDE DEF milled
<1>5. /\ Undoable(r, o, a, note_mill_formation(milled, o, c, NONE, a.to, lines))
      /\ Undoable(r, o, a, settle(passed, o))
  BY <1>2, <1>4, NoteUndoable, SettleUndoable
<1>6. \/ done = note_mill_formation(milled, o, c, NONE, a.to, lines)
      \/ done = settle(passed, o)
  BY DEF fast_placed, milled, owing, owed, passed, lines, placed
<1> HIDE DEF done
<1>7. Undoable(r, o, a, done) /\ Undoable(r, o, a, maybe_handle_stalemate(done, o))
  BY <1>5, <1>6, StalemateUndoable
<1> QED BY <1>7 DEF fast_place, done

LEMMA FastMoveUndoable ==
  ASSUME NEW r \in MillStates, NEW o, NEW a
  PROVE  Undoable(r, o, a, fast_move(r, o, a.from, a.to))
<1> DEFINE c == r.side_to_move
           moved == bump_ply_since_capture(move_live_piece(r, a.from, a.to), o)
           passed == [moved EXCEPT !.last_mill_from[c] = NONE,
                        !.last_mill_to[c] = NONE, !.side_to_move = Opp(c)]
           phased == sync_phase_with_active_hand(passed)
           done == sync_action_state(phased)
<1>1. Undoable(r, o, a, moved)
  BY UndoableRoot, MovedUndoable
<1> HIDE DEF moved
<1>2. Undoable(r, o, a, passed)
  BY <1>1, ForgetUndoable
<1> HIDE DEF passed
<1>3. Undoable(r, o, a, phased)
  BY <1>2, SmallSteps
<1> HIDE DEF phased
<1>4. Undoable(r, o, a, done)
  BY <1>3, SmallSteps
<1> HIDE DEF done
<1>5. Undoable(r, o, a, maybe_handle_stalemate(done, o))
  BY <1>4, StalemateUndoable
<1> QED BY <1>5 DEF fast_move, done, phased, passed, moved

LEMMA FastRemoveUndoable ==
  ASSUME NEW r \in MillStates, NEW o, NEW a, a.kind = "Remove"
  PROVE  Undoable(r, o, a, fast_remove(r, o, a.to))
<1> DEFINE c == r.side_to_move
           them == Opp(c)
           taken == clear_key_history(
             [r EXCEPT !.board[a.to] = NONE, !.pieces_on_board[them] = @ - 1,
                       !.pending_removals[c] = 0, !.ply_since_capture = 0,
                       !.mill_available_at_removal = FALSE])
           passed == [taken EXCEPT !.side_to_move = them]
           done == IF has_too_few(taken, o, them)
                     THEN game_over(taken, c, "LoseFewerThanThree")
                     ELSE settle(passed, o)
<1>1. Undoable(r, o, a, r)
  BY UndoableRoot
<1>2. DOMAIN r = Fields /\ DOMAIN r.board = Nodes
  BY <1>1 DEF Undoable
<1>3. /\ DOMAIN taken = Fields /\ taken.key_history = << >>
      /\ taken.marked = r.marked /\ taken.formed_mills = r.formed_mills
      /\ \A f \in CaptureFields : taken[f] = r[f]
      /\ taken.board = [r.board EXCEPT ![a.to] = NONE]
  BY <1>2 DEF clear_key_history, Fields, CaptureFields
<1> HIDE DEF taken
<1>4. /\ DOMAIN taken.board = Nodes
      /\ \A n \in Nodes \ {a.from, a.to} : taken.board[n] = r.board[n]
  BY <1>2, <1>3
<1>5. a.kind # "Move"
  OBVIOUS
<1>6. Undoable(r, o, a, taken)
  BY <1>1, <1>3, <1>4, <1>5 DEF Undoable
<1>7. Undoable(r, o, a, passed)
  BY <1>6, SmallSteps
<1> HIDE DEF passed
<1>8. Undoable(r, o, a, done)
  BY <1>6, <1>7, SmallSteps, SettleUndoable
<1> HIDE DEF done
<1>9. Undoable(r, o, a, maybe_handle_stalemate(done, o))
  BY <1>8, StalemateUndoable
<1> QED BY <1>9 DEF fast_remove, done, passed, taken

(* Whatever path a legal action takes inside the search tree, the record   *)
(* made before it is enough to take it back.                               *)
LEMMA TriedUndoable ==
  ASSUME NEW s, Coherent(s), NEW o, NEW a \in legal_actions(s, o)
  PROVE  Undoable(s, o, a, apply_to_state(s, o, a, FALSE))
<1>1. /\ Live(s) /\ s \in MillStates /\ a.to \in Nodes
      /\ a.kind \in {"Place", "Move", "Remove"}
      /\ a.kind = "Remove" => s.action = "Remove"
  BY LegalActionTyped DEF Live
<1>2. CASE a.kind = "Place"
  <2>1. /\ Undoable(s, o, a, fast_place(s, o, a.to))
        /\ Undoable(s, o, a, maybe_handle_stalemate(apply_place(s, o, a.to), o))
    BY <1>1, <1>2, FastPlaceUndoable, PlaceUndoable, StalemateUndoable
  <2>2. \/ apply_to_state(s, o, a, FALSE) = fast_place(s, o, a.to)
        \/ apply_to_state(s, o, a, FALSE)
             = maybe_handle_stalemate(apply_place(s, o, a.to), o)
    BY <1>2 DEF apply_to_state, apply_generally
  <2> QED BY <2>1, <2>2
<1>3. CASE a.kind = "Move"
  <2>1. /\ Undoable(s, o, a, fast_move(s, o, a.from, a.to))
        /\ Undoable(s, o, a, maybe_handle_stalemate(
                               apply_move(s, o, a.from, a.to, FALSE), o))
    BY <1>1, FastMoveUndoable, MoveUndoable, StalemateUndoable
  <2>2. \/ apply_to_state(s, o, a, FALSE) = fast_move(s, o, a.from, a.to)
        \/ apply_to_state(s, o, a, FALSE)
             = maybe_handle_stalemate(apply_move(s, o, a.from, a.to, FALSE), o)
    BY <1>3 DEF apply_to_state, apply_generally
  <2> QED BY <2>1, <2>2
<1>4. CASE a.kind = "Remove"
  <2>1. /\ Undoable(s, o, a, fast_remove(s, o, a.to))
        /\ Undoable(s, o, a, maybe_handle_stalemate(apply_remove(s, o, a.to), o))
    BY <1>1, <1>4, FastRemoveUndoable, RemoveUndoable, StalemateUndoable
  <2>2. \/ apply_to_state(s, o, a, FALSE) = fast_remove(s, o, a.to)
        \/ apply_to_state(s, o, a, FALSE)
             = maybe_handle_stalemate(apply_remove(s, o, a.to), o)
    BY <1>4 DEF apply_to_state, apply_generally
  <2> QED BY <2>1, <2>2
<1> QED BY <1>1, <1>2, <1>3, <1>4

-----------------------------------------------------------------------------
(* Taking back *)

LEMMA RestoreGivesBack ==
  ASSUME NEW s \in MillStates, NEW o, NEW a, a.kind \in {"Place", "Move", "Remove"},
         NEW t, Undoable(s, o, a, t)
  PROVE  restore(capture(s, o, a), t) = s
<1> DEFINE u == capture(s, o, a)
           back == restore(u, t)
<1>1. DOMAIN s = Fields /\ DOMAIN t = Fields
  BY FieldsOfState DEF Undoable
<1>2. /\ u.standard = is_standard_undo(s, o)
      /\ DOMAIN u.fields = IF is_standard_undo(s, o) THEN StandardFields ELSE FullFields
      /\ \A f \in DOMAIN u.fields : u.fields[f] = s[f]
      /\ DOMAIN u.cells = cells_kept(s, o, a)
      /\ \A n \in DOMAIN u.cells : u.cells[n] = s.board[n]
      /\ u.restored = must_restore_history(s, a)
      /\ u.restored => u.keys = s.key_history
      /\ u.key_count = Len(s.key_history)
  BY DEF capture
<1>3. /\ back = [f \in Fields |-> back[f]]
      /\ back.board = [n \in Nodes |-> IF n \in DOMAIN u.cells THEN u.cells[n]
                                       ELSE t.board[n]]
      /\ back.key_history = keys_after_undo(u, t.key_history)
      /\ \A f \in Fields \ {"board", "key_history"} :
           back[f] = IF f \in DOMAIN u.fields THEN u.fields[f]
                     ELSE IF f = "marked" /\ u.standard THEN {} ELSE t[f]
  BY <1>1 DEF restore, Fields
<1> HIDE DEF u, back
<1>4. back.board = s.board
  <2>1. s.board \in [Nodes -> Sides \union {NONE}]
    BY DEF MillStates
  <2>2. \A n \in Nodes : back.board[n] = s.board[n]
    <3> SUFFICES ASSUME NEW n \in Nodes PROVE back.board[n] = s.board[n]
      OBVIOUS
    <3>1. CASE n \in DOMAIN u.cells
      BY <1>2, <1>3, <3>1
    <3>2. CASE n \notin DOMAIN u.cells
      <4>1. n # NONE
        BY BoardAssumption
      <4>2. ~requires_full_board_snapshot(s, o) /\ n \notin {a.from, a.to}
        BY <1>2, <3>2, <4>1 DEF cells_kept
      <4> QED BY <1>3, <3>2, <4>2 DEF Undoable
    <3> QED BY <3>1, <3>2
  <2> QED BY <1>3, <2>1, <2>2
<1>5. back.key_history = s.key_history
  <2>1. s.key_history \in Seq(Signatures)
    BY DEF MillStates
  <2>2. Len(s.key_history) \in Nat /\ Len(<< >>) = 0
    BY <2>1
  <2>3. CASE u.restored
    BY <1>2, <1>3, <2>3 DEF keys_after_undo
  <2>4. CASE ~u.restored /\ t.key_history = s.key_history
    <3>1. SubSeq(s.key_history, 1, Len(s.key_history)) = s.key_history
      BY <2>1
    <3> QED BY <1>2, <1>3, <2>2, <2>4, <3>1 DEF keys_after_undo
  <2>5. CASE ~u.restored /\ t.key_history # s.key_history
    <3>1. a.kind # "Move" /\ t.key_history = << >>
      BY <2>5 DEF Undoable
    <3>2. ~must_restore_history(s, a)
      BY <1>2, <2>5
    <3>3. a.kind \in {"Place", "Remove"} => s.key_history = << >>
      BY <3>2 DEF must_restore_history
    <3> QED BY <2>5, <3>1, <3>3
  <2> QED BY <2>3, <2>4, <2>5
<1>6. \A f \in Fields \ {"board", "key_history"} : back[f] = s[f]
  <2> SUFFICES ASSUME NEW f \in Fields \ {"board", "key_history"}
               PROVE  back[f] = s[f]
    OBVIOUS
  <2>1. CASE f \in DOMAIN u.fields
    BY <1>2, <1>3, <2>1
  <2>2. CASE f \notin DOMAIN u.fields
    <3>1. is_standard_undo(s, o) /\ f \in CaptureFields \union {"formed_mills", "marked"}
      BY <1>2, <2>2 DEF FullFields, StandardFields, CaptureFields, Fields
    <3>2. CASE f = "marked"
      BY <1>2, <1>3, <2>2, <3>1, <3>2 DEF is_standard_undo
    <3>3. CASE f # "marked"
      <4>1. back[f] = t[f]
        BY <1>3, <2>2, <3>3
      <4>2. \A g \in CaptureFields : s[g] = Both({})
        BY <3>1 DEF is_standard_undo
      <4> QED BY <3>1, <3>3, <4>1, <4>2 DEF Undoable
    <3> QED BY <3>2, <3>3
  <2> QED BY <2>1, <2>2
<1>7. back = s
  <2>1. s = [f \in Fields |-> s[f]]
    BY DEF MillStates, Fields
  <2>2. \A f \in Fields : back[f] = s[f]
    BY <1>4, <1>5, <1>6
  <2> QED BY <1>3, <2>1, <2>2
<1> QED BY <1>7 DEF back, u

LEMMA StackPopped ==
  ASSUME NEW S, NEW st \in Seq(S), NEW u
  PROVE  LET pushed == Append(st, u)
         IN /\ pushed \in Seq(S \union {u}) /\ Len(pushed) = Len(st) + 1
            /\ pushed[Len(st) + 1] = u
            /\ SubSeq(pushed, 1, Len(st)) = st
<1> DEFINE T == S \union {u}
           pushed == Append(st, u)
<1>1. st \in Seq(T)
  OBVIOUS
<1>2. pushed \in Seq(T) /\ Len(pushed) = Len(st) + 1 /\ pushed[Len(st) + 1] = u
  BY <1>1
<1>3. SubSeq(pushed, 1, Len(st)) = st
  <2>1. Len(st) \in Nat /\ \A i \in 1..Len(st) : pushed[i] = st[i]
    BY <1>1
  <2>2. /\ SubSeq(pushed, 1, Len(st)) \in Seq(T)
        /\ Len(SubSeq(pushed, 1, Len(st))) = Len(st)
        /\ \A i \in 1..Len(st) : SubSeq(pushed, 1, Len(st))[i] = pushed[i]
    BY <1>2, <2>1
  <2> QED BY <1>1, <2>1, <2>2, SeqEqual
<1> QED BY <1>2, <1>3

LEMMA UndoneAtOnce ==
  ASSUME NEW s, Coherent(s), NEW S, NEW st \in Seq(S),
         NEW o, NEW a \in legal_actions(s, o)
  PROVE  undo_move(do_move([state |-> s, undo_stack |-> st], o, a))
           = [state |-> s, undo_stack |-> st]
<1> DEFINE u == capture(s, o, a)
           t == apply_to_state(s, o, a, FALSE)
           pushed == Append(st, u)
<1>1. s \in MillStates /\ a.kind \in {"Place", "Move", "Remove"}
  BY LegalActionTyped DEF Live
<1>2. restore(u, t) = s
  <2>1. Undoable(s, o, a, t)
    BY TriedUndoable
  <2> HIDE DEF t
  <2> QED BY <1>1, <2>1, RestoreGivesBack
<1>3. do_move([state |-> s, undo_stack |-> st], o, a)
        = [state |-> t, undo_stack |-> pushed]
  BY DEF do_move
<1>4. /\ Len(pushed) = Len(st) + 1 /\ pushed[Len(st) + 1] = u
      /\ SubSeq(pushed, 1, Len(st)) = st
  BY StackPopped
<1>5. Len(pushed) # 0 /\ Len(pushed) - 1 = Len(st)
  <2>1. Len(st) \in Nat
    OBVIOUS
  <2> HIDE DEF pushed
  <2> QED BY <1>4, <2>1
<1> HIDE DEF u, t, pushed
<1>6. undo_move([state |-> t, undo_stack |-> pushed])
        = [state |-> restore(u, t), undo_stack |-> st]
  <2> DEFINE wb == [state |-> t, undo_stack |-> pushed]
  <2>1. wb.state = t /\ wb.undo_stack = pushed
    OBVIOUS
  <2> HIDE DEF wb
  <2>2. Len(wb.undo_stack) # 0
    BY <1>5, <2>1
  <2>3. undo_move(wb)
          = [state |-> restore(wb.undo_stack[Len(wb.undo_stack)], wb.state),
             undo_stack |-> SubSeq(wb.undo_stack, 1, Len(wb.undo_stack) - 1)]
    BY <2>2 DEF undo_move
  <2>4. wb.undo_stack[Len(wb.undo_stack)] = u
    BY <1>4, <2>1
  <2>5. SubSeq(wb.undo_stack, 1, Len(wb.undo_stack) - 1) = st
    BY <1>4, <1>5, <2>1
  <2> QED BY <2>1, <2>3, <2>4, <2>5 DEF wb
<1> QED BY <1>2, <1>3, <1>6

(* MillWorkbench: from any position of any game, on any board and in any   *)
(* variant, whatever the search tries and takes back leaves the position   *)
(* as it was, every field of it that the rules read, also when an action   *)
(* is tried below another.  The records keep enough: the cells of the      *)
(* action where nothing is marked or captured beside it, the capture state *)
(* where a capture rule is on, and the keys that placing or taking a piece *)
(* drops.                                                                  *)
THEOREM SearchRestores == Spec => []UndoRestores
<1>1. Inv => UndoRestores
  <2> SUFFICES ASSUME Inv PROVE UndoRestores
    OBVIOUS
  <2> DEFINE root == [state |-> state, undo_stack |-> << >>]
             once == Tried(root)
             owing == {wb \in once : wb.state.action = "Remove"}
  <2>1. options \in MillVariantOptions /\ Coherent(state)
    BY DEF Inv
  <2>2. << >> \in Seq({})
    OBVIOUS
  <2>3. \A wb \in once : undo_move(wb) = root
    <3> SUFFICES ASSUME NEW a \in legal_actions(state, options)
                 PROVE  undo_move(do_move(root, options, a)) = root
      BY DEF Tried
    <3> QED BY <2>1, <2>2, UndoneAtOnce
  <2>4. \A wb \in once : \A below \in Tried(wb) : undo_move(below) = wb
    <3> SUFFICES ASSUME NEW a \in legal_actions(state, options),
                        NEW below \in Tried(do_move(root, options, a))
                 PROVE  undo_move(below) = do_move(root, options, a)
      BY DEF Tried
    <3> DEFINE u == capture(state, options, a)
               t == apply_to_state(state, options, a, FALSE)
               st == Append(<< >>, u)
               wb == [state |-> t, undo_stack |-> st]
    <3>1. do_move(root, options, a) = wb
      BY DEF do_move
    <3>2. Coherent(t)
      BY <2>1, ApplyCoherent
    <3>3. st \in Seq({} \union {u})
      BY <2>2, StackPopped
    <3> HIDE DEF t, st
    <3>4. PICK b \in legal_actions(t, options) : below = do_move(wb, options, b)
      BY <3>1 DEF Tried
    <3>5. undo_move(do_move(wb, options, b)) = wb
      BY <3>2, <3>3, UndoneAtOnce
    <3> QED BY <3>1, <3>4, <3>5
  <2> QED BY <2>3, <2>4 DEF UndoRestores
<1> QED BY <1>1, Invariant, PTL

-----------------------------------------------------------------------------
(* Shortcuts *)

(* What is left of a position once nothing reads the rest of it.           *)
Shown(s) == IF s.phase = "GameOver"
              THEN [s EXCEPT !.mill_available_at_removal = FALSE] ELSE s

LEMMA NothingAltered ==
  ASSUME NEW s \in MillStates, NEW t \in MillStates, NEW F, Alters(s, t, F),
         \A f \in F : t[f] = s[f]
  PROVE  t = s
<1>1. DOMAIN s = Fields /\ DOMAIN t = Fields /\ \A f \in Fields : t[f] = s[f]
  BY FieldsOfState DEF Alters
<1>2. s = [f \in Fields |-> s[f]] /\ t = [f \in Fields |-> t[f]]
  <2>1. \A x \in MillStates : x = [f \in DOMAIN x |-> x[f]]
    BY DEF MillStates
  <2> QED BY <1>1, <2>1
<1> QED BY <1>1, <1>2

(* With nothing owed and no target there is nothing to clear, and no       *)
(* capture to activate.                                                    *)
LEMMA NothingToClear ==
  ASSUME NEW s, Live(s), Clean(s)
  PROVE  /\ clear_capture_state(s) = s
         /\ \A k \in Sides : /\ s.custodian_targets[k] = {}
                             /\ s.intervention_targets[k] = {}
                             /\ s.leap_targets[k] = {}
<1>1. \A k \in Sides : /\ s.custodian_targets[k] = {}
                       /\ s.intervention_targets[k] = {}
                       /\ s.leap_targets[k] = {}
  BY DEF Clean, Targets
<1> DEFINE t == clear_capture_state(s)
<1>2. s \in MillStates /\ t \in MillStates
  BY ClearTyped DEF Live
<1>3. /\ s.custodian_targets \in [Sides -> SUBSET Nodes]
      /\ s.intervention_targets \in [Sides -> SUBSET Nodes]
      /\ s.leap_targets \in [Sides -> SUBSET Nodes]
      /\ s.mill_available_at_removal \in BOOLEAN
  BY <1>2 DEF MillStates
<1>4. /\ s.custodian_targets = Both({})
      /\ s.intervention_targets = Both({})
      /\ s.leap_targets = Both({})
  <2>1. \A f \in [Sides -> SUBSET Nodes] : (\A k \in Sides : f[k] = {}) => f = Both({})
    BY BothIs
  <2> QED BY <1>1, <1>3, <2>1
<1>5. s.mill_available_at_removal = FALSE
  BY <1>3 DEF Clean
<1>6. Alters(s, t, CaptureState)
  BY <1>2, ClearEffect
<1>7. \A f \in CaptureState : t[f] = s[f]
  <2>1. /\ t.custodian_targets = Both({}) /\ t.intervention_targets = Both({})
        /\ t.leap_targets = Both({}) /\ t.mill_available_at_removal = FALSE
    BY <1>2, FieldsOfState DEF clear_capture_state, Fields
  <2> HIDE DEF t
  <2> QED BY <1>4, <1>5, <2>1 DEF CaptureState
<1> HIDE DEF t
<1>8. t = s
  BY <1>2, <1>6, <1>7, NothingAltered
<1> QED BY <1>1, <1>8 DEF t

LEMMA NothingToActivate ==
  ASSUME NEW s \in MillStates, s.side_to_move \in Sides,
         s.custodian_targets[s.side_to_move] = {},
         s.intervention_targets[s.side_to_move] = {},
         s.leap_targets[s.side_to_move] = {}
  PROVE  activate_capture_state(s, {}, {}, {}) = s
<1> DEFINE c == s.side_to_move
           t == activate_capture_state(s, {}, {}, {})
           F == {"custodian_targets", "intervention_targets", "leap_targets"}
<1>1. t \in MillStates
  BY ActivateTyped
<1>2. /\ s.custodian_targets \in [Sides -> SUBSET Nodes]
      /\ s.intervention_targets \in [Sides -> SUBSET Nodes]
      /\ s.leap_targets \in [Sides -> SUBSET Nodes]
  BY DEF MillStates
<1>3. DOMAIN s = Fields
  BY FieldsOfState
<1>4. /\ t.custodian_targets = [s.custodian_targets EXCEPT ![c] = {}]
      /\ t.intervention_targets = [s.intervention_targets EXCEPT ![c] = {}]
      /\ t.leap_targets = [s.leap_targets EXCEPT ![c] = {}]
      /\ Alters(s, t, F)
  BY <1>3 DEF activate_capture_state, Fields, Alters
<1> HIDE DEF t
<1>5. \A f \in [Sides -> SUBSET Nodes] : f[c] = {} => [f EXCEPT ![c] = {}] = f
  OBVIOUS
<1>6. \A f \in F : t[f] = s[f]
  BY <1>2, <1>4, <1>5
<1> HIDE DEF F
<1>7. t = s
  BY <1>1, <1>4, <1>6, NothingAltered
<1> QED BY <1>7 DEF t

(* fast_place skips the scan for captures, the marks and the counting of   *)
(* mills, none of which the standard rules know, and the scan for mills    *)
(* while a side has fewer than two pieces on the board.                    *)
LEMMA PlacePathsAgree ==
  ASSUME NEW s, NEW o \in MillVariantOptions, Good(s, o), standard_fast_path_enabled(o),
         NEW to \in empty_squares(s), Fresh(s), s.phase = "Placing",
         s.pieces_in_hand[s.side_to_move] > 0
  PROVE  fast_place(s, o, to) = maybe_handle_stalemate(apply_place(s, o, to), o)
<1> DEFINE c == s.side_to_move
           t == place_live_piece(s, to)
           formed == formed_mills_at(t, o, to, c)
           earned == removal_count(formed, o)
           owing == [owe(t, earned) EXCEPT !.mill_available_at_removal = TRUE]
<1>0. to \in Nodes
  BY DEF empty_squares
<1>1. /\ Fresh(t) /\ t.phase = "Placing" /\ t.side_to_move = c /\ c \in Sides
      /\ t.pieces_on_board = [s.pieces_on_board EXCEPT ![c] = @ + 1]
  BY <1>0, PlacedFresh DEF Fresh, Live
<1>2. Counted(t, o)
  BY PlacedCounted DEF Good
<1>3. Live(t) /\ Clean(t) /\ t \in MillStates
  BY <1>1 DEF Fresh, Live
<1>4. clear_capture_state(t) = t
  BY <1>3, NothingToClear
<1> HIDE DEF t
<1>5. usable_mills(t, o, formed) = formed
  BY DEF usable_mills, UsableFor, standard_fast_path_enabled
<1>6. formed # {} => s.pieces_on_board[c] >= 2
  <2> SUFFICES ASSUME formed # {} PROVE s.pieces_on_board[c] >= 2
    OBVIOUS
  <2>1. PICK l \in StandardLines : l \subseteq piece_bitboard(t, c)
    BY DEF formed_mills_at, MillsOf, mill_lines, standard_fast_path_enabled
  <2>2. Cardinality(l) = 3 /\ IsFiniteSet(piece_bitboard(t, c))
    BY <2>1, BoardAssumption, BitboardsCounted
  <2>3. Cardinality(l) <= Cardinality(piece_bitboard(t, c))
    BY <2>1, <2>2, FS_Subset
  <2>4. t.pieces_on_board[c] = Cardinality(piece_bitboard(t, c))
    BY <1>1, <1>2 DEF Counted
  <2>5. s.pieces_on_board \in [Sides -> Int]
    BY DEF Good, Coherent, MillStates
  <2>6. t.pieces_on_board[c] = s.pieces_on_board[c] + 1 /\ s.pieces_on_board[c] \in Int
    BY <1>1, <2>5
  <2>7. Cardinality(piece_bitboard(t, c)) \in Nat
    BY BitboardsCounted
  <2> QED BY <2>2, <2>3, <2>4, <2>6, <2>7
<1>7. detect_custodian_targets(t, o, to) = {} /\ detect_intervention_targets(t, o, to) = {}
  BY StandardHasNoCaptures
<1>8. apply_place(s, o, to) = fast_placed(s, o, to)
  <2>1. CASE formed # {}
    <3>1. earned \in Nat
      BY CountsAreNatural
    <3> DEFINE due == owe(t, earned)
               targets(x) == /\ x.custodian_targets[c] = {}
                             /\ x.intervention_targets[c] = {}
                             /\ x.leap_targets[c] = {}
    <3>2. /\ Live(due) /\ due \in MillStates /\ due.side_to_move = c
          /\ due.custodian_targets = t.custodian_targets
          /\ due.intervention_targets = t.intervention_targets
          /\ due.leap_targets = t.leap_targets
      <4>1. Live(due) /\ Alters(t, due, {"pending_removals"})
        BY <1>1, <1>3, <3>1, OweLive, OweEffect
      <4> QED BY <1>1, <4>1 DEF Live, Alters, Fields
    <3> HIDE DEF due
    <3>3. /\ Live(owing) /\ owing \in MillStates /\ owing.side_to_move = c
          /\ owing.custodian_targets = due.custodian_targets
          /\ owing.intervention_targets = due.intervention_targets
          /\ owing.leap_targets = due.leap_targets
      <4>1. owing = [due EXCEPT !.mill_available_at_removal = TRUE]
        BY DEF due
      <4>2. /\ Live([due EXCEPT !.mill_available_at_removal = TRUE])
            /\ Alters(due, [due EXCEPT !.mill_available_at_removal = TRUE],
                      {"mill_available_at_removal"})
        BY <3>2, AvailableLive, AvailableEffect
      <4>3. Live(owing) /\ Alters(due, owing, {"mill_available_at_removal"})
        BY <4>1, <4>2
      <4> HIDE DEF owing
      <4> QED BY <3>2, <4>3 DEF Live, Alters, Fields
    <3> HIDE DEF owing
    <3>4. activate_capture_state(owing, {}, {}, {}) = owing
      <4>1. targets(t)
        BY <1>1, <1>3, NothingToClear
      <4> QED BY <1>1, <3>2, <3>3, <4>1, NothingToActivate
    <3>5. place_mill_on_board(t, o, formed, {}, {}) = sync_action_state(owing)
      BY <3>4 DEF place_mill_on_board, standard_fast_path_enabled, owing
    <3>6. apply_place(s, o, to)
            = note_mill_formation(sync_action_state(owing), o, c, NONE, to, formed)
      <4>1. apply_place(s, o, to)
              = note_mill_formation(place_mill_on_board(t, o, formed, {}, {}),
                                    o, c, NONE, to, formed)
        BY <1>5, <1>7, <2>1
           DEF apply_place, t, standard_fast_path_enabled, FromHandActions
      <4> QED BY <3>5, <4>1
    <3>7. fast_placed(s, o, to)
            = note_mill_formation(sync_action_state(owing), o, c, NONE, to, formed)
      BY <1>6, <2>1 DEF fast_placed, t, owing
    <3> QED BY <3>6, <3>7
  <2>2. CASE formed = {}
    <3>1. apply_place(s, o, to) = place_quietly(t, o)
      BY <1>5, <1>7, <2>2 DEF apply_place, t
    <3>2. place_quietly(t, o) = settle([t EXCEPT !.side_to_move = Opp(@)], o)
      <4>1. maybe_stop_placing_when_two_empty(t, o) = t
        BY DEF maybe_stop_placing_when_two_empty, standard_fast_path_enabled
      <4> QED BY <1>4, <4>1 DEF place_quietly, standard_fast_path_enabled
    <3>3. fast_placed(s, o, to) = settle([t EXCEPT !.side_to_move = Opp(c)], o)
      BY <2>2 DEF fast_placed, t
    <3> QED BY <1>1, <3>1, <3>2, <3>3
  <2> QED BY <2>1, <2>2
<1> HIDE DEF formed
<1>9. fast_place(s, o, to) = maybe_handle_stalemate(fast_placed(s, o, to), o)
  BY DEF fast_place, maybe_handle_stalemate, is_stalemate
<1> QED BY <1>8, <1>9

(* fast_move completes no mill, and the standard rules know no capture: it *)
(* is the quiet move.                                                      *)
LEMMA MovePathsAgree ==
  ASSUME NEW s, NEW o \in MillVariantOptions, Fresh(s),
         NEW from \in piece_bitboard(s, s.side_to_move), NEW to \in empty_squares(s),
         fast_move_applies(s, o, from, to)
  PROVE  fast_move(s, o, from, to)
           = maybe_handle_stalemate(apply_move(s, o, from, to, FALSE), o)
<1> DEFINE c == s.side_to_move
           t == bump_ply_since_capture(move_live_piece(s, from, to), o)
           forget(x) == [x EXCEPT !.last_mill_from[c] = NONE, !.last_mill_to[c] = NONE,
                                  !.side_to_move = Opp(c)]
<1>0. from \in Nodes /\ to \in Nodes /\ from # to
  <2>1. from \in Nodes /\ live_piece(s, from) = c /\ c \in Sides
    BY DEF piece_bitboard, Fresh, Live
  <2>2. s.board[from] = c /\ c # NONE
    BY <2>1 DEF live_piece, Sides, NONE
  <2> QED BY <2>1, <2>2 DEF empty_squares, board_occupied
<1>1. /\ Fresh(t) /\ t.side_to_move = c
      /\ t.board = [s.board EXCEPT ![from] = NONE, ![to] = c] /\ t.marked = s.marked
  <2> DEFINE Fits(x) == /\ Fresh(x) /\ x.side_to_move = c
                        /\ Alters(s, x, {"board", "ply_since_capture"})
                        /\ x.board = [s.board EXCEPT ![from] = NONE, ![to] = c]
  <2>1. from \in Nodes /\ to \in Nodes
    BY <1>0
  <2>2. Fits(bump_ply_since_capture(move_live_piece(s, from, to), o))
    BY <2>1, MovedFresh
  <2> HIDE DEF t
  <2> QED BY <2>2 DEF t, Alters, Fields
<1>2. clear_capture_state(t) = t
  BY <1>1, NothingToClear DEF Fresh
<1>3. \A n \in piece_bitboard(t, c) \ {to} : n \in piece_bitboard(s, c) \ {from}
  <2> SUFFICES ASSUME NEW n \in piece_bitboard(t, c), n # to
               PROVE  n \in piece_bitboard(s, c) /\ n # from
    OBVIOUS
  <2>1. n \in Nodes /\ live_piece(t, n) = c /\ c \in Sides /\ c # NONE
    BY DEF piece_bitboard, Fresh, Live, Sides, NONE
  <2>2. n \notin t.marked /\ t.board[n] = c
    BY <2>1 DEF live_piece
  <2>3. DOMAIN s.board = Nodes
    BY DEF Fresh, Live, MillStates
  <2>4. n # from
    BY <1>0, <1>1, <2>1, <2>2, <2>3
  <2>5. s.board[n] = c
    BY <1>0, <1>1, <2>1, <2>2, <2>3, <2>4
  <2> QED BY <1>1, <2>1, <2>2, <2>4, <2>5 DEF piece_bitboard, live_piece
<1> HIDE DEF t
<1>4. formed_mills_at(t, o, to, c) = {}
  <2> SUFFICES ASSUME NEW l \in formed_mills_at(t, o, to, c) PROVE FALSE
    OBVIOUS
  <2>1. l \in mill_lines(o) /\ to \in l /\ l \subseteq piece_bitboard(t, c)
    BY DEF formed_mills_at, MillsOf
  <2>2. l \in potential_mills_at(s, o, to, c, {from})
    BY <1>3, <2>1 DEF potential_mills_at, UsableFor, fast_move_applies,
                      standard_fast_path_enabled
  <2> QED BY <2>2 DEF fast_move_applies
<1>5. standard_fast_path_enabled(o)
  BY DEF fast_move_applies
<1>6. /\ detect_custodian_targets(t, o, to) = {}
      /\ detect_intervention_targets(t, o, to) = {}
      /\ detect_leap_targets(t, o, from, to) = {}
  BY <1>5, StandardHasNoCaptures
<1>7. apply_move(s, o, from, to, FALSE) = move_quietly(t, o, FALSE)
  <2>1. usable_mills(t, o, formed_mills_at(t, o, to, c)) = {}
    BY <1>4 DEF usable_mills
  <2> QED BY <1>6, <2>1 DEF apply_move, t
<1>8. move_quietly(t, o, FALSE)
        = sync_action_state(sync_phase_with_active_hand(forget(t)))
  BY <1>1, <1>2 DEF move_quietly
<1>9. fast_move(s, o, from, to)
        = maybe_handle_stalemate(sync_action_state(sync_phase_with_active_hand(
            forget(t))), o)
  BY DEF fast_move, t
<1> QED BY <1>7, <1>8, <1>9

(* With no capture target choosing an obligation and striking a target     *)
(* change nothing.                                                         *)
LEMMA NothingToChoose ==
  ASSUME NEW s, Live(s), s.custodian_targets[s.side_to_move] = {},
         s.intervention_targets[s.side_to_move] = {},
         s.leap_targets[s.side_to_move] = {},
         NEW o, NEW n \in Nodes
  PROVE  choose_obligation(s, o, n) = s /\ consume_target(s, o, n) = s
<1> DEFINE c == s.side_to_move
           t == consume_target(s, o, n)
           F == CaptureState \ {"mill_available_at_removal"}
<1>1. choose_obligation(s, o, n) = s
  <2>1. capture_total(s) = 0
    BY FS_EmptySet DEF capture_total
  <2> QED BY <2>1 DEF choose_obligation
<1>2. t \in MillStates /\ Alters(s, t, F)
  BY ConsumeEffect
<1>3. /\ c \in Sides /\ s \in MillStates
      /\ s.custodian_targets \in [Sides -> SUBSET Nodes]
      /\ s.intervention_targets \in [Sides -> SUBSET Nodes]
      /\ s.leap_targets \in [Sides -> SUBSET Nodes]
  BY DEF Live, MillStates
<1>4. \A f \in [Sides -> SUBSET Nodes] : f[c] = {} => [f EXCEPT ![c] = {}] = f
  OBVIOUS
<1>5. DOMAIN s = Fields
  BY <1>3, FieldsOfState
<1>6. /\ t.custodian_targets = [s.custodian_targets EXCEPT ![c] = {}]
      /\ t.leap_targets = [s.leap_targets EXCEPT ![c] = {}]
      /\ t.intervention_targets = [s.intervention_targets EXCEPT ![c] = {}]
  <2>1. s.custodian_targets[c] = {} /\ s.leap_targets[c] \ {n} = {}
        /\ (IF n \in s.custodian_targets[c] THEN {} ELSE s.custodian_targets[c]) = {}
    OBVIOUS
  <2>2. n \notin s.intervention_targets[c] /\ s.intervention_targets[c] = {}
    OBVIOUS
  <2> QED BY <1>5, <2>1, <2>2 DEF consume_target, Fields
<1>7. \A f \in F : t[f] = s[f]
  BY <1>3, <1>4, <1>6 DEF CaptureState
<1> HIDE DEF t, F
<1>8. t = s
  BY <1>2, <1>3, <1>7, NothingAltered
<1> QED BY <1>1, <1>8 DEF t

LEMMA SameRecord ==
  ASSUME NEW s, NEW t, s = [f \in Fields |-> s[f]], t = [f \in Fields |-> t[f]],
         \A f \in Fields : t[f] = s[f]
  PROVE  t = s
OBVIOUS

(* A removal that a mill pays for, with nothing else owed, goes the same   *)
(* way, whatever the general path finds to reset.                          *)
LEMMA FinishIsPass ==
  ASSUME NEW s, Live(s), NEW o,
         s.custodian_targets[s.side_to_move] = {},
         s.intervention_targets[s.side_to_move] = {},
         s.leap_targets[s.side_to_move] = {},
         ~s.stalemate_removing, ~s.both_stalemate_removing, ~s.board_full_removing
  PROVE  finish_removal(s, o, FALSE)
           = settle([[s EXCEPT !.mill_available_at_removal = FALSE]
                        EXCEPT !.side_to_move = Opp(s.side_to_move)], o)
<1> DEFINE c == s.side_to_move
           paid == clear_capture_state_for_side(s, c)
           x == [paid EXCEPT
                  !.remove_own_piece[c] = @,
                  !.stalemate_removing = FALSE,
                  !.side_to_move = Opp(@),
                  !.both_stalemate_removing = @ /\ s.pending_removals # Both(0),
                  !.board_full_removing = @ /\ s.pending_removals # Both(0)]
           y == [[s EXCEPT !.mill_available_at_removal = FALSE]
                    EXCEPT !.side_to_move = Opp(c)]
<1>1. /\ c \in Sides /\ s \in MillStates
      /\ s.custodian_targets \in [Sides -> SUBSET Nodes]
      /\ s.intervention_targets \in [Sides -> SUBSET Nodes]
      /\ s.leap_targets \in [Sides -> SUBSET Nodes]
      /\ s.remove_own_piece \in [Sides -> BOOLEAN]
  BY DEF Live, MillStates
<1>2. /\ s.stalemate_removing = FALSE /\ s.both_stalemate_removing = FALSE
      /\ s.board_full_removing = FALSE
  BY DEF Live, MillStates
<1>3. DOMAIN s = Fields
  BY <1>1, FieldsOfState
<1>4. finish_removal(s, o, FALSE) = settle(x, o)
  BY DEF finish_removal
<1>5. \A f \in [Sides -> SUBSET Nodes] : f[c] = {} => [f EXCEPT ![c] = {}] = f
  OBVIOUS
<1>6. /\ paid.custodian_targets = s.custodian_targets
      /\ paid.intervention_targets = s.intervention_targets
      /\ paid.leap_targets = s.leap_targets
      /\ paid.mill_available_at_removal = FALSE
      /\ Alters(s, paid, CaptureState)
  <2>1. /\ paid.custodian_targets = [s.custodian_targets EXCEPT ![c] = {}]
        /\ paid.intervention_targets = [s.intervention_targets EXCEPT ![c] = {}]
        /\ paid.leap_targets = [s.leap_targets EXCEPT ![c] = {}]
        /\ paid.mill_available_at_removal = FALSE
        /\ Alters(s, paid, CaptureState)
    BY <1>3 DEF clear_capture_state_for_side, Fields, Alters, CaptureState
  <2> HIDE DEF paid
  <2> QED BY <1>1, <1>5, <2>1
<1> HIDE DEF paid
<1>7. /\ x = [f \in Fields |-> x[f]]
      /\ x.remove_own_piece = [paid.remove_own_piece EXCEPT ![c] = @]
      /\ x.stalemate_removing = FALSE /\ x.side_to_move = Opp(paid.side_to_move)
      /\ x.both_stalemate_removing
           = (paid.both_stalemate_removing /\ s.pending_removals # Both(0))
      /\ x.board_full_removing
           = (paid.board_full_removing /\ s.pending_removals # Both(0))
      /\ \A f \in Fields \ {"remove_own_piece", "stalemate_removing", "side_to_move",
                            "both_stalemate_removing", "board_full_removing"} :
           x[f] = paid[f]
  BY <1>6 DEF Alters, Fields
<1>8. /\ y = [f \in Fields |-> y[f]]
      /\ y.side_to_move = Opp(c) /\ y.mill_available_at_removal = FALSE
      /\ \A f \in Fields \ {"side_to_move", "mill_available_at_removal"} : y[f] = s[f]
  BY <1>3 DEF Fields
<1> HIDE DEF x, y
<1>9. \A f \in Fields : x[f] = y[f]
  <2>1. [s.remove_own_piece EXCEPT ![c] = @] = s.remove_own_piece
    BY <1>1
  <2>2. /\ \A f \in Fields \ CaptureState : paid[f] = s[f]
        /\ \A f \in CaptureState \ {"mill_available_at_removal"} : paid[f] = s[f]
    BY <1>6 DEF Alters, CaptureState
  <2>3. /\ x.remove_own_piece = y.remove_own_piece
        /\ x.side_to_move = y.side_to_move
        /\ x.mill_available_at_removal = y.mill_available_at_removal
    BY <1>6, <1>7, <1>8, <2>1, <2>2, ZenonT(60) DEF Fields, CaptureState
  <2>4. /\ x.stalemate_removing = y.stalemate_removing
        /\ x.both_stalemate_removing = y.both_stalemate_removing
        /\ x.board_full_removing = y.board_full_removing
    BY <1>2, <1>7, <1>8, <2>2 DEF Fields, CaptureState
  <2>5. \A f \in Fields \ {"remove_own_piece", "stalemate_removing", "side_to_move",
                           "both_stalemate_removing", "board_full_removing",
                           "mill_available_at_removal"} : x[f] = y[f]
    BY <1>7, <1>8, <2>2 DEF CaptureState
  <2> QED BY <2>3, <2>4, <2>5
<1>10. x = y
  BY <1>7, <1>8, <1>9, SameRecord
<1> QED BY <1>4, <1>10 DEF y

(* fast_remove takes the piece, clears the mill and passes the turn; when  *)
(* that ends the game the general path leaves the mill behind.             *)
LEMMA RemovePathsAgree ==
  ASSUME NEW s, Live(s), NEW o \in MillVariantOptions, fast_remove_applies(s, o),
         NEW n \in Nodes, n \in piece_bitboard(s, Opp(s.side_to_move)),
         s.pieces_on_board[Opp(s.side_to_move)] > 0
  PROVE  Shown(fast_remove(s, o, n)) = Shown(maybe_handle_stalemate(apply_remove(s, o, n), o))
<1> DEFINE c == s.side_to_move
           them == Opp(c)
           g == take_piece(s, o, n, them)
           t == [g EXCEPT !.mill_available_at_removal = FALSE]
<1>1. /\ c \in Sides /\ them \in Sides /\ Opp(them) = c /\ s \in MillStates
      /\ s.remove_own_piece[c] = FALSE
      /\ \A k \in Sides : /\ s.custodian_targets[k] = {}
                          /\ s.intervention_targets[k] = {}
                          /\ s.leap_targets[k] = {}
      /\ ~s.stalemate_removing /\ ~s.both_stalemate_removing /\ ~s.board_full_removing
  <2>1. c \in Sides /\ s \in MillStates
    BY DEF Live
  <2>2. s.remove_own_piece[c] \in BOOLEAN
    BY <2>1, HandsAreNatural
  <2> QED BY <2>1, <2>2, TwoSides DEF fast_remove_applies
<1>2. Owes(s) /\ s.pending_removals[c] = 1 /\ ~marks_removal(s, o)
  BY DEF Owes, fast_remove_applies, marks_removal, standard_fast_path_enabled
<1>3. /\ g \in MillStates /\ g.side_to_move = c /\ Live(g)
      /\ g.pending_removals[c] = 0
      /\ g.custodian_targets = s.custodian_targets
      /\ g.intervention_targets = s.intervention_targets
      /\ g.leap_targets = s.leap_targets
      /\ g.stalemate_removing = s.stalemate_removing
      /\ g.both_stalemate_removing = s.both_stalemate_removing
      /\ g.board_full_removing = s.board_full_removing
  <2>1. /\ g \in MillStates /\ g.side_to_move = c
        /\ Alters(s, g, {"board", "marked", "pieces_on_board", "pending_removals",
                         "ply_since_capture", "key_history"})
        /\ g.pending_removals = [s.pending_removals EXCEPT ![c] = @ - 1]
    BY <1>1, <1>2, TakeEffect
  <2>2. s.pending_removals \in [Sides -> Nat]
    BY <1>1 DEF MillStates
  <2> HIDE DEF g
  <2> QED BY <1>1, <1>2, <2>1, <2>2 DEF Live, Alters, Fields
<1>4. choose_obligation(s, o, n) = s /\ consume_target(g, o, n) = g
  <2> HIDE DEF g
  <2> QED BY <1>1, <1>3, NothingToChoose
<1>5. t = clear_key_history(
            [s EXCEPT !.board[n] = NONE, !.pieces_on_board[them] = @ - 1,
                      !.pending_removals[c] = 0, !.ply_since_capture = 0,
                      !.mill_available_at_removal = FALSE])
  <2> DEFINE Less(k) == IF k > 0 THEN k - 1 ELSE 0
             u == clear_key_history(
                    [s EXCEPT !.board[n] = NONE, !.pieces_on_board[them] = @ - 1,
                              !.pending_removals[c] = 0, !.ply_since_capture = 0,
                              !.mill_available_at_removal = FALSE])
             board == [s.board EXCEPT ![n] = NONE]
             pieces == [s.pieces_on_board EXCEPT ![them] = s.pieces_on_board[them] - 1]
             pending == [s.pending_removals EXCEPT ![c] = 0]
             Struck(x) == /\ x = [f \in Fields |-> x[f]]
                          /\ x.board = board /\ x.pieces_on_board = pieces
                          /\ x.pending_removals = pending
                          /\ x.ply_since_capture = 0 /\ x.key_history = << >>
                          /\ x.mill_available_at_removal = FALSE
                          /\ \A f \in Fields \ {"board", "pieces_on_board",
                                 "pending_removals", "ply_since_capture", "key_history",
                                 "mill_available_at_removal"} : x[f] = s[f]
  <2>1. DOMAIN s = Fields
    BY <1>1, FieldsOfState
  <2>2. /\ Less(s.pieces_on_board[them]) = s.pieces_on_board[them] - 1
        /\ Less(s.pending_removals[c]) = 0
    BY <1>2
  <2>3. g = clear_key_history(
              [[s EXCEPT !.board[n] = NONE]
                 EXCEPT !.pieces_on_board[them] = Less(@),
                        !.pending_removals[c] = Less(@), !.ply_since_capture = 0])
    BY <1>2 DEF take_piece
  <2>4. Struck(u)
    BY <2>1 DEF clear_key_history, Fields
  <2>5. Struck(t)
    <3> DEFINE b == [s EXCEPT !.board = board]
    <3>1. g = clear_key_history([b EXCEPT !.pieces_on_board = pieces,
                                   !.pending_removals = pending, !.ply_since_capture = 0])
      BY <2>2, <2>3
    <3> HIDE DEF board, pieces, pending, g
    <3> QED BY <2>1, <3>1 DEF clear_key_history, Fields
  <2> HIDE DEF t, u, board, pieces, pending
  <2>6. \A f \in Fields : t[f] = u[f]
    BY <2>4, <2>5, ZenonT(60) DEF Fields
  <2>7. t = u
    BY <2>4, <2>5, <2>6, SameRecord
  <2> QED BY <2>7 DEF u
<1>6. apply_remove(s, o, n)
        = IF has_too_few(g, o, them) THEN game_over(g, c, "LoseFewerThanThree")
          ELSE finish_removal(g, o, FALSE)
  <2>1. apply_remove(s, o, n)
          = IF has_too_few(g, o, them)
              THEN game_over(g, Opp(them), "LoseFewerThanThree")
            ELSE IF g.pending_removals[c] = 0 THEN finish_removal(g, o, FALSE) ELSE g
    BY <1>1, <1>4 DEF apply_remove
  <2> QED BY <1>1, <1>3, <2>1
<1>7. fast_remove(s, o, n)
        = maybe_handle_stalemate(
            IF has_too_few(t, o, them)
              THEN game_over(t, c, "LoseFewerThanThree")
              ELSE settle([t EXCEPT !.side_to_move = them], o), o)
  <2> HIDE DEF t
  <2> QED BY <1>5 DEF fast_remove
<1> HIDE DEF g
<1>8. /\ t \in MillStates /\ Alters(g, t, {"mill_available_at_removal"})
      /\ has_too_few(t, o, them) <=> has_too_few(g, o, them)
  <2>1. t \in MillStates /\ Alters(g, t, {"mill_available_at_removal"})
    BY <1>3, AvailableLive, AvailableEffect DEF Live
  <2> HIDE DEF t
  <2> QED BY <2>1 DEF has_too_few, Alters, Fields
<1> HIDE DEF t
<1>9. CASE has_too_few(g, o, them)
  <2> DEFINE x == game_over(t, c, "LoseFewerThanThree")
             y == game_over(g, c, "LoseFewerThanThree")
  <2>1. x.phase = "GameOver" /\ y.phase = "GameOver"
    BY <1>3, <1>8, GameOverEffect
  <2>2. maybe_handle_stalemate(x, o) = x /\ maybe_handle_stalemate(y, o) = y
    <3> HIDE DEF x, y
    <3> QED BY <2>1 DEF maybe_handle_stalemate, is_stalemate
  <2>3. Shown(x) = Shown(y)
    <3>1. x = [t EXCEPT !.phase = "GameOver", !.winner = c,
                        !.outcome_reason = "LoseFewerThanThree", !.side_to_move = NONE]
      BY DEF game_over
    <3>2. y = [g EXCEPT !.phase = "GameOver", !.winner = c,
                        !.outcome_reason = "LoseFewerThanThree", !.side_to_move = NONE]
      BY DEF game_over
    <3> HIDE DEF x, y
    <3> DEFINE p == [x EXCEPT !.mill_available_at_removal = FALSE]
               q == [y EXCEPT !.mill_available_at_removal = FALSE]
    <3>3. DOMAIN t = Fields /\ DOMAIN g = Fields
      BY <1>3, <1>8, FieldsOfState
    <3>4. DOMAIN x = Fields /\ DOMAIN y = Fields
      BY <3>1, <3>2, <3>3
    <3>5. \A f \in Fields \ {"mill_available_at_removal"} : x[f] = y[f]
      BY <1>8, <3>1, <3>2, <3>3 DEF Alters
    <3>6. p = [f \in Fields |-> p[f]] /\ q = [f \in Fields |-> q[f]]
      BY <3>4
    <3>7. \A f \in Fields : p[f] = q[f]
      BY <3>4, <3>5
    <3>8. p = q
      <4> HIDE DEF p, q
      <4> QED BY <3>6, <3>7, SameRecord
    <3> QED BY <2>1, <3>8 DEF Shown
  <2> HIDE DEF x, y
  <2>4. fast_remove(s, o, n) = x /\ maybe_handle_stalemate(apply_remove(s, o, n), o) = y
    BY <1>6, <1>7, <1>8, <1>9, <2>2 DEF x, y
  <2> QED BY <2>3, <2>4
<1>10. CASE ~has_too_few(g, o, them)
  <2>1. finish_removal(g, o, FALSE) = settle([t EXCEPT !.side_to_move = them], o)
    BY <1>1, <1>3, FinishIsPass DEF t
  <2> QED BY <1>6, <1>7, <1>8, <1>10, <2>1
<1> QED BY <1>9, <1>10

(* t is s with other repetition keys, which nothing but the adjudication   *)
(* of a repetition reads.                                                  *)
Alike(s, t) == DOMAIN s = Fields /\ Alters(s, t, {"key_history"})

LEMMA StepsAlike ==
  ASSUME NEW s, NEW t, Alike(s, t)
  PROVE  /\ \A x, y, z : Alike([s EXCEPT !.phase = x, !.winner = y, !.outcome_reason = z],
                               [t EXCEPT !.phase = x, !.winner = y, !.outcome_reason = z])
         /\ \A c : Alike([s EXCEPT !.side_to_move = c], [t EXCEPT !.side_to_move = c])
         /\ \A c, n : Alike([s EXCEPT !.pending_removals[c] = n],
                            [t EXCEPT !.pending_removals[c] = n])
         /\ \A b : Alike([s EXCEPT !.stalemate_removing = b],
                         [t EXCEPT !.stalemate_removing = b])
         /\ \A b : Alike([s EXCEPT !.both_stalemate_removing = b],
                         [t EXCEPT !.both_stalemate_removing = b])
         /\ \A b : Alike([s EXCEPT !.mill_available_at_removal = b],
                         [t EXCEPT !.mill_available_at_removal = b])
         /\ Alike(clear_capture_state(s), clear_capture_state(t))
         /\ Alike(sync_action_state(s), sync_action_state(t))
         /\ Alike(sync_phase_with_active_hand(s), sync_phase_with_active_hand(t))
<1>1. /\ DOMAIN s = Fields /\ DOMAIN t = Fields
      /\ \A f \in Fields \ {"key_history"} : t[f] = s[f]
  BY DEF Alike, Alters
<1>2. /\ t.phase = s.phase /\ t.side_to_move = s.side_to_move
      /\ t.pending_removals = s.pending_removals /\ t.pieces_in_hand = s.pieces_in_hand
  BY <1>1 DEF Fields
<1>3. \A x, y, z : Alike([s EXCEPT !.phase = x, !.winner = y, !.outcome_reason = z],
                         [t EXCEPT !.phase = x, !.winner = y, !.outcome_reason = z])
  <2> TAKE x, y, z
  <2> DEFINE p == [s EXCEPT !.phase = x, !.winner = y, !.outcome_reason = z]
             q == [t EXCEPT !.phase = x, !.winner = y, !.outcome_reason = z]
  <2>1. DOMAIN p = Fields /\ DOMAIN q = Fields
    BY <1>1
  <2>2. ASSUME NEW f \in Fields \ {"key_history"} PROVE q[f] = p[f]
    <3>1. CASE f \in {"phase", "winner", "outcome_reason"}
      BY <1>1, <3>1 DEF Fields
    <3>2. CASE f \notin {"phase", "winner", "outcome_reason"}
      <4>1. p[f] = s[f]
        BY <1>1, <3>2
      <4>2. q[f] = t[f]
        BY <1>1, <3>2
      <4> QED BY <1>1, <4>1, <4>2
    <3> QED BY <3>1, <3>2
  <2> QED BY <2>1, <2>2 DEF Alike, Alters
<1>4. \A c : Alike([s EXCEPT !.side_to_move = c], [t EXCEPT !.side_to_move = c])
  BY <1>1 DEF Alike, Alters, Fields
<1>5. \A p : Alike([s EXCEPT !.pending_removals = p], [t EXCEPT !.pending_removals = p])
  BY <1>1 DEF Alike, Alters, Fields
<1>6. /\ \A b : Alike([s EXCEPT !.stalemate_removing = b],
                      [t EXCEPT !.stalemate_removing = b])
      /\ \A b : Alike([s EXCEPT !.both_stalemate_removing = b],
                      [t EXCEPT !.both_stalemate_removing = b])
      /\ \A b : Alike([s EXCEPT !.mill_available_at_removal = b],
                      [t EXCEPT !.mill_available_at_removal = b])
  BY <1>1 DEF Alike, Alters, Fields
<1>7. Alike(clear_capture_state(s), clear_capture_state(t))
  BY <1>1 DEF clear_capture_state, Alike, Alters, Fields
<1>8. Alike(sync_action_state(s), sync_action_state(t))
  <2>1. synced_action(t) = synced_action(s)
    BY <1>2 DEF synced_action
  <2>2. \A x : Alike([s EXCEPT !.action = x], [t EXCEPT !.action = x])
    BY <1>1 DEF Alike, Alters, Fields
  <2> QED BY <2>1, <2>2 DEF sync_action_state
<1>9. Alike(sync_phase_with_active_hand(s), sync_phase_with_active_hand(t))
  <2>1. \A x : Alike([s EXCEPT !.phase = x], [t EXCEPT !.phase = x])
    BY <1>1 DEF Alike, Alters, Fields
  <2> QED BY <1>2, <2>1 DEF sync_phase_with_active_hand
<1>10. \A c, n : Alike([s EXCEPT !.pending_removals[c] = n],
                       [t EXCEPT !.pending_removals[c] = n])
  <2> SUFFICES ASSUME NEW c, NEW n
               PROVE  Alike([s EXCEPT !.pending_removals[c] = n],
                            [t EXCEPT !.pending_removals[c] = n])
    OBVIOUS
  <2> DEFINE p == [s.pending_removals EXCEPT ![c] = n]
  <2>1. [t.pending_removals EXCEPT ![c] = n] = p
    BY <1>2
  <2> QED BY <1>5, <2>1
<1> QED BY <1>3, <1>4, <1>6, <1>7, <1>8, <1>9, <1>10

LEMMA ResolveAlike ==
  ASSUME NEW s, NEW t, Alike(s, t), NEW o
  PROVE  Alike(resolve_stalemate(s, o), resolve_stalemate(t, o))
<1> DEFINE c == s.side_to_move
           owing(x) == [x EXCEPT !.pending_removals[c] = 1]
           ended(x, w, r) == [x EXCEPT !.phase = "GameOver", !.winner = w,
                                       !.outcome_reason = r]
           passed(x) == [x EXCEPT !.side_to_move = Opp(c)]
           again(x) == [owing(x) EXCEPT !.stalemate_removing = TRUE]
           two(x) == [owing(x) EXCEPT !.pending_removals[Opp(c)] = 1]
           both(x) == [two(x) EXCEPT !.both_stalemate_removing = TRUE]
<1>1. t.side_to_move = c
  BY DEF Alike, Alters, Fields
<1>2. Alike(owing(s), owing(t)) /\ Alike(passed(s), passed(t))
  BY StepsAlike
<1>3. \A w, r : Alike(ended(s, w, r), ended(t, w, r))
  BY StepsAlike
<1> HIDE DEF owing, passed
<1>4. Alike(again(s), again(t)) /\ Alike(two(s), two(t))
  BY <1>2, StepsAlike
<1> HIDE DEF again, two
<1>5. Alike(both(s), both(t))
  BY <1>4, StepsAlike
<1> HIDE DEF both, ended
<1>6. /\ Alike(clear_capture_state(owing(s)), clear_capture_state(owing(t)))
      /\ Alike(clear_capture_state(again(s)), clear_capture_state(again(t)))
      /\ Alike(clear_capture_state(both(s)), clear_capture_state(both(t)))
      /\ Alike(sync_phase_with_active_hand(passed(s)), sync_phase_with_active_hand(passed(t)))
  BY <1>2, <1>4, <1>5, StepsAlike
<1>7. CASE o.stalemate_action = "EndWithStalemateLoss"
  <2>1. /\ resolve_stalemate(s, o) = ended(s, Opp(c), "LoseNoLegalMoves")
        /\ resolve_stalemate(t, o) = ended(t, Opp(c), "LoseNoLegalMoves")
    BY <1>1, <1>7 DEF resolve_stalemate, ended
  <2> QED BY <1>3, <2>1
<1>8. CASE o.stalemate_action = "EndWithStalemateDraw"
  <2>1. /\ resolve_stalemate(s, o) = ended(s, DRAW, "DrawStalemate")
        /\ resolve_stalemate(t, o) = ended(t, DRAW, "DrawStalemate")
    BY <1>8 DEF resolve_stalemate, ended
  <2> QED BY <1>3, <2>1
<1>9. CASE o.stalemate_action = "ChangeSideToMove"
  <2>1. /\ resolve_stalemate(s, o) = sync_phase_with_active_hand(passed(s))
        /\ resolve_stalemate(t, o) = sync_phase_with_active_hand(passed(t))
    BY <1>1, <1>9 DEF resolve_stalemate, passed
  <2> QED BY <1>6, <2>1
<1>10. CASE o.stalemate_action = "RemoveOpponentsPieceAndMakeNextMove"
  <2>1. /\ resolve_stalemate(s, o) = clear_capture_state(again(s))
        /\ resolve_stalemate(t, o) = clear_capture_state(again(t))
    BY <1>1, <1>10 DEF resolve_stalemate, again, owing
  <2> QED BY <1>6, <2>1
<1>11. CASE o.stalemate_action = "RemoveOpponentsPieceAndChangeSideToMove"
  <2>1. /\ resolve_stalemate(s, o) = clear_capture_state(owing(s))
        /\ resolve_stalemate(t, o) = clear_capture_state(owing(t))
    BY <1>1, <1>11 DEF resolve_stalemate, owing
  <2> QED BY <1>6, <2>1
<1>12. CASE o.stalemate_action \notin {"EndWithStalemateLoss", "EndWithStalemateDraw",
              "ChangeSideToMove", "RemoveOpponentsPieceAndMakeNextMove",
              "RemoveOpponentsPieceAndChangeSideToMove"}
  <2>1. resolve_stalemate(s, o) = clear_capture_state(both(s))
    BY <1>12 DEF resolve_stalemate, owing, both, two
  <2>2. resolve_stalemate(t, o) = clear_capture_state(both(t))
    BY <1>1, <1>12 DEF resolve_stalemate, owing, both, two
  <2> QED BY <1>6, <2>1, <2>2
<1> QED BY <1>7, <1>8, <1>9, <1>10, <1>11, <1>12

LEMMA StalemateAlike ==
  ASSUME NEW s, NEW t, Alike(s, t), NEW o
  PROVE  Alike(maybe_handle_stalemate(s, o), maybe_handle_stalemate(t, o))
<1>1. /\ t.phase = s.phase /\ t.side_to_move = s.side_to_move
      /\ t.pending_removals = s.pending_removals
      /\ \A f \in SurroundingFields : t[f] = s[f]
  BY DEF Alike, Alters, Fields, SurroundingFields
<1>2. is_stalemate(t, o) <=> is_stalemate(s, o)
  <2>1. \A c : /\ is_all_surrounded(t, o, c) <=> is_all_surrounded(s, o, c)
               /\ BelowFlyLimit(t, o, c) <=> BelowFlyLimit(s, o, c)
               /\ OnBoard(t) = OnBoard(s)
    BY <1>1, SameSurrounding
  <2> QED BY <1>1, <2>1 DEF is_stalemate
<1>3. Alike(sync_action_state(resolve_stalemate(s, o)),
            sync_action_state(resolve_stalemate(t, o)))
  BY ResolveAlike, StepsAlike
<1> QED BY <1>2, <1>3 DEF maybe_handle_stalemate

LEMMA ShownAlike ==
  ASSUME NEW s, NEW t, Alike(s, t)
  PROVE  clear_key_history(Shown(t)) = clear_key_history(Shown(s))
<1>1. t.phase = s.phase
  BY DEF Alike, Alters, Fields
<1>2. Alike(Shown(s), Shown(t))
  <2>1. Alike([s EXCEPT !.mill_available_at_removal = FALSE],
              [t EXCEPT !.mill_available_at_removal = FALSE])
    BY StepsAlike
  <2> QED BY <1>1, <2>1 DEF Shown
<1>3. ASSUME NEW x, NEW y, Alike(x, y)
      PROVE  clear_key_history(y) = clear_key_history(x)
  <2> DEFINE p == clear_key_history(x)
             q == clear_key_history(y)
  <2>1. p = [f \in Fields |-> p[f]] /\ q = [f \in Fields |-> q[f]]
    BY <1>3 DEF clear_key_history, Alike, Alters
  <2>2. \A f \in Fields : q[f] = p[f]
    BY <1>3 DEF clear_key_history, Alike, Alters
  <2> HIDE DEF p, q
  <2>3. q = p
    BY <2>1, <2>2, SameRecord
  <2> QED BY <2>3 DEF p, q
<1> QED BY <1>2, <1>3

Draws == {"DrawThreefold", "DrawFiftyMove", "DrawEndgameFiftyMove"}
Drawn(s) == s.phase = "GameOver" /\ s.outcome_reason \in Draws

(* A quiet move differs in what is adjudicated, in the keys and the draws. *)
LEMMA QuietMoveAlike ==
  ASSUME NEW s, Live(s), s.phase # "GameOver", NEW o \in MillVariantOptions
  PROVE  \/ Alike(move_quietly(s, o, FALSE), move_quietly(s, o, TRUE))
         \/ Drawn(move_quietly(s, o, TRUE))
<1> DEFINE c == s.side_to_move
           cleared == clear_capture_state(s)
           passed == [cleared EXCEPT !.last_mill_from[c] = NONE,
                        !.last_mill_to[c] = NONE, !.side_to_move = Opp(c)]
           judged == maybe_draw_by_n_move_rule(push_key_and_check_threefold(passed, o), o)
           Tail1(x) == sync_action_state(sync_phase_with_active_hand(x))
<1>1. Live(cleared) /\ cleared.phase = s.phase /\ c \in Sides
  BY ClearLive, ClearEffect DEF Live, Alters, Fields, CaptureState
<1> HIDE DEF cleared
<1>2. Live(passed) /\ passed.phase = s.phase
  <2>1. Live(passed)
    BY <1>1, ForgetMillLive
  <2>2. DOMAIN cleared = Fields
    BY <1>1, FieldsOfState DEF Live
  <2> QED BY <1>1, <2>1, <2>2 DEF Fields
<1>3. /\ move_quietly(s, o, TRUE) = Tail1(judged)
      /\ move_quietly(s, o, FALSE) = Tail1(passed)
  BY DEF move_quietly, cleared
<1> HIDE DEF passed
<1>4. \/ Alters(passed, judged, {"key_history"})
      \/ Drawn(judged)
  BY <1>2, JudgedEffect DEF Drawn, Draws
<1>5. DOMAIN passed = Fields /\ judged \in MillStates
  BY <1>2, FieldsOfState, JudgedEffect DEF Live, Playable
<1> HIDE DEF judged
<1>6. CASE Alters(passed, judged, {"key_history"})
  <2>1. Alike(passed, judged)
    BY <1>5, <1>6 DEF Alike
  <2>2. Alike(sync_phase_with_active_hand(passed), sync_phase_with_active_hand(judged))
    BY <2>1, StepsAlike
  <2> QED BY <1>3, <2>2, StepsAlike
<1>7. CASE Drawn(judged)
  <2>1. sync_phase_with_active_hand(judged) = judged
    BY <1>7 DEF sync_phase_with_active_hand, Drawn
  <2>2. Drawn(sync_action_state(judged))
    <3>1. Alters(judged, sync_action_state(judged), {"action"})
      BY <1>5, SyncActionEffect
    <3> QED BY <1>7, <3>1 DEF Drawn, Alters, Fields
  <2> QED BY <1>3, <2>1, <2>2
<1> QED BY <1>4, <1>6, <1>7

LEMMA MoveAlike ==
  ASSUME NEW s, Fresh(s), NEW o \in MillVariantOptions,
         NEW from \in Nodes, NEW to \in Nodes
  PROVE  \/ apply_move(s, o, from, to, TRUE) = apply_move(s, o, from, to, FALSE)
         \/ Alike(apply_move(s, o, from, to, FALSE), apply_move(s, o, from, to, TRUE))
         \/ Drawn(apply_move(s, o, from, to, TRUE))
<1> DEFINE moved == bump_ply_since_capture(move_live_piece(s, from, to), o)
<1>1. Live(moved) /\ moved.phase # "GameOver"
  <2>1. Fresh(moved)
    BY MovedFresh
  <2> QED BY <2>1 DEF Fresh
<1>2. \/ apply_move(s, o, from, to, TRUE) = apply_move(s, o, from, to, FALSE)
      \/ /\ apply_move(s, o, from, to, TRUE) = move_quietly(moved, o, TRUE)
         /\ apply_move(s, o, from, to, FALSE) = move_quietly(moved, o, FALSE)
  BY DEF apply_move
<1> HIDE DEF moved
<1> QED BY <1>1, <1>2, QuietMoveAlike

(* Whichever path an action takes, in play or in the search tree, it leads *)
(* where the general path leads.                                           *)
LEMMA ShortcutsLead ==
  ASSUME NEW s, NEW o \in MillVariantOptions, Good(s, o),
         NEW a \in legal_actions(s, o), NEW played \in BOOLEAN
  PROVE  Shown(apply_to_state(s, o, a, played)) = Shown(apply_generally(s, o, a, played))
<1>1. Coherent(s) /\ Sound(s) /\ Counted(s, o) /\ Live(s)
      /\ a.kind \in {"Place", "Move", "Remove"}
  BY LegalActionTyped DEF Good
<1>2. CASE a.kind = "Place"
  <2>1. /\ Fresh(s) /\ s.phase = "Placing" /\ a.to \in empty_squares(s)
        /\ s.pieces_in_hand[s.side_to_move] > 0
    BY <1>1, <1>2, LegalPlace
  <2>2. CASE standard_fast_path_enabled(o)
    <3>1. apply_to_state(s, o, a, played) = fast_place(s, o, a.to)
      BY <1>2, <2>1, <2>2 DEF apply_to_state
    <3>2. apply_generally(s, o, a, played)
            = maybe_handle_stalemate(apply_place(s, o, a.to), o)
      BY <1>2 DEF apply_generally
    <3> QED BY <2>1, <2>2, <3>1, <3>2, PlacePathsAgree
  <2>3. CASE ~standard_fast_path_enabled(o)
    BY <1>2, <2>3 DEF apply_to_state
  <2> QED BY <2>2, <2>3
<1>3. CASE a.kind = "Move"
  <2>1. /\ Fresh(s) /\ a.from \in piece_bitboard(s, s.side_to_move)
        /\ a.to \in empty_squares(s)
    BY <1>1, <1>3, LegalMove
  <2>2. CASE ~played /\ fast_move_applies(s, o, a.from, a.to)
    <3>1. apply_to_state(s, o, a, played) = fast_move(s, o, a.from, a.to)
      BY <1>3, <2>2 DEF apply_to_state
    <3>2. apply_generally(s, o, a, played)
            = maybe_handle_stalemate(apply_move(s, o, a.from, a.to, FALSE), o)
      BY <1>3, <2>2 DEF apply_generally
    <3> QED BY <2>1, <2>2, <3>1, <3>2, MovePathsAgree
  <2>3. CASE ~(~played /\ fast_move_applies(s, o, a.from, a.to))
    BY <1>3, <2>3 DEF apply_to_state
  <2> QED BY <2>2, <2>3
<1>4. CASE a.kind = "Remove"
  <2>1. CASE ~played /\ fast_remove_applies(s, o)
    <3> DEFINE them == Opp(s.side_to_move)
    <3>1. them \in Sides /\ a.to \in piece_bitboard(s, them) /\ a.to \in Nodes
      <4>1. ~s.remove_own_piece[s.side_to_move]
        BY <2>1 DEF fast_remove_applies
      <4>2. them \in Sides /\ a.to \in piece_bitboard(s, them)
        BY <1>1, <1>4, <4>1, LegalRemove
      <4> QED BY <4>2, OccupancyOnBoard
    <3>2. s.pieces_on_board[them] > 0
      BY <1>1, <3>1, PieceIsCounted
    <3>3. apply_to_state(s, o, a, played) = fast_remove(s, o, a.to)
      BY <1>4, <2>1 DEF apply_to_state
    <3>4. apply_generally(s, o, a, played)
            = maybe_handle_stalemate(apply_remove(s, o, a.to), o)
      BY <1>4 DEF apply_generally
    <3> QED BY <1>1, <2>1, <3>1, <3>2, <3>3, <3>4, RemovePathsAgree
  <2>2. CASE ~(~played /\ fast_remove_applies(s, o))
    BY <1>4, <2>2 DEF apply_to_state
  <2> QED BY <2>1, <2>2
<1> QED BY <1>1, <1>2, <1>3, <1>4

LEMMA SearchSeesPlay ==
  ASSUME NEW s, NEW o \in MillVariantOptions, Good(s, o),
         NEW a \in legal_actions(s, o)
  PROVE  LET play == Shown(apply_generally(s, o, a, TRUE))
             tree == Shown(apply_generally(s, o, a, FALSE))
         IN play.outcome_reason \in Draws \/ clear_key_history(play) = clear_key_history(tree)
<1>1. Coherent(s) /\ Sound(s) /\ a.kind \in {"Place", "Move", "Remove"}
  BY LegalActionTyped DEF Good
<1>2. CASE a.kind # "Move"
  <2>1. apply_generally(s, o, a, TRUE) = apply_generally(s, o, a, FALSE)
    BY <1>2 DEF apply_generally
  <2> QED BY <2>1
<1>3. CASE a.kind = "Move"
  <2> DEFINE play == apply_move(s, o, a.from, a.to, TRUE)
             tree == apply_move(s, o, a.from, a.to, FALSE)
  <2>1. Fresh(s) /\ a.from \in Nodes /\ a.to \in Nodes
    BY <1>1, <1>3, LegalMove, OccupancyOnBoard
  <2>2. play = tree \/ Alike(tree, play) \/ Drawn(play)
    BY <2>1, MoveAlike
  <2>3. play \in MillStates
    BY <2>1, MoveCoherent DEF Coherent, Fresh
  <2> HIDE DEF play, tree
  <2>4. /\ apply_generally(s, o, a, TRUE) = maybe_handle_stalemate(play, o)
        /\ apply_generally(s, o, a, FALSE) = maybe_handle_stalemate(tree, o)
    BY <1>3 DEF apply_generally, play, tree
  <2>5. CASE Alike(tree, play)
    <3>1. Alike(maybe_handle_stalemate(tree, o), maybe_handle_stalemate(play, o))
      BY <2>5, StalemateAlike
    <3> QED BY <2>4, <3>1, ShownAlike
  <2>6. CASE Drawn(play)
    <3>1. maybe_handle_stalemate(play, o) = play
      BY <2>6 DEF maybe_handle_stalemate, is_stalemate, Drawn
    <3>2. Shown(play).outcome_reason = play.outcome_reason
      BY <2>3, AvailableEffect DEF Shown, Alters, Fields
    <3> QED BY <2>4, <2>6, <3>1, <3>2 DEF Drawn
  <2> QED BY <2>2, <2>4, <2>5, <2>6
<1> QED BY <1>2, <1>3

(* apply_to_state: in every position of any game, on any board and in any  *)
(* variant, each fast path computes what the general path computes, and an *)
(* action leads the search where it leads the players, but for the keys    *)
(* and the draws that only play adjudicates.  The fast paths leave code    *)
(* out because an invariant makes it idle: a side that is to place or to   *)
(* move owes nothing and has no capture target, the counts are those of    *)
(* the board.                                                              *)
THEOREM ShortcutsAgree == Spec => []PathsAgree
<1>1. GameInv => PathsAgree
  <2> SUFFICES ASSUME GameInv PROVE PathsAgree
    OBVIOUS
  <2>1. options \in MillVariantOptions /\ Good(state, options)
    BY VariantsAssumption DEF GameInv
  <2>2. ASSUME NEW a \in legal_actions(state, options)
        PROVE  /\ \A played \in BOOLEAN :
                    Shown(apply_to_state(state, options, a, played))
                      = Shown(apply_generally(state, options, a, played))
               /\ \/ Shown(apply_to_state(state, options, a, TRUE)).outcome_reason \in Draws
                  \/ clear_key_history(Shown(apply_to_state(state, options, a, TRUE)))
                       = clear_key_history(Shown(apply_to_state(state, options, a, FALSE)))
    <3>1. \A played \in BOOLEAN :
            Shown(apply_to_state(state, options, a, played))
              = Shown(apply_generally(state, options, a, played))
      BY <2>1, ShortcutsLead
    <3> QED BY <2>1, <3>1, SearchSeesPlay
  <2> QED BY <2>2 DEF PathsAgree, Shown, Draws
<1> QED BY <1>1, GameInvariant, PTL

-----------------------------------------------------------------------------
(* Reading a FEN *)

OwesAnything(s) == \E c \in Sides : s.pending_removals[c] > 0

(* Carried, of a position rather than of the state.                        *)
CarriedOf(s) ==
  [s EXCEPT !.key_history = << >>, !.board_full_removing = FALSE,
     !.board = [n \in Nodes |-> live_piece(s, n)],
     !.mill_available_at_removal = OwesAnything(s) /\ capture_targets(s) = {}]

(* A FEN carries the obligations: who owes how many removals, and of whose *)
(* pieces.                                                                 *)
LEMMA ObligationsRead ==
  ASSUME NEW s, Coherent(s), Due(s), s.phase # "GameOver"
  PROVE  LET fen == export_fen(s)
         IN /\ owed_removals(fen) = s.pending_removals
            /\ removes_own(fen) = s.remove_own_piece
            /\ mill_is_available(fen) <=> OwesAnything(s) /\ capture_targets(s) = {}
<1> DEFINE fen == export_fen(s)
           c == s.side_to_move
<1>1. s \in MillStates /\ c \in Sides /\ s.action = synced_action(s)
  BY DEF Coherent, Synced
<1>2. /\ s.pending_removals \in [Sides -> Nat]
      /\ s.remove_own_piece \in [Sides -> BOOLEAN]
  BY <1>1 DEF MillStates
<1>3. /\ fen.action = s.action /\ fen.side = c
      /\ fen.remove = [k \in Sides |-> Signed(s, k)]
      /\ fen.custodian = s.custodian_targets
      /\ fen.intervention = s.intervention_targets
      /\ fen.leap = s.leap_targets
  BY <1>1 DEF export_fen, Sides
<1> HIDE DEF fen
<1>4. \A k \in Sides : /\ Abs(fen.remove[k]) = s.pending_removals[k]
                       /\ fen.remove[k] = 0 <=> s.pending_removals[k] = 0
  BY <1>2, <1>3 DEF Signed, Abs
<1>5. ~(fen.action = "Remove" /\ fen.remove = Both(0))
  <2> SUFFICES ASSUME fen.action = "Remove" PROVE fen.remove # Both(0)
    OBVIOUS
  <2>1. s.pending_removals[c] > 0
    BY <1>1, <1>3 DEF synced_action
  <2>2. fen.remove[c] # 0
    BY <1>1, <1>2, <1>4, <2>1
  <2> QED BY <1>1, <2>2, BothAt
<1>6. owed_removals(fen) = [k \in Sides |-> Abs(fen.remove[k])]
  BY <1>5 DEF owed_removals
<1>7. owed_removals(fen) = s.pending_removals
  BY <1>2, <1>4, <1>6
<1>8. removes_own(fen) = s.remove_own_piece
  <2>1. \A k \in Sides : s.remove_own_piece[k] => s.pending_removals[k] > 0
    BY DEF Due
  <2>2. \A k \in Sides : (fen.remove[k] < 0) = s.remove_own_piece[k]
    BY <1>2, <1>3, <2>1 DEF Signed
  <2> QED BY <1>2, <2>2 DEF removes_own
<1>9. captures_of(fen) = capture_targets(s)
  BY <1>3 DEF captures_of, capture_targets
<1>10. s.pending_removals # Both(0) <=> OwesAnything(s)
  <2>1. \A k \in Sides : s.pending_removals[k] = 0 <=> ~(s.pending_removals[k] > 0)
    BY <1>2
  <2> QED BY <1>2, <2>1, BothIs, BothAt, SMTT(30) DEF OwesAnything
<1>11. mill_is_available(fen) <=> OwesAnything(s) /\ capture_targets(s) = {}
  BY <1>7, <1>9, <1>10 DEF mill_is_available
<1> QED BY <1>7, <1>8, <1>11 DEF fen

LEMMA FenRead ==
  ASSUME NEW s, Coherent(s), Due(s), OneFlag(s), s.phase # "GameOver",
         s.winner = NONE, s.outcome_reason = "Ongoing"
  PROVE  read_fen(export_fen(s)) = CarriedOf(s)
<1> DEFINE fen == export_fen(s)
           r == read_fen(fen)
           t == CarriedOf(s)
<1>1. s \in MillStates /\ s.side_to_move \in Sides /\ DOMAIN s = Fields
  BY FieldsOfState DEF Coherent, Synced
<1>2. /\ owed_removals(fen) = s.pending_removals
      /\ removes_own(fen) = s.remove_own_piece
      /\ mill_is_available(fen) <=> OwesAnything(s) /\ capture_targets(s) = {}
  BY ObligationsRead
<1>3. DOMAIN r = Fields /\ DOMAIN t = Fields
  BY <1>1 DEF read_fen, CarriedOf, Fields
<1>4. r.board = t.board /\ r.marked = t.marked /\ r.side_to_move = t.side_to_move
  BY <1>1 DEF read_fen, export_fen, CarriedOf, Fields, Sides
<1>5. /\ r.phase = t.phase /\ r.action = t.action
      /\ r.pieces_in_hand = t.pieces_in_hand /\ r.pieces_on_board = t.pieces_on_board
      /\ r.ply_since_capture = t.ply_since_capture
      /\ r.last_mill_from = t.last_mill_from /\ r.last_mill_to = t.last_mill_to
      /\ r.formed_mills = t.formed_mills
      /\ r.custodian_targets = t.custodian_targets
      /\ r.intervention_targets = t.intervention_targets
      /\ r.leap_targets = t.leap_targets
      /\ r.key_history = t.key_history /\ r.board_full_removing = t.board_full_removing
  BY <1>1 DEF read_fen, export_fen, CarriedOf, Fields
<1>6. /\ r.pending_removals = t.pending_removals
      /\ r.remove_own_piece = t.remove_own_piece
  BY <1>1, <1>2 DEF read_fen, CarriedOf, Fields
<1>7. r.mill_available_at_removal = t.mill_available_at_removal
  <2>1. r.mill_available_at_removal = mill_is_available(fen)
    BY DEF read_fen
  <2>2. t.mill_available_at_removal = (OwesAnything(s) /\ capture_targets(s) = {})
    BY <1>1 DEF CarriedOf, Fields
  <2>3. mill_is_available(fen) \in BOOLEAN
    BY DEF mill_is_available
  <2> HIDE DEF r, t, fen
  <2> QED BY <1>2, <2>1, <2>2, <2>3
<1>8. /\ r.stalemate_removing = t.stalemate_removing
      /\ r.both_stalemate_removing = t.both_stalemate_removing
  <2>1. /\ t.stalemate_removing = s.stalemate_removing
        /\ t.both_stalemate_removing = s.both_stalemate_removing
    BY <1>1 DEF CarriedOf, Fields
  <2>2. /\ r.stalemate_removing = (stalemate_flag(s) = 1)
        /\ r.both_stalemate_removing = (stalemate_flag(s) = 2)
    BY DEF read_fen, export_fen
  <2>3. s.stalemate_removing \in BOOLEAN /\ s.both_stalemate_removing \in BOOLEAN
    BY <1>1 DEF MillStates
  <2>4. /\ (stalemate_flag(s) = 1) <=> s.stalemate_removing
        /\ (stalemate_flag(s) = 2) <=> s.both_stalemate_removing
    BY <2>3 DEF stalemate_flag, OneFlag
  <2> HIDE DEF r, t
  <2> QED BY <2>1, <2>2, <2>3, <2>4
<1>9. r.winner = t.winner /\ r.outcome_reason = t.outcome_reason
  BY <1>1 DEF read_fen, CarriedOf, Fields
<1>10. \A f \in Fields : r[f] = t[f]
  <2> HIDE DEF r, t
  <2> QED BY <1>4, <1>5, <1>6, <1>7, <1>8, <1>9 DEF Fields
<1>11. r = [f \in Fields |-> r[f]] /\ t = [f \in Fields |-> t[f]]
  <2>1. r = [f \in DOMAIN r |-> r[f]]
    BY DEF read_fen
  <2>2. t = [f \in DOMAIN t |-> t[f]]
    BY DEF CarriedOf
  <2> HIDE DEF r, t
  <2> QED BY <1>3, <2>1, <2>2
<1> HIDE DEF r, t
<1>12. r = t
  BY <1>10, <1>11
<1> QED BY <1>12 DEF r, t

(* The draw that play leaves to a removal owed at the n-move limit.        *)
DueAtTheLimit(s, o) ==
  OwesAnything(s) /\ MoveCounting(s, o) /\ n_move_rule_reached(s, o)

(* Reading does nothing to a calm position but call the draw at the limit. *)
LEMMA NothingToFind ==
  ASSUME NEW s, NEW o \in MillVariantOptions, Good(s, o), Calm(s, o), Enough(s, o),
         s.phase # "GameOver", o.stalemate_action # "ChangeSideToMove"
  PROVE  LET t == CarriedOf(s)
             u == check_if_game_is_over(t, o)
         IN /\ DueAtTheLimit(s, o) => u.winner = DRAW
            /\ ~DueAtTheLimit(s, o) => u = t
<1> DEFINE c == s.side_to_move
           t == CarriedOf(s)
           full == maybe_finish_full_board(t, o)
           drawn == maybe_draw_by_n_move_rule(full, o)
           short == check_too_few(drawn, o)
           u == check_if_game_is_over(t, o)
<1>1. s \in MillStates /\ c \in Sides /\ DOMAIN s = Fields
  BY FieldsOfState DEF Good, Coherent, Synced
<1>2. /\ DOMAIN t = Fields
      /\ t.board = [n \in Nodes |-> live_piece(s, n)] /\ t.marked = s.marked
      /\ t.phase = s.phase /\ t.side_to_move = c
      /\ t.pieces_in_hand = s.pieces_in_hand
      /\ t.pieces_on_board = s.pieces_on_board
      /\ t.pending_removals = s.pending_removals
      /\ t.ply_since_capture = s.ply_since_capture
      /\ t.last_mill_from = s.last_mill_from /\ t.last_mill_to = s.last_mill_to
      /\ t.formed_mills = s.formed_mills
  BY <1>1 DEF CarriedOf, Fields
<1> HIDE DEF t
<1>3. SameGround(s, t)
  <2>1. \A n \in Nodes : live_piece(t, n) = live_piece(s, n)
    BY <1>2 DEF live_piece
  <2>2. \A k : piece_bitboard(t, k) = piece_bitboard(s, k)
    BY <2>1 DEF piece_bitboard
  <2>3. board_occupied(t) = board_occupied(s)
    BY <1>2 DEF board_occupied, live_piece
  <2> QED BY <1>2, <2>2, <2>3 DEF SameGround
<1>4. full = t
  <2>1. empty_squares(t) = empty_squares(s)
    BY <1>3 DEF SameGround, empty_squares
  <2>2. ~Undecided(t, o)
    BY <1>2, <2>1 DEF Undecided, board_is_full, Calm
  <2> QED BY <2>2 DEF maybe_finish_full_board, Undecided
<1> HIDE DEF full
<1>5. /\ MoveCounting(t, o) <=> MoveCounting(s, o)
      /\ n_move_rule_reached(t, o) <=> n_move_rule_reached(s, o)
  BY <1>2, SameThreshold DEF MoveCounting, n_move_rule_reached
<1>6. t.phase # "GameOver"
  BY <1>2
<1>7. DueAtTheLimit(s, o) => u.winner = DRAW
  <2> SUFFICES ASSUME DueAtTheLimit(s, o) PROVE u.winner = DRAW
    OBVIOUS
  <2>1. \E x : drawn = game_over(t, DRAW, x)
    BY <1>4, <1>5 DEF maybe_draw_by_n_move_rule, DueAtTheLimit
  <2> HIDE DEF drawn
  <2>2. drawn.phase = "GameOver" /\ drawn.winner = DRAW
    BY <1>2, <2>1 DEF game_over, Fields
  <2>3. u = drawn
    BY <1>4, <1>6, <2>2 DEF check_if_game_is_over, full, drawn
  <2> HIDE DEF u
  <2> QED BY <2>2, <2>3
<1>8. ~DueAtTheLimit(s, o) => u = t
  <2> SUFFICES ASSUME ~DueAtTheLimit(s, o) PROVE u = t
    OBVIOUS
  <2>1. ~(MoveCounting(s, o) /\ n_move_rule_reached(s, o))
    <3>1. CASE OwesAnything(s)
      BY <3>1 DEF DueAtTheLimit
    <3>2. CASE ~OwesAnything(s)
      <4>1. ~Owes(s)
        BY <1>1, <3>2 DEF OwesAnything, Owes
      <4>2. draw_threshold(s, o) > 0 => s.ply_since_capture < draw_threshold(s, o)
        BY <4>1 DEF Good, Paced
      <4>3. draw_threshold(s, o) \in Nat /\ s.ply_since_capture \in Nat
        BY <1>1, ThresholdNatural DEF MillStates
      <4> QED BY <4>2, <4>3 DEF n_move_rule_reached
    <3> QED BY <3>1, <3>2
  <2>2. drawn = t
    BY <1>4, <1>5, <2>1 DEF maybe_draw_by_n_move_rule
  <2> HIDE DEF drawn
  <2>3. \A k \in Sides : ~has_too_few(t, o, k)
    <3>1. /\ s.pieces_on_board \in [Sides -> Int] /\ s.pieces_in_hand \in [Sides -> Nat]
          /\ o.pieces_at_least_count \in Nat
      BY <1>1 DEF MillStates, MillVariantOptions
    <3> QED BY <1>2, <3>1 DEF has_too_few, Enough, Held
  <2>4. short = t
    BY <2>2, <2>3 DEF check_too_few
  <2> HIDE DEF short
  <2>5. ~is_stalemate(t, o)
    <3>1. ~is_stalemate(s, o)
      BY DEF Calm
    <3>2. /\ is_all_surrounded(t, o, c) <=> is_all_surrounded(s, o, c)
          /\ BelowFlyLimit(t, o, c) <=> BelowFlyLimit(s, o, c)
          /\ OnBoard(t) = OnBoard(s)
      BY <1>3, GroundSurrounding
    <3> QED BY <1>2, <3>1, <3>2 DEF is_stalemate
  <2>6. maybe_handle_stalemate(t, o) = t
    BY <2>5 DEF maybe_handle_stalemate
  <2> QED BY <1>4, <1>6, <2>2, <2>4, <2>6 DEF check_if_game_is_over, full, drawn, short
<1> QED BY <1>7, <1>8 DEF u, t

(* A game carried over by its FEN goes on from the same position.          *)
THEOREM FenCarriesTheGame ==
  ASSUME \A o \in Variants : /\ LostOnTheBoard(o)
                             /\ o.stalemate_action # "ChangeSideToMove"
  PROVE  Spec => []FenKeepsTheGame
<1>1. CalmInv => FenKeepsTheGame
  <2> SUFFICES ASSUME CalmInv, Ongoing PROVE
        LET reread == set_from_fen(export_fen(state), options)
        IN IF OwesAtTheLimit(state, options) THEN reread.winner = DRAW
           ELSE reread = Carried(state)
    BY DEF FenKeepsTheGame
  <2> DEFINE fen == export_fen(state)
             t == CarriedOf(state)
             u == check_if_game_is_over(t, options)
  <2>1. /\ options \in Variants /\ options \in MillVariantOptions
        /\ Good(state, options) /\ Judged(state, options) /\ Calm(state, options)
        /\ state.phase # "GameOver"
    BY VariantsAssumption DEF CalmInv, ResultInv, GameInv, Ongoing
  <2>2. Verdict(state, options) /\ Enough(state, options)
    BY <2>1, StillEnough
  <2>3. /\ Coherent(state) /\ Due(state) /\ OneFlag(state)
        /\ state.winner = NONE /\ state.outcome_reason = "Ongoing"
    BY <2>1, <2>2 DEF Good, Sound, Calm, Verdict
  <2>4. read_fen(fen) = t
    BY <2>1, <2>3, FenRead
  <2>5. fen.phase # "GameOver"
    BY <2>1 DEF export_fen
  <2>6. set_from_fen(fen, options) = u
    BY <2>4, <2>5 DEF set_from_fen
  <2>7. /\ DueAtTheLimit(state, options) => u.winner = DRAW
        /\ ~DueAtTheLimit(state, options) => u = t
    BY <2>1, <2>2, NothingToFind
  <2>8. /\ DueAtTheLimit(state, options) <=> OwesAtTheLimit(state, options)
        /\ t = Carried(state)
    BY DEF DueAtTheLimit, OwesAtTheLimit, OwesAnything, Owing, CarriedOf, Carried
  <2> HIDE DEF fen, t, u
  <2> QED BY <2>6, <2>7, <2>8 DEF fen
<1> QED BY <1>1, CalmInvariant, PTL
=============================================================================
