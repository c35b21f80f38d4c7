---------------------------- MODULE MillWorkbench ----------------------------
(***************************************************************************)
(* The search's one mutable position (MillWorkbench of crates/tgf-mill):   *)
(* do_move plays an action in place and pushes a record of what it may     *)
(* change, undo_move puts that back.  A record holds some fields of the    *)
(* state whole, some cells of the board and the part of the repetition     *)
(* history that the action is going to drop.                               *)
(***************************************************************************)
EXTENDS MillRules

CaptureFields == {"custodian_targets", "intervention_targets", "leap_targets"}

(* MillStandardUndoScalars: the standard rules never touch the others.     *)
StandardFields ==
  {"side_to_move", "phase", "action", "pieces_in_hand", "pieces_on_board",
   "pending_removals", "mill_available_at_removal", "stalemate_removing",
   "both_stalemate_removing", "board_full_removing", "remove_own_piece",
   "winner", "outcome_reason", "ply_since_capture", "last_mill_from",
   "last_mill_to"}

(* MillUndoFullCore *)
FullFields == StandardFields \union CaptureFields \union {"formed_mills", "marked"}

is_standard_undo(s, o) ==
  /\ standard_fast_path_enabled(o)
  /\ s.marked = {}
  /\ \A f \in CaptureFields : s[f] = Both({})

BUG_two_cells_are_enough(s, o) == FALSE

requires_full_board_snapshot(s, o) ==
  \/ s.marked # {}
  \/ o.mill_formation_action_in_placing_phase
       \in {"MarkAndDelayRemovingPieces", "RemovalBasedOnMillCounts"}
  \/ o.custodian_capture.enabled \/ o.intervention_capture.enabled
  \/ o.leap_capture.enabled

(* MillBoardUndo: the cells whose content is kept.                         *)
cells_kept(s, o, a) ==
  IF requires_full_board_snapshot(s, o) THEN Nodes ELSE {a.from, a.to} \ {NONE}

must_restore_history(s, a) ==
  \/ Len(s.key_history) = HistoryCap
  \/ a.kind \in {"Place", "Remove"} /\ s.key_history # << >>

capture(s, o, a) ==
  [fields |-> [f \in IF is_standard_undo(s, o) THEN StandardFields ELSE FullFields
                 |-> s[f]],
   standard |-> is_standard_undo(s, o),
   cells |-> [n \in cells_kept(s, o, a) |-> s.board[n]],
   restored |-> must_restore_history(s, a),
   keys |-> IF must_restore_history(s, a) THEN s.key_history ELSE << >>,
   key_count |-> Len(s.key_history)]

(* Truncating never lengthens a history.                                   *)
keys_after_undo(u, keys) ==
  IF u.restored THEN u.keys
  ELSE IF u.key_count <= Len(keys) THEN SubSeq(keys, 1, u.key_count) ELSE keys

restore(u, s) ==
  [f \in DOMAIN s |->
     IF f = "board" THEN [n \in Nodes |-> IF n \in DOMAIN u.cells THEN u.cells[n]
                                          ELSE s.board[n]]
     ELSE IF f = "key_history" THEN keys_after_undo(u, s.key_history)
     ELSE IF f \in DOMAIN u.fields THEN u.fields[f]
     ELSE IF f = "marked" /\ u.standard THEN {} ELSE s[f]]

(* do_move and undo_move on the undo stack of a workbench.                 *)
do_move(wb, o, a) ==
  [state |-> apply_to_state(wb.state, o, a, FALSE),
   undo_stack |-> Append(wb.undo_stack, capture(wb.state, o, a))]

undo_move(wb) ==
  LET depth == Len(wb.undo_stack)
  IN IF depth = 0 THEN wb
     ELSE [state |-> restore(wb.undo_stack[depth], wb.state),
           undo_stack |-> SubSeq(wb.undo_stack, 1, depth - 1)]

-----------------------------------------------------------------------------
Tried(wb) == {do_move(wb, options, a) : a \in legal_actions(wb.state, options)}

(* MillWorkbench: from any position of any game, whatever the search tries *)
(* and takes back leaves the position as it was, every field of it that    *)
(* the rules read, also when an action is tried below another.             *)
UndoRestores ==
  LET root == [state |-> state, undo_stack |-> << >>]
      once == Tried(root)
      owing == {wb \in once : wb.state.action = "Remove"}
  IN /\ \A wb \in once : undo_move(wb) = root
     /\ \A wb \in owing : \A below \in Tried(wb) : undo_move(below) = wb
=============================================================================
