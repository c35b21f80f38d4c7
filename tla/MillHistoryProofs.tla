------------------------- MODULE MillHistoryProofs -------------------------
(***************************************************************************)
(* What the observer of MillHistory finds of the repeated-mill rules, for  *)
(* every board and every set of variants.  The engine judges by its own    *)
(* records (formed_mills_bb, last_mill_from, last_mill_to); each proof     *)
(* says in what way they cover what the observer remembers: the lines paid *)
(* for are formed mills (PaidIsFormed), and a move from one mill to        *)
(* another is the last one noted (ShuttlesAreNoted).                       *)
(*                                                                         *)
(* apply_move settles a leap before it notes a mill, so neither holds      *)
(* where there are leaps.  A mill pays once only where nothing else pays   *)
(* (OnlyMillsPay).  With one_time_use_mill a line that has been used is    *)
(* not noted again, so the observer of shuttles needs that rule to be off. *)
(***************************************************************************)
EXTENDS MillHistory, MillGameProofs

-----------------------------------------------------------------------------
(* A game that is watched is a game *)

LEMMA WatchedInit == HistoryInit => Init
BY DEF HistoryInit

LEMMA WatchedNext == Inv /\ [HistoryNext]_hvars => [Next]_vars
<1> SUFFICES ASSUME Inv, [HistoryNext]_hvars PROVE [Next]_vars
  OBVIOUS
<1>1. CASE UNCHANGED hvars
  BY <1>1 DEF hvars, vars
<1>2. CASE HistoryNext
  <2>1. PICK a \in legal_actions(state, options) :
           state' = apply_to_state(state, options, a, TRUE) /\ UNCHANGED options
    BY <1>2 DEF HistoryNext
  <2>2. a.kind \in {"Place", "Move", "Remove"}
    BY <2>1, LegalActionTyped DEF Inv
  <2> QED BY <2>1, <2>2 DEF Next, Place, Move, Remove, Apply
<1> QED BY <1>1, <1>2

(* The observer changes nothing: what is proved of every game holds of a   *)
(* watched one.                                                            *)
LEMMA WatchedGames == HistorySpec => []GameInv
<1>1. HistoryInit => Inv
  <2>1. Init => Inv
    BY InitialCoherent, VariantsAssumption DEF Init, Inv
  <2> QED BY <2>1, WatchedInit
<1>2. Inv /\ [Next]_vars => Inv'
  <2> SUFFICES ASSUME Inv, [Next]_vars PROVE Inv'
    OBVIOUS
  <2>1. CASE UNCHANGED vars
    BY <2>1 DEF Inv, vars
  <2>2. ASSUME NEW kind, Apply(kind) PROVE Inv'
    BY <2>2, ApplyCoherent DEF Apply, Inv
  <2> QED BY <2>1, <2>2 DEF Next, Place, Move, Remove
<1>3. HistorySpec => Spec
  BY <1>1, <1>2, WatchedInit, WatchedNext, PTL DEF HistorySpec, Spec
<1> QED BY <1>3, GameInvariant, PTL

-----------------------------------------------------------------------------
(* The lines an action completes and opens *)

(* A new piece completes the lines through its point.                      *)
LEMMA CompletedThrough ==
  ASSUME NEW s, NEW t, NEW w, NEW o, NEW c, NEW to, NEW rest,
         rest \subseteq piece_bitboard(s, c), to \notin piece_bitboard(s, c),
         piece_bitboard(w, c) = rest \union {to},
         piece_bitboard(t, c) = piece_bitboard(w, c)
  PROVE  Completed(s, t, o, c) = formed_mills_at(w, o, to, c)
BY DEF Completed, MillsOf, formed_mills_at

(* The lines a moving piece leaves go through its old point.               *)
LEMMA OpenedThrough ==
  ASSUME NEW s, NEW t, NEW o, NEW c, NEW from,
         piece_bitboard(s, c) \ {from} \subseteq piece_bitboard(t, c),
         NEW l \in Opened(s, t, o, c)
  PROVE  l \in MillsOf(s, o, c) /\ from \in l
BY DEF Opened, MillsOf

LEMMA PlacedPiece ==
  ASSUME NEW s, Fresh(s), s.phase = "Placing", NEW to \in empty_squares(s)
  PROVE  LET w == place_live_piece(s, to)
             c == s.side_to_move
         IN /\ piece_bitboard(w, c) = piece_bitboard(s, c) \union {to}
            /\ to \notin piece_bitboard(s, c)
<1> DEFINE w == place_live_piece(s, to)
           c == s.side_to_move
<1>1. /\ c \in Sides /\ c # NONE /\ to \in Nodes
      /\ s.board \in [Nodes -> Sides \union {NONE}] /\ s.marked \in SUBSET Nodes
      /\ s.board[to] = NONE /\ to \notin s.marked
  BY DEF Fresh, Live, MillStates, empty_squares, board_occupied, Sides, NONE
<1>2. w.board = [s.board EXCEPT ![to] = c] /\ w.marked = s.marked
  <2>1. /\ w.board = [s.board EXCEPT ![to] = c]
        /\ Alters(s, w, {"board", "pieces_in_hand", "pieces_on_board",
                         "ply_since_capture", "key_history"})
    BY <1>1, PlacedFresh
  <2> HIDE DEF w
  <2> QED BY <2>1 DEF Alters, Fields
<1> HIDE DEF w
<1>3. \A n \in Nodes : live_piece(w, n) = IF n = to THEN c ELSE live_piece(s, n)
  BY <1>1, <1>2 DEF live_piece
<1> QED BY <1>1, <1>3 DEF piece_bitboard, live_piece, w

LEMMA MovedPiece ==
  ASSUME NEW s, Fresh(s), NEW o, NEW from \in piece_bitboard(s, s.side_to_move),
         NEW to \in empty_squares(s), NEW w,
         w = bump_ply_since_capture(move_live_piece(s, from, to), o)
  PROVE  LET c == s.side_to_move
         IN /\ piece_bitboard(w, c) = (piece_bitboard(s, c) \ {from}) \union {to}
            /\ to \notin piece_bitboard(s, c) /\ from # to
<1> DEFINE c == s.side_to_move
           v == bump_ply_since_capture(move_live_piece(s, from, to), o)
<1>1. /\ c \in Sides /\ c # NONE /\ to \in Nodes /\ from \in Nodes
      /\ s.board \in [Nodes -> Sides \union {NONE}] /\ s.marked \in SUBSET Nodes
      /\ s.board[to] = NONE /\ to \notin s.marked /\ live_piece(s, from) = c
  BY DEF Fresh, Live, MillStates, empty_squares, board_occupied, piece_bitboard,
         Sides, NONE
<1>2. from \notin s.marked /\ s.board[from] = c /\ from # to
  BY <1>1 DEF live_piece
<1>3. w.board = [s.board EXCEPT ![from] = NONE, ![to] = c] /\ w.marked = s.marked
  <2>1. /\ v.board = [s.board EXCEPT ![from] = NONE, ![to] = c]
        /\ Alters(s, v, {"board", "ply_since_capture"})
    BY <1>1, MovedFresh
  <2> HIDE DEF v
  <2> QED BY <2>1 DEF Alters, Fields, v
<1>4. \A n \in Nodes : live_piece(w, n) = IF n = to THEN c ELSE IF n = from THEN NONE
                                          ELSE live_piece(s, n)
  BY <1>1, <1>2, <1>3 DEF live_piece
<1>5. live_piece(s, to) = NONE
  BY <1>1 DEF live_piece
<1> QED BY <1>1, <1>2, <1>4, <1>5 DEF piece_bitboard

-----------------------------------------------------------------------------
(* What a turn without a mill earns *)

(* Variants in which a removal can be earned by a mill only: no captures,  *)
(* no counting of mills when the moving phase begins, and neither a        *)
(* stalemate nor a full board is settled by removing pieces.               *)
OnlyMillsPay(o) ==
  /\ ~o.custodian_capture.enabled /\ ~o.intervention_capture.enabled
  /\ ~o.leap_capture.enabled
  /\ ~CountedAction(o)
  /\ o.stalemate_action \notin StalemateRemovals
  /\ FillsBoard(o) => o.board_full_action \in {"FirstPlayerLose", "AgreeToDraw"}

(* t owes what w owes.                                                     *)
OwesAs(w, t) == DOMAIN t = Fields /\ t.pending_removals = w.pending_removals

LEMMA AssignmentsOweNothing ==
  ASSUME NEW w, NEW s, OwesAs(w, s)
  PROVE  /\ \A x : /\ OwesAs(w, [s EXCEPT !.side_to_move = x])
                   /\ OwesAs(w, [s EXCEPT !.pieces_in_hand = x])
                   /\ OwesAs(w, [s EXCEPT !.phase = x])
                   /\ OwesAs(w, [s EXCEPT !.action = x])
         /\ \A x, y : OwesAs(w, [s EXCEPT !.marked = x, !.board = y])
         /\ \A x, r : OwesAs(w, game_over(s, x, r))
         /\ \A x, r : OwesAs(w, [s EXCEPT !.phase = "GameOver", !.winner = x,
                                          !.outcome_reason = r])
         /\ OwesAs(w, clear_capture_state(s))
BY DEF OwesAs, Fields, game_over, clear_capture_state

LEMMA HelpersOweNothing ==
  ASSUME NEW w, NEW s, OwesAs(w, s)
  PROVE  /\ OwesAs(w, sync_action_state(s))
         /\ OwesAs(w, sync_phase_with_active_hand(s))
         /\ OwesAs(w, sweep_marked(s))
<1>1. OwesAs(w, sync_action_state(s))
  BY AssignmentsOweNothing DEF sync_action_state
<1>2. OwesAs(w, sync_phase_with_active_hand(s))
  BY AssignmentsOweNothing DEF sync_phase_with_active_hand
<1>3. OwesAs(w, sweep_marked(s))
  BY AssignmentsOweNothing DEF sweep_marked
<1> QED BY <1>1, <1>2, <1>3

LEMMA TransitionOwesNothing ==
  ASSUME NEW w, NEW s, OwesAs(w, s), NEW o, ~CountedAction(o)
  PROVE  OwesAs(w, maybe_transition_to_moving(s, o))
<1>1. ASSUME NEW v, OwesAs(w, v) PROVE OwesAs(w, enter_moving_phase(v, o))
  <2> DEFINE moving == [v EXCEPT !.phase = "Moving"]
             swept == sweep_marked(moving)
             side == IF o.is_defender_move_first THEN 1
                     ELSE IF KeepsSideAtPlacingEnd(o) THEN swept.side_to_move ELSE 0
  <2>1. OwesAs(w, moving)
    BY <1>1, AssignmentsOweNothing
  <2> HIDE DEF moving
  <2>2. OwesAs(w, swept)
    BY <2>1, HelpersOweNothing
  <2> HIDE DEF swept
  <2>3. OwesAs(w, [swept EXCEPT !.side_to_move = side])
    BY <2>2, AssignmentsOweNothing
  <2>4. enter_moving_phase(v, o) = [swept EXCEPT !.side_to_move = side]
    BY DEF enter_moving_phase, swept, moving, CountedAction
  <2> QED BY <2>3, <2>4
<1> DEFINE placed == IF s.phase = "Placing" /\ s.pieces_in_hand = Both(0)
                       THEN enter_moving_phase(s, o) ELSE s
           emptied == [placed EXCEPT !.pieces_in_hand = Both(0)]
<1>2. OwesAs(w, placed)
  BY <1>1
<1> HIDE DEF placed
<1>3. OwesAs(w, emptied)
  BY <1>2, AssignmentsOweNothing
<1> HIDE DEF emptied
<1>4. OwesAs(w, enter_moving_phase(emptied, o))
  BY <1>1, <1>3
<1>5. maybe_transition_to_moving(s, o) \in {placed, enter_moving_phase(emptied, o)}
  BY DEF maybe_transition_to_moving, placed, emptied
<1> QED BY <1>2, <1>4, <1>5

(* The tail of a turn and the stalemate check ask for no removal.          *)
LEMMA SettleOwesNothing ==
  ASSUME NEW w, NEW s, OwesAs(w, s), NEW o, OnlyMillsPay(o)
  PROVE  OwesAs(w, settle(s, o))
<1> DEFINE moved == maybe_transition_to_moving(s, o)
           phased == sync_phase_with_active_hand(moved)
           finished == maybe_finish_full_board(phased, o)
<1>1. OwesAs(w, moved)
  BY TransitionOwesNothing DEF OnlyMillsPay
<1> HIDE DEF moved
<1>2. OwesAs(w, phased)
  BY <1>1, HelpersOweNothing
<1> HIDE DEF phased
<1>3. finished \in {phased, game_over(phased, 1, "LoseFullBoard"),
                    game_over(phased, DRAW, "DrawFullBoard")}
  BY DEF maybe_finish_full_board, OnlyMillsPay
<1> HIDE DEF phased, finished
<1>4. OwesAs(w, finished)
  <2>1. /\ OwesAs(w, game_over(phased, 1, "LoseFullBoard"))
        /\ OwesAs(w, game_over(phased, DRAW, "DrawFullBoard"))
    BY <1>2, AssignmentsOweNothing
  <2> QED BY <1>2, <1>3, <2>1
<1>5. OwesAs(w, sync_action_state(finished))
  BY <1>4, HelpersOweNothing
<1> QED BY <1>5 DEF settle, moved, phased, finished

LEMMA StalemateOwesNothing ==
  ASSUME NEW w, NEW s, OwesAs(w, s), NEW o \in MillVariantOptions, OnlyMillsPay(o)
  PROVE  OwesAs(w, maybe_handle_stalemate(s, o))
<1> DEFINE c == s.side_to_move
           passed == [s EXCEPT !.side_to_move = Opp(c)]
           t == resolve_stalemate(s, o)
           Over(x, r) ==
             [s EXCEPT !.phase = "GameOver", !.winner = x, !.outcome_reason = r]
<1>1. o.stalemate_action \in {"EndWithStalemateLoss", "EndWithStalemateDraw",
                              "ChangeSideToMove"}
  BY DEF OnlyMillsPay, MillVariantOptions, StalemateActions, StalemateRemovals
<1>2. t \in {sync_phase_with_active_hand(passed),
             Over(Opp(c), "LoseNoLegalMoves"), Over(DRAW, "DrawStalemate")}
  BY <1>1 DEF resolve_stalemate
<1>3. OwesAs(w, passed) /\ \A x, r : OwesAs(w, Over(x, r))
  BY AssignmentsOweNothing
<1> HIDE DEF passed, Over, t
<1>4. OwesAs(w, t)
  BY <1>2, <1>3, HelpersOweNothing
<1>5. OwesAs(w, sync_action_state(t))
  BY <1>4, HelpersOweNothing
<1> QED BY <1>5 DEF maybe_handle_stalemate, t

LEMMA QuietTurnOwesNothing ==
  ASSUME NEW s, DOMAIN s = Fields, NEW o, OnlyMillsPay(o)
  PROVE  /\ OwesAs(s, place_quietly(s, o))
         /\ OwesAs(s, move_quietly(s, o, TRUE))
<1>1. OwesAs(s, place_quietly(s, o))
  <2> DEFINE cleared == clear_capture_state(s)
             stopped == maybe_stop_placing_when_two_empty(cleared, o)
             passed == [stopped EXCEPT !.side_to_move = Opp(stopped.side_to_move)]
  <2>1. OwesAs(s, cleared)
    BY AssignmentsOweNothing DEF OwesAs
  <2> HIDE DEF cleared
  <2>2. OwesAs(s, stopped)
    BY <2>1, AssignmentsOweNothing DEF maybe_stop_placing_when_two_empty
  <2> HIDE DEF stopped
  <2>3. OwesAs(s, passed)
    BY <2>2, AssignmentsOweNothing
  <2> HIDE DEF passed
  <2>4. place_quietly(s, o) \in {settle(stopped, o), settle(passed, o)}
    BY DEF place_quietly, stopped, cleared, passed
  <2> QED BY <2>2, <2>3, <2>4, SettleOwesNothing
<1>2. OwesAs(s, move_quietly(s, o, TRUE))
  <2> DEFINE q == Passed(s)
             p == push_key(q, o)
             u == push_key_and_check_threefold(q, o)
             j == maybe_draw_by_n_move_rule(u, o)
             f == sync_phase_with_active_hand(j)
  <2>1. OwesAs(s, q)
    BY PassedEffect DEF OwesAs
  <2> HIDE DEF q
  <2>2. OwesAs(s, p)
    BY <2>1 DEF push_key, OwesAs, Fields
  <2>3. u \in {p, game_over(p, DRAW, "DrawThreefold")}
    BY DEF push_key_and_check_threefold
  <2> HIDE DEF p, u
  <2>4. OwesAs(s, u)
    <3>1. OwesAs(s, game_over(p, DRAW, "DrawThreefold"))
      BY <2>2, AssignmentsOweNothing
    <3> QED BY <2>2, <2>3, <3>1
  <2>5. OwesAs(s, j)
    BY <2>4, AssignmentsOweNothing DEF maybe_draw_by_n_move_rule
  <2> HIDE DEF j
  <2>6. OwesAs(s, f)
    BY <2>5, HelpersOweNothing
  <2> HIDE DEF f
  <2>7. OwesAs(s, sync_action_state(f))
    BY <2>6, HelpersOweNothing
  <2> QED BY <2>7 DEF move_quietly, f, j, u, q, Passed
<1> QED BY <1>1, <1>2

(* A quiet move forgets the mill its side made last and no other note.     *)
ForgetsLast(s, t) ==
  /\ t.last_mill_from = [s.last_mill_from EXCEPT ![s.side_to_move] = NONE]
  /\ t.last_mill_to = [s.last_mill_to EXCEPT ![s.side_to_move] = NONE]
  /\ t.formed_mills = s.formed_mills

LEMMA QuietMoveMemory ==
  ASSUME NEW s, DOMAIN s = Fields, NEW o
  PROVE  ForgetsLast(s, maybe_handle_stalemate(move_quietly(s, o, TRUE), o))
<1> DEFINE q == Passed(s)
           p == push_key(q, o)
           u == push_key_and_check_threefold(q, o)
           j == maybe_draw_by_n_move_rule(u, o)
           f == sync_phase_with_active_hand(j)
           m == sync_action_state(f)
           Noted(x) == /\ DOMAIN x = Fields
                       /\ x.last_mill_from = q.last_mill_from
                       /\ x.last_mill_to = q.last_mill_to
                       /\ x.formed_mills = q.formed_mills
<1>1. /\ DOMAIN q = Fields /\ q.formed_mills = s.formed_mills
      /\ q.last_mill_from = [s.last_mill_from EXCEPT ![s.side_to_move] = NONE]
      /\ q.last_mill_to = [s.last_mill_to EXCEPT ![s.side_to_move] = NONE]
  BY PassedEffect
<1> HIDE DEF q
<1>2. Noted(p)
  BY <1>1 DEF push_key, Fields
<1>3. \A x, r, v : Noted(v) => Noted(game_over(v, x, r))
  BY DEF game_over, Fields
<1>4. u \in {p, game_over(p, DRAW, "DrawThreefold")}
  BY DEF push_key_and_check_threefold
<1> HIDE DEF p, u, Noted
<1>5. Noted(u)
  BY <1>2, <1>3, <1>4
<1>6. Noted(j)
  BY <1>3, <1>5 DEF maybe_draw_by_n_move_rule
<1> HIDE DEF j
<1>7. Recalls(j, maybe_handle_stalemate(m, o))
  <2>1. Recalls(j, f)
    BY <1>6, RecallsItself, HelpersRecall DEF Noted
  <2> HIDE DEF f
  <2>2. Recalls(j, m)
    BY <2>1, HelpersRecall
  <2> HIDE DEF m
  <2> QED BY <2>2, StalemateRecalls
<1>8. m = move_quietly(s, o, TRUE)
  BY DEF move_quietly, m, f, j, u, q, Passed
<1> HIDE DEF m
<1> QED BY <1>1, <1>6, <1>7, <1>8 DEF Noted, Recalls, Memory, ForgetsLast

-----------------------------------------------------------------------------
(* What the engine writes down *)

(* The completed lines that earn something.                                *)
Earning(s, t, o, c) == {l \in Completed(s, t, o, c) : UsableFor(s, o, c, l)}

Remembering == {"last_mill_from", "last_mill_to", "formed_mills"}

(* What the records of t say of the action that led to it from s: nothing  *)
(* new of the opponent; every line completed is a formed mill; a move that *)
(* earns something is the last one noted.                                  *)
Recorded(s, t, o, from, to) ==
  LET c == s.side_to_move
  IN /\ \A f \in Remembering, k \in Sides \ {c} : t[f][k] = s[f][k]
     /\ s.formed_mills[c] \subseteq t.formed_mills[c]
     /\ o.one_time_use_mill =>
          \A l \in Completed(s, t, o, c) : l \subseteq t.formed_mills[c]
     /\ (o.restrict_repeated_mills_formation /\ Earning(s, t, o, c) # {}) =>
          t.last_mill_from[c] = from /\ t.last_mill_to[c] = to

(* A turn that notes the lines that earn something.                        *)
LEMMA NotedIsRecorded ==
  ASSUME NEW s \in MillStates, NEW o, NEW from, NEW to, s.side_to_move \in Sides,
         NEW w, \A f \in Remembering : w[f] = s[f],
         NEW m, Recalls(w, m), NEW t,
         LET c == s.side_to_move
         IN Recalls(note_mill_formation(m, o, c, from, to, Earning(s, t, o, c)), t)
  PROVE  Recorded(s, t, o, from, to)
<1> DEFINE c == s.side_to_move
           lines == Earning(s, t, o, c)
           n == note_mill_formation(m, o, c, from, to, lines)
           noted == o.restrict_repeated_mills_formation
<1>1. /\ s.last_mill_from \in [Sides -> Nodes \union {NONE}]
      /\ s.last_mill_to \in [Sides -> Nodes \union {NONE}]
      /\ s.formed_mills \in [Sides -> SUBSET Nodes]
  BY DEF MillStates
<1>2. /\ m.last_mill_from = s.last_mill_from /\ m.last_mill_to = s.last_mill_to
      /\ m.formed_mills = s.formed_mills /\ DOMAIN m = Fields
  BY DEF Recalls, Memory, Remembering
<1> HIDE DEF lines
<1>3. /\ n.last_mill_from = [m.last_mill_from EXCEPT ![c] = IF noted THEN from ELSE NONE]
      /\ n.last_mill_to = [m.last_mill_to EXCEPT ![c] = IF noted THEN to ELSE NONE]
      /\ n.formed_mills = [m.formed_mills EXCEPT ![c] =
           IF o.one_time_use_mill THEN @ \union UNION lines ELSE @]
  BY <1>2 DEF note_mill_formation, Fields
<1>4. /\ t.last_mill_from = n.last_mill_from /\ t.last_mill_to = n.last_mill_to
      /\ t.formed_mills = n.formed_mills
  BY DEF Recalls, Memory, n, lines
<1> HIDE DEF n
<1>5. \A f \in Remembering, k \in Sides \ {c} : t[f][k] = s[f][k]
  BY <1>1, <1>2, <1>3, <1>4 DEF Remembering
<1>6. /\ t.formed_mills[c] = s.formed_mills[c] \union
           IF o.one_time_use_mill THEN UNION lines ELSE {}
      /\ noted => t.last_mill_from[c] = from /\ t.last_mill_to[c] = to
  BY <1>1, <1>2, <1>3, <1>4
<1>7. \A l \in Completed(s, t, o, c) :
        o.one_time_use_mill => l \in lines \/ l \subseteq s.formed_mills[c]
  BY DEF lines, Earning, UsableFor
<1> QED BY <1>5, <1>6, <1>7 DEF Recorded

(* A turn that notes nothing, because nothing completed earns anything.    *)
LEMMA QuietIsRecorded ==
  ASSUME NEW s, NEW o, NEW from, NEW to, NEW t,
         \A f \in Remembering, k \in Sides \ {s.side_to_move} : t[f][k] = s[f][k],
         t.formed_mills = s.formed_mills,
         Earning(s, t, o, s.side_to_move) = {}
  PROVE  Recorded(s, t, o, from, to)
BY DEF Recorded, Earning, UsableFor

(* Both rules are off on the fast path of placing.                         *)
LEMMA PlaceRecorded ==
  ASSUME NEW s, NEW o \in MillVariantOptions, Good(s, o),
         NEW a \in legal_actions(s, o), a.kind = "Place",
         o.one_time_use_mill \/ o.restrict_repeated_mills_formation
  PROVE  LET t == apply_to_state(s, o, a, TRUE)
             c == s.side_to_move
         IN /\ Recorded(s, t, o, a.from, a.to)
            /\ (OnlyMillsPay(o) /\ Earning(s, t, o, c) = {}) => ~Pays(t, c)
<1> DEFINE c == s.side_to_move
           placed == place_live_piece(s, a.to)
           custodian == detect_custodian_targets(placed, o, a.to)
           intervention == detect_intervention_targets(placed, o, a.to)
           lines == usable_mills(placed, o, formed_mills_at(placed, o, a.to, c))
           u == apply_place(s, o, a.to)
           t == maybe_handle_stalemate(u, o)
<1>1. /\ Fresh(s) /\ s.phase = "Placing" /\ a.to \in empty_squares(s) /\ a.to \in Nodes
      /\ s \in MillStates /\ Live(s) /\ c \in Sides
  BY LegalPlace, OccupancyOnBoard DEF Good, Fresh, Live
<1>2. a.from = NONE
  <2>1. \A x \in generate_remove_actions(s, o) : x.kind = "Remove"
    BY RemoveActionsTyped
  <2>2. \A fly : \A x \in generate_move_actions(s, o, fly) : x.kind = "Move"
    BY MoveActionsTyped
  <2>3. \E n : a = PlaceAction(n)
    BY <2>1, <2>2 DEF legal_actions
  <2> QED BY <2>3 DEF PlaceAction
<1>3. apply_to_state(s, o, a, TRUE) = t
  <2>1. ~standard_fast_path_enabled(o)
    BY DEF standard_fast_path_enabled
  <2> QED BY <2>1 DEF apply_to_state, apply_generally
<1>4. /\ Fresh(placed) /\ placed.side_to_move = c /\ DOMAIN placed = Fields
      /\ placed \in MillStates
      /\ \A f \in Remembering : placed[f] = s[f]
      /\ placed.pending_removals[c] = 0
  <2>1. /\ Fresh(placed) /\ placed.side_to_move = c
        /\ Alters(s, placed, {"board", "pieces_in_hand", "pieces_on_board",
                              "ply_since_capture", "key_history"})
    BY <1>1, PlacedFresh
  <2> HIDE DEF placed
  <2> QED BY <1>1, <2>1 DEF Alters, Fields, Remembering, Fresh, Clean, Live
<1>5. piece_bitboard(t, c) = piece_bitboard(placed, c)
  <2>1. Coherent(u) /\ Sound(u) /\ Keeps(placed, u)
    BY <1>1, PlaceSound, PlaceCoherent
  <2> HIDE DEF u
  <2>2. Keeps(u, t)
    BY <2>1, StalemateSound
  <2> HIDE DEF t, placed
  <2> QED BY <1>1, <2>1, <2>2 DEF Keeps
<1>6. Completed(s, t, o, c) = formed_mills_at(placed, o, a.to, c)
  <2>1. /\ piece_bitboard(placed, c) = piece_bitboard(s, c) \union {a.to}
        /\ a.to \notin piece_bitboard(s, c)
    BY <1>1, PlacedPiece
  <2> HIDE DEF t, placed
  <2> QED BY <1>5, <2>1, CompletedThrough
<1>7. lines = Earning(s, t, o, c)
  <2> HIDE DEF placed, t
  <2>1. \A l : UsableFor(placed, o, c, l) <=> UsableFor(s, o, c, l)
    BY <1>4 DEF UsableFor, Remembering
  <2> QED BY <1>4, <1>6, <2>1 DEF usable_mills, Earning
<1>8. /\ lines = {} => Recalls(placed, t)
      /\ lines # {} =>
           \E m : /\ Recalls(placed, m)
                  /\ Recalls(note_mill_formation(m, o, c, NONE, a.to, lines), t)
  BY <1>1, PlaceNotes
<1>9. (OnlyMillsPay(o) /\ lines = {}) => t.pending_removals[c] = 0
  <2> SUFFICES ASSUME OnlyMillsPay(o), lines = {} PROVE t.pending_removals[c] = 0
    OBVIOUS
  <2>1. custodian = {} /\ intervention = {}
    BY DEF OnlyMillsPay, detect_custodian_targets, detect_intervention_targets,
           capture_phase_allowed
  <2>2. u = place_quietly(placed, o)
    BY <2>1 DEF apply_place
  <2> HIDE DEF placed, u
  <2>3. OwesAs(placed, u)
    BY <1>4, <2>2, QuietTurnOwesNothing
  <2>4. OwesAs(placed, t)
    BY <2>3, StalemateOwesNothing
  <2> QED BY <1>4, <2>4 DEF OwesAs
<1>10. Recorded(s, t, o, a.from, a.to)
  <2> HIDE DEF placed, lines, t
  <2>1. CASE lines = {}
    <3>1. \A f \in Remembering : t[f] = s[f]
      BY <1>4, <1>8, <2>1 DEF Recalls, Memory, Remembering
    <3> QED BY <1>7, <2>1, <3>1, QuietIsRecorded DEF Remembering
  <2>2. CASE lines # {}
    <3>1. PICK m : /\ Recalls(placed, m)
                   /\ Recalls(note_mill_formation(m, o, c, a.from, a.to, lines), t)
      BY <1>2, <1>8, <2>2
    <3> QED BY <1>1, <1>4, <1>7, <3>1, NotedIsRecorded
  <2> QED BY <2>1, <2>2
<1> HIDE DEF t, lines
<1>11. Recorded(s, t, o, a.from, a.to) /\ ((OnlyMillsPay(o) /\ Earning(s, t, o, c) = {}) => ~Pays(t, c))
  BY <1>7, <1>9, <1>10 DEF Pays
<1> QED BY <1>3, <1>11

(* A move takes one piece to another point and changes no other piece of   *)
(* its side.                                                               *)
LEMMA MoveTakesOnePiece ==
  ASSUME NEW s, NEW o \in MillVariantOptions, Good(s, o),
         NEW a \in legal_actions(s, o), a.kind = "Move"
  PROVE  LET t == apply_to_state(s, o, a, TRUE)
             w == bump_ply_since_capture(move_live_piece(s, a.from, a.to), o)
             c == s.side_to_move
         IN /\ t = maybe_handle_stalemate(apply_move(s, o, a.from, a.to, TRUE), o)
            /\ Fresh(s) /\ a.from \in Nodes /\ a.to \in Nodes
            /\ piece_bitboard(t, c) = (piece_bitboard(s, c) \ {a.from}) \union {a.to}
            /\ a.to \notin piece_bitboard(s, c) /\ a.from # a.to
            /\ Completed(s, t, o, c) = formed_mills_at(w, o, a.to, c)
<1> DEFINE w == bump_ply_since_capture(move_live_piece(s, a.from, a.to), o)
           c == s.side_to_move
           u == apply_move(s, o, a.from, a.to, TRUE)
           t == maybe_handle_stalemate(u, o)
<1>1. /\ Fresh(s)
      /\ s.pieces_in_hand = Both(0) => s.phase = "Moving"
      /\ a.from \in piece_bitboard(s, c) /\ a.to \in empty_squares(s)
      /\ a.from \in Nodes /\ a.to \in Nodes
  BY LegalMove, OccupancyOnBoard DEF Good
<1>2. Fresh(s) /\ c \in Sides
  BY <1>1 DEF Fresh, Live
<1>3. piece_bitboard(t, c) = piece_bitboard(w, c)
  <2>1. Coherent(u)
    BY <1>1, <1>2, MoveCoherent DEF Fresh
  <2>2. Sound(u) /\ Keeps(w, u)
    BY <1>1, <1>2, MoveSound
  <2> HIDE DEF u
  <2>3. Keeps(u, t)
    BY <2>1, <2>2, StalemateSound
  <2> HIDE DEF t, w
  <2> QED BY <1>2, <2>2, <2>3 DEF Keeps
<1>4. /\ piece_bitboard(w, c) = (piece_bitboard(s, c) \ {a.from}) \union {a.to}
      /\ a.to \notin piece_bitboard(s, c) /\ a.from # a.to
  <2>1. /\ a.from \in piece_bitboard(s, s.side_to_move) /\ a.to \in empty_squares(s)
        /\ Fresh(s)
    BY <1>1
  <2> HIDE DEF c
  <2> QED BY <2>1, MovedPiece, SMTT(60) DEF c
<1>5. Completed(s, t, o, c) = formed_mills_at(w, o, a.to, c)
  <2> DEFINE rest == piece_bitboard(s, c) \ {a.from}
  <2>1. rest \subseteq piece_bitboard(s, c) /\ piece_bitboard(w, c) = rest \union {a.to}
    BY <1>4
  <2> HIDE DEF t, w, rest
  <2> QED BY <1>3, <1>4, <2>1, CompletedThrough
<1>6. apply_to_state(s, o, a, TRUE) = t
  BY DEF apply_to_state, apply_generally
<1> HIDE DEF t
<1> QED BY <1>1, <1>2, <1>3, <1>4, <1>5, <1>6 DEF t

LEMMA MoveRecorded ==
  ASSUME NEW s, Fresh(s), NEW o \in MillVariantOptions, ~o.leap_capture.enabled,
         NEW from \in Nodes, NEW to \in Nodes,
         LET w == bump_ply_since_capture(move_live_piece(s, from, to), o)
             t == maybe_handle_stalemate(apply_move(s, o, from, to, TRUE), o)
             c == s.side_to_move
         IN Completed(s, t, o, c) = formed_mills_at(w, o, to, c)
  PROVE  LET t == maybe_handle_stalemate(apply_move(s, o, from, to, TRUE), o)
             c == s.side_to_move
         IN /\ Recorded(s, t, o, from, to)
            /\ (OnlyMillsPay(o) /\ Earning(s, t, o, c) = {}) => ~Pays(t, c)
<1> DEFINE c == s.side_to_move
           moved == bump_ply_since_capture(move_live_piece(s, from, to), o)
           custodian == IF o.custodian_capture.in_moving_phase
                          THEN detect_custodian_targets(moved, o, to) ELSE {}
           intervention == IF o.intervention_capture.in_moving_phase
                             THEN detect_intervention_targets(moved, o, to) ELSE {}
           leap == IF o.leap_capture.in_moving_phase
                     THEN detect_leap_targets(moved, o, from, to) ELSE {}
           lines == usable_mills(moved, o, formed_mills_at(moved, o, to, c))
           noisy == leap # {} \/ lines # {} \/ custodian \union intervention # {}
           quiet == move_quietly(moved, o, TRUE)
           t == maybe_handle_stalemate(apply_move(s, o, from, to, TRUE), o)
<1>1. Completed(s, t, o, c) = formed_mills_at(moved, o, to, c)
  OBVIOUS
<1>2. s \in MillStates /\ c \in Sides
  BY DEF Fresh, Live
<1>3. /\ moved.side_to_move = c /\ DOMAIN moved = Fields
      /\ \A f \in Remembering : moved[f] = s[f]
      /\ moved.pending_removals[c] = 0
  <2>1. Fresh(moved) /\ Alters(s, moved, {"board", "ply_since_capture"})
    BY MovedFresh
  <2> HIDE DEF moved
  <2>2. moved.side_to_move = c
    BY <2>1 DEF Alters, Fields
  <2> QED BY <1>2, <2>1, <2>2 DEF Alters, Fields, Remembering, Fresh, Clean
<1>4. lines = Earning(s, t, o, c)
  <2> HIDE DEF moved, t
  <2>1. \A l : UsableFor(moved, o, c, l) <=> UsableFor(s, o, c, l)
    BY <1>3 DEF UsableFor, Remembering
  <2> QED BY <1>1, <1>3, <2>1 DEF usable_mills, Earning
<1>5. /\ (noisy /\ (leap # {} \/ lines = {})) => Recalls(moved, t)
      /\ (leap = {} /\ lines # {}) =>
           \E m : /\ Recalls(moved, m)
                  /\ Recalls(note_mill_formation(m, o, c, from, to, lines), t)
      /\ ~noisy => t = maybe_handle_stalemate(quiet, o)
  <2>1. (noisy /\ (leap # {} \/ lines = {})) => Recalls(moved, t)
    BY MoveNotes
  <2>2. (leap = {} /\ lines # {}) =>
           \E m : /\ Recalls(moved, m)
                  /\ Recalls(note_mill_formation(m, o, c, from, to, lines), t)
    BY MoveNotes
  <2>3. ~noisy => t = maybe_handle_stalemate(quiet, o)
    BY MoveNotes
  <2> QED BY <2>1, <2>2, <2>3
<1>6. /\ leap = {}
      /\ OnlyMillsPay(o) => custodian = {} /\ intervention = {}
  BY DEF OnlyMillsPay, detect_custodian_targets, detect_intervention_targets,
         detect_leap_targets, capture_phase_allowed
<1>7. (OnlyMillsPay(o) /\ lines = {}) => t.pending_removals[c] = 0
  <2> SUFFICES ASSUME OnlyMillsPay(o), lines = {} PROVE t.pending_removals[c] = 0
    OBVIOUS
  <2> HIDE DEF moved, custodian, intervention, leap, lines
  <2>1. OwesAs(moved, quiet)
    BY <1>3, QuietTurnOwesNothing
  <2> HIDE DEF quiet, t
  <2>2. t = maybe_handle_stalemate(quiet, o)
    BY <1>5, <1>6
  <2>3. OwesAs(moved, t)
    BY <2>1, <2>2, StalemateOwesNothing
  <2> QED BY <1>3, <2>3 DEF OwesAs
<1>8. Recorded(s, t, o, from, to)
  <2> HIDE DEF moved, custodian, intervention, leap, lines, t
  <2>1. CASE noisy /\ lines = {}
    <3>1. \A f \in Remembering : t[f] = s[f]
      BY <1>3, <1>5, <2>1 DEF Recalls, Memory, Remembering
    <3> QED BY <1>4, <2>1, <3>1, QuietIsRecorded DEF Remembering
  <2>2. CASE lines # {}
    <3>1. PICK m : /\ Recalls(moved, m)
                   /\ Recalls(note_mill_formation(m, o, c, from, to, lines), t)
      BY <1>5, <1>6, <2>2
    <3> QED BY <1>2, <1>3, <1>4, <3>1, NotedIsRecorded
  <2>3. CASE ~noisy
    <3>1. /\ t.last_mill_from = [moved.last_mill_from EXCEPT ![c] = NONE]
          /\ t.last_mill_to = [moved.last_mill_to EXCEPT ![c] = NONE]
          /\ t.formed_mills = moved.formed_mills
      <4>1. t = maybe_handle_stalemate(move_quietly(moved, o, TRUE), o)
        BY <1>5, <2>3
      <4>2. ForgetsLast(moved, t)
        BY <1>3, <4>1, QuietMoveMemory
      <4> QED BY <1>3, <4>2 DEF ForgetsLast
    <3>2. /\ s.last_mill_from \in [Sides -> Nodes \union {NONE}]
          /\ s.last_mill_to \in [Sides -> Nodes \union {NONE}]
      BY <1>2 DEF MillStates
    <3>3. /\ \A f \in Remembering, k \in Sides \ {c} : t[f][k] = s[f][k]
          /\ t.formed_mills = s.formed_mills
      BY <1>3, <3>1, <3>2 DEF Remembering
    <3>4. lines = {}
      BY <2>3
    <3> QED BY <1>4, <3>3, <3>4, QuietIsRecorded
  <2> QED BY <2>1, <2>2, <2>3
<1> HIDE DEF t, lines
<1>9. Recorded(s, t, o, from, to) /\ ((OnlyMillsPay(o) /\ Earning(s, t, o, c) = {}) => ~Pays(t, c))
  BY <1>4, <1>7, <1>8 DEF Pays
<1> QED BY <1>9 DEF t

(* Every turn that is not a removal is recorded.                           *)
LEMMA TurnRecorded ==
  ASSUME NEW s, NEW o \in MillVariantOptions, Good(s, o), ~o.leap_capture.enabled,
         o.one_time_use_mill \/ o.restrict_repeated_mills_formation,
         NEW a \in legal_actions(s, o), a.kind # "Remove",
         NEW t, t = apply_to_state(s, o, a, TRUE)
  PROVE  /\ Recorded(s, t, o, a.from, a.to)
         /\ (OnlyMillsPay(o) /\ Earning(s, t, o, s.side_to_move) = {}) =>
              ~Pays(t, s.side_to_move)
<1>1. a.kind = "Place" \/ a.kind = "Move"
  BY LegalActionTyped DEF Good
<1>2. CASE a.kind = "Place"
  BY <1>2, PlaceRecorded
<1>3. CASE a.kind = "Move"
  <2> DEFINE w == bump_ply_since_capture(move_live_piece(s, a.from, a.to), o)
             u == maybe_handle_stalemate(apply_move(s, o, a.from, a.to, TRUE), o)
             c == s.side_to_move
  <2>1. /\ apply_to_state(s, o, a, TRUE) = u
        /\ Fresh(s) /\ a.from \in Nodes /\ a.to \in Nodes
        /\ Completed(s, apply_to_state(s, o, a, TRUE), o, c) = formed_mills_at(w, o, a.to, c)
    BY <1>3, MoveTakesOnePiece
  <2>2. t = u /\ Completed(s, u, o, c) = formed_mills_at(w, o, a.to, c)
    BY <2>1
  <2>3. /\ Recorded(s, u, o, a.from, a.to)
        /\ (OnlyMillsPay(o) /\ Earning(s, u, o, c) = {}) => ~Pays(u, c)
    BY <2>1, <2>2, MoveRecorded
  <2> HIDE DEF u
  <2> QED BY <2>2, <2>3
<1> QED BY <1>1, <1>2, <1>3

LEMMA RemovalRecords ==
  ASSUME NEW s, NEW o \in MillVariantOptions, Good(s, o),
         NEW a \in legal_actions(s, o), a.kind = "Remove",
         NEW t, t = apply_to_state(s, o, a, TRUE)
  PROVE  s.action = "Remove" /\ \A f \in Remembering : t[f] = s[f]
<1>1. s.action = "Remove"
  BY LegalActionTyped DEF Good
<1>2. \A f \in RemovalNotes : t[f] = s[f]
  BY RemoveForgets
<1> QED BY <1>1, <1>2 DEF RemovalNotes, Remembering

(* generate_move_actions leaves out the moves the rule forbids.            *)
LEMMA MoveIsFree ==
  ASSUME NEW s, NEW o, NEW a \in legal_actions(s, o), a.kind = "Move"
  PROVE  ~is_restricted_repeated_mill(s, o, s.side_to_move, a.from, a.to)
<1>1. \A x \in generate_remove_actions(s, o) : x.kind = "Remove"
  BY RemoveActionsTyped
<1>2. \A n : PlaceAction(n).kind = "Place"
  BY DEF PlaceAction
<1>3. PICK fly : a \in generate_move_actions(s, o, fly)
  BY <1>1, <1>2 DEF legal_actions
<1>4. \E m : /\ a = MoveAction(m[1], m[2])
             /\ ~is_restricted_repeated_mill(s, o, s.side_to_move, m[1], m[2])
  BY <1>3 DEF generate_move_actions
<1> QED BY <1>4 DEF MoveAction

(* So no move from one mill to another goes straight back to where the     *)
(* last mill was opened.                                                   *)
LEMMA NoStraightReturn ==
  ASSUME NEW s, NEW o \in MillVariantOptions, Good(s, o),
         o.restrict_repeated_mills_formation, ~o.one_time_use_mill,
         NEW a \in legal_actions(s, o), a.kind = "Move",
         NEW t, t = apply_to_state(s, o, a, TRUE),
         NEW c, c = s.side_to_move,
         s.last_mill_from[c] = a.to, s.last_mill_to[c] = a.from,
         Completed(s, t, o, c) # {}, Opened(s, t, o, c) # {}
  PROVE  FALSE
<1>1. /\ a.from \in Nodes /\ a.to \in Nodes
      /\ piece_bitboard(t, c) = (piece_bitboard(s, c) \ {a.from}) \union {a.to}
  <2>1. /\ a.from \in Nodes /\ a.to \in Nodes
        /\ piece_bitboard(apply_to_state(s, o, a, TRUE), s.side_to_move)
             = (piece_bitboard(s, s.side_to_move) \ {a.from}) \union {a.to}
    BY MoveTakesOnePiece, ZenonT(60)
  <2> QED BY <2>1
<1>2. a.from # NONE /\ a.to # NONE
  BY <1>1, BoardAssumption
<1>3. potential_mills_at(s, o, a.from, c, {}) # {}
  <2>1. PICK l \in Opened(s, t, o, c) : TRUE
    OBVIOUS
  <2>2. l \in MillsOf(s, o, c) /\ a.from \in l
    BY <1>1, OpenedThrough
  <2> QED BY <2>2 DEF MillsOf, potential_mills_at, UsableFor
<1>4. potential_mills_at(s, o, a.to, c, {a.from}) # {}
  <2>1. PICK l \in Completed(s, t, o, c) : TRUE
    OBVIOUS
  <2>2. /\ l \in mill_lines(o) /\ l \subseteq piece_bitboard(t, c)
        /\ ~(l \subseteq piece_bitboard(s, c))
    BY <2>1 DEF Completed, MillsOf
  <2>3. a.to \in l /\ (l \ {a.to}) \subseteq (piece_bitboard(s, c) \ {a.from})
    BY <1>1, <2>2
  <2> QED BY <2>2, <2>3 DEF potential_mills_at, UsableFor
<1> QED BY <1>2, <1>3, <1>4, MoveIsFree DEF is_restricted_repeated_mill

-----------------------------------------------------------------------------
(* A mill pays once *)

(* formed_mills_bb covers the lines the observer remembers as paid for.    *)
PaidIsFormed ==
  options.one_time_use_mill =>
    \A c \in Sides : \A l \in paid[c] : l \subseteq state.formed_mills[c]

PaidInv ==
  /\ GameInv /\ OnlyMillsPay(options)
  /\ DOMAIN paid = Sides /\ PaidIsFormed

LEMMA PaidNext == PaidInv /\ GameInv' /\ [HistoryNext]_hvars => PaidInv'
<1> SUFFICES ASSUME PaidInv, GameInv', [HistoryNext]_hvars PROVE PaidInv'
  OBVIOUS
<1>1. CASE UNCHANGED hvars
  BY <1>1 DEF hvars, PaidInv, PaidIsFormed
<1>2. CASE HistoryNext
  <2> DEFINE c == state.side_to_move
             lines == Completed(state, state', options, c)
  <2>1. PICK a \in legal_actions(state, options) :
          /\ state' = apply_to_state(state, options, a, TRUE)
          /\ paid' = IF a.kind # "Remove" /\ options.one_time_use_mill /\ Pays(state', c)
                     THEN [paid EXCEPT ![c] = @ \union lines] ELSE paid
          /\ UNCHANGED options
    BY <1>2 DEF HistoryNext
  <2>2. /\ OnlyMillsPay(options)' /\ DOMAIN paid' = Sides
    BY <2>1 DEF PaidInv, OnlyMillsPay, CountedAction, FillsBoard
  <2>3. options \in MillVariantOptions /\ Good(state, options)
    BY VariantsAssumption DEF PaidInv, GameInv
  <2>4. ASSUME options.one_time_use_mill, NEW k \in Sides, NEW l \in paid'[k]
        PROVE  l \subseteq state'.formed_mills[k]
    <3>1. l \in paid[k] => l \subseteq state.formed_mills[k]
      BY <2>4 DEF PaidInv, PaidIsFormed
    <3>2. CASE a.kind = "Remove"
      <4>1. state'.formed_mills = state.formed_mills
        BY <2>1, <2>3, <3>2, RemovalRecords DEF Remembering
      <4> QED BY <2>1, <2>4, <3>1, <3>2, <4>1
    <3>3. CASE a.kind # "Remove"
      <4>1. Recorded(state, state', options, a.from, a.to)
        BY <2>1, <2>3, <2>4, <3>3, TurnRecorded DEF PaidInv, OnlyMillsPay
      <4>2. l \in paid[k] \/ (k = c /\ l \in lines)
        <5> HIDE DEF lines
        <5> QED BY <2>1, <2>4, <3>3 DEF PaidInv
      <4>3. CASE k = c
        BY <2>4, <3>1, <4>1, <4>2, <4>3 DEF Recorded
      <4>4. CASE k # c
        <5>1. state'.formed_mills[k] = state.formed_mills[k]
          BY <4>1, <4>4 DEF Recorded, Remembering
        <5> QED BY <3>1, <4>2, <4>4, <5>1
      <4> QED BY <4>3, <4>4
    <3> QED BY <3>2, <3>3
  <2> QED BY <2>1, <2>2, <2>4 DEF PaidInv, PaidIsFormed
<1> QED BY <1>1, <1>2

LEMMA PaidStep == PaidInv /\ [HistoryNext]_hvars =>
  (options.one_time_use_mill =>
     \A c \in Sides :
       (Completes(c) /\ Completed(state, state', options, c) \subseteq paid[c])
         => ~Pays(state', c))
<1> SUFFICES ASSUME PaidInv, [HistoryNext]_hvars, options.one_time_use_mill,
                    NEW c \in Sides, Completes(c),
                    Completed(state, state', options, c) \subseteq paid[c]
             PROVE  ~Pays(state', c)
  OBVIOUS
<1>1. c = state.side_to_move /\ state.action # "Remove"
  BY DEF Completes
<1>2. HistoryNext
  BY DEF Completes, Completed, hvars
<1>3. PICK a \in legal_actions(state, options) :
        state' = apply_to_state(state, options, a, TRUE)
  BY <1>2 DEF HistoryNext
<1>4. options \in MillVariantOptions /\ Good(state, options)
  BY VariantsAssumption DEF PaidInv, GameInv
<1>5. a.kind # "Remove"
  BY <1>1, <1>3, <1>4, RemovalRecords
<1>6. Earning(state, state', options, c) = {}
  BY DEF Earning, UsableFor, PaidInv, PaidIsFormed
<1>7. (OnlyMillsPay(options) /\ Earning(state, state', options, c) = {}) => ~Pays(state', c)
  BY <1>1, <1>3, <1>4, <1>5, TurnRecorded DEF PaidInv, OnlyMillsPay
<1> QED BY <1>6, <1>7 DEF PaidInv

(* one_time_use_mill, where nothing but a mill earns a removal: usable_    *)
(* mills and note_mill_formation, between them, never let a line that has  *)
(* been paid for pay again, however many turns lie between.                *)
THEOREM MillsPayOnce == HistorySpec /\ OnlyMillsPay(options) => PaidMillPaysNoMore
<1>1. HistoryInit /\ GameInv /\ OnlyMillsPay(options) => PaidInv
  BY BothAt DEF HistoryInit, PaidInv, PaidIsFormed, Both
<1> QED BY <1>1, PaidNext, PaidStep, WatchedGames, PTL DEF HistorySpec, PaidMillPaysNoMore

-----------------------------------------------------------------------------
(* No mill is shuttled *)

(* The rules under which every mill is noted: a leap is settled before the *)
(* mill it closes is noted, and a line that has been used is not noted     *)
(* again.                                                                  *)
NotesEveryMill(o) == ~o.leap_capture.enabled /\ ~o.one_time_use_mill

(* last_mill_from and last_mill_to are the side's last move, when it went  *)
(* from one mill to another.                                               *)
ShuttlesAreNoted ==
  options.restrict_repeated_mills_formation =>
    \A c \in Sides :
      previous[c].mill_to_mill =>
        /\ state.last_mill_from[c] = previous[c].from
        /\ state.last_mill_to[c] = previous[c].to

ShuttleInv ==
  /\ GameInv /\ NotesEveryMill(options)
  /\ DOMAIN previous = Sides /\ ShuttlesAreNoted

(* What a step does to what the observer knows of the last moves.          *)
Moves(a, c) ==
  /\ state' = apply_to_state(state, options, a, TRUE)
  /\ previous' = IF a.kind # "Remove" /\ options.restrict_repeated_mills_formation
                 THEN [previous EXCEPT ![c] =
                        [from |-> a.from, to |-> a.to,
                         mill_to_mill |-> a.kind = "Move"
                           /\ Completed(state, state', options, c) # {}
                           /\ Opened(state, state', options, c) # {}]]
                 ELSE previous

LEMMA ShuttleNext == ShuttleInv /\ GameInv' /\ [HistoryNext]_hvars => ShuttleInv'
<1> SUFFICES ASSUME ShuttleInv, GameInv', [HistoryNext]_hvars PROVE ShuttleInv'
  OBVIOUS
<1>1. CASE UNCHANGED hvars
  BY <1>1 DEF hvars, ShuttleInv, ShuttlesAreNoted
<1>2. CASE HistoryNext
  <2> DEFINE c == state.side_to_move
  <2>1. PICK a \in legal_actions(state, options) : Moves(a, c) /\ UNCHANGED options
    BY <1>2 DEF HistoryNext, Moves
  <2>2. NotesEveryMill(options)' /\ DOMAIN previous' = Sides
    BY <2>1 DEF ShuttleInv, NotesEveryMill, Moves
  <2>3. options \in MillVariantOptions /\ Good(state, options)
    BY VariantsAssumption DEF ShuttleInv, GameInv
  <2>4. ASSUME options.restrict_repeated_mills_formation, NEW k \in Sides,
               previous'[k].mill_to_mill
        PROVE  /\ state'.last_mill_from[k] = previous'[k].from
               /\ state'.last_mill_to[k] = previous'[k].to
    <3>1. previous[k].mill_to_mill =>
            /\ state.last_mill_from[k] = previous[k].from
            /\ state.last_mill_to[k] = previous[k].to
      BY <2>4 DEF ShuttleInv, ShuttlesAreNoted
    <3>2. CASE a.kind = "Remove"
      <4>1. /\ state'.last_mill_from = state.last_mill_from
            /\ state'.last_mill_to = state.last_mill_to
        BY <2>1, <2>3, <3>2, RemovalRecords DEF Remembering, Moves
      <4> QED BY <2>1, <2>4, <3>1, <3>2, <4>1 DEF Moves
    <3>3. CASE a.kind # "Remove"
      <4>1. Recorded(state, state', options, a.from, a.to)
        BY <2>1, <2>3, <2>4, <3>3, TurnRecorded DEF ShuttleInv, NotesEveryMill, Moves
      <4>2. CASE k = c
        <5>1. /\ previous'[k].from = a.from /\ previous'[k].to = a.to
              /\ Completed(state, state', options, c) # {}
          <6> DEFINE both == /\ a.kind = "Move" /\ Completed(state, state', options, c) # {}
                            /\ Opened(state, state', options, c) # {}
                     last == [from |-> a.from, to |-> a.to, mill_to_mill |-> both]
          <6>1. previous' = [previous EXCEPT ![c] = last]
            BY <2>1, <2>4, <3>3 DEF Moves
          <6>2. previous'[k] = last
            BY <4>2, <6>1 DEF ShuttleInv
          <6>3. both \in BOOLEAN
            OBVIOUS
          <6> HIDE DEF both
          <6>4. both
            BY <2>4, <6>2, <6>3
          <6> QED BY <6>2, <6>4 DEF both
        <5>2. Earning(state, state', options, c) # {}
          BY <5>1 DEF Earning, UsableFor, ShuttleInv, NotesEveryMill
        <5> QED BY <2>4, <4>1, <4>2, <5>1, <5>2 DEF Recorded
      <4>3. CASE k # c
        <5>1. previous'[k] = previous[k]
          BY <2>1, <3>3, <4>3 DEF Moves, ShuttleInv
        <5>2. /\ state'.last_mill_from[k] = state.last_mill_from[k]
              /\ state'.last_mill_to[k] = state.last_mill_to[k]
          BY <4>1, <4>3 DEF Recorded, Remembering
        <5> QED BY <2>4, <3>1, <5>1, <5>2
      <4> QED BY <4>2, <4>3
    <3> QED BY <3>2, <3>3
  <2> QED BY <2>1, <2>2, <2>4 DEF ShuttleInv, ShuttlesAreNoted
<1> QED BY <1>1, <1>2

LEMMA ShuttleStep == ShuttleInv /\ [HistoryNext]_hvars =>
  (options.restrict_repeated_mills_formation =>
     \A c \in Sides :
       (/\ previous[c].mill_to_mill /\ previous'[c].mill_to_mill
        /\ previous'[c] # previous[c])
         => ~(/\ previous'[c].from = previous[c].to
              /\ previous'[c].to = previous[c].from))
<1> SUFFICES ASSUME ShuttleInv, [HistoryNext]_hvars,
                    options.restrict_repeated_mills_formation, NEW k \in Sides,
                    previous[k].mill_to_mill, previous'[k].mill_to_mill,
                    previous'[k] # previous[k],
                    previous'[k].from = previous[k].to, previous'[k].to = previous[k].from
             PROVE  FALSE
  OBVIOUS
<1> DEFINE c == state.side_to_move
<1>1. HistoryNext
  BY DEF hvars
<1>2. PICK a \in legal_actions(state, options) : Moves(a, c)
  BY <1>1 DEF HistoryNext, Moves
<1>3. options \in MillVariantOptions /\ Good(state, options)
  BY VariantsAssumption DEF ShuttleInv, GameInv
<1>4. a.kind # "Remove" /\ k = c
  BY <1>2 DEF Moves, ShuttleInv
<1>5. /\ a.kind = "Move" /\ previous'[k].from = a.from /\ previous'[k].to = a.to
      /\ Completed(state, state', options, k) # {} /\ Opened(state, state', options, k) # {}
  <2> DEFINE both == /\ a.kind = "Move" /\ Completed(state, state', options, c) # {}
                    /\ Opened(state, state', options, c) # {}
             last == [from |-> a.from, to |-> a.to, mill_to_mill |-> both]
  <2>1. previous' = [previous EXCEPT ![c] = last]
    BY <1>2, <1>4 DEF Moves
  <2>2. previous'[k] = last
    BY <1>4, <2>1 DEF ShuttleInv
  <2>3. both \in BOOLEAN
    OBVIOUS
  <2> HIDE DEF both
  <2>4. both
    BY <2>2, <2>3
  <2> QED BY <1>4, <2>2, <2>4 DEF both
<1>6. state.last_mill_from[k] = a.to /\ state.last_mill_to[k] = a.from
  BY <1>5 DEF ShuttleInv, ShuttlesAreNoted
<1>7. state' = apply_to_state(state, options, a, TRUE) /\ ~options.one_time_use_mill
  BY <1>2 DEF Moves, ShuttleInv, NotesEveryMill
<1> QED BY <1>3, <1>4, <1>5, <1>6, <1>7, NoStraightReturn

(* restrict_repeated_mills_formation, where every mill is noted: whatever  *)
(* the opponent did in between, generate_move_actions offers no move that  *)
(* takes a piece straight back from one mill to the other.                 *)
THEOREM NoMillIsShuttled == HistorySpec /\ NotesEveryMill(options) => NoShuttleMill
<1>1. HistoryInit /\ GameInv /\ NotesEveryMill(options) => ShuttleInv
  BY BothAt DEF HistoryInit, ShuttleInv, ShuttlesAreNoted, Both, NoMove
<1> QED BY <1>1, ShuttleNext, ShuttleStep, WatchedGames, PTL DEF HistorySpec, NoShuttleMill

=============================================================================
