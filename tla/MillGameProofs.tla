---------------------------- MODULE MillGameProofs ----------------------------
(***************************************************************************)
(* What a game of MillRules can be relied on for: positions that are well  *)
(* formed and whose cached action is the one they call for, obligations    *)
(* and their flags, material, the phase and the n-move rule.  Everything   *)
(* is proved for every board and every set of variants that satisfy        *)
(* BoardAssumption and VariantsAssumption.                                 *)
(***************************************************************************)
EXTENDS MillRules, FiniteSetTheorems, SequenceTheorems, TLAPS

-----------------------------------------------------------------------------
(* Cardinalities *)

(* Any set of points can be counted.                                       *)
LEMMA PointsCounted ==
  \A S \in SUBSET Nodes : IsFiniteSet(S) /\ Cardinality(S) \in Nat
<1> TAKE S \in SUBSET Nodes
<1>1. IsFiniteSet(S)
  BY FS_Subset, BoardAssumption
<1> QED BY <1>1, FS_CardinalityType

(* The lines of a triple sequence are sets of points.                      *)
LEMMA LinesArePoints ==
  ASSUME NEW o \in MillVariantOptions
  PROVE  mill_lines(o) \in SUBSET (SUBSET Nodes)
<1>1. \A i \in DOMAIN DiagonalLines : DiagonalLines[i] \in Nodes \X Nodes \X Nodes
  BY BoardAssumption, ElementOfSeq DEF CaptureTriples
<1>2. \A i \in DOMAIN DiagonalLines : Squares(DiagonalLines[i]) \in SUBSET Nodes
  BY <1>1 DEF Squares
<1>3. StandardLines \in SUBSET (SUBSET Nodes)
  BY BoardAssumption
<1> QED BY <1>2, <1>3 DEF mill_lines

(* Any set of mill lines can be counted.                                   *)
LEMMA LinesCounted ==
  ASSUME NEW o \in MillVariantOptions, NEW lines \in SUBSET mill_lines(o)
  PROVE  /\ lines \in SUBSET (SUBSET Nodes)
         /\ Cardinality(lines) \in Nat
<1>1. lines \in SUBSET (SUBSET Nodes)
  BY LinesArePoints
<1>2. IsFiniteSet(SUBSET Nodes)
  BY FS_SUBSET, BoardAssumption
<1>3. IsFiniteSet(lines)
  BY <1>1, <1>2, FS_Subset
<1> QED BY <1>1, <1>3, FS_CardinalityType

LEMMA CountsAreNatural ==
  ASSUME NEW o \in MillVariantOptions, NEW s, NEW c
  PROVE  /\ total_mills_count(s, o, c) \in Nat
         /\ \A n : formed_mills_at(s, o, n, c) \in SUBSET mill_lines(o)
         /\ \A lines \in SUBSET mill_lines(o) :
              /\ usable_mills(s, o, lines) \in SUBSET mill_lines(o)
              /\ removal_count(lines, o) \in Nat
<1>1. MillsOf(s, o, c) \in SUBSET mill_lines(o)
  BY DEF MillsOf
<1>2. total_mills_count(s, o, c) \in Nat
  BY <1>1, LinesCounted DEF total_mills_count
<1>3. \A n : formed_mills_at(s, o, n, c) \in SUBSET mill_lines(o)
  BY <1>1 DEF formed_mills_at
<1>4. \A lines \in SUBSET mill_lines(o) :
         /\ usable_mills(s, o, lines) \in SUBSET mill_lines(o)
         /\ removal_count(lines, o) \in Nat
  BY LinesCounted DEF usable_mills, removal_count
<1> QED BY <1>2, <1>3, <1>4

-----------------------------------------------------------------------------
(* Helpers return positions *)

LEMMA ClearTyped ==
  ASSUME NEW s \in MillStates
  PROVE  clear_capture_state(s) \in MillStates
BY DEF clear_capture_state, MillStates, Both, Sides

LEMMA ClearSideTyped ==
  ASSUME NEW s \in MillStates, NEW c \in Sides
  PROVE  clear_capture_state_for_side(s, c) \in MillStates
BY DEF clear_capture_state_for_side, MillStates, Both, Sides

LEMMA SyncActionTyped ==
  ASSUME NEW s \in MillStates
  PROVE  sync_action_state(s) \in MillStates
BY ZenonT(60) DEF sync_action_state, synced_action, MillStates, ActionStates

LEMMA SyncPhaseTyped ==
  ASSUME NEW s \in MillStates
  PROVE  sync_phase_with_active_hand(s) \in MillStates
BY ZenonT(60) DEF sync_phase_with_active_hand, MillStates, Phases

LEMMA GameOverTyped ==
  ASSUME NEW s \in MillStates, NEW winner \in Sides \union {DRAW},
         NEW reason \in Outcomes
  PROVE  game_over(s, winner, reason) \in MillStates
BY DEF game_over, MillStates, Phases

LEMMA NoteTyped ==
  ASSUME NEW s \in MillStates, NEW o \in MillVariantOptions, NEW c \in Sides,
         NEW from \in Nodes \union {NONE}, NEW to \in Nodes \union {NONE},
         NEW lines \in SUBSET (SUBSET Nodes)
  PROVE  note_mill_formation(s, o, c, from, to, lines) \in MillStates
<1>1. UNION lines \in SUBSET Nodes
  OBVIOUS
<1>2. (IF o.one_time_use_mill THEN s.formed_mills[c] \union UNION lines
                              ELSE s.formed_mills[c]) \in SUBSET Nodes
  BY <1>1 DEF MillStates
<1> QED BY <1>2 DEF note_mill_formation, MillStates

LEMMA ActivateTyped ==
  ASSUME NEW s \in MillStates, NEW custodian \in SUBSET Nodes,
         NEW intervention \in SUBSET Nodes, NEW leap \in SUBSET Nodes
  PROVE  activate_capture_state(s, custodian, intervention, leap) \in MillStates
BY DEF activate_capture_state, MillStates

LEMMA CaptureTotalTyped ==
  ASSUME NEW s \in MillStates, s.side_to_move \in Sides
  PROVE  capture_total(s) \in Nat
<1>1. /\ Cardinality(s.intervention_targets[s.side_to_move]) \in Nat
      /\ Cardinality(s.leap_targets[s.side_to_move]) \in Nat
  BY PointsCounted DEF MillStates
<1> QED BY <1>1 DEF capture_total

(* Whatever a capture rule detects are pieces of the opponent of the side  *)
(* to move.                                                                *)
LEMMA DetectedAreTheirs ==
  ASSUME NEW s \in MillStates, NEW o \in MillVariantOptions
  PROVE  LET theirs == SUBSET piece_bitboard(s, Opp(s.side_to_move))
         IN /\ \A to : detect_custodian_targets(s, o, to) \in theirs
            /\ \A to : detect_intervention_targets(s, o, to) \in theirs
            /\ \A from, to : detect_leap_targets(s, o, from, to) \in theirs
<1>1. \A T : filter_capture_targets(s, o, T)
                \in SUBSET piece_bitboard(s, Opp(s.side_to_move))
  BY DEF filter_capture_targets, Unprotected
<1>2. \A to : detect_custodian_targets(s, o, to)
                 \in SUBSET piece_bitboard(s, Opp(s.side_to_move))
  BY <1>1 DEF detect_custodian_targets
<1>3. \A to : detect_intervention_targets(s, o, to)
                 \in SUBSET piece_bitboard(s, Opp(s.side_to_move))
  BY <1>1 DEF detect_intervention_targets
<1>4. \A from, to : detect_leap_targets(s, o, from, to)
                       \in SUBSET piece_bitboard(s, Opp(s.side_to_move))
  BY <1>1 DEF detect_leap_targets
<1> QED BY <1>2, <1>3, <1>4

(* The partner of an intervention target is one of the targets.            *)
LEMMA PairedTyped ==
  ASSUME NEW targets \in SUBSET Nodes, NEW n, NEW o
  PROVE  find_paired_intervention_target(n, targets, o) \in SUBSET targets
BY SMTT(60) DEF find_paired_intervention_target, FirstOf

LEMMA MillCountRemovalsTyped ==
  ASSUME NEW s \in MillStates, NEW o \in MillVariantOptions
  PROVE  /\ apply_removal_based_on_mill_counts(s, o) \in MillStates
         /\ apply_removal_based_on_mill_counts(s, o).side_to_move = s.side_to_move
<1> DEFINE m == [c \in Sides |-> total_mills_count(s, o, c)]
           Owed(c) ==
             IF m[0] = 0 /\ m[1] = 0 THEN 1
             ELSE IF m[Opp(c)] = 0 THEN 2
             ELSE IF m[c] = 0 THEN 1
             ELSE IF m[c] > m[Opp(c)] THEN m[Opp(c)] + 1 ELSE m[c]
<1>1. m \in [Sides -> Nat]
  BY CountsAreNatural
<1>2. \A c \in Sides : Owed(c) \in Nat
  BY <1>1 DEF Sides, Opp
<1>3. apply_removal_based_on_mill_counts(s, o) =
        [s EXCEPT !.remove_own_piece = Both(m[0] = 0 /\ m[1] = 0),
                  !.pending_removals = [c \in Sides |-> Owed(c)],
                  !.mill_available_at_removal = TRUE]
  BY DEF apply_removal_based_on_mill_counts
<1>4. Both(m[0] = 0 /\ m[1] = 0) \in [Sides -> BOOLEAN]
  BY DEF Both
<1>5. [c \in Sides |-> Owed(c)] \in [Sides -> Nat]
  BY <1>2
<1> HIDE DEF m, Owed
<1> QED BY ZenonT(60), <1>3, <1>4, <1>5 DEF MillStates

LEMMA EnterMovingTyped ==
  ASSUME NEW s \in MillStates, NEW o \in MillVariantOptions
  PROVE  /\ enter_moving_phase(s, o) \in MillStates
         /\ s.side_to_move \in Sides =>
              enter_moving_phase(s, o).side_to_move \in Sides
<1> DEFINE swept == sweep_marked([s EXCEPT !.phase = "Moving"])
           counted == IF o.mill_formation_action_in_placing_phase
                           = "RemovalBasedOnMillCounts"
                        THEN apply_removal_based_on_mill_counts(swept, o)
                        ELSE swept
<1>1. swept \in MillStates /\ swept.side_to_move = s.side_to_move
  BY DEF sweep_marked, MillStates, Phases
<1>2. counted \in MillStates /\ counted.side_to_move = s.side_to_move
  BY <1>1, MillCountRemovalsTyped
<1>3. enter_moving_phase(s, o) =
        [counted EXCEPT !.side_to_move =
           IF o.is_defender_move_first THEN 1
           ELSE IF KeepsSideAtPlacingEnd(o) THEN counted.side_to_move ELSE 0]
  BY DEF enter_moving_phase
<1> HIDE DEF counted
<1> QED BY ZenonT(60), <1>2, <1>3 DEF MillStates, Sides

LEMMA TransitionTyped ==
  ASSUME NEW s \in MillStates, NEW o \in MillVariantOptions
  PROVE  /\ maybe_transition_to_moving(s, o) \in MillStates
         /\ s.side_to_move \in Sides =>
              maybe_transition_to_moving(s, o).side_to_move \in Sides
<1> DEFINE placed == IF s.phase = "Placing" /\ s.pieces_in_hand = Both(0)
                       THEN enter_moving_phase(s, o) ELSE s
           emptied == [placed EXCEPT !.pieces_in_hand = Both(0)]
<1>1. /\ placed \in MillStates
      /\ s.side_to_move \in Sides => placed.side_to_move \in Sides
  BY EnterMovingTyped
<1>2. /\ emptied \in MillStates
      /\ emptied.side_to_move = placed.side_to_move
  BY ZenonT(60), <1>1 DEF MillStates, Both
<1>3. /\ enter_moving_phase(emptied, o) \in MillStates
      /\ s.side_to_move \in Sides =>
           enter_moving_phase(emptied, o).side_to_move \in Sides
  BY <1>1, <1>2, EnterMovingTyped
<1>4. \/ maybe_transition_to_moving(s, o) = placed
      \/ maybe_transition_to_moving(s, o) = enter_moving_phase(emptied, o)
  BY DEF maybe_transition_to_moving
<1> QED BY <1>1, <1>3, <1>4

LEMMA StopPlacingTyped ==
  ASSUME NEW s \in MillStates, NEW o
  PROVE  /\ maybe_stop_placing_when_two_empty(s, o) \in MillStates
         /\ maybe_stop_placing_when_two_empty(s, o).side_to_move = s.side_to_move
BY DEF maybe_stop_placing_when_two_empty, MillStates, Both

LEMMA FullBoardTyped ==
  ASSUME NEW s \in MillStates, NEW o
  PROVE  /\ maybe_finish_full_board(s, o) \in MillStates
         /\ s.side_to_move \in Sides =>
              \/ maybe_finish_full_board(s, o).side_to_move \in Sides
              \/ maybe_finish_full_board(s, o).phase = "GameOver"
<1>1. \A owed \in [Sides -> Nat], first \in Sides :
         /\ board_full_removals(s, owed, first) \in MillStates
         /\ board_full_removals(s, owed, first).side_to_move = first
  BY ZenonT(60) DEF board_full_removals, MillStates
<1>2. \A winner \in {1, DRAW}, reason \in {"LoseFullBoard", "DrawFullBoard"} :
         /\ game_over(s, winner, reason) \in MillStates
         /\ game_over(s, winner, reason).phase = "GameOver"
  <2>1. {1, DRAW} \subseteq Sides \union {DRAW}
        /\ {"LoseFullBoard", "DrawFullBoard"} \subseteq Outcomes
    BY DEF Sides, Outcomes
  <2>2. \A winner, reason : game_over(s, winner, reason).phase = "GameOver"
    BY DEF game_over, MillStates
  <2> QED BY <2>1, <2>2, GameOverTyped
<1>3. /\ Both(1) \in [Sides -> Nat] /\ 0 \in Sides /\ 1 \in Sides
      /\ \A c \in Sides : [Both(0) EXCEPT ![c] = 1] \in [Sides -> Nat]
  BY DEF Both, Sides
<1>4. (IF o.is_defender_move_first THEN 1 ELSE 0) \in Sides
  BY DEF Sides
<1> QED BY <1>1, <1>2, <1>3, <1>4 DEF maybe_finish_full_board

-----------------------------------------------------------------------------
(* Every way a turn or a removal can end leaves a coherent position: one   *)
(* that is well-formed and whose action byte is what sync_action_state     *)
(* computes.                                                               *)

Coherent(s) == s \in MillStates /\ Synced(s)
Live(s) == s \in MillStates /\ s.side_to_move \in Sides

LEMMA PassLive ==
  ASSUME NEW s, Live(s), NEW c \in Sides
  PROVE  Live([s EXCEPT !.side_to_move = c])
BY DEF Live, MillStates

LEMMA OppIsSide ==
  ASSUME NEW c \in Sides
  PROVE  Opp(c) \in Sides /\ Opp(c) # c
BY DEF Opp, Sides

LEMMA SyncedCoherent ==
  ASSUME NEW s \in MillStates,
         s.phase # "GameOver" => s.side_to_move \in Sides
  PROVE  Coherent(sync_action_state(s))
BY ZenonT(60), SyncActionTyped
   DEF Coherent, Synced, sync_action_state, synced_action, MillStates

LEMMA GameOverCoherent ==
  ASSUME NEW s \in MillStates, NEW winner \in Sides \union {DRAW},
         NEW reason \in Outcomes
  PROVE  Coherent(game_over(s, winner, reason))
BY ZenonT(60), GameOverTyped DEF Coherent, Synced, game_over, MillStates

LEMMA SettleCoherent ==
  ASSUME NEW s, Live(s), NEW o \in MillVariantOptions
  PROVE  Coherent(settle(s, o))
<1> DEFINE moved == maybe_transition_to_moving(s, o)
           phased == sync_phase_with_active_hand(moved)
           finished == maybe_finish_full_board(phased, o)
<1>1. Live(moved)
  BY TransitionTyped DEF Live
<1>2. phased \in MillStates
  BY <1>1, SyncPhaseTyped DEF Live
<1>3. phased.side_to_move = moved.side_to_move
  BY <1>1 DEF sync_phase_with_active_hand, Live, MillStates
<1>4. /\ finished \in MillStates
      /\ finished.side_to_move \in Sides \/ finished.phase = "GameOver"
  BY <1>1, <1>2, <1>3, FullBoardTyped DEF Live
<1>5. settle(s, o) = sync_action_state(finished)
  BY DEF settle
<1> HIDE DEF finished
<1> QED BY <1>4, <1>5, SyncedCoherent

(* The action byte depends on the phase, the side to move and what is owed *)
(* and on nothing else.                                                    *)
LEMMA SameTurnCoherent ==
  ASSUME NEW s, NEW t \in MillStates, Coherent(s),
         t.phase = s.phase, t.side_to_move = s.side_to_move,
         t.action = s.action, t.pending_removals = s.pending_removals
  PROVE  Coherent(t)
BY DEF Coherent, Synced, synced_action

LEMMA NoteCoherent ==
  ASSUME NEW s, Coherent(s), NEW o \in MillVariantOptions, NEW c \in Sides,
         NEW from \in Nodes \union {NONE}, NEW to \in Nodes \union {NONE},
         NEW lines \in SUBSET (SUBSET Nodes)
  PROVE  Coherent(note_mill_formation(s, o, c, from, to, lines))
<1> DEFINE t == note_mill_formation(s, o, c, from, to, lines)
<1>1. t \in MillStates
  BY NoteTyped DEF Coherent
<1>2. /\ t.phase = s.phase /\ t.side_to_move = s.side_to_move
      /\ t.action = s.action /\ t.pending_removals = s.pending_removals
  BY DEF note_mill_formation, Coherent, MillStates
<1> QED BY <1>1, <1>2, SameTurnCoherent

LEMMA ClearCoherent ==
  ASSUME NEW s, Coherent(s)
  PROVE  Coherent(clear_capture_state(s))
<1> DEFINE t == clear_capture_state(s)
<1>1. t \in MillStates
  BY ClearTyped DEF Coherent
<1>2. /\ t.phase = s.phase /\ t.side_to_move = s.side_to_move
      /\ t.action = s.action /\ t.pending_removals = s.pending_removals
  BY DEF clear_capture_state, Coherent, MillStates
<1> QED BY <1>1, <1>2, SameTurnCoherent

LEMMA StalemateTyped ==
  ASSUME NEW s, Coherent(s), NEW o, is_stalemate(s, o)
  PROVE  /\ resolve_stalemate(s, o) \in MillStates
         /\ resolve_stalemate(s, o).side_to_move \in Sides
<1> DEFINE c == s.side_to_move
           owing == [s EXCEPT !.pending_removals[c] = 1]
<1>1. s \in MillStates /\ c \in Sides
  BY DEF Coherent, is_stalemate, MillStates
<1>2. owing \in MillStates /\ owing.side_to_move = c
  BY <1>1 DEF MillStates
<1>3. [owing EXCEPT !.stalemate_removing = TRUE] \in MillStates
      /\ [owing EXCEPT !.stalemate_removing = TRUE].side_to_move = c
  BY <1>2 DEF MillStates
<1>4. [owing EXCEPT !.pending_removals[Opp(c)] = 1,
                    !.both_stalemate_removing = TRUE] \in MillStates
      /\ [owing EXCEPT !.pending_removals[Opp(c)] = 1,
                       !.both_stalemate_removing = TRUE].side_to_move = c
  BY <1>2 DEF MillStates
<1>5. \A u \in MillStates : /\ clear_capture_state(u) \in MillStates
                            /\ clear_capture_state(u).side_to_move = u.side_to_move
  BY ClearTyped DEF clear_capture_state, MillStates
<1>6. \A w \in Sides \union {DRAW}, r \in Outcomes :
        LET u == [s EXCEPT !.phase = "GameOver", !.winner = w,
                           !.outcome_reason = r]
        IN u \in MillStates /\ u.side_to_move = c
  BY <1>1 DEF MillStates, Phases
<1>7. LET u == [s EXCEPT !.side_to_move = Opp(c)]
      IN /\ sync_phase_with_active_hand(u) \in MillStates
         /\ sync_phase_with_active_hand(u).side_to_move \in Sides
  <2>1. [s EXCEPT !.side_to_move = Opp(c)] \in MillStates
        /\ [s EXCEPT !.side_to_move = Opp(c)].side_to_move \in Sides
    BY <1>1, OppIsSide, PassLive DEF Live
  <2> QED BY ZenonT(60), <2>1, SyncPhaseTyped DEF sync_phase_with_active_hand, MillStates
<1>8. Opp(c) \in Sides /\ "LoseNoLegalMoves" \in Outcomes
      /\ "DrawStalemate" \in Outcomes
  BY <1>1 DEF Sides, Opp, Outcomes
<1> QED BY <1>1, <1>2, <1>3, <1>4, <1>5, <1>6, <1>7, <1>8 DEF resolve_stalemate

LEMMA StalemateCoherent ==
  ASSUME NEW s, Coherent(s), NEW o \in MillVariantOptions
  PROVE  Coherent(maybe_handle_stalemate(s, o))
<1>1. CASE ~is_stalemate(s, o)
  BY <1>1 DEF maybe_handle_stalemate
<1>2. CASE is_stalemate(s, o)
  <2>1. /\ resolve_stalemate(s, o) \in MillStates
        /\ resolve_stalemate(s, o).side_to_move \in Sides
    BY <1>2, StalemateTyped
  <2>2. maybe_handle_stalemate(s, o) = sync_action_state(resolve_stalemate(s, o))
    BY <1>2 DEF maybe_handle_stalemate
  <2> QED BY <2>1, <2>2, SyncedCoherent
<1> QED BY <1>1, <1>2

-----------------------------------------------------------------------------
(* Counters and repetition *)

(* A position that is over or has a side to move.                          *)
Playable(s) == s \in MillStates /\ (s.phase # "GameOver" => s.side_to_move \in Sides)

LEMMA ClearKeysLive ==
  ASSUME NEW s, Live(s)
  PROVE  Live(clear_key_history(s))
<1>1. << >> \in Seq(Signatures)
  OBVIOUS
<1> QED BY <1>1 DEF Live, clear_key_history, MillStates

LEMMA OweLive ==
  ASSUME NEW s, Live(s), NEW n \in Nat
  PROVE  Live(owe(s, n))
BY DEF Live, owe, MillStates

LEMMA ClearLive ==
  ASSUME NEW s, Live(s)
  PROVE  Live(clear_capture_state(s))
<1>1. clear_capture_state(s).side_to_move = s.side_to_move
  BY DEF clear_capture_state, Live, MillStates
<1> QED BY <1>1, ClearTyped DEF Live

LEMMA BumpLive ==
  ASSUME NEW s, Live(s), NEW o
  PROVE  Live(bump_ply_since_capture(s, o))
<1>1. s.ply_since_capture + 1 \in Nat
  BY DEF Live, MillStates
<1>2. \A n \in Nat : Live([s EXCEPT !.ply_since_capture = n])
  BY DEF Live, MillStates
<1> QED BY <1>1, <1>2 DEF bump_ply_since_capture

LEMMA PushKeyLive ==
  ASSUME NEW s, Live(s), NEW o
  PROVE  Live(push_key(s, o))
<1> DEFINE key == repetition_signature(s)
           room == IF Len(s.key_history) >= HistoryCap
                     THEN Tail(s.key_history) ELSE s.key_history
<1>1. key \in Signatures
  BY DEF repetition_signature, Signatures, Live, MillStates
<1>2. s.key_history \in Seq(Signatures)
  BY DEF Live, MillStates
<1>3. room \in Seq(Signatures)
  <2>1. CASE Len(s.key_history) >= HistoryCap
    <3>1. s.key_history # << >>
      BY <2>1, <1>2, BoardAssumption
    <3> QED BY <2>1, <3>1, <1>2
  <2> QED BY <2>1, <1>2
<1>4. Append(room, key) \in Seq(Signatures)
  BY <1>1, <1>3
<1>5. \/ push_key(s, o) = s
      \/ push_key(s, o) = [s EXCEPT !.key_history = Append(room, key)]
  BY DEF push_key
<1> HIDE DEF key, room
<1> QED BY ZenonT(60), <1>4, <1>5 DEF Live, MillStates

LEMMA GameOverPlayable ==
  ASSUME NEW s \in MillStates, NEW winner \in Sides \union {DRAW},
         NEW reason \in Outcomes
  PROVE  Playable(game_over(s, winner, reason))
<1>1. game_over(s, winner, reason).phase = "GameOver"
  BY DEF game_over, MillStates
<1> QED BY <1>1, GameOverTyped DEF Playable

(* Adjudicating a quiet move leaves a position that is over or has a side  *)
(* to move.                                                                *)
LEMMA AdjudicatedPlayable ==
  ASSUME NEW s, Live(s), NEW o
  PROVE  Playable(maybe_draw_by_n_move_rule(push_key_and_check_threefold(s, o), o))
<1> DEFINE t == push_key_and_check_threefold(s, o)
<1>1. /\ {"DrawThreefold", "DrawFiftyMove", "DrawEndgameFiftyMove"} \subseteq Outcomes
      /\ DRAW \in Sides \union {DRAW}
  BY DEF Outcomes
<1>2. Playable(t)
  <2>1. Live(push_key(s, o))
    BY PushKeyLive
  <2>2. Playable(game_over(push_key(s, o), DRAW, "DrawThreefold"))
    BY <2>1, <1>1, GameOverPlayable DEF Live
  <2> QED BY <2>1, <2>2 DEF push_key_and_check_threefold, Playable, Live
<1>3. \A r \in {"DrawFiftyMove", "DrawEndgameFiftyMove"} : Playable(game_over(t, DRAW, r))
  BY <1>1, <1>2, GameOverPlayable DEF Playable
<1> HIDE DEF t
<1>4. Playable(maybe_draw_by_n_move_rule(t, o))
  BY <1>2, <1>3 DEF maybe_draw_by_n_move_rule
<1> QED BY <1>4 DEF t

LEMMA SyncPhasePlayable ==
  ASSUME NEW s, Playable(s)
  PROVE  Playable(sync_phase_with_active_hand(s))
<1>1. /\ sync_phase_with_active_hand(s).side_to_move = s.side_to_move
      /\ s.phase = "GameOver" => sync_phase_with_active_hand(s).phase = "GameOver"
  BY DEF sync_phase_with_active_hand, Playable, MillStates
<1> QED BY <1>1, SyncPhaseTyped DEF Playable

LEMMA SyncPlayable ==
  ASSUME NEW s, Playable(s)
  PROVE  Coherent(sync_action_state(s))
BY SyncedCoherent DEF Playable

-----------------------------------------------------------------------------
(* Placing *)

LEMMA PlacedLive ==
  ASSUME NEW s, Live(s), NEW to \in Nodes
  PROVE  /\ Live(place_live_piece(s, to))
         /\ place_live_piece(s, to).side_to_move = s.side_to_move
<1> DEFINE c == s.side_to_move
           hand == IF s.pieces_in_hand[c] > 0 THEN s.pieces_in_hand[c] - 1 ELSE 0
           count == s.pieces_on_board[c] + 1
           t == [s EXCEPT !.board[to] = c, !.pieces_in_hand[c] = hand,
                          !.pieces_on_board[c] = count, !.ply_since_capture = 0]
<1>1. hand \in Nat /\ count \in Int
  BY DEF Live, MillStates
<1>2. Live(t) /\ t.side_to_move = c
  <2> HIDE DEF hand, count
  <2> QED BY ZenonT(60), <1>1 DEF Live, MillStates
<1>3. place_live_piece(s, to) = clear_key_history(t)
  BY DEF place_live_piece
<1>4. clear_key_history(t).side_to_move = t.side_to_move
  BY ZenonT(60), <1>2 DEF clear_key_history, Live, MillStates
<1> QED BY <1>2, <1>3, <1>4, ClearKeysLive

LEMMA ActivateLive ==
  ASSUME NEW s, Live(s), NEW custodian \in SUBSET Nodes,
         NEW intervention \in SUBSET Nodes, NEW leap \in SUBSET Nodes
  PROVE  LET t == activate_capture_state(s, custodian, intervention, leap)
         IN Live(t) /\ t.side_to_move = s.side_to_move
<1>1. activate_capture_state(s, custodian, intervention, leap).side_to_move
        = s.side_to_move
  BY DEF activate_capture_state, Live, MillStates
<1> QED BY <1>1, ActivateTyped DEF Live

LEMMA AvailableLive ==
  ASSUME NEW s, Live(s), NEW b \in BOOLEAN
  PROVE  Live([s EXCEPT !.mill_available_at_removal = b])
BY DEF Live, MillStates

LEMMA LivePlayable ==
  ASSUME NEW s, Live(s)
  PROVE  Coherent(sync_action_state(s))
BY SyncPlayable DEF Live, Playable

LEMMA CaptureOnlyCoherent ==
  ASSUME NEW s, Live(s), NEW custodian \in SUBSET Nodes,
         NEW intervention \in SUBSET Nodes
  PROVE  Coherent(capture_only(s, custodian, intervention))
<1> DEFINE active == activate_capture_state(s, custodian, intervention, {})
           t == [owe(active, capture_total(active))
                   EXCEPT !.mill_available_at_removal = FALSE]
<1>1. Live(active)
  BY ActivateLive
<1>2. capture_total(active) \in Nat
  BY <1>1, CaptureTotalTyped DEF Live
<1>3. Live(owe(active, capture_total(active)))
  BY <1>1, <1>2, OweLive
<1>4. Live(t)
  BY <1>3, AvailableLive
<1>5. capture_only(s, custodian, intervention) = sync_action_state(t)
  BY DEF capture_only
<1> HIDE DEF t
<1> QED BY <1>4, <1>5, LivePlayable

LEMMA FromHandCoherent ==
  ASSUME NEW s, Live(s), NEW o \in MillVariantOptions,
         NEW lines \in SUBSET mill_lines(o)
  PROVE  Coherent(place_mill_from_hand(s, o, lines))
<1> DEFINE c == s.side_to_move
           earned == removal_count(lines, o)
           hand == s.pieces_in_hand[Opp(c)]
           taken == hand_removed(earned, hand)
           left == hand - taken
           drawn == [s EXCEPT !.pieces_in_hand[Opp(c)] = left]
           next == IF o.mill_formation_action_in_placing_phase
                        = "RemoveOpponentsPieceFromHandThenOpponentsTurn"
                     THEN Opp(c) ELSE c
           t == IF earned > taken THEN sync_action_state(owe(drawn, earned - taken))
                ELSE settle([drawn EXCEPT !.side_to_move = next], o)
<1>1. c \in Sides /\ Opp(c) \in Sides /\ next \in Sides
  BY OppIsSide DEF Live
<1>2. earned \in Nat /\ hand \in Nat
  BY <1>1, CountsAreNatural DEF Live, MillStates
<1>3. taken \in Nat /\ taken <= hand /\ left \in Nat
  BY <1>2 DEF hand_removed
<1>4. Live(drawn)
  <2> HIDE DEF left
  <2> QED BY <1>1, <1>3 DEF Live, MillStates
<1>5. earned > taken => Coherent(sync_action_state(owe(drawn, earned - taken)))
  <2>1. earned > taken => earned - taken \in Nat
    BY <1>2, <1>3
  <2> HIDE DEF drawn
  <2> QED BY <1>4, <2>1, OweLive, LivePlayable
<1>6. Coherent(settle([drawn EXCEPT !.side_to_move = next], o))
  <2> HIDE DEF drawn
  <2> QED BY <1>1, <1>4, PassLive, SettleCoherent
<1>7. place_mill_from_hand(s, o, lines) = clear_capture_state(t)
  BY DEF place_mill_from_hand
<1>8. Coherent(t)
  BY <1>5, <1>6
<1> HIDE DEF t
<1> QED BY <1>7, <1>8, ClearCoherent

LEMMA CountedCoherent ==
  ASSUME NEW s, Live(s), NEW o \in MillVariantOptions
  PROVE  Coherent(place_mill_counted(s, o))
<1> DEFINE cleared == clear_capture_state(s)
<1>1. Live(cleared)
  BY ClearLive
<1>2. Live(apply_removal_based_on_mill_counts(cleared, o))
  BY <1>1, MillCountRemovalsTyped DEF Live
<1>3. Live([cleared EXCEPT !.side_to_move = Opp(cleared.side_to_move)])
  BY <1>1, OppIsSide, PassLive DEF Live
<1> HIDE DEF cleared
<1>4. place_mill_counted(s, o) =
        settle(IF s.pieces_in_hand = Both(0)
                 THEN apply_removal_based_on_mill_counts(cleared, o)
                 ELSE [cleared EXCEPT !.side_to_move = Opp(cleared.side_to_move)], o)
  BY DEF place_mill_counted, cleared
<1> QED BY <1>2, <1>3, <1>4, SettleCoherent

LEMMA OnBoardCoherent ==
  ASSUME NEW s, Live(s), NEW o \in MillVariantOptions,
         NEW lines \in SUBSET mill_lines(o),
         NEW custodian \in SUBSET Nodes, NEW intervention \in SUBSET Nodes
  PROVE  Coherent(place_mill_on_board(s, o, lines, custodian, intervention))
<1> DEFINE earned == removal_count(lines, o)
           owing == [owe(s, earned) EXCEPT !.mill_available_at_removal = TRUE]
           active == activate_capture_state(owing, custodian, intervention, {})
           t == IF o.may_remove_multiple
                  THEN owe(active, earned + capture_total(active)) ELSE active
<1>1. earned \in Nat
  BY CountsAreNatural
<1>2. Live(owing)
  BY <1>1, OweLive, AvailableLive
<1>3. Live(active)
  <2> HIDE DEF owing
  <2> QED BY <1>2, ActivateLive
<1>4. capture_total(active) \in Nat
  BY <1>3, CaptureTotalTyped DEF Live
<1>5. earned + capture_total(active) \in Nat
  <2> HIDE DEF earned, active
  <2> QED BY <1>1, <1>4
<1>6. Live(t)
  BY <1>3, <1>5, OweLive
<1>7. place_mill_on_board(s, o, lines, custodian, intervention) = sync_action_state(t)
  BY DEF place_mill_on_board
<1> HIDE DEF t
<1> QED BY <1>6, <1>7, LivePlayable

LEMMA QuietPlaceCoherent ==
  ASSUME NEW s, Live(s), NEW o \in MillVariantOptions
  PROVE  Coherent(place_quietly(s, o))
<1> DEFINE stopped == maybe_stop_placing_when_two_empty(clear_capture_state(s), o)
           passed == [stopped EXCEPT !.side_to_move = Opp(stopped.side_to_move)]
<1>1. Live(stopped)
  BY ClearLive, StopPlacingTyped DEF Live
<1>2. Live(passed)
  BY <1>1, OppIsSide, PassLive DEF Live
<1>3. \/ place_quietly(s, o) = settle(stopped, o)
      \/ place_quietly(s, o) = settle(passed, o)
  BY DEF place_quietly
<1> HIDE DEF stopped, passed
<1> QED BY <1>1, <1>2, <1>3, SettleCoherent

LEMMA PlaceCoherent ==
  ASSUME NEW s, Live(s), NEW o \in MillVariantOptions, NEW to \in Nodes
  PROVE  Coherent(apply_place(s, o, to))
<1> DEFINE c == s.side_to_move
           placed == place_live_piece(s, to)
           custodian == detect_custodian_targets(placed, o, to)
           intervention == detect_intervention_targets(placed, o, to)
           lines == usable_mills(placed, o, formed_mills_at(placed, o, to, c))
           mill == IF o.mill_formation_action_in_placing_phase \in FromHandActions
                     THEN place_mill_from_hand(placed, o, lines)
                   ELSE IF o.mill_formation_action_in_placing_phase
                             = "RemovalBasedOnMillCounts"
                     THEN place_mill_counted(placed, o)
                   ELSE place_mill_on_board(placed, o, lines, custodian, intervention)
<1>1. Live(placed) /\ c \in Sides
  BY PlacedLive DEF Live
<1>2. custodian \in SUBSET Nodes /\ intervention \in SUBSET Nodes
  <2> HIDE DEF placed
  <2> QED BY <1>1, DetectedAreTheirs DEF Live, piece_bitboard
<1>3. lines \in SUBSET mill_lines(o)
  <2> HIDE DEF placed
  <2> QED BY CountsAreNatural
<1>4. lines \in SUBSET (SUBSET Nodes)
  BY <1>3, LinesCounted
<1> HIDE DEF placed, custodian, intervention, lines
<1>5. Coherent(mill)
  BY <1>1, <1>2, <1>3, FromHandCoherent, CountedCoherent, OnBoardCoherent
<1>6. Coherent(capture_only(placed, custodian, intervention))
  BY <1>1, <1>2, CaptureOnlyCoherent
<1>7. Coherent(place_quietly(placed, o))
  BY <1>1, QuietPlaceCoherent
<1>8. Coherent(note_mill_formation(mill, o, c, NONE, to, lines))
  <2> HIDE DEF mill
  <2> QED BY <1>1, <1>4, <1>5, NoteCoherent
<1>9. \/ apply_place(s, o, to) = note_mill_formation(mill, o, c, NONE, to, lines)
      \/ apply_place(s, o, to) = capture_only(placed, custodian, intervention)
      \/ apply_place(s, o, to) = place_quietly(placed, o)
  BY DEF apply_place, placed, custodian, intervention, lines
<1> QED BY <1>6, <1>7, <1>8, <1>9

-----------------------------------------------------------------------------
(* Moving *)

LEMMA MovedLive ==
  ASSUME NEW s, Live(s), NEW from \in Nodes, NEW to \in Nodes
  PROVE  /\ Live(move_live_piece(s, from, to))
         /\ move_live_piece(s, from, to).side_to_move = s.side_to_move
<1> DEFINE b == [s.board EXCEPT ![from] = NONE, ![to] = s.side_to_move]
<1>1. b \in [Nodes -> Sides \union {NONE}]
  BY DEF Live, MillStates
<1>2. move_live_piece(s, from, to) = [s EXCEPT !.board = b]
  BY DEF move_live_piece
<1> HIDE DEF b
<1> QED BY ZenonT(60), <1>1, <1>2 DEF Live, MillStates

LEMMA BumpSide ==
  ASSUME NEW s, Live(s), NEW o
  PROVE  bump_ply_since_capture(s, o).side_to_move = s.side_to_move
BY DEF bump_ply_since_capture, Live, MillStates

LEMMA ForgetMillLive ==
  ASSUME NEW s, Live(s), NEW c \in Sides
  PROVE  Live([s EXCEPT !.last_mill_from[c] = NONE, !.last_mill_to[c] = NONE,
                        !.side_to_move = Opp(c)])
BY OppIsSide DEF Live, MillStates

LEMMA PassedCoherent ==
  ASSUME NEW s, Playable(s)
  PROVE  Coherent(sync_action_state(sync_phase_with_active_hand(s)))
BY SyncPhasePlayable, SyncPlayable

LEMMA QuietMoveCoherent ==
  ASSUME NEW s, Live(s), NEW o \in MillVariantOptions, NEW adjudicate
  PROVE  Coherent(move_quietly(s, o, adjudicate))
<1> DEFINE c == s.side_to_move
           cleared == clear_capture_state(s)
           passed == [cleared EXCEPT !.last_mill_from[c] = NONE,
                        !.last_mill_to[c] = NONE, !.side_to_move = Opp(c)]
           judged == maybe_draw_by_n_move_rule(push_key_and_check_threefold(passed, o), o)
<1>1. c \in Sides /\ Live(cleared)
  BY ClearLive DEF Live
<1>2. Live(passed)
  <2> HIDE DEF cleared
  <2> QED BY <1>1, ForgetMillLive
<1>3. Playable(passed)
  BY <1>2 DEF Live, Playable
<1>4. Playable(judged)
  <2> HIDE DEF passed
  <2> QED BY <1>2, AdjudicatedPlayable
<1>5. \/ move_quietly(s, o, adjudicate)
           = sync_action_state(sync_phase_with_active_hand(judged))
      \/ move_quietly(s, o, adjudicate)
           = sync_action_state(sync_phase_with_active_hand(passed))
  BY DEF move_quietly
<1> HIDE DEF judged, passed
<1> QED BY <1>3, <1>4, <1>5, PassedCoherent

LEMMA MillMoveCoherent ==
  ASSUME NEW s, Live(s), NEW o \in MillVariantOptions, NEW c \in Sides,
         NEW from \in Nodes, NEW to \in Nodes,
         NEW lines \in SUBSET mill_lines(o),
         NEW custodian \in SUBSET Nodes, NEW intervention \in SUBSET Nodes
  PROVE  Coherent(sync_action_state(note_mill_formation(
           activate_capture_state(
             [owe(s, removal_count(lines, o)) EXCEPT !.mill_available_at_removal = TRUE],
             custodian, intervention, {}), o, c, from, to, lines)))
<1> DEFINE owing == [owe(s, removal_count(lines, o))
                       EXCEPT !.mill_available_at_removal = TRUE]
           active == activate_capture_state(owing, custodian, intervention, {})
           noted == note_mill_formation(active, o, c, from, to, lines)
<1>1. Live(owing)
  BY CountsAreNatural, OweLive, AvailableLive
<1>2. Live(active)
  <2> HIDE DEF owing
  <2> QED BY <1>1, ActivateLive
<1>3. Live(noted)
  <2> HIDE DEF active
  <2>1. noted \in MillStates
    BY <1>2, LinesCounted, NoteTyped DEF Live
  <2>2. noted.side_to_move = active.side_to_move
    BY <1>2 DEF note_mill_formation, Live, MillStates
  <2> QED BY <1>2, <2>1, <2>2 DEF Live
<1> HIDE DEF noted
<1>4. Coherent(sync_action_state(noted))
  BY <1>3, LivePlayable
<1> QED BY <1>4 DEF noted

LEMMA MoveCoherent ==
  ASSUME NEW s, Live(s), NEW o \in MillVariantOptions,
         NEW from \in Nodes, NEW to \in Nodes, NEW adjudicate
  PROVE  Coherent(apply_move(s, o, from, to, adjudicate))
<1> DEFINE c == s.side_to_move
           moved == bump_ply_since_capture(move_live_piece(s, from, to), o)
           custodian == IF o.custodian_capture.in_moving_phase
                          THEN detect_custodian_targets(moved, o, to) ELSE {}
           intervention == IF o.intervention_capture.in_moving_phase
                             THEN detect_intervention_targets(moved, o, to) ELSE {}
           leap == IF o.leap_capture.in_moving_phase
                     THEN detect_leap_targets(moved, o, from, to) ELSE {}
           lines == usable_mills(moved, o, formed_mills_at(moved, o, to, c))
           leapt == [owe(activate_capture_state(moved, {}, {}, leap), 1)
                       EXCEPT !.mill_available_at_removal = FALSE]
           milled == sync_action_state(note_mill_formation(
                       activate_capture_state(
                         [owe(moved, removal_count(lines, o))
                            EXCEPT !.mill_available_at_removal = TRUE],
                         custodian, intervention, {}), o, c, from, to, lines))
<1>1. Live(moved) /\ c \in Sides
  BY MovedLive, BumpLive DEF Live
<1>2. /\ custodian \in SUBSET Nodes /\ intervention \in SUBSET Nodes
      /\ leap \in SUBSET Nodes
  <2> HIDE DEF moved
  <2> QED BY <1>1, DetectedAreTheirs DEF Live, piece_bitboard
<1>3. lines \in SUBSET mill_lines(o)
  <2> HIDE DEF moved
  <2> QED BY CountsAreNatural
<1> HIDE DEF moved, custodian, intervention, leap, lines
<1>4. Coherent(sync_action_state(leapt))
  <2>1. Live(activate_capture_state(moved, {}, {}, leap))
    BY <1>1, <1>2, ActivateLive
  <2>2. Live(leapt)
    BY <2>1, OweLive, AvailableLive
  <2> HIDE DEF leapt
  <2> QED BY <2>2, LivePlayable
<1>5. Coherent(milled)
  BY <1>1, <1>2, <1>3, MillMoveCoherent
<1>6. Coherent(capture_only(moved, custodian, intervention))
  BY <1>1, <1>2, CaptureOnlyCoherent
<1>7. Coherent(move_quietly(moved, o, adjudicate))
  BY <1>1, QuietMoveCoherent
<1>8. apply_move(s, o, from, to, adjudicate) \in
        {sync_action_state(leapt), milled,
         capture_only(moved, custodian, intervention),
         move_quietly(moved, o, adjudicate)}
  BY DEF apply_move, moved, custodian, intervention, leap, lines
<1> QED BY <1>4, <1>5, <1>6, <1>7, <1>8

-----------------------------------------------------------------------------
(* Removing *)

(* What a removal does before it is decided whether the turn is over keeps *)
(* the turn as it is.                                                      *)
SameTurn(s, t) ==
  /\ t \in MillStates
  /\ t.phase = s.phase /\ t.side_to_move = s.side_to_move /\ t.action = s.action

LEMMA ObligationSameTurn ==
  ASSUME NEW s, Live(s), NEW o, NEW n
  PROVE  SameTurn(s, choose_obligation(s, o, n))
<1> DEFINE c == s.side_to_move
           total == capture_total(s)
           none == [s EXCEPT !.mill_available_at_removal = FALSE,
                      !.custodian_targets[c] = {}, !.intervention_targets[c] = {},
                      !.leap_targets[c] = {}]
           owed == IF o.may_remove_multiple /\ s.pending_removals[c] > total
                     THEN s.pending_removals[c] - total ELSE s.pending_removals[c]
<1>1. /\ s.intervention_targets[c] \in SUBSET Nodes
      /\ s.custodian_targets[c] \in SUBSET Nodes
      /\ s.leap_targets[c] \in SUBSET Nodes
      /\ s.pending_removals[c] \in Nat
  BY DEF Live, MillStates
<1>2. total \in Nat
  BY CaptureTotalTyped DEF Live
<1>3. owed \in Nat
  <2> HIDE DEF total
  <2> QED BY <1>1, <1>2
<1>4. Cardinality(s.intervention_targets[c]) \in Nat
  BY <1>1, PointsCounted
<1>5. Live(none) /\ SameTurn(s, none)
  BY DEF Live, SameTurn, MillStates
<1>6. \A k \in Nat : /\ SameTurn(s, owe(none, k))
                     /\ owe(none, k).side_to_move = c
  <2> HIDE DEF none
  <2> QED BY <1>5 DEF SameTurn, owe, Live, MillStates
<1>7. \A u \in MillStates, T \in SUBSET Nodes :
        SameTurn(s, u) =>
          /\ SameTurn(s, [u EXCEPT !.intervention_targets[c] = T])
          /\ SameTurn(s, [u EXCEPT !.custodian_targets[c] = T])
          /\ SameTurn(s, [u EXCEPT !.leap_targets[c] = T])
          /\ SameTurn(s, [u EXCEPT !.mill_available_at_removal = TRUE])
  <2> TAKE u \in MillStates, T \in SUBSET Nodes
  <2>1. \A f \in [Sides -> SUBSET Nodes] : SameTurn(s, u) =>
          /\ SameTurn(s, [u EXCEPT !.intervention_targets = f])
          /\ SameTurn(s, [u EXCEPT !.custodian_targets = f])
          /\ SameTurn(s, [u EXCEPT !.leap_targets = f])
          /\ SameTurn(s, [u EXCEPT !.mill_available_at_removal = TRUE])
    BY ZenonT(60) DEF SameTurn, MillStates
  <2>2. \A f \in [Sides -> SUBSET Nodes] :
          [f EXCEPT ![c] = T] \in [Sides -> SUBSET Nodes]
    OBVIOUS
  <2>3. /\ u.intervention_targets \in [Sides -> SUBSET Nodes]
        /\ u.custodian_targets \in [Sides -> SUBSET Nodes]
        /\ u.leap_targets \in [Sides -> SUBSET Nodes]
    BY DEF MillStates
  <2> QED BY <2>1, <2>2, <2>3
<1>8. \A k \in Nat : owe(none, k) \in MillStates
  <2> HIDE DEF none
  <2> QED BY <1>6 DEF SameTurn
<1> DEFINE A == [owe(none, Cardinality(s.intervention_targets[c]))
                   EXCEPT !.intervention_targets[c] = s.intervention_targets[c]]
           B == [owe(none, 1) EXCEPT !.custodian_targets[c] = s.custodian_targets[c]]
           C == [owe(none, 1) EXCEPT !.leap_targets[c] = s.leap_targets[c]]
           D == [owe(none, owed) EXCEPT !.mill_available_at_removal = TRUE]
<1>9. SameTurn(s, A) /\ SameTurn(s, B) /\ SameTurn(s, C) /\ SameTurn(s, D)
  <2> HIDE DEF none, owed, c
  <2> QED BY <1>1, <1>3, <1>4, <1>6, <1>7, <1>8
<1>10. \/ choose_obligation(s, o, n) = A \/ choose_obligation(s, o, n) = B
       \/ choose_obligation(s, o, n) = C \/ choose_obligation(s, o, n) = D
       \/ choose_obligation(s, o, n) = s
  BY DEF choose_obligation
<1>11. SameTurn(s, s)
  BY DEF SameTurn, Live
<1> HIDE DEF A, B, C, D
<1> QED BY <1>9, <1>10, <1>11

LEMMA TakeSameTurn ==
  ASSUME NEW s, Live(s), NEW o, NEW n \in Nodes, NEW target \in Sides
  PROVE  SameTurn(s, take_piece(s, o, n, target))
<1> DEFINE c == s.side_to_move
           Less(k) == IF k > 0 THEN k - 1 ELSE 0
           taken == IF marks_removal(s, o)
                      THEN [s EXCEPT !.marked = s.marked \union {n}]
                      ELSE [s EXCEPT !.board[n] = NONE]
           count == Less(s.pieces_on_board[target])
           owed == Less(s.pending_removals[c])
           t == [taken EXCEPT !.pieces_on_board[target] = count,
                   !.pending_removals[c] = owed, !.ply_since_capture = 0]
<1>1. count \in Int /\ owed \in Nat
  BY DEF Live, MillStates
<1>2. /\ taken \in MillStates /\ taken.phase = s.phase
      /\ taken.side_to_move = s.side_to_move /\ taken.action = s.action
      /\ taken.pieces_on_board = s.pieces_on_board
      /\ taken.pending_removals = s.pending_removals
  BY ZenonT(60) DEF Live, MillStates
<1>3. take_piece(s, o, n, target) = clear_key_history(t)
  <2>1. take_piece(s, o, n, target) = clear_key_history(
          [taken EXCEPT !.pieces_on_board[target] = Less(taken.pieces_on_board[target]),
             !.pending_removals[c] = Less(taken.pending_removals[c]),
             !.ply_since_capture = 0])
    BY DEF take_piece
  <2> HIDE DEF taken, Less
  <2> QED BY <2>1, <1>2
<1> HIDE DEF taken, count, owed
<1>4. SameTurn(s, t)
  BY <1>1, <1>2 DEF SameTurn, MillStates, Live
<1> HIDE DEF t
<1>5. SameTurn(s, clear_key_history(t))
  <2>1. << >> \in Seq(Signatures)
    OBVIOUS
  <2> QED BY <1>4, <2>1 DEF SameTurn, clear_key_history, MillStates
<1> QED BY <1>3, <1>5

LEMMA ConsumeSameTurn ==
  ASSUME NEW s, Live(s), NEW o, NEW n \in Nodes
  PROVE  SameTurn(s, consume_target(s, o, n))
<1> DEFINE c == s.side_to_move
           pair == s.intervention_targets[c]
           custodian == IF n \in s.custodian_targets[c] THEN {} ELSE s.custodian_targets[c]
           leap == s.leap_targets[c] \ {n}
           intervention == IF n \notin pair THEN pair
                           ELSE IF pair = {n} THEN {}
                           ELSE find_paired_intervention_target(n, pair, o)
<1>1. /\ pair \in SUBSET Nodes /\ custodian \in SUBSET Nodes /\ leap \in SUBSET Nodes
  BY DEF Live, MillStates
<1>2. intervention \in SUBSET Nodes
  <2> HIDE DEF pair
  <2> QED BY <1>1, PairedTyped
<1> DEFINE F == [s.custodian_targets EXCEPT ![c] = custodian]
           G == [s.leap_targets EXCEPT ![c] = leap]
           H == [s.intervention_targets EXCEPT ![c] = intervention]
<1>3. consume_target(s, o, n) =
        [s EXCEPT !.custodian_targets = F, !.leap_targets = G,
                  !.intervention_targets = H]
  BY DEF consume_target
<1> HIDE DEF custodian, leap, intervention
<1>4. /\ F \in [Sides -> SUBSET Nodes] /\ G \in [Sides -> SUBSET Nodes]
      /\ H \in [Sides -> SUBSET Nodes]
  BY <1>1, <1>2 DEF Live, MillStates
<1> HIDE DEF F, G, H
<1>5. SameTurn(s, [s EXCEPT !.custodian_targets = F, !.leap_targets = G,
                            !.intervention_targets = H])
  BY <1>4 DEF SameTurn, Live, MillStates
<1> QED BY <1>3, <1>5

LEMMA FinishCoherent ==
  ASSUME NEW s, Live(s), NEW o \in MillVariantOptions, NEW own
  PROVE  Coherent(finish_removal(s, o, own))
<1> DEFINE c == s.side_to_move
           paid == clear_capture_state_for_side(s, c)
           own_left == IF own THEN FALSE ELSE paid.remove_own_piece[c]
           side == IF s.stalemate_removing THEN paid.side_to_move
                   ELSE Opp(paid.side_to_move)
           both == paid.both_stalemate_removing /\ s.pending_removals # Both(0)
           full == paid.board_full_removing /\ s.pending_removals # Both(0)
           t == [paid EXCEPT !.remove_own_piece[c] = own_left,
                   !.stalemate_removing = FALSE, !.side_to_move = side,
                   !.both_stalemate_removing = both, !.board_full_removing = full]
<1>1. c \in Sides /\ paid \in MillStates
  BY ClearSideTyped DEF Live
<1>2. paid.side_to_move = c
  BY DEF clear_capture_state_for_side, Live, MillStates
<1> HIDE DEF paid
<1>3. /\ own_left \in BOOLEAN /\ side \in Sides /\ both \in BOOLEAN /\ full \in BOOLEAN
  BY <1>1, <1>2, OppIsSide DEF MillStates
<1>4. finish_removal(s, o, own) = settle(t, o)
  BY DEF finish_removal, paid
<1> HIDE DEF own_left, side, both, full
<1> DEFINE kept == [paid EXCEPT !.remove_own_piece[c] = own_left]
<1>5. kept \in MillStates
  BY <1>1, <1>3 DEF MillStates
<1>6. t = [kept EXCEPT !.stalemate_removing = FALSE, !.side_to_move = side,
             !.both_stalemate_removing = both, !.board_full_removing = full]
  OBVIOUS
<1> HIDE DEF t, kept
<1>7. Live(t)
  BY ZenonT(60), <1>3, <1>5, <1>6 DEF Live, MillStates
<1> QED BY <1>4, <1>7, SettleCoherent

LEMMA RemoveCoherent ==
  ASSUME NEW s, Live(s), s.action = "Remove", s.phase # "GameOver",
         NEW o \in MillVariantOptions, NEW n \in Nodes
  PROVE  Coherent(apply_remove(s, o, n))
<1> DEFINE c == s.side_to_move
           own == s.remove_own_piece[c]
           target == IF own THEN c ELSE Opp(c)
           owing == choose_obligation(s, o, n)
           less == take_piece(owing, o, n, target)
           taken == consume_target(less, o, n)
<1>1. c \in Sides /\ target \in Sides /\ Opp(target) \in Sides
  BY OppIsSide DEF Live
<1> HIDE DEF target
<1>2. SameTurn(s, owing) /\ Live(owing)
  BY ObligationSameTurn DEF SameTurn, Live
<1> HIDE DEF owing
<1>3. SameTurn(s, less) /\ Live(less)
  BY <1>1, <1>2, TakeSameTurn DEF SameTurn, Live
<1> HIDE DEF less
<1>4. SameTurn(s, taken) /\ Live(taken)
  BY <1>3, ConsumeSameTurn DEF SameTurn, Live
<1> HIDE DEF taken
<1>5. Coherent(game_over(taken, Opp(target), "LoseFewerThanThree"))
  BY <1>1, <1>4, GameOverCoherent DEF Live, Outcomes
<1>6. Coherent(finish_removal(taken, o, own))
  BY <1>4, FinishCoherent
<1>7. taken.pending_removals[c] # 0 => Coherent(taken)
  <2>1. /\ taken \in MillStates /\ taken.side_to_move = c
        /\ taken.phase # "GameOver" /\ taken.action = "Remove"
    BY <1>4 DEF SameTurn
  <2>2. taken.pending_removals[c] \in Nat
    BY <1>1, <2>1 DEF MillStates
  <2>3. taken.pending_removals[c] # 0 => synced_action(taken) = "Remove"
    BY <1>1, <2>1, <2>2 DEF synced_action
  <2> QED BY <1>1, <2>1, <2>3 DEF Coherent, Synced
<1>8. \/ apply_remove(s, o, n) = game_over(taken, Opp(target), "LoseFewerThanThree")
      \/ apply_remove(s, o, n) = finish_removal(taken, o, own)
      \/ taken.pending_removals[c] # 0 /\ apply_remove(s, o, n) = taken
  BY DEF apply_remove, taken, less, owing, target
<1> QED BY <1>5, <1>6, <1>7, <1>8

-----------------------------------------------------------------------------
(* The fast paths *)

LEMMA FastPlaceCoherent ==
  ASSUME NEW s, Live(s), NEW o \in MillVariantOptions, NEW to \in Nodes
  PROVE  Coherent(fast_place(s, o, to))
<1> DEFINE c == s.side_to_move
           placed == place_live_piece(s, to)
           lines == IF s.pieces_on_board[c] >= 2
                      THEN formed_mills_at(placed, o, to, c) ELSE {}
           owing == [owe(placed, removal_count(lines, o))
                       EXCEPT !.mill_available_at_removal = TRUE]
           milled == note_mill_formation(sync_action_state(owing), o, c, NONE, to, lines)
           passed == [placed EXCEPT !.side_to_move = Opp(c)]
<1>1. Live(placed) /\ c \in Sides /\ Opp(c) \in Sides
  BY PlacedLive, OppIsSide DEF Live
<1>2. lines \in SUBSET mill_lines(o)
  <2> HIDE DEF placed
  <2> QED BY CountsAreNatural
<1>3. Coherent(milled)
  <2> HIDE DEF placed, lines
  <2>1. Live(owing)
    BY <1>1, <1>2, CountsAreNatural, OweLive, AvailableLive
  <2> HIDE DEF owing
  <2>2. Coherent(sync_action_state(owing))
    BY <2>1, LivePlayable
  <2> QED BY <1>1, <1>2, <2>2, LinesCounted, NoteCoherent
<1>4. Coherent(settle(passed, o))
  <2> HIDE DEF placed
  <2> QED BY <1>1, PassLive, SettleCoherent
<1>5. fast_placed(s, o, to) = milled \/ fast_placed(s, o, to) = settle(passed, o)
  BY DEF fast_placed
<1>6. Coherent(fast_placed(s, o, to))
  BY <1>3, <1>4, <1>5
<1> QED BY <1>6, StalemateCoherent DEF fast_place

LEMMA FastMoveCoherent ==
  ASSUME NEW s, Live(s), NEW o \in MillVariantOptions,
         NEW from \in Nodes, NEW to \in Nodes
  PROVE  Coherent(fast_move(s, o, from, to))
<1> DEFINE c == s.side_to_move
           moved == bump_ply_since_capture(move_live_piece(s, from, to), o)
           passed == [moved EXCEPT !.last_mill_from[c] = NONE,
                        !.last_mill_to[c] = NONE, !.side_to_move = Opp(c)]
           done == sync_action_state(sync_phase_with_active_hand(passed))
<1>1. Live(moved) /\ c \in Sides
  BY MovedLive, BumpLive DEF Live
<1>2. Playable(passed)
  <2> HIDE DEF moved
  <2> QED BY <1>1, ForgetMillLive DEF Live, Playable
<1>3. Coherent(done)
  <2> HIDE DEF passed
  <2> QED BY <1>2, PassedCoherent
<1>4. fast_move(s, o, from, to) = maybe_handle_stalemate(done, o)
  BY DEF fast_move
<1> HIDE DEF done
<1> QED BY <1>3, <1>4, StalemateCoherent

LEMMA FastRemoveCoherent ==
  ASSUME NEW s, Live(s), NEW o \in MillVariantOptions, NEW n \in Nodes
  PROVE  Coherent(fast_remove(s, o, n))
<1> DEFINE c == s.side_to_move
           them == Opp(c)
           count == s.pieces_on_board[them] - 1
           bare == [s EXCEPT !.board[n] = NONE, !.pieces_on_board[them] = count,
                      !.pending_removals[c] = 0, !.ply_since_capture = 0,
                      !.mill_available_at_removal = FALSE]
           taken == clear_key_history(bare)
           over == game_over(taken, c, "LoseFewerThanThree")
           on == settle([taken EXCEPT !.side_to_move = them], o)
<1>1. c \in Sides /\ them \in Sides
  BY OppIsSide DEF Live
<1>2. count \in Int
  BY <1>1 DEF Live, MillStates
<1>3. Live(taken)
  <2>1. Live(bare)
    <3> HIDE DEF count, them
    <3> QED BY <1>1, <1>2 DEF Live, MillStates
  <2> HIDE DEF bare
  <2> QED BY <2>1, ClearKeysLive
<1>4. Coherent(over) /\ Coherent(on)
  <2> HIDE DEF taken, them
  <2> QED BY <1>1, <1>3, PassLive, SettleCoherent, GameOverCoherent DEF Live, Outcomes
<1>5. \/ fast_remove(s, o, n) = maybe_handle_stalemate(over, o)
      \/ fast_remove(s, o, n) = maybe_handle_stalemate(on, o)
  BY DEF fast_remove
<1> HIDE DEF over, on
<1> QED BY <1>4, <1>5, StalemateCoherent

-----------------------------------------------------------------------------
(* Legal actions and the game *)

LEMMA OccupancyOnBoard ==
  \A s, c : piece_bitboard(s, c) \in SUBSET Nodes /\ empty_squares(s) \in SUBSET Nodes
BY DEF piece_bitboard, empty_squares

LEMMA MoveActionsTyped ==
  ASSUME NEW s, NEW o, NEW allow_fly, NEW a \in generate_move_actions(s, o, allow_fly)
  PROVE  a.kind = "Move" /\ a.from \in Nodes /\ a.to \in Nodes
<1> DEFINE us == piece_bitboard(s, s.side_to_move)
           on == us \X empty_squares(s)
<1>1. leap_moves(s, o) \in SUBSET on
  BY DEF leap_moves
<1>2. \E m \in on : a = MoveAction(m[1], m[2])
  BY <1>1 DEF generate_move_actions
<1> HIDE DEF us
<1>3. us \in SUBSET Nodes /\ empty_squares(s) \in SUBSET Nodes
  BY OccupancyOnBoard DEF us
<1> QED BY <1>2, <1>3 DEF MoveAction

LEMMA RemoveActionsTyped ==
  ASSUME NEW s, NEW o, NEW a \in generate_remove_actions(s, o)
  PROVE  a.kind = "Remove" /\ a.to \in Nodes
<1>1. \A c : regular_remove_targets(s, o, c) \in SUBSET Nodes
  BY OccupancyOnBoard DEF regular_remove_targets, Unprotected
<1>2. \E n \in Nodes : a = RemoveAction(n)
  BY <1>1, OccupancyOnBoard DEF generate_remove_actions
<1> QED BY <1>2 DEF RemoveAction

(* A legal action names points of the board, there is a side to move, and  *)
(* a removal is only offered while the action byte says so.                *)
LEMMA LegalActionTyped ==
  ASSUME NEW s, Coherent(s), NEW o, NEW a \in legal_actions(s, o)
  PROVE  /\ Live(s) /\ s.phase # "GameOver"
         /\ a.to \in Nodes
         /\ a.kind \in {"Place", "Move", "Remove"}
         /\ a.kind = "Move" => a.from \in Nodes
         /\ a.kind = "Remove" => s.action = "Remove"
<1> DEFINE turn == action_for_legal_generation(s)
<1>1. s.phase # "GameOver" /\ s.side_to_move # NONE
  BY DEF legal_actions, action_for_legal_generation
<1>2. Live(s) /\ s.action = synced_action(s)
  BY <1>1 DEF Live, Coherent, Synced, MillStates
<1>3. turn = "Remove" => s.action = "Remove"
  BY <1>1, <1>2 DEF action_for_legal_generation
<1>4. CASE turn = "Remove" /\ a \in generate_remove_actions(s, o)
  BY <1>1, <1>2, <1>3, <1>4, RemoveActionsTyped
<1>5. CASE \E n \in empty_squares(s) : a = PlaceAction(n)
  BY <1>1, <1>2, <1>5, OccupancyOnBoard DEF PlaceAction
<1>6. CASE \E fly : a \in generate_move_actions(s, o, fly)
  BY <1>1, <1>2, <1>6, MoveActionsTyped
<1> HIDE DEF turn
<1>7. \/ turn = "Remove" /\ a \in generate_remove_actions(s, o)
      \/ \E n \in empty_squares(s) : a = PlaceAction(n)
      \/ \E fly : a \in generate_move_actions(s, o, fly)
  BY DEF legal_actions, turn
<1> QED BY <1>4, <1>5, <1>6, <1>7

(* apply_to_state takes a coherent position and a legal action to a        *)
(* coherent position, on every path and in every variant.                  *)
LEMMA ApplyCoherent ==
  ASSUME NEW s, Coherent(s), NEW o \in MillVariantOptions,
         NEW a \in legal_actions(s, o), NEW adjudicate
  PROVE  Coherent(apply_to_state(s, o, a, adjudicate))
<1>1. /\ Live(s) /\ s.phase # "GameOver" /\ a.to \in Nodes
      /\ a.kind \in {"Place", "Move", "Remove"}
      /\ a.kind = "Move" => a.from \in Nodes
      /\ a.kind = "Remove" => s.action = "Remove"
  BY LegalActionTyped
<1>2. Coherent(apply_generally(s, o, a, adjudicate))
  <2>1. a.kind = "Place" => Coherent(apply_place(s, o, a.to))
    BY <1>1, PlaceCoherent
  <2>2. a.kind = "Move" => Coherent(apply_move(s, o, a.from, a.to, adjudicate))
    BY <1>1, MoveCoherent
  <2>3. a.kind = "Remove" => Coherent(apply_remove(s, o, a.to))
    BY <1>1, RemoveCoherent
  <2> QED BY <1>1, <2>1, <2>2, <2>3, StalemateCoherent DEF apply_generally
<1>3. Coherent(fast_place(s, o, a.to)) /\ Coherent(fast_remove(s, o, a.to))
  BY <1>1, FastPlaceCoherent, FastRemoveCoherent
<1>4. a.kind = "Move" => Coherent(fast_move(s, o, a.from, a.to))
  BY <1>1, FastMoveCoherent
<1> QED BY <1>2, <1>3, <1>4 DEF apply_to_state

LEMMA InitialCoherent ==
  ASSUME NEW o \in MillVariantOptions
  PROVE  Coherent(initial_state(o))
<1>1. << >> \in Seq(Signatures) /\ o.piece_count \in Nat
  BY DEF MillVariantOptions
<1> QED BY <1>1 DEF Coherent, Synced, synced_action, initial_state, MillStates,
           Both, Sides, Phases, ActionStates, Outcomes, NONE

(* The inductive invariant: every position is well-formed and its action   *)
(* byte is in step with it.  Neither half is inductive alone: a removal    *)
(* applied with a stale action byte would leave the position incoherent,   *)
(* and the byte is computed from a well-formed position.                   *)
Inv == options \in MillVariantOptions /\ Coherent(state)

THEOREM Invariant == Spec => []Inv
<1>1. Init => Inv
  BY InitialCoherent, VariantsAssumption DEF Init, Inv
<1>2. Inv /\ [Next]_vars => Inv'
  <2> SUFFICES ASSUME Inv, [Next]_vars PROVE Inv'
    OBVIOUS
  <2>1. CASE UNCHANGED vars
    BY <2>1 DEF Inv, vars
  <2>2. ASSUME NEW kind, Apply(kind) PROVE Inv'
    <3>1. PICK a \in legal_actions(state, options) :
             state' = apply_to_state(state, options, a, TRUE)
      BY <2>2 DEF Apply
    <3>2. Coherent(state')
      BY <3>1, ApplyCoherent DEF Inv
    <3> QED BY <2>2, <3>2 DEF Apply, Inv
  <2> QED BY <2>1, <2>2 DEF Next, Place, Move, Remove
<1> QED BY <1>1, <1>2, PTL DEF Spec

(* Every position a game of any variant on any board reaches is a          *)
(* well-formed MillState: no counter underflows, no field leaves its type. *)
THEOREM TypeCorrect == Spec => []TypeOK
<1>1. Inv => TypeOK
  BY DEF Inv, Coherent, TypeOK
<1> QED BY <1>1, Invariant, PTL

(* The action byte that move generation dispatches on is always the one    *)
(* sync_action_state would compute.                                        *)
THEOREM ActionAlwaysCoherent == Spec => []ActionCoherent
<1>1. Inv => ActionCoherent
  BY DEF Inv, Coherent, ActionCoherent
<1> QED BY <1>1, Invariant, PTL

-----------------------------------------------------------------------------
(* What a helper leaves alone *)

Fields == {"board", "marked", "side_to_move", "phase", "action", "pieces_in_hand",
  "pieces_on_board", "pending_removals", "mill_available_at_removal",
  "stalemate_removing", "both_stalemate_removing", "board_full_removing",
  "remove_own_piece", "winner", "outcome_reason", "ply_since_capture",
  "last_mill_from", "last_mill_to", "formed_mills", "custodian_targets",
  "intervention_targets", "leap_targets", "key_history"}

(* t differs from s in fields of F at most.                                *)
Alters(s, t, F) == DOMAIN t = Fields /\ \A f \in Fields \ F : t[f] = s[f]

LEMMA FieldsOfState ==
  ASSUME NEW s \in MillStates
  PROVE  DOMAIN s = Fields /\ Alters(s, s, {})
BY DEF MillStates, Fields, Alters

LEMMA AltersTwice ==
  ASSUME NEW s, NEW t, NEW u, NEW F, NEW G, Alters(s, t, F), Alters(t, u, G)
  PROVE  Alters(s, u, F \union G)
BY DEF Alters

LEMMA AltersMore ==
  ASSUME NEW s, NEW t, NEW F, NEW G, Alters(s, t, F), F \subseteq G
  PROVE  Alters(s, t, G)
BY DEF Alters

CaptureState == {"custodian_targets", "intervention_targets", "leap_targets",
                 "mill_available_at_removal"}

LEMMA ClearEffect ==
  ASSUME NEW s \in MillStates
  PROVE  LET t == clear_capture_state(s)
         IN /\ Alters(s, t, CaptureState)
            /\ \A k \in Sides : /\ t.custodian_targets[k] = {}
                                /\ t.intervention_targets[k] = {}
                                /\ t.leap_targets[k] = {}
            /\ ~t.mill_available_at_removal
BY FieldsOfState DEF Alters, Fields, CaptureState, clear_capture_state, Both

LEMMA ActivateEffect ==
  ASSUME NEW s \in MillStates, s.side_to_move \in Sides,
         NEW custodian, NEW intervention, NEW leap
  PROVE  LET t == activate_capture_state(s, custodian, intervention, leap)
             c == s.side_to_move
         IN /\ Alters(s, t, CaptureState \ {"mill_available_at_removal"})
            /\ t.custodian_targets[c] = custodian
            /\ t.intervention_targets[c] = intervention
            /\ t.leap_targets[c] = leap
            /\ \A k \in Sides \ {c} :
                 /\ t.custodian_targets[k] = s.custodian_targets[k]
                 /\ t.intervention_targets[k] = s.intervention_targets[k]
                 /\ t.leap_targets[k] = s.leap_targets[k]
<1>1. /\ s.custodian_targets \in [Sides -> SUBSET Nodes]
      /\ s.intervention_targets \in [Sides -> SUBSET Nodes]
      /\ s.leap_targets \in [Sides -> SUBSET Nodes]
  BY DEF MillStates
<1> QED
  BY <1>1, FieldsOfState DEF Alters, Fields, CaptureState, activate_capture_state

LEMMA OweEffect ==
  ASSUME NEW s \in MillStates, s.side_to_move \in Sides, NEW n
  PROVE  LET t == owe(s, n)
         IN /\ Alters(s, t, {"pending_removals"})
            /\ t.pending_removals[s.side_to_move] = n
            /\ \A k \in Sides \ {s.side_to_move} :
                 t.pending_removals[k] = s.pending_removals[k]
<1>1. s.pending_removals \in [Sides -> Nat]
  BY DEF MillStates
<1> QED BY <1>1, FieldsOfState DEF Alters, Fields, owe

LEMMA AvailableEffect ==
  ASSUME NEW s \in MillStates, NEW b
  PROVE  /\ Alters(s, [s EXCEPT !.mill_available_at_removal = b],
                   {"mill_available_at_removal"})
         /\ [s EXCEPT !.mill_available_at_removal = b].mill_available_at_removal = b
BY FieldsOfState DEF Alters, Fields

LEMMA SyncActionEffect ==
  ASSUME NEW s \in MillStates
  PROVE  Alters(s, sync_action_state(s), {"action"})
BY FieldsOfState DEF Alters, Fields, sync_action_state

LEMMA NoteEffect ==
  ASSUME NEW s \in MillStates, NEW o, NEW c, NEW from, NEW to, NEW lines
  PROVE  Alters(s, note_mill_formation(s, o, c, from, to, lines),
                {"last_mill_from", "last_mill_to", "formed_mills"})
BY FieldsOfState DEF Alters, Fields, note_mill_formation

LEMMA PassEffect ==
  ASSUME NEW s \in MillStates, NEW c
  PROVE  /\ Alters(s, [s EXCEPT !.side_to_move = c], {"side_to_move"})
         /\ [s EXCEPT !.side_to_move = c].side_to_move = c
BY FieldsOfState DEF Alters, Fields

LEMMA SyncPhaseEffect ==
  ASSUME NEW s \in MillStates, s.side_to_move \in Sides
  PROVE  LET t == sync_phase_with_active_hand(s)
         IN /\ Alters(s, t, {"phase"})
            /\ s.phase = "GameOver" => t.phase = "GameOver"
            /\ s.phase # "GameOver" =>
                 t.phase = IF s.pieces_in_hand[s.side_to_move] = 0
                             THEN "Moving" ELSE "Placing"
<1>1. s.side_to_move # NONE
  BY DEF Sides, NONE
<1> QED
  BY <1>1, FieldsOfState DEF Alters, Fields, sync_phase_with_active_hand

LEMMA GameOverEffect ==
  ASSUME NEW s \in MillStates, NEW winner, NEW reason
  PROVE  LET t == game_over(s, winner, reason)
         IN /\ Alters(s, t, {"phase", "winner", "outcome_reason", "side_to_move"})
            /\ t.phase = "GameOver" /\ t.winner = winner
            /\ t.outcome_reason = reason
BY FieldsOfState DEF Alters, Fields, game_over

-----------------------------------------------------------------------------
(* Sides and points *)

LEMMA TwoSides ==
  ASSUME NEW c \in Sides
  PROVE  Sides = {c, Opp(c)} /\ Opp(c) \in Sides /\ Opp(c) # c /\ Opp(Opp(c)) = c
BY DEF Sides, Opp

LEMMA BothAt ==
  \A x : \A k \in Sides : Both(x)[k] = x
BY DEF Both

(* A pair of values is Both of one of them when they agree.                *)
LEMMA BothIs ==
  ASSUME NEW f, NEW S, f \in [Sides -> S], NEW x, \A k \in Sides : f[k] = x
  PROVE  f = Both(x)
BY DEF Both

(* What the material of a position is read from is kept: every live piece, *)
(* every count and the plies since the last capture; hands may shrink.     *)
Keeps(s, t) ==
  /\ t.pieces_on_board = s.pieces_on_board
  /\ t.ply_since_capture = s.ply_since_capture
  /\ \A k \in Sides : piece_bitboard(t, k) = piece_bitboard(s, k)
  /\ \A k \in Sides : t.pieces_in_hand[k] <= s.pieces_in_hand[k]
  /\ (\A n \in s.marked : s.board[n] # NONE) => (\A n \in t.marked : t.board[n] # NONE)

MaterialFields == {"board", "marked", "pieces_in_hand", "pieces_on_board",
                   "ply_since_capture"}

LEMMA SameBitboards ==
  ASSUME NEW s, NEW t, t.board = s.board, t.marked = s.marked
  PROVE  \A k : piece_bitboard(t, k) = piece_bitboard(s, k)
BY DEF piece_bitboard, live_piece

LEMMA HandsAreNatural ==
  ASSUME NEW s \in MillStates
  PROVE  \A k \in Sides : /\ s.pieces_in_hand[k] \in Nat
                          /\ s.pending_removals[k] \in Nat
                          /\ s.pieces_on_board[k] \in Int
                          /\ s.remove_own_piece[k] \in BOOLEAN
BY DEF MillStates

LEMMA AltersKeeps ==
  ASSUME NEW s \in MillStates, NEW t, NEW F, Alters(s, t, F),
         F \intersect MaterialFields = {}
  PROVE  Keeps(s, t)
<1>1. /\ t.board = s.board /\ t.marked = s.marked
      /\ t.pieces_in_hand = s.pieces_in_hand
      /\ t.pieces_on_board = s.pieces_on_board
      /\ t.ply_since_capture = s.ply_since_capture
  BY DEF Alters, MaterialFields, Fields
<1> QED BY <1>1, SameBitboards, HandsAreNatural DEF Keeps

LEMMA KeepsTwice ==
  ASSUME NEW s \in MillStates, NEW t \in MillStates, NEW u \in MillStates,
         Keeps(s, t), Keeps(t, u)
  PROVE  Keeps(s, u)
<1>1. \A k \in Sides : /\ s.pieces_in_hand[k] \in Nat /\ t.pieces_in_hand[k] \in Nat
                       /\ u.pieces_in_hand[k] \in Nat
  BY HandsAreNatural
<1> QED BY <1>1 DEF Keeps

LEMMA KeepsItself ==
  ASSUME NEW s \in MillStates
  PROVE  Keeps(s, s)
BY HandsAreNatural DEF Keeps

-----------------------------------------------------------------------------
(* Settling a turn *)

LEMMA SweepEffect ==
  ASSUME NEW s \in MillStates
  PROVE  LET t == sweep_marked([s EXCEPT !.phase = "Moving"])
         IN /\ Alters(s, t, {"phase", "marked", "board"})
            /\ t.phase = "Moving" /\ t.marked = {}
            /\ \A k \in Sides : piece_bitboard(t, k) = piece_bitboard(s, k)
<1> DEFINE t == sweep_marked([s EXCEPT !.phase = "Moving"])
<1>1. /\ Alters(s, t, {"phase", "marked", "board"})
      /\ t.phase = "Moving" /\ t.marked = {}
      /\ t.board = [n \in Nodes |-> IF n \in s.marked THEN NONE ELSE s.board[n]]
  BY FieldsOfState DEF Alters, Fields, sweep_marked
<1> HIDE DEF t
<1>2. \A k \in Sides : piece_bitboard(t, k) = piece_bitboard(s, k)
  BY <1>1 DEF piece_bitboard, live_piece
<1> QED BY <1>1, <1>2 DEF t

(* apply_removal_based_on_mill_counts: both sides owe something, their own *)
(* pieces or the opponent's.                                               *)
LEMMA CountsEffect ==
  ASSUME NEW s \in MillStates, NEW o \in MillVariantOptions
  PROVE  LET t == apply_removal_based_on_mill_counts(s, o)
         IN /\ Alters(s, t, {"remove_own_piece", "pending_removals",
                             "mill_available_at_removal"})
            /\ \A k \in Sides : t.pending_removals[k] \in Nat \ {0}
<1> DEFINE m == [c \in Sides |-> total_mills_count(s, o, c)]
           Owed(c) ==
             IF m[0] = 0 /\ m[1] = 0 THEN 1
             ELSE IF m[Opp(c)] = 0 THEN 2
             ELSE IF m[c] = 0 THEN 1
             ELSE IF m[c] > m[Opp(c)] THEN m[Opp(c)] + 1 ELSE m[c]
           owed == [c \in Sides |-> Owed(c)]
<1>1. m \in [Sides -> Nat]
  BY CountsAreNatural
<1>2. \A c \in Sides : Owed(c) \in Nat \ {0}
  <2> HIDE DEF m
  <2> QED BY <1>1 DEF Sides, Opp
<1>3. apply_removal_based_on_mill_counts(s, o) =
        [s EXCEPT !.remove_own_piece = Both(m[0] = 0 /\ m[1] = 0),
                  !.pending_removals = owed,
                  !.mill_available_at_removal = TRUE]
  BY DEF apply_removal_based_on_mill_counts
<1>4. \A c \in Sides : owed[c] \in Nat \ {0}
  BY <1>2
<1> HIDE DEF m, owed
<1> QED BY <1>3, <1>4, FieldsOfState DEF Alters, Fields

CountedAction(o) ==
  o.mill_formation_action_in_placing_phase = "RemovalBasedOnMillCounts"

Counting == {"remove_own_piece", "pending_removals", "mill_available_at_removal"}

LEMMA EnterMovingEffect ==
  ASSUME NEW s, Live(s), NEW o \in MillVariantOptions
  PROVE  LET t == enter_moving_phase(s, o)
         IN /\ Live(t)
            /\ Alters(s, t, {"phase", "marked", "board", "side_to_move"}
                              \union (IF CountedAction(o) THEN Counting ELSE {}))
            /\ t.phase = "Moving" /\ t.marked = {}
            /\ \A k \in Sides : piece_bitboard(t, k) = piece_bitboard(s, k)
            /\ CountedAction(o) =>
                 \A k \in Sides : t.pending_removals[k] \in Nat \ {0}
<1> DEFINE swept == sweep_marked([s EXCEPT !.phase = "Moving"])
           counted == IF CountedAction(o)
                        THEN apply_removal_based_on_mill_counts(swept, o)
                        ELSE swept
           side == IF o.is_defender_move_first THEN 1
                   ELSE IF KeepsSideAtPlacingEnd(o) THEN counted.side_to_move ELSE 0
           t == [counted EXCEPT !.side_to_move = side]
<1>1. s \in MillStates
  BY DEF Live
<1>2. /\ Alters(s, swept, {"phase", "marked", "board"})
      /\ swept.phase = "Moving" /\ swept.marked = {}
      /\ \A k \in Sides : piece_bitboard(swept, k) = piece_bitboard(s, k)
  BY <1>1, SweepEffect
<1>3. swept \in MillStates
  BY <1>1 DEF sweep_marked, MillStates, Phases
<1> HIDE DEF swept
<1>4. /\ Alters(swept, counted, IF CountedAction(o) THEN Counting ELSE {})
      /\ CountedAction(o) => \A k \in Sides : counted.pending_removals[k] \in Nat \ {0}
      /\ counted \in MillStates
  BY <1>3, CountsEffect, FieldsOfState, MillCountRemovalsTyped DEF Counting
<1> HIDE DEF counted
<1>5. Alters(counted, t, {"side_to_move"})
  BY <1>4, PassEffect
<1>6. enter_moving_phase(s, o) = t
  BY DEF enter_moving_phase, counted, swept, CountedAction
<1>7. Live(t)
  BY <1>1, <1>6, EnterMovingTyped DEF Live
<1> HIDE DEF t
<1>8. Alters(s, t, {"phase", "marked", "board", "side_to_move"}
                     \union (IF CountedAction(o) THEN Counting ELSE {}))
  BY <1>2, <1>4, <1>5 DEF Alters
<1>9. /\ t.phase = "Moving" /\ t.marked = {} /\ t.board = swept.board
      /\ t.pending_removals = counted.pending_removals
  BY <1>2, <1>4, <1>5 DEF Alters, Fields, Counting
<1>10. \A k \in Sides : piece_bitboard(t, k) = piece_bitboard(s, k)
  BY <1>2, <1>9, SameBitboards
<1> QED BY <1>4, <1>6, <1>7, <1>8, <1>9, <1>10

-----------------------------------------------------------------------------
(* What holds of every position between two actions *)

Targets(s, c) ==
  s.custodian_targets[c] \union s.intervention_targets[c] \union s.leap_targets[c]

(* Obligations.  Only the side to move has capture targets, all of them    *)
(* live pieces of the opponent; when it owes nothing, nobody does and no   *)
(* flag of a removal is left.  While it owes something the opponent may    *)
(* owe something too, but only once the game is in the moving phase, and   *)
(* never while a stalemate removal gives the same side another move; a     *)
(* side that is to remove its own pieces owes something and has no target. *)
Due(s) ==
  LET c == s.side_to_move
      d == Opp(c)
  IN s.phase # "GameOver" =>
       /\ s.pending_removals[c] = 0 =>
            /\ s.pending_removals[d] = 0 /\ ~s.mill_available_at_removal
            /\ ~s.stalemate_removing /\ ~s.both_stalemate_removing
            /\ ~s.board_full_removing
            /\ Targets(s, c) = {}
       /\ Targets(s, d) = {} /\ Targets(s, c) \subseteq piece_bitboard(s, d)
       /\ s.pending_removals[d] > 0 => s.phase = "Moving"
       /\ s.stalemate_removing => s.pending_removals[d] = 0
       /\ \A k \in Sides : s.remove_own_piece[k] => s.pending_removals[k] > 0
       /\ s.remove_own_piece[c] => Targets(s, c) = {}

(* A side that owes nothing is placing exactly while it has a piece in     *)
(* hand.                                                                   *)
Phased(s) ==
  (s.phase # "GameOver" /\ s.pending_removals[s.side_to_move] = 0) =>
    (s.phase = "Moving" <=> s.pieces_in_hand[s.side_to_move] = 0)

(* Once both hands are empty the moving phase has swept the marked pieces. *)
Swept(s) == (s.phase = "Moving" /\ s.pieces_in_hand = Both(0)) => s.marked = {}

Sound(s) == Due(s) /\ Phased(s) /\ Swept(s)

(* Nothing is owed and nothing is left of a removal.                       *)
Clean(s) ==
  /\ \A k \in Sides : /\ s.pending_removals[k] = 0 /\ ~s.remove_own_piece[k]
                      /\ Targets(s, k) = {}
  /\ ~s.mill_available_at_removal /\ ~s.stalemate_removing
  /\ ~s.both_stalemate_removing /\ ~s.board_full_removing

LEMMA DueIsClean ==
  ASSUME NEW s, Live(s), Due(s), s.phase # "GameOver",
         s.pending_removals[s.side_to_move] = 0
  PROVE  Clean(s)
<1>1. Sides = {s.side_to_move, Opp(s.side_to_move)}
  BY TwoSides DEF Live
<1> QED BY <1>1 DEF Due, Clean

(* How a turn may be handed to settle: with nothing owed; with a removal   *)
(* that the next side owes alone, in the moving phase; or with counts that *)
(* entering the moving phase is going to make afresh.                      *)
Settling(s, o) ==
  LET c == s.side_to_move
      d == Opp(c)
  IN /\ \A k \in Sides : Targets(s, k) = {}
     /\ ~s.stalemate_removing
     /\ \/ Clean(s)
        \/ /\ s.phase = "Moving" /\ s.pending_removals[c] > 0
           /\ s.pending_removals[d] = 0 /\ ~s.remove_own_piece[d]
        \/ /\ s.phase = "Placing" /\ s.pieces_in_hand = Both(0)
           /\ CountedAction(o)

(* The same, after the moving phase has been entered if it was due.        *)
Entered(s) ==
  LET c == s.side_to_move
      d == Opp(c)
  IN /\ \A k \in Sides : Targets(s, k) = {}
     /\ ~s.stalemate_removing
     /\ \/ Clean(s)
        \/ /\ s.pending_removals[c] > 0
           /\ s.pending_removals[d] = 0 /\ ~s.remove_own_piece[d]
        \/ /\ \A k \in Sides : s.pending_removals[k] > 0
           /\ s.pieces_in_hand = Both(0)
     /\ s.phase # "GameOver"
     /\ s.pieces_in_hand = Both(0) => s.phase = "Moving" /\ s.marked = {}

LEMMA EnterMovingEntered ==
  ASSUME NEW s, Live(s), NEW o \in MillVariantOptions, Settling(s, o),
         s.phase = "Placing", s.pieces_in_hand = Both(0)
  PROVE  Entered(enter_moving_phase(s, o)) /\ Keeps(s, enter_moving_phase(s, o))
<1> DEFINE t == enter_moving_phase(s, o)
           F == {"phase", "marked", "board", "side_to_move"}
                  \union (IF CountedAction(o) THEN Counting ELSE {})
<1>1. /\ Live(t) /\ Alters(s, t, F)
      /\ t.phase = "Moving" /\ t.marked = {}
      /\ \A k \in Sides : piece_bitboard(t, k) = piece_bitboard(s, k)
      /\ CountedAction(o) => \A k \in Sides : t.pending_removals[k] \in Nat \ {0}
  BY EnterMovingEffect
<1> HIDE DEF t
<1>2. /\ t.pieces_in_hand = s.pieces_in_hand
      /\ t.pieces_on_board = s.pieces_on_board
      /\ t.ply_since_capture = s.ply_since_capture
      /\ t.custodian_targets = s.custodian_targets
      /\ t.intervention_targets = s.intervention_targets
      /\ t.leap_targets = s.leap_targets
      /\ t.stalemate_removing = s.stalemate_removing
      /\ t.both_stalemate_removing = s.both_stalemate_removing
      /\ t.board_full_removing = s.board_full_removing
      /\ ~CountedAction(o) =>
           /\ t.pending_removals = s.pending_removals
           /\ t.remove_own_piece = s.remove_own_piece
           /\ t.mill_available_at_removal = s.mill_available_at_removal
  BY <1>1 DEF Alters, Fields, Counting
<1>3. Keeps(s, t)
  BY <1>1, <1>2, HandsAreNatural DEF Keeps, Live
<1>4. \A k \in Sides : Targets(t, k) = Targets(s, k)
  BY <1>2 DEF Targets
<1>5. CASE CountedAction(o)
  BY <1>1, <1>2, <1>3, <1>4, <1>5 DEF Entered, Settling, t
<1>6. CASE ~CountedAction(o)
  <2>1. Clean(s)
    BY <1>6 DEF Settling
  <2>2. Clean(t)
    BY <2>1, <1>2, <1>4, <1>6 DEF Clean
  <2> QED BY <1>1, <1>2, <1>3, <1>4, <2>2 DEF Entered, Settling, t
<1> QED BY <1>5, <1>6

(* maybe_transition_to_moving *)
LEMMA TransitionEntered ==
  ASSUME NEW s, Live(s), NEW o \in MillVariantOptions, Settling(s, o),
         s.phase # "GameOver", Swept(s)
  PROVE  LET t == maybe_transition_to_moving(s, o)
         IN Entered(t) /\ Keeps(s, t) /\ Live(t)
<1> DEFINE t == maybe_transition_to_moving(s, o)
           emptied == [s EXCEPT !.pieces_in_hand = Both(0)]
<1>1. Live(t) /\ s \in MillStates
  BY TransitionTyped DEF Live
<1>2. CASE s.phase = "Placing" /\ s.pieces_in_hand = Both(0)
  <2>1. /\ Entered(enter_moving_phase(s, o)) /\ Keeps(s, enter_moving_phase(s, o))
        /\ enter_moving_phase(s, o).phase = "Moving"
    BY <1>2, EnterMovingEntered, EnterMovingEffect
  <2>2. t = enter_moving_phase(s, o)
    BY <2>1, <1>2 DEF maybe_transition_to_moving
  <2> QED BY <1>1, <2>1, <2>2
<1>3. CASE ~(s.phase = "Placing" /\ s.pieces_in_hand = Both(0)) /\ t = s
  <2>1. s.phase = "Moving" \/ s.phase = "Placing"
    BY <1>1 DEF MillStates, Phases
  <2>2. Entered(s)
    BY <1>3, <2>1 DEF Settling, Entered, Swept
  <2> QED BY <1>1, <1>3, <2>2, KeepsItself
<1>4. CASE /\ ~(s.phase = "Placing" /\ s.pieces_in_hand = Both(0)) /\ t # s
  <2>1. s.phase = "Placing" /\ t = enter_moving_phase(emptied, o)
    BY <1>4 DEF maybe_transition_to_moving
  <2>2. Clean(s)
    BY <1>4, <2>1 DEF Settling
  <2>3. /\ Alters(s, emptied, {"pieces_in_hand"})
        /\ emptied.pieces_in_hand = Both(0)
    BY <1>1, FieldsOfState DEF Alters, Fields
  <2>4. Live(emptied)
    BY <1>1 DEF Live, MillStates, Both
  <2> HIDE DEF emptied
  <2>5. emptied.phase = "Placing" /\ Settling(emptied, o)
    BY <2>1, <2>2, <2>3 DEF Alters, Fields, Settling, Clean, Targets
  <2>6. Keeps(s, emptied)
    <3>1. \A k \in Sides : emptied.pieces_in_hand[k] <= s.pieces_in_hand[k]
      BY <1>1, <2>3, BothAt, HandsAreNatural
    <3>2. /\ emptied.board = s.board /\ emptied.marked = s.marked
          /\ emptied.pieces_on_board = s.pieces_on_board
          /\ emptied.ply_since_capture = s.ply_since_capture
      BY <2>3 DEF Alters, Fields
    <3> QED BY <3>1, <3>2, SameBitboards DEF Keeps
  <2>7. Entered(t) /\ Keeps(emptied, t)
    BY <2>1, <2>3, <2>4, <2>5, EnterMovingEntered
  <2> QED BY <1>1, <2>4, <2>6, <2>7, KeepsTwice DEF Live
<1> QED BY <1>2, <1>3, <1>4

(* sync_phase_with_active_hand *)
LEMMA PhaseEntered ==
  ASSUME NEW s, Live(s), Entered(s)
  PROVE  LET t == sync_phase_with_active_hand(s)
         IN /\ Entered(t) /\ Keeps(s, t) /\ Live(t)
            /\ t.phase = IF t.pieces_in_hand[t.side_to_move] = 0
                           THEN "Moving" ELSE "Placing"
<1> DEFINE t == sync_phase_with_active_hand(s)
<1>1. s \in MillStates /\ s.side_to_move \in Sides /\ s.phase # "GameOver"
  BY DEF Live, Entered
<1>2. /\ Alters(s, t, {"phase"})
      /\ t.phase = IF s.pieces_in_hand[s.side_to_move] = 0
                     THEN "Moving" ELSE "Placing"
  BY <1>1, SyncPhaseEffect
<1>3. t \in MillStates
  BY <1>1, SyncPhaseTyped
<1> HIDE DEF t
<1>4. Keeps(s, t)
  BY <1>1, <1>2, AltersKeeps DEF MaterialFields
<1>5. /\ t.side_to_move = s.side_to_move /\ t.pieces_in_hand = s.pieces_in_hand
      /\ t.marked = s.marked /\ t.pending_removals = s.pending_removals
      /\ t.remove_own_piece = s.remove_own_piece
      /\ t.mill_available_at_removal = s.mill_available_at_removal
      /\ t.stalemate_removing = s.stalemate_removing
      /\ t.both_stalemate_removing = s.both_stalemate_removing
      /\ t.board_full_removing = s.board_full_removing
      /\ \A k \in Sides : Targets(t, k) = Targets(s, k)
  BY <1>2 DEF Alters, Fields, Targets
<1>6. Clean(s) => Clean(t)
  BY <1>5 DEF Clean
<1>7. s.pieces_in_hand = Both(0) => t.phase = "Moving"
  BY <1>1, <1>2, BothAt
<1>8. Entered(t)
  BY <1>1, <1>2, <1>5, <1>6, <1>7 DEF Entered
<1> QED BY <1>1, <1>2, <1>3, <1>4, <1>5, <1>8 DEF Live, t

(* A position whose obligations are in order and whose phase has been      *)
(* brought up to date is a sound one.                                      *)
LEMMA EnteredIsSound ==
  ASSUME NEW s, Live(s), Entered(s),
         s.phase = IF s.pieces_in_hand[s.side_to_move] = 0
                     THEN "Moving" ELSE "Placing"
  PROVE  Sound(s)
<1> DEFINE c == s.side_to_move
<1>1. /\ c \in Sides /\ Opp(c) \in Sides /\ Opp(c) # c /\ Sides = {c, Opp(c)}
      /\ \A k \in Sides : s.pending_removals[k] \in Nat
  BY TwoSides, HandsAreNatural DEF Live
<1>2. Due(s)
  BY <1>1 DEF Due, Entered, Clean
<1>3. Phased(s)
  BY DEF Phased
<1>4. Swept(s)
  BY DEF Swept, Entered
<1> QED BY <1>2, <1>3, <1>4 DEF Sound

LEMMA OverIsSound ==
  ASSUME NEW s, s.phase = "GameOver"
  PROVE  Sound(s)
BY DEF Sound, Due, Phased, Swept

(* The action byte and the notes for the repeated-mill rules are nobody's  *)
(* obligation.                                                             *)
Notes == {"action", "last_mill_from", "last_mill_to", "formed_mills", "key_history"}

LEMMA NotesAreSound ==
  ASSUME NEW s, Sound(s), NEW t, Alters(s, t, Notes)
  PROVE  Sound(t)
<1>1. /\ t.side_to_move = s.side_to_move /\ t.pieces_in_hand = s.pieces_in_hand
      /\ t.board = s.board /\ t.phase = s.phase
      /\ t.marked = s.marked /\ t.pending_removals = s.pending_removals
      /\ t.remove_own_piece = s.remove_own_piece
      /\ t.mill_available_at_removal = s.mill_available_at_removal
      /\ t.stalemate_removing = s.stalemate_removing
      /\ t.both_stalemate_removing = s.both_stalemate_removing
      /\ t.board_full_removing = s.board_full_removing
      /\ \A k : Targets(t, k) = Targets(s, k)
  BY DEF Alters, Fields, Targets, Notes
<1>2. \A k : piece_bitboard(t, k) = piece_bitboard(s, k)
  BY <1>1, SameBitboards
<1>3. Due(t)
  BY <1>1, <1>2 DEF Sound, Due
<1>4. Phased(t) /\ Swept(t)
  BY <1>1 DEF Sound, Phased, Swept
<1> QED BY <1>3, <1>4 DEF Sound

(* maybe_finish_full_board *)
LEMMA FullBoardSound ==
  ASSUME NEW s, Live(s), Entered(s), NEW o \in MillVariantOptions,
         s.phase = IF s.pieces_in_hand[s.side_to_move] = 0
                     THEN "Moving" ELSE "Placing"
  PROVE  LET t == maybe_finish_full_board(s, o)
         IN Sound(t) /\ Keeps(s, t)
<1> DEFINE t == maybe_finish_full_board(s, o)
           remover == IF o.is_defender_move_first THEN 1 ELSE 0
           each == Both(1)
           one == [Both(0) EXCEPT ![remover] = 1]
<1>1. s \in MillStates /\ s.side_to_move \in Sides
  BY DEF Live
<1>2. t = s => Sound(t) /\ Keeps(s, t)
  BY <1>1, EnteredIsSound, KeepsItself
<1>3. ASSUME NEW winner, NEW reason, t = game_over(s, winner, reason)
      PROVE  Sound(t) /\ Keeps(s, t)
  <2>1. /\ Alters(s, t, {"phase", "winner", "outcome_reason", "side_to_move"})
        /\ t.phase = "GameOver"
    BY <1>1, <1>3, GameOverEffect
  <2> QED BY <1>1, <2>1, OverIsSound, AltersKeeps DEF MaterialFields
<1>4. ASSUME NEW owed \in [Sides -> Nat], NEW first \in Sides, owed[first] > 0,
             s.phase = "Moving", \A c \in Sides : ~(s.pending_removals[c] > 0),
             t = board_full_removals(s, owed, first)
      PROVE  Sound(t) /\ Keeps(s, t)
  <2>1. /\ Alters(s, t, {"pending_removals", "side_to_move", "board_full_removing"})
        /\ t.pending_removals = owed /\ t.side_to_move = first
    BY <1>1, <1>4, FieldsOfState DEF Alters, Fields, board_full_removals
  <2> HIDE DEF t
  <2>2. Keeps(s, t)
    BY <1>1, <2>1, AltersKeeps DEF MaterialFields
  <2>3. /\ t.phase = "Moving" /\ t.pieces_in_hand = s.pieces_in_hand
        /\ t.marked = s.marked /\ t.remove_own_piece = s.remove_own_piece
        /\ t.stalemate_removing = s.stalemate_removing
        /\ \A k : Targets(t, k) = Targets(s, k)
    BY <1>4, <2>1 DEF Alters, Fields, Targets
  <2>4. Clean(s)
    BY <1>1, <1>4 DEF Entered
  <2>5. Opp(first) \in Sides /\ \A k \in Sides : t.pending_removals[k] \in Nat
    BY <1>4, <2>1, TwoSides
  <2>6. Due(t)
    BY <1>4, <2>1, <2>3, <2>4, <2>5 DEF Due, Clean
  <2>7. Phased(t) /\ Swept(t)
    BY <1>4, <2>1, <2>3 DEF Phased, Swept, Entered
  <2> QED BY <2>2, <2>6, <2>7 DEF Sound
<1>5. /\ each \in [Sides -> Nat] /\ one \in [Sides -> Nat]
      /\ 0 \in Sides /\ 1 \in Sides /\ remover \in Sides
      /\ each[0] > 0 /\ each[1] > 0 /\ one[remover] > 0
  BY DEF Both, Sides
<1>6. \/ t = s
      \/ \E winner, reason : t = game_over(s, winner, reason)
      \/ /\ s.phase = "Moving" /\ \A c \in Sides : ~(s.pending_removals[c] > 0)
         /\ \E owed \in [Sides -> Nat], first \in Sides :
              owed[first] > 0 /\ t = board_full_removals(s, owed, first)
  <2>1. \/ t = s
        \/ \E winner, reason : t = game_over(s, winner, reason)
        \/ /\ s.phase = "Moving" /\ \A c \in Sides : ~(s.pending_removals[c] > 0)
           /\ \/ t = board_full_removals(s, each, 0)
              \/ t = board_full_removals(s, each, 1)
              \/ t = board_full_removals(s, one, remover)
    BY DEF maybe_finish_full_board
  <2> HIDE DEF t, remover, each, one
  <2> QED BY <2>1, <1>5
<1> HIDE DEF t
<1>7. (\E winner, reason : t = game_over(s, winner, reason)) =>
        Sound(t) /\ Keeps(s, t)
  BY Zenon, <1>3
<1>8. (/\ s.phase = "Moving" /\ \A c \in Sides : ~(s.pending_removals[c] > 0)
       /\ \E owed \in [Sides -> Nat], first \in Sides :
            owed[first] > 0 /\ t = board_full_removals(s, owed, first)) =>
        Sound(t) /\ Keeps(s, t)
  BY Zenon, <1>4
<1>9. Sound(t) /\ Keeps(s, t)
  BY Zenon, <1>2, <1>6, <1>7, <1>8
<1> QED BY <1>9 DEF t

(* The tail of every completed turn leaves a sound position.               *)
LEMMA SettleSound ==
  ASSUME NEW s, Live(s), NEW o \in MillVariantOptions, Settling(s, o),
         s.phase # "GameOver", Swept(s)
  PROVE  Sound(settle(s, o)) /\ Keeps(s, settle(s, o))
<1> DEFINE entered == maybe_transition_to_moving(s, o)
           phased == sync_phase_with_active_hand(entered)
           finished == maybe_finish_full_board(phased, o)
<1>1. Entered(entered) /\ Keeps(s, entered) /\ Live(entered)
  BY TransitionEntered
<1> HIDE DEF entered
<1>2. /\ Entered(phased) /\ Keeps(entered, phased) /\ Live(phased)
      /\ phased.phase = IF phased.pieces_in_hand[phased.side_to_move] = 0
                          THEN "Moving" ELSE "Placing"
  BY <1>1, PhaseEntered
<1> HIDE DEF phased
<1>3. Sound(finished) /\ Keeps(phased, finished) /\ finished \in MillStates
  BY <1>2, FullBoardSound, FullBoardTyped DEF Live
<1> HIDE DEF finished
<1>4. Alters(finished, sync_action_state(finished), {"action"})
  BY <1>3, SyncActionEffect
<1>5. Sound(sync_action_state(finished))
  BY <1>3, <1>4, NotesAreSound, AltersMore DEF Notes
<1>6. Keeps(finished, sync_action_state(finished))
  BY <1>3, <1>4, AltersKeeps DEF MaterialFields
<1>7. Keeps(s, sync_action_state(finished))
  BY <1>1, <1>2, <1>3, <1>6, KeepsTwice, SyncActionTyped DEF Live
<1>8. settle(s, o) = sync_action_state(finished)
  BY DEF settle, entered, phased, finished
<1> QED BY <1>5, <1>7, <1>8

-----------------------------------------------------------------------------
(* A stalemate *)

LEMMA StalemateClean ==
  ASSUME NEW s, Coherent(s), Due(s), NEW o, is_stalemate(s, o)
  PROVE  Live(s) /\ Clean(s) /\ s.phase = "Moving"
<1>1. s.phase = "Moving" /\ s.pending_removals[s.side_to_move] = 0
  BY DEF is_stalemate
<1>2. Live(s)
  BY <1>1 DEF Live, Coherent, Synced
<1> QED BY <1>1, <1>2, DueIsClean

(* A removal owed after a stalemate, by the blocked side or by both.       *)
LEMMA StalemateRemovalSound ==
  ASSUME NEW s, Live(s), Clean(s), Swept(s), s.phase = "Moving",
         NEW t, Alters(s, t, {"pending_removals", "stalemate_removing",
                              "both_stalemate_removing"}),
         t.pending_removals[s.side_to_move] > 0,
         t.stalemate_removing => t.pending_removals[Opp(s.side_to_move)] = 0
  PROVE  Sound(clear_capture_state(t)) /\ Keeps(s, clear_capture_state(t))
<1> DEFINE u == clear_capture_state(t)
<1>1. s \in MillStates
  BY DEF Live
<1>2. /\ Alters(t, u, CaptureState)
      /\ \A k \in Sides : Targets(u, k) = {}
  BY DEF Alters, Fields, CaptureState, Targets, clear_capture_state, Both
<1> HIDE DEF u
<1>3. Alters(s, u, {"pending_removals", "stalemate_removing",
                    "both_stalemate_removing"} \union CaptureState)
  BY <1>2, AltersTwice
<1>4. Keeps(s, u)
  BY <1>1, <1>3, AltersKeeps DEF MaterialFields, CaptureState
<1>5. /\ u.phase = "Moving" /\ u.side_to_move = s.side_to_move
      /\ u.pieces_in_hand = s.pieces_in_hand /\ u.marked = s.marked
      /\ u.remove_own_piece = s.remove_own_piece
      /\ u.pending_removals = t.pending_removals
      /\ u.stalemate_removing = t.stalemate_removing
  BY <1>2, <1>3 DEF Alters, Fields, CaptureState
<1>6. /\ s.side_to_move \in Sides /\ Opp(s.side_to_move) \in Sides
      /\ \A k \in Sides : ~s.remove_own_piece[k]
  BY TwoSides DEF Live, Clean
<1>7. Due(u)
  BY <1>2, <1>5, <1>6 DEF Due
<1>8. Phased(u) /\ Swept(u)
  BY <1>5 DEF Phased, Swept
<1> QED BY <1>4, <1>7, <1>8 DEF Sound, u

(* Handing the turn to the other side, phase and all.                      *)
LEMMA PassedSound ==
  ASSUME NEW s, Live(s), Clean(s), Swept(s), s.phase # "GameOver",
         s.pieces_in_hand = Both(0) => s.phase = "Moving"
  PROVE  LET t == sync_phase_with_active_hand(s)
         IN Sound(t) /\ Keeps(s, t)
<1>1. Entered(s)
  BY DEF Entered, Clean, Swept
<1> QED BY <1>1, PhaseEntered, EnteredIsSound

LEMMA StalemateSound ==
  ASSUME NEW s, Coherent(s), Sound(s), NEW o \in MillVariantOptions
  PROVE  LET t == maybe_handle_stalemate(s, o) IN Sound(t) /\ Keeps(s, t)
<1> DEFINE c == s.side_to_move
           r == resolve_stalemate(s, o)
<1>1. s \in MillStates
  BY DEF Coherent
<1>2. CASE ~is_stalemate(s, o)
  BY <1>1, <1>2, KeepsItself DEF maybe_handle_stalemate
<1>3. CASE is_stalemate(s, o)
  <2>1. Live(s) /\ Clean(s) /\ s.phase = "Moving" /\ Swept(s)
    BY <1>3, StalemateClean DEF Sound
  <2>2. c \in Sides /\ Opp(c) \in Sides /\ Opp(c) # c
    BY <2>1, OppIsSide DEF Live
  <2>3. ASSUME NEW winner, NEW reason,
               r = [s EXCEPT !.phase = "GameOver", !.winner = winner,
                             !.outcome_reason = reason]
        PROVE  Sound(r) /\ Keeps(s, r)
    <3>1. Alters(s, r, {"phase", "winner", "outcome_reason"}) /\ r.phase = "GameOver"
      BY <1>1, <2>3, FieldsOfState DEF Alters, Fields
    <3> QED BY <1>1, <3>1, OverIsSound, AltersKeeps DEF MaterialFields
  <2>4. r = sync_phase_with_active_hand([s EXCEPT !.side_to_move = Opp(c)])
          => Sound(r) /\ Keeps(s, r)
    <3> DEFINE p == [s EXCEPT !.side_to_move = Opp(c)]
    <3>1. Live(p) /\ Alters(s, p, {"side_to_move"})
      BY <1>1, <2>1, <2>2, PassLive, PassEffect
    <3> HIDE DEF p
    <3>2. p.phase = "Moving" /\ Clean(p) /\ Swept(p)
      BY <2>1, <3>1 DEF Alters, Fields, Clean, Targets, Swept
    <3>3. Sound(sync_phase_with_active_hand(p)) /\ Keeps(p, sync_phase_with_active_hand(p))
      BY <3>1, <3>2, PassedSound
    <3>4. Keeps(s, p) /\ p \in MillStates /\ sync_phase_with_active_hand(p) \in MillStates
      BY <1>1, <3>1, AltersKeeps, SyncPhaseTyped DEF MaterialFields, Live
    <3>5. Keeps(s, sync_phase_with_active_hand(p))
      BY <1>1, <3>3, <3>4, KeepsTwice
    <3> QED BY <3>3, <3>5 DEF p
  <2> DEFINE owing == [s EXCEPT !.pending_removals[c] = 1]
             again == [owing EXCEPT !.stalemate_removing = TRUE]
             both == [owing EXCEPT !.pending_removals[Opp(c)] = 1,
                                   !.both_stalemate_removing = TRUE]
             G == {"pending_removals", "stalemate_removing", "both_stalemate_removing"}
  <2>5. s.pending_removals \in [Sides -> Nat]
        /\ s.pending_removals[Opp(c)] = 0
    BY <1>1, <2>1, <2>2 DEF MillStates, Clean
  <2>6. /\ Alters(s, owing, {"pending_removals"}) /\ owing.pending_removals[c] = 1
        /\ owing.pending_removals \in [Sides -> Nat]
        /\ owing.pending_removals[Opp(c)] = 0 /\ ~owing.stalemate_removing
    BY <1>1, <2>1, <2>2, <2>5, FieldsOfState DEF Alters, Fields, Clean
  <2> HIDE DEF owing
  <2>7. /\ Alters(owing, again, G) /\ again.pending_removals = owing.pending_removals
    BY <2>6, FieldsOfState DEF Alters, Fields
  <2>8. /\ Alters(owing, both, G) /\ both.pending_removals[c] = 1
        /\ ~both.stalemate_removing
    BY <2>2, <2>6, FieldsOfState DEF Alters, Fields
  <2> HIDE DEF again, both
  <2>9. \A u \in {owing, again, both} :
           /\ Alters(s, u, G) /\ u.pending_removals[c] > 0
           /\ u.stalemate_removing => u.pending_removals[Opp(c)] = 0
    BY <2>6, <2>7, <2>8 DEF Alters
  <2>10. \A u \in {owing, again, both} :
           r = clear_capture_state(u) => Sound(r) /\ Keeps(s, r)
    BY <2>1, <2>9, StalemateRemovalSound
  <2>11. \/ \E winner, reason : r = [s EXCEPT !.phase = "GameOver", !.winner = winner,
                                             !.outcome_reason = reason]
         \/ r = sync_phase_with_active_hand([s EXCEPT !.side_to_move = Opp(c)])
         \/ \E u \in {owing, again, both} : r = clear_capture_state(u)
    BY DEF resolve_stalemate, owing, again, both
  <2> HIDE DEF r
  <2>12. (\E winner, reason : r = [s EXCEPT !.phase = "GameOver", !.winner = winner,
                                            !.outcome_reason = reason])
           => Sound(r) /\ Keeps(s, r)
    BY Zenon, <2>3
  <2>13. Sound(r) /\ Keeps(s, r)
    BY Zenon, <2>4, <2>10, <2>11, <2>12
  <2>14. r \in MillStates
    BY <1>3, StalemateTyped DEF r
  <2>15. Alters(r, sync_action_state(r), {"action"})
    BY <2>14, SyncActionEffect
  <2>16. Sound(sync_action_state(r)) /\ Keeps(r, sync_action_state(r))
    BY <2>13, <2>14, <2>15, NotesAreSound, AltersMore, AltersKeeps
       DEF Notes, MaterialFields
  <2>17. Keeps(s, sync_action_state(r))
    BY <1>1, <2>13, <2>14, <2>16, KeepsTwice, SyncActionTyped
  <2>18. maybe_handle_stalemate(s, o) = sync_action_state(r)
    BY <1>3 DEF maybe_handle_stalemate, r
  <2> QED BY <2>16, <2>17, <2>18
<1> QED BY <1>2, <1>3

-----------------------------------------------------------------------------
(* Completing a mill or a capture *)

TurnFields == CaptureState \union Notes \union {"pending_removals"}

(* A side that owed nothing and now owes a removal, for its mills or its   *)
(* captures.                                                               *)
LEMMA OwingSound ==
  ASSUME NEW s, Live(s), Clean(s), Swept(s), s.phase # "GameOver",
         NEW t, Alters(s, t, TurnFields),
         t.pending_removals[s.side_to_move] > 0,
         t.pending_removals[Opp(s.side_to_move)] = 0,
         Targets(t, Opp(s.side_to_move)) = {},
         Targets(t, s.side_to_move) \subseteq piece_bitboard(s, Opp(s.side_to_move))
  PROVE  Sound(t) /\ Keeps(s, t)
<1>1. s \in MillStates
  BY DEF Live
<1>2. Keeps(s, t)
  BY <1>1, AltersKeeps DEF MaterialFields, TurnFields, CaptureState, Notes
<1>3. /\ t.phase = s.phase /\ t.side_to_move = s.side_to_move
      /\ t.pieces_in_hand = s.pieces_in_hand /\ t.marked = s.marked
      /\ t.board = s.board /\ t.remove_own_piece = s.remove_own_piece
      /\ t.stalemate_removing = s.stalemate_removing
  BY DEF Alters, Fields, TurnFields, CaptureState, Notes
<1>4. \A k : piece_bitboard(t, k) = piece_bitboard(s, k)
  BY <1>3, SameBitboards
<1>5. /\ s.side_to_move \in Sides /\ Opp(s.side_to_move) \in Sides
      /\ \A k \in Sides : ~s.remove_own_piece[k]
      /\ ~s.stalemate_removing
  BY TwoSides DEF Live, Clean
<1>6. Due(t)
  BY <1>3, <1>4, <1>5 DEF Due
<1>7. Phased(t) /\ Swept(t)
  BY <1>3 DEF Phased, Swept
<1> QED BY <1>2, <1>6, <1>7 DEF Sound

LEMMA EarnedIsPositive ==
  ASSUME NEW o \in MillVariantOptions, NEW lines \in SUBSET mill_lines(o), lines # {}
  PROVE  removal_count(lines, o) \in Nat \ {0}
<1>1. IsFiniteSet(lines)
  <2>1. lines \in SUBSET (SUBSET Nodes)
    BY LinesArePoints
  <2> QED BY <2>1, FS_SUBSET, FS_Subset, BoardAssumption
<1>2. Cardinality(lines) \in Nat /\ Cardinality(lines) # 0
  BY <1>1, FS_CardinalityType, FS_EmptySet
<1> QED BY <1>2 DEF removal_count

LEMMA TotalIsPositive ==
  ASSUME NEW s \in MillStates, s.side_to_move \in Sides,
         Targets(s, s.side_to_move) # {}
  PROVE  capture_total(s) \in Nat \ {0}
<1> DEFINE c == s.side_to_move
           pair == s.intervention_targets[c]
           jumped == s.leap_targets[c]
<1>1. pair \in SUBSET Nodes /\ jumped \in SUBSET Nodes
  BY DEF MillStates
<1>2. /\ IsFiniteSet(pair) /\ Cardinality(pair) \in Nat
      /\ IsFiniteSet(jumped) /\ Cardinality(jumped) \in Nat
  BY <1>1, PointsCounted
<1>3. /\ pair # {} => Cardinality(pair) # 0
      /\ jumped # {} => Cardinality(jumped) # 0
  BY <1>2, FS_EmptySet
<1>4. s.custodian_targets[c] # {} \/ pair # {} \/ jumped # {}
  BY DEF Targets
<1> QED BY <1>2, <1>3, <1>4 DEF capture_total

(* What holds when a piece has just been set down: the turn has not been   *)
(* touched yet.                                                            *)
Fresh(s) == Live(s) /\ Clean(s) /\ Swept(s) /\ s.phase # "GameOver"

LEMMA ActivatedTargets ==
  ASSUME NEW s, Live(s), Clean(s), NEW t, Alters(s, t, {"pending_removals",
           "mill_available_at_removal"}), t \in MillStates,
         NEW custodian \in SUBSET piece_bitboard(s, Opp(s.side_to_move)),
         NEW intervention \in SUBSET piece_bitboard(s, Opp(s.side_to_move)),
         NEW leap \in SUBSET piece_bitboard(s, Opp(s.side_to_move))
  PROVE  LET u == activate_capture_state(t, custodian, intervention, leap)
             c == s.side_to_move
         IN /\ Live(u) /\ u.side_to_move = c
            /\ Alters(s, u, {"pending_removals"} \union CaptureState)
            /\ u.pending_removals = t.pending_removals
            /\ Targets(u, c) = custodian \union intervention \union leap
            /\ Targets(u, Opp(c)) = {}
<1> DEFINE u == activate_capture_state(t, custodian, intervention, leap)
           c == s.side_to_move
<1>1. c \in Sides /\ Opp(c) \in Sides /\ Opp(c) # c
  BY TwoSides DEF Live
<1>2. /\ t.side_to_move = c
      /\ t.custodian_targets = s.custodian_targets
      /\ t.intervention_targets = s.intervention_targets
      /\ t.leap_targets = s.leap_targets
  BY DEF Alters, Fields
<1>3. /\ Alters(t, u, CaptureState \ {"mill_available_at_removal"})
      /\ u.custodian_targets[c] = custodian
      /\ u.intervention_targets[c] = intervention
      /\ u.leap_targets[c] = leap
      /\ \A k \in Sides \ {c} :
           /\ u.custodian_targets[k] = t.custodian_targets[k]
           /\ u.intervention_targets[k] = t.intervention_targets[k]
           /\ u.leap_targets[k] = t.leap_targets[k]
  <2> DEFINE d == t.side_to_move
  <2>1. d \in Sides
    BY <1>1, <1>2
  <2>2. /\ Alters(t, u, CaptureState \ {"mill_available_at_removal"})
        /\ u.custodian_targets[d] = custodian
        /\ u.intervention_targets[d] = intervention
        /\ u.leap_targets[d] = leap
        /\ \A k \in Sides \ {d} :
             /\ u.custodian_targets[k] = t.custodian_targets[k]
             /\ u.intervention_targets[k] = t.intervention_targets[k]
             /\ u.leap_targets[k] = t.leap_targets[k]
    BY <2>1, ActivateEffect
  <2> QED BY <1>2, <2>2
<1>4. Live(u)
  <2>1. /\ custodian \in SUBSET Nodes /\ intervention \in SUBSET Nodes
        /\ leap \in SUBSET Nodes
    BY DEF piece_bitboard
  <2>2. Live(t)
    BY <1>1, <1>2 DEF Live
  <2> QED BY <2>1, <2>2, ActivateLive
<1> HIDE DEF u
<1>5. Targets(u, c) = custodian \union intervention \union leap
  BY <1>3 DEF Targets
<1>6. Targets(u, Opp(c)) = {}
  <2>1. Targets(u, Opp(c)) = Targets(s, Opp(c))
    BY <1>1, <1>2, <1>3 DEF Targets
  <2> QED BY <1>1, <2>1 DEF Clean
<1>7. /\ Alters(s, u, {"pending_removals"} \union CaptureState)
      /\ u.side_to_move = c /\ u.pending_removals = t.pending_removals
  BY <1>2, <1>3 DEF Alters, Fields, CaptureState
<1> QED BY <1>4, <1>5, <1>6, <1>7 DEF u

(* The side to move owes a removal.                                        *)
Owes(s) == s.pending_removals[s.side_to_move] > 0

(* The action byte and the notes come last.                                *)
LEMMA SyncedOwing ==
  ASSUME NEW s, Fresh(s), NEW t \in MillStates,
         Alters(s, t, TurnFields),
         t.pending_removals[s.side_to_move] > 0,
         t.pending_removals[Opp(s.side_to_move)] = 0,
         Targets(t, Opp(s.side_to_move)) = {},
         Targets(t, s.side_to_move) \subseteq piece_bitboard(s, Opp(s.side_to_move))
  PROVE  LET u == sync_action_state(t) IN Sound(u) /\ Keeps(s, u) /\ Owes(u)
<1>1. Sound(t) /\ Keeps(s, t)
  BY OwingSound DEF Fresh
<1>2. Alters(t, sync_action_state(t), {"action"})
  BY SyncActionEffect
<1>3. Sound(sync_action_state(t))
  BY <1>1, <1>2, NotesAreSound, AltersMore DEF Notes
<1>4. Keeps(t, sync_action_state(t))
  BY <1>2, AltersKeeps DEF MaterialFields
<1>5. Owes(sync_action_state(t))
  <2>1. t.side_to_move = s.side_to_move
    BY DEF Alters, Fields, TurnFields, CaptureState, Notes
  <2> QED BY <1>2, <2>1 DEF Owes, Alters, Fields
<1> QED BY <1>1, <1>3, <1>4, <1>5, KeepsTwice, SyncActionTyped DEF Fresh, Live

LEMMA CaptureOnlySound ==
  ASSUME NEW s, Fresh(s),
         NEW custodian \in SUBSET piece_bitboard(s, Opp(s.side_to_move)),
         NEW intervention \in SUBSET piece_bitboard(s, Opp(s.side_to_move)),
         custodian \union intervention # {}
  PROVE  LET t == capture_only(s, custodian, intervention)
         IN Sound(t) /\ Keeps(s, t) /\ Owes(t)
<1> DEFINE c == s.side_to_move
           active == activate_capture_state(s, custodian, intervention, {})
           owing == owe(active, capture_total(active))
           t == [owing EXCEPT !.mill_available_at_removal = FALSE]
<1>1. Live(s) /\ Clean(s) /\ s \in MillStates /\ c \in Sides /\ Opp(c) \in Sides \ {c}
  BY TwoSides DEF Fresh, Live
<1>2. /\ Live(active) /\ active.side_to_move = c
      /\ Alters(s, active, {"pending_removals"} \union CaptureState)
      /\ active.pending_removals = s.pending_removals
      /\ Targets(active, c) = custodian \union intervention
      /\ Targets(active, Opp(c)) = {}
  <2>1. Alters(s, s, {"pending_removals", "mill_available_at_removal"})
    BY <1>1, FieldsOfState, AltersMore
  <2>2. {} \in SUBSET piece_bitboard(s, Opp(c))
    OBVIOUS
  <2> HIDE DEF active
  <2>3. LET u == active
        IN /\ Live(u) /\ u.side_to_move = c
           /\ Alters(s, u, {"pending_removals"} \union CaptureState)
           /\ u.pending_removals = s.pending_removals
           /\ Targets(u, c) = custodian \union intervention \union {}
           /\ Targets(u, Opp(c)) = {}
    BY <1>1, <2>1, <2>2, ActivatedTargets DEF active
  <2> QED BY <2>3
<1> HIDE DEF active
<1>3. capture_total(active) \in Nat \ {0}
  BY <1>2, TotalIsPositive DEF Live
<1>4. /\ Live(owing) /\ Alters(active, owing, {"pending_removals"})
      /\ owing.pending_removals[c] > 0
      /\ owing.pending_removals[Opp(c)] = s.pending_removals[Opp(c)]
  BY <1>1, <1>2, <1>3, OweLive, OweEffect DEF Live
<1> HIDE DEF owing
<1>5. Live(t) /\ Alters(owing, t, {"mill_available_at_removal"})
  BY <1>4, AvailableLive, AvailableEffect DEF Live
<1> HIDE DEF t
<1>6. /\ Alters(s, t, TurnFields)
      /\ t.pending_removals = owing.pending_removals
      /\ \A k : Targets(t, k) = Targets(active, k)
  BY <1>2, <1>4, <1>5 DEF Alters, Fields, TurnFields, CaptureState, Targets
<1>7. s.pending_removals[Opp(c)] = 0
  BY <1>1 DEF Clean
<1>8. LET u == sync_action_state(t) IN Sound(u) /\ Keeps(s, u) /\ Owes(u)
  BY <1>2, <1>4, <1>5, <1>6, <1>7, SyncedOwing DEF Live
<1> QED BY <1>8 DEF capture_only, t, owing, active

LEMMA SettleFresh ==
  ASSUME NEW s, Fresh(s), NEW o \in MillVariantOptions
  PROVE  Sound(settle(s, o)) /\ Keeps(s, settle(s, o))
<1>1. Settling(s, o)
  BY DEF Fresh, Settling, Clean
<1> QED BY <1>1, SettleSound DEF Fresh

(* Handing on a turn in which nothing is owed changes nothing else.        *)
LEMMA PassFresh ==
  ASSUME NEW s, Fresh(s), NEW c \in Sides
  PROVE  LET t == [s EXCEPT !.side_to_move = c] IN Fresh(t) /\ Keeps(s, t)
<1> DEFINE t == [s EXCEPT !.side_to_move = c]
<1>1. s \in MillStates /\ Live(s)
  BY DEF Fresh, Live
<1>2. Live(t) /\ Alters(s, t, {"side_to_move"})
  BY <1>1, PassLive, PassEffect
<1> HIDE DEF t
<1>3. /\ t.phase = s.phase /\ t.pieces_in_hand = s.pieces_in_hand
      /\ t.marked = s.marked /\ t.pending_removals = s.pending_removals
      /\ t.remove_own_piece = s.remove_own_piece
      /\ t.mill_available_at_removal = s.mill_available_at_removal
      /\ t.stalemate_removing = s.stalemate_removing
      /\ t.both_stalemate_removing = s.both_stalemate_removing
      /\ t.board_full_removing = s.board_full_removing
      /\ \A k : Targets(t, k) = Targets(s, k)
  BY <1>2 DEF Alters, Fields, Targets
<1>4. Clean(t) /\ Swept(t)
  BY <1>3 DEF Fresh, Clean, Swept
<1>5. Keeps(s, t)
  BY <1>1, <1>2, AltersKeeps DEF MaterialFields
<1> QED BY <1>2, <1>3, <1>4, <1>5 DEF Fresh, t

(* While pieces are being placed hands may shrink.                         *)
LEMMA ShrinkFresh ==
  ASSUME NEW s, Fresh(s), s.phase = "Placing", NEW hands \in [Sides -> Nat],
         \A k \in Sides : hands[k] <= s.pieces_in_hand[k]
  PROVE  LET t == [s EXCEPT !.pieces_in_hand = hands]
         IN Fresh(t) /\ Keeps(s, t) /\ t.phase = "Placing"
<1> DEFINE t == [s EXCEPT !.pieces_in_hand = hands]
<1>1. s \in MillStates
  BY DEF Fresh, Live
<1>2. Live(t)
  BY <1>1 DEF Fresh, Live, MillStates
<1>3. Alters(s, t, {"pieces_in_hand"}) /\ t.pieces_in_hand = hands
  BY <1>1, FieldsOfState DEF Alters, Fields
<1> HIDE DEF t
<1>4. /\ t.phase = "Placing" /\ t.board = s.board /\ t.marked = s.marked
      /\ t.pieces_on_board = s.pieces_on_board
      /\ t.ply_since_capture = s.ply_since_capture
      /\ t.pending_removals = s.pending_removals
      /\ t.remove_own_piece = s.remove_own_piece
      /\ t.mill_available_at_removal = s.mill_available_at_removal
      /\ t.stalemate_removing = s.stalemate_removing
      /\ t.both_stalemate_removing = s.both_stalemate_removing
      /\ t.board_full_removing = s.board_full_removing
      /\ \A k : Targets(t, k) = Targets(s, k)
  BY <1>3 DEF Alters, Fields, Targets
<1>5. Clean(t) /\ Swept(t)
  BY <1>4 DEF Fresh, Clean, Swept
<1>6. Keeps(s, t)
  BY <1>3, <1>4, SameBitboards DEF Keeps
<1> QED BY <1>2, <1>4, <1>5, <1>6 DEF Fresh, t

LEMMA ClearFresh ==
  ASSUME NEW s, Fresh(s)
  PROVE  LET t == clear_capture_state(s)
         IN Fresh(t) /\ Keeps(s, t) /\ t.phase = s.phase
              /\ t.side_to_move = s.side_to_move /\ t.pieces_in_hand = s.pieces_in_hand
<1> DEFINE t == clear_capture_state(s)
<1>1. s \in MillStates /\ Live(s)
  BY DEF Fresh, Live
<1>2. /\ Live(t) /\ Alters(s, t, CaptureState) /\ ~t.mill_available_at_removal
      /\ \A k \in Sides : Targets(t, k) = {}
  BY <1>1, ClearLive, ClearEffect DEF Targets
<1> HIDE DEF t
<1>3. /\ t.phase = s.phase /\ t.side_to_move = s.side_to_move
      /\ t.pieces_in_hand = s.pieces_in_hand
      /\ t.marked = s.marked /\ t.pending_removals = s.pending_removals
      /\ t.remove_own_piece = s.remove_own_piece
      /\ t.stalemate_removing = s.stalemate_removing
      /\ t.both_stalemate_removing = s.both_stalemate_removing
      /\ t.board_full_removing = s.board_full_removing
  BY <1>2 DEF Alters, Fields, CaptureState
<1>4. Clean(t) /\ Swept(t)
  BY <1>2, <1>3 DEF Fresh, Clean, Swept
<1>5. Keeps(s, t)
  BY <1>1, <1>2, AltersKeeps DEF MaterialFields, CaptureState
<1> QED BY <1>2, <1>3, <1>4, <1>5 DEF Fresh, t

LEMMA ClearSound ==
  ASSUME NEW s \in MillStates, Sound(s), s.side_to_move \in Sides \/ s.phase = "GameOver"
  PROVE  LET t == clear_capture_state(s) IN Sound(t) /\ Keeps(s, t)
<1> DEFINE t == clear_capture_state(s)
<1>1. /\ Alters(s, t, CaptureState) /\ ~t.mill_available_at_removal
      /\ \A k \in Sides : Targets(t, k) = {}
  BY ClearEffect DEF Targets
<1> HIDE DEF t
<1>2. Keeps(s, t)
  BY <1>1, AltersKeeps DEF MaterialFields, CaptureState
<1>3. /\ t.phase = s.phase /\ t.side_to_move = s.side_to_move
      /\ t.pieces_in_hand = s.pieces_in_hand
      /\ t.marked = s.marked /\ t.pending_removals = s.pending_removals
      /\ t.remove_own_piece = s.remove_own_piece
      /\ t.stalemate_removing = s.stalemate_removing
      /\ t.both_stalemate_removing = s.both_stalemate_removing
      /\ t.board_full_removing = s.board_full_removing
  BY <1>1 DEF Alters, Fields, CaptureState
<1>4. Phased(t) /\ Swept(t)
  BY <1>3 DEF Sound, Phased, Swept
<1>5. Due(t)
  <2>1. CASE s.phase = "GameOver"
    BY <1>3, <2>1 DEF Due
  <2>2. CASE s.phase # "GameOver"
    <3>1. s.side_to_move \in Sides /\ Opp(s.side_to_move) \in Sides
      BY <2>2, OppIsSide
    <3> QED BY <1>1, <1>3, <2>2, <3>1 DEF Sound, Due
  <2> QED BY <2>1, <2>2
<1> QED BY <1>2, <1>4, <1>5 DEF Sound, t

-----------------------------------------------------------------------------
(* What placing a piece leads to *)

LEMMA OnBoardSound ==
  ASSUME NEW s, Fresh(s), NEW o \in MillVariantOptions,
         NEW lines \in SUBSET mill_lines(o), lines # {},
         NEW custodian \in SUBSET piece_bitboard(s, Opp(s.side_to_move)),
         NEW intervention \in SUBSET piece_bitboard(s, Opp(s.side_to_move))
  PROVE  LET t == place_mill_on_board(s, o, lines, custodian, intervention)
         IN Sound(t) /\ Keeps(s, t)
<1> DEFINE c == s.side_to_move
           earned == removal_count(lines, o)
           owing == [owe(s, earned) EXCEPT !.mill_available_at_removal = TRUE]
           active == activate_capture_state(owing, custodian, intervention, {})
           total == earned + capture_total(active)
           t == IF o.may_remove_multiple THEN owe(active, total) ELSE active
<1>1. /\ Live(s) /\ Clean(s) /\ s \in MillStates /\ c \in Sides
      /\ Opp(c) \in Sides \ {c} /\ s.pending_removals[Opp(c)] = 0
  BY TwoSides DEF Fresh, Live, Clean
<1>2. earned \in Nat \ {0}
  BY EarnedIsPositive
<1> HIDE DEF earned
<1>3. /\ Live(owing) /\ Alters(s, owing, {"pending_removals", "mill_available_at_removal"})
      /\ owing.pending_removals[c] = earned /\ owing.pending_removals[Opp(c)] = 0
  <2>1. /\ Live(owe(s, earned)) /\ Alters(s, owe(s, earned), {"pending_removals"})
        /\ owe(s, earned).pending_removals[c] = earned
        /\ owe(s, earned).pending_removals[Opp(c)] = 0
    BY <1>1, <1>2, OweLive, OweEffect
  <2> DEFINE u == owe(s, earned)
  <2> HIDE DEF u
  <2>2. /\ Live([u EXCEPT !.mill_available_at_removal = TRUE])
        /\ Alters(u, [u EXCEPT !.mill_available_at_removal = TRUE],
                  {"mill_available_at_removal"})
    BY <2>1, AvailableLive, AvailableEffect DEF u, Live
  <2> QED BY <2>1, <2>2 DEF Alters, Fields, u
<1> HIDE DEF owing
<1>4. /\ Live(active) /\ active.side_to_move = c
      /\ Alters(s, active, {"pending_removals"} \union CaptureState)
      /\ active.pending_removals = owing.pending_removals
      /\ Targets(active, c) = custodian \union intervention
      /\ Targets(active, Opp(c)) = {}
  <2>1. {} \in SUBSET piece_bitboard(s, Opp(c)) /\ owing \in MillStates
    BY <1>3 DEF Live
  <2> HIDE DEF active
  <2>2. LET u == active
        IN /\ Live(u) /\ u.side_to_move = c
           /\ Alters(s, u, {"pending_removals"} \union CaptureState)
           /\ u.pending_removals = owing.pending_removals
           /\ Targets(u, c) = custodian \union intervention \union {}
           /\ Targets(u, Opp(c)) = {}
    BY <1>1, <1>3, <2>1, ActivatedTargets DEF active
  <2> QED BY <2>2
<1> HIDE DEF active
<1>5. capture_total(active) \in Nat
  BY <1>4, CaptureTotalTyped DEF Live
<1>6. total \in Nat \ {0}
  BY <1>2, <1>5
<1> HIDE DEF total
<1>7. /\ Live(owe(active, total)) /\ Alters(active, owe(active, total), {"pending_removals"})
      /\ owe(active, total).pending_removals[c] = total
      /\ owe(active, total).pending_removals[Opp(c)] = 0
  BY <1>1, <1>3, <1>4, <1>6, OweLive, OweEffect DEF Live
<1>8. /\ t \in MillStates /\ Alters(active, t, {"pending_removals"})
      /\ t.pending_removals[c] > 0 /\ t.pending_removals[Opp(c)] = 0
  BY <1>2, <1>3, <1>4, <1>6, <1>7, FieldsOfState, AltersMore DEF Live
<1> HIDE DEF t
<1>9. /\ Alters(s, t, TurnFields) /\ \A k : Targets(t, k) = Targets(active, k)
  BY <1>4, <1>8 DEF Alters, Fields, TurnFields, CaptureState, Targets
<1>10. Sound(sync_action_state(t)) /\ Keeps(s, sync_action_state(t))
  BY <1>4, <1>8, <1>9, SyncedOwing
<1> QED BY <1>10 DEF place_mill_on_board, t, total, active, owing, earned

LEMMA FromHandSound ==
  ASSUME NEW s, Fresh(s), s.phase = "Placing", NEW o \in MillVariantOptions,
         NEW lines \in SUBSET mill_lines(o), lines # {}
  PROVE  LET t == place_mill_from_hand(s, o, lines) IN Sound(t) /\ Keeps(s, t)
<1> DEFINE c == s.side_to_move
           d == Opp(c)
           earned == removal_count(lines, o)
           hand == s.pieces_in_hand[d]
           taken == hand_removed(earned, hand)
           hands == [s.pieces_in_hand EXCEPT ![d] = hand - taken]
           drawn == [s EXCEPT !.pieces_in_hand = hands]
           next == IF o.mill_formation_action_in_placing_phase
                        = "RemoveOpponentsPieceFromHandThenOpponentsTurn"
                     THEN Opp(c) ELSE c
           owing == owe(drawn, earned - taken)
           passed == [drawn EXCEPT !.side_to_move = next]
           t == IF earned > taken THEN sync_action_state(owing) ELSE settle(passed, o)
<1>1. /\ Live(s) /\ s \in MillStates /\ c \in Sides /\ d \in Sides \ {c}
      /\ next \in Sides
  BY TwoSides DEF Fresh, Live
<1>2. earned \in Nat /\ hand \in Nat /\ taken \in Nat /\ taken <= hand
  <2>1. earned \in Nat /\ hand \in Nat
    BY <1>1, EarnedIsPositive, HandsAreNatural
  <2> QED BY <2>1 DEF hand_removed
<1>3. hands \in [Sides -> Nat] /\ \A k \in Sides : hands[k] <= s.pieces_in_hand[k]
  <2>1. s.pieces_in_hand \in [Sides -> Nat] /\ hand - taken \in Nat /\ hand - taken <= hand
    BY <1>1, <1>2 DEF MillStates
  <2> HIDE DEF taken
  <2> QED BY <1>1, <2>1
<1> HIDE DEF hands
<1>4. /\ Fresh(drawn) /\ Keeps(s, drawn) /\ Alters(s, drawn, {"pieces_in_hand"})
  BY <1>1, <1>3, ShrinkFresh, FieldsOfState DEF Alters, Fields
<1> HIDE DEF drawn
<1>5. drawn.side_to_move = c /\ drawn \in MillStates
  BY <1>4 DEF Alters, Fields, Fresh, Live
<1>6. earned > taken => Sound(sync_action_state(owing)) /\ Keeps(drawn, sync_action_state(owing))
                        /\ Coherent(sync_action_state(owing))
  <2> SUFFICES ASSUME earned > taken
               PROVE  /\ Sound(sync_action_state(owing))
                      /\ Keeps(drawn, sync_action_state(owing))
                      /\ Coherent(sync_action_state(owing))
    OBVIOUS
  <2>1. earned - taken \in Nat \ {0}
    BY <1>2
  <2>2. /\ Live(owing) /\ Alters(drawn, owing, {"pending_removals"})
        /\ owing.pending_removals[c] > 0
        /\ owing.pending_removals[d] = drawn.pending_removals[d]
    BY <1>1, <1>4, <1>5, <2>1, OweLive, OweEffect DEF Fresh
  <2> HIDE DEF owing
  <2>3. /\ Alters(drawn, owing, TurnFields) /\ \A k : Targets(owing, k) = Targets(drawn, k)
    BY <2>2 DEF Alters, Fields, TurnFields, Targets
  <2>4. \A k \in Sides : drawn.pending_removals[k] = 0 /\ Targets(drawn, k) = {}
    BY <1>4 DEF Fresh, Clean
  <2>5. Sound(sync_action_state(owing)) /\ Keeps(drawn, sync_action_state(owing))
    BY <1>1, <1>4, <1>5, <2>2, <2>3, <2>4, SyncedOwing DEF Live
  <2> QED BY <2>2, <2>5, LivePlayable
<1>7. /\ Sound(settle(passed, o)) /\ Keeps(drawn, settle(passed, o))
      /\ Coherent(settle(passed, o))
  <2>1. Fresh(passed) /\ Keeps(drawn, passed)
    BY <1>1, <1>4, PassFresh
  <2> HIDE DEF passed
  <2>2. Sound(settle(passed, o)) /\ Keeps(passed, settle(passed, o)) /\ Coherent(settle(passed, o))
    BY <2>1, SettleFresh, SettleCoherent DEF Fresh
  <2> QED BY <1>5, <2>1, <2>2, KeepsTwice DEF Fresh, Live, Coherent
<1>8. Sound(t) /\ Keeps(drawn, t) /\ Coherent(t)
  <2> HIDE DEF owing, passed
  <2> QED BY <1>6, <1>7
<1> HIDE DEF t
<1>9. t \in MillStates /\ (t.side_to_move \in Sides \/ t.phase = "GameOver")
  BY <1>8 DEF Coherent, Synced
<1>10. Sound(clear_capture_state(t)) /\ Keeps(t, clear_capture_state(t))
  BY <1>8, <1>9, ClearSound
<1>11. Keeps(s, clear_capture_state(t))
  <2>1. Keeps(s, t)
    BY <1>1, <1>4, <1>5, <1>8, <1>9, KeepsTwice
  <2> QED BY <1>1, <1>9, <1>10, <2>1, KeepsTwice, ClearTyped
<1>12. place_mill_from_hand(s, o, lines) = clear_capture_state(t)
  BY DEF place_mill_from_hand, t, drawn, hands
<1> QED BY <1>10, <1>11, <1>12

LEMMA CountedSound ==
  ASSUME NEW s, Fresh(s), s.phase = "Placing", NEW o \in MillVariantOptions,
         CountedAction(o)
  PROVE  LET t == place_mill_counted(s, o) IN Sound(t) /\ Keeps(s, t)
<1> DEFINE cleared == clear_capture_state(s)
           counted == apply_removal_based_on_mill_counts(cleared, o)
           passed == [cleared EXCEPT !.side_to_move = Opp(cleared.side_to_move)]
<1>1. /\ Fresh(cleared) /\ Keeps(s, cleared) /\ cleared.phase = "Placing"
      /\ cleared.side_to_move = s.side_to_move
      /\ cleared.pieces_in_hand = s.pieces_in_hand
  BY ClearFresh
<1> HIDE DEF cleared
<1>2. s \in MillStates /\ cleared \in MillStates /\ Opp(cleared.side_to_move) \in Sides
  BY <1>1, OppIsSide DEF Fresh, Live
<1>3. Sound(settle(passed, o)) /\ Keeps(s, settle(passed, o))
  <2>1. Fresh(passed) /\ Keeps(cleared, passed)
    BY <1>1, <1>2, PassFresh
  <2> HIDE DEF passed
  <2>2. /\ Sound(settle(passed, o)) /\ Keeps(passed, settle(passed, o))
        /\ settle(passed, o) \in MillStates /\ passed \in MillStates
    BY <2>1, SettleFresh, SettleCoherent DEF Fresh, Live, Coherent
  <2>3. Keeps(cleared, settle(passed, o))
    BY <1>2, <2>1, <2>2, KeepsTwice
  <2> QED BY <1>1, <1>2, <2>2, <2>3, KeepsTwice
<1>4. s.pieces_in_hand = Both(0) =>
        Sound(settle(counted, o)) /\ Keeps(s, settle(counted, o))
  <2> SUFFICES ASSUME s.pieces_in_hand = Both(0)
               PROVE  Sound(settle(counted, o)) /\ Keeps(s, settle(counted, o))
    OBVIOUS
  <2>1. /\ Alters(cleared, counted, Counting) /\ counted \in MillStates
        /\ counted.side_to_move = cleared.side_to_move
    BY <1>2, CountsEffect, MillCountRemovalsTyped DEF Counting
  <2> HIDE DEF counted
  <2>2. Live(counted) /\ Keeps(cleared, counted)
    BY <1>1, <1>2, <2>1, AltersKeeps DEF Fresh, Live, Counting, MaterialFields
  <2>3. /\ counted.phase = "Placing" /\ counted.pieces_in_hand = Both(0)
        /\ counted.stalemate_removing = cleared.stalemate_removing
        /\ \A k : Targets(counted, k) = Targets(cleared, k)
    BY <1>1, <2>1 DEF Alters, Fields, Counting, Targets
  <2>4. Settling(counted, o) /\ Swept(counted)
    BY <1>1, <2>3 DEF Fresh, Clean, Settling, Swept
  <2>5. /\ Sound(settle(counted, o)) /\ Keeps(counted, settle(counted, o))
        /\ settle(counted, o) \in MillStates
    BY <2>2, <2>3, <2>4, SettleSound, SettleCoherent DEF Coherent
  <2>6. Keeps(cleared, settle(counted, o))
    BY <1>2, <2>1, <2>2, <2>5, KeepsTwice
  <2> QED BY <1>1, <1>2, <2>5, <2>6, KeepsTwice
<1>5. place_mill_counted(s, o) =
        settle(IF s.pieces_in_hand = Both(0) THEN counted ELSE passed, o)
  BY DEF place_mill_counted, cleared
<1> HIDE DEF counted, passed
<1> QED BY <1>3, <1>4, <1>5

LEMMA QuietPlaceSound ==
  ASSUME NEW s, Fresh(s), s.phase = "Placing", NEW o \in MillVariantOptions
  PROVE  LET t == place_quietly(s, o) IN Sound(t) /\ Keeps(s, t)
<1> DEFINE cleared == clear_capture_state(s)
           stopped == maybe_stop_placing_when_two_empty(cleared, o)
           passed == [stopped EXCEPT !.side_to_move = Opp(stopped.side_to_move)]
<1>1. /\ Fresh(cleared) /\ Keeps(s, cleared) /\ cleared.phase = "Placing"
  BY ClearFresh
<1> HIDE DEF cleared
<1>2. s \in MillStates /\ cleared \in MillStates
  BY <1>1 DEF Fresh, Live
<1>3. Fresh(stopped) /\ Keeps(cleared, stopped)
  <2>1. Both(0) \in [Sides -> Nat] /\ \A k \in Sides : Both(0)[k] <= cleared.pieces_in_hand[k]
    BY <1>2, BothAt, HandsAreNatural DEF Both
  <2>2. \/ stopped = cleared
        \/ stopped = [cleared EXCEPT !.pieces_in_hand = Both(0)]
    BY DEF maybe_stop_placing_when_two_empty
  <2> QED BY <1>1, <1>2, <2>1, <2>2, ShrinkFresh, KeepsItself
<1> HIDE DEF stopped
<1>4. Fresh(passed) /\ Keeps(stopped, passed)
  BY <1>3, PassFresh, OppIsSide DEF Fresh, Live
<1> HIDE DEF passed
<1>5. /\ stopped \in MillStates /\ passed \in MillStates
      /\ settle(stopped, o) \in MillStates /\ settle(passed, o) \in MillStates
  BY <1>3, <1>4, SettleCoherent DEF Fresh, Live, Coherent
<1>6. Keeps(s, stopped) /\ Keeps(s, passed)
  <2>1. Keeps(s, stopped)
    BY <1>1, <1>2, <1>3, <1>5, KeepsTwice
  <2> QED BY <1>2, <1>4, <1>5, <2>1, KeepsTwice
<1>7. /\ Sound(settle(stopped, o)) /\ Keeps(stopped, settle(stopped, o))
      /\ Sound(settle(passed, o)) /\ Keeps(passed, settle(passed, o))
  BY <1>3, <1>4, SettleFresh
<1>8. Keeps(s, settle(stopped, o)) /\ Keeps(s, settle(passed, o))
  BY <1>2, <1>5, <1>6, <1>7, KeepsTwice
<1>9. \/ place_quietly(s, o) = settle(stopped, o)
      \/ place_quietly(s, o) = settle(passed, o)
  BY DEF place_quietly, stopped, cleared, passed
<1> QED BY <1>7, <1>8, <1>9

(* Setting a piece down touches the board, the counts and the repetition   *)
(* keys only.                                                              *)
LEMMA PlacedFresh ==
  ASSUME NEW s, Fresh(s), s.phase = "Placing", NEW to \in Nodes
  PROVE  LET t == place_live_piece(s, to)
             c == s.side_to_move
         IN /\ Fresh(t) /\ t.phase = "Placing" /\ t.side_to_move = c
            /\ Alters(s, t, {"board", "pieces_in_hand", "pieces_on_board",
                             "ply_since_capture", "key_history"})
            /\ t.board = [s.board EXCEPT ![to] = c]
            /\ t.pieces_in_hand = [s.pieces_in_hand EXCEPT ![c] = IF @ > 0 THEN @ - 1 ELSE 0]
            /\ t.pieces_on_board = [s.pieces_on_board EXCEPT ![c] = @ + 1]
            /\ t.ply_since_capture = 0
<1> DEFINE t == place_live_piece(s, to)
           c == s.side_to_move
<1>1. s \in MillStates /\ Live(s) /\ Live(t)
  BY PlacedLive DEF Fresh, Live
<1>2. /\ Alters(s, t, {"board", "pieces_in_hand", "pieces_on_board",
                       "ply_since_capture", "key_history"})
      /\ t.board = [s.board EXCEPT ![to] = c]
      /\ t.pieces_in_hand = [s.pieces_in_hand EXCEPT ![c] = IF @ > 0 THEN @ - 1 ELSE 0]
      /\ t.pieces_on_board = [s.pieces_on_board EXCEPT ![c] = @ + 1]
      /\ t.ply_since_capture = 0
  BY <1>1, FieldsOfState DEF Alters, Fields, place_live_piece, clear_key_history
<1> HIDE DEF t
<1>3. /\ t.phase = "Placing" /\ t.side_to_move = c
      /\ t.pending_removals = s.pending_removals
      /\ t.remove_own_piece = s.remove_own_piece
      /\ t.mill_available_at_removal = s.mill_available_at_removal
      /\ t.stalemate_removing = s.stalemate_removing
      /\ t.both_stalemate_removing = s.both_stalemate_removing
      /\ t.board_full_removing = s.board_full_removing
      /\ \A k : Targets(t, k) = Targets(s, k)
  BY <1>2 DEF Alters, Fields, Targets
<1>4. Clean(t) /\ Swept(t)
  BY <1>3 DEF Fresh, Clean, Swept
<1> QED BY <1>1, <1>2, <1>3, <1>4 DEF Fresh, t

LEMMA NoteSound ==
  ASSUME NEW s, Coherent(s), Sound(s), NEW o, NEW c, NEW from, NEW to, NEW lines
  PROVE  LET t == note_mill_formation(s, o, c, from, to, lines)
         IN Sound(t) /\ Keeps(s, t)
<1>1. Alters(s, note_mill_formation(s, o, c, from, to, lines),
             {"last_mill_from", "last_mill_to", "formed_mills"})
  BY NoteEffect DEF Coherent
<1> QED BY <1>1, NotesAreSound, AltersMore, AltersKeeps DEF Notes, MaterialFields, Coherent

LEMMA DetectedTargets ==
  ASSUME NEW s, Fresh(s), NEW o \in MillVariantOptions
  PROVE  LET theirs == SUBSET piece_bitboard(s, Opp(s.side_to_move))
         IN /\ \A to : detect_custodian_targets(s, o, to) \in theirs
            /\ \A to : detect_intervention_targets(s, o, to) \in theirs
            /\ \A from, to : detect_leap_targets(s, o, from, to) \in theirs
BY DetectedAreTheirs DEF Fresh, Live

(* apply_place: after the piece is down the material is kept and the       *)
(* obligations end in order.                                               *)
LEMMA PlaceSound ==
  ASSUME NEW s, Fresh(s), s.phase = "Placing", NEW o \in MillVariantOptions,
         NEW to \in Nodes
  PROVE  LET t == apply_place(s, o, to)
         IN Sound(t) /\ Keeps(place_live_piece(s, to), t)
<1> DEFINE c == s.side_to_move
           placed == place_live_piece(s, to)
           custodian == detect_custodian_targets(placed, o, to)
           intervention == detect_intervention_targets(placed, o, to)
           lines == usable_mills(placed, o, formed_mills_at(placed, o, to, c))
           mill == IF o.mill_formation_action_in_placing_phase \in FromHandActions
                     THEN place_mill_from_hand(placed, o, lines)
                   ELSE IF o.mill_formation_action_in_placing_phase
                             = "RemovalBasedOnMillCounts"
                     THEN place_mill_counted(placed, o)
                   ELSE place_mill_on_board(placed, o, lines, custodian, intervention)
           noted == note_mill_formation(mill, o, c, NONE, to, lines)
<1>1. Fresh(placed) /\ placed.phase = "Placing" /\ placed.side_to_move = c
  BY PlacedFresh
<1> HIDE DEF placed
<1>2. /\ custodian \in SUBSET piece_bitboard(placed, Opp(c))
      /\ intervention \in SUBSET piece_bitboard(placed, Opp(c))
  BY <1>1, DetectedTargets
<1>3. lines \in SUBSET mill_lines(o)
  BY CountsAreNatural
<1> HIDE DEF custodian, intervention, lines
<1>4. Coherent(mill)
  <2>1. custodian \in SUBSET Nodes /\ intervention \in SUBSET Nodes
    BY <1>2 DEF piece_bitboard
  <2> QED BY <1>1, <1>3, <2>1, FromHandCoherent, CountedCoherent, OnBoardCoherent DEF Fresh
<1>5. lines # {} => Sound(mill) /\ Keeps(placed, mill)
  BY <1>1, <1>2, <1>3, FromHandSound, CountedSound, OnBoardSound DEF CountedAction
<1> HIDE DEF mill
<1>6. lines # {} => Sound(noted) /\ Keeps(placed, noted)
  <2> SUFFICES ASSUME lines # {} PROVE Sound(noted) /\ Keeps(placed, noted)
    OBVIOUS
  <2>1. Sound(noted) /\ Keeps(mill, noted)
    BY <1>4, <1>5, NoteSound
  <2>2. noted \in MillStates /\ mill \in MillStates /\ placed \in MillStates
    BY <1>1, <1>3, <1>4, LinesCounted, NoteTyped DEF Coherent, Fresh, Live
  <2> QED BY <1>5, <2>1, <2>2, KeepsTwice
<1>7. custodian \union intervention # {} =>
        /\ Sound(capture_only(placed, custodian, intervention))
        /\ Keeps(placed, capture_only(placed, custodian, intervention))
  BY <1>1, <1>2, CaptureOnlySound
<1>8. Sound(place_quietly(placed, o)) /\ Keeps(placed, place_quietly(placed, o))
  BY <1>1, QuietPlaceSound
<1>9. \/ lines # {} /\ apply_place(s, o, to) = noted
      \/ /\ custodian \union intervention # {}
         /\ apply_place(s, o, to) = capture_only(placed, custodian, intervention)
      \/ apply_place(s, o, to) = place_quietly(placed, o)
  BY DEF apply_place, placed, custodian, intervention, lines, mill
<1>10. LET t == apply_place(s, o, to) IN Sound(t) /\ Keeps(placed, t)
  <2> HIDE DEF noted
  <2> QED BY <1>6, <1>7, <1>8, <1>9
<1> QED BY <1>10 DEF placed

(* The fast path of placing.                                               *)
LEMMA FastPlacedSound ==
  ASSUME NEW s, Fresh(s), s.phase = "Placing", NEW o \in MillVariantOptions,
         NEW to \in Nodes
  PROVE  LET t == fast_placed(s, o, to)
         IN Sound(t) /\ Keeps(place_live_piece(s, to), t) /\ Coherent(t)
<1> DEFINE c == s.side_to_move
           placed == place_live_piece(s, to)
           lines == IF s.pieces_on_board[c] >= 2
                      THEN formed_mills_at(placed, o, to, c) ELSE {}
           owed == owe(placed, removal_count(lines, o))
           owing == [owed EXCEPT !.mill_available_at_removal = TRUE]
           milled == sync_action_state(owing)
           noted == note_mill_formation(milled, o, c, NONE, to, lines)
           passed == [placed EXCEPT !.side_to_move = Opp(c)]
<1>1. /\ Fresh(placed) /\ placed.side_to_move = c /\ c \in Sides
      /\ Opp(c) \in Sides \ {c} /\ Live(placed) /\ placed \in MillStates
  BY PlacedFresh, TwoSides DEF Fresh, Live
<1> HIDE DEF placed
<1>2. lines \in SUBSET mill_lines(o)
  BY CountsAreNatural
<1> HIDE DEF lines
<1>3. lines # {} => Sound(noted) /\ Keeps(placed, noted) /\ Coherent(noted)
  <2> SUFFICES ASSUME lines # {}
               PROVE  Sound(noted) /\ Keeps(placed, noted) /\ Coherent(noted)
    OBVIOUS
  <2>1. removal_count(lines, o) \in Nat \ {0}
    BY <1>2, EarnedIsPositive
  <2>2. /\ Live(owed) /\ Alters(placed, owed, {"pending_removals"})
        /\ owed.pending_removals[c] > 0
        /\ owed.pending_removals[Opp(c)] = placed.pending_removals[Opp(c)]
    BY <1>1, <2>1, OweLive, OweEffect
  <2> HIDE DEF owed
  <2>3. /\ Live(owing) /\ Alters(owed, owing, {"mill_available_at_removal"})
    BY <2>2, AvailableLive, AvailableEffect DEF Live
  <2> HIDE DEF owing
  <2>4. /\ Alters(placed, owing, TurnFields)
        /\ owing.pending_removals = owed.pending_removals
        /\ \A k : Targets(owing, k) = Targets(placed, k)
    BY <2>2, <2>3 DEF Alters, Fields, TurnFields, CaptureState, Targets
  <2>5. \A k \in Sides : placed.pending_removals[k] = 0 /\ Targets(placed, k) = {}
    BY <1>1 DEF Fresh, Clean
  <2>6. Sound(milled) /\ Keeps(placed, milled) /\ Coherent(milled)
    <3>1. Coherent(milled) /\ owing \in MillStates
      BY <2>3, LivePlayable DEF Live
    <3>2. Sound(milled) /\ Keeps(placed, milled)
      BY <1>1, <2>2, <2>4, <2>5, <3>1, SyncedOwing
    <3> QED BY <3>1, <3>2
  <2> HIDE DEF milled
  <2>7. Sound(noted) /\ Keeps(milled, noted)
    BY <2>6, NoteSound
  <2>8. Coherent(noted)
    BY <1>1, <1>2, <2>6, LinesCounted, NoteCoherent
  <2> QED BY <1>1, <2>6, <2>7, <2>8, KeepsTwice DEF Coherent
<1>4. /\ Sound(settle(passed, o)) /\ Keeps(placed, settle(passed, o))
      /\ Coherent(settle(passed, o))
  <2>1. Fresh(passed) /\ Keeps(placed, passed)
    BY <1>1, PassFresh
  <2> HIDE DEF passed
  <2>2. Sound(settle(passed, o)) /\ Keeps(passed, settle(passed, o)) /\ Coherent(settle(passed, o))
    BY <2>1, SettleFresh, SettleCoherent DEF Fresh
  <2> QED BY <1>1, <2>1, <2>2, KeepsTwice DEF Fresh, Live, Coherent
<1>5. \/ lines # {} /\ fast_placed(s, o, to) = noted
      \/ fast_placed(s, o, to) = settle(passed, o)
  BY DEF fast_placed, placed, lines
<1>6. LET t == fast_placed(s, o, to) IN Sound(t) /\ Keeps(placed, t) /\ Coherent(t)
  <2> HIDE DEF noted, passed
  <2> QED BY <1>3, <1>4, <1>5
<1> QED BY <1>6 DEF placed

-----------------------------------------------------------------------------
(* What moving a piece leads to *)

LEMMA MovedFresh ==
  ASSUME NEW s, Fresh(s), NEW o, NEW from \in Nodes, NEW to \in Nodes
  PROVE  LET t == bump_ply_since_capture(move_live_piece(s, from, to), o)
             c == s.side_to_move
         IN /\ Fresh(t) /\ t.phase = s.phase /\ t.side_to_move = c
            /\ Alters(s, t, {"board", "ply_since_capture"})
            /\ t.board = [s.board EXCEPT ![from] = NONE, ![to] = c]
            /\ t.ply_since_capture =
                 IF MoveCounting(s, o) THEN s.ply_since_capture + 1
                                       ELSE s.ply_since_capture
<1> DEFINE m == move_live_piece(s, from, to)
           t == bump_ply_since_capture(m, o)
           c == s.side_to_move
<1>1. s \in MillStates /\ Live(s) /\ Live(m)
  BY MovedLive DEF Fresh, Live
<1>2. /\ Alters(s, m, {"board"})
      /\ m.board = [s.board EXCEPT ![from] = NONE, ![to] = c]
  BY <1>1, FieldsOfState DEF Alters, Fields, move_live_piece
<1> HIDE DEF m
<1>3. Live(t)
  BY <1>1, BumpLive
<1>4. m.phase = s.phase /\ m.ply_since_capture = s.ply_since_capture
  BY <1>2 DEF Alters, Fields
<1>5. MoveCounting(m, o) <=> MoveCounting(s, o)
  BY <1>4 DEF MoveCounting
<1>6. /\ Alters(m, t, {"ply_since_capture"})
      /\ t.ply_since_capture = IF MoveCounting(s, o) THEN s.ply_since_capture + 1
                                                     ELSE s.ply_since_capture
  BY <1>2, <1>4, <1>5 DEF Alters, Fields, bump_ply_since_capture
<1> HIDE DEF t
<1>7. /\ Alters(s, t, {"board", "ply_since_capture"})
      /\ t.board = m.board
  BY <1>2, <1>6 DEF Alters, Fields
<1>8. /\ t.phase = s.phase /\ t.side_to_move = c
      /\ t.pieces_in_hand = s.pieces_in_hand /\ t.marked = s.marked
      /\ t.pending_removals = s.pending_removals
      /\ t.remove_own_piece = s.remove_own_piece
      /\ t.mill_available_at_removal = s.mill_available_at_removal
      /\ t.stalemate_removing = s.stalemate_removing
      /\ t.both_stalemate_removing = s.both_stalemate_removing
      /\ t.board_full_removing = s.board_full_removing
      /\ \A k : Targets(t, k) = Targets(s, k)
  BY <1>7 DEF Alters, Fields, Targets
<1>9. Clean(t) /\ Swept(t)
  BY <1>8 DEF Fresh, Clean, Swept
<1> QED BY <1>2, <1>3, <1>6, <1>7, <1>8, <1>9 DEF Fresh, t, m

LEMMA PushKeyEffect ==
  ASSUME NEW s \in MillStates, NEW o
  PROVE  Alters(s, push_key(s, o), {"key_history"})
BY FieldsOfState DEF Alters, Fields, push_key

(* push_key_and_check_threefold and maybe_draw_by_n_move_rule end the game *)
(* or only record the position; when the game goes on the n-move rule has  *)
(* not been reached.                                                       *)
LEMMA JudgedEffect ==
  ASSUME NEW s, Live(s), s.phase # "GameOver", NEW o \in MillVariantOptions
  PROVE  LET t == maybe_draw_by_n_move_rule(push_key_and_check_threefold(s, o), o)
         IN /\ Playable(t)
            /\ \/ /\ Alters(s, t, {"key_history"})
                  /\ ~(MoveCounting(s, o) /\ n_move_rule_reached(s, o))
               \/ /\ Alters(s, t, {"key_history", "phase", "winner", "outcome_reason",
                                   "side_to_move"})
                  /\ t.phase = "GameOver" /\ t.winner = DRAW
                  /\ \/ t.outcome_reason = "DrawThreefold"
                     \/ /\ MoveCounting(s, o) /\ n_move_rule_reached(s, o)
                        /\ t.outcome_reason \in {"DrawFiftyMove", "DrawEndgameFiftyMove"}
<1> DEFINE p == push_key(s, o)
           u == push_key_and_check_threefold(s, o)
           t == maybe_draw_by_n_move_rule(u, o)
           over == game_over(p, DRAW, "DrawThreefold")
           E == {"phase", "winner", "outcome_reason", "side_to_move"}
<1>1. s \in MillStates /\ Live(p) /\ p \in MillStates
  BY PushKeyLive DEF Live
<1>2. Alters(s, p, {"key_history"})
  BY <1>1, PushKeyEffect
<1>3. Playable(t)
  BY AdjudicatedPlayable
<1>4. u = p \/ u = over
  BY DEF push_key_and_check_threefold
<1> HIDE DEF p
<1>5. /\ Alters(p, over, E)
      /\ over.phase = "GameOver" /\ over.winner = DRAW
      /\ over.outcome_reason = "DrawThreefold"
  BY <1>1, GameOverEffect
<1>6. CASE u = over
  <2>1. ~MoveCounting(u, o)
    BY <1>5, <1>6 DEF MoveCounting
  <2>2. t = over
    BY <1>6, <2>1 DEF maybe_draw_by_n_move_rule
  <2> HIDE DEF t, over
  <2>3. Alters(s, t, {"key_history"} \union E)
    BY <1>2, <1>5, <2>2, AltersTwice
  <2>4. {"key_history"} \union E = {"key_history", "phase", "winner", "outcome_reason",
                                    "side_to_move"}
    OBVIOUS
  <2>5. Alters(s, t, {"key_history", "phase", "winner", "outcome_reason", "side_to_move"})
    BY <2>3, <2>4
  <2> QED BY <1>3, <1>5, <2>2, <2>5 DEF t
<1>7. CASE u = p
  <2>1. /\ p.phase = s.phase /\ p.ply_since_capture = s.ply_since_capture
        /\ p.pieces_on_board = s.pieces_on_board
    BY <1>2 DEF Alters, Fields
  <2>2. /\ MoveCounting(p, o) <=> MoveCounting(s, o)
        /\ n_move_rule_reached(p, o) <=> n_move_rule_reached(s, o)
    BY <2>1 DEF MoveCounting, n_move_rule_reached, draw_threshold, three_piece_endgame
  <2>3. CASE ~(MoveCounting(p, o) /\ n_move_rule_reached(p, o))
    <3>1. t = p
      BY <1>7, <2>3 DEF maybe_draw_by_n_move_rule
    <3> QED BY <1>2, <1>3, <2>2, <2>3, <3>1
  <2>4. CASE MoveCounting(p, o) /\ n_move_rule_reached(p, o)
    <3> DEFINE reason == IF three_piece_endgame(p, o)
                           THEN "DrawEndgameFiftyMove" ELSE "DrawFiftyMove"
    <3>1. t = game_over(p, DRAW, reason)
      BY <1>7, <2>4 DEF maybe_draw_by_n_move_rule
    <3>2. reason \in {"DrawFiftyMove", "DrawEndgameFiftyMove"}
      OBVIOUS
    <3> HIDE DEF t, reason
    <3>3. /\ Alters(p, t, E) /\ t.phase = "GameOver" /\ t.winner = DRAW
          /\ t.outcome_reason = reason
      BY <1>1, <3>1, GameOverEffect
    <3>4. Alters(s, t, {"key_history"} \union E)
      BY <1>2, <3>3, AltersTwice
    <3>5. {"key_history"} \union E = {"key_history", "phase", "winner", "outcome_reason",
                                      "side_to_move"}
      OBVIOUS
    <3>6. Alters(s, t, {"key_history", "phase", "winner", "outcome_reason", "side_to_move"})
      BY <3>4, <3>5
    <3> QED BY <1>3, <2>2, <2>4, <3>2, <3>3, <3>6 DEF t
  <2> QED BY <2>3, <2>4
<1> QED BY <1>4, <1>6, <1>7

(* move_quietly in play: the turn is handed on with its phase brought up   *)
(* to date, or the game ends; when it goes on the n-move rule has not been *)
(* reached.                                                                *)
LEMMA QuietMoveSound ==
  ASSUME NEW s, Fresh(s), NEW o \in MillVariantOptions,
         s.pieces_in_hand = Both(0) => s.phase = "Moving"
  PROVE  LET t == move_quietly(s, o, TRUE)
         IN /\ Sound(t) /\ Keeps(s, t)
            /\ t.phase = "GameOver" \/ ~(MoveCounting(s, o) /\ n_move_rule_reached(s, o))
<1> DEFINE c == s.side_to_move
           cleared == clear_capture_state(s)
           passed == [cleared EXCEPT !.last_mill_from[c] = NONE,
                        !.last_mill_to[c] = NONE, !.side_to_move = Opp(c)]
           judged == maybe_draw_by_n_move_rule(push_key_and_check_threefold(passed, o), o)
           phased == sync_phase_with_active_hand(judged)
           t == sync_action_state(phased)
           reached(x) == MoveCounting(x, o) /\ n_move_rule_reached(x, o)
<1>1. /\ Fresh(cleared) /\ Keeps(s, cleared) /\ cleared.phase = s.phase
      /\ cleared.side_to_move = c /\ cleared.pieces_in_hand = s.pieces_in_hand
  BY ClearFresh
<1>2. c \in Sides /\ Opp(c) \in Sides /\ s \in MillStates
  BY OppIsSide DEF Fresh, Live
<1> HIDE DEF cleared
<1>3. Live(passed) /\ Alters(cleared, passed, {"last_mill_from", "last_mill_to", "side_to_move"})
  <2>1. Live(passed)
    BY <1>1, <1>2, ForgetMillLive DEF Fresh
  <2>2. cleared \in MillStates
    BY <1>1 DEF Fresh, Live
  <2> QED BY <2>1, <2>2, FieldsOfState DEF Alters, Fields
<1> HIDE DEF passed
<1>4. /\ Fresh(passed) /\ passed.phase = s.phase
      /\ passed.pieces_in_hand = s.pieces_in_hand
  BY <1>1, <1>3 DEF Fresh, Clean, Swept, Targets, Alters, Fields
<1>5. cleared \in MillStates /\ passed \in MillStates
  BY <1>1, <1>3 DEF Fresh, Live
<1>6. Keeps(s, passed)
  BY <1>1, <1>2, <1>3, <1>5, AltersKeeps, KeepsTwice DEF MaterialFields
<1>7. reached(passed) <=> reached(s)
  <2>1. /\ passed.phase = s.phase /\ passed.ply_since_capture = s.ply_since_capture
        /\ passed.pieces_on_board = s.pieces_on_board
    BY <1>4, <1>6 DEF Keeps
  <2> QED BY <2>1 DEF MoveCounting, n_move_rule_reached, draw_threshold, three_piece_endgame
<1>8. /\ Playable(judged)
      /\ \/ /\ Alters(passed, judged, {"key_history"})
            /\ ~reached(passed)
         \/ /\ Alters(passed, judged, {"key_history", "phase", "winner", "outcome_reason",
                                       "side_to_move"})
            /\ judged.phase = "GameOver"
  BY <1>4, JudgedEffect DEF Fresh
<1> HIDE DEF judged, reached
<1>9. judged \in MillStates /\ phased \in MillStates /\ Keeps(passed, judged)
  BY <1>5, <1>8, AltersKeeps, SyncPhaseTyped DEF Playable, MaterialFields
<1>10. Sound(phased) /\ Keeps(judged, phased) /\ (judged.phase = "GameOver" => phased.phase = "GameOver")
  <2>1. CASE judged.phase = "GameOver"
    <3>1. phased = judged
      BY <2>1 DEF sync_phase_with_active_hand
    <3> QED BY <1>9, <2>1, <3>1, OverIsSound, KeepsItself
  <2>2. CASE judged.phase # "GameOver"
    <3>1. Alters(passed, judged, {"key_history"})
      BY <1>8, <2>2
    <3>2. Live(judged) /\ Clean(judged) /\ Swept(judged)
      BY <1>4, <1>8, <2>2, <3>1 DEF Fresh, Clean, Swept, Targets, Alters, Fields, Playable, Live
    <3>3. judged.phase = s.phase /\ judged.pieces_in_hand = s.pieces_in_hand
      BY <1>4, <3>1 DEF Alters, Fields
    <3>4. Sound(phased) /\ Keeps(judged, phased)
      BY <2>2, <3>2, <3>3, PassedSound
    <3> QED BY <2>2, <3>4
  <2> QED BY <2>1, <2>2
<1> HIDE DEF phased
<1>11. /\ Alters(phased, t, {"action"}) /\ t \in MillStates
  BY <1>9, SyncActionEffect, SyncActionTyped
<1> HIDE DEF t
<1>12. /\ Sound(t) /\ Keeps(phased, t) /\ t.phase = phased.phase
  <2>1. t.phase = phased.phase
    BY <1>11 DEF Alters, Fields
  <2>2. Sound(t)
    BY <1>10, <1>11, NotesAreSound, AltersMore DEF Notes
  <2> QED BY <1>9, <1>11, <2>1, <2>2, AltersKeeps DEF MaterialFields
<1>13. Keeps(s, judged)
  BY <1>2, <1>5, <1>6, <1>9, KeepsTwice
<1>14. Keeps(s, t)
  BY <1>2, <1>9, <1>10, <1>11, <1>12, <1>13, KeepsTwice
<1>15. t.phase = "GameOver" \/ ~reached(s)
  BY <1>7, <1>8, <1>10, <1>12
<1>16. move_quietly(s, o, TRUE) = t
  BY DEF move_quietly, t, phased, judged, passed, cleared
<1> QED BY <1>12, <1>14, <1>15, <1>16 DEF reached

(* A leap takes one of the pieces it jumped over.                          *)
LEMMA LeapSound ==
  ASSUME NEW s, Fresh(s),
         NEW leap \in SUBSET piece_bitboard(s, Opp(s.side_to_move))
  PROVE  LET t == sync_action_state([owe(activate_capture_state(s, {}, {}, leap), 1)
                                       EXCEPT !.mill_available_at_removal = FALSE])
         IN Sound(t) /\ Keeps(s, t) /\ Owes(t)
<1> DEFINE c == s.side_to_move
           active == activate_capture_state(s, {}, {}, leap)
           owing == owe(active, 1)
           t == [owing EXCEPT !.mill_available_at_removal = FALSE]
<1>1. Live(s) /\ Clean(s) /\ s \in MillStates /\ c \in Sides /\ Opp(c) \in Sides \ {c}
  BY TwoSides DEF Fresh, Live
<1>2. /\ Live(active) /\ active.side_to_move = c
      /\ Alters(s, active, {"pending_removals"} \union CaptureState)
      /\ active.pending_removals = s.pending_removals
      /\ Targets(active, c) = leap
      /\ Targets(active, Opp(c)) = {}
  <2>1. Alters(s, s, {"pending_removals", "mill_available_at_removal"})
    BY <1>1, FieldsOfState, AltersMore
  <2>2. {} \in SUBSET piece_bitboard(s, Opp(c))
    OBVIOUS
  <2> HIDE DEF active
  <2>3. LET u == active
        IN /\ Live(u) /\ u.side_to_move = c
           /\ Alters(s, u, {"pending_removals"} \union CaptureState)
           /\ u.pending_removals = s.pending_removals
           /\ Targets(u, c) = {} \union {} \union leap
           /\ Targets(u, Opp(c)) = {}
    BY <1>1, <2>1, <2>2, ActivatedTargets DEF active
  <2> QED BY <2>3
<1> HIDE DEF active
<1>3. /\ Live(owing) /\ Alters(active, owing, {"pending_removals"})
      /\ owing.pending_removals[c] > 0
      /\ owing.pending_removals[Opp(c)] = s.pending_removals[Opp(c)]
  BY <1>1, <1>2, OweLive, OweEffect DEF Live
<1> HIDE DEF owing
<1>4. Live(t) /\ Alters(owing, t, {"mill_available_at_removal"})
  BY <1>3, AvailableLive, AvailableEffect DEF Live
<1> HIDE DEF t
<1>5. /\ Alters(s, t, TurnFields)
      /\ t.pending_removals = owing.pending_removals
      /\ \A k : Targets(t, k) = Targets(active, k)
  BY <1>2, <1>3, <1>4 DEF Alters, Fields, TurnFields, CaptureState, Targets
<1>6. s.pending_removals[Opp(c)] = 0
  BY <1>1 DEF Clean
<1>7. LET u == sync_action_state(t) IN Sound(u) /\ Keeps(s, u) /\ Owes(u)
  BY <1>2, <1>3, <1>4, <1>5, <1>6, SyncedOwing DEF Live
<1> QED BY <1>7 DEF t, owing, active

(* A mill completed by a move.                                             *)
LEMMA MillMoveSound ==
  ASSUME NEW s, Fresh(s), NEW o \in MillVariantOptions, NEW c \in Sides,
         NEW from \in Nodes, NEW to \in Nodes,
         NEW lines \in SUBSET mill_lines(o), lines # {},
         NEW custodian \in SUBSET piece_bitboard(s, Opp(s.side_to_move)),
         NEW intervention \in SUBSET piece_bitboard(s, Opp(s.side_to_move))
  PROVE  LET t == sync_action_state(note_mill_formation(
                    activate_capture_state(
                      [owe(s, removal_count(lines, o))
                         EXCEPT !.mill_available_at_removal = TRUE],
                      custodian, intervention, {}), o, c, from, to, lines))
         IN Sound(t) /\ Keeps(s, t) /\ Owes(t)
<1> DEFINE d == s.side_to_move
           earned == removal_count(lines, o)
           owed == owe(s, earned)
           owing == [owed EXCEPT !.mill_available_at_removal = TRUE]
           active == activate_capture_state(owing, custodian, intervention, {})
           t == note_mill_formation(active, o, c, from, to, lines)
<1>1. /\ Live(s) /\ Clean(s) /\ s \in MillStates /\ d \in Sides
      /\ Opp(d) \in Sides \ {d} /\ s.pending_removals[Opp(d)] = 0
  BY TwoSides DEF Fresh, Live, Clean
<1>2. earned \in Nat \ {0}
  BY EarnedIsPositive
<1> HIDE DEF earned
<1>3. /\ Live(owed) /\ Alters(s, owed, {"pending_removals"})
      /\ owed.pending_removals[d] > 0 /\ owed.pending_removals[Opp(d)] = 0
  BY <1>1, <1>2, OweLive, OweEffect
<1> HIDE DEF owed
<1>4. Live(owing) /\ Alters(owed, owing, {"mill_available_at_removal"})
  BY <1>3, AvailableLive, AvailableEffect DEF Live
<1> HIDE DEF owing
<1>5. /\ Alters(s, owing, {"pending_removals", "mill_available_at_removal"})
      /\ owing.pending_removals = owed.pending_removals /\ owing \in MillStates
  BY <1>3, <1>4 DEF Alters, Fields, Live
<1>6. /\ Live(active) /\ active.side_to_move = d
      /\ Alters(s, active, {"pending_removals"} \union CaptureState)
      /\ active.pending_removals = owing.pending_removals
      /\ Targets(active, d) = custodian \union intervention
      /\ Targets(active, Opp(d)) = {}
  <2>1. {} \in SUBSET piece_bitboard(s, Opp(d))
    OBVIOUS
  <2> HIDE DEF active
  <2>2. LET u == active
        IN /\ Live(u) /\ u.side_to_move = d
           /\ Alters(s, u, {"pending_removals"} \union CaptureState)
           /\ u.pending_removals = owing.pending_removals
           /\ Targets(u, d) = custodian \union intervention \union {}
           /\ Targets(u, Opp(d)) = {}
    BY <1>1, <1>5, <2>1, ActivatedTargets DEF active
  <2> QED BY <2>2
<1> HIDE DEF active
<1>7. /\ Alters(active, t, {"last_mill_from", "last_mill_to", "formed_mills"})
      /\ t \in MillStates
  BY <1>6, LinesCounted, NoteEffect, NoteTyped DEF Live
<1> HIDE DEF t
<1>8. /\ Alters(s, t, TurnFields) /\ t.pending_removals = owed.pending_removals
      /\ \A k : Targets(t, k) = Targets(active, k)
  BY <1>5, <1>6, <1>7 DEF Alters, Fields, TurnFields, CaptureState, Notes, Targets
<1>9. LET u == sync_action_state(t) IN Sound(u) /\ Keeps(s, u) /\ Owes(u)
  BY <1>3, <1>6, <1>7, <1>8, SyncedOwing
<1> QED BY <1>9 DEF t, active, owing, owed, earned

(* apply_move, in play.                                                    *)
LEMMA MoveSound ==
  ASSUME NEW s, Fresh(s), NEW o \in MillVariantOptions,
         NEW from \in Nodes, NEW to \in Nodes,
         s.pieces_in_hand = Both(0) => s.phase = "Moving"
  PROVE  LET t == apply_move(s, o, from, to, TRUE)
             moved == bump_ply_since_capture(move_live_piece(s, from, to), o)
         IN /\ Sound(t) /\ Keeps(moved, t)
            /\ \/ t.phase = "GameOver" \/ Owes(t)
               \/ ~(MoveCounting(moved, o) /\ n_move_rule_reached(moved, o))
<1> DEFINE c == s.side_to_move
           moved == bump_ply_since_capture(move_live_piece(s, from, to), o)
           custodian == IF o.custodian_capture.in_moving_phase
                          THEN detect_custodian_targets(moved, o, to) ELSE {}
           intervention == IF o.intervention_capture.in_moving_phase
                             THEN detect_intervention_targets(moved, o, to) ELSE {}
           leap == IF o.leap_capture.in_moving_phase
                     THEN detect_leap_targets(moved, o, from, to) ELSE {}
           lines == usable_mills(moved, o, formed_mills_at(moved, o, to, c))
           leapt == sync_action_state([owe(activate_capture_state(moved, {}, {}, leap), 1)
                       EXCEPT !.mill_available_at_removal = FALSE])
           milled == sync_action_state(note_mill_formation(
                       activate_capture_state(
                         [owe(moved, removal_count(lines, o))
                            EXCEPT !.mill_available_at_removal = TRUE],
                         custodian, intervention, {}), o, c, from, to, lines))
           captured == capture_only(moved, custodian, intervention)
           quiet == move_quietly(moved, o, TRUE)
           Fine(t) == /\ Sound(t) /\ Keeps(moved, t)
                      /\ \/ t.phase = "GameOver" \/ Owes(t)
                         \/ ~(MoveCounting(moved, o) /\ n_move_rule_reached(moved, o))
<1>1. /\ Fresh(moved) /\ moved.side_to_move = c /\ c \in Sides
      /\ moved.pieces_in_hand = Both(0) => moved.phase = "Moving"
  <2>1. Fresh(moved) /\ Alters(s, moved, {"board", "ply_since_capture"})
    BY MovedFresh
  <2> HIDE DEF moved
  <2>2. /\ moved.pieces_in_hand = s.pieces_in_hand /\ moved.phase = s.phase
        /\ moved.side_to_move = c
    BY <2>1 DEF Alters, Fields
  <2> QED BY <2>1, <2>2 DEF Fresh, Live
<1> HIDE DEF moved
<1>2. /\ custodian \in SUBSET piece_bitboard(moved, Opp(c))
      /\ intervention \in SUBSET piece_bitboard(moved, Opp(c))
      /\ leap \in SUBSET piece_bitboard(moved, Opp(c))
  BY <1>1, DetectedTargets
<1>3. lines \in SUBSET mill_lines(o)
  BY CountsAreNatural
<1> HIDE DEF custodian, intervention, leap, lines
<1>4. Fine(leapt)
  BY <1>1, <1>2, LeapSound
<1>5. lines # {} => Fine(milled)
  BY <1>1, <1>2, <1>3, MillMoveSound
<1>6. custodian \union intervention # {} => Fine(captured)
  BY <1>1, <1>2, CaptureOnlySound
<1>7. Fine(quiet)
  BY <1>1, QuietMoveSound
<1>8. \/ apply_move(s, o, from, to, TRUE) = leapt
      \/ lines # {} /\ apply_move(s, o, from, to, TRUE) = milled
      \/ custodian \union intervention # {} /\ apply_move(s, o, from, to, TRUE) = captured
      \/ apply_move(s, o, from, to, TRUE) = quiet
  BY DEF apply_move, moved, custodian, intervention, leap, lines
<1> HIDE DEF leapt, milled, captured, quiet, Fine
<1>9. Fine(apply_move(s, o, from, to, TRUE))
  BY <1>4, <1>5, <1>6, <1>7, <1>8
<1> QED BY <1>9 DEF Fine, moved

-----------------------------------------------------------------------------
(* What removing a piece leads to *)

(* The partner of an intervention target is another of the targets: the    *)
(* two ends of a capture line differ.                                      *)
LEMMA PairedIsOther ==
  ASSUME NEW targets \in SUBSET Nodes, NEW n, NEW o
  PROVE  find_paired_intervention_target(n, targets, o) \in SUBSET (targets \ {n})
<1> DEFINE lines == active_capture_lines(o.intervention_capture, o)
           Far(l) == IF n = l[1] THEN l[3] ELSE l[1]
           paired == {i \in DOMAIN lines : /\ n \in {lines[i][1], lines[i][3]}
                                           /\ Far(lines[i]) \in targets}
<1>1. lines \in Seq(CaptureTriples)
  <2>1. \A A, B \in Seq(CaptureTriples) : A \o B \in Seq(CaptureTriples)
    OBVIOUS
  <2>2. << >> \in Seq(CaptureTriples)
    OBVIOUS
  <2>3. \A f \in BOOLEAN : \A A \in Seq(CaptureTriples) :
          (IF f THEN A ELSE << >>) \in Seq(CaptureTriples)
    BY <2>2
  <2> DEFINE A == IF o.intervention_capture.on_cross_lines THEN CrossLines ELSE << >>
             B == IF o.intervention_capture.on_square_edges THEN EdgeLines ELSE << >>
             C == IF o.intervention_capture.on_diagonal_lines /\ o.has_diagonal_lines
                    THEN DiagonalLines ELSE << >>
  <2>4. A \in Seq(CaptureTriples) /\ B \in Seq(CaptureTriples) /\ C \in Seq(CaptureTriples)
    BY <2>2, BoardAssumption
  <2>5. lines = A \o B \o C
    BY DEF active_capture_lines
  <2> HIDE DEF A, B, C
  <2> QED BY <2>1, <2>4, <2>5
<1> HIDE DEF lines
<1>2. \A i \in DOMAIN lines : lines[i] \in CaptureTriples
  BY <1>1
<1>3. \A i \in paired : Far(lines[i]) \in targets \ {n}
  BY <1>2 DEF CaptureTriples
<1>4. find_paired_intervention_target(n, targets, o) =
        IF paired = {} THEN targets \ {n} ELSE {Far(lines[i]) : i \in FirstOf(paired)}
  BY DEF find_paired_intervention_target, lines
<1>5. FirstOf(paired) \in SUBSET paired
  BY DEF FirstOf
<1> HIDE DEF paired, Far
<1> QED BY <1>3, <1>4, <1>5

(* The obligation chosen is one the side had, and there is something of it *)
(* to remove.                                                              *)
LEMMA ObligationEffect ==
  ASSUME NEW s, Live(s), Owes(s), NEW o, NEW n
  PROVE  LET t == choose_obligation(s, o, n)
             c == s.side_to_move
             d == Opp(c)
         IN /\ Alters(s, t, CaptureState \union {"pending_removals"})
            /\ t \in MillStates /\ t.side_to_move = c
            /\ t.pending_removals[c] > 0
            /\ t.pending_removals[d] = s.pending_removals[d]
            /\ Targets(t, c) \subseteq Targets(s, c)
            /\ Targets(t, d) = Targets(s, d)
<1> DEFINE c == s.side_to_move
           d == Opp(c)
           total == capture_total(s)
           none == [s EXCEPT !.mill_available_at_removal = FALSE,
                      !.custodian_targets[c] = {}, !.intervention_targets[c] = {},
                      !.leap_targets[c] = {}]
           left == IF o.may_remove_multiple /\ s.pending_removals[c] > total
                     THEN s.pending_removals[c] - total ELSE s.pending_removals[c]
           t == choose_obligation(s, o, n)
           Fine(u) == /\ Alters(s, u, CaptureState \union {"pending_removals"})
                      /\ u.pending_removals[c] > 0
                      /\ u.pending_removals[d] = s.pending_removals[d]
                      /\ Targets(u, c) \subseteq Targets(s, c)
                      /\ Targets(u, d) = Targets(s, d)
<1>1. /\ s \in MillStates /\ c \in Sides /\ d \in Sides /\ d # c
      /\ s.custodian_targets \in [Sides -> SUBSET Nodes]
      /\ s.intervention_targets \in [Sides -> SUBSET Nodes]
      /\ s.leap_targets \in [Sides -> SUBSET Nodes]
      /\ s.pending_removals \in [Sides -> Nat]
  BY TwoSides DEF Live, MillStates
<1>2. SameTurn(s, t)
  BY ObligationSameTurn
<1>3. total \in Nat /\ left \in Nat \ {0}
  <2>1. total \in Nat /\ s.pending_removals[c] \in Nat \ {0}
    BY <1>1, CaptureTotalTyped DEF Owes
  <2> HIDE DEF total
  <2> QED BY <2>1
<1>4. n \in s.intervention_targets[c] =>
        Cardinality(s.intervention_targets[c]) \in Nat \ {0}
  <2>1. s.intervention_targets[c] \in SUBSET Nodes
    BY <1>1
  <2>2. /\ IsFiniteSet(s.intervention_targets[c])
        /\ Cardinality(s.intervention_targets[c]) \in Nat
    BY <2>1, PointsCounted
  <2> QED BY <2>2, FS_EmptySet
<1> HIDE DEF total, left
<1>5. /\ Alters(s, none, CaptureState)
      /\ none.custodian_targets = [s.custodian_targets EXCEPT ![c] = {}]
      /\ none.intervention_targets = [s.intervention_targets EXCEPT ![c] = {}]
      /\ none.leap_targets = [s.leap_targets EXCEPT ![c] = {}]
  BY <1>1, FieldsOfState DEF Alters, Fields, CaptureState
<1> HIDE DEF none
<1>6. ASSUME NEW k \in Nat \ {0}
      PROVE  LET u == owe(none, k)
             IN /\ Alters(s, u, CaptureState \union {"pending_removals"})
                /\ u.custodian_targets = [s.custodian_targets EXCEPT ![c] = {}]
                /\ u.intervention_targets = [s.intervention_targets EXCEPT ![c] = {}]
                /\ u.leap_targets = [s.leap_targets EXCEPT ![c] = {}]
                /\ u.pending_removals[c] > 0
                /\ u.pending_removals[d] = s.pending_removals[d]
  <2>1. none.side_to_move = c /\ none.pending_removals = s.pending_removals
    BY <1>5 DEF Alters, Fields, CaptureState
  <2>2. Alters(none, owe(none, k), {"pending_removals"})
        /\ owe(none, k).pending_removals = [s.pending_removals EXCEPT ![c] = k]
    BY <1>5, <2>1 DEF Alters, Fields, owe
  <2> DEFINE u == owe(none, k)
  <2> HIDE DEF u
  <2>3. u.pending_removals[c] > 0 /\ u.pending_removals[d] = s.pending_removals[d]
    BY <1>1, <2>2 DEF u
  <2>4. /\ Alters(s, u, CaptureState \union {"pending_removals"})
        /\ u.custodian_targets = none.custodian_targets
        /\ u.intervention_targets = none.intervention_targets
        /\ u.leap_targets = none.leap_targets
    BY <1>5, <2>2 DEF Alters, Fields, CaptureState, u
  <2> QED BY <1>5, <2>3, <2>4 DEF u
<1> DEFINE A == [owe(none, Cardinality(s.intervention_targets[c]))
                   EXCEPT !.intervention_targets[c] = s.intervention_targets[c]]
           B == [owe(none, 1) EXCEPT !.custodian_targets[c] = s.custodian_targets[c]]
           C == [owe(none, 1) EXCEPT !.leap_targets[c] = s.leap_targets[c]]
           D == [owe(none, left) EXCEPT !.mill_available_at_removal = TRUE]
<1>7. ASSUME NEW u,
             Alters(s, u, CaptureState \union {"pending_removals"}),
             u.custodian_targets = [s.custodian_targets EXCEPT ![c] = {}],
             u.intervention_targets = [s.intervention_targets EXCEPT ![c] = {}],
             u.leap_targets = [s.leap_targets EXCEPT ![c] = {}],
             u.pending_removals[c] > 0,
             u.pending_removals[d] = s.pending_removals[d]
      PROVE  /\ Fine([u EXCEPT !.intervention_targets[c] = s.intervention_targets[c]])
             /\ Fine([u EXCEPT !.custodian_targets[c] = s.custodian_targets[c]])
             /\ Fine([u EXCEPT !.leap_targets[c] = s.leap_targets[c]])
             /\ Fine([u EXCEPT !.mill_available_at_removal = TRUE])
  <2> DEFINE i == [u EXCEPT !.intervention_targets[c] = s.intervention_targets[c]]
             b == [u EXCEPT !.custodian_targets[c] = s.custodian_targets[c]]
             l == [u EXCEPT !.leap_targets[c] = s.leap_targets[c]]
             m == [u EXCEPT !.mill_available_at_removal = TRUE]
  <2>1. /\ Alters(u, i, {"intervention_targets"})
        /\ i.intervention_targets = [u.intervention_targets EXCEPT ![c] = s.intervention_targets[c]]
    BY <1>7 DEF Alters, Fields
  <2>2. /\ Alters(u, b, {"custodian_targets"})
        /\ b.custodian_targets = [u.custodian_targets EXCEPT ![c] = s.custodian_targets[c]]
    BY <1>7 DEF Alters, Fields
  <2>3. /\ Alters(u, l, {"leap_targets"})
        /\ l.leap_targets = [u.leap_targets EXCEPT ![c] = s.leap_targets[c]]
    BY <1>7 DEF Alters, Fields
  <2>4. Alters(u, m, {"mill_available_at_removal"})
    BY <1>7 DEF Alters, Fields
  <2> HIDE DEF i, b, l, m
  <2>5. Fine(i)
    BY <1>1, <1>7, <2>1 DEF Alters, Fields, CaptureState, Targets
  <2>6. Fine(b)
    BY <1>1, <1>7, <2>2 DEF Alters, Fields, CaptureState, Targets
  <2>7. Fine(l)
    BY <1>1, <1>7, <2>3 DEF Alters, Fields, CaptureState, Targets
  <2>8. Fine(m)
    BY <1>1, <1>7, <2>4 DEF Alters, Fields, CaptureState, Targets
  <2> QED BY <2>5, <2>6, <2>7, <2>8 DEF i, b, l, m
<1>8. Fine(s)
  BY <1>1, FieldsOfState DEF Alters, Owes
<1>9. \/ n \in s.intervention_targets[c] /\ t = A
      \/ t = B \/ t = C \/ t = D \/ t = s
  BY DEF choose_obligation, none, total, left
<1>10. \A k \in Nat \ {0} :
         /\ Fine([owe(none, k) EXCEPT !.intervention_targets[c] = s.intervention_targets[c]])
         /\ Fine([owe(none, k) EXCEPT !.custodian_targets[c] = s.custodian_targets[c]])
         /\ Fine([owe(none, k) EXCEPT !.leap_targets[c] = s.leap_targets[c]])
         /\ Fine([owe(none, k) EXCEPT !.mill_available_at_removal = TRUE])
  <2> HIDE DEF Fine, c, d
  <2> QED BY <1>6, <1>7
<1>11. /\ n \in s.intervention_targets[c] => Fine(A)
       /\ Fine(B) /\ Fine(C) /\ Fine(D)
  <2>1. 1 \in Nat \ {0}
    OBVIOUS
  <2> HIDE DEF Fine, c, d
  <2> QED BY Zenon, <1>3, <1>4, <1>10, <2>1
<1> HIDE DEF A, B, C, D, t
<1>12. Fine(t)
  <2> HIDE DEF Fine, c, d
  <2> QED BY <1>8, <1>9, <1>11
<1> QED BY <1>2, <1>12 DEF SameTurn, t

(* What the removal of n from `target` does to the material.               *)
Taken(s, t, n, target) ==
  /\ \A k \in Sides : piece_bitboard(t, k) = piece_bitboard(s, k) \ {n}
  /\ t.pieces_on_board[target] = s.pieces_on_board[target] - 1
  /\ \A k \in Sides \ {target} : t.pieces_on_board[k] = s.pieces_on_board[k]
  /\ t.pieces_in_hand = s.pieces_in_hand
  /\ t.ply_since_capture = 0
  /\ (\A m \in s.marked : s.board[m] # NONE) => (\A m \in t.marked : t.board[m] # NONE)

LEMMA TakeEffect ==
  ASSUME NEW s, Live(s), NEW o, NEW n \in Nodes, NEW target \in Sides,
         n \in piece_bitboard(s, target), s.pieces_on_board[target] > 0, Owes(s)
  PROVE  LET t == take_piece(s, o, n, target)
             c == s.side_to_move
         IN /\ t \in MillStates /\ t.side_to_move = c /\ t.phase = s.phase
            /\ Alters(s, t, {"board", "marked", "pieces_on_board", "pending_removals",
                             "ply_since_capture", "key_history"})
            /\ t.pending_removals = [s.pending_removals EXCEPT ![c] = @ - 1]
            /\ s.phase = "Moving" => t.marked = s.marked
            /\ Taken(s, t, n, target)
<1> DEFINE c == s.side_to_move
           Less(k) == IF k > 0 THEN k - 1 ELSE 0
           marking == marks_removal(s, o)
           taken == IF marking THEN [s EXCEPT !.marked = @ \union {n}]
                    ELSE [s EXCEPT !.board[n] = NONE]
           t == take_piece(s, o, n, target)
<1>1. /\ s \in MillStates /\ c \in Sides
      /\ s.pending_removals \in [Sides -> Nat] /\ s.pieces_on_board \in [Sides -> Int]
      /\ s.board \in [Nodes -> Sides \union {NONE}] /\ s.marked \in SUBSET Nodes
  BY DEF Live, MillStates
<1>2. /\ t \in MillStates /\ t.side_to_move = c /\ t.phase = s.phase
  BY TakeSameTurn DEF SameTurn
<1>3. /\ s.board[n] = target /\ n \notin s.marked /\ target # NONE
  BY <1>1 DEF piece_bitboard, live_piece, Sides, NONE
<1>4. /\ Alters(s, taken, {"board", "marked"})
      /\ taken.board = IF marking THEN s.board ELSE [s.board EXCEPT ![n] = NONE]
      /\ taken.marked = IF marking THEN s.marked \union {n} ELSE s.marked
  BY <1>1, FieldsOfState DEF Alters, Fields
<1>5. t = clear_key_history(
            [taken EXCEPT !.pieces_on_board[target] = Less(@),
                          !.pending_removals[c] = Less(@), !.ply_since_capture = 0])
  BY DEF take_piece
<1>6. marking => s.phase # "Moving"
  BY DEF marks_removal
<1> HIDE DEF taken, marking
<1>7. /\ taken.pieces_on_board = s.pieces_on_board
      /\ taken.pending_removals = s.pending_removals
  BY <1>4 DEF Alters, Fields
<1>8. /\ Alters(taken, t, {"pieces_on_board", "pending_removals", "ply_since_capture",
                           "key_history"})
      /\ t.pieces_on_board = [taken.pieces_on_board EXCEPT ![target] = Less(@)]
      /\ t.pending_removals = [taken.pending_removals EXCEPT ![c] = Less(@)]
      /\ t.ply_since_capture = 0
  BY <1>4, <1>5 DEF Alters, Fields, clear_key_history
<1> HIDE DEF t
<1>9. t.pending_removals = [s.pending_removals EXCEPT ![c] = @ - 1]
  BY <1>1, <1>7, <1>8 DEF Owes
<1>10. /\ t.pieces_on_board[target] = s.pieces_on_board[target] - 1
       /\ \A k \in Sides \ {target} : t.pieces_on_board[k] = s.pieces_on_board[k]
  BY <1>1, <1>7, <1>8
<1>11. /\ t.board = taken.board /\ t.marked = taken.marked
       /\ t.pieces_in_hand = s.pieces_in_hand
       /\ Alters(s, t, {"board", "marked", "pieces_on_board", "pending_removals",
                        "ply_since_capture", "key_history"})
  BY <1>4, <1>8 DEF Alters, Fields
<1>12. \A k \in Sides : piece_bitboard(t, k) = piece_bitboard(s, k) \ {n}
  <2>1. \A m \in Nodes : live_piece(t, m) = IF m = n THEN NONE ELSE live_piece(s, m)
    BY <1>1, <1>4, <1>11 DEF live_piece
  <2>2. \A k \in Sides : k # NONE
    BY DEF Sides, NONE
  <2> QED BY <2>1, <2>2 DEF piece_bitboard
<1>13. (\A m \in s.marked : s.board[m] # NONE) => (\A m \in t.marked : t.board[m] # NONE)
  BY <1>1, <1>3, <1>4, <1>11
<1>14. s.phase = "Moving" => t.marked = s.marked
  BY <1>4, <1>6, <1>11
<1>15. Taken(s, t, n, target)
  BY <1>8, <1>10, <1>11, <1>12, <1>13 DEF Taken
<1> QED BY <1>2, <1>9, <1>11, <1>14, <1>15 DEF t

LEMMA ConsumeEffect ==
  ASSUME NEW s, Live(s), NEW o, NEW n \in Nodes
  PROVE  LET t == consume_target(s, o, n)
             c == s.side_to_move
             d == Opp(c)
         IN /\ t \in MillStates /\ t.side_to_move = c
            /\ Alters(s, t, CaptureState \ {"mill_available_at_removal"})
            /\ Targets(t, c) \subseteq Targets(s, c) \ {n}
            /\ Targets(t, d) = Targets(s, d)
<1> DEFINE c == s.side_to_move
           d == Opp(c)
           t == consume_target(s, o, n)
           pair == s.intervention_targets[c]
           custodian == IF n \in s.custodian_targets[c] THEN {} ELSE s.custodian_targets[c]
           leap == s.leap_targets[c] \ {n}
           intervention == IF n \notin pair THEN pair
                           ELSE IF pair = {n} THEN {}
                           ELSE find_paired_intervention_target(n, pair, o)
<1>1. /\ s \in MillStates /\ c \in Sides /\ d \in Sides /\ d # c
      /\ s.custodian_targets \in [Sides -> SUBSET Nodes]
      /\ s.intervention_targets \in [Sides -> SUBSET Nodes]
      /\ s.leap_targets \in [Sides -> SUBSET Nodes]
  BY TwoSides DEF Live, MillStates
<1>2. t \in MillStates /\ t.side_to_move = c
  BY ConsumeSameTurn DEF SameTurn
<1>3. intervention \subseteq pair \ {n}
  <2>1. pair \in SUBSET Nodes
    BY <1>1
  <2> HIDE DEF pair
  <2> QED BY <2>1, PairedIsOther
<1>4. custodian \subseteq s.custodian_targets[c] \ {n}
  OBVIOUS
<1>5. t = [s EXCEPT !.custodian_targets[c] = custodian, !.leap_targets[c] = leap,
                    !.intervention_targets[c] = intervention]
  BY DEF consume_target
<1> HIDE DEF custodian, intervention
<1>6. /\ Alters(s, t, CaptureState \ {"mill_available_at_removal"})
      /\ t.custodian_targets = [s.custodian_targets EXCEPT ![c] = custodian]
      /\ t.intervention_targets = [s.intervention_targets EXCEPT ![c] = intervention]
      /\ t.leap_targets = [s.leap_targets EXCEPT ![c] = leap]
  BY <1>1, <1>5, FieldsOfState DEF Alters, Fields, CaptureState
<1> HIDE DEF t
<1>7. Targets(t, c) \subseteq Targets(s, c) \ {n}
  BY <1>1, <1>3, <1>4, <1>6 DEF Targets
<1>8. Targets(t, d) = Targets(s, d)
  BY <1>1, <1>6 DEF Targets
<1> QED BY <1>2, <1>6, <1>7, <1>8 DEF t

(* finish_removal: the turn passes on, or stays after a stalemate removal, *)
(* and what the other side still owes is carried over.                     *)
LEMMA FinishSound ==
  ASSUME NEW s, Live(s), s.phase # "GameOver",
         NEW o \in MillVariantOptions, NEW own \in BOOLEAN,
         s.pending_removals[s.side_to_move] = 0,
         Targets(s, Opp(s.side_to_move)) = {},
         s.pending_removals[Opp(s.side_to_move)] > 0 => s.phase = "Moving",
         s.stalemate_removing => s.pending_removals[Opp(s.side_to_move)] = 0,
         s.remove_own_piece[Opp(s.side_to_move)] =>
           s.pending_removals[Opp(s.side_to_move)] > 0,
         own <=> s.remove_own_piece[s.side_to_move],
         Swept(s)
  PROVE  LET t == finish_removal(s, o, own) IN Sound(t) /\ Keeps(s, t)
<1> DEFINE c == s.side_to_move
           d == Opp(c)
           paid == clear_capture_state_for_side(s, c)
           flags == [s.remove_own_piece EXCEPT ![c] = FALSE]
           left == s.pending_removals # Both(0)
           t == [paid EXCEPT
                   !.remove_own_piece[c] = IF own THEN FALSE ELSE @,
                   !.stalemate_removing = FALSE,
                   !.side_to_move = IF s.stalemate_removing THEN @ ELSE Opp(@),
                   !.both_stalemate_removing = @ /\ s.pending_removals # Both(0),
                   !.board_full_removing = @ /\ s.pending_removals # Both(0)]
<1>1. /\ s \in MillStates /\ c \in Sides /\ d \in Sides \ {c} /\ Sides = {c, d}
      /\ s.custodian_targets \in [Sides -> SUBSET Nodes]
      /\ s.intervention_targets \in [Sides -> SUBSET Nodes]
      /\ s.leap_targets \in [Sides -> SUBSET Nodes]
      /\ s.remove_own_piece \in [Sides -> BOOLEAN]
      /\ s.pending_removals \in [Sides -> Nat]
      /\ s.stalemate_removing \in BOOLEAN /\ s.both_stalemate_removing \in BOOLEAN
      /\ s.board_full_removing \in BOOLEAN
  BY TwoSides DEF Live, MillStates
<1>2. /\ Alters(s, paid, CaptureState) /\ ~paid.mill_available_at_removal
      /\ \A k \in Sides : Targets(paid, k) = {}
  <2>1. /\ Alters(s, paid, CaptureState) /\ ~paid.mill_available_at_removal
        /\ paid.custodian_targets = [s.custodian_targets EXCEPT ![c] = {}]
        /\ paid.intervention_targets = [s.intervention_targets EXCEPT ![c] = {}]
        /\ paid.leap_targets = [s.leap_targets EXCEPT ![c] = {}]
    BY <1>1, FieldsOfState DEF Alters, Fields, CaptureState, clear_capture_state_for_side
  <2> HIDE DEF paid
  <2> QED BY <1>1, <2>1 DEF Targets
<1> HIDE DEF paid
<1>3. /\ paid.side_to_move = c /\ paid.remove_own_piece = s.remove_own_piece
      /\ paid.both_stalemate_removing = s.both_stalemate_removing
      /\ paid.board_full_removing = s.board_full_removing
  BY <1>2 DEF Alters, Fields, CaptureState
<1>4. /\ Alters(paid, t, {"remove_own_piece", "stalemate_removing", "side_to_move",
                          "both_stalemate_removing", "board_full_removing"})
      /\ t.remove_own_piece = flags
      /\ ~t.stalemate_removing
      /\ t.side_to_move = IF s.stalemate_removing THEN c ELSE d
      /\ t.both_stalemate_removing = (s.both_stalemate_removing /\ left)
      /\ t.board_full_removing = (s.board_full_removing /\ left)
  <2>1. (IF own THEN FALSE ELSE s.remove_own_piece[c]) = FALSE
    BY <1>1
  <2> QED BY <1>2, <1>3, <2>1 DEF Alters, Fields
<1> HIDE DEF t
<1>5. /\ t.pending_removals = s.pending_removals /\ t.phase = s.phase
      /\ t.pieces_in_hand = s.pieces_in_hand /\ t.marked = s.marked
      /\ ~t.mill_available_at_removal
      /\ \A k \in Sides : Targets(t, k) = {}
      /\ Alters(s, t, CaptureState \union
                  {"remove_own_piece", "stalemate_removing", "side_to_move",
                   "both_stalemate_removing", "board_full_removing"})
  BY <1>2, <1>4 DEF Alters, Fields, CaptureState, Targets
<1>6. Keeps(s, t)
  BY <1>1, <1>5, AltersKeeps DEF MaterialFields, CaptureState
<1>7. Live(t)
  <2>1. paid \in MillStates
    BY <1>1, ClearSideTyped DEF paid
  <2>2. flags \in [Sides -> BOOLEAN]
    BY <1>1
  <2> DEFINE both == s.both_stalemate_removing /\ left
             full == s.board_full_removing /\ left
             side == IF s.stalemate_removing THEN c ELSE d
  <2>3. /\ both \in BOOLEAN /\ full \in BOOLEAN /\ side \in Sides
    BY <1>1
  <2>4. t = [paid EXCEPT !.remove_own_piece = flags, !.stalemate_removing = FALSE,
                         !.side_to_move = side, !.both_stalemate_removing = both,
                         !.board_full_removing = full]
    <3>1. (IF own THEN FALSE ELSE s.remove_own_piece[c]) = FALSE
      BY <1>1
    <3> QED BY <1>3, <3>1 DEF t
  <2> HIDE DEF both, full, side, flags
  <2>5. t \in MillStates /\ t.side_to_move = side
    BY ZenonT(60), <2>1, <2>2, <2>3, <2>4 DEF MillStates
  <2> QED BY <2>3, <2>5 DEF Live
<1>8. Settling(t, o)
  <2>1. CASE s.pending_removals[d] = 0
    <3>1. ~left
      BY <1>1, <2>1, BothIs
    <3>2. Clean(t)
      BY <1>1, <1>4, <1>5, <2>1, <3>1 DEF Clean
    <3> QED BY <1>4, <1>5, <3>2 DEF Settling
  <2>2. CASE s.pending_removals[d] # 0
    <3>1. /\ t.side_to_move = d /\ t.phase = "Moving" /\ t.pending_removals[d] > 0
          /\ t.pending_removals[c] = 0 /\ ~t.remove_own_piece[c]
      BY <1>1, <1>4, <1>5, <2>2
    <3>2. Opp(d) = c
      BY <1>1, TwoSides
    <3> QED BY <1>4, <1>5, <3>1, <3>2 DEF Settling
  <2> QED BY <2>1, <2>2
<1>9. Swept(t) /\ t.phase # "GameOver"
  BY <1>5 DEF Swept
<1>10. Sound(settle(t, o)) /\ Keeps(t, settle(t, o))
  BY <1>7, <1>8, <1>9, SettleSound
<1>11. Keeps(s, settle(t, o))
  <2>1. settle(t, o) \in MillStates
    BY <1>7, SettleCoherent DEF Coherent
  <2> QED BY <1>1, <1>6, <1>7, <1>10, <2>1, KeepsTwice DEF Live
<1>12. finish_removal(s, o, own) = settle(t, o)
  BY DEF finish_removal, t, paid
<1> QED BY <1>10, <1>11, <1>12

(* apply_remove: n leaves the board, and what is still owed is in order.   *)
LEMMA RemoveSound ==
  ASSUME NEW s, Live(s), Sound(s), s.phase # "GameOver", Owes(s), s.action = "Remove",
         NEW o \in MillVariantOptions, NEW n \in Nodes,
         NEW target \in Sides,
         target = IF s.remove_own_piece[s.side_to_move]
                    THEN s.side_to_move ELSE Opp(s.side_to_move),
         n \in piece_bitboard(s, target), s.pieces_on_board[target] > 0
  PROVE  LET t == apply_remove(s, o, n)
         IN Sound(t) /\ \E w \in MillStates : Taken(s, w, n, target) /\ Keeps(w, t)
<1> DEFINE c == s.side_to_move
           d == Opp(c)
           own == s.remove_own_piece[c]
           owing == choose_obligation(s, o, n)
           less == take_piece(owing, o, n, target)
           w == consume_target(less, o, n)
           t == apply_remove(s, o, n)
<1>1. /\ s \in MillStates /\ c \in Sides /\ d \in Sides \ {c} /\ Sides = {c, d}
      /\ own \in BOOLEAN /\ s.pending_removals \in [Sides -> Nat]
  BY TwoSides DEF Live, MillStates
<1>2. /\ Alters(s, owing, CaptureState \union {"pending_removals"})
      /\ owing \in MillStates /\ owing.side_to_move = c
      /\ owing.pending_removals[c] > 0
      /\ owing.pending_removals[d] = s.pending_removals[d]
      /\ Targets(owing, c) \subseteq Targets(s, c)
      /\ Targets(owing, d) = Targets(s, d)
  BY ObligationEffect
<1> HIDE DEF owing
<1>3. /\ owing.board = s.board /\ owing.marked = s.marked /\ owing.phase = s.phase
      /\ owing.pieces_on_board = s.pieces_on_board
      /\ owing.pieces_in_hand = s.pieces_in_hand
      /\ owing.remove_own_piece = s.remove_own_piece
      /\ owing.stalemate_removing = s.stalemate_removing
      /\ \A k : piece_bitboard(owing, k) = piece_bitboard(s, k)
  <2>1. /\ owing.board = s.board /\ owing.marked = s.marked /\ owing.phase = s.phase
        /\ owing.pieces_on_board = s.pieces_on_board
        /\ owing.pieces_in_hand = s.pieces_in_hand
        /\ owing.remove_own_piece = s.remove_own_piece
        /\ owing.stalemate_removing = s.stalemate_removing
    BY <1>2 DEF Alters, Fields, CaptureState
  <2> QED BY <2>1, SameBitboards
<1>4. Live(owing) /\ Owes(owing)
  BY <1>1, <1>2 DEF Live, Owes
<1>5. /\ less \in MillStates /\ less.side_to_move = c /\ less.phase = s.phase
      /\ Alters(owing, less, {"board", "marked", "pieces_on_board", "pending_removals",
                              "ply_since_capture", "key_history"})
      /\ less.pending_removals = [owing.pending_removals EXCEPT ![c] = @ - 1]
      /\ s.phase = "Moving" => less.marked = s.marked
      /\ Taken(owing, less, n, target)
  <2> DEFINE e == owing.side_to_move
  <2>1. n \in piece_bitboard(owing, target) /\ owing.pieces_on_board[target] > 0
    BY <1>3
  <2>2. /\ less \in MillStates /\ less.side_to_move = e /\ less.phase = owing.phase
        /\ Alters(owing, less, {"board", "marked", "pieces_on_board", "pending_removals",
                                "ply_since_capture", "key_history"})
        /\ less.pending_removals = [owing.pending_removals EXCEPT ![e] = @ - 1]
        /\ owing.phase = "Moving" => less.marked = owing.marked
        /\ Taken(owing, less, n, target)
    BY <1>4, <2>1, TakeEffect
  <2> HIDE DEF less
  <2> QED BY <1>2, <1>3, <2>2
<1> HIDE DEF less
<1>6. /\ w \in MillStates /\ w.side_to_move = c
      /\ Alters(less, w, CaptureState \ {"mill_available_at_removal"})
      /\ Targets(w, c) \subseteq Targets(less, c) \ {n}
      /\ Targets(w, d) = Targets(less, d)
  <2> DEFINE e == less.side_to_move
  <2>1. Live(less)
    BY <1>1, <1>5 DEF Live
  <2>2. /\ w \in MillStates /\ w.side_to_move = e
        /\ Alters(less, w, CaptureState \ {"mill_available_at_removal"})
        /\ Targets(w, e) \subseteq Targets(less, e) \ {n}
        /\ Targets(w, Opp(e)) = Targets(less, Opp(e))
    BY <2>1, ConsumeEffect
  <2> HIDE DEF w
  <2> QED BY <1>5, <2>2
<1> HIDE DEF w
<1>7. /\ w.board = less.board /\ w.marked = less.marked /\ w.phase = s.phase
      /\ w.pieces_on_board = less.pieces_on_board
      /\ w.pieces_in_hand = less.pieces_in_hand
      /\ w.ply_since_capture = less.ply_since_capture
      /\ w.pending_removals = less.pending_removals
      /\ w.remove_own_piece = s.remove_own_piece
      /\ w.stalemate_removing = s.stalemate_removing
      /\ \A k : Targets(less, k) = Targets(owing, k)
  BY <1>3, <1>5, <1>6 DEF Alters, Fields, CaptureState, Targets
<1>8. \A k : piece_bitboard(w, k) = piece_bitboard(less, k)
  BY <1>7, SameBitboards
<1>9. Taken(s, w, n, target)
  BY <1>3, <1>5, <1>7, <1>8 DEF Taken
<1>10. /\ w.pending_removals[d] = s.pending_removals[d]
       /\ w.pending_removals[c] \in Nat /\ w.pending_removals[d] \in Nat
       /\ Targets(w, d) = {} /\ Targets(w, c) \subseteq piece_bitboard(w, d)
       /\ Targets(w, c) \subseteq Targets(s, c)
  <2>1. /\ Targets(s, d) = {} /\ Targets(s, c) \subseteq piece_bitboard(s, d)
    BY DEF Sound, Due
  <2>2. /\ Targets(w, d) = {} /\ Targets(w, c) \subseteq Targets(s, c) \ {n}
    BY <1>2, <1>6, <1>7, <2>1
  <2>3. piece_bitboard(w, d) = piece_bitboard(s, d) \ {n}
    BY <1>1, <1>9 DEF Taken
  <2>4. owing.pending_removals \in [Sides -> Nat]
    BY <1>2 DEF MillStates
  <2>5. w.pending_removals \in [Sides -> Nat]
    BY <1>6 DEF MillStates
  <2> QED BY <1>1, <1>2, <1>5, <1>7, <2>1, <2>2, <2>3, <2>4, <2>5
<1>11. Swept(w)
  <2>1. w.marked = IF s.phase = "Moving" THEN s.marked ELSE w.marked
    BY <1>3, <1>5, <1>7
  <2>2. w.pieces_in_hand = s.pieces_in_hand
    BY <1>9 DEF Taken
  <2> QED BY <1>7, <2>1, <2>2 DEF Sound, Swept
<1>12. /\ Sound(game_over(w, Opp(target), "LoseFewerThanThree"))
       /\ Keeps(w, game_over(w, Opp(target), "LoseFewerThanThree"))
  <2>1. LET u == game_over(w, Opp(target), "LoseFewerThanThree")
        IN /\ Alters(w, u, {"phase", "winner", "outcome_reason", "side_to_move"})
           /\ u.phase = "GameOver"
    BY <1>6, GameOverEffect
  <2> QED BY <1>6, <2>1, OverIsSound, AltersKeeps DEF MaterialFields
<1>13. w.pending_removals[c] = 0 =>
         Sound(finish_removal(w, o, own)) /\ Keeps(w, finish_removal(w, o, own))
  <2> SUFFICES ASSUME w.pending_removals[c] = 0
               PROVE  /\ Sound(finish_removal(w, o, own))
                      /\ Keeps(w, finish_removal(w, o, own))
    OBVIOUS
  <2>1. Live(w) /\ w.phase # "GameOver"
    BY <1>1, <1>6, <1>7 DEF Live
  <2>2. /\ w.pending_removals[d] > 0 => w.phase = "Moving"
        /\ w.stalemate_removing => w.pending_removals[d] = 0
        /\ w.remove_own_piece[d] => w.pending_removals[d] > 0
        /\ own <=> w.remove_own_piece[c]
    BY <1>1, <1>7, <1>10 DEF Sound, Due
  <2> DEFINE e == w.side_to_move
             mine == own
  <2>3. e = c /\ mine \in BOOLEAN
    BY <1>1, <1>6
  <2>4. /\ w.pending_removals[e] = 0 /\ Targets(w, Opp(e)) = {}
        /\ w.pending_removals[Opp(e)] > 0 => w.phase = "Moving"
        /\ w.stalemate_removing => w.pending_removals[Opp(e)] = 0
        /\ w.remove_own_piece[Opp(e)] => w.pending_removals[Opp(e)] > 0
        /\ mine <=> w.remove_own_piece[e]
    BY <1>10, <2>2, <2>3
  <2> HIDE DEF mine
  <2>5. Sound(finish_removal(w, o, mine)) /\ Keeps(w, finish_removal(w, o, mine))
    BY <1>11, <2>1, <2>3, <2>4, FinishSound
  <2> QED BY <2>5 DEF mine
<1>14. w.pending_removals[c] # 0 => Sound(w)
  <2> SUFFICES ASSUME w.pending_removals[c] # 0 PROVE Sound(w)
    OBVIOUS
  <2>1. Phased(w)
    BY <1>6 DEF Phased
  <2>2. /\ w.pending_removals[d] > 0 => w.phase = "Moving"
        /\ w.stalemate_removing => w.pending_removals[d] = 0
        /\ w.remove_own_piece[d] => w.pending_removals[d] > 0
        /\ w.remove_own_piece[c] => Targets(w, c) = {}
    BY <1>1, <1>7, <1>10 DEF Sound, Due
  <2>3. Due(w)
    BY <1>1, <1>6, <1>10, <2>2 DEF Due
  <2> QED BY <1>11, <2>1, <2>3 DEF Sound
<1>15. Keeps(w, w)
  BY <1>6, KeepsItself
<1>16. \/ t = game_over(w, Opp(target), "LoseFewerThanThree")
       \/ w.pending_removals[c] = 0 /\ t = finish_removal(w, o, own)
       \/ w.pending_removals[c] # 0 /\ t = w
  BY DEF apply_remove, w, less, owing
<1> HIDE DEF t
<1>17. Sound(t) /\ Keeps(w, t)
  BY <1>12, <1>13, <1>14, <1>15, <1>16
<1> QED BY <1>6, <1>9, <1>17 DEF t

-----------------------------------------------------------------------------
(* Material *)

(* The counters agree with the live pieces on the board, no side has more  *)
(* than it started with, and a marked point is occupied.                   *)
Counted(s, o) ==
  /\ \A c \in Sides : /\ s.pieces_on_board[c] = Cardinality(piece_bitboard(s, c))
                      /\ s.pieces_on_board[c] + s.pieces_in_hand[c] <= o.piece_count
  /\ \A n \in s.marked : s.board[n] # NONE

LEMMA BitboardsCounted ==
  ASSUME NEW s, NEW c
  PROVE  /\ IsFiniteSet(piece_bitboard(s, c))
         /\ Cardinality(piece_bitboard(s, c)) \in Nat
BY PointsCounted DEF piece_bitboard

LEMMA KeptCounted ==
  ASSUME NEW s \in MillStates, NEW t \in MillStates, NEW o \in MillVariantOptions,
         Counted(s, o), Keeps(s, t)
  PROVE  Counted(t, o)
<1>1. \A k \in Sides : /\ s.pieces_in_hand[k] \in Nat /\ t.pieces_in_hand[k] \in Nat
                       /\ s.pieces_on_board[k] \in Int
  BY HandsAreNatural
<1>2. o.piece_count \in Int
  BY DEF MillVariantOptions
<1> QED BY <1>1, <1>2 DEF Counted, Keeps

LEMMA PlacedCounted ==
  ASSUME NEW s, Fresh(s), s.phase = "Placing", NEW o \in MillVariantOptions,
         Counted(s, o), NEW to \in empty_squares(s), s.pieces_in_hand[s.side_to_move] > 0
  PROVE  Counted(place_live_piece(s, to), o)
<1> DEFINE c == s.side_to_move
           t == place_live_piece(s, to)
<1>1. /\ s \in MillStates /\ c \in Sides /\ to \in Nodes /\ o.piece_count \in Int
      /\ s.board \in [Nodes -> Sides \union {NONE}] /\ s.marked \in SUBSET Nodes
      /\ s.pieces_in_hand \in [Sides -> Nat] /\ s.pieces_on_board \in [Sides -> Int]
      /\ s.board[to] = NONE /\ to \notin s.marked
  BY DEF Fresh, Live, MillStates, MillVariantOptions, empty_squares, board_occupied
<1>2. /\ t.board = [s.board EXCEPT ![to] = c]
      /\ t.pieces_in_hand = [s.pieces_in_hand EXCEPT ![c] = IF @ > 0 THEN @ - 1 ELSE 0]
      /\ t.pieces_on_board = [s.pieces_on_board EXCEPT ![c] = @ + 1]
      /\ Alters(s, t, {"board", "pieces_in_hand", "pieces_on_board",
                       "ply_since_capture", "key_history"})
  BY <1>1, PlacedFresh
<1> HIDE DEF t
<1>3. t.marked = s.marked
  BY <1>2 DEF Alters, Fields
<1>4. \A n \in Nodes : live_piece(t, n) = IF n = to THEN c ELSE live_piece(s, n)
  BY <1>1, <1>2, <1>3 DEF live_piece
<1>5. live_piece(s, to) = NONE /\ \A k \in Sides : k # NONE
  BY <1>1 DEF live_piece, Sides, NONE
<1>6. /\ piece_bitboard(t, c) = piece_bitboard(s, c) \union {to}
      /\ to \notin piece_bitboard(s, c)
      /\ \A k \in Sides \ {c} : piece_bitboard(t, k) = piece_bitboard(s, k)
  BY <1>1, <1>4, <1>5 DEF piece_bitboard
<1>7. Cardinality(piece_bitboard(t, c)) = Cardinality(piece_bitboard(s, c)) + 1
  BY <1>6, BitboardsCounted, FS_AddElement
<1>8. \A k \in Sides : t.pieces_on_board[k] = Cardinality(piece_bitboard(t, k))
  BY <1>1, <1>2, <1>6, <1>7 DEF Counted
<1>9. \A k \in Sides : t.pieces_on_board[k] + t.pieces_in_hand[k] <= o.piece_count
  BY <1>1, <1>2 DEF Counted
<1>10. \A n \in t.marked : t.board[n] # NONE
  BY <1>1, <1>2, <1>3, <1>5 DEF Counted
<1> QED BY <1>8, <1>9, <1>10 DEF Counted, t

LEMMA MovedCounted ==
  ASSUME NEW s, Fresh(s), NEW o \in MillVariantOptions, Counted(s, o),
         NEW from \in piece_bitboard(s, s.side_to_move), NEW to \in empty_squares(s)
  PROVE  Counted(bump_ply_since_capture(move_live_piece(s, from, to), o), o)
<1> DEFINE c == s.side_to_move
           t == bump_ply_since_capture(move_live_piece(s, from, to), o)
<1>1. /\ s \in MillStates /\ c \in Sides /\ to \in Nodes /\ from \in Nodes
      /\ s.board \in [Nodes -> Sides \union {NONE}] /\ s.marked \in SUBSET Nodes
      /\ s.board[to] = NONE /\ to \notin s.marked /\ live_piece(s, from) = c
  BY DEF Fresh, Live, MillStates, empty_squares, board_occupied, piece_bitboard
<1>2. \A k \in Sides : k # NONE
  BY DEF Sides, NONE
<1>3. from \notin s.marked /\ s.board[from] = c /\ from # to
  BY <1>1, <1>2 DEF live_piece
<1>4. /\ t.board = [s.board EXCEPT ![from] = NONE, ![to] = c]
      /\ Alters(s, t, {"board", "ply_since_capture"})
  BY <1>1, MovedFresh
<1> HIDE DEF t
<1>5. /\ t.marked = s.marked /\ t.pieces_on_board = s.pieces_on_board
      /\ t.pieces_in_hand = s.pieces_in_hand
  BY <1>4 DEF Alters, Fields
<1>6. \A n \in Nodes : live_piece(t, n) = IF n = to THEN c ELSE IF n = from THEN NONE
                                          ELSE live_piece(s, n)
  BY <1>1, <1>3, <1>4, <1>5 DEF live_piece
<1>7. live_piece(s, to) = NONE
  BY <1>1 DEF live_piece
<1> DEFINE rest == piece_bitboard(s, c) \ {from}
<1>8. /\ piece_bitboard(t, c) = rest \union {to} /\ to \notin rest
      /\ from \in piece_bitboard(s, c)
      /\ \A k \in Sides \ {c} : piece_bitboard(t, k) = piece_bitboard(s, k)
  BY <1>1, <1>2, <1>3, <1>6, <1>7 DEF piece_bitboard
<1>9. IsFiniteSet(rest) /\ Cardinality(rest) = Cardinality(piece_bitboard(s, c)) - 1
  BY <1>8, BitboardsCounted, FS_RemoveElement
<1> HIDE DEF rest
<1>10. Cardinality(piece_bitboard(t, c)) = Cardinality(rest) + 1
  BY <1>8, <1>9, FS_AddElement
<1>11. \A k \in Sides : Cardinality(piece_bitboard(t, k)) = Cardinality(piece_bitboard(s, k))
  <2>1. Cardinality(piece_bitboard(s, c)) \in Nat
    BY BitboardsCounted
  <2>2. Cardinality(piece_bitboard(t, c)) = Cardinality(piece_bitboard(s, c))
    BY <1>9, <1>10, <2>1
  <2> QED BY <1>8, <2>2
<1>12. \A n \in t.marked : t.board[n] # NONE
  BY <1>1, <1>2, <1>3, <1>4, <1>5 DEF Counted
<1> QED BY <1>5, <1>11, <1>12 DEF Counted, t

LEMMA TakenCounted ==
  ASSUME NEW s \in MillStates, NEW t \in MillStates, NEW o \in MillVariantOptions,
         Counted(s, o), NEW target \in Sides, NEW n \in piece_bitboard(s, target),
         Taken(s, t, n, target)
  PROVE  Counted(t, o)
<1>1. \A k \in Sides : s.pieces_in_hand[k] \in Nat /\ s.pieces_on_board[k] \in Int
  BY HandsAreNatural
<1>2. o.piece_count \in Int
  BY DEF MillVariantOptions
<1>3. Cardinality(piece_bitboard(t, target)) = Cardinality(piece_bitboard(s, target)) - 1
  BY BitboardsCounted, FS_RemoveElement DEF Taken
<1>4. \A k \in Sides \ {target} : n \notin piece_bitboard(s, k)
  BY DEF piece_bitboard
<1>5. \A k \in Sides \ {target} : piece_bitboard(t, k) = piece_bitboard(s, k)
  BY <1>4, SMTT(30) DEF Taken
<1>6. \A k \in Sides : t.pieces_on_board[k] = Cardinality(piece_bitboard(t, k))
  BY <1>3, <1>5 DEF Taken, Counted
<1>7. \A k \in Sides : t.pieces_on_board[k] + t.pieces_in_hand[k] <= o.piece_count
  BY <1>1, <1>2 DEF Taken, Counted
<1> QED BY <1>6, <1>7 DEF Taken, Counted

(* A side with a live piece has it counted.                                *)
LEMMA PieceIsCounted ==
  ASSUME NEW s, NEW o, Counted(s, o), NEW c \in Sides, NEW n \in piece_bitboard(s, c)
  PROVE  s.pieces_on_board[c] > 0
<1>1. Cardinality(piece_bitboard(s, c)) \in Nat \ {0}
  BY BitboardsCounted, FS_EmptySet
<1> QED BY <1>1 DEF Counted

-----------------------------------------------------------------------------
(* What a legal action finds *)

LEMMA LegalPlace ==
  ASSUME NEW s, Coherent(s), Sound(s), NEW o, NEW a \in legal_actions(s, o),
         a.kind = "Place"
  PROVE  /\ Fresh(s) /\ s.phase = "Placing"
         /\ s.pieces_in_hand[s.side_to_move] > 0 /\ a.to \in empty_squares(s)
<1> DEFINE c == s.side_to_move
           turn == action_for_legal_generation(s)
<1>1. s.phase # "GameOver" /\ Live(s)
  BY LegalActionTyped
<1>2. s.action = synced_action(s) /\ c # NONE /\ c \in Sides
  BY <1>1 DEF Coherent, Synced, Live, Sides, NONE
<1>3. turn = synced_action(s)
  BY <1>1, <1>2 DEF action_for_legal_generation
<1>4. turn = "Place" => s.phase = "Placing" /\ ~(s.pending_removals[c] > 0)
  BY <1>1, <1>2, <1>3 DEF synced_action
<1> HIDE DEF turn
<1>5. \A x \in generate_remove_actions(s, o) : x.kind = "Remove"
  BY RemoveActionsTyped
<1>6. \A fly : \A x \in generate_move_actions(s, o, fly) : x.kind = "Move"
  BY MoveActionsTyped
<1>7. /\ turn = "Place"
      /\ a \in IF s.pieces_in_hand[c] > 0
                 THEN {PlaceAction(n) : n \in empty_squares(s)} ELSE {}
  BY <1>5, <1>6 DEF legal_actions, turn
<1>8. s.pieces_in_hand[c] > 0 /\ a.to \in empty_squares(s)
  BY <1>7 DEF PlaceAction
<1>9. s.pending_removals[c] = 0
  BY <1>1, <1>2, <1>4, <1>7, HandsAreNatural DEF Live
<1> QED BY <1>1, <1>4, <1>7, <1>8, <1>9, DueIsClean DEF Fresh, Sound

LEMMA LegalMove ==
  ASSUME NEW s, Coherent(s), Sound(s), NEW o, NEW a \in legal_actions(s, o),
         a.kind = "Move"
  PROVE  /\ Fresh(s) /\ MoveCounting(s, o)
         /\ s.pieces_in_hand = Both(0) => s.phase = "Moving"
         /\ a.from \in piece_bitboard(s, s.side_to_move) /\ a.to \in empty_squares(s)
<1> DEFINE c == s.side_to_move
           turn == action_for_legal_generation(s)
           on == piece_bitboard(s, c) \X empty_squares(s)
<1>1. s.phase # "GameOver" /\ Live(s)
  BY LegalActionTyped
<1>2. s.action = synced_action(s) /\ c # NONE /\ c \in Sides
  BY <1>1 DEF Coherent, Synced, Live, Sides, NONE
<1>3. turn = synced_action(s)
  BY <1>1, <1>2 DEF action_for_legal_generation
<1>4. /\ turn = "Place" => s.phase = "Placing" /\ ~(s.pending_removals[c] > 0)
      /\ turn = "Select" => ~(s.pending_removals[c] > 0)
  BY <1>1, <1>2, <1>3 DEF synced_action
<1> HIDE DEF turn
<1>5. \A x \in generate_remove_actions(s, o) : x.kind = "Remove"
  BY RemoveActionsTyped
<1>6. \A n : PlaceAction(n).kind = "Place"
  BY DEF PlaceAction
<1>7. /\ \/ turn = "Place" /\ o.may_move_in_placing_phase
         \/ turn = "Select" /\ s.phase = "Moving"
      /\ \E fly : a \in generate_move_actions(s, o, fly)
  BY <1>5, <1>6 DEF legal_actions, turn
<1>8. a.from \in piece_bitboard(s, c) /\ a.to \in empty_squares(s)
  <2>1. leap_moves(s, o) \in SUBSET on
    BY DEF leap_moves
  <2>2. \E m \in on : a = MoveAction(m[1], m[2])
    BY <1>7, <2>1 DEF generate_move_actions
  <2> QED BY <2>2 DEF MoveAction
<1>9. s.pending_removals[c] = 0 /\ MoveCounting(s, o)
  BY <1>1, <1>2, <1>4, <1>7, HandsAreNatural DEF Live, MoveCounting
<1>10. s.pieces_in_hand = Both(0) => s.phase = "Moving"
  BY <1>1, <1>2, <1>9, BothAt DEF Sound, Phased
<1> QED BY <1>1, <1>8, <1>9, <1>10, DueIsClean DEF Fresh, Sound

LEMMA LegalRemove ==
  ASSUME NEW s, Coherent(s), Sound(s), NEW o, NEW a \in legal_actions(s, o),
         a.kind = "Remove"
  PROVE  LET c == s.side_to_move
             target == IF s.remove_own_piece[c] THEN c ELSE Opp(c)
         IN /\ Live(s) /\ s.phase # "GameOver" /\ s.action = "Remove" /\ Owes(s)
            /\ target \in Sides /\ a.to \in piece_bitboard(s, target)
<1> DEFINE c == s.side_to_move
           d == Opp(c)
           own == s.remove_own_piece[c]
           turn == action_for_legal_generation(s)
<1>1. /\ s.phase # "GameOver" /\ Live(s) /\ s.action = "Remove"
      /\ c \in Sides /\ d \in Sides
  BY LegalActionTyped, OppIsSide DEF Live
<1>2. \A fly : \A x \in generate_move_actions(s, o, fly) : x.kind = "Move"
  BY MoveActionsTyped
<1>3. \A n : PlaceAction(n).kind = "Place"
  BY DEF PlaceAction
<1>4. Owes(s) /\ a \in generate_remove_actions(s, o)
  BY <1>2, <1>3 DEF legal_actions, Owes
<1>5. \A k : regular_remove_targets(s, o, k) \in SUBSET piece_bitboard(s, k)
  BY DEF regular_remove_targets, Unprotected
<1>6. capture_targets(s) = Targets(s, c) /\ (own => Targets(s, c) = {})
  BY <1>1 DEF capture_targets, Targets, Sound, Due
<1>7. \E n : a = RemoveAction(n) /\ n \in piece_bitboard(s, IF own THEN c ELSE d)
  <2> DEFINE captures == capture_targets(s) \intersect piece_bitboard(s, d)
             regular == IF own THEN regular_remove_targets(s, o, c)
                               ELSE regular_remove_targets(s, o, d)
  <2>1. \E n \in captures \union regular : a = RemoveAction(n)
    BY <1>4 DEF generate_remove_actions
  <2>2. captures \union regular \subseteq piece_bitboard(s, IF own THEN c ELSE d)
    BY <1>5, <1>6
  <2> HIDE DEF captures, regular
  <2> QED BY <2>1, <2>2
<1>8. a.to \in piece_bitboard(s, IF own THEN c ELSE d)
  BY <1>7 DEF RemoveAction
<1> QED BY <1>1, <1>4, <1>8

-----------------------------------------------------------------------------
(* The n-move rule *)

(* No position in which the side to move owes nothing has gone the         *)
(* threshold without a capture.                                            *)
Paced(s, o) ==
  (s.phase # "GameOver" /\ ~Owes(s) /\ draw_threshold(s, o) > 0) =>
    s.ply_since_capture < draw_threshold(s, o)

LEMMA ThresholdNatural ==
  ASSUME NEW s, NEW o \in MillVariantOptions
  PROVE  draw_threshold(s, o) \in Nat
BY DEF draw_threshold, MillVariantOptions

LEMMA SameThreshold ==
  ASSUME NEW s, NEW t, t.pieces_on_board = s.pieces_on_board, NEW o
  PROVE  draw_threshold(t, o) = draw_threshold(s, o)
BY DEF draw_threshold, three_piece_endgame

LEMMA KeptPaced ==
  ASSUME NEW s, NEW t, Keeps(s, t), NEW o,
         ~n_move_rule_reached(s, o), s.ply_since_capture \in Nat,
         o \in MillVariantOptions
  PROVE  Paced(t, o)
BY SameThreshold, ThresholdNatural DEF Paced, Keeps, n_move_rule_reached

LEMMA StalematePaced ==
  ASSUME NEW s, Coherent(s), Sound(s), NEW o \in MillVariantOptions,
         \/ s.phase = "GameOver" \/ Owes(s) \/ ~n_move_rule_reached(s, o)
  PROVE  Paced(maybe_handle_stalemate(s, o), o)
<1> DEFINE t == maybe_handle_stalemate(s, o)
<1>1. Keeps(s, t)
  BY StalemateSound
<1>2. s.ply_since_capture \in Nat
  BY DEF Coherent, MillStates
<1>3. CASE ~n_move_rule_reached(s, o)
  <2> HIDE DEF t
  <2>1. Paced(t, o)
    BY <1>1, <1>2, <1>3, KeptPaced
  <2> QED BY <2>1 DEF t
<1>4. CASE s.phase = "GameOver" \/ Owes(s)
  <2>1. ~is_stalemate(s, o)
    BY <1>4 DEF is_stalemate, Owes
  <2>2. t = s
    BY <2>1 DEF maybe_handle_stalemate
  <2> QED BY <1>4, <2>2 DEF Paced
<1> QED BY <1>3, <1>4

LEMMA NothingPlayed ==
  ASSUME NEW s, s.ply_since_capture = 0, NEW o \in MillVariantOptions
  PROVE  ~n_move_rule_reached(s, o)
BY ThresholdNatural DEF n_move_rule_reached

-----------------------------------------------------------------------------
(* Games *)

Good(s, o) == Coherent(s) /\ Sound(s) /\ Counted(s, o) /\ Paced(s, o)

(* The tail every action shares: whatever keeps the material of a position *)
(* that has it in order leaves, after the stalemate check, a good one.     *)
LEMMA TailGood ==
  ASSUME NEW w \in MillStates, NEW o \in MillVariantOptions, Counted(w, o),
         NEW t, Coherent(t), Sound(t), Keeps(w, t),
         \/ t.phase = "GameOver" \/ Owes(t) \/ ~n_move_rule_reached(w, o)
  PROVE  Good(maybe_handle_stalemate(t, o), o)
<1> DEFINE u == maybe_handle_stalemate(t, o)
<1>1. Coherent(u) /\ Sound(u) /\ Keeps(t, u)
  BY StalemateCoherent, StalemateSound
<1> HIDE DEF u
<1>2. t \in MillStates /\ u \in MillStates
  BY <1>1 DEF Coherent
<1>3. Counted(t, o)
  BY <1>2, KeptCounted
<1>4. Counted(u, o)
  BY <1>1, <1>2, <1>3, KeptCounted
<1>5. n_move_rule_reached(t, o) <=> n_move_rule_reached(w, o)
  <2>1. draw_threshold(t, o) = draw_threshold(w, o)
    BY SameThreshold DEF Keeps
  <2> QED BY <2>1 DEF n_move_rule_reached, Keeps
<1>6. Paced(u, o)
  BY <1>5, StalematePaced DEF u
<1> QED BY <1>1, <1>4, <1>6 DEF Good, u

LEMMA PlaceGood ==
  ASSUME NEW s, NEW o \in MillVariantOptions, Good(s, o),
         NEW a \in legal_actions(s, o), a.kind = "Place"
  PROVE  Good(apply_to_state(s, o, a, TRUE), o)
<1> DEFINE placed == place_live_piece(s, a.to)
           done == fast_placed(s, o, a.to)
           t == apply_place(s, o, a.to)
<1>1. /\ Fresh(s) /\ s.phase = "Placing" /\ s.pieces_in_hand[s.side_to_move] > 0
      /\ a.to \in empty_squares(s) /\ a.to \in Nodes /\ Coherent(s) /\ Sound(s)
  BY LegalPlace, OccupancyOnBoard DEF Good
<1>2. /\ Counted(placed, o) /\ placed \in MillStates
      /\ ~n_move_rule_reached(placed, o)
  <2>1. placed.ply_since_capture = 0 /\ Fresh(placed)
    BY <1>1, PlacedFresh
  <2> QED BY <1>1, <2>1, PlacedCounted, NothingPlayed DEF Good, Fresh, Live
<1>3. Good(maybe_handle_stalemate(t, o), o)
  <2>1. Coherent(t) /\ Sound(t) /\ Keeps(placed, t)
    BY <1>1, PlaceSound, PlaceCoherent DEF Fresh
  <2> HIDE DEF t, placed
  <2> QED BY <1>2, <2>1, TailGood
<1>4. Good(fast_place(s, o, a.to), o)
  <2>1. Coherent(done) /\ Sound(done) /\ Keeps(placed, done)
    BY <1>1, FastPlacedSound
  <2> HIDE DEF done, placed
  <2>2. Good(maybe_handle_stalemate(done, o), o)
    BY <1>2, <2>1, TailGood
  <2>3. done.phase # "Moving" => maybe_handle_stalemate(done, o) = done
    BY DEF maybe_handle_stalemate, is_stalemate
  <2> QED BY <2>2, <2>3 DEF fast_place, done
<1>5. \/ apply_to_state(s, o, a, TRUE) = fast_place(s, o, a.to)
      \/ apply_to_state(s, o, a, TRUE) = maybe_handle_stalemate(t, o)
  BY DEF apply_to_state, apply_generally
<1> QED BY <1>3, <1>4, <1>5

LEMMA MoveGood ==
  ASSUME NEW s, NEW o \in MillVariantOptions, Good(s, o),
         NEW a \in legal_actions(s, o), a.kind = "Move"
  PROVE  Good(apply_to_state(s, o, a, TRUE), o)
<1> DEFINE moved == bump_ply_since_capture(move_live_piece(s, a.from, a.to), o)
           t == apply_move(s, o, a.from, a.to, TRUE)
<1>1. /\ Fresh(s) /\ MoveCounting(s, o)
      /\ s.pieces_in_hand = Both(0) => s.phase = "Moving"
      /\ a.from \in piece_bitboard(s, s.side_to_move) /\ a.to \in empty_squares(s)
      /\ a.from \in Nodes /\ a.to \in Nodes
  BY LegalMove, OccupancyOnBoard DEF Good
<1>2. Counted(moved, o)
  BY <1>1, MovedCounted DEF Good
<1>3. moved \in MillStates /\ MoveCounting(moved, o)
  <2>1. Fresh(moved) /\ Alters(s, moved, {"board", "ply_since_capture"})
    BY <1>1, MovedFresh
  <2> HIDE DEF moved
  <2>2. moved.phase = s.phase
    BY <2>1 DEF Alters, Fields
  <2> QED BY <1>1, <2>1, <2>2 DEF Fresh, Live, MoveCounting
<1>4. /\ Sound(t) /\ Keeps(moved, t) /\ Coherent(t)
      /\ \/ t.phase = "GameOver" \/ Owes(t) \/ ~n_move_rule_reached(moved, o)
  <2>1. Coherent(t)
    BY <1>1, MoveCoherent DEF Fresh
  <2>2. /\ Sound(t) /\ Keeps(moved, t)
        /\ \/ t.phase = "GameOver" \/ Owes(t)
           \/ ~(MoveCounting(moved, o) /\ n_move_rule_reached(moved, o))
    BY <1>1, MoveSound
  <2> HIDE DEF t, moved
  <2> QED BY <1>3, <2>1, <2>2
<1>5. Good(maybe_handle_stalemate(t, o), o)
  <2> HIDE DEF t, moved
  <2> QED BY <1>2, <1>3, <1>4, TailGood
<1>6. apply_to_state(s, o, a, TRUE) = maybe_handle_stalemate(t, o)
  BY DEF apply_to_state, apply_generally
<1> QED BY <1>5, <1>6

LEMMA RemoveGood ==
  ASSUME NEW s, NEW o \in MillVariantOptions, Good(s, o),
         NEW a \in legal_actions(s, o), a.kind = "Remove"
  PROVE  Good(apply_to_state(s, o, a, TRUE), o)
<1> DEFINE c == s.side_to_move
           target == IF s.remove_own_piece[c] THEN c ELSE Opp(c)
           t == apply_remove(s, o, a.to)
<1>1. /\ Live(s) /\ s.phase # "GameOver" /\ s.action = "Remove" /\ Owes(s)
      /\ target \in Sides /\ a.to \in piece_bitboard(s, target) /\ a.to \in Nodes
      /\ Sound(s) /\ Counted(s, o)
  BY LegalRemove, OccupancyOnBoard DEF Good
<1> HIDE DEF target
<1>2. s.pieces_on_board[target] > 0
  BY <1>1, PieceIsCounted
<1>3. Coherent(t)
  BY <1>1, RemoveCoherent
<1>4. Sound(t) /\ \E w \in MillStates : Taken(s, w, a.to, target) /\ Keeps(w, t)
  BY <1>1, <1>2, RemoveSound DEF target
<1>5. PICK w \in MillStates : Taken(s, w, a.to, target) /\ Keeps(w, t)
  BY <1>4
<1>6. Counted(w, o) /\ ~n_move_rule_reached(w, o)
  <2>1. Counted(w, o)
    BY <1>1, <1>5, TakenCounted DEF Live
  <2> QED BY <1>5, <2>1, NothingPlayed DEF Taken
<1>7. Good(maybe_handle_stalemate(t, o), o)
  <2> HIDE DEF t
  <2> QED BY <1>3, <1>4, <1>5, <1>6, TailGood
<1>8. apply_to_state(s, o, a, TRUE) = maybe_handle_stalemate(t, o)
  BY DEF apply_to_state, apply_generally
<1> QED BY <1>7, <1>8

LEMMA InitialGood ==
  ASSUME NEW o \in MillVariantOptions, o.piece_count > 0
  PROVE  Good(initial_state(o), o)
<1> DEFINE s == initial_state(o)
<1>1. Coherent(s)
  BY InitialCoherent
<1>2. /\ s.phase = "Placing"
      /\ s.pending_removals = Both(0) /\ s.pieces_on_board = Both(0)
      /\ s.pieces_in_hand = Both(o.piece_count) /\ s.remove_own_piece = Both(FALSE)
      /\ s.custodian_targets = Both({}) /\ s.intervention_targets = Both({})
      /\ s.leap_targets = Both({}) /\ ~s.mill_available_at_removal
      /\ ~s.stalemate_removing /\ ~s.both_stalemate_removing
      /\ ~s.board_full_removing /\ s.marked = {} /\ s.ply_since_capture = 0
      /\ s.board = [n \in Nodes |-> NONE]
  BY DEF initial_state
<1>3. /\ s.side_to_move \in Sides /\ Opp(s.side_to_move) \in Sides
      /\ o.piece_count \in Nat
  BY OppIsSide DEF initial_state, Sides, MillVariantOptions
<1> HIDE DEF s
<1>4. \A c \in Sides : /\ s.pending_removals[c] = 0 /\ s.pieces_on_board[c] = 0
                       /\ s.pieces_in_hand[c] = o.piece_count
                       /\ ~s.remove_own_piece[c] /\ Targets(s, c) = {}
  BY <1>2 DEF Both, Targets
<1>5. Due(s)
  <2> DEFINE c == s.side_to_move
             d == Opp(c)
  <2>1. c \in Sides /\ d \in Sides
    BY <1>3
  <2> HIDE DEF c, d
  <2>2. /\ s.pending_removals[c] = 0 /\ s.pending_removals[d] = 0
        /\ Targets(s, c) = {} /\ Targets(s, d) = {}
    BY <1>4, <2>1
  <2>3. \A k \in Sides : ~s.remove_own_piece[k]
    BY <1>4
  <2>4. ~(s.pending_removals[d] > 0)
    BY <2>2
  <2> QED BY <1>2, <2>2, <2>3, <2>4 DEF Due, c, d
<1>6. Phased(s) /\ Swept(s)
  <2>1. s.pieces_in_hand[s.side_to_move] = o.piece_count /\ o.piece_count # 0
    BY <1>3, <1>4
  <2>2. s.phase # "Moving" /\ s.pieces_in_hand[s.side_to_move] # 0
    BY <1>2, <2>1
  <2> QED BY <1>2, <2>2 DEF Phased, Swept
<1>7. \A c \in Sides : piece_bitboard(s, c) = {}
  BY <1>2 DEF piece_bitboard, live_piece, Sides, NONE
<1>8. Counted(s, o)
  <2>1. \A c \in Sides : Cardinality(piece_bitboard(s, c)) = 0
    BY <1>7, FS_EmptySet
  <2>2. \A c \in Sides : s.pieces_on_board[c] + s.pieces_in_hand[c] <= o.piece_count
    BY <1>3, <1>4
  <2> QED BY <1>2, <1>4, <2>1, <2>2 DEF Counted
<1>9. Paced(s, o)
  BY <1>2, ThresholdNatural DEF Paced
<1> QED BY <1>1, <1>5, <1>6, <1>8, <1>9 DEF Good, Sound, s

-----------------------------------------------------------------------------
(* Every game *)

(* The inductive invariant.  Its parts need each other: what an action     *)
(* finds is read from the action byte (Coherent) and the obligations       *)
(* (Sound), the counts decide when the moving phase is entered and so what *)
(* is owed, and the threshold in force depends on the counts.              *)
GameInv == options \in Variants /\ Good(state, options)

THEOREM GameInvariant == Spec => []GameInv
<1>1. Init => GameInv
  <2> SUFFICES ASSUME Init PROVE GameInv
    OBVIOUS
  <2>1. options \in MillVariantOptions /\ options.piece_count > 0
    BY VariantsAssumption DEF Init
  <2> QED BY <2>1, InitialGood DEF Init, GameInv
<1>2. GameInv /\ [Next]_vars => GameInv'
  <2> SUFFICES ASSUME GameInv, [Next]_vars PROVE GameInv'
    OBVIOUS
  <2>1. CASE UNCHANGED vars
    BY <2>1 DEF GameInv, vars
  <2>2. options \in MillVariantOptions /\ Good(state, options)
    BY VariantsAssumption DEF GameInv
  <2>3. CASE Place
    <3>1. PICK a \in legal_actions(state, options) :
             a.kind = "Place" /\ state' = apply_to_state(state, options, a, TRUE)
      BY <2>3 DEF Place, Apply
    <3>2. Good(apply_to_state(state, options, a, TRUE), options)
      BY <2>2, <3>1, PlaceGood
    <3> QED BY <2>3, <3>1, <3>2 DEF Place, Apply, GameInv
  <2>4. CASE Move
    <3>1. PICK a \in legal_actions(state, options) :
             a.kind = "Move" /\ state' = apply_to_state(state, options, a, TRUE)
      BY <2>4 DEF Move, Apply
    <3>2. Good(apply_to_state(state, options, a, TRUE), options)
      BY <2>2, <3>1, MoveGood
    <3> QED BY <2>4, <3>1, <3>2 DEF Move, Apply, GameInv
  <2>5. CASE Remove
    <3>1. PICK a \in legal_actions(state, options) :
             a.kind = "Remove" /\ state' = apply_to_state(state, options, a, TRUE)
      BY <2>5 DEF Remove, Apply
    <3>2. Good(apply_to_state(state, options, a, TRUE), options)
      BY <2>2, <3>1, RemoveGood
    <3> QED BY <2>5, <3>1, <3>2 DEF Remove, Apply, GameInv
  <2> QED BY <2>1, <2>3, <2>4, <2>5 DEF Next
<1> QED BY <1>1, <1>2, PTL DEF Spec

(* A side that is to place or to move owes nothing, nor does the other,    *)
(* and the position carries no flag and no target of a removal.            *)
LEMMA FreeTurn ==
  ASSUME NEW s, Coherent(s), Sound(s), s.phase # "GameOver", s.action # "Remove"
  PROVE  Live(s) /\ s.pending_removals[s.side_to_move] = 0 /\ Clean(s)
<1>1. Live(s) /\ s.action = synced_action(s)
  BY DEF Coherent, Synced, Live
<1>2. ~(s.pending_removals[s.side_to_move] > 0)
  BY <1>1 DEF synced_action, Live
<1>3. s.pending_removals[s.side_to_move] = 0
  BY <1>1, <1>2, HandsAreNatural DEF Live
<1> QED BY <1>1, <1>3, DueIsClean DEF Sound

(* The flags that steer a removal never outlive it: the fast paths of      *)
(* apply_to_state, which assert that nothing is owed and drop the code     *)
(* that would re-establish it, can rely on that in every game, whatever    *)
(* captures, mill-formation, stalemate and board-full rules are played.    *)
THEOREM ObligationsAreCoherent == Spec => []ObligationsCoherent
<1>1. GameInv => ObligationsCoherent
  <2> SUFFICES ASSUME Good(state, options), Ongoing PROVE ObligationsCoherent
    BY DEF GameInv, ObligationsCoherent
  <2> DEFINE c == state.side_to_move
             d == Opp(c)
  <2>1. Coherent(state) /\ Sound(state) /\ state.phase # "GameOver"
    BY DEF Good, Ongoing
  <2>2. Live(state)
    BY <2>1 DEF Coherent, Synced, Live
  <2>3. state.action # "Remove" => Clean(state)
    BY <2>1, FreeTurn
  <2>4. Clean(state) => ~Owing
    BY DEF Clean, Owing
  <2>5. Sides = {c, d} /\ d # c /\ c \in Sides
    BY <2>2, TwoSides, OppIsSide DEF Live
  <2>6. Targets(state, d) = {} /\ Targets(state, c) \subseteq piece_bitboard(state, d)
    BY <2>1 DEF Sound, Due
  <2>7. Targets(state, c) # {} => state.pending_removals[c] > 0
    <3>1. state.pending_removals[c] \in Nat
      BY <2>2, <2>5, HandsAreNatural DEF Live
    <3> QED BY <2>1, <3>1 DEF Sound, Due
  <2>8. \A k \in Sides : Targets(state, k) # {} =>
           /\ k = c /\ state.pending_removals[k] > 0
           /\ Targets(state, k) \subseteq piece_bitboard(state, Opp(k))
    BY <2>5, <2>6, <2>7
  <2>9. \A k \in Sides : Targets(state, k) =
           state.custodian_targets[k] \union state.intervention_targets[k]
             \union state.leap_targets[k]
    BY DEF Targets
  <2> QED BY <2>3, <2>4, <2>8, <2>9 DEF ObligationsCoherent, Clean
<1> QED BY <1>1, GameInvariant, PTL

(* sync_phase_with_active_hand keeps phase and hand in step also when the  *)
(* hands run out at different times, which only some of the placing rules  *)
(* make happen.                                                            *)
THEOREM PhaseIsTheHands == Spec => []PhaseFollowsHand
<1>1. GameInv => PhaseFollowsHand
  BY FreeTurn DEF GameInv, Good, Sound, Phased, PhaseFollowsHand, Ongoing
<1> QED BY <1>1, GameInvariant, PTL

(* The counters kept by every path of apply_to_state are exactly the       *)
(* pieces on the board, no side ever has more material than it started     *)
(* with, and a delayed mark does not outlive the placing phase.            *)
THEOREM MaterialIsAccounted == Spec => []MaterialAccounted
<1>1. GameInv => MaterialAccounted
  <2> SUFFICES ASSUME Good(state, options) PROVE MaterialAccounted
    BY DEF GameInv
  <2>1. ASSUME Ongoing, ~Owing, state.pieces_in_hand = Both(0)
        PROVE  state.marked = {}
    <3>1. Live(state)
      BY <2>1 DEF Good, Coherent, Synced, Live, Ongoing
    <3>2. state.pending_removals[state.side_to_move] = 0
      BY <2>1, <3>1, HandsAreNatural DEF Live, Owing
    <3>3. state.pieces_in_hand[state.side_to_move] = 0
      BY <2>1, <3>1, BothAt DEF Live
    <3> QED BY <2>1, <3>2, <3>3 DEF Good, Sound, Phased, Swept, Ongoing
  <2>2. Counted(state, options)
    BY DEF Good
  <2> QED BY <2>1, <2>2 DEF MaterialAccounted, Material, Counted
<1> QED BY <1>1, GameInvariant, PTL

(* The n-move rule cannot be outrun in play: however the threshold changes *)
(* when a side is reduced to three pieces, no position in which a side is  *)
(* to move has gone it without a capture.                                  *)
THEOREM NMoveRuleIsKept == Spec => []NMoveRuleBites
<1>1. GameInv => NMoveRuleBites
  <2> SUFFICES ASSUME Good(state, options), Ongoing, ~Owing PROVE ~Owes(state)
    BY DEF GameInv, Good, Paced, NMoveRuleBites, Ongoing
  <2>1. state.side_to_move \in Sides
    BY DEF Good, Coherent, Synced, Ongoing
  <2> QED BY <2>1 DEF Owing, Owes
<1> QED BY <1>1, GameInvariant, PTL

-----------------------------------------------------------------------------
(* What outlives a turn *)

(* The end of a turn, whatever it makes of the obligations, the phase and  *)
(* the turn itself, keeps what is remembered from one turn to the next:    *)
(* the repetition keys, the notes on mills and the counts on the board.    *)
(* It does not end the game by repetition either.                          *)
Memory == {"key_history", "last_mill_from", "last_mill_to", "formed_mills",
           "pieces_on_board"}

Recalls(s, t) ==
  /\ DOMAIN t = Fields
  /\ \A f \in Memory : t[f] = s[f]
  /\ t.outcome_reason = "DrawThreefold" => s.outcome_reason = "DrawThreefold"

LEMMA RecallsItself ==
  ASSUME NEW s, DOMAIN s = Fields
  PROVE  Recalls(s, s)
BY DEF Recalls

LEMMA RecallsTwice ==
  ASSUME NEW s, NEW t, NEW u, Recalls(s, t), Recalls(t, u)
  PROVE  Recalls(s, u)
BY DEF Recalls

LEMMA AltersRecalls ==
  ASSUME NEW s, NEW t, NEW F, Alters(s, t, F),
         F \intersect (Memory \union {"outcome_reason"}) = {}
  PROVE  Recalls(s, t)
<1>1. Memory \union {"outcome_reason"} \subseteq Fields
  BY DEF Memory, Fields
<1> QED BY <1>1 DEF Recalls, Alters

(* The assignments the end of a turn is made of.                           *)
LEMMA AssignmentsRecall ==
  ASSUME NEW w, NEW s, Recalls(w, s), NEW c, NEW x
  PROVE  /\ Recalls(w, [s EXCEPT !.side_to_move = x])
         /\ Recalls(w, [s EXCEPT !.pieces_in_hand = x])
         /\ Recalls(w, [s EXCEPT !.pieces_in_hand[c] = x])
         /\ Recalls(w, [s EXCEPT !.phase = x])
         /\ Recalls(w, [s EXCEPT !.action = x])
         /\ Recalls(w, [s EXCEPT !.mill_available_at_removal = x])
         /\ Recalls(w, [s EXCEPT !.stalemate_removing = x])
         /\ Recalls(w, [s EXCEPT !.pending_removals[c] = x])
BY DEF Recalls, Memory, Fields

LEMMA HelpersRecall ==
  ASSUME NEW w, NEW s, Recalls(w, s), NEW o
  PROVE  /\ Recalls(w, clear_capture_state(s))
         /\ Recalls(w, sync_action_state(s))
         /\ Recalls(w, sync_phase_with_active_hand(s))
         /\ \A n : Recalls(w, owe(s, n))
         /\ \A x, y, z : Recalls(w, activate_capture_state(s, x, y, z))
         /\ Recalls(w, apply_removal_based_on_mill_counts(s, o))
         /\ Recalls(w, sweep_marked(s))
         /\ \A owed, first : Recalls(w, board_full_removals(s, owed, first))
         /\ \A x, r : r # "DrawThreefold" => Recalls(w, game_over(s, x, r))
<1>1. Recalls(w, clear_capture_state(s))
  BY DEF Recalls, Memory, Fields, clear_capture_state
<1>2. Recalls(w, sync_action_state(s))
  BY AssignmentsRecall DEF sync_action_state
<1>3. Recalls(w, sync_phase_with_active_hand(s))
  BY AssignmentsRecall DEF sync_phase_with_active_hand
<1>4. \A n : Recalls(w, owe(s, n))
  BY AssignmentsRecall DEF owe
<1>5. \A x, y, z : Recalls(w, activate_capture_state(s, x, y, z))
  BY DEF Recalls, Memory, Fields, activate_capture_state
<1>6. Recalls(w, apply_removal_based_on_mill_counts(s, o))
  <2>1. \A x, y : Recalls(w, [s EXCEPT !.remove_own_piece = x,
                                       !.pending_removals = y,
                                       !.mill_available_at_removal = TRUE])
    BY DEF Recalls, Memory, Fields
  <2> QED BY <2>1 DEF apply_removal_based_on_mill_counts
<1>7. Recalls(w, sweep_marked(s))
  <2>1. \A x, y : Recalls(w, [s EXCEPT !.marked = x, !.board = y])
    BY DEF Recalls, Memory, Fields
  <2> QED BY <2>1 DEF sweep_marked
<1>8. \A owed, first : Recalls(w, board_full_removals(s, owed, first))
  BY DEF Recalls, Memory, Fields, board_full_removals
<1>9. \A x, r : r # "DrawThreefold" => Recalls(w, game_over(s, x, r))
  BY DEF Recalls, Memory, Fields, game_over
<1> QED BY <1>1, <1>2, <1>3, <1>4, <1>5, <1>6, <1>7, <1>8, <1>9

LEMMA EnterMovingRecalls ==
  ASSUME NEW w, NEW s, Recalls(w, s), NEW o
  PROVE  Recalls(w, enter_moving_phase(s, o))
<1> DEFINE moving == [s EXCEPT !.phase = "Moving"]
           swept == sweep_marked(moving)
           counted == IF CountedAction(o)
                        THEN apply_removal_based_on_mill_counts(swept, o)
                        ELSE swept
           side == IF o.is_defender_move_first THEN 1
                   ELSE IF KeepsSideAtPlacingEnd(o) THEN counted.side_to_move ELSE 0
<1>1. Recalls(w, moving)
  BY AssignmentsRecall
<1> HIDE DEF moving
<1>2. Recalls(w, swept)
  BY <1>1, HelpersRecall
<1> HIDE DEF swept
<1>3. Recalls(w, counted)
  BY <1>2, HelpersRecall
<1> HIDE DEF counted
<1>4. Recalls(w, [counted EXCEPT !.side_to_move = side])
  BY <1>3, AssignmentsRecall
<1> QED BY <1>4 DEF enter_moving_phase, moving, swept, counted, CountedAction

LEMMA TransitionRecalls ==
  ASSUME NEW w, NEW s, Recalls(w, s), NEW o
  PROVE  Recalls(w, maybe_transition_to_moving(s, o))
<1> DEFINE placed == IF s.phase = "Placing" /\ s.pieces_in_hand = Both(0)
                       THEN enter_moving_phase(s, o) ELSE s
           emptied == [placed EXCEPT !.pieces_in_hand = Both(0)]
<1>1. Recalls(w, placed)
  BY EnterMovingRecalls
<1> HIDE DEF placed
<1>2. Recalls(w, emptied)
  BY <1>1, AssignmentsRecall
<1> HIDE DEF emptied
<1>3. Recalls(w, enter_moving_phase(emptied, o))
  BY <1>2, EnterMovingRecalls
<1>4. maybe_transition_to_moving(s, o) \in {placed, enter_moving_phase(emptied, o)}
  BY DEF maybe_transition_to_moving, placed, emptied
<1> QED BY <1>1, <1>3, <1>4

LEMMA FullBoardRecalls ==
  ASSUME NEW w, NEW s, Recalls(w, s), NEW o
  PROVE  Recalls(w, maybe_finish_full_board(s, o))
BY HelpersRecall DEF maybe_finish_full_board

LEMMA SettleRecalls ==
  ASSUME NEW w, NEW s, Recalls(w, s), NEW o
  PROVE  Recalls(w, settle(s, o))
<1> DEFINE moved == maybe_transition_to_moving(s, o)
           phased == sync_phase_with_active_hand(moved)
           finished == maybe_finish_full_board(phased, o)
<1>1. Recalls(w, moved)
  BY TransitionRecalls
<1> HIDE DEF moved
<1>2. Recalls(w, phased)
  BY <1>1, HelpersRecall
<1> HIDE DEF phased
<1>3. Recalls(w, finished)
  BY <1>2, FullBoardRecalls
<1> HIDE DEF finished
<1>4. Recalls(w, sync_action_state(finished))
  BY <1>3, HelpersRecall
<1> QED BY <1>4 DEF settle, moved, phased, finished

LEMMA StalemateRecalls ==
  ASSUME NEW w, NEW s, Recalls(w, s), NEW o
  PROVE  Recalls(w, maybe_handle_stalemate(s, o))
<1> DEFINE c == s.side_to_move
           owing == [s EXCEPT !.pending_removals[c] = 1]
           again == [owing EXCEPT !.stalemate_removing = TRUE]
           both == [owing EXCEPT !.pending_removals[Opp(c)] = 1,
                                 !.both_stalemate_removing = TRUE]
           passed == [s EXCEPT !.side_to_move = Opp(c)]
           t == resolve_stalemate(s, o)
<1>1. Recalls(w, owing)
  BY AssignmentsRecall
<1>2. Recalls(w, again) /\ Recalls(w, both)
  <2> HIDE DEF owing
  <2>1. Recalls(w, again) /\ Recalls(w, both)
    BY <1>1 DEF Recalls, Memory, Fields
  <2> QED BY <1>1, <2>1
<1>3. Recalls(w, passed)
  BY AssignmentsRecall
<1>4. \A x, r : r # "DrawThreefold" =>
        Recalls(w, [s EXCEPT !.phase = "GameOver", !.winner = x, !.outcome_reason = r])
  BY DEF Recalls, Memory, Fields
<1>5. /\ Recalls(w, clear_capture_state(owing)) /\ Recalls(w, clear_capture_state(again))
      /\ Recalls(w, clear_capture_state(both))
      /\ Recalls(w, sync_phase_with_active_hand(passed))
  <2> HIDE DEF owing, again, both, passed
  <2> QED BY <1>1, <1>2, <1>3, HelpersRecall
<1>6. Recalls(w, t)
  <2> DEFINE Over(x, r) ==
               [s EXCEPT !.phase = "GameOver", !.winner = x, !.outcome_reason = r]
  <2>1. t \in {clear_capture_state(owing), clear_capture_state(again),
               clear_capture_state(both), sync_phase_with_active_hand(passed),
               Over(Opp(c), "LoseNoLegalMoves"), Over(DRAW, "DrawStalemate")}
    BY Zenon DEF resolve_stalemate
  <2>2. /\ Recalls(w, Over(Opp(c), "LoseNoLegalMoves"))
        /\ Recalls(w, Over(DRAW, "DrawStalemate"))
    BY <1>4
  <2> HIDE DEF owing, again, both, passed, Over, t
  <2> QED BY <1>5, <2>1, <2>2
<1> HIDE DEF t
<1>7. Recalls(w, sync_action_state(t))
  BY <1>6, HelpersRecall
<1> QED BY <1>7 DEF maybe_handle_stalemate, t

(* What place_live_piece and move_live_piece are followed by: a turn that  *)
(* completes usable lines notes them, and nothing else of the memory       *)
(* changes, whichever way the mill is paid for.                            *)
LEMMA CaptureOnlyRecalls ==
  ASSUME NEW w, NEW s, Recalls(w, s), NEW custodian, NEW intervention
  PROVE  Recalls(w, capture_only(s, custodian, intervention))
<1> DEFINE active == activate_capture_state(s, custodian, intervention, {})
           owing == owe(active, capture_total(active))
           t == [owing EXCEPT !.mill_available_at_removal = FALSE]
<1>1. Recalls(w, active)
  BY HelpersRecall
<1> HIDE DEF active
<1>2. Recalls(w, owing)
  BY <1>1, HelpersRecall
<1> HIDE DEF owing
<1>3. Recalls(w, t)
  BY <1>2, AssignmentsRecall
<1> HIDE DEF t
<1>4. Recalls(w, sync_action_state(t))
  BY <1>3, HelpersRecall
<1> QED BY <1>4 DEF capture_only, t, owing, active

LEMMA PlacedMillRecalls ==
  ASSUME NEW w, NEW s, Recalls(w, s), NEW o, NEW lines, NEW custodian, NEW intervention
  PROVE  /\ Recalls(w, place_mill_from_hand(s, o, lines))
         /\ Recalls(w, place_mill_counted(s, o))
         /\ Recalls(w, place_mill_on_board(s, o, lines, custodian, intervention))
         /\ Recalls(w, place_quietly(s, o))
<1>1. Recalls(w, place_mill_from_hand(s, o, lines))
  <2> DEFINE c == s.side_to_move
             earned == removal_count(lines, o)
             taken == hand_removed(earned, s.pieces_in_hand[Opp(c)])
             drawn == [s EXCEPT !.pieces_in_hand[Opp(c)] = @ - taken]
             next == IF o.mill_formation_action_in_placing_phase
                          = "RemoveOpponentsPieceFromHandThenOpponentsTurn"
                       THEN Opp(c) ELSE c
             owing == owe(drawn, earned - taken)
             passed == [drawn EXCEPT !.side_to_move = next]
             t == IF earned > taken THEN sync_action_state(owing) ELSE settle(passed, o)
  <2>1. Recalls(w, drawn)
    BY AssignmentsRecall
  <2> HIDE DEF drawn
  <2>2. Recalls(w, owing) /\ Recalls(w, passed)
    BY <2>1, AssignmentsRecall, HelpersRecall
  <2> HIDE DEF owing, passed
  <2>3. Recalls(w, t)
    BY <2>2, HelpersRecall, SettleRecalls
  <2> HIDE DEF t
  <2>4. Recalls(w, clear_capture_state(t))
    BY <2>3, HelpersRecall
  <2>5. place_mill_from_hand(s, o, lines) = clear_capture_state(t)
    BY DEF place_mill_from_hand, t, passed, owing, drawn
  <2> QED BY <2>4, <2>5
<1>2. Recalls(w, place_mill_counted(s, o))
  <2> DEFINE cleared == clear_capture_state(s)
             counted == apply_removal_based_on_mill_counts(cleared, o)
             passed == [cleared EXCEPT !.side_to_move = Opp(cleared.side_to_move)]
  <2>1. Recalls(w, cleared)
    BY HelpersRecall
  <2> HIDE DEF cleared
  <2>2. Recalls(w, counted) /\ Recalls(w, passed)
    BY <2>1, AssignmentsRecall, HelpersRecall
  <2>3. place_mill_counted(s, o) =
          settle(IF s.pieces_in_hand = Both(0) THEN counted ELSE passed, o)
    BY DEF place_mill_counted, cleared
  <2> HIDE DEF counted, passed
  <2> QED BY <2>2, <2>3, SettleRecalls
<1>3. Recalls(w, place_mill_on_board(s, o, lines, custodian, intervention))
  <2> DEFINE earned == removal_count(lines, o)
             owed == owe(s, earned)
             owing == [owed EXCEPT !.mill_available_at_removal = TRUE]
             active == activate_capture_state(owing, custodian, intervention, {})
             total == earned + capture_total(active)
             t == IF o.may_remove_multiple THEN owe(active, total) ELSE active
  <2>1. Recalls(w, owed)
    BY HelpersRecall
  <2> HIDE DEF owed
  <2>2. Recalls(w, owing)
    BY <2>1, AssignmentsRecall
  <2> HIDE DEF owing
  <2>3. Recalls(w, active)
    BY <2>2, HelpersRecall
  <2> HIDE DEF active
  <2>4. Recalls(w, t)
    BY <2>3, HelpersRecall
  <2> HIDE DEF t
  <2>5. Recalls(w, sync_action_state(t))
    BY <2>4, HelpersRecall
  <2> QED BY <2>5 DEF place_mill_on_board, t, active, owing, owed
<1>4. Recalls(w, place_quietly(s, o))
  <2> DEFINE cleared == clear_capture_state(s)
             stopped == maybe_stop_placing_when_two_empty(cleared, o)
             passed == [stopped EXCEPT !.side_to_move = Opp(stopped.side_to_move)]
  <2>1. Recalls(w, cleared)
    BY HelpersRecall
  <2> HIDE DEF cleared
  <2>2. Recalls(w, stopped)
    BY <2>1, AssignmentsRecall DEF maybe_stop_placing_when_two_empty
  <2> HIDE DEF stopped
  <2>3. Recalls(w, passed)
    BY <2>2, AssignmentsRecall
  <2> HIDE DEF passed
  <2>4. place_quietly(s, o) \in {settle(stopped, o), settle(passed, o)}
    BY DEF place_quietly, stopped, cleared, passed
  <2> QED BY <2>2, <2>3, <2>4, SettleRecalls
<1> QED BY <1>1, <1>2, <1>3, <1>4

(* A mill noted: what is remembered afterwards.                            *)
LEMMA NoteMemory ==
  ASSUME NEW s, DOMAIN s = Fields, NEW o, NEW c, NEW from, NEW to, NEW lines
  PROVE  LET t == note_mill_formation(s, o, c, from, to, lines)
             noted == o.restrict_repeated_mills_formation
         IN /\ Alters(s, t, {"last_mill_from", "last_mill_to", "formed_mills"})
            /\ t.last_mill_from =
                 [s.last_mill_from EXCEPT ![c] = IF noted THEN from ELSE NONE]
            /\ t.last_mill_to =
                 [s.last_mill_to EXCEPT ![c] = IF noted THEN to ELSE NONE]
            /\ t.formed_mills =
                 [s.formed_mills EXCEPT ![c] =
                    IF o.one_time_use_mill THEN @ \union UNION lines ELSE @]
BY DEF Alters, Fields, note_mill_formation

LEMMA NoteFields ==
  ASSUME NEW s, DOMAIN s = Fields, NEW o, NEW c, NEW from, NEW to, NEW lines
  PROVE  DOMAIN note_mill_formation(s, o, c, from, to, lines) = Fields
BY DEF note_mill_formation

-----------------------------------------------------------------------------
(* A placement *)

(* apply_place, and the stalemate check after it: the lines completed are  *)
(* noted and nothing else of the memory changes.                           *)
LEMMA PlaceNotes ==
  ASSUME NEW s, Live(s), NEW o, NEW to \in Nodes
  PROVE  LET c == s.side_to_move
             placed == place_live_piece(s, to)
             lines == usable_mills(placed, o, formed_mills_at(placed, o, to, c))
             t == maybe_handle_stalemate(apply_place(s, o, to), o)
         IN /\ lines = {} => Recalls(placed, t)
            /\ lines # {} =>
                 \E m : /\ Recalls(placed, m)
                        /\ Recalls(note_mill_formation(m, o, c, NONE, to, lines), t)
<1> DEFINE c == s.side_to_move
           placed == place_live_piece(s, to)
           custodian == detect_custodian_targets(placed, o, to)
           intervention == detect_intervention_targets(placed, o, to)
           lines == usable_mills(placed, o, formed_mills_at(placed, o, to, c))
           mill == IF o.mill_formation_action_in_placing_phase \in FromHandActions
                     THEN place_mill_from_hand(placed, o, lines)
                   ELSE IF o.mill_formation_action_in_placing_phase
                             = "RemovalBasedOnMillCounts"
                     THEN place_mill_counted(placed, o)
                   ELSE place_mill_on_board(placed, o, lines, custodian, intervention)
           noted == note_mill_formation(mill, o, c, NONE, to, lines)
           t == apply_place(s, o, to)
<1>1. DOMAIN placed = Fields
  BY PlacedLive, FieldsOfState DEF Live
<1>2. t = IF lines # {} THEN noted
          ELSE IF custodian \union intervention # {}
            THEN capture_only(placed, custodian, intervention)
          ELSE place_quietly(placed, o)
  BY DEF apply_place
<1> HIDE DEF placed, custodian, intervention, lines, t
<1>3. Recalls(placed, mill)
  BY <1>1, RecallsItself, PlacedMillRecalls
<1>4. lines = {} => Recalls(placed, t)
  BY <1>1, <1>2, RecallsItself, PlacedMillRecalls, CaptureOnlyRecalls
<1> HIDE DEF mill
<1>5. DOMAIN noted = Fields
  BY <1>3, NoteFields DEF Recalls
<1>6. lines = {} => Recalls(placed, maybe_handle_stalemate(t, o))
  BY <1>4, StalemateRecalls
<1>7. lines # {} => Recalls(noted, maybe_handle_stalemate(t, o))
  BY <1>2, <1>5, RecallsItself, StalemateRecalls
<1> QED BY <1>3, <1>6, <1>7 DEF t, lines, placed

(* A piece set down forgets the repetition keys and is counted, whichever  *)
(* path it takes.                                                          *)
LEMMA PlaceForgets ==
  ASSUME NEW s, Live(s), NEW o, NEW a, a.kind = "Place", a.to \in Nodes
  PROVE  LET t == apply_to_state(s, o, a, TRUE)
             c == s.side_to_move
         IN /\ t.key_history = << >>
            /\ t.pieces_on_board = [s.pieces_on_board EXCEPT ![c] = @ + 1]
            /\ t.outcome_reason = "DrawThreefold" => s.outcome_reason = "DrawThreefold"
<1> DEFINE c == s.side_to_move
           placed == place_live_piece(s, a.to)
           lines == usable_mills(placed, o, formed_mills_at(placed, o, a.to, c))
           slow == maybe_handle_stalemate(apply_place(s, o, a.to), o)
           quick == IF s.pieces_on_board[c] >= 2
                      THEN formed_mills_at(placed, o, a.to, c) ELSE {}
           done == fast_placed(s, o, a.to)
           t == apply_to_state(s, o, a, TRUE)
<1>1. /\ DOMAIN placed = Fields
      /\ placed.key_history = << >>
      /\ placed.pieces_on_board = [s.pieces_on_board EXCEPT ![c] = @ + 1]
      /\ placed.outcome_reason = s.outcome_reason
  <2>1. DOMAIN s = Fields
    BY FieldsOfState DEF Live
  <2> QED BY <2>1 DEF place_live_piece, clear_key_history, Fields
<1>2. \A u : (\E m, from, to, l : /\ Recalls(placed, m)
                                 /\ Recalls(note_mill_formation(m, o, c, from, to, l), u))
              => /\ u.key_history = placed.key_history
                 /\ u.pieces_on_board = placed.pieces_on_board
                 /\ u.outcome_reason = "DrawThreefold"
                      => placed.outcome_reason = "DrawThreefold"
  <2> SUFFICES ASSUME NEW u, NEW m, NEW from, NEW to, NEW l, Recalls(placed, m),
                      Recalls(note_mill_formation(m, o, c, from, to, l), u)
               PROVE  /\ u.key_history = placed.key_history
                      /\ u.pieces_on_board = placed.pieces_on_board
                      /\ u.outcome_reason = "DrawThreefold"
                           => placed.outcome_reason = "DrawThreefold"
    BY Zenon
  <2> DEFINE n == note_mill_formation(m, o, c, from, to, l)
  <2>1. Alters(m, n, {"last_mill_from", "last_mill_to", "formed_mills"})
    BY NoteMemory DEF Recalls
  <2> HIDE DEF n
  <2>2. /\ n.key_history = m.key_history /\ n.pieces_on_board = m.pieces_on_board
        /\ n.outcome_reason = m.outcome_reason
    BY <2>1 DEF Alters, Fields
  <2>3. /\ u.key_history = n.key_history /\ u.pieces_on_board = n.pieces_on_board
        /\ u.outcome_reason = "DrawThreefold" => n.outcome_reason = "DrawThreefold"
    BY DEF Recalls, Memory, n
  <2> QED BY <2>2, <2>3 DEF Recalls, Memory
<1>3. \A u : Recalls(placed, u) =>
        /\ u.key_history = placed.key_history
        /\ u.pieces_on_board = placed.pieces_on_board
        /\ u.outcome_reason = "DrawThreefold" => placed.outcome_reason = "DrawThreefold"
  BY DEF Recalls, Memory
<1>4. /\ slow.key_history = placed.key_history
      /\ slow.pieces_on_board = placed.pieces_on_board
      /\ slow.outcome_reason = "DrawThreefold" => placed.outcome_reason = "DrawThreefold"
  <2>1. /\ lines = {} => Recalls(placed, slow)
        /\ lines # {} =>
             \E m : /\ Recalls(placed, m)
                    /\ Recalls(note_mill_formation(m, o, c, NONE, a.to, lines), slow)
    BY PlaceNotes
  <2> HIDE DEF slow, lines, placed
  <2> QED BY <1>2, <1>3, <2>1
<1>5. LET u == fast_place(s, o, a.to)
      IN /\ u.key_history = placed.key_history
         /\ u.pieces_on_board = placed.pieces_on_board
         /\ u.outcome_reason = "DrawThreefold" => placed.outcome_reason = "DrawThreefold"
  <2> DEFINE owed == owe(placed, removal_count(quick, o))
             owing == [owed EXCEPT !.mill_available_at_removal = TRUE]
             passed == [placed EXCEPT !.side_to_move = Opp(c)]
             u == fast_place(s, o, a.to)
  <2>1. done = IF quick # {}
                 THEN note_mill_formation(sync_action_state(owing), o, c, NONE, a.to, quick)
                 ELSE settle(passed, o)
    BY DEF fast_placed
  <2> HIDE DEF placed, quick, done
  <2>2. Recalls(placed, owed) /\ Recalls(placed, passed)
    BY <1>1, RecallsItself, HelpersRecall, AssignmentsRecall
  <2> HIDE DEF owed, passed
  <2>3. Recalls(placed, owing)
    BY <2>2, AssignmentsRecall
  <2> HIDE DEF owing
  <2>4. Recalls(placed, sync_action_state(owing)) /\ Recalls(placed, settle(passed, o))
    BY <2>2, <2>3, HelpersRecall, SettleRecalls
  <2>5. u \in {done, maybe_handle_stalemate(done, o)}
    BY DEF fast_place, done
  <2>6. CASE quick = {}
    <3>1. Recalls(placed, done)
      BY <2>1, <2>4, <2>6
    <3>2. Recalls(placed, u)
      BY <2>5, <3>1, StalemateRecalls
    <3> QED BY <1>3, <3>2
  <2>7. CASE quick # {}
    <3> DEFINE m == sync_action_state(owing)
    <3>1. Recalls(placed, m) /\ done = note_mill_formation(m, o, c, NONE, a.to, quick)
      BY <2>1, <2>4, <2>7
    <3> HIDE DEF m
    <3>2. DOMAIN done = Fields
      BY <3>1, NoteFields DEF Recalls
    <3>3. Recalls(done, u)
      BY <2>5, <3>2, RecallsItself, StalemateRecalls
    <3> QED BY <1>2, <3>1, <3>3
  <2> QED BY <2>6, <2>7
<1>6. t \in {slow, fast_place(s, o, a.to)}
  BY DEF apply_to_state, apply_generally
<1> HIDE DEF t, slow
<1> QED BY <1>1, <1>4, <1>5, <1>6 DEF t

-----------------------------------------------------------------------------
(* A removal *)

(* What a removal changes of the memory: the keys go, a piece is counted   *)
(* off, the notes on mills stay.                                           *)
RemovalNotes == {"last_mill_from", "last_mill_to", "formed_mills"}

LEMMA RemoveForgets ==
  ASSUME NEW s, NEW o \in MillVariantOptions, Good(s, o),
         NEW a \in legal_actions(s, o), a.kind = "Remove"
  PROVE  LET t == apply_to_state(s, o, a, TRUE)
         IN /\ t.key_history = << >>
            /\ \A f \in RemovalNotes : t[f] = s[f]
            /\ t.outcome_reason = "DrawThreefold" => s.outcome_reason = "DrawThreefold"
            /\ \E target \in Sides :
                 /\ t.pieces_on_board[target] = s.pieces_on_board[target] - 1
                 /\ \A k \in Sides \ {target} :
                      t.pieces_on_board[k] = s.pieces_on_board[k]
<1> DEFINE c == s.side_to_move
           own == s.remove_own_piece[c]
           target == IF own THEN c ELSE Opp(c)
           owing == choose_obligation(s, o, a.to)
           less == take_piece(owing, o, a.to, target)
           w == consume_target(less, o, a.to)
           t == apply_remove(s, o, a.to)
           u == maybe_handle_stalemate(t, o)
<1>1. /\ Live(s) /\ s.phase # "GameOver" /\ s.action = "Remove" /\ Owes(s)
      /\ target \in Sides /\ a.to \in piece_bitboard(s, target) /\ a.to \in Nodes
      /\ Sound(s) /\ Counted(s, o) /\ s \in MillStates
  BY LegalRemove, OccupancyOnBoard DEF Good, Live
<1>2. s.pieces_on_board[target] > 0
  <2> HIDE DEF target
  <2> QED BY <1>1, PieceIsCounted
<1>3. /\ Coherent(t) /\ Sound(t)
      /\ \E x \in MillStates : Taken(s, x, a.to, target) /\ Keeps(x, t)
  <2>1. Coherent(t)
    BY <1>1, RemoveCoherent
  <2> HIDE DEF t
  <2> QED BY <1>1, <1>2, <2>1, RemoveSound DEF target, t
<1>4. Keeps(t, u)
  <2> HIDE DEF t
  <2> QED BY <1>3, StalemateSound
<1>5. \E k \in Sides :
         /\ u.pieces_on_board[k] = s.pieces_on_board[k] - 1
         /\ \A j \in Sides \ {k} : u.pieces_on_board[j] = s.pieces_on_board[j]
  <2> HIDE DEF t, u, target
  <2> QED BY <1>1, <1>3, <1>4 DEF Taken, Keeps
<1>6. /\ DOMAIN owing = Fields
      /\ \A f \in RemovalNotes \union {"outcome_reason"} : owing[f] = s[f]
  <2>1. Alters(s, owing, CaptureState \union {"pending_removals"})
    BY <1>1, ObligationEffect
  <2> HIDE DEF owing
  <2> QED BY <2>1 DEF Alters, Fields, CaptureState, RemovalNotes
<1> HIDE DEF owing
<1>7. /\ DOMAIN less = Fields /\ less.key_history = << >>
      /\ \A f \in RemovalNotes \union {"outcome_reason"} : less[f] = s[f]
  <2> DEFINE d == owing.side_to_move
             Less(k) == IF k > 0 THEN k - 1 ELSE 0
             taken == IF marks_removal(owing, o)
                        THEN [owing EXCEPT !.marked = @ \union {a.to}]
                        ELSE [owing EXCEPT !.board[a.to] = NONE]
             counted == [taken EXCEPT !.pieces_on_board[target] = Less(@),
                           !.pending_removals[d] = Less(@), !.ply_since_capture = 0]
  <2>1. /\ DOMAIN taken = Fields
        /\ \A f \in RemovalNotes \union {"outcome_reason"} : taken[f] = s[f]
    BY <1>6 DEF Fields, RemovalNotes
  <2> HIDE DEF taken
  <2>2. /\ DOMAIN counted = Fields
        /\ \A f \in RemovalNotes \union {"outcome_reason"} : counted[f] = s[f]
    BY <2>1 DEF Fields, RemovalNotes
  <2>3. less = clear_key_history(counted)
    BY DEF take_piece, taken
  <2> HIDE DEF counted, less
  <2> QED BY <2>2, <2>3 DEF clear_key_history, Fields, RemovalNotes
<1> HIDE DEF less, target
<1>8. /\ DOMAIN w = Fields /\ w.key_history = << >>
      /\ \A f \in RemovalNotes \union {"outcome_reason"} : w[f] = s[f]
  BY <1>7 DEF consume_target, Fields, RemovalNotes
<1> HIDE DEF w
<1>9. Recalls(w, t)
  <2>1. Recalls(w, game_over(w, Opp(target), "LoseFewerThanThree"))
    BY <1>8, RecallsItself, HelpersRecall
  <2>2. Recalls(w, finish_removal(w, o, own))
    <3> DEFINE e == w.side_to_move
               paid == clear_capture_state_for_side(w, e)
               done == [paid EXCEPT
                 !.remove_own_piece[e] = IF own THEN FALSE ELSE @,
                 !.stalemate_removing = FALSE,
                 !.side_to_move = IF w.stalemate_removing THEN @ ELSE Opp(@),
                 !.both_stalemate_removing = @ /\ w.pending_removals # Both(0),
                 !.board_full_removing = @ /\ w.pending_removals # Both(0)]
    <3>1. Recalls(w, paid)
      BY <1>8 DEF Recalls, Memory, Fields, clear_capture_state_for_side
    <3> HIDE DEF paid
    <3>2. Recalls(w, done)
      BY <3>1 DEF Recalls, Memory, Fields
    <3> HIDE DEF done
    <3>3. Recalls(w, settle(done, o))
      BY <3>2, SettleRecalls
    <3> QED BY <3>3 DEF finish_removal, done, paid
  <2>3. t \in {game_over(w, Opp(target), "LoseFewerThanThree"),
               finish_removal(w, o, own), w}
    BY DEF apply_remove, w, less, owing, target
  <2> HIDE DEF t
  <2> QED BY <1>8, <2>1, <2>2, <2>3, RecallsItself
<1> HIDE DEF t
<1>10. Recalls(w, u)
  BY <1>9, StalemateRecalls
<1>11. apply_to_state(s, o, a, TRUE) = u
  BY DEF apply_to_state, apply_generally, u, t
<1> HIDE DEF u
<1>12. \A f \in RemovalNotes : f \in Memory
  BY DEF RemovalNotes, Memory
<1> QED BY <1>5, <1>8, <1>10, <1>11, <1>12 DEF Recalls, Memory

-----------------------------------------------------------------------------
(* A move *)

(* What a move and the end of its turn leave alone once the piece has been *)
(* moved: the board, the hands and the counts.                             *)
BoardFields == {"board", "marked", "pieces_in_hand", "pieces_on_board",
                "ply_since_capture"}
Stays(s, t) == DOMAIN t = Fields /\ \A f \in BoardFields : t[f] = s[f]

LEMMA AltersStays ==
  ASSUME NEW s, NEW t, NEW F, Alters(s, t, F), F \intersect BoardFields = {}
  PROVE  Stays(s, t)
<1>1. BoardFields \subseteq Fields
  BY DEF BoardFields, Fields
<1> QED BY <1>1 DEF Stays, Alters

LEMMA HelpersStay ==
  ASSUME NEW w, NEW s, Stays(w, s), NEW o
  PROVE  /\ Stays(w, clear_capture_state(s))
         /\ Stays(w, sync_action_state(s))
         /\ Stays(w, sync_phase_with_active_hand(s))
         /\ \A n : Stays(w, owe(s, n))
         /\ \A x, y, z : Stays(w, activate_capture_state(s, x, y, z))
         /\ \A b : Stays(w, [s EXCEPT !.mill_available_at_removal = b])
         /\ \A c, from, to, lines :
              Stays(w, note_mill_formation(s, o, c, from, to, lines))
<1>1. Stays(w, clear_capture_state(s))
  BY DEF Stays, BoardFields, Fields, clear_capture_state
<1>2. Stays(w, sync_action_state(s))
  BY DEF Stays, BoardFields, Fields, sync_action_state
<1>3. Stays(w, sync_phase_with_active_hand(s))
  <2>1. \A x : Stays(w, [s EXCEPT !.phase = x])
    BY DEF Stays, BoardFields, Fields
  <2> QED BY <2>1 DEF sync_phase_with_active_hand
<1>4. \A n : Stays(w, owe(s, n))
  BY DEF Stays, BoardFields, Fields, owe
<1>5. \A x, y, z : Stays(w, activate_capture_state(s, x, y, z))
  BY DEF Stays, BoardFields, Fields, activate_capture_state
<1>6. \A b : Stays(w, [s EXCEPT !.mill_available_at_removal = b])
  BY DEF Stays, BoardFields, Fields
<1>7. \A c, from, to, lines : Stays(w, note_mill_formation(s, o, c, from, to, lines))
  BY DEF Stays, BoardFields, Fields, note_mill_formation
<1> QED BY <1>1, <1>2, <1>3, <1>4, <1>5, <1>6, <1>7

LEMMA StalemateStays ==
  ASSUME NEW w, NEW s, Stays(w, s), NEW o
  PROVE  Stays(w, maybe_handle_stalemate(s, o))
<1> DEFINE c == s.side_to_move
           owing == [s EXCEPT !.pending_removals[c] = 1]
           again == [owing EXCEPT !.stalemate_removing = TRUE]
           both == [owing EXCEPT !.pending_removals[Opp(c)] = 1,
                                 !.both_stalemate_removing = TRUE]
           passed == [s EXCEPT !.side_to_move = Opp(c)]
           t == resolve_stalemate(s, o)
           Over(x, r) ==
             [s EXCEPT !.phase = "GameOver", !.winner = x, !.outcome_reason = r]
<1>1. Stays(w, owing) /\ Stays(w, passed)
  BY DEF Stays, BoardFields, Fields
<1>2. Stays(w, again) /\ Stays(w, both)
  <2> HIDE DEF owing
  <2> QED BY <1>1 DEF Stays, BoardFields, Fields
<1>3. \A x, r : Stays(w, Over(x, r))
  BY DEF Stays, BoardFields, Fields
<1>4. t \in {clear_capture_state(owing), clear_capture_state(again),
             clear_capture_state(both), sync_phase_with_active_hand(passed),
             Over(Opp(c), "LoseNoLegalMoves"), Over(DRAW, "DrawStalemate")}
  BY Zenon DEF resolve_stalemate
<1> HIDE DEF owing, again, both, passed, Over, t
<1>5. Stays(w, t)
  BY <1>1, <1>2, <1>3, <1>4, HelpersStay
<1>6. Stays(w, sync_action_state(t))
  BY <1>5, HelpersStay
<1> QED BY <1>6 DEF maybe_handle_stalemate, t

(* The position a quiet move is recorded and judged in.                    *)
Passed(s) ==
  [clear_capture_state(s) EXCEPT !.last_mill_from[s.side_to_move] = NONE,
     !.last_mill_to[s.side_to_move] = NONE, !.side_to_move = Opp(s.side_to_move)]

LEMMA PassedEffect ==
  ASSUME NEW s, DOMAIN s = Fields
  PROVE  LET t == Passed(s)
         IN /\ DOMAIN t = Fields /\ Stays(s, t)
            /\ t.key_history = s.key_history /\ t.phase = s.phase
            /\ t.formed_mills = s.formed_mills /\ t.outcome_reason = s.outcome_reason
            /\ t.pending_removals = s.pending_removals
            /\ t.side_to_move = Opp(s.side_to_move)
            /\ t.last_mill_from = [s.last_mill_from EXCEPT ![s.side_to_move] = NONE]
            /\ t.last_mill_to = [s.last_mill_to EXCEPT ![s.side_to_move] = NONE]
BY DEF Passed, Stays, BoardFields, Fields, clear_capture_state

(* The n-move rule gives way to a repetition just drawn, and judges it no  *)
(* draw by repetition itself.                                              *)
LEMMA JudgedMemory ==
  ASSUME NEW s, DOMAIN s = Fields, NEW o, s.outcome_reason # "DrawThreefold"
  PROVE  LET p == push_key(s, o)
             t == maybe_draw_by_n_move_rule(push_key_and_check_threefold(s, o), o)
             key == repetition_signature(s)
         IN /\ Alters(p, t, {"phase", "winner", "outcome_reason", "side_to_move"})
            /\ Alters(s, p, {"key_history"})
            /\ t.outcome_reason = "DrawThreefold" <=>
                 /\ o.threefold_repetition_rule
                 /\ Occurrences(p.key_history, key) >= 3
            /\ t.phase = "GameOver" \/ t = p
<1> DEFINE p == push_key(s, o)
           u == push_key_and_check_threefold(s, o)
           t == maybe_draw_by_n_move_rule(u, o)
           key == repetition_signature(s)
           E == {"phase", "winner", "outcome_reason", "side_to_move"}
           drawn == o.threefold_repetition_rule /\ Occurrences(p.key_history, key) >= 3
<1>1. Alters(s, p, {"key_history"}) /\ p.outcome_reason # "DrawThreefold"
  BY DEF push_key, Alters, Fields
<1>2. u = IF drawn THEN game_over(p, DRAW, "DrawThreefold") ELSE p
  BY DEF push_key_and_check_threefold
<1> HIDE DEF p, drawn
<1>3. \A x, r : LET g == game_over(p, x, r)
                IN /\ Alters(p, g, E) /\ g.phase = "GameOver" /\ g.outcome_reason = r
  BY <1>1 DEF game_over, Alters, Fields
<1>4. Alters(p, p, E)
  BY <1>1 DEF Alters
<1> HIDE DEF u
<1>5. CASE drawn
  <2>1. Alters(p, u, E) /\ u.phase = "GameOver" /\ u.outcome_reason = "DrawThreefold"
    BY <1>2, <1>3, <1>5
  <2>2. t = u
    BY <2>1 DEF maybe_draw_by_n_move_rule, MoveCounting
  <2> QED BY <1>1, <1>5, <2>1, <2>2 DEF t, u, p, drawn
<1>6. CASE ~drawn
  <2>1. u = p
    BY <1>2, <1>6
  <2>2. \/ t = p
        \/ \E x, r : r # "DrawThreefold" /\ t = game_over(p, x, r)
    BY <2>1 DEF maybe_draw_by_n_move_rule
  <2> HIDE DEF t
  <2>3. Alters(p, t, E) /\ t.outcome_reason # "DrawThreefold"
        /\ (t.phase = "GameOver" \/ t = p)
    BY <1>1, <1>3, <1>4, <2>2
  <2> QED BY <1>1, <1>6, <2>3 DEF t, u, p, drawn
<1> QED BY <1>5, <1>6

(* Resolving a stalemate keeps the side to move or owes nothing new.       *)
LEMMA StalemateTurn ==
  ASSUME NEW s, DOMAIN s = Fields, NEW o
  PROVE  LET t == maybe_handle_stalemate(s, o)
         IN t.side_to_move = s.side_to_move \/ t.pending_removals = s.pending_removals
<1> DEFINE c == s.side_to_move
           owing == [s EXCEPT !.pending_removals[c] = 1]
           again == [owing EXCEPT !.stalemate_removing = TRUE]
           both == [owing EXCEPT !.pending_removals[Opp(c)] = 1,
                                 !.both_stalemate_removing = TRUE]
           passed == [s EXCEPT !.side_to_move = Opp(c)]
           t == resolve_stalemate(s, o)
           Over(x, r) ==
             [s EXCEPT !.phase = "GameOver", !.winner = x, !.outcome_reason = r]
           Fine(u) == u.side_to_move = c \/ u.pending_removals = s.pending_removals
<1>1. /\ DOMAIN owing = Fields /\ owing.side_to_move = c
      /\ DOMAIN passed = Fields /\ passed.pending_removals = s.pending_removals
  BY DEF Fields
<1>2. /\ DOMAIN again = Fields /\ again.side_to_move = c
      /\ DOMAIN both = Fields /\ both.side_to_move = c
  <2> HIDE DEF owing
  <2> QED BY <1>1 DEF Fields
<1>3. \A x, r : DOMAIN Over(x, r) = Fields /\ Over(x, r).side_to_move = c
  BY DEF Fields
<1>4. \A u : DOMAIN u = Fields =>
        /\ clear_capture_state(u).side_to_move = u.side_to_move
        /\ sync_action_state(u).side_to_move = u.side_to_move
        /\ sync_action_state(u).pending_removals = u.pending_removals
        /\ sync_phase_with_active_hand(u).pending_removals = u.pending_removals
        /\ DOMAIN clear_capture_state(u) = Fields
        /\ DOMAIN sync_phase_with_active_hand(u) = Fields
  BY DEF clear_capture_state, sync_action_state, sync_phase_with_active_hand, Fields
<1>5. t \in {clear_capture_state(owing), clear_capture_state(again),
             clear_capture_state(both), sync_phase_with_active_hand(passed),
             Over(Opp(c), "LoseNoLegalMoves"), Over(DRAW, "DrawStalemate")}
  BY Zenon DEF resolve_stalemate
<1> HIDE DEF owing, again, both, passed, Over, t, c
<1>6. Fine(t) /\ DOMAIN t = Fields
  BY <1>1, <1>2, <1>3, <1>4, <1>5
<1>7. Fine(sync_action_state(t))
  BY <1>4, <1>6
<1> QED BY <1>7 DEF maybe_handle_stalemate, t, c

(* A move that changes nothing but the piece's place, the stalemate check  *)
(* included: its position is recorded with the opponent to move, the draw  *)
(* by repetition is declared exactly at the third record, and its mover    *)
(* has nothing to remove.                                                  *)
LEMMA QuietMoveRecorded ==
  ASSUME NEW s, Fresh(s), NEW o \in MillVariantOptions,
         s.outcome_reason # "DrawThreefold"
  PROVE  LET c == s.side_to_move
             p == push_key(Passed(s), o)
             key == repetition_signature(Passed(s))
             t == maybe_handle_stalemate(move_quietly(s, o, TRUE), o)
         IN /\ Stays(s, t) /\ Stays(s, Passed(s))
            /\ t.key_history = p.key_history
            /\ t.last_mill_from = [s.last_mill_from EXCEPT ![c] = NONE]
            /\ t.last_mill_to = [s.last_mill_to EXCEPT ![c] = NONE]
            /\ t.formed_mills = s.formed_mills
            /\ t.outcome_reason = "DrawThreefold" <=>
                 /\ o.threefold_repetition_rule
                 /\ Occurrences(p.key_history, key) >= 3
            /\ t.outcome_reason = "DrawThreefold" => t.phase = "GameOver"
            /\ ~(t.action = "Remove" /\ t.side_to_move = c)
<1> DEFINE c == s.side_to_move
           q == Passed(s)
           p == push_key(q, o)
           key == repetition_signature(q)
           j == maybe_draw_by_n_move_rule(push_key_and_check_threefold(q, o), o)
           ph == sync_phase_with_active_hand(j)
           m == sync_action_state(ph)
           t == maybe_handle_stalemate(m, o)
           drawn == o.threefold_repetition_rule /\ Occurrences(p.key_history, key) >= 3
<1>1. /\ Live(s) /\ DOMAIN s = Fields /\ c \in Sides /\ Opp(c) \in Sides \ {c}
      /\ \A k \in Sides : s.pending_removals[k] = 0
  BY FieldsOfState, OppIsSide DEF Fresh, Live, Clean
<1>2. /\ DOMAIN q = Fields /\ Stays(s, q)
      /\ q.key_history = s.key_history /\ q.phase = s.phase
      /\ q.formed_mills = s.formed_mills /\ q.outcome_reason = s.outcome_reason
      /\ q.pending_removals = s.pending_removals
      /\ q.side_to_move = Opp(c)
      /\ q.last_mill_from = [s.last_mill_from EXCEPT ![c] = NONE]
      /\ q.last_mill_to = [s.last_mill_to EXCEPT ![c] = NONE]
  BY <1>1, PassedEffect
<1> HIDE DEF q
<1>3. /\ Alters(p, j, {"phase", "winner", "outcome_reason", "side_to_move"})
      /\ Alters(q, p, {"key_history"})
      /\ j.outcome_reason = "DrawThreefold" <=> drawn
      /\ j.phase = "GameOver" \/ j = p
  BY <1>2, JudgedMemory
<1>4. move_quietly(s, o, TRUE) = m
  BY DEF move_quietly, q, Passed
<1>5. Coherent(m) /\ Coherent(t)
  <2>1. Coherent(m)
    BY <1>1, <1>4, QuietMoveCoherent
  <2> HIDE DEF m
  <2> QED BY <2>1, StalemateCoherent
<1> HIDE DEF p, j, key, drawn
<1>6. /\ DOMAIN j = Fields /\ Stays(s, j)
      /\ j.key_history = p.key_history
      /\ j.last_mill_from = q.last_mill_from /\ j.last_mill_to = q.last_mill_to
      /\ j.formed_mills = q.formed_mills /\ j.pending_removals = q.pending_removals
      /\ j.phase = "GameOver" \/ j.side_to_move = Opp(c)
  <2>1. /\ \A f \in Fields \ {"phase", "winner", "outcome_reason", "side_to_move"} :
             j[f] = p[f]
        /\ \A f \in Fields \ {"key_history"} : p[f] = q[f]
        /\ DOMAIN j = Fields
    BY <1>3 DEF Alters
  <2>2. \A f \in BoardFields : j[f] = q[f]
    BY <2>1 DEF BoardFields, Fields
  <2>3. Stays(s, j)
    BY <1>2, <2>1, <2>2 DEF Stays
  <2>4. j = p => j.side_to_move = q.side_to_move
    BY <2>1 DEF Fields
  <2> QED BY <1>2, <1>3, <2>1, <2>3, <2>4 DEF Fields
<1>7. /\ Stays(s, t) /\ Recalls(j, t) /\ Recalls(j, m) /\ Recalls(j, ph)
  <2>1. Stays(s, ph) /\ Recalls(j, ph)
    BY <1>6, RecallsItself, HelpersStay, HelpersRecall
  <2> HIDE DEF ph
  <2>2. Stays(s, m) /\ Recalls(j, m)
    BY <2>1, HelpersStay, HelpersRecall
  <2> HIDE DEF m
  <2> QED BY <2>1, <2>2, StalemateStays, StalemateRecalls
<1>8. /\ m.pending_removals = j.pending_removals /\ m.side_to_move = j.side_to_move
      /\ j.phase = "GameOver" =>
           m.phase = "GameOver" /\ m.outcome_reason = j.outcome_reason
  <2>1. /\ ph.pending_removals = j.pending_removals /\ ph.side_to_move = j.side_to_move
        /\ j.phase = "GameOver" => ph = j
    BY <1>6 DEF sync_phase_with_active_hand, Fields
  <2>2. DOMAIN ph = Fields
    BY <1>7 DEF Recalls
  <2> HIDE DEF ph
  <2> QED BY <2>1, <2>2 DEF sync_action_state, Fields
<1>12. t.action = synced_action(t)
  <2>1. \A x : DOMAIN x = Fields =>
          sync_action_state(x).action = synced_action(sync_action_state(x))
    BY DEF sync_action_state, synced_action, Fields
  <2>2. m.action = synced_action(m)
    <3>1. DOMAIN ph = Fields
      BY <1>7 DEF Recalls
    <3> HIDE DEF ph
    <3> QED BY <2>1, <3>1
  <2>3. is_stalemate(m, o) => DOMAIN resolve_stalemate(m, o) = Fields
    <3>1. is_stalemate(m, o) => t = sync_action_state(resolve_stalemate(m, o))
      BY DEF maybe_handle_stalemate
    <3>2. DOMAIN t = Fields
      BY <1>7 DEF Recalls
    <3> HIDE DEF t, m
    <3>3. \A x : DOMAIN sync_action_state(x) = DOMAIN x
      BY DEF sync_action_state
    <3> QED BY <3>1, <3>2, <3>3
  <2> HIDE DEF m
  <2> QED BY <2>1, <2>2, <2>3 DEF maybe_handle_stalemate
<1> HIDE DEF ph, m
<1>9. m.phase = "GameOver" => t = m
  BY DEF maybe_handle_stalemate, is_stalemate
<1>10. /\ t.outcome_reason = "DrawThreefold" <=> drawn
       /\ t.outcome_reason = "DrawThreefold" => t.phase = "GameOver"
  <2>1. t.outcome_reason = "DrawThreefold" => j.outcome_reason = "DrawThreefold"
    BY <1>7 DEF Recalls
  <2>2. j.outcome_reason = "DrawThreefold" =>
          t.outcome_reason = "DrawThreefold" /\ t.phase = "GameOver"
    <3>1. j.outcome_reason = "DrawThreefold" => j.phase = "GameOver"
      <4>1. j = p => j.outcome_reason = q.outcome_reason
        BY <1>3 DEF Alters, Fields
      <4> QED BY <1>2, <1>3, <4>1
    <3> HIDE DEF t
    <3> QED BY <1>8, <1>9, <3>1
  <2> QED BY <1>3, <2>1, <2>2
<1>11. ~(t.action = "Remove" /\ t.side_to_move = c)
  <2> SUFFICES ASSUME t.action = "Remove", t.side_to_move = c PROVE FALSE
    OBVIOUS
  <2>0. t.action = "Remove" /\ t.side_to_move = c
    OBVIOUS
  <2> HIDE DEF t
  <2>1. t.phase # "GameOver" /\ t.pending_removals[c] > 0
    <3>1. t.action = synced_action(t)
      BY <1>12
    <3> QED BY <2>0, <3>1 DEF synced_action
  <2>2. j.phase # "GameOver"
    BY <1>8, <1>9, <2>1
  <2>3. t.side_to_move = m.side_to_move \/ t.pending_removals = m.pending_removals
    BY <1>7, StalemateTurn DEF Recalls, t
  <2> QED BY <1>1, <1>2, <1>6, <1>8, <2>1, <2>2, <2>3
<1> HIDE DEF t
<1> QED BY <1>2, <1>4, <1>6, <1>7, <1>10, <1>11 DEF Recalls, Memory, t, p, q, key, drawn

(* A turn that is left owing a removal stays its mover's.                  *)
LEMMA OwingTurn ==
  ASSUME NEW s, DOMAIN s = Fields, s.phase # "GameOver", s.side_to_move \in Sides,
         s.pending_removals[s.side_to_move] \in Nat \ {0}, NEW o
  PROVE  LET t == maybe_handle_stalemate(sync_action_state(s), o)
         IN /\ t = sync_action_state(s)
            /\ t.action = "Remove" /\ t.side_to_move = s.side_to_move
<1> DEFINE m == sync_action_state(s)
<1>1. /\ m.side_to_move = s.side_to_move /\ m.phase = s.phase
      /\ m.pending_removals = s.pending_removals /\ m.action = synced_action(s)
  BY DEF sync_action_state, Fields
<1>2. m.action = "Remove"
  BY <1>1 DEF synced_action
<1> HIDE DEF m
<1>3. maybe_handle_stalemate(m, o) = m
  BY <1>1 DEF maybe_handle_stalemate, is_stalemate
<1> QED BY <1>1, <1>2, <1>3 DEF m

(* apply_move in play, and the stalemate check after it.                   *)
LEMMA MoveNotes ==
  ASSUME NEW s, Fresh(s), NEW o \in MillVariantOptions,
         NEW from \in Nodes, NEW to \in Nodes
  PROVE  LET c == s.side_to_move
             moved == bump_ply_since_capture(move_live_piece(s, from, to), o)
             custodian == IF o.custodian_capture.in_moving_phase
                            THEN detect_custodian_targets(moved, o, to) ELSE {}
             intervention == IF o.intervention_capture.in_moving_phase
                               THEN detect_intervention_targets(moved, o, to) ELSE {}
             leap == IF o.leap_capture.in_moving_phase
                       THEN detect_leap_targets(moved, o, from, to) ELSE {}
             lines == usable_mills(moved, o, formed_mills_at(moved, o, to, c))
             noisy == leap # {} \/ lines # {} \/ custodian \union intervention # {}
             t == maybe_handle_stalemate(apply_move(s, o, from, to, TRUE), o)
         IN /\ noisy => /\ t.action = "Remove" /\ t.side_to_move = c
                        /\ Stays(moved, t)
            /\ (noisy /\ (leap # {} \/ lines = {})) => Recalls(moved, t)
            /\ (leap = {} /\ lines # {}) =>
                 \E m : /\ Recalls(moved, m)
                        /\ Recalls(note_mill_formation(m, o, c, from, to, lines), t)
            /\ ~noisy => t = maybe_handle_stalemate(move_quietly(moved, o, TRUE), o)
<1> DEFINE c == s.side_to_move
           moved == bump_ply_since_capture(move_live_piece(s, from, to), o)
           custodian == IF o.custodian_capture.in_moving_phase
                          THEN detect_custodian_targets(moved, o, to) ELSE {}
           intervention == IF o.intervention_capture.in_moving_phase
                             THEN detect_intervention_targets(moved, o, to) ELSE {}
           leap == IF o.leap_capture.in_moving_phase
                     THEN detect_leap_targets(moved, o, from, to) ELSE {}
           lines == usable_mills(moved, o, formed_mills_at(moved, o, to, c))
           noisy == leap # {} \/ lines # {} \/ custodian \union intervention # {}
           jumped == activate_capture_state(moved, {}, {}, leap)
           leapt == [owe(jumped, 1) EXCEPT !.mill_available_at_removal = FALSE]
           owed == owe(moved, removal_count(lines, o))
           owing == [owed EXCEPT !.mill_available_at_removal = TRUE]
           milled == activate_capture_state(owing, custodian, intervention, {})
           noted == note_mill_formation(milled, o, c, from, to, lines)
           taking == activate_capture_state(moved, custodian, intervention, {})
           captured == [owe(taking, capture_total(taking))
                          EXCEPT !.mill_available_at_removal = FALSE]
           z == apply_move(s, o, from, to, TRUE)
           t == maybe_handle_stalemate(z, o)
           Turn(x) == /\ x.side_to_move = c /\ x.phase = moved.phase
                      /\ x.pending_removals[c] \in Nat \ {0}
<1>1. /\ Fresh(moved) /\ moved.side_to_move = c /\ moved \in MillStates
      /\ c \in Sides /\ DOMAIN moved = Fields /\ moved.phase # "GameOver"
  <2>1. Fresh(moved) /\ Alters(s, moved, {"board", "ply_since_capture"})
    BY MovedFresh
  <2> HIDE DEF moved
  <2>2. moved.side_to_move = c
    BY <2>1 DEF Alters, Fields
  <2> QED BY <2>1, <2>2, FieldsOfState DEF Fresh, Live
<1>2. /\ custodian \in SUBSET Nodes /\ intervention \in SUBSET Nodes
      /\ leap \in SUBSET Nodes
  <2> HIDE DEF moved
  <2> QED BY <1>1, DetectedAreTheirs DEF piece_bitboard
<1>3. lines \in SUBSET mill_lines(o)
  <2> HIDE DEF moved
  <2> QED BY CountsAreNatural
<1>4. z = IF leap # {} THEN sync_action_state(leapt)
          ELSE IF lines # {} THEN sync_action_state(noted)
          ELSE IF custodian \union intervention # {}
            THEN sync_action_state(captured)
          ELSE move_quietly(moved, o, TRUE)
  BY DEF apply_move, capture_only
<1>5. custodian \union intervention # {} => capture_total(taking) \in Nat \ {0}
  <2> SUFFICES ASSUME custodian \union intervention # {}
               PROVE  capture_total(taking) \in Nat \ {0}
    OBVIOUS
  <2> HIDE DEF moved, custodian, intervention
  <2>1. Live(taking) /\ taking.side_to_move = moved.side_to_move
    BY <1>1, <1>2, ActivateLive DEF Fresh
  <2>2. /\ taking.custodian_targets[c] = custodian
        /\ taking.intervention_targets[c] = intervention
    BY <1>1, ActivateEffect
  <2> HIDE DEF taking
  <2> QED BY <1>1, <2>1, <2>2, TotalIsPositive DEF Targets, Live
<1> HIDE DEF moved, custodian, intervention, leap, lines, z
<1>6. /\ Turn(leapt) /\ Stays(moved, leapt) /\ Recalls(moved, leapt)
  <2>1. /\ Live(jumped) /\ jumped.side_to_move = c /\ jumped.phase = moved.phase
        /\ Stays(moved, jumped) /\ Recalls(moved, jumped)
    <3>1. Live(jumped) /\ jumped.side_to_move = moved.side_to_move
      BY <1>1, <1>2, ActivateLive DEF Fresh
    <3>2. Alters(moved, jumped, CaptureState \ {"mill_available_at_removal"})
      BY <1>1, ActivateEffect
    <3> HIDE DEF jumped
    <3>3. jumped.phase = moved.phase
      BY <3>2 DEF Alters, Fields, CaptureState
    <3> QED BY <1>1, <3>1, <3>2, <3>3, AltersStays, AltersRecalls
            DEF CaptureState, BoardFields, Memory
  <2> HIDE DEF jumped
  <2> DEFINE v == owe(jumped, 1)
  <2>2. /\ DOMAIN v = Fields /\ v.side_to_move = c /\ v.phase = moved.phase
        /\ v.pending_removals[c] = 1 /\ Stays(moved, v) /\ Recalls(moved, v)
    <3>1. Alters(jumped, v, {"pending_removals"}) /\ v.pending_removals[c] = 1
      BY <1>1, <2>1, OweEffect DEF Live
    <3>2. Stays(moved, v) /\ Recalls(moved, v)
      BY <2>1, HelpersStay, HelpersRecall
    <3> HIDE DEF v
    <3> QED BY <2>1, <3>1, <3>2 DEF Alters, Fields
  <2> HIDE DEF v
  <2>3. Stays(moved, leapt) /\ Recalls(moved, leapt)
    BY <2>2, HelpersStay, AssignmentsRecall DEF v
  <2>4. Turn(leapt)
    BY <2>2 DEF v, Fields
  <2> QED BY <2>3, <2>4
<1>7. lines # {} => Turn(milled) /\ Stays(moved, milled) /\ Recalls(moved, milled)
  <2> SUFFICES ASSUME lines # {}
               PROVE  Turn(milled) /\ Stays(moved, milled) /\ Recalls(moved, milled)
    OBVIOUS
  <2> DEFINE n == removal_count(lines, o)
  <2>1. n \in Nat \ {0}
    BY <1>3, EarnedIsPositive
  <2> HIDE DEF n
  <2>2. /\ DOMAIN owed = Fields /\ owed.side_to_move = c /\ owed.phase = moved.phase
        /\ owed.pending_removals[c] = n /\ Stays(moved, owed) /\ Recalls(moved, owed)
    <3>1. /\ Alters(moved, owe(moved, n), {"pending_removals"})
          /\ owe(moved, n).pending_removals[c] = n
      BY <1>1, OweEffect
    <3> DEFINE y == owe(moved, n)
    <3>2. Stays(moved, y) /\ Recalls(moved, y)
      <4>1. Stays(moved, moved) /\ Recalls(moved, moved)
        BY <1>1, RecallsItself DEF Stays
      <4> QED BY <4>1, HelpersStay, HelpersRecall
    <3> HIDE DEF y
    <3>3. /\ DOMAIN y = Fields /\ y.side_to_move = c /\ y.phase = moved.phase
          /\ y.pending_removals[c] = n
      BY <1>1, <3>1 DEF Alters, Fields, y
    <3> QED BY <3>2, <3>3 DEF y, n
  <2> HIDE DEF owed
  <2>3. /\ DOMAIN owing = Fields /\ owing.side_to_move = c /\ owing.phase = moved.phase
        /\ owing.pending_removals[c] = n
        /\ Stays(moved, owing) /\ Recalls(moved, owing)
    <3>1. Stays(moved, owing) /\ Recalls(moved, owing)
      BY <2>2, HelpersStay, AssignmentsRecall
    <3> QED BY <2>2, <3>1 DEF Fields
  <2> HIDE DEF owing
  <2>4. Stays(moved, milled) /\ Recalls(moved, milled)
    BY <2>3, HelpersStay, HelpersRecall
  <2>5. Turn(milled)
    BY <2>1, <2>3 DEF activate_capture_state, Fields
  <2> QED BY <2>4, <2>5
<1>8. custodian \union intervention # {} =>
        Turn(captured) /\ Stays(moved, captured) /\ Recalls(moved, captured)
  <2> SUFFICES ASSUME custodian \union intervention # {}
               PROVE  Turn(captured) /\ Stays(moved, captured) /\ Recalls(moved, captured)
    OBVIOUS
  <2> DEFINE n == capture_total(taking)
             v == owe(taking, n)
  <2>1. /\ Live(taking) /\ taking.side_to_move = c /\ taking.phase = moved.phase
        /\ Stays(moved, taking) /\ Recalls(moved, taking)
    <3>1. Live(taking) /\ taking.side_to_move = moved.side_to_move
      BY <1>1, <1>2, ActivateLive DEF Fresh
    <3>2. Alters(moved, taking, CaptureState \ {"mill_available_at_removal"})
      BY <1>1, ActivateEffect
    <3> HIDE DEF taking
    <3>3. taking.phase = moved.phase
      BY <3>2 DEF Alters, Fields, CaptureState
    <3> QED BY <1>1, <3>1, <3>2, <3>3, AltersStays, AltersRecalls
            DEF CaptureState, BoardFields, Memory
  <2>2. n \in Nat \ {0}
    BY <1>5
  <2> HIDE DEF n, taking
  <2>3. /\ DOMAIN v = Fields /\ v.side_to_move = c /\ v.phase = moved.phase
        /\ v.pending_removals[c] = n /\ Stays(moved, v) /\ Recalls(moved, v)
    <3>1. Alters(taking, v, {"pending_removals"}) /\ v.pending_removals[c] = n
      BY <1>1, <2>1, OweEffect DEF Live
    <3>2. Stays(moved, v) /\ Recalls(moved, v)
      BY <2>1, HelpersStay, HelpersRecall
    <3> HIDE DEF v
    <3> QED BY <2>1, <3>1, <3>2 DEF Alters, Fields
  <2> HIDE DEF v
  <2>4. captured = [v EXCEPT !.mill_available_at_removal = FALSE]
    BY DEF v, n
  <2>5. Stays(moved, captured) /\ Recalls(moved, captured)
    BY <2>3, <2>4, HelpersStay, AssignmentsRecall
  <2>6. Turn(captured)
    BY <2>2, <2>3, <2>4 DEF Fields
  <2> QED BY <2>5, <2>6
<1> HIDE DEF leapt, milled, captured
<1>9. lines # {} => Turn(noted) /\ Stays(moved, noted) /\ DOMAIN noted = Fields
  <2> SUFFICES ASSUME lines # {}
               PROVE  Turn(noted) /\ Stays(moved, noted) /\ DOMAIN noted = Fields
    OBVIOUS
  <2>1. DOMAIN milled = Fields
    BY <1>7 DEF Stays
  <2>2. Alters(milled, noted, {"last_mill_from", "last_mill_to", "formed_mills"})
    BY <2>1 DEF Alters, Fields, note_mill_formation
  <2>3. Stays(moved, noted)
    BY <1>7, HelpersStay
  <2> HIDE DEF noted
  <2> QED BY <1>7, <2>2, <2>3 DEF Alters, Fields
<1> HIDE DEF noted
<1>10. \A x : (DOMAIN x = Fields /\ Turn(x)) =>
         LET u == maybe_handle_stalemate(sync_action_state(x), o)
         IN u = sync_action_state(x) /\ u.action = "Remove" /\ u.side_to_move = c
  BY <1>1, OwingTurn
<1>11. CASE leap # {}
  <2>1. z = sync_action_state(leapt) /\ DOMAIN leapt = Fields
    BY <1>4, <1>6, <1>11 DEF Recalls
  <2>2. t = z /\ t.action = "Remove" /\ t.side_to_move = c
    BY <1>6, <1>10, <2>1
  <2>3. Stays(moved, z) /\ Recalls(moved, z)
    BY <1>6, <2>1, HelpersStay, HelpersRecall
  <2> HIDE DEF t
  <2>4. Stays(moved, t) /\ Recalls(moved, t)
    BY <2>2, <2>3
  <2> QED BY <1>11, <2>2, <2>4
          DEF t, z, moved, leap, lines, custodian, intervention
<1>12. CASE leap = {} /\ lines # {}
  <2>1. z = sync_action_state(noted) /\ DOMAIN noted = Fields
    BY <1>4, <1>9, <1>12
  <2>2. t = z /\ t.action = "Remove" /\ t.side_to_move = c
    BY <1>9, <1>10, <1>12, <2>1
  <2>3. Stays(moved, z) /\ Recalls(noted, z)
    BY <1>9, <1>12, <2>1, RecallsItself, HelpersStay, HelpersRecall
  <2>4. Recalls(moved, milled)
    BY <1>7, <1>12
  <2> HIDE DEF t
  <2>5. Stays(moved, t) /\ Recalls(noted, t)
    BY <2>2, <2>3
  <2>6. \E m : /\ Recalls(moved, m)
               /\ Recalls(note_mill_formation(m, o, c, from, to, lines), t)
    BY <2>4, <2>5 DEF noted
  <2> QED BY <1>12, <2>2, <2>5, <2>6
          DEF t, z, moved, leap, lines, custodian, intervention
<1>13. CASE leap = {} /\ lines = {} /\ custodian \union intervention # {}
  <2>1. z = sync_action_state(captured) /\ DOMAIN captured = Fields
    BY <1>4, <1>8, <1>13 DEF Recalls
  <2>2. t = z /\ t.action = "Remove" /\ t.side_to_move = c
    BY <1>8, <1>10, <1>13, <2>1
  <2>3. Stays(moved, z) /\ Recalls(moved, z)
    BY <1>8, <1>13, <2>1, HelpersStay, HelpersRecall
  <2> HIDE DEF t
  <2>4. Stays(moved, t) /\ Recalls(moved, t)
    BY <2>2, <2>3
  <2> QED BY <1>13, <2>2, <2>4
          DEF t, z, moved, leap, lines, custodian, intervention
<1>14. CASE ~noisy
  <2>1. z = move_quietly(moved, o, TRUE)
    BY <1>4, <1>14
  <2>2. t = maybe_handle_stalemate(move_quietly(moved, o, TRUE), o)
    BY <2>1
  <2> HIDE DEF t
  <2> QED BY <1>14, <2>2 DEF t, z, moved, leap, lines, custodian, intervention
<1> QED BY <1>11, <1>12, <1>13, <1>14
=============================================================================
