----------------------------- MODULE GameKernel -----------------------------
(***************************************************************************)
(* A game session (GameKernel of crates/tgf-core): the current snapshot    *)
(* with its undo and redo stacks, driven by the Mill rules.                *)
(*                                                                         *)
(* A snapshot carries only the last SnapshotWindow repetition keys of a    *)
(* position (MillState::encode), so before each move the rules rebuild the *)
(* missing ones from the undo stack.  `state` of MillRules is the current  *)
(* snapshot here.                                                          *)
(***************************************************************************)
EXTENDS MillRules

CONSTANTS
  SnapshotWindow,   \* MILL_REPETITION_SNAPSHOT_WINDOW
  SetupPositions    \* the positions that may be set up by hand

ASSUME KernelAssumption ==
  /\ SnapshotWindow \in Nat \ {0}
  /\ SetupPositions \subseteq MillStates

Sq == INSTANCE SequencesExt

VARIABLES history, redo_stack     \* stacks, their tops last
kvars == <<options, state, history, redo_stack>>

-----------------------------------------------------------------------------
(* Snapshots and the repetition history they lose *)

LastKeys(keys) ==
  IF Len(keys) <= SnapshotWindow THEN keys
  ELSE SubSeq(keys, Len(keys) - SnapshotWindow + 1, Len(keys))

encode(s) == [s EXCEPT !.key_history = LastKeys(@)]

(* The snapshots since the last one that began a repetition window, found  *)
(* by scanning backwards to an empty window or across a change of material.*)
ScannedBack(line) ==
  {i \in DOMAIN line : \A j \in i..Len(line) :
     /\ line[j].key_history # << >>
     /\ j > i => OnBoard(line[j - 1]) = OnBoard(line[j])}

(* The indices in S in ascending order: the k-th is the one that k of them *)
(* do not exceed.                                                          *)
Ascending(S) ==
  [k \in 1..Cardinality(S) |->
     CHOOSE i \in S : Cardinality({j \in S : j <= i}) = k]

BUG_lengths_compared(line, i) ==
  i = 1 \/ Len(line[i - 1].key_history) # Len(line[i].key_history)

ObservesKey(line, i) ==
  i = 1 \/ line[i - 1].key_history # line[i].key_history

repetition_history_from_snapshots(snap, past) ==
  LET line == Append(past, snap)
      observed == Ascending({i \in ScannedBack(line) : ObservesKey(line, i)})
      keys == [k \in DOMAIN observed |-> Sq!Last(line[observed[k]].key_history)]
  IN IF past = << >> THEN snap.key_history
     ELSE IF Len(keys) <= HistoryCap THEN keys
     ELSE SubSeq(keys, Len(keys) - HistoryCap + 1, Len(keys))

BUG_not_hydrated(s, past) == s

hydrate_repetition_history_from_snapshots(s, past) ==
  LET rebuilt == repetition_history_from_snapshots(s, past)
  IN IF options.threefold_repetition_rule /\ Len(rebuilt) > Len(s.key_history)
       THEN [s EXCEPT !.key_history = rebuilt] ELSE s

apply_with_history(s, a, past) ==
  encode(apply_to_state(hydrate_repetition_history_from_snapshots(s, past),
                        options, a, TRUE))

-----------------------------------------------------------------------------
(* The session *)

start_from(snapshot) ==
  state' = snapshot /\ history' = << >> /\ redo_stack' = << >>

KernelInit ==
  /\ options \in Variants
  /\ state = initial_state(options)
  /\ history = << >> /\ redo_stack = << >>

BUG_redo_kept ==
  /\ \E a \in legal_actions(state, options) :
       state' = apply_with_history(state, a, history)
  /\ history' = Append(history, state)
  /\ UNCHANGED redo_stack

(* GameKernel::apply; an illegal action is an error and changes nothing.   *)
apply ==
  /\ \E a \in legal_actions(state, options) :
       state' = apply_with_history(state, a, history)
  /\ history' = Append(history, state)
  /\ redo_stack' = << >>

undo ==
  /\ history # << >>
  /\ state' = Sq!Last(history)
  /\ history' = Sq!Front(history)
  /\ redo_stack' = Append(redo_stack, state)

redo ==
  /\ redo_stack # << >>
  /\ state' = Sq!Last(redo_stack)
  /\ redo_stack' = Sq!Front(redo_stack)
  /\ history' = Append(history, state)

reset == start_from(initial_state(options))

replace_state == \E snapshot \in SetupPositions : start_from(snapshot)

KernelNext ==
  /\ apply \/ undo \/ redo \/ reset \/ replace_state
  /\ UNCHANGED options

KernelSpec == KernelInit /\ [][KernelNext]_kvars

-----------------------------------------------------------------------------
(* Properties *)

LineOf(past, snapshot, future) == past \o <<snapshot>> \o Sq!Reverse(future)
Line == LineOf(history, state, redo_stack)
GL == INSTANCE GameLine WITH line <- Line, cursor <- Len(history) + 1

(* GameKernel keeps the game as a line with a cursor: no sequence of       *)
(* moves, undos and redos loses, repeats or reorders a position.           *)
ImplementsGameLine == GL!Spec

Played == Append(history, state)

(* An observer of the positions played: a step that moves a piece and owes *)
(* no removal to its mover is quiet, and its position is observed with the *)
(* opponent to move; a step that places or removes a piece is irreversible.*)
PiecesOf(s) == <<s.pieces_on_board, s.pieces_in_hand>>
Irreversible(p, q) == PiecesOf(p) # PiecesOf(q)
Quiet(p, q) ==
  /\ ~Irreversible(p, q)
  /\ ~(q.action = "Remove" /\ q.side_to_move = p.side_to_move)
Observation(p, q) == repetition_signature([q EXCEPT !.side_to_move = Opp(p.side_to_move)])

QuietSteps(line) ==
  {i \in 2..Len(line) :
     /\ Quiet(line[i - 1], line[i])
     /\ \A j \in i..Len(line) : ~Irreversible(line[j - 1], line[j])}

ObservedLike(line, i) ==
  {j \in QuietSteps(line) :
     Observation(line[j - 1], line[j]) = Observation(line[i - 1], line[i])}

(* Threefold repetition is drawn at the third observation of a position    *)
(* since the last irreversible step and at no other time, wherever undo,   *)
(* redo and new branches have led and however few keys a snapshot carries. *)
ThreefoldIsDrawn ==
  options.threefold_repetition_rule =>
    LET n == Len(Played)
    IN (state.outcome_reason = "DrawThreefold") <=>
         n \in QuietSteps(Played) /\ Cardinality(ObservedLike(Played, n)) >= 3

(* The repetition history handed to a search (rebuilt from the snapshots)  *)
(* is the sequence of observations since the last irreversible step.       *)
SearchSeesRepetitions ==
  (options.threefold_repetition_rule /\ Ongoing /\ ~Owing) =>
    LET steps == Ascending(QuietSteps(Played))
    IN repetition_history_from_snapshots(state, history) =
         [k \in DOMAIN steps |->
            Observation(Played[steps[k] - 1], Played[steps[k]])]
=============================================================================
