------------------------------ MODULE GameLine ------------------------------
(***************************************************************************)
(* What a game session promises its user: a line of positions and a        *)
(* cursor.  Playing cuts the line off after the cursor and extends it by   *)
(* one position; undo and redo move the cursor and change no position;     *)
(* a new game or a position set up by hand starts a line of its own.       *)
(***************************************************************************)
EXTENDS Naturals, Sequences

VARIABLES line, cursor

Init == Len(line) = 1 /\ cursor = 1

Play ==
  /\ cursor' = cursor + 1
  /\ Len(line') = cursor'
  /\ \A i \in 1..cursor : line'[i] = line[i]

Undo == cursor > 1 /\ cursor' = cursor - 1 /\ UNCHANGED line

Redo == cursor < Len(line) /\ cursor' = cursor + 1 /\ UNCHANGED line

Restart == Len(line') = 1 /\ cursor' = 1

Next == Play \/ Undo \/ Redo \/ Restart

Spec == Init /\ [][Next]_<<line, cursor>>
=============================================================================
