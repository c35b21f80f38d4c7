---------------------------- MODULE MCOnlineMatch ----------------------------
(***************************************************************************)
(* Instances of OnlineMatch: a game of two moves, the second of which      *)
(* wins; the board transformation renames the moves, so that a line and    *)
(* its image differ.                                                       *)
(***************************************************************************)
EXTENDS OnlineMatch

NamedMoves == {"p", "q"}
FollowsSuit(line, move) ==
    /\ Len(line) < 2
    /\ move = IF line = << >> THEN "p" ELSE line[1]
Alternating(line) == IF Len(line) % 2 = 0 THEN "first" ELSE "second"
SecondMoveWins(line) == IF Len(line) < 2 THEN "ongoing" ELSE "second"
Renamed(line) == [i \in DOMAIN line |-> IF line[i] = "p" THEN "q" ELSE "p"]

=============================================================================
