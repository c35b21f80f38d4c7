---------------------------- MODULE MCTableSearch ----------------------------
(***************************************************************************)
(* Instances of TableSearch: a game of up to three plies, searched to      *)
(* depth 2 and then 3, whose lines meet again (d, and the last ply).       *)
(***************************************************************************)
EXTENDS TableSearch

Plies == {"r", "a", "b", "c", "d", "e", "x", "y"}
Last2 == {"c", "d", "e", "x", "y"}

NoMoves == [p \in Plies |-> {}]
Open == [NoMoves EXCEPT !["r"] = {"a", "b"}, !["a"] = {"c", "d"}, !["b"] = {"d", "e"},
           !["c"] = {"x", "y"}, !["d"] = {"x", "y"}, !["e"] = {"y"}]

(* Replies are forced: both sides of the tree search a ply deeper.         *)
Forced == [NoMoves EXCEPT !["r"] = {"a", "b"}, !["a"] = {"c"}, !["b"] = {"c"},
             !["c"] = {"d", "e"}, !["d"] = {"x", "y"}, !["e"] = {"y", "x"}]
Unique == [Open EXCEPT !["r"] = {"a"}]

(* The reply to b is forced, so b's d is searched a ply deeper than a's.   *)
Narrow == [NoMoves EXCEPT !["r"] = {"a", "b"}, !["a"] = {"c", "d"}, !["b"] = {"d"},
             !["c"] = {"x", "y"}, !["d"] = {"y"}]
(* The same, and what a's d looks at as a leaf, b's d looks behind.        *)
Deep == [Narrow EXCEPT !["c"] = {}, !["d"] = {"e", "y"}, !["e"] = {"x"}]

Alternating == [p \in Plies |-> IF p \in {"a", "b", "x", "y"} THEN 1 ELSE 0]
(* The move to a makes a mill: the same side removes.                      *)
Removing == [Alternating EXCEPT !["a"] = 0, !["c"] = 1, !["d"] = 0]

NoEnd == [p \in Plies |-> NONE]

Evals(values) == {[p \in Plies |-> IF p \in Last2 THEN f[p] ELSE 0] : f \in [Last2 -> values]}

Level == [p \in Plies |-> 0]

Game(moves, side, winner, eval) ==
  [root |-> "r", moves |-> moves, side |-> side, winner |-> winner, eval |-> eval]

Slots(n, e) == [i \in 1..n |-> e]
Old(p) == [key |-> p, depth |-> MaxDepth, value |-> WinScore, bound |-> "Exact", age |-> 0]

Asked(g, alg, hired, slots, abort) ==
  [game |-> g, algorithm |-> alg, hired |-> hired, table |-> slots, may_abort |-> abort]

Algorithms == {"AlphaBeta", "Mtdf"}

(* One thread, aborted at any node or not at all.                          *)
LoneSearches ==
  {Asked(Game(Open, s, [NoEnd EXCEPT ![p] = w], e), alg, {1}, slots, TRUE) :
     s \in {Alternating, Removing}, p \in {"c", "x"}, w \in {NONE, 0, 1},
     e \in Evals({0, 1}), alg \in Algorithms, slots \in {Slots(2, NONE)}}
  \union
  {Asked(Game(Open, Removing, [NoEnd EXCEPT !["x"] = 0], e), "Mtdf", {1},
         Slots(3, Old("d")), TRUE) : e \in Evals({0, 1})}
  \union
  {Asked(Game(m, Alternating, [NoEnd EXCEPT ![p] = 2], e), alg, {1}, Slots(2, NONE), TRUE) :
     m \in {Forced, Unique}, p \in {"r", "x"}, e \in Evals({0, 1}), alg \in Algorithms}
  \union
  {Asked(Game(Narrow, s, [NoEnd EXCEPT ![p] = w], Level), alg, {1}, Slots(2, NONE), TRUE) :
     s \in {Alternating, Removing}, p \in {"x", "y"}, w \in {0, 1}, alg \in Algorithms}
  \union
  {Asked(Game(Deep, s, [NoEnd EXCEPT !["y"] = w], e), alg, {1}, Slots(2, NONE), TRUE) :
     s \in {Alternating, Removing}, w \in {NONE, 1}, e \in Evals({0, 1}), alg \in Algorithms}

(* Two threads. *)
SharedSearches ==
  {Asked(Game(Narrow, s, [NoEnd EXCEPT !["x"] = 0], Level), "Mtdf", {1, 2}, Slots(2, NONE), FALSE) :
     s \in {Alternating, Removing}}
  \union
  {Asked(Game(Narrow, Removing, [NoEnd EXCEPT !["x"] = 1], Level), "AlphaBeta", {1, 2},
         Slots(2, NONE), FALSE)}

AnySearch == LoneSearches \union SharedSearches
=============================================================================
