------------------------------ MODULE TableSearch ------------------------------
(***************************************************************************)
(* What a search thread of the app computes: iterative deepening           *)
(* (run_ab_like_search) over alpha-beta or MTD(f), on a transposition      *)
(* table that it may share with other threads (run_lazy_smp_ab_like_search *)
(* and ClusteredTt).                                                       *)
(*                                                                         *)
(* The game is a parameter, a finite tree with transpositions; that the    *)
(* workbench takes back what it tries is shown by MillWorkbench.  A step   *)
(* reads the table once or writes one slot of it, so threads interleave as *)
(* their atomic loads and stores do.  All keys fall into one cluster.      *)
(* Left out: repetition and n-move cuts, quiescence (its default depth is  *)
(* 0), null moves (off), prefetching, node counts and progress events.     *)
(***************************************************************************)
EXTENDS Integers, Sequences, FiniteSets, SequencesExt

CONSTANTS
  Searches,      \* what may be asked: [game, algorithm, hired, table]
  MaxDepth,      \* depth of the last iteration
  WinScore,      \* MILL_TERMINAL_WIN_SCORE
  UniqueRoot,    \* VALUE_UNIQUE_ROOT_MOVE
  Infinite,      \* beyond every score
  NONE           \* no position, no action, no winner

VARIABLES
  asked,         \* the search that runs
  table,         \* the slots of the cluster: an entry or NONE
  worker         \* per hired thread, its Searcher and the call it is in

vars == <<asked, table, worker>>

game == asked.game

(* A game: its moves lead to positions, and a move need not pass the turn. *)
moves_of(p) == game.moves[p]
passes_turn(p, m) == game.side[p] # game.side[m]

(* A thread's cached generation; clear_tt has outdated what was there.     *)
CurrentAge == 1

-----------------------------------------------------------------------------
(* Scores *)

is_terminal(p) == game.winner[p] # NONE

terminal_score(p, depth) ==
  CASE game.winner[p] = 2 -> 0
    [] game.winner[p] = game.side[p] -> WinScore + depth
    [] OTHER -> -WinScore - depth

(* A child's score, seen by the side that moved to it.                     *)
BUG_always_negated(p, m, score) == -score

seen_from(p, m, score) == IF passes_turn(p, m) THEN -score ELSE score

Larger(a, b) == IF a > b THEN a ELSE b
Smaller(a, b) == IF a < b THEN a ELSE b

-----------------------------------------------------------------------------
(* The table *)

is_current(e) == e # NONE /\ e.age = CurrentAge

BUG_any_depth(e, key, depth) == is_current(e) /\ e.key = key

answers(e, key, depth) == is_current(e) /\ e.key = key /\ e.depth >= depth

(* probe_entry_at_age: the first slot with an answer.                      *)
probe_entry_at_age(key, depth) ==
  LET hits == {i \in DOMAIN table : answers(table[i], key, depth)}
  IN IF hits = {} THEN NONE ELSE table[CHOOSE i \in hits : \A j \in hits : i <= j]

(* probe_tt: the window that is left to search, or a cutoff.               *)
probe_tt(key, depth, alpha, beta) ==
  LET e == probe_entry_at_age(key, depth)
      a == IF e # NONE /\ e.bound = "Lower" THEN Larger(alpha, e.value) ELSE alpha
      b == IF e # NONE /\ e.bound = "Upper" THEN Smaller(beta, e.value) ELSE beta
  IN [cutoff |-> e # NONE /\ (e.bound = "Exact" \/ a >= b),
      value |-> IF e = NONE THEN 0 ELSE e.value, alpha |-> a, beta |-> b]

replacement_score(e) ==
  e.depth + (IF e.bound = "Exact" THEN 2 ELSE 0) - (CurrentAge - e.age) * 8

(* The better answer stays: the deeper, or the exact of two equally deep.  *)
keeps_old(old, new) ==
  /\ old.age = new.age
  /\ \/ new.depth < old.depth
     \/ new.depth = old.depth /\ old.bound = "Exact" /\ new.bound # "Exact"

(* save_at_age up to its store: the scan stops at an empty slot or at the  *)
(* key's own, and otherwise takes the first of the least valuable; 0 if    *)
(* the old entry stays.                                                    *)
slot_for(e) ==
  LET stops == {i \in DOMAIN table : table[i] = NONE \/ table[i].key = e.key}
      first == CHOOSE i \in stops : \A j \in stops : i <= j
      least == CHOOSE i \in DOMAIN table : \A j \in DOMAIN table :
                 LET a == replacement_score(table[i])
                     b == replacement_score(table[j])
                 IN a < b \/ (a = b /\ i <= j)
  IN IF stops = {} THEN least
     ELSE IF table[first] # NONE /\ keeps_old(table[first], e) THEN 0 ELSE first

bound_of(best, alpha, beta) ==
  IF best <= alpha THEN "Upper" ELSE IF best >= beta THEN "Lower" ELSE "Exact"

entry(f, value, bound) ==
  [key |-> f.pos, depth |-> f.depth, value |-> value, bound |-> bound,
   age |-> CurrentAge]

-----------------------------------------------------------------------------
(* A thread.  Its stack holds one frame per position between the root and  *)
(* the one it looks at; mode says what it does next.                       *)

NoResult == [depth |-> 0, score |-> 0, action |-> NONE]

NewWorker ==
  [mode |-> "next", stack |-> << >>, value |-> 0, slot |-> 0, entry |-> NONE,
   aborted |-> FALSE, depth |-> 1, guess |-> 0, lower |-> 0, upper |-> 0,
   action |-> NONE, result |-> NoResult]

frame(p, depth, alpha, beta) ==
  [pos |-> p, depth |-> depth, alpha |-> alpha, beta |-> beta,
   old_alpha |-> alpha, left |-> {}, move |-> NONE, best |-> -Infinite]

top(w) == Last(w.stack)
at_root(w) == Len(w.stack) = 1
with_top(w, f) == [w EXCEPT !.stack = Append(Front(@), f)]
mtdf == asked.algorithm = "Mtdf"

returning(w, value) == [w EXCEPT !.mode = "return", !.value = value, !.stack = Front(@)]

(* save_tt and then return: the slot is chosen now and written in a step   *)
(* of its own, when others may have written to it.                         *)
saving(w, value, bound) ==
  LET e == entry(top(w), value, bound)
      slot == slot_for(e)
  IN IF slot = 0 THEN returning(w, value)
     ELSE [returning(w, value) EXCEPT !.mode = "store", !.slot = slot, !.entry = e]

(* The end of a loop over moves.                                           *)
loop_done(w) ==
  LET f == top(w)
  IN IF at_root(w) /\ ~mtdf THEN returning(w, f.best)
     ELSE saving(w, f.best, bound_of(f.best, f.old_alpha, f.beta))

(* One zero-window probe of MTD(f), or the one pass of alpha-beta.         *)
root_pass(w) ==
  LET beta == IF w.guess = w.lower THEN w.guess + 1 ELSE w.guess
  IN [w EXCEPT !.mode = "enter",
        !.stack = << IF mtdf THEN frame(game.root, w.depth, beta - 1, beta)
                     ELSE frame(game.root, w.depth, -Infinite, Infinite) >>]

BUG_aborted_is_complete(w) == FALSE

was_aborted(w) == w.aborted

(* The end of an iteration in run_ab_like_search: only a complete one is   *)
(* published, or the first if there is no other; it is the next guess.     *)
publish(w, score, action) ==
  LET this == [depth |-> w.depth, score |-> score, action |-> action]
  IN IF was_aborted(w)
       THEN [w EXCEPT !.mode = "done",
               !.result = IF @.action = NONE /\ action # NONE
                            THEN [this EXCEPT !.depth = 0] ELSE @]
       ELSE [w EXCEPT !.mode = IF w.depth = MaxDepth THEN "done" ELSE "next",
               !.result = this, !.guess = score]

-----------------------------------------------------------------------------
(* The steps of a thread *)

Init ==
  /\ asked \in Searches
  /\ table = asked.table
  /\ worker = [t \in asked.hired |-> NewWorker]

Become(t, w) ==
  /\ worker' = [worker EXCEPT ![t] = w]
  /\ UNCHANGED <<asked, table>>

(* The next iteration.  A root with nothing to decide is answered at once; *)
(* otherwise some root move comes first in the thread's order.             *)
Iterate(t) ==
  LET w == [worker[t] EXCEPT !.depth = @ + 1,
              !.lower = -Infinite, !.upper = Infinite]
      root == game.root
  IN /\ worker[t].mode = "next"
     /\ IF is_terminal(root)
          THEN Become(t, publish(w, terminal_score(root, w.depth), NONE))
        ELSE IF moves_of(root) = {}
          THEN Become(t, publish(w, game.eval[root], NONE))
        ELSE \E m \in moves_of(root) :
          Become(t, IF moves_of(root) = {m} THEN publish(w, UniqueRoot, m)
                    ELSE root_pass([w EXCEPT !.action = m]))

(* The time is up, or somebody asked to stop, and the thread has noticed:  *)
(* should_abort, looked at on entering a node and before every move.       *)
NoticeAbort(t) ==
  LET w == worker[t]
  IN /\ ~w.aborted
     /\ w.mode = "moves" \/ (w.mode = "enter" /\ ~at_root(w))
     /\ asked.may_abort
     /\ Become(t, [w EXCEPT !.aborted = TRUE])

(* alpha_beta (and, at the root, mtdf_root_traced or search) up to its     *)
(* loop: a leaf, a cutoff or the moves to try.                             *)
Enter(t) ==
  LET w == worker[t]
      f == top(w)
      p == f.pos
      probe == probe_tt(p, f.depth, f.alpha, f.beta)
      looping(a, b) ==
        [with_top(w, [f EXCEPT !.alpha = a, !.beta = b, !.left = moves_of(p)])
           EXCEPT !.mode = "moves"]
      inner == IF w.aborted THEN returning(w, game.eval[p])
               ELSE IF is_terminal(p) THEN returning(w, terminal_score(p, f.depth))
               ELSE IF f.depth = 0 THEN returning(w, game.eval[p])
               ELSE IF probe.cutoff THEN returning(w, probe.value)
               ELSE IF moves_of(p) = {} THEN returning(w, game.eval[p])
               ELSE looping(probe.alpha, probe.beta)
  IN /\ w.mode = "enter"
     /\ Become(t, IF ~at_root(w) THEN inner
                  ELSE IF ~mtdf THEN looping(f.alpha, f.beta)
                  ELSE IF probe.cutoff THEN returning(w, probe.value)
                  ELSE looping(probe.alpha, probe.beta))

(* A forced move below the root is not counted.                            *)
extension(w) ==
  IF ~at_root(w) /\ Cardinality(moves_of(top(w).pos)) = 1 THEN 1 ELSE 0

(* The thread's first root move stays the first (promote_root_pv_move).    *)
may_come_next(w, m) ==
  /\ m \in top(w).left
  /\ at_root(w) /\ top(w).move = NONE => m = w.action

Try(t) ==
  LET w == worker[t]
      f == top(w)
  IN /\ w.mode = "moves"
     /\ ~w.aborted
     /\ \E m \in f.left :
          /\ may_come_next(w, m)
          /\ LET parent == [f EXCEPT !.left = @ \ {m}, !.move = m]
                 depth == f.depth - 1 + extension(w)
                 child == IF passes_turn(f.pos, m)
                            THEN frame(m, depth, -f.beta, -f.alpha)
                          ELSE frame(m, depth, f.alpha, f.beta)
             IN Become(t, [with_top(w, parent) EXCEPT !.mode = "enter",
                             !.stack = Append(@, child)])

(* should_abort ends a loop; a node below the root saves nothing then.     *)
GiveUp(t) ==
  LET w == worker[t]
  IN /\ w.mode = "moves"
     /\ w.aborted
     /\ Become(t, IF at_root(w) THEN loop_done(w)
                  ELSE returning(w, Larger(top(w).best, top(w).alpha)))

Store(t) ==
  LET w == worker[t]
  IN /\ w.mode = "store"
     /\ table' = [table EXCEPT ![w.slot] = w.entry]
     /\ worker' = [worker EXCEPT ![t] = [w EXCEPT !.mode = "return", !.slot = 0,
                                            !.entry = NONE]]
     /\ UNCHANGED asked

(* What a child's score does to the loop it was tried in.                  *)
take_score(w, score) ==
  LET f == top(w)
      better == score > f.best
      raises == score > f.alpha /\ (at_root(w) => mtdf)
      kept == [f EXCEPT !.best = Larger(@, score), !.alpha = IF raises THEN score ELSE @]
      chosen == IF at_root(w) /\ better /\ (mtdf => raises) THEN f.move ELSE w.action
      after == [with_top(w, kept) EXCEPT !.action = chosen]
  IN IF score >= f.beta
       THEN saving(after, score, "Lower")
     ELSE IF f.left = {} THEN loop_done(after)
     ELSE [after EXCEPT !.mode = "moves"]

(* One probe of MTD(f) has ended with value g.                             *)
bounds_after(w) ==
  LET beta == IF w.guess = w.lower THEN w.guess + 1 ELSE w.guess
  IN IF w.value < beta THEN [w EXCEPT !.guess = w.value, !.upper = w.value]
     ELSE [w EXCEPT !.guess = w.value, !.lower = w.value]

Return(t) ==
  LET w == worker[t]
      f == top(w)
      next == bounds_after(w)
  IN /\ w.mode = "return"
     /\ Become(t,
          IF w.stack # << >> THEN take_score(w, seen_from(f.pos, f.move, w.value))
          ELSE IF ~mtdf THEN publish(w, w.value, w.action)
          ELSE IF next.lower < next.upper /\ ~w.aborted THEN root_pass(next)
          ELSE publish(next, next.guess, next.action))

Step(t) ==
  \/ Iterate(t) \/ NoticeAbort(t) \/ Enter(t) \/ Try(t) \/ GiveUp(t)
  \/ Store(t) \/ Return(t)

Next == \E t \in asked.hired : Step(t)

Spec == Init /\ [][Next]_vars

-----------------------------------------------------------------------------
(* Properties *)

Positions == DOMAIN game.moves

(* By how many counted plies each position is reached from the root.       *)
Distances ==
  LET counted(p) == IF p # game.root /\ Cardinality(moves_of(p)) = 1 THEN 0 ELSE 1
      d[p \in Positions] ==
        IF p = game.root THEN {0}
        ELSE UNION {{k + counted(q) : k \in d[q]} : q \in {x \in Positions : p \in moves_of(x)}}
  IN d

exactly(v) == [least |-> v, most |-> v]

(* Minimax, without table or windows, of a position searched to depth d by *)
(* an iteration to depth n, as far as depth decides it: an answer from the *)
(* table may be deeper than what was asked (answers), but no deeper than   *)
(* the shortest way to its position leaves of n.  Where no position is     *)
(* reached over two distances, least and most are both the minimax value.  *)
Minimax ==
  LET distances == Distances
      m[p \in Positions, d \in 0..MaxDepth, n \in 0..MaxDepth] ==
        LET answered == d..(n - Min(distances[p]))
            below(k) == IF Cardinality(moves_of(p)) = 1 THEN k ELSE k - 1
            reply(c, v) ==
              IF passes_turn(p, c) THEN [least |-> -v.most, most |-> -v.least] ELSE v
            replies == {{reply(c, m[c, below(k), n]) : c \in moves_of(p)} : k \in answered}
        IN IF is_terminal(p) THEN exactly(terminal_score(p, d))
           ELSE IF d = 0 \/ moves_of(p) = {} THEN exactly(game.eval[p])
           ELSE [least |-> Min({Max({v.least : v \in at}) : at \in replies}),
                 most |-> Max({v.most : v \in UNION replies})]
  IN m

(* Whether a side can force its win from a position, to any depth.         *)
Wins ==
  LET wins[p \in Positions, c \in {0, 1}] ==
        IF is_terminal(p) THEN game.winner[p] = c
        ELSE IF game.side[p] = c THEN \E m \in moves_of(p) : wins[m, c]
        ELSE moves_of(p) # {} /\ \A m \in moves_of(p) : wins[m, c]
  IN wins

Alone == Cardinality(asked.hired) = 1
Undisturbed == \A t \in asked.hired : ~worker[t].aborted
Current == {table[i] : i \in {j \in DOMAIN table : is_current(table[j])}}
Decided(r) == r.depth > 0 /\ Cardinality(moves_of(game.root)) > 1

(* alpha_beta, probe_tt and save_at_age: as long as a lone search is not   *)
(* aborted, every entry of its generation is true of the position searched *)
(* to the entry's depth, though windows narrowed by other entries, fail-   *)
(* soft scores, replacements and entries of an old generation went into it.*)
(* Where answers were deeper than asked it is true of some of the depths   *)
(* between.                                                                *)
TableIsTrue ==
  Alone /\ Undisturbed =>
    LET distances == Distances
        minimax == Minimax
    IN \A e \in Current :
      LET v == minimax[e.key, e.depth,
                       Smaller(MaxDepth, e.depth + Max(distances[e.key]))]
      IN /\ e.bound # "Upper" => e.value <= v.most
         /\ e.bound # "Lower" => e.value >= v.least

(* run_ab_like_search: what a lone search publishes for a depth, also one  *)
(* that is aborted later at any node, is the value of the root at that     *)
(* depth and a move that has it, up to answers that were deeper than asked.*)
PublishedIsMinimax ==
  Alone => \A t \in asked.hired :
    LET r == worker[t].result
        root == Minimax[game.root, r.depth, r.depth]
    IN Decided(r) =>
         /\ r.score \in root.least..root.most
         /\ r.action = NONE <=> is_terminal(game.root)
         /\ r.action # NONE =>
              LET v == Minimax[r.action, r.depth - 1, r.depth]
              IN seen_from(game.root, r.action, r.score) \in v.least..v.most

(* The shared table: threads that work at different depths read each       *)
(* other's entries, so scores are of no single depth any more; still a     *)
(* score in the winning or losing range, stored or published, is a forced  *)
(* win or loss on the board.                                               *)
WinsAreForced ==
  Undisturbed =>
    /\ \A e \in Current :
         /\ e.bound # "Upper" /\ e.value >= WinScore => Wins[e.key, game.side[e.key]]
         /\ e.bound # "Lower" /\ e.value <= -WinScore => Wins[e.key, 1 - game.side[e.key]]
    /\ \A t \in asked.hired :
         LET r == worker[t].result
         IN Decided(r) =>
              /\ r.score >= WinScore => Wins[game.root, game.side[game.root]]
              /\ r.score <= -WinScore => Wins[game.root, 1 - game.side[game.root]]

(* search_mtdf_with_guess: "a converging fail-low (all-node) probe never   *)
(* raises alpha and therefore must NOT change the move chosen by the       *)
(* fail-high probe that established the score": a thread that publishes a  *)
(* win publishes a move that keeps it.  It does not hold of threads that   *)
(* share a table (README, what was seen without a run); no run repeats it. *)
PublishedMoveKeepsTheWin ==
  \A t \in asked.hired :
    LET r == worker[t].result
    IN Decided(r) /\ r.action # NONE /\ r.score >= WinScore =>
      Wins[r.action, game.side[game.root]]
=============================================================================
