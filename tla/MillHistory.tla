----------------------------- MODULE MillHistory -----------------------------
(***************************************************************************)
(* Games of MillRules watched by an observer that remembers what the rules *)
(* promise about the past: which lines each side has been paid a removal   *)
(* for, and the move each side made last.  The observer reads the board    *)
(* and the actions only, never the bookkeeping of the engine               *)
(* (formed_mills_bb, last_mill_from, last_mill_to), so what it says about  *)
(* the repeated-mill rules is independent of the code that enforces them.  *)
(***************************************************************************)
EXTENDS MillRules

VARIABLES
  paid,       \* paid[c]: the lines side c has been paid a removal for
  previous    \* previous[c]: c's last placement or move

hvars == <<options, state, paid, previous>>

NoMove == [from |-> NONE, to |-> NONE, mill_to_mill |-> FALSE]

Completed(s, t, o, c) == MillsOf(t, o, c) \ MillsOf(s, o, c)
Opened(s, t, o, c) == MillsOf(s, o, c) \ MillsOf(t, o, c)
Pays(t, c) == t.pending_removals[c] > 0

HistoryInit == Init /\ paid = Both({}) /\ previous = Both(NoMove)

(* The observer notes what the rules in force speak of.                    *)
HistoryNext ==
  LET c == state.side_to_move
  IN \E a \in legal_actions(state, options) :
       /\ state' = apply_to_state(state, options, a, TRUE)
       /\ LET lines == Completed(state, state', options, c)
              turn == a.kind # "Remove"
          IN /\ paid' = IF turn /\ options.one_time_use_mill /\ Pays(state', c)
                        THEN [paid EXCEPT ![c] = @ \union lines] ELSE paid
             /\ previous' = IF turn /\ options.restrict_repeated_mills_formation
                            THEN [previous EXCEPT ![c] =
                                   [from |-> a.from, to |-> a.to,
                                    mill_to_mill |-> a.kind = "Move" /\ lines # {} /\
                                      Opened(state, state', options, c) # {}]]
                            ELSE previous
       /\ UNCHANGED options

HistorySpec == HistoryInit /\ [][HistoryNext]_hvars

(* The observer changes no game, so players act as in FairSpec.            *)
FairHistorySpec == HistorySpec /\ PlayersAct

-----------------------------------------------------------------------------

(* restrict_repeated_mills_formation: a piece that went from one mill to   *)
(* another does not go straight back on its side's next move to form a     *)
(* mill again.                                                             *)
NoShuttleMill ==
  [][options.restrict_repeated_mills_formation =>
       \A c \in Sides :
         (/\ previous[c].mill_to_mill /\ previous'[c].mill_to_mill
          /\ previous'[c] # previous[c])
           => ~(/\ previous'[c].from = previous[c].to
                /\ previous'[c].to = previous[c].from)]_hvars

Completes(c) ==
  /\ state.action # "Remove" /\ c = state.side_to_move
  /\ Completed(state, state', options, c) # {}

(* one_time_use_mill: completing only lines that have been paid for earns  *)
(* no removal.                                                             *)
PaidMillPaysNoMore ==
  [][options.one_time_use_mill =>
       \A c \in Sides :
         (Completes(c) /\ Completed(state, state', options, c) \subseteq paid[c])
           => ~Pays(state', c)]_hvars

=============================================================================
