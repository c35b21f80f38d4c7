----------------------------- MODULE AgreedMatch -----------------------------
(***************************************************************************)
(* What a match of two players promises, whatever carries it: moves come   *)
(* from the side to move, the line changes otherwise only by an offer that *)
(* the other side accepts, nothing but an answer or the lapse of the offer *)
(* happens to a line that is under one, and the result of a match is       *)
(* final.                                                                  *)
(*                                                                         *)
(* GameRoom does not keep this promise by itself: respondControl does not  *)
(* look at the status of the room, and resign and leave keep an offer.  It *)
(* is the clients' guards and the check of revisions that keep it, which   *)
(* OnlineMatch refines to this module to show.                             *)
(***************************************************************************)
EXTENDS Naturals, Sequences

CONSTANTS Moves, Legal(_, _), ToMove(_), OutcomeOf(_), Transformed(_), NoOffer

VARIABLES
  stage,    \* "waiting", "active", "ended", or "gone"
  line,     \* the moves played
  result,   \* why the match ended, and who has won
  offer     \* what one side asks for: NoOffer or who asks, and for what

matchVars == <<stage, line, result, offer>>

Players == {"first", "second"}
Open == [reason |-> "none", winner |-> "none"]

Init ==
    /\ stage = "waiting"
    /\ line = << >>
    /\ result = Open
    /\ offer = NoOffer

(* The second player comes.  A join that was under way when the room was   *)
(* given up brings the room back.                                          *)
Begin ==
    /\ stage \in {"waiting", "gone"}
    /\ line = << >> /\ result = Open /\ offer = NoOffer
    /\ stage' = "active"
    /\ UNCHANGED <<line, result, offer>>

Play(move) ==
    /\ stage = "active"
    /\ offer = NoOffer
    /\ Legal(line, move)
    /\ line' = Append(line, move)
    /\ IF OutcomeOf(line') = "ongoing" THEN UNCHANGED <<stage, result>>
       ELSE /\ stage' = "ended"
            /\ result' = [reason |-> "outcome",
                          winner |-> IF OutcomeOf(line') = "draw" THEN "none"
                                     ELSE OutcomeOf(line')]
    /\ UNCHANGED offer

Offer(player) ==
    /\ stage = "active"
    /\ offer = NoOffer
    /\ \E kind \in {"takeBack", "restart", "boardTransform"}, steps \in 0..Len(line) :
         /\ kind = "takeBack" <=> steps > 0
         /\ offer' = [by |-> player, kind |-> kind, steps |-> steps]
    /\ UNCHANGED <<stage, line, result>>

Wanted ==
  CASE offer.kind = "takeBack" -> SubSeq(line, 1, Len(line) - offer.steps)
    [] offer.kind = "restart" -> << >>
    [] offer.kind = "boardTransform" -> Transformed(line)

Accept ==
    /\ stage = "active"
    /\ offer # NoOffer
    /\ line' = Wanted
    /\ offer' = NoOffer
    /\ UNCHANGED <<stage, result>>

(* Refused, or not answered in time. *)
Drop ==
    /\ offer # NoOffer
    /\ offer' = NoOffer
    /\ UNCHANGED <<stage, line, result>>

Resign(player) ==
    /\ stage = "active"
    /\ stage' = "ended"
    /\ result' = [reason |-> "resign",
                  winner |-> CHOOSE p \in Players : p # player]
    /\ UNCHANGED <<line, offer>>

Leave ==
    /\ stage = "active"
    /\ stage' = "ended"
    /\ result' = [reason |-> "left", winner |-> "none"]
    /\ UNCHANGED <<line, offer>>

(* The room is given up or its time is over. *)
Vanish ==
    /\ stage # "gone"
    /\ stage' = "gone"
    /\ line' = << >>
    /\ result' = Open
    /\ offer' = NoOffer

Next ==
    \/ Begin \/ Accept \/ Drop \/ Leave \/ Vanish
    \/ \E move \in Moves : Play(move)
    \/ \E player \in Players : Offer(player) \/ Resign(player)

Spec == Init /\ [][Next]_matchVars

=============================================================================
