------------------------------ MODULE GameRoom ------------------------------
(***************************************************************************)
(* The online room (services/online-worker/src/game_room.ts): a durable    *)
(* object that keeps the authoritative state of one match.                 *)
(*                                                                         *)
(* A handler runs alone up to an await that leaves the object's storage,   *)
(* and such an await lets other events in.  The one that matters is in     *)
(* join, which reads the room, awaits the body of the request and then     *)
(* writes back what it read.  A room that was never created is not         *)
(* modelled; create is the initial state.                                  *)
(*                                                                         *)
(* The rules are a parameter (ruleAdapter).  A command's identifier tells  *)
(* who made it.  A secret is the right to what it opens.  The room's end   *)
(* of life is the moment its alarm deletes it: later requests find no      *)
(* room, earlier ones a room that lives; a control request lapses before.  *)
(***************************************************************************)
EXTENDS Naturals, Sequences, FiniteSets, SequencesExt

CONSTANTS
  CreatorSeats,     \* the seats that a creator may have asked for
  Joiners,          \* requests that carry the room's invitation
  Moves,            \* what a client may send as an action
  Legal(_, _),      \* whether a move may follow a line of actions
  ToMove(_),        \* the seat that moves after a line of actions
  OutcomeOf(_),     \* "ongoing", "draw", or the seat that has won
  Transformed(_),   \* a line under the board transformation
  MAX_RECENT_COMMANDS

Seats == {"first", "second"}

ASSUME RoomAssumption ==
    CreatorSeats \subseteq Seats /\ MAX_RECENT_COMMANDS \in Nat

opposite(seat) == IF seat = "first" THEN "second" ELSE "first"

None == [none |-> TRUE]

VARIABLES
  room,      \* what storage holds: a room state, or None
  alarm,     \* what the object's one alarm is set for
  sockets,   \* per seat, its socket: "closed", "open", or "deaf" when the
             \* client has gone and the room has not noticed
  down,      \* per seat, messages on their way to its client
  joining    \* per joiner, how far its join is and the state it has read

roomVars == <<room, alarm, sockets, down, joining>>

CONTROL_KINDS == {"takeBack", "restart", "boardTransform"}
RoomInit ==
    /\ room \in
         {[creatorSeat |-> seat, joined |-> FALSE, status |-> "waiting",
           seq |-> 0, actions |-> << >>, tickets |-> {},
           recentCommands |-> << >>, pendingControl |-> None,
           endReason |-> "none", winnerSeat |-> "none"] : seat \in CreatorSeats}
    /\ alarm = "room"
    /\ down = [s \in Seats |-> << >>]
    /\ joining = [j \in Joiners |-> [step |-> "idle", read |-> None]]

-----------------------------------------------------------------------------
(* Messages to the clients.                                                *)

snapshot(r) == [seq |-> r.seq, actions |-> r.actions]

(* What every message with a snapshot and a status carries. *)
stateEvent(r, type, id) ==
  [type |-> type, seq |-> r.seq, actions |-> r.actions, status |-> r.status,
   pending |-> r.pendingControl, id |-> id]

controlResult(r, id, requestId) ==
  [type |-> "controlResult", seq |-> r.seq, actions |-> r.actions,
   status |-> r.status, pending |-> r.pendingControl, id |-> id,
   requestId |-> requestId]

errorEvent(r, code, id) ==
  [type |-> "error", error |-> code, seq |-> r.seq, actions |-> r.actions,
   id |-> id]

(* broadcast, and a reply on one socket. *)
Sent(queues, message, seats) ==
  [s \in Seats |-> IF s \in seats /\ sockets[s] = "open"
                   THEN Append(queues[s], message) ELSE queues[s]]

Others(seat) == Seats \ {seat}

isSeatConnected(seat) == sockets[seat] # "closed"

-----------------------------------------------------------------------------
(* Requests over HTTP.                                                     *)

(* join up to the await of the request's body ... *)
BeginJoin(j) ==
    /\ joining[j].step = "idle"
    /\ room # None
    /\ joining' = [joining EXCEPT ![j] = [step |-> "reading", read |-> room]]
    /\ UNCHANGED <<room, alarm, sockets, down>>

may_join(read) == read.status = "waiting" /\ ~read.joined

(* ... and from it: the decision and the new state come from what was read.*)
FinishJoin(j) ==
    LET read == joining[j].read IN
    /\ joining[j].step = "reading"
    /\ IF may_join(read)
       THEN /\ room' = [read EXCEPT !.joined = TRUE, !.status = "active",
                                    !.seq = @ + 1]
            /\ down' = Sent(down, stateEvent(room', "opponentJoined", None), Seats)
            /\ joining' = [joining EXCEPT ![j].step = "seated"]
       ELSE /\ joining' = [joining EXCEPT ![j].step = "refused"]
            /\ UNCHANGED <<room, down>>
    /\ UNCHANGED <<alarm, sockets>>

(* issueTicket: a seat has one ticket at most, and it is for one use; what *)
(* tickets holds is the seats with a ticket that is good.                  *)
issueTicket(seat) ==
    /\ room # None
    /\ room' = [room EXCEPT !.tickets = @ \union {seat}]
    /\ UNCHANGED <<alarm, joining>>

valid_ticket(seat) == room # None /\ seat \in room.tickets

welcome(r, seat) ==
  [type |-> "welcome", seq |-> r.seq, actions |-> r.actions, status |-> r.status,
   pending |-> r.pendingControl, id |-> None,
   endReason |-> r.endReason, winnerSeat |-> r.winnerSeat,
   opponentConnected |-> isSeatConnected(opposite(seat))]

(* acceptSocket: an older socket of the seat is replaced. *)
acceptSocket(seat) ==
    /\ valid_ticket(seat)
    /\ room' = [room EXCEPT !.tickets = @ \ {seat}]
    /\ sockets' = [sockets EXCEPT ![seat] = "open"]
    /\ down' = Sent([down EXCEPT ![seat] = Append(@, welcome(room', seat))],
                    [type |-> "opponentConnection", connected |-> TRUE,
                     seq |-> room.seq],
                    Others(seat))
    /\ UNCHANGED <<alarm, joining>>

(* cancel: the creator gives up a room that nobody has joined. *)
cancel ==
    /\ room # None
    /\ room.status = "waiting"
    /\ room' = None
    /\ alarm' = "none"
    /\ sockets' = [s \in Seats |-> "closed"]
    /\ UNCHANGED joining

-----------------------------------------------------------------------------
(* Commands on a socket.                                                   *)

BUG_one_too_many(r, id, error) ==
  LET all == Append(r.recentCommands, [id |-> id, error |-> error])
      excess == Len(all) - MAX_RECENT_COMMANDS
  IN  [r EXCEPT !.recentCommands =
         IF excess > 1 THEN SubSeq(all, excess + 1, Len(all)) ELSE all]

(* remember: the last commands and how each was answered. *)
remembered(r, id, error) ==
  LET all == Append(r.recentCommands, [id |-> id, error |-> error])
      excess == Len(all) - MAX_RECENT_COMMANDS
  IN  [r EXCEPT !.recentCommands =
         IF excess > 0 THEN SubSeq(all, excess + 1, Len(all)) ELSE all]

rejectCommand(seat, c, code) ==
    /\ room' = remembered(room, c.id, code)
    /\ down' = Sent(down, errorEvent(room, code, c.id), {seat})
    /\ UNCHANGED <<alarm, sockets>>

(* A command that was answered is answered again in the same way. *)
BUG_repeats_forgotten(c) == FALSE

recognised(c) ==
  \E i \in DOMAIN room.recentCommands : room.recentCommands[i].id = c.id

answerAgain(seat, c) ==
    LET item == CHOOSE x \in Range(room.recentCommands) : x.id = c.id IN
    /\ down' = Sent(down,
                    IF item.error = "none" THEN stateEvent(room, "state", c.id)
                    ELSE errorEvent(room, item.error, c.id),
                    {seat})
    /\ UNCHANGED <<room, alarm, sockets>>

(* A command that takes effect counts the revision and is remembered. *)
committed(r, c) == remembered([r EXCEPT !.seq = @ + 1], c.id, "none")

may_act(seat, c) ==
    /\ room.status = "active"
    /\ ToMove(room.actions) = seat
    /\ room.pendingControl = None
    /\ Legal(room.actions, c.move)

played(r, move) ==
  LET line == Append(r.actions, move) IN
  IF OutcomeOf(line) = "ongoing" THEN [r EXCEPT !.actions = line]
  ELSE [r EXCEPT !.actions = line, !.status = "ended", !.endReason = "outcome",
                 !.winnerSeat = IF OutcomeOf(line) = "draw" THEN "none"
                                ELSE OutcomeOf(line)]

applyAction(seat, c) ==
    IF may_act(seat, c)
    THEN /\ room' = committed(played(room, c.move), c)
         /\ down' = Sent(down, stateEvent(room', "state", c.id), Seats)
         /\ UNCHANGED <<alarm, sockets>>
    ELSE rejectCommand(seat, c, "action_rejected")

may_request(c) ==
    /\ room.status = "active"
    /\ room.pendingControl = None
    /\ c.kind = "takeBack" => c.steps \in 1..Len(room.actions)

requestControl(seat, c) ==
    IF may_request(c)
    THEN LET pending == [kind |-> c.kind, requestId |-> c.id,
                         requester |-> seat, steps |-> c.steps]
         IN  /\ room' = committed([room EXCEPT !.pendingControl = pending], c)
             /\ alarm' = "control"
             /\ down' = Sent(Sent(down, stateEvent(room', "state", c.id), {seat}),
                             [type |-> "controlRequest", request |-> pending,
                              seq |-> room'.seq],
                             Others(seat))
             /\ UNCHANGED sockets
    ELSE rejectCommand(seat, c, "action_rejected")

(* respondControl looks at the pending request and not at the status. *)
may_respond(seat, c) ==
    /\ room.pendingControl # None
    /\ room.pendingControl.kind = c.kind
    /\ room.pendingControl.requester # seat
    /\ room.pendingControl.requestId = c.requestId

granted(r, pending) ==
  CASE pending.kind = "takeBack" ->
         [r EXCEPT !.status = "active",
                   !.actions = SubSeq(@, 1, Len(@) - pending.steps)]
    [] pending.kind = "restart" ->
         [r EXCEPT !.status = "active", !.actions = << >>]
    [] pending.kind = "boardTransform" ->
         [r EXCEPT !.status = "active", !.actions = Transformed(@)]

respondControl(seat, c) ==
    IF may_respond(seat, c)
    THEN LET pending == room.pendingControl
             answered == IF c.accepted THEN granted(room, pending) ELSE room
         IN  /\ room' = committed([answered EXCEPT !.pendingControl = None], c)
             /\ alarm' = "room"
             /\ down' = Sent(down, controlResult(room', c.id, pending.requestId),
                             Seats)
             /\ UNCHANGED sockets
    ELSE rejectCommand(seat, c, "action_rejected")

(* resign and leave end the match and leave a pending request as it is.    *)
resign(seat, c) ==
    IF room.status = "active"
    THEN /\ room' = committed([room EXCEPT !.status = "ended",
                                           !.endReason = "resign",
                                           !.winnerSeat = opposite(seat)], c)
         /\ down' = Sent(Sent(down, stateEvent(room', "state", c.id), {seat}),
                         [type |-> "opponentResigned", seq |-> room'.seq],
                         Others(seat))
         /\ UNCHANGED <<alarm, sockets>>
    ELSE rejectCommand(seat, c, "action_rejected")

leave(seat, c) ==
    IF room.status = "active"
    THEN /\ room' = committed([room EXCEPT !.status = "ended",
                                           !.endReason = "left"], c)
         /\ down' = Sent(Sent(down, [type |-> "opponentLeft", seq |-> room'.seq],
                              Others(seat)),
                         stateEvent(room', "state", c.id), {seat})
         /\ sockets' = [sockets EXCEPT ![seat] = "closed"]
         /\ UNCHANGED alarm
    ELSE rejectCommand(seat, c, "action_rejected")

handleCommand(seat, c) ==
    CASE c.type = "action"  -> applyAction(seat, c)
      [] c.type = "request" -> requestControl(seat, c)
      [] c.type = "respond" -> respondControl(seat, c)
      [] c.type = "resign"  -> resign(seat, c)
      [] c.type = "leave"   -> leave(seat, c)

BUG_any_revision(c) == TRUE

current(c) == c.expectedSeq = room.seq

(* webSocketMessage.  *)
webSocketMessage(seat, c) ==
    /\ sockets[seat] # "closed"
    /\ room # None
    /\ IF recognised(c) THEN answerAgain(seat, c)
       ELSE IF ~current(c) THEN rejectCommand(seat, c, "stale_revision")
       ELSE handleCommand(seat, c)
    /\ UNCHANGED joining

(* webSocketClose and webSocketError: the room notices that a socket has   *)
(* gone.                                                                   *)
webSocketClose(seat) ==
    /\ sockets[seat] # "closed"
    /\ sockets' = [sockets EXCEPT ![seat] = "closed"]
    /\ down' = IF room = None \/ room.status = "ended" THEN down
               ELSE Sent(down, [type |-> "opponentConnection",
                                connected |-> FALSE, seq |-> room.seq],
                         Others(seat))
    /\ UNCHANGED <<room, alarm, joining>>

(* alarm: the one alarm serves the deadline of a request and the end of the*)
(* room; the handler tells them apart by the state it finds.               *)
AlarmFires ==
    /\ room # None
    /\ alarm # "none"
    /\ IF room.pendingControl # None
       THEN /\ room' = [room EXCEPT !.pendingControl = None, !.seq = @ + 1]
            /\ alarm' = "room"
            /\ down' = Sent(down,
                            controlResult(room', None, room.pendingControl.requestId),
                            Seats)
            /\ UNCHANGED sockets
       ELSE /\ room' = None
            /\ alarm' = "none"
            /\ sockets' = [s \in Seats |-> "closed"]
            /\ UNCHANGED down
    /\ UNCHANGED joining

=============================================================================
