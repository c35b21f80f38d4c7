----------------------------- MODULE OnlineMatch -----------------------------
(***************************************************************************)
(* A match between two clients over an online room: the client of          *)
(* lib/online_play/cloud_match_coordinator.dart, one per seat, composed    *)
(* with GameRoom over sockets that break.                                  *)
(*                                                                         *)
(* Covered: lost, repeated and late messages, sockets that break on one    *)
(* side first, answers of HTTP requests that are lost, reconnects, resent  *)
(* commands, control requests that lapse, the end of the room.             *)
(*                                                                         *)
(* Inbound messages are handled one after the other (_inboundSerial).  A   *)
(* handler that carries a snapshot awaits the game (restoreSnapshot) and   *)
(* then goes on: two steps, between which the user, the timers and the     *)
(* socket may act, where the game shows something else than the snapshot.  *)
(***************************************************************************)
EXTENDS GameRoom

CONSTANTS
  MaxEvents,     \* commands of the two users and losses of the network
  MaxLosses      \* losses of the network: connections, requests, late answers

VARIABLES
  client,        \* per seat, its CloudMatchCoordinator
  up,            \* per seat, commands on their way to the room
  losses,        \* losses so far
  applied,       \* history: commands that took effect
  refused,       \* history: commands whose sender was told that the room refused them
  overdue        \* history: commands whose sender was told that they failed when
                 \* their time ran out

clientVars == <<client, up>>
historyVars == <<applied, refused, overdue>>
vars == <<roomVars, clientVars, losses, historyVars>>

ConnectionStates == {"connecting", "listening", "ready", "reconnecting",
                     "ended", "error"}

NewClient ==
  [state |-> "connecting", everWelcomed |-> FALSE, ending |-> FALSE,
   isConnected |-> FALSE,      \* of the socket client
   stage |-> "ticket",         \* of _connectAndAwaitWelcome
   looping |-> FALSE,          \* _reconnectLoopRunning
   revision |-> 0, actionLog |-> << >>, status |-> "waiting",
   saved |-> 0,                \* the revision of the session store's snapshot
   game |-> << >>,             \* the line that the game shows
   winner |-> "none",          \* forceWinner
   pendingCommands |-> << >>,
   request |-> None,           \* _lastInboundControlRequestId
   inbound |-> None,           \* the message being handled
   count |-> 0]                \* commands made so far

(* The creator waits in its room; the other one's session comes with the   *)
(* answer to its join.                                                     *)
Init ==
    /\ RoomInit
    /\ sockets = [s \in Seats |-> IF s = room.creatorSeat THEN "open" ELSE "closed"]
    /\ client = [s \in Seats |->
                   IF s = room.creatorSeat
                   THEN [NewClient EXCEPT !.state = "listening", !.stage = "none",
                                          !.everWelcomed = TRUE,
                                          !.isConnected = TRUE]
                   ELSE [NewClient EXCEPT !.stage = "none"]]
    /\ up = [s \in Seats |-> << >>]
    /\ losses = 0
    /\ applied = {}
    /\ refused = {}
    /\ overdue = {}

may_command == client["first"].count + client["second"].count + losses < MaxEvents
may_lose == may_command /\ losses < MaxLosses

Update(s, c) == client' = [client EXCEPT ![s] = c]

(* No message is on its way. *)
quiet == \A s \in Seats : up[s] = << >> /\ down[s] = << >>

-----------------------------------------------------------------------------
(* Sockets and their loss.                                                 *)

BUG_loop_not_started(c) ==
  LET off == [c EXCEPT !.isConnected = FALSE, !.stage = "none"] IN
  IF c.ending \/ c.state = "ended" THEN off
  ELSE IF ~c.everWelcomed THEN [off EXCEPT !.state = "error"]
  ELSE [off EXCEPT !.state = "reconnecting"]

(* _handleSocketLoss: the attempt under way fails, or the loop starts.     *)
lost(c) ==
  LET off == [c EXCEPT !.isConnected = FALSE] IN
  IF c.ending \/ c.state = "ended" THEN [off EXCEPT !.stage = "none"]
  ELSE IF ~c.everWelcomed THEN [off EXCEPT !.stage = "none", !.state = "error"]
  ELSE [off EXCEPT !.state = "reconnecting", !.looping = TRUE, !.stage = "ticket"]

(* The client's end of a connection is gone.  What it had sent may still   *)
(* arrive; what was sent to it is lost except what it has received and not *)
(* handled yet.                                                            *)
Disconnect(s) ==
    IF client[s].isConnected
    THEN /\ sockets' = [sockets EXCEPT ![s] = IF @ = "open" THEN "deaf" ELSE @]
         /\ \E k \in 0..Len(down[s]) : down' = [down EXCEPT ![s] = SubSeq(@, 1, k)]
    ELSE UNCHANGED <<sockets, down>>

(* A connection breaks and the client notices. *)
Break(s) ==
    /\ client[s].isConnected
    /\ may_lose
    /\ losses' = losses + 1
    /\ Update(s, lost(client[s]))
    /\ Disconnect(s)
    /\ UNCHANGED <<room, alarm, joining, up, historyVars>>

(* The client's process ends and starts again from the session it has saved*)
(* (start with resuming); commands without an answer are forgotten.        *)
AppRestarts(s) ==
    /\ client[s].stage # "none" \/ client[s].everWelcomed
    /\ ~client[s].ending
    /\ may_lose
    /\ losses' = losses + 1
    /\ Update(s, [NewClient EXCEPT !.revision = client[s].saved,
                                   !.saved = client[s].saved,
                                   !.actionLog = client[s].actionLog,
                                   !.game = client[s].actionLog,
                                   !.status = client[s].status,
                                   !.count = client[s].count])
    /\ sockets' = [sockets EXCEPT ![s] = IF @ = "open" THEN "deaf" ELSE @]
    /\ down' = [down EXCEPT ![s] = << >>]
    /\ UNCHANGED <<room, alarm, joining, up, historyVars>>

(* The client reads the end of a connection that the room has closed; what *)
(* came before it may wait to be handled.                                  *)
ReadClose(s) ==
    /\ client[s].isConnected
    /\ sockets[s] = "closed"
    /\ Update(s, lost(client[s]))
    /\ up' = [up EXCEPT ![s] = << >>]
    /\ UNCHANGED <<roomVars, losses, historyVars>>

(* The room notices that a client has gone. *)
RoomReadsClose(s) ==
    /\ sockets[s] = "deaf"
    /\ webSocketClose(s)
    /\ up' = [up EXCEPT ![s] = << >>]
    /\ UNCHANGED <<client, losses, historyVars>>

-----------------------------------------------------------------------------
(* Connecting: a ticket, a socket, a welcome.                              *)

attempting(s, stage) ==
    /\ client[s].stage = stage
    /\ ~client[s].ending

(* With a ticket the client closes its channel and opens another. *)
GetTicket(s) ==
    /\ attempting(s, "ticket")
    /\ issueTicket(s)
    /\ Disconnect(s)
    /\ Update(s, [client[s] EXCEPT !.stage = "connect", !.isConnected = FALSE])
    /\ UNCHANGED <<up, losses, historyVars>>

(* _handleTerminalApiFailure: there is no room any more. *)
RoomUnavailable(s) ==
    /\ attempting(s, "ticket")
    /\ room = None
    /\ Update(s, [client[s] EXCEPT !.ending = TRUE, !.state = "error",
                                   !.stage = "none", !.looping = FALSE])
    /\ UNCHANGED <<roomVars, up, losses, historyVars>>

Connect(s) ==
    /\ attempting(s, "connect")
    /\ acceptSocket(s)
    /\ Update(s, [client[s] EXCEPT !.isConnected = TRUE, !.stage = "welcome"])
    /\ up' = [up EXCEPT ![s] = << >>]
    /\ UNCHANGED <<losses, historyVars>>

(* An attempt that fails ends start; the loop makes another.                 *)
failed(c) ==
  IF c.looping THEN [c EXCEPT !.stage = "ticket"]
  ELSE [c EXCEPT !.stage = "none", !.state = "error"]

(* The socket is refused, or the request does not get through. *)
ConnectFails(s) ==
    /\ attempting(s, "connect")
    /\ Update(s, failed(client[s]))
    /\ \/ ~valid_ticket(s) /\ UNCHANGED <<roomVars, losses>>
       \/ /\ may_lose
          /\ losses' = losses + 1
          /\ UNCHANGED roomVars
    /\ UNCHANGED <<up, historyVars>>

(* The wait for the welcome ends; the connection is left as it is. *)
WelcomeTimeout(s) ==
    /\ attempting(s, "welcome")
    /\ may_lose
    /\ losses' = losses + 1
    /\ Update(s, failed(client[s]))
    /\ UNCHANGED <<roomVars, up, historyVars>>

(* The loop's window ends. *)
GiveUp(s) ==
    /\ client[s].looping
    /\ client[s].stage = "ticket"
    /\ ~client[s].ending
    /\ Update(s, [client[s] EXCEPT !.looping = FALSE, !.stage = "none",
                                   !.state = "error"])
    /\ UNCHANGED <<roomVars, up, losses, historyVars>>

RetryConnection(s) ==
    /\ client[s].state = "error"
    /\ ~client[s].looping
    /\ ~client[s].ending
    /\ Update(s, [client[s] EXCEPT !.state = "reconnecting", !.looping = TRUE,
                                   !.stage = "ticket"])
    /\ UNCHANGED <<roomVars, up, losses, historyVars>>

-----------------------------------------------------------------------------
(* Joining.                                                                *)

Join(j) ==
    /\ BeginJoin(j)
    /\ UNCHANGED <<client, up, losses, historyVars>>

(* The joiner's session starts with the snapshot of the answer. *)
Joined(j) ==
    /\ FinishJoin(j)
    /\ IF joining'[j].step = "seated"
       THEN Update(opposite(room'.creatorSeat),
                   [NewClient EXCEPT !.revision = room'.seq, !.saved = room'.seq,
                                     !.status = room'.status])
       ELSE UNCHANGED client
    /\ UNCHANGED <<up, losses, historyVars>>

(* _cancelWaitingRoom: the creator's client is disposed. *)
Cancel ==
    /\ cancel
    /\ Update(room.creatorSeat,
              [client[room.creatorSeat] EXCEPT !.ending = TRUE, !.state = "ended",
                 !.isConnected = FALSE, !.stage = "none", !.looping = FALSE])
    /\ down' = [s \in Seats |-> << >>]
    /\ up' = [s \in Seats |-> << >>]
    /\ UNCHANGED <<losses, historyVars>>

-----------------------------------------------------------------------------
(* Commands.                                                               *)

may_send(c) == c.isConnected /\ ~c.ending

newId(s) == [seat |-> s, n |-> client[s].count + 1]

(* _sendCommand: the command waits for its answer and is sent.  A command  *)
(* carries the revision its client stands at; seen is a history of what its*)
(* user had before him.                                                    *)
SendCommand(s, command) ==
    /\ may_send(client[s])
    /\ may_command
    /\ Update(s, [client[s] EXCEPT !.count = @ + 1,
                                   !.pendingCommands = Append(@, command),
                                   !.ending = (@ \/ command.type = "leave")])
    /\ up' = [up EXCEPT ![s] = Append(@, command)]
    /\ UNCHANGED <<roomVars, losses, historyVars>>

isReady(s) == client[s].state = "ready"

(* submitLocalAction, when the game shows that it is this side's turn.     *)
SubmitLocalAction(s, move) ==
    /\ isReady(s)
    /\ ToMove(client[s].game) = s
    /\ Legal(client[s].game, move)
    /\ SendCommand(s, [type |-> "action", id |-> newId(s),
                       expectedSeq |-> client[s].revision,
                       seen |-> client[s].game,
                       move |-> move])

(* requestTakeBack, requestRestart, requestBoardTransform. *)
Request(s, kind, steps) ==
    /\ isReady(s)
    /\ SendCommand(s, [type |-> "request", id |-> newId(s),
                       expectedSeq |-> client[s].revision,
                       seen |-> client[s].game,
                       kind |-> kind, steps |-> steps])

(* The user answers the request that is on display. *)
Respond(s, accepted) ==
    LET request == client[s].request IN
    /\ request # None
    /\ SendCommand(s, [type |-> "respond", id |-> newId(s),
                       expectedSeq |-> client[s].revision,
                       seen |-> client[s].game,
                       kind |-> request.kind, requestId |-> request.requestId,
                       accepted |-> accepted])

Resign(s) ==
    /\ isReady(s)
    /\ SendCommand(s, [type |-> "resign", id |-> newId(s),
                       expectedSeq |-> client[s].revision,
                       seen |-> client[s].game])

Leave(s) ==
    SendCommand(s, [type |-> "leave", id |-> newId(s),
                       expectedSeq |-> client[s].revision,
                       seen |-> client[s].game])

LeaveOffline(s) ==
    /\ ~client[s].isConnected
    /\ ~client[s].ending
    /\ may_command
    /\ Update(s, [client[s] EXCEPT !.ending = TRUE, !.stage = "none",
                                   !.looping = FALSE, !.count = @ + 1])
    /\ UNCHANGED <<roomVars, up, losses, historyVars>>

(* The timer of _sendCommand: no answer came in time.  The command is      *)
(* forgotten and completed with false, as a command is that the room has   *)
(* refused; it may have taken effect, or may still be on its way.          *)
CommandTimeout(s) ==
    /\ client[s].pendingCommands # << >>
    /\ may_lose
    /\ losses' = losses + 1
    /\ Update(s, [client[s] EXCEPT !.pendingCommands = Tail(@)])
    /\ overdue' = overdue \union {Head(client[s].pendingCommands).id}
    /\ UNCHANGED <<roomVars, up, applied, refused>>

(* The room takes the next command of a socket. *)
RoomReceives(s) ==
    /\ up[s] # << >>
    /\ webSocketMessage(s, Head(up[s]))
    /\ up' = [up EXCEPT ![s] = IF sockets'[s] = "closed" THEN << >> ELSE Tail(@)]
    /\ applied' = IF room'.seq > room.seq THEN applied \union {Head(up[s]).id}
                  ELSE applied
    /\ UNCHANGED <<client, losses, refused, overdue>>

(* The room's alarm.  A room lives for hours: its end finds no message on  *)
(* its way.                                                                *)
RoomAlarm ==
    /\ AlarmFires
    /\ room' = None => quiet
    /\ up' = IF room' = None THEN [s \in Seats |-> << >>] ELSE up
    /\ UNCHANGED <<client, losses, historyVars>>

-----------------------------------------------------------------------------
(* Handling messages.                                                      *)

CarriesSnapshot == {"welcome", "state", "opponentJoined", "error", "controlResult"}

(* _applyStateMessage ignores what is older than what it has. *)
fresh(c, m) == m.seq >= c.revision

incoming(s) == down[s] # << >> /\ client[s].inbound = None

(* Whether the game has something to restore. *)
restores(c, m) ==
    /\ m.type \in CarriesSnapshot
    /\ m.type = "welcome" \/ (fresh(c, m) /\ m.actions # c.game)

(* A message with another line than the game shows: up to the await of the *)
(* game.                                                                   *)
BeginMessage(s) ==
    LET m == Head(down[s])
        c == client[s]
    IN
    /\ incoming(s)
    /\ restores(c, m)
    /\ down' = [down EXCEPT ![s] = Tail(@)]
    /\ Update(s, [c EXCEPT !.inbound = m,
                           !.game = IF fresh(c, m) THEN m.actions ELSE @])
    /\ UNCHANGED <<room, alarm, sockets, joining, up, losses, historyVars>>

BUG_not_closed(s, c, m) ==
  IF m.type = "error" \/ m.pending = None \/ m.pending.requester = s THEN c.request
  ELSE m.pending

(* _restorePendingControl *)
displayed(s, c, m) ==
  IF m.type = "error" THEN c.request
  ELSE IF m.pending = None THEN None
  ELSE IF m.pending.requester = s THEN c.request
  ELSE m.pending

is_command(m) == m.id # None

(* _pendingCommands is a map from identifiers, in the order of sending. *)
awaits(c, id) ==
  {i \in DOMAIN c.pendingCommands : c.pendingCommands[i].id = id}

answered(c, m) ==
  IF is_command(m) /\ awaits(c, m.id) # {}
  THEN RemoveAt(c.pendingCommands, CHOOSE i \in awaits(c, m.id) : TRUE)
  ELSE c.pendingCommands

(* _applyStateMessage after the await. *)
applied_state(s, c, m) ==
  LET status == IF m.type = "error" THEN c.status ELSE m.status IN
  IF ~fresh(c, m) THEN c
  ELSE [c EXCEPT !.revision = m.seq, !.saved = m.seq, !.actionLog = m.actions, !.status = status,
                 !.ending = @ \/ status = "ended",
                 !.state = IF status = "ended" THEN "ended"
                           ELSE IF status = "active" THEN "ready" ELSE @,
                 !.request = displayed(s, c, m),
                 !.pendingCommands = answered(c, m)]

BUG_any_answer(s, c, m) ==
  LET d == applied_state(s, c, m) IN
  IF \E i \in DOMAIN c.pendingCommands : c.pendingCommands[i].type = "resign"
  THEN [d EXCEPT !.winner = opposite(s), !.ending = TRUE, !.state = "ended"]
  ELSE d

(* resign: an accepted command tells the game who has won. *)
resigned(s, c, m) ==
  LET d == applied_state(s, c, m) IN
  IF \E i \in DOMAIN c.pendingCommands :
        /\ c.pendingCommands[i].type = "resign"
        /\ c.pendingCommands[i].id = m.id
        /\ fresh(c, m)
  THEN [d EXCEPT !.winner = opposite(s), !.ending = TRUE, !.state = "ended"]
  ELSE d

(* _handleWelcome after the snapshot: the room's descriptor decides. *)
welcomed(s, c, m) ==
  LET d == [applied_state(s, [c EXCEPT !.status = m.status], m)
              EXCEPT !.everWelcomed = TRUE, !.stage = "none", !.looping = FALSE]
  IN  CASE m.status = "ended" ->
             [d EXCEPT !.ending = TRUE, !.state = "ended",
                       !.winner = IF m.endReason = "resign" THEN m.winnerSeat
                                  ELSE @]
        [] m.status = "active" ->
             [d EXCEPT !.state = IF m.opponentConnected THEN "ready"
                                 ELSE "listening"]
        [] m.status = "waiting" -> [d EXCEPT !.state = "listening"]

(* The commands that a message tells their sender have failed. *)
rejections(c, m) ==
  IF m.type # "error" THEN {}
  ELSE {c.pendingCommands[i].id : i \in DOMAIN c.pendingCommands} \intersect {m.id}

handled(s, c, m) ==
  CASE m.type = "welcome" -> welcomed(s, c, m)
    [] m.type = "state" -> resigned(s, c, m)
    [] m.type = "opponentJoined" ->
         [applied_state(s, c, m) EXCEPT !.state = "listening"]
    [] m.type = "error" ->
         [applied_state(s, c, [m EXCEPT !.id = None])
            EXCEPT !.pendingCommands = answered(c, m)]
    [] m.type = "controlResult" ->
         LET d == applied_state(s, c, m) IN
         [d EXCEPT !.request = IF @ # None /\ @.requestId = m.requestId
                               THEN None ELSE @]

(* ... and from it.  After a welcome the commands without an answer are    *)
(* sent again, unless the socket has gone since.                           *)
EndMessage(s) ==
    LET c == client[s]
        m == c.inbound
        d == [handled(s, c, m) EXCEPT !.inbound = None]
        alive == m.type = "welcome" /\ c.isConnected
    IN
    /\ m # None
    /\ Update(s, IF m.type = "welcome" /\ ~c.isConnected
                 THEN [d EXCEPT !.stage = c.stage, !.looping = c.looping] ELSE d)
    /\ up' = IF alive THEN [up EXCEPT ![s] = @ \o d.pendingCommands] ELSE up
    /\ refused' = refused \union rejections(c, m)
    /\ UNCHANGED <<roomVars, losses, applied, overdue>>

BUG_not_ended(s, c, m) ==
  LET d == [c EXCEPT !.revision = m.seq] IN
  CASE m.type = "controlRequest" -> [d EXCEPT !.request = m.request]
    [] m.type = "opponentResigned" -> [d EXCEPT !.winner = s]
    [] m.type = "opponentLeft" -> [d EXCEPT !.state = "ended"]
    [] m.type = "opponentConnection" ->
         [d EXCEPT !.state = IF d.status # "active" THEN @
                             ELSE IF m.connected THEN "ready" ELSE "listening"]

(* Messages about the opponent, which only carry the revision. *)
noticed(s, c, m) ==
  LET d == [c EXCEPT !.revision = m.seq] IN
  CASE m.type = "controlRequest" -> [d EXCEPT !.request = m.request]
    [] m.type = "opponentResigned" ->
         [d EXCEPT !.winner = s, !.ending = TRUE, !.state = "ended"]
    [] m.type = "opponentLeft" -> [d EXCEPT !.ending = TRUE, !.state = "ended"]
    [] m.type = "opponentConnection" ->
         [d EXCEPT !.state = IF d.status # "active" THEN @
                             ELSE IF m.connected THEN "ready" ELSE "listening"]

HandleAtOnce(s) ==
    LET m == Head(down[s])
        c == client[s]
    IN
    /\ incoming(s)
    /\ ~restores(c, m)
    /\ down' = [down EXCEPT ![s] = Tail(@)]
    /\ Update(s, IF m.type \in CarriesSnapshot THEN handled(s, c, m)
                 ELSE noticed(s, c, m))
    /\ refused' = refused \union rejections(c, m)
    /\ UNCHANGED <<room, alarm, sockets, joining, up, losses, applied, overdue>>

-----------------------------------------------------------------------------

Connecting(s) ==
    GetTicket(s) \/ RoomUnavailable(s) \/ Connect(s) \/ ConnectFails(s)

Handling(s) == BeginMessage(s) \/ EndMessage(s) \/ HandleAtOnce(s)

User(s) ==
    \/ \E move \in Moves : SubmitLocalAction(s, move)
    \/ \E kind \in CONTROL_KINDS :
         Request(s, kind, IF kind = "takeBack" THEN 1 ELSE 0)
    \/ \E accepted \in BOOLEAN : Respond(s, accepted)
    \/ Resign(s) \/ Leave(s) \/ LeaveOffline(s)
    \/ RetryConnection(s)

Network(s) == Break(s) \/ AppRestarts(s) \/ ReadClose(s) \/ RoomReadsClose(s) \/ RoomReceives(s)

Next ==
    \/ \E s \in Seats : User(s) \/ Connecting(s) \/ Handling(s) \/ Network(s)
                        \/ GiveUp(s) \/ WelcomeTimeout(s) \/ CommandTimeout(s)
    \/ \E j \in Joiners : Join(j) \/ Joined(j)
    \/ Cancel \/ RoomAlarm

(* Requests are answered, received messages are handled and the end of a   *)
(* connection is read; nothing is assumed about users, losses, timers or   *)
(* the end of the room.                                                    *)
Fairness ==
    \A s \in Seats : /\ WF_vars(Connecting(s))
                     /\ WF_vars(Handling(s))
                     /\ WF_vars(ReadClose(s))

Spec == Init /\ [][Next]_vars /\ Fairness

-----------------------------------------------------------------------------
(* What must hold.                                                         *)

(* Every variable stays in its range. *)
OnlineTypeOK ==
    /\ room # None =>
         /\ room.seq \in Nat
         /\ room.status \in {"waiting", "active", "ended"}
         /\ Len(room.recentCommands) <= MAX_RECENT_COMMANDS
    /\ alarm = "control" <=> room # None /\ room.pendingControl # None
    /\ sockets \in [Seats -> {"closed", "open", "deaf"}]
    /\ \A s \in Seats :
         /\ client[s].state \in ConnectionStates
         /\ client[s].stage \in {"none", "ticket", "connect", "welcome"}
         /\ client[s].revision \in Nat

(* The line, the result and the offer of the room behave as a match of two *)
(* players does (respondControl, resign and leave in game_room.ts, with the*)
(* guards of the coordinator).                                             *)
Match == INSTANCE AgreedMatch WITH
  stage <- IF room = None THEN "gone" ELSE room.status,
  line <- IF room = None THEN << >> ELSE room.actions,
  result <- IF room = None THEN [reason |-> "none", winner |-> "none"]
            ELSE [reason |-> room.endReason, winner |-> room.winnerSeat],
  offer <- IF room = None \/ room.pendingControl = None THEN None
           ELSE [by |-> room.pendingControl.requester,
                 kind |-> room.pendingControl.kind,
                 steps |-> room.pendingControl.steps],
  NoOffer <- None

KeepsTheMatch == Match!Spec

(* A command that takes effect does so on the line that its user saw when  *)
(* he gave it, and a move is his own side's (the check of revisions in     *)
(* webSocketMessage with the coordinator's order of snapshot and revision).*)
ActsOnWhatItSaw ==
    [][\A s \in Seats :
         up'[s] # up[s] /\ applied' # applied /\ up[s] # << >> =>
           LET command == Head(up[s]) IN
           command.id \in applied' \ applied =>
             /\ command.seen = room.actions
             /\ command.type = "action" => ToMove(room.actions) = s]_vars

(* The commands whose sender was told that they failed. *)
told == refused \union overdue

(* A command whose sender is told that it failed has had no effect, however*)
(* often it was sent (recentCommands, and resending after a welcome),      *)
(* unless he was told so because its time ran out.                         *)
AnswerIsTrue == applied \intersect told \subseteq overdue

(* resign "returns whether the remote side accepted the command"           *)
(* (remote_match_controller.dart): a resignation that its sender is told   *)
(* has failed has had no effect.  It fails where the timer of _sendCommand *)
(* is faster than the answer.                                              *)
ResignSaysWhetherAccepted ==
  [][\A s \in Seats : \A i \in DOMAIN client[s].pendingCommands :
       LET command == client[s].pendingCommands[i]
       IN command.type = "resign" /\ command.id \in told' \ told =>
            command.id \notin applied']_vars

settled(s) ==
    /\ client[s].isConnected
    /\ client[s].stage = "none"
    /\ client[s].inbound = None

(* When no message is on its way, a connected client shows the room's line,*)
(* stands at its revision and displays the request it has to answer.       *)
QuietMeansAgreed ==
    \A s \in Seats :
      quiet /\ room # None /\ sockets[s] = "open" /\ settled(s) =>
        /\ client[s].game = room.actions
        /\ client[s].revision = room.seq
        /\ (client[s].request # None) =
             (room.pendingControl # None /\ room.pendingControl.requester # s)

(* A client that has lost its socket does not stay "reconnecting": it comes*)
(* back, gives up or learns that the room is gone (_runReconnectLoop).     *)
Reconnects ==
    \A s \in Seats :
      client[s].state = "reconnecting" /\ ~client[s].ending
        ~> client[s].state # "reconnecting" \/ client[s].ending

(* An invitation seats one player (join). *)
JoinsOnce ==
    \A i, j \in Joiners :
      joining[i].step = "seated" /\ joining[j].step = "seated" => i = j

(* A winner that a client shows is the room's. *)
WinnerIsTheRooms ==
    \A s \in Seats :
      client[s].winner # "none" /\ room # None =>
        room.status = "ended" /\ room.winnerSeat = client[s].winner

=============================================================================
