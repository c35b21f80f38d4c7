------------------------- MODULE OnlineMatchProofs -------------------------
(***************************************************************************)
(* What a match over an online room promises for any number of joiners,    *)
(* commands, losses and any rules, as long as the invitation seats one     *)
(* player (JoinsOnce; without it the second join puts the room back to its *)
(* start).                                                                 *)
(*                                                                         *)
(* The room's guards do not keep the result of a match by themselves:      *)
(* respondControl does not look at the status.  What keeps it is that      *)
(* revisions never run ahead of the room (SeatFits) and that whoever has   *)
(* reached the revision of the end knows of the end (KnowsTheEnd), because *)
(* every queue holds the news of the end before anything that came later.  *)
(***************************************************************************)
EXTENDS OnlineMatch, SequenceTheorems, FiniteSetTheorems, TLAPS

Lines == Seq(Moves)
Statuses == {"waiting", "active", "ended"}
EndReasons == {"none", "outcome", "resign", "left"}
Errors == {"action_rejected", "stale_revision"}
Winners == {OutcomeOf(line) : line \in Lines} \union Seats \union {"none"}

(* The board transformation turns lines into lines. *)
LinesTransform == \A line \in Lines : Transformed(line) \in Lines

Ids == [seat : Seats, n : Nat]
Requests == [kind : CONTROL_KINDS, requestId : Ids, requester : Seats, steps : Nat]
Pendings == Requests \union {None}
Items == [id : Ids, error : Errors \union {"none"}]

RoomStates ==
    [creatorSeat : Seats, joined : BOOLEAN, status : Statuses, seq : Nat,
     actions : Lines, tickets : SUBSET Seats, recentCommands : Seq(Items),
     pendingControl : Pendings, endReason : EndReasons, winnerSeat : Winners]

Joins == [step : {"idle", "reading", "seated", "refused"},
          read : RoomStates \union {None}]

Commands ==
    [type : {"action"}, id : Ids, expectedSeq : Nat, seen : Lines, move : Moves]
    \union {c \in [type : {"request"}, id : Ids, expectedSeq : Nat, seen : Lines,
                   kind : CONTROL_KINDS, steps : 0..1] :
              c.kind = "takeBack" <=> c.steps = 1}
    \union [type : {"respond"}, id : Ids, expectedSeq : Nat, seen : Lines,
            kind : CONTROL_KINDS, requestId : Ids, accepted : BOOLEAN]
    \union [type : {"resign", "leave"}, id : Ids, expectedSeq : Nat, seen : Lines]

Messages ==
    [type : {"state", "opponentJoined"}, seq : Nat, actions : Lines,
     status : Statuses, pending : Pendings, id : Ids \union {None}]
    \union
    [type : {"welcome"}, seq : Nat, actions : Lines, status : Statuses,
     pending : Pendings, id : {None}, endReason : EndReasons,
     winnerSeat : Winners, opponentConnected : BOOLEAN]
    \union
    [type : {"controlResult"}, seq : Nat, actions : Lines, status : Statuses,
     pending : Pendings, id : Ids \union {None}, requestId : Ids]
    \union
    [type : {"error"}, error : Errors, seq : Nat, actions : Lines, id : Ids]
    \union [type : {"opponentConnection"}, connected : BOOLEAN, seq : Nat]
    \union [type : {"controlRequest"}, request : Requests, seq : Nat]
    \union [type : {"opponentResigned", "opponentLeft"}, seq : Nat]

Snapshots == {m \in Messages : m.type \in CarriesSnapshot}

Clients ==
    [state : ConnectionStates, everWelcomed : BOOLEAN, ending : BOOLEAN,
     isConnected : BOOLEAN, stage : {"none", "ticket", "connect", "welcome"},
     looping : BOOLEAN, revision : Nat, actionLog : Lines, status : Statuses,
     saved : Nat, game : Lines, winner : Winners,
     pendingCommands : Seq(Commands), request : Pendings,
     inbound : Snapshots \union {None}, count : Nat]

Shape ==
    /\ room \in RoomStates \union {None}
    /\ alarm \in {"room", "control", "none"}
    /\ sockets \in [Seats -> {"closed", "open", "deaf"}]
    /\ down \in [Seats -> Seq(Messages)]
    /\ joining \in [Joiners -> Joins]
    /\ client \in [Seats -> Clients]
    /\ up \in [Seats -> Seq(Commands)]
    /\ applied \subseteq Ids /\ refused \subseteq Ids

-----------------------------------------------------------------------------
(* What there is to relate.                                                *)

(* Messages a client has not handled to the end, and commands that the room*)
(* may still see.                                                          *)
Carried(s) == Range(down[s]) \union ({client[s].inbound} \ {None})
CommandsOf(s) == Range(up[s]) \union Range(client[s].pendingCommands)

Started == \E j \in Joiners : joining[j].step = "seated"

(* The match has been decided, or its room is gone for good. *)
Over == Started /\ (room = None \/ room.status = "ended")

WithStatus == {"welcome", "state", "opponentJoined", "controlResult"}

(* The news that the match is over. *)
Final(m) ==
    \/ m.type \in {"opponentResigned", "opponentLeft"}
    \/ m.type \in WithStatus /\ m.status = "ended"

(* A revision that the room has reached. *)
Past(n) == (room # None => n <= room.seq) /\ (~Started => n = 0)

(* A winner that agrees with the room. *)
TrueWinner(winner) == Over /\ (room # None => room.winnerSeat = winner)

(* What a message and a command say of the room is so. *)
TrueNews(s, m) ==
    /\ Past(m.seq)
    /\ Final(m) => Over
    /\ m.type = "opponentResigned" => TrueWinner(s)
    /\ m.type = "welcome" /\ m.status = "ended" /\ m.endReason = "resign"
         => TrueWinner(m.winnerSeat)
    /\ m.type = "state" /\ m.id # None => m.id \in applied

TrueCommand(s, c) ==
    /\ Past(c.expectedSeq)
    /\ c.id.seat = s /\ c.id.n <= client[s].count
    /\ c.type = "resign" /\ c.id \in applied => TrueWinner(opposite(s))

-----------------------------------------------------------------------------
(* The parts of the invariant.                                             *)

RoomFits ==
    /\ alarm = "control" <=> (room # None /\ room.pendingControl # None)
    /\ room # None => Len(room.recentCommands) <= MAX_RECENT_COMMANDS
    /\ room # None => \A item \in Range(room.recentCommands) :
                        item.error = "none" => item.id \in applied
    /\ Started /\ room # None => room.status # "waiting"

FreshRoom(r, creator) ==
    /\ r \in RoomStates
    /\ r.creatorSeat = creator /\ ~r.joined /\ r.status = "waiting"
    /\ r.seq = 0 /\ r.actions = << >> /\ r.pendingControl = None
    /\ r.endReason = "none" /\ r.winnerSeat = "none"
    /\ Len(r.recentCommands) <= MAX_RECENT_COMMANDS
    /\ \A item \in Range(r.recentCommands) : item.error # "none"

(* The other player's client before it has joined. *)
Dormant(s) ==
    /\ ~client[s].isConnected /\ ~client[s].everWelcomed
    /\ client[s].stage = "none" /\ client[s].state = "connecting"
    /\ client[s].inbound = None
    /\ client[s].pendingCommands = << >>
    /\ up[s] = << >> /\ down[s] = << >>
    /\ sockets[s] = "closed"

(* Before the second player comes the room is as it was created, in what   *)
(* the joins have read too, and only the creator's client has come to life.*)
BeforeTheStart ==
    ~Started =>
      /\ applied = {}
      /\ \E creator \in Seats :
           /\ room # None => FreshRoom(room, creator)
           /\ \A j \in Joiners :
                joining[j].step = "reading" => FreshRoom(joining[j].read, creator)
           /\ Dormant(opposite(creator))

(* Nothing runs ahead of the room, a command is known by its identifier,   *)
(* and what the messages and the client say of the end is so.              *)
SeatFits(s) ==
    /\ Past(client[s].revision) /\ Past(client[s].saved)
    /\ client[s].winner # "none" => TrueWinner(client[s].winner)
    /\ \A m \in Carried(s) : TrueNews(s, m)
    /\ \A c \in CommandsOf(s) : TrueCommand(s, c)
    /\ \A c, d \in CommandsOf(s) : c.id = d.id => c = d
    /\ \A id \in applied : id.seat = s => id.n <= client[s].count

(* Knows of the end, or is about to. *)
Informed(s) ==
    client[s].ending \/ (client[s].inbound # None /\ Final(client[s].inbound))

(* In a room that has ended under a request, nobody can answer the request *)
(* any more: whoever stands at the last revision knows of the end, and so  *)
(* will everybody who is to hear of that revision.                         *)
Late == room # None /\ room.status = "ended" /\ room.pendingControl # None

FinalBefore(s, i) == \E k \in 1..i : Final(down[s][k])

KnowsTheEnd(s) ==
    /\ \A c \in CommandsOf(s) : c.expectedSeq < room.seq
    /\ client[s].revision = room.seq \/ client[s].saved = room.seq
         => client[s].ending
    /\ \A m \in Carried(s) : Final(m) => m.seq = room.seq
    /\ ~Informed(s) =>
         /\ client[s].inbound # None => client[s].inbound.seq < room.seq
         /\ \A i \in DOMAIN down[s] : down[s][i].seq = room.seq => FinalBefore(s, i)
         /\ sockets[s] = "open" => FinalBefore(s, Len(down[s]))

SeatsFit == \A s \in Seats : SeatFits(s)
LateAnswers == Late => \A s \in Seats : KnowsTheEnd(s)

MatchInv ==
    /\ Shape
    /\ RoomFits
    /\ BeforeTheStart
    /\ SeatsFit
    /\ LateAnswers

-----------------------------------------------------------------------------
(* Sequences.                                                              *)

LEMMA AppendRange ==
  ASSUME NEW S, NEW q \in Seq(S), NEW e
  PROVE  Range(Append(q, e)) = Range(q) \union {e}
<1>1. /\ DOMAIN Append(q, e) = 1..(Len(q) + 1) /\ DOMAIN q = 1..Len(q)
      /\ \A i \in 1..Len(q) : Append(q, e)[i] = q[i]
      /\ Append(q, e)[Len(q) + 1] = e /\ Len(q) \in Nat
  OBVIOUS
<1>2. ASSUME NEW x \in Range(Append(q, e)) PROVE x \in Range(q) \union {e}
  BY <1>1 DEF Range
<1>3. ASSUME NEW x \in Range(q) PROVE x \in Range(Append(q, e))
  <2>1. PICK i \in 1..Len(q) : x = q[i]
    BY <1>1 DEF Range
  <2>2. i \in DOMAIN Append(q, e) /\ Append(q, e)[i] = x
    BY <1>1, <2>1
  <2>3. QED
    BY <2>2 DEF Range
<1>4. e \in Range(Append(q, e))
  <2>1. Len(q) + 1 \in DOMAIN Append(q, e)
    BY <1>1
  <2>2. QED
    BY <1>1, <2>1 DEF Range
<1>5. QED
  BY <1>2, <1>3, <1>4

LEMMA SubSeqRange ==
  ASSUME NEW S, NEW q \in Seq(S), NEW m \in Nat \ {0}, NEW n \in Nat, n <= Len(q)
  PROVE  SubSeq(q, m, n) \in Seq(S) /\ Range(SubSeq(q, m, n)) \subseteq Range(q)
<1>1. /\ SubSeq(q, m, n) \in Seq(S)
      /\ \A i \in DOMAIN SubSeq(q, m, n) :
           i + m - 1 \in 1..Len(q) /\ SubSeq(q, m, n)[i] = q[i + m - 1]
  OBVIOUS
<1>2. QED
  BY <1>1 DEF Range

LEMMA TailRange ==
  ASSUME NEW S, NEW q \in Seq(S), q # << >>
  PROVE  /\ Head(q) \in S /\ Head(q) \in Range(q)
         /\ Tail(q) \in Seq(S) /\ Range(Tail(q)) \subseteq Range(q)
<1>1. /\ Head(q) = q[1] /\ 1 \in DOMAIN q /\ Tail(q) \in Seq(S) /\ q[1] \in S
      /\ \A i \in DOMAIN Tail(q) : i + 1 \in DOMAIN q /\ Tail(q)[i] = q[i + 1]
  OBVIOUS
<1>2. QED
  BY <1>1 DEF Range

LEMMA TailFacts ==
  ASSUME NEW S, NEW q \in Seq(S), q # << >>
  PROVE  /\ \A i \in DOMAIN Tail(q) :
              /\ i \in Nat \ {0} /\ i + 1 \in DOMAIN q
              /\ Tail(q)[i] = q[i + 1]
         /\ Len(Tail(q)) = Len(q) - 1 /\ Len(q) \in Nat \ {0}
         /\ 1 \in DOMAIN q /\ Head(q) = q[1]
         /\ DOMAIN q = 1..Len(q) /\ DOMAIN Tail(q) = 1..Len(Tail(q))
<1>1. Len(q) \in Nat \ {0} /\ DOMAIN q = 1..Len(q) /\ Head(q) = q[1]
  OBVIOUS
<1>2. Tail(q) \in Seq(S) /\ Len(Tail(q)) = Len(q) - 1
  OBVIOUS
<1>3. DOMAIN Tail(q) = 1..Len(q) - 1
  BY <1>2
<1>4. \A i \in 1..Len(q) - 1 : Tail(q)[i] = q[i + 1]
  OBVIOUS
<1>5. QED
  BY <1>1, <1>2, <1>3, <1>4

LEMMA ConcatRange ==
  ASSUME NEW S, NEW q \in Seq(S), NEW r \in Seq(S)
  PROVE  q \o r \in Seq(S) /\ Range(q \o r) \subseteq Range(q) \union Range(r)
<1>1. /\ q \o r \in Seq(S) /\ Len(q) \in Nat /\ Len(r) \in Nat
      /\ Len(q \o r) = Len(q) + Len(r)
      /\ DOMAIN (q \o r) = 1..(Len(q) + Len(r))
  OBVIOUS
<1>2. ASSUME NEW i \in 1..Len(q) PROVE (q \o r)[i] \in Range(q)
  <2>1. (q \o r)[i] = q[i] /\ i \in DOMAIN q
    BY <1>1
  <2>2. QED
    BY <2>1 DEF Range
<1>3. ASSUME NEW i \in Len(q) + 1 .. Len(q) + Len(r) PROVE (q \o r)[i] \in Range(r)
  <2>1. (q \o r)[i] = r[i - Len(q)] /\ i - Len(q) \in DOMAIN r
    BY <1>1
  <2>2. QED
    BY <2>1 DEF Range
<1>4. QED
  BY <1>1, <1>2, <1>3 DEF Range

LEMMA RemoveAtRange ==
  ASSUME NEW S, NEW q \in Seq(S), NEW i \in DOMAIN q
  PROVE  RemoveAt(q, i) \in Seq(S) /\ Range(RemoveAt(q, i)) \subseteq Range(q)
<1> DEFINE before == SubSeq(q, 1, i - 1)
           after == SubSeq(q, i + 1, Len(q))
<1>1. i \in 1..Len(q) /\ Len(q) \in Nat
  OBVIOUS
<1>2. before \in Seq(S) /\ Range(before) \subseteq Range(q)
  BY <1>1, SubSeqRange, i - 1 \in Nat, i - 1 <= Len(q)
<1>3. after \in Seq(S) /\ Range(after) \subseteq Range(q)
  BY <1>1, SubSeqRange, i + 1 \in Nat \ {0}
<1>4. RemoveAt(q, i) = before \o after
  BY DEF RemoveAt
<1> HIDE DEF before, after
<1>5. QED
  BY <1>2, <1>3, <1>4, ConcatRange

LEMMA EmptyRange == Range(<< >>) = {}
  BY DEF Range

LEMMA RangeIn ==
  ASSUME NEW S, NEW q \in Seq(S)
  PROVE  Range(q) \subseteq S
  BY DEF Range

(* Messages, commands, requests and rooms are not None. *)
LEMMA Somethings ==
  /\ None \notin Messages /\ None \notin Commands /\ None \notin RoomStates
  /\ None \notin Requests /\ None \notin Ids
<1>1. DOMAIN None = {"none"}
  BY DEF None
<1>2. None \notin Messages
  BY <1>1 DEF Messages
<1>3. None \notin Commands
  BY <1>1 DEF Commands
<1>4. None \notin RoomStates /\ None \notin Requests /\ None \notin Ids
  BY <1>1 DEF RoomStates, Requests, Ids
<1>5. QED
  BY <1>2, <1>3, <1>4

LEMMA Opposites ==
  ASSUME NEW s \in Seats
  PROVE  /\ opposite(s) \in Seats /\ opposite(s) # s /\ opposite(opposite(s)) = s
         /\ \A t \in Seats : t # s => t = opposite(s)
  BY DEF Seats, opposite

-----------------------------------------------------------------------------
(* Types.                                                                  *)

LEMMA MessageFacts ==
  ASSUME NEW m \in Messages
  PROVE  /\ m.seq \in Nat /\ m # None
         /\ m.type \in CarriesSnapshot => m.actions \in Lines /\ m.id \in Ids \union {None}
         /\ m.type \in WithStatus => m.status \in Statuses /\ m.pending \in Pendings
         /\ m.type = "welcome" =>
              /\ m.endReason \in EndReasons /\ m.winnerSeat \in Winners
              /\ m.opponentConnected \in BOOLEAN /\ m.id = None
         /\ m.type = "controlResult" => m.requestId \in Ids
         /\ m.type = "error" => m.id \in Ids
         /\ m.type = "controlRequest" => m.request \in Requests
         /\ m.type \notin CarriesSnapshot =>
              m.type \in {"controlRequest", "opponentResigned", "opponentLeft",
                          "opponentConnection"}
         /\ m.type \in CarriesSnapshot \/ m.type \notin CarriesSnapshot
<1>1. m # None
  BY Somethings
<1>2. QED
  BY <1>1 DEF Messages, CarriesSnapshot, WithStatus

LEMMA CommandFacts ==
  ASSUME NEW c \in Commands
  PROVE  /\ c.id \in Ids /\ c.id.seat \in Seats /\ c.id.n \in Nat
         /\ c.expectedSeq \in Nat /\ c.seen \in Lines
         /\ c.type \in {"action", "request", "respond", "resign", "leave"}
         /\ c.type = "action" => c.move \in Moves
         /\ c.type = "request" =>
              c.kind \in CONTROL_KINDS /\ c.steps \in 0..1
              /\ (c.kind = "takeBack" <=> c.steps = 1)
         /\ c.type = "respond" =>
              c.kind \in CONTROL_KINDS /\ c.requestId \in Ids /\ c.accepted \in BOOLEAN
  BY DEF Commands, Ids

LEMMA RoomFacts ==
  ASSUME NEW r \in RoomStates
  PROVE  /\ r.seq \in Nat /\ r.actions \in Lines /\ r.status \in Statuses
         /\ r.pendingControl \in Pendings /\ r.recentCommands \in Seq(Items)
         /\ r.endReason \in EndReasons /\ r.winnerSeat \in Winners
         /\ r.creatorSeat \in Seats /\ r.tickets \subseteq Seats /\ r # None
         /\ r.joined \in BOOLEAN
<1>1. r # None
  BY Somethings
<1>2. QED
  BY <1>1 DEF RoomStates

LEMMA ClientFacts ==
  ASSUME NEW c \in Clients
  PROVE  /\ c.revision \in Nat /\ c.saved \in Nat /\ c.count \in Nat
         /\ c.game \in Lines /\ c.actionLog \in Lines /\ c.winner \in Winners
         /\ c.pendingCommands \in Seq(Commands)
         /\ c.request \in Pendings /\ c.inbound \in Snapshots \union {None}
         /\ c.status \in Statuses /\ c.state \in ConnectionStates
         /\ c.ending \in BOOLEAN /\ c.isConnected \in BOOLEAN
         /\ c.everWelcomed \in BOOLEAN /\ c.looping \in BOOLEAN
         /\ c.stage \in {"none", "ticket", "connect", "welcome"}
         /\ c.inbound # None =>
              c.inbound \in Messages /\ c.inbound.type \in CarriesSnapshot
  BY DEF Clients, Snapshots

LEMMA ShapeFacts ==
  ASSUME Shape, NEW s \in Seats
  PROVE  /\ client[s] \in Clients /\ up[s] \in Seq(Commands)
         /\ down[s] \in Seq(Messages) /\ sockets[s] \in {"closed", "open", "deaf"}
         /\ room # None => room \in RoomStates
         /\ Carried(s) \subseteq Messages /\ CommandsOf(s) \subseteq Commands
         /\ None \notin Carried(s)
<1>1. /\ client[s] \in Clients /\ up[s] \in Seq(Commands)
      /\ down[s] \in Seq(Messages) /\ sockets[s] \in {"closed", "open", "deaf"}
      /\ room # None => room \in RoomStates
  BY DEF Shape
<1>2. /\ Range(down[s]) \subseteq Messages /\ Range(up[s]) \subseteq Commands
      /\ Range(client[s].pendingCommands) \subseteq Commands
  BY <1>1, RangeIn, ClientFacts
<1>3. QED
  BY <1>1, <1>2, ClientFacts, Somethings DEF Carried, CommandsOf

LEMMA UpdateFacts ==
  ASSUME Shape, NEW s \in Seats, NEW c, Update(s, c)
  PROVE  /\ client'[s] = c
         /\ \A t \in Seats : t # s => client'[t] = client[t]
         /\ c \in Clients => client' \in [Seats -> Clients]
  BY DEF Shape, Update

LEMMA CarriedByOf ==
  ASSUME Shape, NEW s \in Seats, NEW m
  PROVE  /\ m \in Range(down[s]) => m \in Carried(s)
         /\ m = client[s].inbound /\ m # None => m \in Carried(s)
  BY DEF Carried

-----------------------------------------------------------------------------
(* Steps that do not take the match further.                               *)

(* Only tickets change in the room. *)
SameMatch ==
    /\ joining' = joining /\ alarm' = alarm /\ applied' = applied
    /\ \/ room' = room
       \/ room # None /\ \E seats \in SUBSET Seats :
            room' = [room EXCEPT !.tickets = seats]

LEMMA SameMatchFacts ==
  ASSUME Shape, SameMatch
  PROVE  /\ room' \in RoomStates \union {None} /\ (room' = None <=> room = None)
         /\ room # None =>
              /\ room'.seq = room.seq /\ room'.status = room.status
              /\ room'.pendingControl = room.pendingControl
              /\ room'.winnerSeat = room.winnerSeat
              /\ room'.endReason = room.endReason
              /\ room'.actions = room.actions
              /\ room'.recentCommands = room.recentCommands
              /\ room'.creatorSeat = room.creatorSeat /\ room'.joined = room.joined
         /\ Started' = Started
<1>1. CASE room' = room
  BY <1>1 DEF Shape, Started, SameMatch
<1>2. CASE room # None /\ \E seats \in SUBSET Seats :
             room' = [room EXCEPT !.tickets = seats]
  <2>1. PICK seats \in SUBSET Seats : room' = [room EXCEPT !.tickets = seats]
    BY <1>2
  <2>2. room \in RoomStates
    BY <1>2 DEF Shape
  <2>3. room' \in RoomStates
    BY <2>1, <2>2 DEF RoomStates
  <2>4. QED
    BY <1>2, <2>1, <2>2, <2>3, Somethings DEF RoomStates, Started, SameMatch
<1>3. QED
  BY <1>1, <1>2 DEF SameMatch

LEMMA SameRoomFits ==
  ASSUME Shape, SameMatch, RoomFits
  PROVE  RoomFits'
  BY SameMatchFacts DEF RoomFits, SameMatch

LEMMA SamePast ==
  ASSUME Shape, SameMatch
  PROVE  /\ (Over' <=> Over) /\ (Late' <=> Late)
         /\ \A n : Past(n)' <=> Past(n)
         /\ \A w : TrueWinner(w)' <=> TrueWinner(w)
<1>1. (Over' <=> Over) /\ (Late' <=> Late)
  BY SameMatchFacts DEF Over, Late
<1>2. QED
  BY <1>1, SameMatchFacts DEF Past, TrueWinner

(* A seat stays as it is, or its client loses something: its channel and   *)
(* what is on its way, an answer it waits for, its process.                *)
QuietSeat(s) ==
    /\ client'[s].revision \in {client[s].revision, client[s].saved}
    /\ client'[s].saved = client[s].saved
    /\ client'[s].winner \in {client[s].winner, "none"}
    /\ client[s].ending => client'[s].ending
    /\ client[s].count <= client'[s].count
    /\ CommandsOf(s)' \subseteq CommandsOf(s)
    /\ \/ /\ client'[s].inbound = client[s].inbound
          /\ sockets'[s] = "open" => sockets[s] = "open"
          /\ \/ down'[s] = down[s]
             \/ /\ sockets'[s] # "open"
                /\ \E k \in 0..Len(down[s]) : down'[s] = SubSeq(down[s], 1, k)
       \/ /\ client'[s].inbound = None
          /\ down'[s] = << >>
          /\ sockets'[s] # "open"
    /\ ~Started /\ Dormant(s) => Dormant(s)'

LEMMA StillSeat ==
  ASSUME Shape, NEW s \in Seats, client'[s] = client[s], up'[s] = up[s],
         down'[s] = down[s], sockets'[s] = sockets[s]
  PROVE  QuietSeat(s)
<1>1. client[s].count \in Nat
  BY ShapeFacts, ClientFacts
<1>2. CommandsOf(s)' = CommandsOf(s) /\ (Dormant(s) => Dormant(s)')
  BY DEF CommandsOf, Dormant
<1>3. QED
  BY <1>1, <1>2 DEF QuietSeat

LEMMA QuietCarries ==
  ASSUME Shape, NEW s \in Seats, QuietSeat(s)
  PROVE  Carried(s)' \subseteq Carried(s)
<1>1. Range(down[s])' \subseteq Range(down[s])
  <2>1. CASE down'[s] = down[s]
    BY <2>1
  <2>2. CASE down'[s] = << >>
    BY <2>2, EmptyRange
  <2>3. CASE \E k \in 0..Len(down[s]) : down'[s] = SubSeq(down[s], 1, k)
    <3>1. down[s] \in Seq(Messages)
      BY DEF Shape
    <3>2. PICK k \in 0..Len(down[s]) : down'[s] = SubSeq(down[s], 1, k)
      BY <2>3
    <3>3. k \in Nat /\ k <= Len(down[s])
      BY <3>1, <3>2
    <3>4. QED
      BY <3>1, <3>2, <3>3, SubSeqRange
  <2>4. QED
    BY <2>1, <2>2, <2>3 DEF QuietSeat
<1>2. client'[s].inbound \in {client[s].inbound, None}
  BY DEF QuietSeat
<1>3. QED
  BY <1>1, <1>2 DEF Carried

(* No message is new, a command that is new has a new identifier, and      *)
(* whoever is told that a command failed has a message that says so.       *)
Undisturbed ==
    /\ SameMatch
    /\ \A s \in Seats :
         /\ Carried(s)' \subseteq Carried(s)
         /\ client[s].count <= client'[s].count
         /\ \A c \in CommandsOf(s)' :
              c \in CommandsOf(s) \/ client[s].count < c.id.n
    /\ \A id \in refused' :
         \/ id \in refused
         \/ \E s \in Seats : \E m \in Carried(s) : m.type = "error" /\ m.id = id

LEMMA OthersUndisturbed ==
  ASSUME Shape, SameMatch, NEW s \in Seats, \A t \in Seats : t # s => QuietSeat(t),
         Carried(s)' \subseteq Carried(s), client[s].count <= client'[s].count,
         \A c \in CommandsOf(s)' : c \in CommandsOf(s) \/ client[s].count < c.id.n,
         \A id \in refused' :
           id \in refused \/ \E m \in Carried(s) : m.type = "error" /\ m.id = id
  PROVE  Undisturbed
<1>1. ASSUME NEW t \in Seats, t # s
      PROVE  /\ Carried(t)' \subseteq Carried(t)
             /\ client[t].count <= client'[t].count
             /\ CommandsOf(t)' \subseteq CommandsOf(t)
  BY <1>1, QuietCarries DEF QuietSeat
<1>2. QED
  BY <1>1 DEF Undisturbed

(* What was true of a message or a command stays so. *)
LEMMA StaysTrue ==
  ASSUME Shape, Shape', SameMatch, NEW s \in Seats, SeatFits(s),
         client[s].count <= client'[s].count
  PROVE  /\ \A m \in Carried(s) : TrueNews(s, m)'
         /\ \A c \in CommandsOf(s) : TrueCommand(s, c)'
         /\ \A id \in applied' : id.seat = s => id.n <= client'[s].count
<1>1. \A m \in Carried(s) : TrueNews(s, m)'
  BY SamePast DEF SeatFits, TrueNews, SameMatch
<1>2. client[s].count \in Nat /\ client'[s].count \in Nat
  BY ShapeFacts, ClientFacts DEF Shape
<1>3. \A c \in CommandsOf(s) : TrueCommand(s, c)'
  <2> SUFFICES ASSUME NEW c \in CommandsOf(s) PROVE TrueCommand(s, c)'
    OBVIOUS
  <2>1. TrueCommand(s, c) /\ c.id.n \in Nat
    BY ShapeFacts, CommandFacts DEF SeatFits
  <2>2. c.id.n <= client'[s].count
    BY <1>2, <2>1 DEF TrueCommand
  <2>3. QED
    BY <2>1, <2>2, SamePast DEF TrueCommand, SameMatch
<1>4. \A id \in applied' : id.seat = s => id.n <= client'[s].count
  <2> SUFFICES ASSUME NEW id \in applied, id.seat = s PROVE id.n <= client'[s].count
    BY DEF SameMatch
  <2>1. id.n \in Nat
    BY DEF Shape, Ids
  <2>2. QED
    BY <1>2, <2>1 DEF SeatFits
<1>5. QED
  BY <1>1, <1>3, <1>4

LEMMA SeatMoves ==
  ASSUME Shape, Shape', SameMatch, NEW s \in Seats, SeatFits(s),
         Past(client'[s].revision), Past(client'[s].saved),
         client'[s].winner # "none" => TrueWinner(client'[s].winner),
         client[s].count <= client'[s].count,
         Carried(s)' \subseteq Carried(s),
         \A c \in CommandsOf(s)' : TrueCommand(s, c)',
         \A c, d \in CommandsOf(s)' : c.id = d.id => c = d
  PROVE  SeatFits(s)'
<1>1. Past(client[s].revision)' /\ Past(client[s].saved)'
  <2>1. Past(client[s].revision)' <=> Past(client'[s].revision)
    BY SameMatchFacts DEF Past
  <2>2. Past(client[s].saved)' <=> Past(client'[s].saved)
    BY SameMatchFacts DEF Past
  <2>3. QED
    BY <2>1, <2>2
<1>2. client'[s].winner # "none" => TrueWinner(client[s].winner)'
  <2>1. TrueWinner(client[s].winner)' <=> TrueWinner(client'[s].winner)
    BY SameMatchFacts, SamePast DEF TrueWinner
  <2>2. QED
    BY <2>1
<1>3. \A m \in Carried(s)' : TrueNews(s, m)'
  BY StaysTrue
<1>4. \A id \in applied' : id.seat = s => id.n <= client'[s].count
  BY StaysTrue
<1>5. QED
  BY <1>1, <1>2, <1>3, <1>4 DEF SeatFits

LEMMA QuietSeatFits ==
  ASSUME Shape, Shape', SameMatch, NEW s \in Seats, SeatFits(s), QuietSeat(s)
  PROVE  SeatFits(s)'
<1>1. Carried(s)' \subseteq Carried(s) /\ CommandsOf(s)' \subseteq CommandsOf(s)
  BY QuietCarries DEF QuietSeat
<1>2. \A c \in CommandsOf(s)' : TrueCommand(s, c)'
  BY <1>1, StaysTrue DEF QuietSeat
<1>3. /\ Past(client'[s].revision) /\ Past(client'[s].saved)
      /\ client'[s].winner # "none" => TrueWinner(client'[s].winner)
  BY DEF QuietSeat, SeatFits
<1>4. \A c, d \in CommandsOf(s)' : c.id = d.id => c = d
  BY <1>1 DEF SeatFits
<1>5. QED
  BY <1>1, <1>2, <1>3, <1>4, SeatMoves DEF QuietSeat

LEMMA QuietEnd ==
  ASSUME Shape, Shape', SameMatch, NEW s \in Seats, QuietSeat(s),
         Late => KnowsTheEnd(s), Late'
  PROVE  KnowsTheEnd(s)'
<1>1. Late /\ KnowsTheEnd(s) /\ room'.seq = room.seq
  BY SamePast, SameMatchFacts DEF Late
<1>2. Carried(s)' \subseteq Carried(s) /\ CommandsOf(s)' \subseteq CommandsOf(s)
  BY QuietCarries DEF QuietSeat
<1>3. \A c \in CommandsOf(s)' : c.expectedSeq < room'.seq
  BY <1>1, <1>2 DEF KnowsTheEnd
<1>4. client'[s].revision = room'.seq \/ client'[s].saved = room'.seq
        => client'[s].ending
  BY <1>1 DEF KnowsTheEnd, QuietSeat
<1>5. \A m \in Carried(s)' : Final(m) => m.seq = room'.seq
  BY <1>1, <1>2 DEF KnowsTheEnd
<1>6. ASSUME ~Informed(s)'
      PROVE  /\ client'[s].inbound # None => client'[s].inbound.seq < room'.seq
             /\ \A i \in DOMAIN down'[s] : down'[s][i].seq = room'.seq => FinalBefore(s, i)'
             /\ sockets'[s] = "open" => FinalBefore(s, Len(down[s]))'
  <2>1. CASE client'[s].inbound = None /\ down'[s] = << >> /\ sockets'[s] # "open"
    BY <2>1
  <2>2. CASE /\ client'[s].inbound = client[s].inbound
             /\ sockets'[s] = "open" => sockets[s] = "open"
             /\ \/ down'[s] = down[s]
                \/ /\ sockets'[s] # "open"
                   /\ \E k \in 0..Len(down[s]) : down'[s] = SubSeq(down[s], 1, k)
    <3>1. ~Informed(s)
      BY <1>6, <2>2 DEF Informed, QuietSeat
    <3>2. /\ client[s].inbound # None => client[s].inbound.seq < room.seq
          /\ \A i \in DOMAIN down[s] : down[s][i].seq = room.seq => FinalBefore(s, i)
          /\ sockets[s] = "open" => FinalBefore(s, Len(down[s]))
      BY <1>1, <3>1 DEF KnowsTheEnd
    <3>3. CASE down'[s] = down[s]
      BY <1>1, <2>2, <3>2, <3>3 DEF FinalBefore
    <3>4. CASE /\ sockets'[s] # "open"
               /\ \E k \in 0..Len(down[s]) : down'[s] = SubSeq(down[s], 1, k)
      <4>1. PICK k \in 0..Len(down[s]) : down'[s] = SubSeq(down[s], 1, k)
        BY <3>4
      <4>2. down[s] \in Seq(Messages)
        BY DEF Shape
      <4>3. \A i \in DOMAIN down'[s] :
              i \in DOMAIN down[s] /\ \A l \in 1..i : down'[s][l] = down[s][l]
        BY <4>1, <4>2
      <4>4. ASSUME NEW i \in DOMAIN down'[s], down'[s][i].seq = room'.seq
            PROVE  FinalBefore(s, i)'
        <5>1. i \in DOMAIN down[s] /\ i \in 1..i
          BY <4>1, <4>2, <4>3
        <5>2. FinalBefore(s, i)
          BY <1>1, <3>2, <4>3, <4>4, <5>1
        <5>3. QED
          BY <4>3, <5>1, <5>2 DEF FinalBefore
      <4>5. QED
        BY <1>1, <2>2, <3>2, <3>4, <4>4
    <3>5. QED
      BY <2>2, <3>3, <3>4
  <2>3. QED
    BY <2>1, <2>2 DEF QuietSeat
<1>7. QED
  BY <1>3, <1>4, <1>5, <1>6 DEF KnowsTheEnd

LEMMA StillBefore ==
  ASSUME Shape, SameMatch, BeforeTheStart,
         \A s \in Seats : ~Started /\ Dormant(s) => Dormant(s)'
  PROVE  BeforeTheStart'
<1> SUFFICES ASSUME ~Started'
             PROVE  (/\ applied = {}
                     /\ \E creator \in Seats :
                          /\ room # None => FreshRoom(room, creator)
                          /\ \A j \in Joiners :
                               joining[j].step = "reading" =>
                                 FreshRoom(joining[j].read, creator)
                          /\ Dormant(opposite(creator)))'
  BY DEF BeforeTheStart
<1>1. ~Started
  BY SameMatchFacts
<1>2. PICK creator \in Seats :
        /\ room # None => FreshRoom(room, creator)
        /\ \A j \in Joiners :
             joining[j].step = "reading" => FreshRoom(joining[j].read, creator)
        /\ Dormant(opposite(creator))
  BY <1>1 DEF BeforeTheStart
<1>3. room' # None => FreshRoom(room', creator)
  BY <1>2, SameMatchFacts, Somethings DEF FreshRoom
<1>4. Dormant(opposite(creator))'
  BY <1>1, <1>2, Opposites
<1>5. applied' = {}
  BY <1>1 DEF BeforeTheStart, SameMatch
<1>6. QED
  BY <1>2, <1>3, <1>4, <1>5 DEF SameMatch

LEMMA QuietStep ==
  ASSUME MatchInv, Shape', SameMatch, \A s \in Seats : QuietSeat(s)
  PROVE  MatchInv'
<1>1. RoomFits'
  BY SameRoomFits DEF MatchInv
<1>2. BeforeTheStart'
  BY StillBefore DEF MatchInv, QuietSeat
<1>3. SeatsFit'
  BY QuietSeatFits DEF MatchInv, SeatsFit
<1>4. LateAnswers'
  BY QuietEnd DEF MatchInv, LateAnswers
<1>5. QED
  BY <1>1, <1>2, <1>3, <1>4 DEF MatchInv

(* A client's step that loses nothing but commands, its channel and its    *)
(* place in a state of the connection.                                     *)
LEMMA KeepingSeat ==
  ASSUME Shape, NEW s \in Seats, NEW c \in Clients, Update(s, c),
         c.revision = client[s].revision, c.saved = client[s].saved,
         c.winner = client[s].winner, c.inbound = client[s].inbound,
         client[s].ending => c.ending, client[s].count <= c.count,
         Range(c.pendingCommands) \subseteq Range(client[s].pendingCommands),
         Range(up'[s]) \subseteq Range(up[s]),
         sockets'[s] = "open" => sockets[s] = "open",
         \/ down'[s] = down[s]
         \/ /\ sockets'[s] # "open"
            /\ \E k \in 0..Len(down[s]) : down'[s] = SubSeq(down[s], 1, k),
         Dormant(s) => Dormant(s)'
  PROVE  QuietSeat(s)
<1>1. client'[s] = c
  BY UpdateFacts
<1>2. CommandsOf(s)' \subseteq CommandsOf(s)
  BY <1>1 DEF CommandsOf
<1>3. QED
  BY <1>1, <1>2 DEF QuietSeat

LEMMA KeepingStep ==
  ASSUME MatchInv, NEW s \in Seats, NEW c \in Clients, Update(s, c), QuietSeat(s),
         SameMatch, UNCHANGED refused,
         sockets' \in [Seats -> {"closed", "open", "deaf"}],
         down' \in [Seats -> Seq(Messages)], up' \in [Seats -> Seq(Commands)],
         \A t \in Seats : t # s =>
           sockets'[t] = sockets[t] /\ down'[t] = down[t] /\ up'[t] = up[t]
  PROVE  MatchInv' /\ Undisturbed
<1>1. client' \in [Seats -> Clients] /\ \A t \in Seats : t # s => client'[t] = client[t]
  BY UpdateFacts DEF MatchInv
<1>2. Shape'
  BY <1>1, SameMatchFacts DEF MatchInv, Shape, SameMatch
<1>3. \A t \in Seats : t # s => QuietSeat(t)
  BY <1>1, StillSeat DEF MatchInv
<1>4. MatchInv'
  BY <1>2, <1>3, QuietStep
<1>5. QED
  BY <1>3, <1>4, QuietCarries, OthersUndisturbed DEF MatchInv, QuietSeat

LEMMA DisconnectFacts ==
  ASSUME Shape, NEW s \in Seats, Disconnect(s)
  PROVE  /\ sockets' \in [Seats -> {"closed", "open", "deaf"}]
         /\ down' \in [Seats -> Seq(Messages)]
         /\ \A t \in Seats : t # s => sockets'[t] = sockets[t] /\ down'[t] = down[t]
         /\ sockets'[s] = "open" => sockets[s] = "open"
         /\ \/ down'[s] = down[s]
            \/ /\ sockets'[s] # "open"
               /\ \E k \in 0..Len(down[s]) : down'[s] = SubSeq(down[s], 1, k)
<1>1. CASE ~client[s].isConnected
  BY <1>1 DEF Disconnect, Shape
<1>2. CASE client[s].isConnected
  <2>1. /\ sockets' = [sockets EXCEPT ![s] = IF @ = "open" THEN "deaf" ELSE @]
        /\ sockets \in [Seats -> {"closed", "open", "deaf"}]
        /\ down \in [Seats -> Seq(Messages)]
    BY <1>2 DEF Disconnect, Shape
  <2>2. PICK k \in 0..Len(down[s]) : down' = [down EXCEPT ![s] = SubSeq(@, 1, k)]
    BY <1>2 DEF Disconnect
  <2>3. k \in Nat /\ k <= Len(down[s]) /\ SubSeq(down[s], 1, k) \in Seq(Messages)
    BY <2>1, <2>2
  <2>4. QED
    BY <2>1, <2>2, <2>3
<1>3. QED
  BY <1>1, <1>2

LEMMA LostFacts ==
  ASSUME NEW c \in Clients
  PROVE  /\ lost(c) \in Clients
         /\ lost(c).revision = c.revision /\ lost(c).saved = c.saved
         /\ lost(c).winner = c.winner /\ lost(c).inbound = c.inbound
         /\ lost(c).ending = c.ending /\ lost(c).count = c.count
         /\ lost(c).pendingCommands = c.pendingCommands
  BY DEF lost, Clients, ConnectionStates

LEMMA BreakStep ==
  ASSUME MatchInv, NEW s \in Seats, Break(s)
  PROVE  MatchInv' /\ Undisturbed
<1>1. client[s] \in Clients /\ client[s].count \in Nat /\ Shape
  BY ShapeFacts, ClientFacts DEF MatchInv
<1>2. /\ Update(s, lost(client[s])) /\ Disconnect(s) /\ SameMatch
      /\ up' = up /\ refused' = refused /\ client[s].isConnected
  BY DEF Break, SameMatch, historyVars
<1>3. QuietSeat(s)
  BY <1>1, <1>2, LostFacts, DisconnectFacts, KeepingSeat DEF Dormant
<1>4. up' \in [Seats -> Seq(Commands)] /\ lost(client[s]) \in Clients
  BY <1>1, <1>2, LostFacts DEF Shape
<1>5. QED
  BY <1>1, <1>2, <1>3, <1>4, DisconnectFacts, KeepingStep

LEMMA ReadCloseStep ==
  ASSUME MatchInv, NEW s \in Seats, ReadClose(s)
  PROVE  MatchInv' /\ Undisturbed
<1>1. client[s] \in Clients /\ client[s].count \in Nat /\ Shape
  BY ShapeFacts, ClientFacts DEF MatchInv
<1>2. /\ Update(s, lost(client[s])) /\ SameMatch /\ client[s].isConnected
      /\ up' = [up EXCEPT ![s] = << >>] /\ refused' = refused
      /\ sockets' = sockets /\ down' = down
  BY DEF ReadClose, SameMatch, roomVars, historyVars
<1>3. /\ up' \in [Seats -> Seq(Commands)] /\ Range(up'[s]) \subseteq Range(up[s])
      /\ \A t \in Seats : t # s => up'[t] = up[t]
  BY <1>1, <1>2, EmptyRange DEF Shape
<1>4. QuietSeat(s)
  BY <1>1, <1>2, <1>3, LostFacts, KeepingSeat DEF Dormant
<1>5. QED
  BY <1>1, <1>2, <1>3, <1>4, LostFacts, KeepingStep DEF Shape

LEMMA NewClientFacts == NewClient \in Clients
<1>1. << >> \in Lines /\ << >> \in Seq(Commands) /\ 0 \in Nat
  BY DEF Lines
<1>2. None \in Pendings /\ "none" \in Winners /\ "waiting" \in Statuses
      /\ "connecting" \in ConnectionStates
  BY DEF Pendings, Winners, Statuses, ConnectionStates
<1>3. QED
  BY <1>1, <1>2 DEF NewClient, Clients

LEMMA AppRestartsStep ==
  ASSUME MatchInv, NEW s \in Seats, AppRestarts(s)
  PROVE  MatchInv' /\ Undisturbed
<1> DEFINE c == [NewClient EXCEPT !.revision = client[s].saved,
                                  !.saved = client[s].saved,
                                  !.actionLog = client[s].actionLog,
                                  !.game = client[s].actionLog,
                                  !.status = client[s].status,
                                  !.count = client[s].count]
<1>1. client[s] \in Clients /\ Shape
  BY ShapeFacts DEF MatchInv
<1>2. /\ Update(s, c) /\ SameMatch /\ up' = up /\ refused' = refused
      /\ ~client[s].ending /\ (client[s].stage # "none" \/ client[s].everWelcomed)
      /\ sockets' = [sockets EXCEPT ![s] = IF @ = "open" THEN "deaf" ELSE @]
      /\ down' = [down EXCEPT ![s] = << >>]
  BY DEF AppRestarts, SameMatch, historyVars
<1>3. c \in Clients
  BY <1>1, ClientFacts, NewClientFacts DEF Clients
<1>4. /\ c.revision = client[s].saved /\ c.saved = client[s].saved
      /\ c.winner = "none" /\ c.inbound = None /\ c.pendingCommands = << >>
      /\ c.count = client[s].count /\ c.count \in Nat
  BY <1>1, ClientFacts DEF NewClient
<1> HIDE DEF c
<1>5. client'[s] = c
  BY <1>1, <1>2, UpdateFacts
<1>6. /\ sockets' \in [Seats -> {"closed", "open", "deaf"}] /\ sockets'[s] # "open"
      /\ down' \in [Seats -> Seq(Messages)] /\ down'[s] = << >>
      /\ \A t \in Seats : t # s => sockets'[t] = sockets[t] /\ down'[t] = down[t]
  BY <1>1, <1>2 DEF Shape
<1>7. CommandsOf(s)' \subseteq CommandsOf(s)
  BY <1>2, <1>4, <1>5, EmptyRange DEF CommandsOf
<1>8. QuietSeat(s)
  BY <1>2, <1>4, <1>5, <1>6, <1>7 DEF QuietSeat, Dormant
<1>9. QED
  BY <1>1, <1>2, <1>3, <1>6, <1>8, KeepingStep DEF Shape

LEMMA GetTicketStep ==
  ASSUME MatchInv, NEW s \in Seats, GetTicket(s)
  PROVE  MatchInv' /\ Undisturbed
<1> DEFINE c == [client[s] EXCEPT !.stage = "connect", !.isConnected = FALSE]
<1>1. client[s] \in Clients /\ client[s].count \in Nat /\ Shape
  BY ShapeFacts, ClientFacts DEF MatchInv
<1>2. /\ Update(s, c) /\ Disconnect(s) /\ up' = up /\ refused' = refused
      /\ client[s].stage = "ticket" /\ room # None
      /\ room' = [room EXCEPT !.tickets = @ \union {s}]
      /\ joining' = joining /\ alarm' = alarm /\ applied' = applied
  BY DEF GetTicket, historyVars, attempting, issueTicket
<1>3. SameMatch
  <2>1. room.tickets \union {s} \in SUBSET Seats
    BY <1>1, <1>2, RoomFacts DEF Shape
  <2>2. QED
    BY <1>2, <2>1 DEF SameMatch
<1>4. c \in Clients
  BY <1>1 DEF Clients
<1>5. /\ c.revision = client[s].revision /\ c.saved = client[s].saved
      /\ c.winner = client[s].winner /\ c.inbound = client[s].inbound
      /\ c.ending = client[s].ending /\ c.count = client[s].count
      /\ c.pendingCommands = client[s].pendingCommands
  BY <1>1 DEF Clients
<1> HIDE DEF c
<1>6. QuietSeat(s)
  BY <1>1, <1>2, <1>4, <1>5, DisconnectFacts, KeepingSeat DEF Dormant
<1>7. QED
  BY <1>1, <1>2, <1>3, <1>4, <1>6, DisconnectFacts, KeepingStep DEF Shape

(* What stays in the steps of a client alone. *)
LEMMA AloneStep ==
  ASSUME MatchInv, NEW s \in Seats, NEW c \in Clients, Update(s, c),
         UNCHANGED <<roomVars, up, applied, refused>>,
         c.revision = client[s].revision, c.saved = client[s].saved,
         c.winner = client[s].winner, c.inbound = client[s].inbound,
         client[s].ending => c.ending, client[s].count <= c.count,
         Range(c.pendingCommands) \subseteq Range(client[s].pendingCommands),
         Dormant(s) => Dormant(s)'
  PROVE  MatchInv' /\ Undisturbed
<1>1. Shape /\ SameMatch
  BY DEF MatchInv, SameMatch, roomVars
<1>2. QuietSeat(s)
  BY <1>1, KeepingSeat DEF roomVars
<1>3. QED
  BY <1>1, <1>2, KeepingStep DEF roomVars, Shape

LEMMA RoomUnavailableStep ==
  ASSUME MatchInv, NEW s \in Seats, RoomUnavailable(s)
  PROVE  MatchInv' /\ Undisturbed
<1> DEFINE c == [client[s] EXCEPT !.ending = TRUE, !.state = "error",
                                  !.stage = "none", !.looping = FALSE]
<1>1. client[s] \in Clients /\ client[s].count \in Nat
  BY ShapeFacts, ClientFacts DEF MatchInv
<1>2. c \in Clients
  BY <1>1 DEF Clients, ConnectionStates
<1>3. /\ c.revision = client[s].revision /\ c.saved = client[s].saved
      /\ c.winner = client[s].winner /\ c.inbound = client[s].inbound
      /\ c.ending /\ c.count = client[s].count
      /\ c.pendingCommands = client[s].pendingCommands
  BY <1>1 DEF Clients
<1>4. /\ Update(s, c) /\ UNCHANGED <<roomVars, up, applied, refused>>
      /\ client[s].stage = "ticket"
  BY DEF RoomUnavailable, attempting, historyVars
<1> HIDE DEF c
<1>5. QED
  BY <1>1, <1>2, <1>3, <1>4, AloneStep DEF Dormant

LEMMA FailedFacts ==
  ASSUME NEW c \in Clients
  PROVE  /\ failed(c) \in Clients
         /\ failed(c).revision = c.revision /\ failed(c).saved = c.saved
         /\ failed(c).winner = c.winner /\ failed(c).inbound = c.inbound
         /\ failed(c).ending = c.ending /\ failed(c).count = c.count
         /\ failed(c).pendingCommands = c.pendingCommands
  BY DEF failed, Clients, ConnectionStates

LEMMA FailedStep ==
  ASSUME MatchInv, NEW s \in Seats, ConnectFails(s) \/ WelcomeTimeout(s)
  PROVE  MatchInv' /\ Undisturbed
<1>1. client[s] \in Clients /\ client[s].count \in Nat
  BY ShapeFacts, ClientFacts DEF MatchInv
<1>2. /\ Update(s, failed(client[s])) /\ UNCHANGED <<roomVars, up, applied, refused>>
      /\ client[s].stage # "none"
  BY DEF ConnectFails, WelcomeTimeout, attempting, historyVars
<1>3. QED
  BY <1>1, <1>2, FailedFacts, AloneStep DEF Dormant

LEMMA GiveUpStep ==
  ASSUME MatchInv, NEW s \in Seats, GiveUp(s)
  PROVE  MatchInv' /\ Undisturbed
<1> DEFINE c == [client[s] EXCEPT !.looping = FALSE, !.stage = "none",
                                  !.state = "error"]
<1>1. client[s] \in Clients /\ client[s].count \in Nat
  BY ShapeFacts, ClientFacts DEF MatchInv
<1>2. c \in Clients
  BY <1>1 DEF Clients, ConnectionStates
<1>3. /\ c.revision = client[s].revision /\ c.saved = client[s].saved
      /\ c.winner = client[s].winner /\ c.inbound = client[s].inbound
      /\ c.ending = client[s].ending /\ c.count = client[s].count
      /\ c.pendingCommands = client[s].pendingCommands
  BY <1>1 DEF Clients
<1>4. /\ Update(s, c) /\ UNCHANGED <<roomVars, up, applied, refused>>
      /\ client[s].stage = "ticket"
  BY DEF GiveUp, historyVars
<1> HIDE DEF c
<1>5. QED
  BY <1>1, <1>2, <1>3, <1>4, AloneStep DEF Dormant

LEMMA RetryConnectionStep ==
  ASSUME MatchInv, NEW s \in Seats, RetryConnection(s)
  PROVE  MatchInv' /\ Undisturbed
<1> DEFINE c == [client[s] EXCEPT !.state = "reconnecting", !.looping = TRUE,
                                  !.stage = "ticket"]
<1>1. client[s] \in Clients /\ client[s].count \in Nat
  BY ShapeFacts, ClientFacts DEF MatchInv
<1>2. c \in Clients
  BY <1>1 DEF Clients, ConnectionStates
<1>3. /\ c.revision = client[s].revision /\ c.saved = client[s].saved
      /\ c.winner = client[s].winner /\ c.inbound = client[s].inbound
      /\ c.ending = client[s].ending /\ c.count = client[s].count
      /\ c.pendingCommands = client[s].pendingCommands
  BY <1>1 DEF Clients
<1>4. /\ Update(s, c) /\ UNCHANGED <<roomVars, up, applied, refused>>
      /\ client[s].state = "error"
  BY DEF RetryConnection, historyVars
<1> HIDE DEF c
<1>5. QED
  BY <1>1, <1>2, <1>3, <1>4, AloneStep DEF Dormant

LEMMA LeaveOfflineStep ==
  ASSUME MatchInv, NEW s \in Seats, LeaveOffline(s)
  PROVE  MatchInv' /\ Undisturbed
<1> DEFINE c == [client[s] EXCEPT !.ending = TRUE, !.stage = "none",
                                  !.looping = FALSE, !.count = @ + 1]
<1>1. client[s] \in Clients /\ client[s].count \in Nat /\ Shape
  BY ShapeFacts, ClientFacts DEF MatchInv
<1>2. c \in Clients
  <2>1. client[s].count + 1 \in Nat
    BY <1>1
  <2>2. QED
    BY <1>1, <2>1 DEF Clients
<1>3. /\ c.revision = client[s].revision /\ c.saved = client[s].saved
      /\ c.winner = client[s].winner /\ c.inbound = client[s].inbound
      /\ c.ending /\ c.count = client[s].count + 1
      /\ c.pendingCommands = client[s].pendingCommands
      /\ c.isConnected = client[s].isConnected /\ c.stage = "none"
      /\ c.everWelcomed = client[s].everWelcomed /\ c.state = client[s].state
  BY <1>1 DEF Clients
<1>4. Update(s, c) /\ UNCHANGED <<roomVars, up, applied, refused>>
  BY DEF LeaveOffline, historyVars
<1> HIDE DEF c
<1>5. client'[s] = c
  BY <1>1, <1>4, UpdateFacts
<1>6. Dormant(s) => Dormant(s)'
  BY <1>3, <1>4, <1>5 DEF Dormant, roomVars
<1>7. QED
  BY <1>1, <1>2, <1>3, <1>4, <1>6, AloneStep

LEMMA CommandTimeoutStep ==
  ASSUME MatchInv, NEW s \in Seats, CommandTimeout(s)
  PROVE  MatchInv' /\ Undisturbed
<1> DEFINE c == [client[s] EXCEPT !.pendingCommands = Tail(@)]
<1>1. client[s] \in Clients /\ client[s].count \in Nat
  BY ShapeFacts, ClientFacts DEF MatchInv
<1>2. /\ Update(s, c) /\ UNCHANGED <<roomVars, up, applied, refused>>
      /\ client[s].pendingCommands # << >>
  BY DEF CommandTimeout
<1>3. /\ Tail(client[s].pendingCommands) \in Seq(Commands)
      /\ Range(Tail(client[s].pendingCommands)) \subseteq Range(client[s].pendingCommands)
  BY <1>1, <1>2, ClientFacts, TailRange
<1>4. c \in Clients
  BY <1>1, <1>3 DEF Clients
<1>5. /\ c.revision = client[s].revision /\ c.saved = client[s].saved
      /\ c.winner = client[s].winner /\ c.inbound = client[s].inbound
      /\ c.ending = client[s].ending /\ c.count = client[s].count
      /\ c.pendingCommands = Tail(client[s].pendingCommands)
  BY <1>1 DEF Clients
<1> HIDE DEF c
<1>6. QED
  BY <1>1, <1>2, <1>3, <1>4, <1>5, AloneStep DEF Dormant

-----------------------------------------------------------------------------
(* Commands are sent.                                                      *)

LEMMA SendStep ==
  ASSUME MatchInv, NEW s \in Seats, NEW command \in Commands,
         command.id = newId(s), command.expectedSeq = client[s].revision,
         SendCommand(s, command)
  PROVE  MatchInv' /\ Undisturbed
<1> DEFINE c == [client[s] EXCEPT !.count = @ + 1,
                                  !.pendingCommands = Append(@, command),
                                  !.ending = (@ \/ command.type = "leave")]
<1>1. /\ Shape /\ client[s] \in Clients /\ client[s].count \in Nat
      /\ client[s].revision \in Nat /\ client[s].ending \in BOOLEAN
      /\ client[s].pendingCommands \in Seq(Commands) /\ up[s] \in Seq(Commands)
  BY ShapeFacts, ClientFacts DEF MatchInv
<1>2. /\ client[s].isConnected /\ ~client[s].ending
      /\ Update(s, c) /\ up' = [up EXCEPT ![s] = Append(@, command)]
      /\ UNCHANGED <<room, alarm, sockets, down, joining, applied, refused, overdue>>
  BY DEF SendCommand, may_send, roomVars, historyVars
<1>3. SameMatch
  BY <1>2 DEF SameMatch
<1>4. c \in Clients
  <2>1. /\ client[s].count + 1 \in Nat
        /\ Append(client[s].pendingCommands, command) \in Seq(Commands)
        /\ (client[s].ending \/ command.type = "leave") \in BOOLEAN
    BY <1>1
  <2>2. QED
    BY <1>1, <2>1 DEF Clients
<1>5. /\ c.revision = client[s].revision /\ c.saved = client[s].saved
      /\ c.winner = client[s].winner /\ c.inbound = client[s].inbound
      /\ c.count = client[s].count + 1
      /\ c.pendingCommands = Append(client[s].pendingCommands, command)
  BY <1>1 DEF Clients
<1> HIDE DEF c
<1>6. /\ client'[s] = c /\ client' \in [Seats -> Clients]
      /\ \A t \in Seats : t # s => client'[t] = client[t]
  BY <1>1, <1>2, <1>4, UpdateFacts
<1>7. /\ up' \in [Seats -> Seq(Commands)] /\ up'[s] = Append(up[s], command)
      /\ \A t \in Seats : t # s => up'[t] = up[t]
  <2>1. Append(up[s], command) \in Seq(Commands)
    BY <1>1
  <2>2. QED
    BY <1>1, <1>2, <2>1 DEF Shape
<1>8. Shape'
  BY <1>1, <1>2, <1>6, <1>7 DEF Shape
<1>9. \A t \in Seats : t # s => QuietSeat(t)
  BY <1>1, <1>2, <1>6, <1>7, StillSeat
<1>10. SeatFits(s) /\ (Late => KnowsTheEnd(s))
  BY DEF MatchInv, SeatsFit, LateAnswers
<1>11. CommandsOf(s)' = CommandsOf(s) \union {command} /\ Carried(s)' = Carried(s)
  <2>1. /\ Range(up'[s]) = Range(up[s]) \union {command}
        /\ Range(client'[s].pendingCommands)
             = Range(client[s].pendingCommands) \union {command}
    BY <1>1, <1>5, <1>6, <1>7, AppendRange
  <2>2. QED
    BY <1>2, <1>5, <1>6, <2>1 DEF CommandsOf, Carried
<1>12. command.id.seat = s /\ command.id.n = client[s].count + 1
  BY DEF newId
<1>13. SeatFits(s)'
  <2>1. client[s].count <= client'[s].count
    BY <1>1, <1>5, <1>6
  <2>2. TrueCommand(s, command)'
    <3>1. command.id \notin applied
      BY <1>1, <1>10, <1>12 DEF SeatFits
    <3>2. Past(command.expectedSeq)'
      BY <1>3, <1>1, <1>10, SamePast DEF SeatFits
    <3>3. command.id.n <= client'[s].count
      BY <1>1, <1>5, <1>6, <1>12
    <3>4. QED
      BY <1>2, <1>12, <3>1, <3>2, <3>3 DEF TrueCommand
  <2>3. \A d \in CommandsOf(s)' : TrueCommand(s, d)'
    BY <1>1, <1>3, <1>8, <1>10, <1>11, <2>1, <2>2, StaysTrue
  <2>4. \A d \in CommandsOf(s) : d.id # command.id
    <3> SUFFICES ASSUME NEW d \in CommandsOf(s), d.id = command.id PROVE FALSE
      OBVIOUS
    <3>1. d.id.n <= client[s].count
      BY <1>10 DEF SeatFits, TrueCommand
    <3>2. QED
      BY <1>1, <1>12, <3>1
  <2>5. \A d, e \in CommandsOf(s)' : d.id = e.id => d = e
    BY <1>10, <1>11, <2>4 DEF SeatFits
  <2>6. /\ Past(client'[s].revision) /\ Past(client'[s].saved)
        /\ client'[s].winner # "none" => TrueWinner(client'[s].winner)
    BY <1>5, <1>6, <1>10 DEF SeatFits
  <2>7. QED
    BY <1>1, <1>3, <1>8, <1>10, <1>11, <2>1, <2>3, <2>5, <2>6, SeatMoves
<1>14. Late' => KnowsTheEnd(s)'
  <2> SUFFICES ASSUME Late' PROVE KnowsTheEnd(s)'
    OBVIOUS
  <2>1. Late /\ KnowsTheEnd(s) /\ room # None /\ room.seq \in Nat
    BY <1>1, <1>2, <1>10, ShapeFacts, RoomFacts DEF Late
  <2>2. client[s].revision # room.seq /\ client[s].saved # room.seq
    BY <1>2, <2>1 DEF KnowsTheEnd
  <2>3. command.expectedSeq < room.seq
    BY <1>1, <1>10, <2>1, <2>2 DEF SeatFits, Past
  <2>4. ~Informed(s)' => ~Informed(s)
    BY <1>2, <1>5, <1>6 DEF Informed
  <2>5. /\ client'[s].inbound = client[s].inbound /\ down' = down
        /\ client'[s].revision = client[s].revision
        /\ client'[s].saved = client[s].saved
        /\ sockets' = sockets /\ room' = room
    BY <1>2, <1>5, <1>6
  <2>6. ~Informed(s)' =>
          /\ client'[s].inbound # None => client'[s].inbound.seq < room'.seq
          /\ \A i \in DOMAIN down'[s] : down'[s][i].seq = room'.seq => FinalBefore(s, i)'
          /\ sockets'[s] = "open" => FinalBefore(s, Len(down[s]))'
    BY <2>1, <2>4, <2>5 DEF KnowsTheEnd, FinalBefore
  <2>7. QED
    BY <1>11, <2>1, <2>2, <2>3, <2>5, <2>6 DEF KnowsTheEnd
<1>15. RoomFits' /\ BeforeTheStart'
  <2>1. \A t \in Seats : ~Started /\ Dormant(t) => Dormant(t)'
    BY <1>2, <1>9 DEF QuietSeat, Dormant
  <2>2. QED
    BY <1>3, <2>1, SameRoomFits, StillBefore DEF MatchInv
<1>16. SeatsFit'
  BY <1>1, <1>3, <1>8, <1>9, <1>13, QuietSeatFits DEF MatchInv, SeatsFit
<1>17. LateAnswers'
  BY <1>1, <1>3, <1>8, <1>9, <1>14, QuietEnd DEF MatchInv, LateAnswers
<1>18. Undisturbed
  <2>1. client[s].count <= client'[s].count /\ client[s].count < command.id.n
    BY <1>1, <1>5, <1>6, <1>12
  <2>2. QED
    BY <1>1, <1>2, <1>3, <1>9, <1>11, <2>1, OthersUndisturbed
<1>19. QED
  BY <1>8, <1>15, <1>16, <1>17, <1>18 DEF MatchInv

LEMMA NewIds == ASSUME MatchInv, NEW s \in Seats PROVE newId(s) \in Ids
  BY ShapeFacts, ClientFacts DEF MatchInv, newId, Ids

LEMMA UserStep ==
  ASSUME MatchInv, NEW s \in Seats,
         \/ \E move \in Moves : SubmitLocalAction(s, move)
         \/ \E kind \in CONTROL_KINDS :
              Request(s, kind, IF kind = "takeBack" THEN 1 ELSE 0)
         \/ \E accepted \in BOOLEAN : Respond(s, accepted)
         \/ Resign(s) \/ Leave(s)
  PROVE  MatchInv' /\ Undisturbed
<1>1. /\ client[s].revision \in Nat /\ client[s].game \in Lines
      /\ client[s].request \in Pendings /\ newId(s) \in Ids
  BY ShapeFacts, ClientFacts, NewIds DEF MatchInv
<1>2. ASSUME NEW move \in Moves, SubmitLocalAction(s, move) PROVE MatchInv' /\ Undisturbed
  <2> DEFINE command == [type |-> "action", id |-> newId(s),
                         expectedSeq |-> client[s].revision,
                         seen |-> client[s].game, move |-> move]
  <2>1. command \in Commands
    BY <1>1 DEF Commands
  <2>2. SendCommand(s, command) /\ command.id = newId(s)
        /\ command.expectedSeq = client[s].revision
    BY <1>2 DEF SubmitLocalAction
  <2> HIDE DEF command
  <2>3. QED
    BY <2>1, <2>2, SendStep
<1>3. ASSUME NEW kind \in CONTROL_KINDS,
             Request(s, kind, IF kind = "takeBack" THEN 1 ELSE 0)
      PROVE MatchInv' /\ Undisturbed
  <2> DEFINE command == [type |-> "request", id |-> newId(s),
                         expectedSeq |-> client[s].revision,
                         seen |-> client[s].game, kind |-> kind,
                         steps |-> IF kind = "takeBack" THEN 1 ELSE 0]
  <2>1. command \in Commands
    BY <1>1 DEF Commands
  <2>2. SendCommand(s, command) /\ command.id = newId(s)
        /\ command.expectedSeq = client[s].revision
    BY <1>3 DEF Request
  <2> HIDE DEF command
  <2>3. QED
    BY <2>1, <2>2, SendStep
<1>4. ASSUME NEW accepted \in BOOLEAN, Respond(s, accepted) PROVE MatchInv' /\ Undisturbed
  <2> DEFINE request == client[s].request
             command == [type |-> "respond", id |-> newId(s),
                         expectedSeq |-> client[s].revision,
                         seen |-> client[s].game, kind |-> request.kind,
                         requestId |-> request.requestId, accepted |-> accepted]
  <2>1. request.kind \in CONTROL_KINDS /\ request.requestId \in Ids
    BY <1>1, <1>4 DEF Respond, Pendings, Requests
  <2>2. SendCommand(s, command)
    BY <1>4 DEF Respond
  <2> HIDE DEF request
  <2>3. command \in Commands
    BY <1>1, <2>1 DEF Commands
  <2>4. command.id = newId(s) /\ command.expectedSeq = client[s].revision
    OBVIOUS
  <2> HIDE DEF command
  <2>5. QED
    BY <2>2, <2>3, <2>4, SendStep
<1>5. ASSUME Resign(s) PROVE MatchInv' /\ Undisturbed
  <2> DEFINE command == [type |-> "resign", id |-> newId(s),
                         expectedSeq |-> client[s].revision,
                         seen |-> client[s].game]
  <2>1. command \in Commands
    BY <1>1 DEF Commands
  <2>2. SendCommand(s, command) /\ command.id = newId(s)
        /\ command.expectedSeq = client[s].revision
    BY <1>5 DEF Resign
  <2> HIDE DEF command
  <2>3. QED
    BY <2>1, <2>2, SendStep
<1>6. ASSUME Leave(s) PROVE MatchInv' /\ Undisturbed
  <2> DEFINE command == [type |-> "leave", id |-> newId(s),
                         expectedSeq |-> client[s].revision,
                         seen |-> client[s].game]
  <2>1. command \in Commands
    BY <1>1 DEF Commands
  <2>2. SendCommand(s, command) /\ command.id = newId(s)
        /\ command.expectedSeq = client[s].revision
    BY <1>6 DEF Leave
  <2> HIDE DEF command
  <2>3. QED
    BY <2>1, <2>2, SendStep
<1>7. QED
  BY <1>2, <1>3, <1>4, <1>5, <1>6

-----------------------------------------------------------------------------
(* Messages are handled.                                                   *)

LEMMA AnsweredFacts ==
  ASSUME NEW c \in Clients, NEW m
  PROVE  /\ answered(c, m) \in Seq(Commands)
         /\ Range(answered(c, m)) \subseteq Range(c.pendingCommands)
<1>1. c.pendingCommands \in Seq(Commands)
  BY ClientFacts
<1>2. CASE is_command(m) /\ awaits(c, m.id) # {}
  <2> DEFINE i == CHOOSE i \in awaits(c, m.id) : TRUE
  <2>1. i \in DOMAIN c.pendingCommands
    BY <1>2 DEF awaits
  <2>2. answered(c, m) = RemoveAt(c.pendingCommands, i)
    BY <1>2 DEF answered
  <2> HIDE DEF i
  <2>3. QED
    BY <1>1, <2>1, <2>2, RemoveAtRange
<1>3. CASE ~(is_command(m) /\ awaits(c, m.id) # {})
  BY <1>1, <1>3 DEF answered
<1>4. QED
  BY <1>2, <1>3

(* The fields of a message that _applyStateMessage uses. *)
StateOf(m) ==
    /\ m.type \in CarriesSnapshot /\ m.seq \in Nat /\ m.actions \in Lines
    /\ m.type # "error" => m.status \in Statuses /\ m.pending \in Pendings

(* What a client has kept when it has handled a snapshot.                  *)
Applied(c, m, d) ==
    /\ d \in Clients
    /\ d.count = c.count /\ d.inbound = c.inbound
    /\ m.seq < c.revision => d.revision = c.revision /\ d.saved = c.saved
    /\ c.revision <= m.seq => d.revision = m.seq /\ d.saved = m.seq
    /\ c.ending => d.ending
    /\ c.revision <= m.seq /\ Final(m) => d.ending
    /\ Range(d.pendingCommands) \subseteq Range(c.pendingCommands)

LEMMA AppliedState ==
  ASSUME NEW s \in Seats, NEW c \in Clients, NEW m, StateOf(m)
  PROVE  /\ Applied(c, m, applied_state(s, c, m))
         /\ applied_state(s, c, m).winner = c.winner
<1> DEFINE status == IF m.type = "error" THEN c.status ELSE m.status
           state == IF status = "ended" THEN "ended"
                    ELSE IF status = "active" THEN "ready" ELSE c.state
           ending == c.ending \/ status = "ended"
           request == displayed(s, c, m)
           pending == answered(c, m)
           d == [c EXCEPT !.revision = m.seq, !.saved = m.seq, !.actionLog = m.actions,
                          !.status = status, !.ending = ending, !.state = state,
                          !.request = request, !.pendingCommands = pending]
<1>1. c.revision \in Nat /\ m.seq \in Nat
  BY ClientFacts DEF StateOf
<1>2. CASE m.seq < c.revision
  <2>1. applied_state(s, c, m) = c
    BY <1>1, <1>2 DEF applied_state, fresh
  <2>2. QED
    BY <1>1, <1>2, <2>1 DEF Applied
<1>3. CASE c.revision <= m.seq
  <2>1. applied_state(s, c, m) = d
    BY <1>1, <1>3 DEF applied_state, fresh
  <2>2. status \in Statuses /\ state \in ConnectionStates /\ ending \in BOOLEAN
    BY ClientFacts DEF StateOf, ConnectionStates, Statuses
  <2>3. request \in Pendings
    BY ClientFacts DEF StateOf, displayed, Pendings
  <2>4. pending \in Seq(Commands) /\ Range(pending) \subseteq Range(c.pendingCommands)
    BY AnsweredFacts
  <2>5. (c.ending => ending) /\ (Final(m) => ending)
    <3>1. Final(m) => status = "ended"
      BY DEF Final, WithStatus, StateOf, CarriesSnapshot
    <3> HIDE DEF status
    <3>2. QED
      BY <3>1
  <2> HIDE DEF status, state, ending, request, pending
  <2>6. d \in Clients
    BY <1>1, <2>2, <2>3, <2>4 DEF Clients, StateOf
  <2>7. /\ d.count = c.count /\ d.inbound = c.inbound /\ d.winner = c.winner
        /\ d.revision = m.seq /\ d.saved = m.seq /\ d.ending = ending
        /\ d.pendingCommands = pending
    BY DEF Clients
  <2> HIDE DEF d
  <2>8. Applied(c, m, d)
    BY <1>1, <1>3, <2>4, <2>5, <2>6, <2>7 DEF Applied
  <2>9. QED
    BY <2>1, <2>7, <2>8
<1>4. QED
  BY <1>1, <1>2, <1>3

(* The winner that a client may take from a message. *)
NewWinner(s, c, m, w) ==
    \/ w = c.winner
    \/ /\ m.type = "welcome" /\ m.status = "ended" /\ m.endReason = "resign"
       /\ w = m.winnerSeat
    \/ /\ m.type = "state" /\ m.id # None /\ w = opposite(s)
       /\ \E command \in Range(c.pendingCommands) :
            command.type = "resign" /\ command.id = m.id

LEMMA HandledFacts ==
  ASSUME NEW s \in Seats, NEW c \in Clients, NEW m \in Messages,
         m.type \in CarriesSnapshot
  PROVE  /\ Applied(c, m, handled(s, c, m))
         /\ NewWinner(s, c, m, handled(s, c, m).winner)
<1>1. StateOf(m) /\ m.seq \in Nat /\ c.revision \in Nat
  BY MessageFacts, ClientFacts DEF StateOf, CarriesSnapshot, WithStatus
<1>2. opposite(s) \in Winners
  BY Opposites DEF Winners
<1>3. CASE m.type = "welcome"
  <2> DEFINE e == [c EXCEPT !.status = m.status]
             a == applied_state(s, e, m)
             b == [a EXCEPT !.everWelcomed = TRUE, !.stage = "none", !.looping = FALSE]
  <2>1. /\ m.status \in Statuses /\ m.endReason \in EndReasons
        /\ m.winnerSeat \in Winners /\ m.opponentConnected \in BOOLEAN
    BY <1>3, MessageFacts DEF WithStatus
  <2>2. /\ e \in Clients /\ e.revision = c.revision /\ e.saved = c.saved
        /\ e.count = c.count /\ e.inbound = c.inbound /\ e.winner = c.winner
        /\ e.ending = c.ending /\ e.pendingCommands = c.pendingCommands
    BY <2>1 DEF Clients
  <2>3. welcomed(s, c, m) =
          CASE m.status = "ended" ->
                 [b EXCEPT !.ending = TRUE, !.state = "ended",
                           !.winner = IF m.endReason = "resign" THEN m.winnerSeat
                                      ELSE @]
            [] m.status = "active" ->
                 [b EXCEPT !.state = IF m.opponentConnected THEN "ready"
                                     ELSE "listening"]
            [] m.status = "waiting" -> [b EXCEPT !.state = "listening"]
    BY DEF welcomed
  <2> HIDE DEF e
  <2>4. Applied(e, m, a) /\ a.winner = e.winner
    BY <1>1, <2>2, AppliedState
  <2> HIDE DEF a
  <2>5. a \in Clients
    BY <2>4 DEF Applied
  <2>6. /\ b \in Clients /\ b.revision = a.revision /\ b.saved = a.saved
        /\ b.count = a.count /\ b.inbound = a.inbound /\ b.winner = a.winner
        /\ b.ending = a.ending /\ b.pendingCommands = a.pendingCommands
    BY <2>5 DEF Clients
  <2>7. Applied(c, m, b) /\ b.winner = c.winner
    BY <2>2, <2>4, <2>6 DEF Applied
  <2> HIDE DEF b
  <2>8. handled(s, c, m) = welcomed(s, c, m)
    BY <1>3 DEF handled
  <2>9. CASE m.status = "ended"
    <3> DEFINE w == IF m.endReason = "resign" THEN m.winnerSeat ELSE b.winner
               d == [b EXCEPT !.ending = TRUE, !.state = "ended", !.winner = w]
    <3>1. handled(s, c, m) = d
      BY <2>3, <2>8, <2>9
    <3>2. w \in Winners
      BY <2>1, <2>6, ClientFacts
    <3>3. NewWinner(s, c, m, w)
      BY <1>3, <2>7, <2>9 DEF NewWinner
    <3> HIDE DEF w
    <3>4. /\ d \in Clients /\ d.revision = b.revision /\ d.saved = b.saved
          /\ d.count = b.count /\ d.inbound = b.inbound /\ d.winner = w
          /\ d.ending /\ d.pendingCommands = b.pendingCommands
      BY <2>6, <3>2 DEF Clients, ConnectionStates
    <3> HIDE DEF d
    <3>5. QED
      BY <2>7, <3>1, <3>3, <3>4 DEF Applied
  <2>10. CASE m.status # "ended"
    <3>1. PICK x \in {"ready", "listening"} : handled(s, c, m) = [b EXCEPT !.state = x]
      <4>1. CASE m.status = "active"
        BY <2>3, <2>8, <4>1
      <4>2. CASE m.status = "waiting"
        BY <2>3, <2>8, <4>2
      <4>3. QED
        BY <2>1, <2>10, <4>1, <4>2 DEF Statuses
    <3> DEFINE d == [b EXCEPT !.state = x]
    <3>2. /\ d \in Clients /\ d.revision = b.revision /\ d.saved = b.saved
          /\ d.count = b.count /\ d.inbound = b.inbound /\ d.winner = b.winner
          /\ d.ending = b.ending /\ d.pendingCommands = b.pendingCommands
      BY <2>6 DEF Clients, ConnectionStates
    <3>3. handled(s, c, m) = d
      BY <3>1
    <3> HIDE DEF d
    <3>4. Applied(c, m, d) /\ NewWinner(s, c, m, d.winner)
      BY <2>7, <3>2 DEF Applied, NewWinner
    <3>5. QED
      BY <3>3, <3>4
  <2>11. QED
    BY <2>9, <2>10
<1>4. CASE m.type = "state"
  <2> DEFINE a == applied_state(s, c, m)
             given == \E i \in DOMAIN c.pendingCommands :
                        /\ c.pendingCommands[i].type = "resign"
                        /\ c.pendingCommands[i].id = m.id
                        /\ fresh(c, m)
             d == [a EXCEPT !.winner = opposite(s), !.ending = TRUE, !.state = "ended"]
  <2>1. Applied(c, m, a) /\ a.winner = c.winner
    BY <1>1, AppliedState
  <2>2. handled(s, c, m) = IF given THEN d ELSE a
    BY <1>4 DEF handled, resigned
  <2>3. CASE given
    <3>1. /\ m.id # None
          /\ \E command \in Range(c.pendingCommands) :
               command.type = "resign" /\ command.id = m.id
      <4>1. PICK i \in DOMAIN c.pendingCommands :
              c.pendingCommands[i].type = "resign" /\ c.pendingCommands[i].id = m.id
        BY <2>3
      <4>2. c.pendingCommands[i] \in Range(c.pendingCommands)
        BY DEF Range
      <4>3. c.pendingCommands[i].id \in Ids
        BY <4>2, ClientFacts, RangeIn, CommandFacts
      <4>4. QED
        BY <4>1, <4>2, <4>3, Somethings
    <3> HIDE DEF a
    <3>2. a \in Clients
      BY <2>1 DEF Applied
    <3>3. /\ d \in Clients /\ d.revision = a.revision /\ d.saved = a.saved
          /\ d.count = a.count /\ d.inbound = a.inbound /\ d.winner = opposite(s)
          /\ d.ending /\ d.pendingCommands = a.pendingCommands
      BY <1>2, <3>2 DEF Clients, ConnectionStates
    <3>4. handled(s, c, m) = d
      BY <2>2, <2>3
    <3> HIDE DEF d
    <3>5. QED
      BY <1>4, <2>1, <3>1, <3>3, <3>4 DEF Applied, NewWinner
  <2>4. CASE ~given
    <3>1. handled(s, c, m) = a
      BY <2>2, <2>4
    <3>2. QED
      BY <2>1, <3>1 DEF NewWinner
  <2>5. QED
    BY <2>3, <2>4
<1>5. CASE m.type = "opponentJoined"
  <2> DEFINE a == applied_state(s, c, m)
             d == [a EXCEPT !.state = "listening"]
  <2>1. Applied(c, m, a) /\ a.winner = c.winner
    BY <1>1, AppliedState
  <2>2. handled(s, c, m) = d
    BY <1>5 DEF handled
  <2> HIDE DEF a
  <2>3. a \in Clients
    BY <2>1 DEF Applied
  <2>4. /\ d \in Clients /\ d.revision = a.revision /\ d.saved = a.saved
        /\ d.count = a.count /\ d.inbound = a.inbound /\ d.winner = a.winner
        /\ d.ending = a.ending /\ d.pendingCommands = a.pendingCommands
    BY <2>3 DEF Clients, ConnectionStates
  <2> HIDE DEF d
  <2>5. QED
    BY <2>1, <2>2, <2>4 DEF Applied, NewWinner
<1>6. CASE m.type = "error"
  <2> DEFINE n == [m EXCEPT !.id = None]
             a == applied_state(s, c, n)
             d == [a EXCEPT !.pendingCommands = answered(c, m)]
  <2>1. n.type = m.type /\ n.seq = m.seq /\ n.actions = m.actions /\ StateOf(n)
    BY <1>1, <1>6 DEF Messages, StateOf
  <2>2. handled(s, c, m) = d
    BY <1>6 DEF handled
  <2> HIDE DEF n
  <2>3. Applied(c, n, a) /\ a.winner = c.winner
    BY <2>1, AppliedState
  <2> HIDE DEF a
  <2>4. a \in Clients
    BY <2>3 DEF Applied
  <2>5. /\ d \in Clients /\ d.revision = a.revision /\ d.saved = a.saved
        /\ d.count = a.count /\ d.inbound = a.inbound /\ d.winner = a.winner
        /\ d.ending = a.ending /\ d.pendingCommands = answered(c, m)
    BY <2>4, AnsweredFacts DEF Clients
  <2> HIDE DEF d
  <2>6. ~Final(m) /\ ~Final(n)
    BY <1>6, <2>1 DEF Final, WithStatus
  <2>7. QED
    BY <2>1, <2>2, <2>3, <2>5, <2>6, AnsweredFacts DEF Applied, NewWinner
<1>7. CASE m.type = "controlResult"
  <2> DEFINE a == applied_state(s, c, m)
             request == IF a.request # None /\ a.request.requestId = m.requestId
                        THEN None ELSE a.request
             d == [a EXCEPT !.request = request]
  <2>1. Applied(c, m, a) /\ a.winner = c.winner
    BY <1>1, AppliedState
  <2>2. handled(s, c, m) = d
    BY <1>7 DEF handled
  <2> HIDE DEF a
  <2>3. a \in Clients /\ request \in Pendings
    BY <2>1, ClientFacts DEF Applied, Pendings
  <2> HIDE DEF request
  <2>4. /\ d \in Clients /\ d.revision = a.revision /\ d.saved = a.saved
        /\ d.count = a.count /\ d.inbound = a.inbound /\ d.winner = a.winner
        /\ d.ending = a.ending /\ d.pendingCommands = a.pendingCommands
    BY <2>3 DEF Clients
  <2> HIDE DEF d
  <2>5. QED
    BY <2>1, <2>2, <2>4 DEF Applied, NewWinner
<1>8. QED
  BY <1>3, <1>4, <1>5, <1>6, <1>7 DEF CarriesSnapshot

LEMMA SeatStep ==
  ASSUME MatchInv, Shape', SameMatch, NEW s \in Seats,
         \A t \in Seats : t # s => QuietSeat(t),
         ~Started /\ Dormant(s) => Dormant(s)',
         SeatFits(s)', Late' => KnowsTheEnd(s)'
  PROVE  MatchInv'
<1>1. Shape /\ RoomFits /\ BeforeTheStart
  BY DEF MatchInv
<1>2. \A t \in Seats : ~Started /\ Dormant(t) => Dormant(t)'
  BY DEF QuietSeat
<1>3. RoomFits' /\ BeforeTheStart'
  BY <1>1, <1>2, SameRoomFits, StillBefore
<1>4. SeatsFit'
  BY <1>1, QuietSeatFits DEF MatchInv, SeatsFit
<1>5. LateAnswers'
  BY <1>1, QuietEnd DEF MatchInv, LateAnswers
<1>6. QED
  BY <1>3, <1>4, <1>5 DEF MatchInv

(* The next message of a queue is taken by a client that hears of no end.  *)
LEMMA TakeMessage ==
  ASSUME Shape, NEW s \in Seats, SeatFits(s), KnowsTheEnd(s), room # None,
         down[s] # << >>, ~Informed(s), ~Final(Head(down[s])),
         down' = [down EXCEPT ![s] = Tail(@)], room' = room, sockets' = sockets
  PROVE  /\ Head(down[s]).seq < room.seq
         /\ \A i \in DOMAIN down'[s] : down'[s][i].seq = room'.seq => FinalBefore(s, i)'
         /\ sockets'[s] = "open" => FinalBefore(s, Len(down[s]))'
<1>1. /\ down[s] \in Seq(Messages) /\ room \in RoomStates
      /\ down'[s] = Tail(down[s])
  BY DEF Shape
<1>2. /\ \A i \in DOMAIN down'[s] :
           /\ i \in Nat \ {0} /\ i + 1 \in DOMAIN down[s]
           /\ down'[s][i] = down[s][i + 1]
      /\ Len(down'[s]) = Len(down[s]) - 1 /\ Len(down[s]) \in Nat \ {0}
      /\ 1 \in DOMAIN down[s] /\ Head(down[s]) = down[s][1]
      /\ DOMAIN down[s] = 1..Len(down[s]) /\ DOMAIN down'[s] = 1..Len(down'[s])
  <2> DEFINE q == down[s]
             r == down'[s]
  <2>1. q \in Seq(Messages) /\ q # << >> /\ r = Tail(q)
    BY <1>1
  <2> HIDE DEF q, r
  <2>2. /\ \A i \in DOMAIN r :
             i \in Nat \ {0} /\ i + 1 \in DOMAIN q /\ r[i] = q[i + 1]
        /\ Len(r) = Len(q) - 1 /\ Len(q) \in Nat \ {0}
        /\ 1 \in DOMAIN q /\ Head(q) = q[1]
        /\ DOMAIN q = 1..Len(q) /\ DOMAIN r = 1..Len(r)
    BY <2>1, TailFacts
  <2>3. QED
    BY <2>2 DEF q, r
<1>3. \A i \in DOMAIN down[s] : FinalBefore(s, i) => i > 1 /\ FinalBefore(s, i - 1)'
  <2> SUFFICES ASSUME NEW i \in DOMAIN down[s], FinalBefore(s, i)
               PROVE  i > 1 /\ FinalBefore(s, i - 1)'
    OBVIOUS
  <2>1. PICK k \in 1..i : Final(down[s][k])
    BY DEF FinalBefore
  <2>2. i \in 1..Len(down[s]) /\ k # 1
    BY <1>2, <2>1
  <2>3. k - 1 \in 1..i - 1 /\ k - 1 \in DOMAIN down'[s]
    BY <1>2, <2>1, <2>2
  <2>4. down'[s][k - 1] = down[s][k - 1 + 1] /\ k - 1 + 1 = k
    BY <1>2, <2>2, <2>3
  <2>5. Final(down'[s][k - 1])
    BY <2>1, <2>4
  <2>6. i > 1
    BY <2>2, <2>3
  <2>7. QED
    BY <2>3, <2>5, <2>6 DEF FinalBefore
<1>4. Head(down[s]).seq < room.seq
  <2>1. Head(down[s]) \in Carried(s) /\ Head(down[s]) \in Messages
    BY <1>1, TailRange, CarriedByOf
  <2>2. Head(down[s]).seq <= room.seq
    BY <2>1 DEF SeatFits, TrueNews, Past
  <2>3. Head(down[s]).seq # room.seq
    <3>1. ~FinalBefore(s, 1)
      BY <1>2, <1>3
    <3>2. QED
      BY <1>2, <3>1 DEF KnowsTheEnd
  <2>4. Head(down[s]).seq \in Nat /\ room.seq \in Nat
    BY <1>1, <2>1, MessageFacts, RoomFacts
  <2>5. QED
    BY <2>2, <2>3, <2>4
<1>5. ASSUME NEW i \in DOMAIN down'[s], down'[s][i].seq = room'.seq
      PROVE  FinalBefore(s, i)'
  <2>1. FinalBefore(s, i + 1)
    BY <1>2, <1>5 DEF KnowsTheEnd
  <2>2. FinalBefore(s, i + 1 - 1)' /\ i + 1 - 1 = i
    BY <1>2, <1>3, <2>1
  <2>3. QED
    BY <2>2
<1>6. ASSUME sockets'[s] = "open" PROVE FinalBefore(s, Len(down[s]))'
  <2>1. FinalBefore(s, Len(down[s]))
    BY <1>6 DEF KnowsTheEnd
  <2>2. Len(down[s]) \in DOMAIN down[s]
    BY <1>2
  <2>3. PICK n \in Nat : n = Len(down[s])
    BY <1>2
  <2>4. FinalBefore(s, n - 1)' /\ Len(down'[s]) = n - 1
    BY <1>2, <1>3, <2>1, <2>2, <2>3
  <2>5. QED
    BY <2>4 DEF FinalBefore
<1>7. QED
  BY <1>4, <1>5, <1>6

LEMMA BeginMessageStep ==
  ASSUME MatchInv, NEW s \in Seats, BeginMessage(s)
  PROVE  MatchInv' /\ Undisturbed
<1> DEFINE m == Head(down[s])
           game == IF fresh(client[s], m) THEN m.actions ELSE client[s].game
           c == [client[s] EXCEPT !.inbound = m, !.game = game]
<1>1. /\ Shape /\ client[s] \in Clients /\ client[s].count \in Nat
      /\ down[s] \in Seq(Messages)
  BY ShapeFacts, ClientFacts DEF MatchInv
<1>2. /\ down[s] # << >> /\ client[s].inbound = None /\ m.type \in CarriesSnapshot
      /\ down' = [down EXCEPT ![s] = Tail(@)] /\ Update(s, c)
      /\ UNCHANGED <<room, alarm, sockets, joining, up, applied, refused, overdue>>
  BY DEF BeginMessage, incoming, restores, historyVars
<1>3. /\ m \in Messages /\ m \in Range(down[s]) /\ Tail(down[s]) \in Seq(Messages)
      /\ Range(Tail(down[s])) \subseteq Range(down[s])
  BY <1>1, <1>2, TailRange
<1>4. m \in Carried(s) /\ m # None /\ m \in Snapshots
  BY <1>1, <1>2, <1>3, CarriedByOf, MessageFacts DEF Snapshots
<1>5. game \in Lines
  BY <1>1, <1>2, <1>3, MessageFacts, ClientFacts
<1> HIDE DEF m, game
<1>6. /\ c \in Clients /\ c.inbound = m
      /\ c.revision = client[s].revision /\ c.saved = client[s].saved
      /\ c.winner = client[s].winner /\ c.count = client[s].count
      /\ c.ending = client[s].ending /\ c.pendingCommands = client[s].pendingCommands
  BY <1>1, <1>4, <1>5 DEF Clients
<1> HIDE DEF c
<1>7. /\ client'[s] = c /\ client' \in [Seats -> Clients]
      /\ \A t \in Seats : t # s => client'[t] = client[t]
  BY <1>1, <1>2, <1>6, UpdateFacts
<1>8. /\ down' \in [Seats -> Seq(Messages)] /\ down'[s] = Tail(down[s])
      /\ \A t \in Seats : t # s => down'[t] = down[t]
  BY <1>1, <1>2, <1>3 DEF Shape
<1>9. Shape' /\ SameMatch
  BY <1>1, <1>2, <1>7, <1>8 DEF Shape, SameMatch
<1>10. \A t \in Seats : t # s => QuietSeat(t)
  BY <1>1, <1>2, <1>7, <1>8, StillSeat
<1>11. SeatFits(s) /\ (Late => KnowsTheEnd(s))
  BY DEF MatchInv, SeatsFit, LateAnswers
<1>12. Carried(s)' \subseteq Carried(s) /\ CommandsOf(s)' = CommandsOf(s)
  BY <1>2, <1>3, <1>4, <1>6, <1>7, <1>8 DEF Carried, CommandsOf
<1>13. SeatFits(s)'
  <2>1. /\ Past(client'[s].revision) /\ Past(client'[s].saved)
        /\ client'[s].winner # "none" => TrueWinner(client'[s].winner)
        /\ client[s].count <= client'[s].count
        /\ \A d, e \in CommandsOf(s)' : d.id = e.id => d = e
    BY <1>1, <1>6, <1>7, <1>11, <1>12 DEF SeatFits
  <2>2. \A d \in CommandsOf(s)' : TrueCommand(s, d)'
    BY <1>1, <1>9, <1>11, <1>12, <2>1, StaysTrue
  <2>3. QED
    BY <1>1, <1>9, <1>11, <1>12, <2>1, <2>2, SeatMoves
<1>14. ASSUME Late' PROVE KnowsTheEnd(s)'
  <2>1. Late /\ KnowsTheEnd(s) /\ room # None /\ room' = room
    BY <1>2, <1>11, <1>14 DEF Late
  <2>2. ASSUME ~Informed(s)'
        PROVE  /\ client'[s].inbound.seq < room'.seq
               /\ \A i \in DOMAIN down'[s] : down'[s][i].seq = room'.seq => FinalBefore(s, i)'
               /\ sockets'[s] = "open" => FinalBefore(s, Len(down[s]))'
    <3>1. ~Informed(s) /\ ~Final(m)
      BY <1>2, <1>4, <1>6, <1>7, <2>2 DEF Informed
    <3>2. QED
      BY <1>1, <1>2, <1>6, <1>7, <1>11, <2>1, <3>1, TakeMessage DEF m
  <2>3. /\ client'[s].revision = room'.seq \/ client'[s].saved = room'.seq
             => client'[s].ending
        /\ \A d \in CommandsOf(s)' : d.expectedSeq < room'.seq
        /\ \A n \in Carried(s)' : Final(n) => n.seq = room'.seq
    BY <1>6, <1>7, <1>12, <2>1 DEF KnowsTheEnd
  <2>4. QED
    BY <2>2, <2>3 DEF KnowsTheEnd
<1>15. ~Dormant(s)
  BY <1>2 DEF Dormant
<1>16. Undisturbed
  <2>1. client[s].count <= client'[s].count
    BY <1>1, <1>6, <1>7
  <2>2. QED
    BY <1>1, <1>2, <1>9, <1>10, <1>12, <2>1, OthersUndisturbed
<1>17. QED
  BY <1>9, <1>10, <1>13, <1>14, <1>15, <1>16, SeatStep

(* The winner that a client takes is the room's. *)
LEMMA NewWinnerIsTrue ==
  ASSUME MatchInv, NEW s \in Seats, NEW m \in Carried(s), NEW w,
         NewWinner(s, client[s], m, w), w # "none"
  PROVE  TrueWinner(w)
<1>1. SeatFits(s) /\ TrueNews(s, m)
  BY DEF MatchInv, SeatsFit, SeatFits
<1>2. CASE w = client[s].winner
  BY <1>1, <1>2 DEF SeatFits
<1>3. CASE /\ m.type = "welcome" /\ m.status = "ended" /\ m.endReason = "resign"
           /\ w = m.winnerSeat
  BY <1>1, <1>3 DEF TrueNews
<1>4. CASE /\ m.type = "state" /\ m.id # None /\ w = opposite(s)
           /\ \E command \in Range(client[s].pendingCommands) :
                command.type = "resign" /\ command.id = m.id
  <2>1. PICK command \in Range(client[s].pendingCommands) :
          command.type = "resign" /\ command.id = m.id
    BY <1>4
  <2>2. TrueCommand(s, command) /\ command.id \in applied
    BY <1>1, <1>4, <2>1 DEF SeatFits, CommandsOf, TrueNews
  <2>3. QED
    BY <1>4, <2>1, <2>2 DEF TrueCommand
<1>5. QED
  BY <1>2, <1>3, <1>4 DEF NewWinner

LEMMA RejectionsAreIds ==
  ASSUME MatchInv, NEW s \in Seats, NEW m
  PROVE  /\ rejections(client[s], m) \subseteq Ids
         /\ \A id \in rejections(client[s], m) : m.type = "error" /\ m.id = id
<1>1. client[s].pendingCommands \in Seq(Commands)
  BY ShapeFacts, ClientFacts DEF MatchInv
<1>2. \A i \in DOMAIN client[s].pendingCommands : client[s].pendingCommands[i].id \in Ids
  BY <1>1, CommandFacts
<1>3. QED
  BY <1>2 DEF rejections

LEMMA HandledSeatFits ==
  ASSUME MatchInv, Shape', SameMatch, NEW s \in Seats, NEW m \in Carried(s),
         client'[s].revision \in {client[s].revision, m.seq},
         client'[s].saved \in {client[s].saved, m.seq},
         client'[s].winner # "none" => TrueWinner(client'[s].winner),
         client'[s].count = client[s].count,
         Carried(s)' \subseteq Carried(s), CommandsOf(s)' \subseteq CommandsOf(s)
  PROVE  SeatFits(s)'
<1>1. Shape /\ SeatFits(s) /\ client[s].count \in Nat
  BY ShapeFacts, ClientFacts DEF MatchInv, SeatsFit
<1>2. client[s].count <= client'[s].count
  BY <1>1
<1>3. /\ Past(client'[s].revision) /\ Past(client'[s].saved)
      /\ \A c, d \in CommandsOf(s)' : c.id = d.id => c = d
  BY <1>1 DEF SeatFits, TrueNews
<1>4. \A c \in CommandsOf(s)' : TrueCommand(s, c)'
  BY <1>1, <1>2, StaysTrue
<1>5. QED
  BY <1>1, <1>2, <1>3, <1>4, SeatMoves

LEMMA EndMessageStep ==
  ASSUME MatchInv, NEW s \in Seats, EndMessage(s)
  PROVE  MatchInv' /\ Undisturbed
<1> DEFINE m == client[s].inbound
           h == handled(s, client[s], m)
           d == [h EXCEPT !.inbound = None]
           c == IF m.type = "welcome" /\ ~client[s].isConnected
                THEN [d EXCEPT !.stage = client[s].stage,
                               !.looping = client[s].looping]
                ELSE d
<1>1. Shape /\ client[s] \in Clients /\ up[s] \in Seq(Commands)
  BY ShapeFacts DEF MatchInv
<1>2. /\ m # None /\ Update(s, c)
      /\ up' = up \/ up' = [up EXCEPT ![s] = @ \o d.pendingCommands]
      /\ refused' = refused \union rejections(client[s], m)
      /\ UNCHANGED <<room, alarm, sockets, down, joining, applied>>
  BY DEF EndMessage, roomVars
<1>3. m \in Messages /\ m.type \in CarriesSnapshot /\ m \in Carried(s) /\ m.seq \in Nat
  BY <1>1, <1>2, ClientFacts, CarriedByOf, MessageFacts
<1>4. Applied(client[s], m, h) /\ NewWinner(s, client[s], m, h.winner)
  BY <1>1, <1>3, HandledFacts
<1>5. /\ rejections(client[s], m) \subseteq Ids
      /\ \A id \in rejections(client[s], m) : m.type = "error" /\ m.id = id
  <2> HIDE DEF m
  <2>1. QED
    BY RejectionsAreIds
<1> HIDE DEF m, h
<1>6. h \in Clients
  BY <1>4 DEF Applied
<1>7. /\ d \in Clients /\ d.revision = h.revision /\ d.saved = h.saved
      /\ d.count = h.count /\ d.inbound = None /\ d.winner = h.winner
      /\ d.ending = h.ending /\ d.pendingCommands = h.pendingCommands
  BY <1>6 DEF Clients
<1> HIDE DEF d
<1>8. /\ c \in Clients /\ c.revision = d.revision /\ c.saved = d.saved
      /\ c.count = d.count /\ c.inbound = d.inbound /\ c.winner = d.winner
      /\ c.ending = d.ending /\ c.pendingCommands = d.pendingCommands
  BY <1>1, <1>7 DEF Clients
<1> HIDE DEF c
<1>9. /\ client'[s] = c /\ client' \in [Seats -> Clients]
      /\ \A t \in Seats : t # s => client'[t] = client[t]
  BY <1>1, <1>2, <1>8, UpdateFacts
<1>10. Range(d.pendingCommands) \subseteq Range(client[s].pendingCommands)
  BY <1>4, <1>7 DEF Applied
<1>11. /\ up' \in [Seats -> Seq(Commands)]
       /\ Range(up'[s]) \subseteq CommandsOf(s)
       /\ \A t \in Seats : t # s => up'[t] = up[t]
  <2>1. CASE up' = up
    BY <1>1, <2>1 DEF Shape, CommandsOf
  <2>2. CASE up' = [up EXCEPT ![s] = @ \o d.pendingCommands]
    <3>1. /\ up[s] \o d.pendingCommands \in Seq(Commands)
          /\ Range(up[s] \o d.pendingCommands) \subseteq CommandsOf(s)
      <4>1. d.pendingCommands \in Seq(Commands)
        BY <1>7, ClientFacts
      <4>2. QED
        BY <1>1, <1>10, <4>1, ConcatRange DEF CommandsOf
    <3>2. QED
      BY <1>1, <2>2, <3>1 DEF Shape
  <2>3. QED
    BY <1>2, <2>1, <2>2
<1>12. Shape' /\ SameMatch
  BY <1>1, <1>2, <1>5, <1>9, <1>11 DEF Shape, SameMatch
<1>13. \A t \in Seats : t # s => QuietSeat(t)
  BY <1>1, <1>2, <1>9, <1>11, StillSeat
<1>14. Carried(s)' \subseteq Carried(s) /\ CommandsOf(s)' \subseteq CommandsOf(s)
  BY <1>2, <1>7, <1>8, <1>9, <1>10, <1>11 DEF Carried, CommandsOf
<1>15. SeatFits(s)'
  <2>1. client[s].revision \in Nat
    BY <1>1, ClientFacts
  <2>2. /\ client'[s].revision \in {client[s].revision, m.seq}
        /\ client'[s].saved \in {client[s].saved, m.seq}
        /\ client'[s].count = client[s].count
    BY <1>3, <1>4, <1>7, <1>8, <1>9, <2>1 DEF Applied
  <2>3. client'[s].winner # "none" => TrueWinner(client'[s].winner)
    BY <1>3, <1>4, <1>7, <1>8, <1>9, NewWinnerIsTrue
  <2>4. QED
    BY <1>3, <1>12, <1>14, <2>2, <2>3, HandledSeatFits
<1>16. ASSUME Late' PROVE KnowsTheEnd(s)'
  <2>1. /\ Late /\ KnowsTheEnd(s) /\ room # None /\ room' = room
        /\ sockets' = sockets /\ down' = down
    BY <1>2, <1>16 DEF Late, MatchInv, LateAnswers
  <2>2. /\ room.seq \in Nat /\ client[s].revision \in Nat
        /\ client[s].revision <= room.seq /\ m.seq <= room.seq
    BY <1>1, <1>3, <2>1, ShapeFacts, RoomFacts, ClientFacts
       DEF MatchInv, SeatsFit, SeatFits, Past, TrueNews
  <2>3. Informed(s) => client'[s].ending
    <3>1. CASE client[s].ending
      BY <1>4, <1>7, <1>8, <1>9, <3>1 DEF Applied
    <3>2. CASE Final(m)
      <4>1. m.seq = room.seq
        BY <1>3, <2>1, <3>2 DEF KnowsTheEnd
      <4>2. client[s].revision <= m.seq
        BY <2>2, <4>1
      <4>3. QED
        BY <1>4, <1>7, <1>8, <1>9, <3>2, <4>2 DEF Applied
    <3>3. QED
      BY <3>1, <3>2 DEF Informed, m
  <2>4. ASSUME ~Informed(s)
        PROVE  client'[s].revision # room.seq /\ client'[s].saved # room.seq
    <3>1. m.seq < room.seq
      BY <1>2, <2>1, <2>4 DEF KnowsTheEnd, m
    <3>2. client[s].revision # room.seq /\ client[s].saved # room.seq
      BY <2>1, <2>4 DEF KnowsTheEnd, Informed
    <3>3. /\ client'[s].revision \in {client[s].revision, m.seq}
          /\ client'[s].saved \in {client[s].saved, m.seq}
      BY <1>3, <1>4, <1>7, <1>8, <1>9, <2>2 DEF Applied
    <3>4. QED
      BY <1>3, <2>2, <3>1, <3>2, <3>3
  <2>5. client'[s].revision = room'.seq \/ client'[s].saved = room'.seq
          => client'[s].ending
    BY <2>1, <2>3, <2>4
  <2>6. client'[s].inbound = None
    BY <1>7, <1>8, <1>9
  <2>7. ASSUME ~Informed(s)'
        PROVE  /\ \A i \in DOMAIN down'[s] : down'[s][i].seq = room'.seq => FinalBefore(s, i)'
               /\ sockets'[s] = "open" => FinalBefore(s, Len(down[s]))'
    <3>1. ~Informed(s)
      BY <2>3, <2>7 DEF Informed
    <3>2. QED
      BY <2>1, <3>1 DEF KnowsTheEnd, FinalBefore
  <2>8. /\ \A e \in CommandsOf(s)' : e.expectedSeq < room'.seq
        /\ \A n \in Carried(s)' : Final(n) => n.seq = room'.seq
    BY <1>14, <2>1 DEF KnowsTheEnd
  <2>9. QED
    BY <2>5, <2>6, <2>7, <2>8 DEF KnowsTheEnd
<1>17. ~Dormant(s)
  BY <1>2 DEF Dormant, m
<1>18. Undisturbed
  <2>1. client[s].count <= client'[s].count
    BY <1>1, <1>4, <1>7, <1>8, <1>9, ClientFacts DEF Applied
  <2>2. QED
    BY <1>1, <1>2, <1>3, <1>5, <1>12, <1>13, <1>14, <2>1, OthersUndisturbed
<1>19. QED
  BY <1>12, <1>13, <1>15, <1>16, <1>17, <1>18, SeatStep

(* What a client has kept when it has handled a message about its opponent.*)
LEMMA NoticedFacts ==
  ASSUME NEW s \in Seats, NEW c \in Clients, NEW m \in Messages,
         m.type \notin CarriesSnapshot
  PROVE  LET d == noticed(s, c, m) IN
         /\ d \in Clients /\ d.count = c.count /\ d.inbound = c.inbound
         /\ d.revision = m.seq /\ d.saved = c.saved
         /\ d.pendingCommands = c.pendingCommands
         /\ c.ending => d.ending
         /\ Final(m) => d.ending
         /\ d.winner = c.winner \/ (m.type = "opponentResigned" /\ d.winner = s)
<1> DEFINE e == [c EXCEPT !.revision = m.seq]
           n == noticed(s, c, m)
<1>1. m.seq \in Nat /\ s \in Winners
  BY MessageFacts DEF Winners
<1>2. /\ e \in Clients /\ e.count = c.count /\ e.inbound = c.inbound
      /\ e.revision = m.seq /\ e.saved = c.saved /\ e.winner = c.winner
      /\ e.pendingCommands = c.pendingCommands /\ e.ending = c.ending
  BY <1>1 DEF Clients
<1>3. noticed(s, c, m) =
        CASE m.type = "controlRequest" -> [e EXCEPT !.request = m.request]
          [] m.type = "opponentResigned" ->
               [e EXCEPT !.winner = s, !.ending = TRUE, !.state = "ended"]
          [] m.type = "opponentLeft" -> [e EXCEPT !.ending = TRUE, !.state = "ended"]
          [] m.type = "opponentConnection" ->
               [e EXCEPT !.state = IF e.status # "active" THEN @
                                   ELSE IF m.connected THEN "ready" ELSE "listening"]
  BY DEF noticed
<1> HIDE DEF e
<1>4. CASE m.type = "controlRequest"
  <2>1. n = [e EXCEPT !.request = m.request] /\ m.request \in Pendings
    BY <1>3, <1>4, MessageFacts DEF Pendings
  <2>2. ~Final(m)
    BY <1>4 DEF Final, WithStatus
  <2> HIDE DEF n
  <2>3. /\ n \in Clients /\ n.count = c.count /\ n.inbound = c.inbound
        /\ n.revision = m.seq /\ n.saved = c.saved /\ n.winner = c.winner
        /\ n.pendingCommands = c.pendingCommands /\ n.ending = c.ending
    BY <1>2, <2>1 DEF Clients
  <2>4. QED
    BY <2>2, <2>3 DEF n
<1>5. CASE m.type = "opponentResigned"
  <2>1. n = [e EXCEPT !.winner = s, !.ending = TRUE, !.state = "ended"]
    BY <1>3, <1>5
  <2> HIDE DEF n
  <2>2. /\ n \in Clients /\ n.count = c.count /\ n.inbound = c.inbound
        /\ n.revision = m.seq /\ n.saved = c.saved /\ n.winner = s
        /\ n.pendingCommands = c.pendingCommands /\ n.ending
    BY <1>1, <1>2, <2>1 DEF Clients, ConnectionStates
  <2>3. QED
    BY <1>5, <2>2 DEF n
<1>6. CASE m.type = "opponentLeft"
  <2>1. n = [e EXCEPT !.ending = TRUE, !.state = "ended"]
    BY <1>3, <1>6
  <2> HIDE DEF n
  <2>2. /\ n \in Clients /\ n.count = c.count /\ n.inbound = c.inbound
        /\ n.revision = m.seq /\ n.saved = c.saved /\ n.winner = c.winner
        /\ n.pendingCommands = c.pendingCommands /\ n.ending
    BY <1>2, <2>1 DEF Clients, ConnectionStates
  <2>3. QED
    BY <2>2 DEF n
<1>7. CASE m.type = "opponentConnection"
  <2> DEFINE x == IF e.status # "active" THEN e.state
                  ELSE IF m.connected THEN "ready" ELSE "listening"
  <2>1. n = [e EXCEPT !.state = x]
    BY <1>3, <1>7
  <2>2. x \in ConnectionStates
    BY <1>2, ClientFacts DEF ConnectionStates
  <2>3. ~Final(m)
    BY <1>7 DEF Final, WithStatus
  <2> HIDE DEF n, x
  <2>4. /\ n \in Clients /\ n.count = c.count /\ n.inbound = c.inbound
        /\ n.revision = m.seq /\ n.saved = c.saved /\ n.winner = c.winner
        /\ n.pendingCommands = c.pendingCommands /\ n.ending = c.ending
    BY <1>2, <2>1, <2>2 DEF Clients
  <2>5. QED
    BY <2>3, <2>4 DEF n
<1>8. QED
  BY <1>4, <1>5, <1>6, <1>7, MessageFacts

LEMMA HandleAtOnceStep ==
  ASSUME MatchInv, NEW s \in Seats, HandleAtOnce(s)
  PROVE  MatchInv' /\ Undisturbed
<1> DEFINE m == Head(down[s])
           c == IF m.type \in CarriesSnapshot THEN handled(s, client[s], m)
                ELSE noticed(s, client[s], m)
<1>1. /\ Shape /\ client[s] \in Clients /\ down[s] \in Seq(Messages)
      /\ client[s].revision \in Nat
  BY ShapeFacts, ClientFacts DEF MatchInv
<1>2. /\ down[s] # << >> /\ client[s].inbound = None
      /\ down' = [down EXCEPT ![s] = Tail(@)] /\ Update(s, c)
      /\ refused' = refused \union rejections(client[s], m)
      /\ UNCHANGED <<room, alarm, sockets, joining, up, applied>>
  BY DEF HandleAtOnce, incoming
<1>3. /\ m \in Messages /\ m \in Range(down[s]) /\ Tail(down[s]) \in Seq(Messages)
      /\ Range(Tail(down[s])) \subseteq Range(down[s])
  BY <1>1, <1>2, TailRange
<1>4. m \in Carried(s) /\ m.seq \in Nat
  BY <1>1, <1>3, CarriedByOf, MessageFacts
<1>5. /\ rejections(client[s], m) \subseteq Ids
      /\ \A id \in rejections(client[s], m) : m.type = "error" /\ m.id = id
  BY RejectionsAreIds
<1>6. /\ c \in Clients /\ c.count = client[s].count /\ c.inbound = None
      /\ c.revision \in {client[s].revision, m.seq}
      /\ c.saved \in {client[s].saved, m.seq}
      /\ client[s].ending => c.ending
      /\ Final(m) /\ client[s].revision <= m.seq => c.ending
      /\ Range(c.pendingCommands) \subseteq Range(client[s].pendingCommands)
      /\ c.winner # "none" => TrueWinner(c.winner)
  <2>1. CASE m.type \in CarriesSnapshot
    <3> DEFINE h == handled(s, client[s], m)
    <3>1. Applied(client[s], m, h) /\ NewWinner(s, client[s], m, h.winner) /\ c = h
      BY <1>1, <1>3, <2>1, HandledFacts
    <3> HIDE DEF h, c, m
    <3>2. c.winner # "none" => TrueWinner(c.winner)
      BY <1>4, <3>1, NewWinnerIsTrue
    <3>3. QED
      BY <1>1, <1>2, <1>4, <3>1, <3>2 DEF Applied
  <2>2. CASE m.type \notin CarriesSnapshot
    <3>1. /\ c \in Clients /\ c.count = client[s].count
          /\ c.inbound = client[s].inbound
          /\ c.revision = m.seq /\ c.saved = client[s].saved
          /\ c.pendingCommands = client[s].pendingCommands
          /\ client[s].ending => c.ending
          /\ Final(m) => c.ending
          /\ c.winner = client[s].winner \/ (m.type = "opponentResigned" /\ c.winner = s)
      BY <1>1, <1>3, <2>2, NoticedFacts
    <3> HIDE DEF c, m
    <3>2. c.winner # "none" => TrueWinner(c.winner)
      BY <1>4, <3>1 DEF MatchInv, SeatsFit, SeatFits, TrueNews
    <3>3. QED
      BY <1>2, <3>1, <3>2
  <2>3. QED
    BY <2>1, <2>2
<1> HIDE DEF m, c
<1>7. /\ client'[s] = c /\ client' \in [Seats -> Clients]
      /\ \A t \in Seats : t # s => client'[t] = client[t]
  BY <1>1, <1>2, <1>6, UpdateFacts
<1>8. /\ down' \in [Seats -> Seq(Messages)] /\ down'[s] = Tail(down[s])
      /\ \A t \in Seats : t # s => down'[t] = down[t]
  BY <1>1, <1>2, <1>3 DEF Shape
<1>9. Shape' /\ SameMatch
  BY <1>1, <1>2, <1>5, <1>7, <1>8 DEF Shape, SameMatch
<1>10. \A t \in Seats : t # s => QuietSeat(t)
  BY <1>1, <1>2, <1>7, <1>8, StillSeat
<1>11. Carried(s)' \subseteq Carried(s) /\ CommandsOf(s)' \subseteq CommandsOf(s)
  BY <1>2, <1>3, <1>6, <1>7, <1>8 DEF Carried, CommandsOf
<1>12. SeatFits(s)'
  BY <1>4, <1>6, <1>7, <1>9, <1>11, HandledSeatFits
<1>13. ASSUME Late' PROVE KnowsTheEnd(s)'
  <2>1. Late /\ KnowsTheEnd(s) /\ room # None /\ room' = room
    BY <1>2, <1>13 DEF Late, MatchInv, LateAnswers
  <2>2. /\ room.seq \in Nat /\ client[s].revision <= room.seq /\ SeatFits(s)
    BY <1>1, <2>1, ShapeFacts, RoomFacts DEF MatchInv, SeatsFit, SeatFits, Past
  <2>3. Informed(s) \/ Final(m) => client'[s].ending
    <3>1. CASE Informed(s)
      BY <1>2, <1>6, <1>7, <3>1 DEF Informed
    <3>2. CASE Final(m)
      <4>1. m.seq = room.seq
        BY <1>4, <2>1, <3>2 DEF KnowsTheEnd
      <4>2. QED
        BY <1>6, <1>7, <2>2, <3>2, <4>1
    <3>3. QED
      BY <3>1, <3>2
  <2>4. ASSUME ~Informed(s), ~Final(m)
        PROVE  /\ client'[s].revision # room.seq /\ client'[s].saved # room.seq
               /\ \A i \in DOMAIN down'[s] : down'[s][i].seq = room'.seq => FinalBefore(s, i)'
               /\ sockets'[s] = "open" => FinalBefore(s, Len(down[s]))'
    <3>1. /\ m.seq < room.seq
          /\ \A i \in DOMAIN down'[s] : down'[s][i].seq = room'.seq => FinalBefore(s, i)'
          /\ sockets'[s] = "open" => FinalBefore(s, Len(down[s]))'
      BY <1>1, <1>2, <2>1, <2>2, <2>4, TakeMessage DEF m
    <3>2. client[s].revision # room.seq /\ client[s].saved # room.seq
      BY <2>1, <2>4 DEF KnowsTheEnd, Informed
    <3>3. m.seq # room.seq
      BY <1>4, <2>2, <3>1
    <3>4. QED
      BY <1>6, <1>7, <3>1, <3>2, <3>3
  <2>5. client'[s].revision = room'.seq \/ client'[s].saved = room'.seq
          => client'[s].ending
    BY <2>1, <2>3, <2>4
  <2>6. client'[s].inbound = None
    BY <1>6, <1>7
  <2>7. ~Informed(s)' => ~Informed(s) /\ ~Final(m)
    BY <2>3 DEF Informed
  <2>8. /\ \A d \in CommandsOf(s)' : d.expectedSeq < room'.seq
        /\ \A n \in Carried(s)' : Final(n) => n.seq = room'.seq
    BY <1>11, <2>1 DEF KnowsTheEnd
  <2>9. QED
    BY <2>4, <2>5, <2>6, <2>7, <2>8 DEF KnowsTheEnd
<1>14. ~Dormant(s)
  BY <1>2 DEF Dormant
<1>15. Undisturbed
  <2>1. client[s].count <= client'[s].count
    BY <1>1, <1>6, <1>7, ClientFacts
  <2>2. QED
    BY <1>1, <1>2, <1>4, <1>5, <1>9, <1>10, <1>11, <2>1, OthersUndisturbed
<1>16. QED
  BY <1>9, <1>10, <1>12, <1>13, <1>14, <1>15, SeatStep

-----------------------------------------------------------------------------
(* The room moves on.                                                      *)

(* What has been known of the room stays so. *)
Onward ==
    /\ \A n \in Nat : Past(n) => Past(n)'
    /\ Over => Over'
    /\ \A w \in Winners : TrueWinner(w) => TrueWinner(w)'

LEMMA OnwardRoom ==
  ASSUME Shape, Shape', Started' = Started, room # None, room' # None,
         room.seq <= room'.seq,
         room.status = "ended" =>
           room'.status = "ended" /\ room'.winnerSeat = room.winnerSeat
  PROVE  Onward
<1>1. Started' = Started
  OBVIOUS
<1>2. room.seq \in Nat /\ room'.seq \in Nat
  BY RoomFacts DEF Shape
<1>3. \A n \in Nat : Past(n) => Past(n)'
  BY <1>1, <1>2 DEF Past
<1>4. Over => Over'
  BY <1>1 DEF Over
<1>5. \A w \in Winners : TrueWinner(w) => TrueWinner(w)'
  BY <1>1 DEF TrueWinner, Over
<1>6. QED
  BY <1>3, <1>4, <1>5 DEF Onward

LEMMA OnwardGone ==
  ASSUME joining' = joining, room' = None
  PROVE  Onward
<1>1. Started' = Started
  BY DEF Started
<1>2. QED
  BY <1>1 DEF Onward, Past, Over, TrueWinner

LEMMA SeatsAreWinners == Seats \subseteq Winners
  BY DEF Winners

LEMMA NewsStays ==
  ASSUME Onward, applied \subseteq applied', NEW s \in Seats, NEW m \in Messages,
         TrueNews(s, m)
  PROVE  TrueNews(s, m)'
<1>1. Past(m.seq)'
  BY MessageFacts DEF Onward, TrueNews
<1>2. Final(m) => Over'
  BY DEF Onward, TrueNews
<1>3. m.type = "opponentResigned" => TrueWinner(s)'
  BY SeatsAreWinners DEF Onward, TrueNews
<1>4. m.type = "welcome" /\ m.status = "ended" /\ m.endReason = "resign"
        => TrueWinner(m.winnerSeat)'
  BY MessageFacts DEF Onward, TrueNews
<1>5. m.type = "state" /\ m.id # None => m.id \in applied'
  BY DEF TrueNews
<1>6. QED
  BY <1>1, <1>2, <1>3, <1>4, <1>5 DEF TrueNews

(* A client that has nothing to do with what the room does. *)
Bystander(s) ==
    /\ client'[s].revision = client[s].revision
    /\ client'[s].saved = client[s].saved
    /\ client'[s].winner = client[s].winner
    /\ client'[s].count = client[s].count
    /\ client'[s].inbound = client[s].inbound
    /\ client[s].ending => client'[s].ending
    /\ client'[s].pendingCommands = client[s].pendingCommands
    /\ Range(up'[s]) \subseteq Range(up[s])

LEMMA BystanderHas ==
  ASSUME NEW s \in Seats, Bystander(s)
  PROVE  CommandsOf(s)' \subseteq CommandsOf(s)
  BY DEF Bystander, CommandsOf

(* What the room does is told truly. *)
LEMMA ToldSeatFits ==
  ASSUME Shape, Shape', NEW s \in Seats, SeatFits(s), Onward, Bystander(s),
         applied \subseteq applied',
         \A id \in applied' \ applied : id.seat = s => id.n <= client[s].count,
         \A c \in CommandsOf(s) :
           c.type = "resign" /\ c.id \in applied' \ applied => TrueWinner(opposite(s))',
         \A m \in Range(down'[s]) : m \in Range(down[s]) \/ TrueNews(s, m)'
  PROVE  SeatFits(s)'
<1>1. CommandsOf(s)' \subseteq CommandsOf(s)
  BY BystanderHas
<1>2. Carried(s) \subseteq Messages /\ client[s] \in Clients
  BY ShapeFacts
<1>3. \A m \in Carried(s) : TrueNews(s, m)'
  BY <1>2, NewsStays DEF SeatFits
<1>4. \A m \in Carried(s)' : TrueNews(s, m)'
  BY <1>3 DEF Carried, Bystander
<1>5. \A c \in CommandsOf(s)' : TrueCommand(s, c)'
  <2> SUFFICES ASSUME NEW c \in CommandsOf(s) PROVE TrueCommand(s, c)'
    BY <1>1
  <2>1. c \in Commands /\ TrueCommand(s, c)
    BY ShapeFacts DEF SeatFits
  <2>2. Past(c.expectedSeq)'
    BY <2>1, CommandFacts DEF TrueCommand, Onward
  <2>3. c.id.seat = s /\ c.id.n <= client'[s].count
    BY <2>1 DEF TrueCommand, Bystander
  <2>4. ASSUME c.type = "resign", c.id \in applied' PROVE TrueWinner(opposite(s))'
    <3>1. CASE c.id \in applied
      BY <2>1, <2>4, <3>1, Opposites, SeatsAreWinners DEF TrueCommand, Onward
    <3>2. CASE c.id \notin applied
      BY <2>4, <3>2
    <3>3. QED
      BY <3>1, <3>2
  <2>5. QED
    BY <2>2, <2>3, <2>4 DEF TrueCommand
<1>6. \A c, d \in CommandsOf(s)' : c.id = d.id => c = d
  BY <1>1 DEF SeatFits
<1>7. \A id \in applied' : id.seat = s => id.n <= client'[s].count
  BY DEF SeatFits, Bystander
<1>8. Past(client[s].revision)' /\ Past(client[s].saved)'
  <2>1. PICK n \in Nat : n = client[s].revision
    BY <1>2, ClientFacts
  <2>2. PICK k \in Nat : k = client[s].saved
    BY <1>2, ClientFacts
  <2>3. Past(n)' /\ Past(k)'
    BY <2>1, <2>2 DEF SeatFits, Onward
  <2>4. client'[s].revision = n /\ client'[s].saved = k
    BY <2>1, <2>2 DEF Bystander
  <2>5. QED
    BY <2>3, <2>4 DEF Past
<1>9. client'[s].winner # "none" => TrueWinner(client[s].winner)'
  <2>1. PICK w \in Winners : w = client[s].winner
    BY <1>2, ClientFacts
  <2>2. w # "none" => TrueWinner(w)'
    BY <2>1 DEF SeatFits, Onward
  <2>3. client'[s].winner = w
    BY <2>1 DEF Bystander
  <2>4. QED
    BY <2>2, <2>3 DEF TrueWinner
<1>10. QED
  BY <1>4, <1>5, <1>6, <1>7, <1>8, <1>9 DEF SeatFits

(* A seat that the room sends m to, if its socket is open. *)
Hears(s, m) ==
    down'[s] = IF sockets[s] = "open" THEN Append(down[s], m) ELSE down[s]

LEMMA HearsRange ==
  ASSUME Shape, NEW s \in Seats, NEW m \in Messages, Hears(s, m), TrueNews(s, m)'
  PROVE  \A n \in Range(down'[s]) : n \in Range(down[s]) \/ TrueNews(s, n)'
<1>1. down[s] \in Seq(Messages)
  BY DEF Shape
<1>2. CASE sockets[s] = "open"
  BY <1>1, <1>2, AppendRange DEF Hears
<1>3. CASE sockets[s] # "open"
  BY <1>3 DEF Hears
<1>4. QED
  BY <1>2, <1>3

LEMMA AppendFacts ==
  ASSUME NEW S, NEW q \in Seq(S), NEW e \in S
  PROVE  /\ Append(q, e) \in Seq(S) /\ Len(Append(q, e)) = Len(q) + 1
         /\ Len(q) \in Nat /\ DOMAIN q = 1..Len(q)
         /\ DOMAIN Append(q, e) = 1..(Len(q) + 1)
         /\ Append(q, e)[Len(q) + 1] = e
         /\ \A i \in 1..Len(q) : Append(q, e)[i] = q[i]
  OBVIOUS

(* In a room that stays as it is after its end, more messages do no harm.  *)
LEMMA HearsLate ==
  ASSUME MatchInv, Shape', NEW s \in Seats, Late, room' # None,
         room'.seq = room.seq, Bystander(s),
         \/ down'[s] = down[s] /\ (sockets'[s] = "open" => sockets[s] = "open")
         \/ \E m \in Messages :
              /\ down'[s] = Append(down[s], m)
              /\ Final(m) => m.seq = room.seq
              /\ Final(m) \/ sockets[s] = "open"
  PROVE  KnowsTheEnd(s)'
<1>1. KnowsTheEnd(s) /\ down[s] \in Seq(Messages)
  BY DEF MatchInv, LateAnswers, Shape
<1>2. \A c \in CommandsOf(s)' : c.expectedSeq < room'.seq
  BY <1>1, BystanderHas DEF KnowsTheEnd
<1>3. client'[s].revision = room'.seq \/ client'[s].saved = room'.seq
        => client'[s].ending
  BY <1>1 DEF KnowsTheEnd, Bystander
<1>4. ~Informed(s)' =>
        /\ ~Informed(s)
        /\ client'[s].inbound # None => client'[s].inbound.seq < room'.seq
  BY <1>1 DEF KnowsTheEnd, Bystander, Informed
<1>5. CASE down'[s] = down[s] /\ (sockets'[s] = "open" => sockets[s] = "open")
  <2>1. \A m \in Carried(s)' : Final(m) => m.seq = room'.seq
    BY <1>1, <1>5 DEF KnowsTheEnd, Bystander, Carried
  <2>2. ~Informed(s)' =>
          /\ \A i \in DOMAIN down'[s] : down'[s][i].seq = room'.seq => FinalBefore(s, i)'
          /\ sockets'[s] = "open" => FinalBefore(s, Len(down[s]))'
    BY <1>1, <1>4, <1>5 DEF KnowsTheEnd, FinalBefore
  <2>3. QED
    BY <1>2, <1>3, <1>4, <2>1, <2>2 DEF KnowsTheEnd
<1>6. ASSUME NEW m \in Messages, down'[s] = Append(down[s], m),
             Final(m) => m.seq = room.seq, Final(m) \/ sockets[s] = "open"
      PROVE  KnowsTheEnd(s)'
  <2>1. PICK n \in Nat : n = Len(down[s])
    BY <1>1
  <2>2. /\ DOMAIN down[s] = 1..n /\ DOMAIN down'[s] = 1..(n + 1)
        /\ Len(down'[s]) = n + 1 /\ down'[s][n + 1] = m
        /\ \A i \in 1..n : down'[s][i] = down[s][i]
    BY <1>1, <1>6, <2>1, AppendFacts
  <2>3. \A e \in Carried(s)' : Final(e) => e.seq = room'.seq
    <3>1. Range(down'[s]) = Range(down[s]) \union {m}
      BY <1>1, <1>6, AppendRange
    <3>2. QED
      BY <1>1, <1>6, <3>1 DEF KnowsTheEnd, Bystander, Carried
  <2>4. ASSUME ~Informed(s)' PROVE FinalBefore(s, n + 1)'
    <3>1. CASE Final(m)
      BY <2>1, <2>2, <3>1 DEF FinalBefore
    <3>2. CASE sockets[s] = "open"
      <4>1. PICK k \in 1..n : Final(down[s][k])
        BY <1>1, <1>4, <2>1, <2>4, <3>2 DEF KnowsTheEnd, FinalBefore
      <4>2. k \in 1..(n + 1) /\ Final(down'[s][k])
        BY <2>1, <2>2, <4>1
      <4>3. QED
        BY <4>2 DEF FinalBefore
    <3>3. QED
      BY <1>6, <3>1, <3>2
  <2>5. ASSUME ~Informed(s)', NEW i \in DOMAIN down'[s], down'[s][i].seq = room'.seq
        PROVE  FinalBefore(s, i)'
    <3>1. CASE i = n + 1
      BY <2>4, <2>5, <3>1
    <3>2. CASE i # n + 1
      <4>1. i \in 1..n /\ i \in DOMAIN down[s]
        BY <2>1, <2>2, <3>2
      <4>2. FinalBefore(s, i)
        BY <1>1, <1>4, <2>2, <2>5, <4>1 DEF KnowsTheEnd
      <4>3. PICK k \in 1..i : Final(down[s][k])
        BY <4>2 DEF FinalBefore
      <4>4. Final(down'[s][k])
        BY <2>1, <2>2, <4>1, <4>3
      <4>5. QED
        BY <4>3, <4>4 DEF FinalBefore
    <3>3. QED
      BY <3>1, <3>2
  <2>6. ~Informed(s)' => FinalBefore(s, Len(down[s]))'
    BY <2>2, <2>4 DEF FinalBefore
  <2>7. QED
    BY <1>2, <1>3, <1>4, <2>3, <2>5, <2>6 DEF KnowsTheEnd
<1>7. QED
  BY <1>5, <1>6

LEMMA SentFacts ==
  ASSUME NEW q \in [Seats -> Seq(Messages)], NEW m \in Messages, NEW seats
  PROVE  /\ Sent(q, m, seats) \in [Seats -> Seq(Messages)]
         /\ \A s \in Seats : Sent(q, m, seats)[s] =
              IF s \in seats /\ sockets[s] = "open" THEN Append(q[s], m) ELSE q[s]
<1>1. \A s \in Seats : Append(q[s], m) \in Seq(Messages) /\ q[s] \in Seq(Messages)
  OBVIOUS
<1>2. QED
  BY <1>1 DEF Sent

(* What the invariant says of the room itself. *)
LEMMA RoomKnown ==
  ASSUME MatchInv, room # None
  PROVE  /\ room \in RoomStates /\ Past(room.seq)
         /\ room.status = "ended" => Over /\ TrueWinner(room.winnerSeat)
         /\ room.status # "waiting" \/ room.pendingControl # None => Started
         /\ room.status = "waiting" => ~Started
         /\ room.pendingControl # None =>
              room.pendingControl \in Requests /\ alarm = "control"
<1>1. room \in RoomStates /\ room.seq \in Nat /\ room.pendingControl \in Pendings
  BY RoomFacts DEF MatchInv, Shape
<1>2. ~Started => \E creator \in Seats : FreshRoom(room, creator)
  BY DEF MatchInv, BeforeTheStart
<1>3. ~Started => room.seq = 0 /\ room.status = "waiting" /\ room.pendingControl = None
  BY <1>2 DEF FreshRoom
<1>4. Past(room.seq)
  BY <1>1, <1>3 DEF Past
<1>5. room.status = "ended" => Over /\ TrueWinner(room.winnerSeat)
  BY <1>3 DEF Over, TrueWinner
<1>6. QED
  BY <1>1, <1>3, <1>4, <1>5 DEF Pendings, MatchInv, RoomFits

LEMMA ConnectionNews ==
  ASSUME MatchInv, room # None, NEW connected \in BOOLEAN
  PROVE  LET m == [type |-> "opponentConnection", connected |-> connected,
                   seq |-> room.seq]
         IN  m \in Messages /\ ~Final(m) /\ \A s \in Seats : TrueNews(s, m)
<1>1. room.seq \in Nat /\ Past(room.seq)
  BY RoomKnown, RoomFacts
<1>2. QED
  BY <1>1 DEF Messages, Final, WithStatus, TrueNews

LEMMA SameOnward ==
  ASSUME Shape, Shape', SameMatch
  PROVE  Onward
<1>1. CASE room # None
  <2>1. room.seq <= room'.seq
    BY <1>1, SameMatchFacts, RoomFacts DEF Shape
  <2>2. QED
    BY <1>1, <2>1, SameMatchFacts, OnwardRoom
<1>2. CASE room = None
  BY <1>2, SameMatchFacts, OnwardGone DEF SameMatch
<1>3. QED
  BY <1>1, <1>2

LEMMA ConnectStep ==
  ASSUME MatchInv, NEW s \in Seats, Connect(s)
  PROVE  MatchInv'
<1> DEFINE c == [client[s] EXCEPT !.isConnected = TRUE, !.stage = "welcome"]
           t == opposite(s)
<1>w. PICK w : w = welcome(room', s)
  OBVIOUS
<1>n. PICK n : n = [type |-> "opponentConnection", connected |-> TRUE, seq |-> room.seq]
  OBVIOUS
<1>f. PICK first : first = [down EXCEPT ![s] = Append(@, w)]
  OBVIOUS
<1>1. /\ Shape /\ client[s] \in Clients /\ down \in [Seats -> Seq(Messages)]
      /\ client[s].count \in Nat
  BY ShapeFacts, ClientFacts DEF MatchInv, Shape
<1>2. /\ room # None /\ client[s].stage = "connect"
      /\ room' = [room EXCEPT !.tickets = @ \ {s}]
      /\ sockets' = [sockets EXCEPT ![s] = "open"]
      /\ down' = Sent(first, n, Others(s))
      /\ Update(s, c) /\ up' = [up EXCEPT ![s] = << >>]
      /\ UNCHANGED <<alarm, joining, applied, refused, overdue>>
  BY <1>w, <1>n, <1>f DEF Connect, attempting, acceptSocket, valid_ticket, historyVars
<1>3. SameMatch
  <2>1. room.tickets \ {s} \in SUBSET Seats
    BY <1>2, RoomKnown, RoomFacts
  <2>2. QED
    BY <1>2, <2>1 DEF SameMatch
<1>4. room \in RoomStates /\ room' \in RoomStates /\ room' # None
      /\ room'.seq = room.seq
  BY <1>1, <1>2, <1>3, SameMatchFacts, RoomKnown
<1>5. t \in Seats /\ t # s /\ \A u \in Seats : u = s \/ u = t
  BY Opposites
<1>6. w \in Messages
  BY <1>w, <1>4, RoomFacts DEF welcome, Messages, isSeatConnected
<1>7. /\ w.type = "welcome" /\ w.seq = room.seq /\ w.status = room.status
      /\ w.endReason = room.endReason /\ w.winnerSeat = room.winnerSeat
  BY <1>1, <1>2, <1>3, SameMatchFacts, <1>w DEF welcome
<1>8. n \in Messages /\ ~Final(n) /\ \A u \in Seats : TrueNews(u, n)
  BY <1>2, <1>n, ConnectionNews
<1>9. first \in [Seats -> Seq(Messages)] /\ first[s] = Append(down[s], w)
      /\ first[t] = down[t]
  <2>1. Append(down[s], w) \in Seq(Messages)
    BY <1>1, <1>6
  <2>2. QED
    BY <1>1, <1>5, <1>f, <2>1
<1> HIDE DEF t
<1>10. /\ down' \in [Seats -> Seq(Messages)] /\ down'[s] = Append(down[s], w)
       /\ Hears(t, n)
  <2>1. /\ Sent(first, n, Others(s)) \in [Seats -> Seq(Messages)]
        /\ \A u \in Seats : Sent(first, n, Others(s))[u] =
             IF u \in Others(s) /\ sockets[u] = "open"
             THEN Append(first[u], n) ELSE first[u]
    BY <1>8, <1>9, SentFacts
  <2>2. t \in Others(s) /\ s \notin Others(s)
    BY <1>5 DEF Others
  <2>3. QED
    BY <1>2, <1>5, <1>9, <2>1, <2>2 DEF Hears
<1>11. /\ c \in Clients /\ c.revision = client[s].revision
       /\ c.saved = client[s].saved /\ c.winner = client[s].winner
       /\ c.count = client[s].count /\ c.inbound = client[s].inbound
       /\ c.ending = client[s].ending /\ c.pendingCommands = client[s].pendingCommands
  BY <1>1 DEF Clients
<1> HIDE DEF c
<1>12. client'[s] = c /\ client' \in [Seats -> Clients] /\ client'[t] = client[t]
  BY <1>1, <1>2, <1>5, <1>11, UpdateFacts
<1>13. /\ up' \in [Seats -> Seq(Commands)] /\ up'[s] = << >> /\ up'[t] = up[t]
       /\ sockets' \in [Seats -> {"closed", "open", "deaf"}]
       /\ sockets'[s] = "open" /\ sockets'[t] = sockets[t]
  BY <1>1, <1>2, <1>5 DEF Shape
<1>14. Shape'
  BY <1>1, <1>2, <1>4, <1>10, <1>12, <1>13 DEF Shape
<1>15. Bystander(s) /\ Bystander(t)
  BY <1>11, <1>12, <1>13, EmptyRange DEF Bystander
<1>16. Onward /\ (Late' => Late)
  BY <1>1, <1>3, <1>14, SameOnward, SamePast
<1>17. RoomFits' /\ BeforeTheStart'
  <2>1. ~Dormant(s)
    BY <1>2 DEF Dormant
  <2>2. Dormant(t) => Dormant(t)'
    BY <1>10, <1>12, <1>13 DEF Dormant, Hears
  <2>3. QED
    BY <1>1, <1>3, <1>5, <2>1, <2>2, SameRoomFits, StillBefore DEF MatchInv
<1>18. SeatsFit'
  <2>1. TrueNews(s, w)' /\ TrueNews(t, n)'
    <3>1. TrueNews(s, w)
      BY <1>2, <1>7, RoomKnown DEF TrueNews, Final
    <3>2. QED
      BY <1>2, <1>5, <1>6, <1>8, <1>16, <3>1, NewsStays
  <2>2. \A m \in Range(down'[s]) : m \in Range(down[s]) \/ TrueNews(s, m)'
    BY <1>1, <1>6, <1>10, <2>1, AppendRange
  <2>3. \A m \in Range(down'[t]) : m \in Range(down[t]) \/ TrueNews(t, m)'
    BY <1>1, <1>5, <1>8, <1>10, <2>1, HearsRange
  <2>4. SeatFits(s)'
    BY <1>1, <1>2, <1>14, <1>15, <1>16, <2>2, ToldSeatFits DEF MatchInv, SeatsFit
  <2>5. SeatFits(t)'
    BY <1>1, <1>2, <1>5, <1>14, <1>15, <1>16, <2>3, ToldSeatFits DEF MatchInv, SeatsFit
  <2>6. QED
    BY <1>5, <2>4, <2>5 DEF SeatsFit
<1>19. LateAnswers'
  <2> SUFFICES ASSUME Late' PROVE KnowsTheEnd(s)' /\ KnowsTheEnd(t)'
    BY <1>5 DEF LateAnswers
  <2>1. Late
    BY <1>16
  <2>2. KnowsTheEnd(s)'
    <3>1. Final(w)
      BY <1>7, <2>1 DEF Final, WithStatus, Late
    <3>2. QED
      BY <1>4, <1>6, <1>7, <1>10, <1>14, <1>15, <2>1, <3>1, HearsLate
  <2>3. KnowsTheEnd(t)'
    <3>1. CASE sockets[t] = "open"
      BY <1>4, <1>5, <1>8, <1>10, <1>14, <1>15, <2>1, <3>1, HearsLate DEF Hears
    <3>2. CASE sockets[t] # "open"
      BY <1>4, <1>5, <1>10, <1>13, <1>14, <1>15, <2>1, <3>2, HearsLate DEF Hears
    <3>3. QED
      BY <3>1, <3>2
  <2>4. QED
    BY <2>2, <2>3
<1>20. QED
  BY <1>14, <1>17, <1>18, <1>19 DEF MatchInv

LEMMA RoomReadsCloseStep ==
  ASSUME MatchInv, NEW s \in Seats, RoomReadsClose(s)
  PROVE  MatchInv'
<1> DEFINE t == opposite(s)
<1>n. PICK n : n = [type |-> "opponentConnection", connected |-> FALSE, seq |-> room.seq]
  OBVIOUS
<1>1. Shape /\ down \in [Seats -> Seq(Messages)]
  BY DEF MatchInv, Shape
<1>2. /\ sockets' = [sockets EXCEPT ![s] = "closed"]
      /\ down' = IF room = None \/ room.status = "ended" THEN down
                 ELSE Sent(down, n, Others(s))
      /\ up' = [up EXCEPT ![s] = << >>]
      /\ UNCHANGED <<room, alarm, joining, client, applied, refused, overdue>>
  BY <1>n DEF RoomReadsClose, webSocketClose, historyVars
<1>3. SameMatch
  BY <1>2 DEF SameMatch
<1>4. t \in Seats /\ t # s /\ \A u \in Seats : u = s \/ u = t
  BY Opposites
<1>5. room # None => n \in Messages /\ ~Final(n) /\ \A u \in Seats : TrueNews(u, n)
  BY <1>n, ConnectionNews
<1> HIDE DEF t
<1>6. /\ down' \in [Seats -> Seq(Messages)] /\ down'[s] = down[s]
      /\ down'[t] = down[t] \/ (room # None /\ room.status # "ended" /\ Hears(t, n))
  <2>1. CASE room = None \/ room.status = "ended"
    BY <1>1, <1>2, <2>1
  <2>2. CASE ~(room = None \/ room.status = "ended")
    <3>1. /\ Sent(down, n, Others(s)) \in [Seats -> Seq(Messages)]
          /\ \A u \in Seats : Sent(down, n, Others(s))[u] =
               IF u \in Others(s) /\ sockets[u] = "open"
               THEN Append(down[u], n) ELSE down[u]
      BY <1>1, <1>5, <2>2, SentFacts
    <3>2. t \in Others(s) /\ s \notin Others(s)
      BY <1>4 DEF Others
    <3>3. QED
      BY <1>2, <1>4, <2>2, <3>1, <3>2 DEF Hears
  <2>3. QED
    BY <2>1, <2>2
<1>7. /\ up' \in [Seats -> Seq(Commands)] /\ up'[s] = << >> /\ up'[t] = up[t]
      /\ sockets' \in [Seats -> {"closed", "open", "deaf"}]
      /\ sockets'[s] = "closed" /\ sockets'[t] = sockets[t]
  BY <1>1, <1>2, <1>4 DEF Shape
<1>8. Shape'
  BY <1>1, <1>2, <1>6, <1>7 DEF Shape
<1>9. Bystander(s) /\ Bystander(t)
  BY <1>2, <1>7, EmptyRange DEF Bystander
<1>10. Onward /\ (Late' => Late)
  BY <1>1, <1>3, <1>8, SameOnward, SamePast
<1>11. RoomFits' /\ BeforeTheStart'
  <2>1. Dormant(s) => Dormant(s)'
    BY <1>2, <1>6, <1>7 DEF Dormant
  <2>2. Dormant(t) => Dormant(t)'
    BY <1>2, <1>6, <1>7 DEF Dormant, Hears
  <2>3. QED
    BY <1>1, <1>3, <1>4, <2>1, <2>2, SameRoomFits, StillBefore DEF MatchInv
<1>12. SeatsFit'
  <2>1. \A m \in Range(down'[t]) : m \in Range(down[t]) \/ TrueNews(t, m)'
    <3>1. CASE down'[t] = down[t]
      BY <3>1
    <3>2. CASE room # None /\ Hears(t, n)
      BY <1>1, <1>2, <1>4, <1>5, <1>10, <3>2, NewsStays, HearsRange
    <3>3. QED
      BY <1>6, <3>1, <3>2
  <2>2. SeatFits(s)'
    BY <1>1, <1>2, <1>6, <1>8, <1>9, <1>10, ToldSeatFits DEF MatchInv, SeatsFit
  <2>3. SeatFits(t)'
    BY <1>1, <1>2, <1>4, <1>8, <1>9, <1>10, <2>1, ToldSeatFits DEF MatchInv, SeatsFit
  <2>4. QED
    BY <1>4, <2>2, <2>3 DEF SeatsFit
<1>13. LateAnswers'
  <2> SUFFICES ASSUME Late' PROVE KnowsTheEnd(s)' /\ KnowsTheEnd(t)'
    BY <1>4 DEF LateAnswers
  <2>1. Late /\ room' # None /\ room'.seq = room.seq /\ room.status = "ended"
    BY <1>2, <1>10 DEF Late
  <2>2. QED
    BY <1>4, <1>6, <1>7, <1>8, <1>9, <2>1, HearsLate
<1>14. QED
  BY <1>8, <1>11, <1>12, <1>13 DEF MatchInv

(* A join that has read the room, or is refused. *)
LEMMA StillRoom ==
  ASSUME MatchInv, Shape', Started' = Started, BeforeTheStart',
         UNCHANGED <<room, alarm, sockets, down, client, up, applied>>
  PROVE  MatchInv'
<1>1. Onward
  <2>1. \A n : Past(n)' <=> Past(n)
    BY DEF Past
  <2>2. (Over' <=> Over) /\ \A w : TrueWinner(w)' <=> TrueWinner(w)
    BY DEF Over, TrueWinner
  <2>3. QED
    BY <2>1, <2>2 DEF Onward
<1>2. RoomFits'
  BY DEF MatchInv, RoomFits
<1>3. \A s \in Seats : Bystander(s)
  BY DEF Bystander
<1>4. SeatsFit'
  BY <1>1, <1>3, ToldSeatFits DEF MatchInv, SeatsFit
<1>5. LateAnswers'
  <2> SUFFICES ASSUME Late', NEW s \in Seats PROVE KnowsTheEnd(s)'
    BY DEF LateAnswers
  <2>1. Late /\ room' # None /\ room'.seq = room.seq
    BY DEF Late
  <2>2. QED
    BY <1>3, <2>1, HearsLate
<1>6. QED
  BY <1>2, <1>4, <1>5 DEF MatchInv

LEMMA JoinStep ==
  ASSUME MatchInv, NEW j \in Joiners, Join(j)
  PROVE  MatchInv'
<1>1. Shape
  BY DEF MatchInv
<1>2. /\ joining[j].step = "idle" /\ room # None
      /\ joining' = [joining EXCEPT ![j] = [step |-> "reading", read |-> room]]
      /\ UNCHANGED <<room, alarm, sockets, down, client, up, applied, refused, overdue>>
  BY DEF Join, BeginJoin, historyVars
<1>3. Shape'
  <2>1. [step |-> "reading", read |-> room] \in Joins
    BY <1>1 DEF Shape, Joins
  <2>2. QED
    BY <1>1, <1>2, <2>1 DEF Shape
<1>4. Started' = Started
  BY <1>1, <1>2 DEF Started, Shape
<1>5. BeforeTheStart'
  BY <1>1, <1>2, <1>4 DEF MatchInv, BeforeTheStart, Dormant, Shape
<1>6. QED
  BY <1>2, <1>3, <1>4, <1>5, StillRoom

(* A message to both seats. *)
LEMMA SentToBoth ==
  ASSUME Shape, NEW m \in Messages, down' = Sent(down, m, Seats)
  PROVE  /\ down' \in [Seats -> Seq(Messages)]
         /\ \A s \in Seats : Hears(s, m)
<1>1. down \in [Seats -> Seq(Messages)]
  BY DEF Shape
<1>2. /\ Sent(down, m, Seats) \in [Seats -> Seq(Messages)]
      /\ \A s \in Seats : Sent(down, m, Seats)[s] =
           IF s \in Seats /\ sockets[s] = "open" THEN Append(down[s], m) ELSE down[s]
  BY <1>1, SentFacts
<1>3. QED
  BY <1>2 DEF Hears

LEMMA JoinedStep ==
  ASSUME MatchInv, NEW j \in Joiners, Joined(j), JoinsOnce'
  PROVE  MatchInv'
<1> DEFINE read == joining[j].read
<1>1. Shape /\ joining[j] \in Joins
  BY DEF MatchInv, Shape
<1>2. /\ joining[j].step = "reading"
      /\ UNCHANGED <<alarm, sockets, up, applied, refused, overdue>>
  BY DEF Joined, FinishJoin, historyVars
<1>3. CASE ~may_join(read)
  <2>1. /\ joining' = [joining EXCEPT ![j].step = "refused"]
        /\ UNCHANGED <<room, down>>
    BY <1>3 DEF Joined, FinishJoin
  <2>2. joining'[j].step # "seated"
    BY <1>1, <2>1 DEF Shape, Joins
  <2>3. client' = client
    BY <2>2 DEF Joined
  <2>4. [joining[j] EXCEPT !.step = "refused"] \in Joins
    BY <1>1 DEF Joins
  <2>5. Shape'
    BY <1>1, <1>2, <2>1, <2>3, <2>4 DEF Shape
  <2>6. Started' = Started
    BY <1>1, <1>2, <2>1, <2>2 DEF Started, Shape
  <2>7. BeforeTheStart'
    BY <1>1, <1>2, <2>1, <2>2, <2>3, <2>6
       DEF MatchInv, BeforeTheStart, Dormant, Shape, Joins
  <2>8. QED
    BY <1>2, <2>1, <2>3, <2>5, <2>6, <2>7, StillRoom
<1>4. CASE may_join(read)
  <2>1. /\ room' = [read EXCEPT !.joined = TRUE, !.status = "active", !.seq = @ + 1]
        /\ down' = Sent(down, stateEvent(room', "opponentJoined", None), Seats)
        /\ joining' = [joining EXCEPT ![j].step = "seated"]
    BY <1>4 DEF Joined, FinishJoin
  <2>2. joining'[j].step = "seated" /\ joining' \in [Joiners -> Joins]
    <3>1. [joining[j] EXCEPT !.step = "seated"] \in Joins
      BY <1>1 DEF Joins
    <3>2. QED
      BY <1>1, <2>1, <3>1 DEF Shape, Joins
  <2>3. ~Started
    <3> SUFFICES ASSUME NEW i \in Joiners, joining[i].step = "seated" PROVE FALSE
      BY DEF Started
    <3>1. i # j
      BY <1>2
    <3>2. joining'[i].step = "seated"
      BY <1>1, <2>1, <3>1 DEF Shape
    <3>3. QED
      BY <2>2, <3>1, <3>2 DEF JoinsOnce
  <2>4. Started'
    BY <2>2 DEF Started
  <2>5. PICK creator \in Seats :
          /\ room # None => FreshRoom(room, creator)
          /\ FreshRoom(read, creator)
          /\ Dormant(opposite(creator))
    BY <1>2, <2>3 DEF MatchInv, BeforeTheStart
  <2>6. applied = {}
    BY <2>3 DEF MatchInv, BeforeTheStart
  <2>7. PICK r : r = read
    OBVIOUS
  <2>8. /\ room' \in RoomStates /\ room' # None /\ room'.seq = 1
        /\ room'.status = "active" /\ room'.creatorSeat = creator
        /\ room'.pendingControl = None /\ room'.recentCommands = r.recentCommands
    <3>1. r \in RoomStates /\ r.seq = 0 /\ r.pendingControl = None
          /\ r.creatorSeat = creator
      BY <2>5, <2>7 DEF FreshRoom
    <3>2. room' = [r EXCEPT !.joined = TRUE, !.status = "active", !.seq = @ + 1]
      BY <2>1, <2>7
    <3> HIDE DEF read
    <3>3. r.seq + 1 = 1 /\ "active" \in Statuses
      BY <3>1 DEF Statuses
    <3>4. room' = [r EXCEPT !.joined = TRUE, !.status = "active", !.seq = 1]
      BY <3>2, <3>3
    <3>5. room' \in RoomStates
      BY <3>1, <3>3, <3>4 DEF RoomStates
    <3>6. QED
      BY <3>1, <3>4, <3>5, Somethings DEF RoomStates
  <2>9. PICK m : m = stateEvent(room', "opponentJoined", None)
    OBVIOUS
  <2>10. /\ m \in Messages /\ m.type = "opponentJoined" /\ m.seq = 1
         /\ m.status = "active"
    BY <2>8, <2>9, RoomFacts DEF stateEvent, Messages
  <2>11. /\ down' \in [Seats -> Seq(Messages)] /\ \A s \in Seats : Hears(s, m)
    BY <1>1, <2>1, <2>9, <2>10, SentToBoth
  <2>12. PICK o \in Seats : o = opposite(creator)
    BY Opposites
  <2>13. PICK c : c = [NewClient EXCEPT !.revision = room'.seq, !.saved = room'.seq,
                                        !.status = room'.status]
    OBVIOUS
  <2>14. Update(o, c)
    BY <2>2, <2>8, <2>12, <2>13 DEF Joined
  <2>15. /\ c \in Clients /\ c.revision = 1 /\ c.saved = 1 /\ c.winner = "none"
         /\ c.inbound = None /\ c.pendingCommands = << >>
    <3>1. c = [NewClient EXCEPT !.revision = 1, !.saved = 1, !.status = "active"]
          /\ "active" \in Statuses
      BY <2>8, <2>13 DEF Statuses
    <3>2. c \in Clients
      BY <3>1, NewClientFacts DEF Clients
    <3>3. QED
      BY <3>1, <3>2 DEF NewClient
  <2>16. /\ client' \in [Seats -> Clients] /\ client'[o] = c
         /\ client'[creator] = client[creator]
    BY <1>1, <2>12, <2>14, <2>15, Opposites, UpdateFacts
  <2> HIDE DEF read
  <2>17. Shape'
    BY <1>1, <1>2, <2>2, <2>8, <2>11, <2>16 DEF Shape
  <2>18. Onward
    <3>1. \A n \in Nat : Past(n) => Past(n)'
      BY <2>3, <2>4, <2>8 DEF Past
    <3>2. QED
      BY <2>3, <3>1 DEF Onward, Over, TrueWinner
  <2>19. SeatFits(creator)'
    <3>1. TrueNews(creator, m)'
      BY <2>4, <2>8, <2>10 DEF TrueNews, Past, Final
    <3>2. \A n \in Range(down'[creator]) :
            n \in Range(down[creator]) \/ TrueNews(creator, n)'
      BY <1>1, <2>10, <2>11, <3>1, HearsRange
    <3>3. Bystander(creator)
      BY <1>2, <2>16 DEF Bystander
    <3>4. QED
      BY <1>1, <1>2, <2>17, <2>18, <3>2, <3>3, ToldSeatFits DEF MatchInv, SeatsFit
  <2>20. SeatFits(o)'
    <3>1. down'[o] = << >> /\ up'[o] = << >>
      BY <1>2, <2>5, <2>11, <2>12 DEF Dormant, Hears
    <3>2. Carried(o)' = {} /\ CommandsOf(o)' = {}
      BY <2>15, <2>16, <3>1, EmptyRange DEF Carried, CommandsOf
    <3>3. Past(client[o].revision)' /\ Past(client[o].saved)'
      BY <2>4, <2>8, <2>15, <2>16 DEF Past
    <3>4. client'[o].winner = "none" /\ applied' = {}
      BY <1>2, <2>6, <2>15, <2>16
    <3>5. QED
      BY <3>2, <3>3, <3>4 DEF SeatFits
  <2>21. SeatsFit'
    BY <2>12, <2>19, <2>20, Opposites DEF SeatsFit
  <2>22. RoomFits'
    <3>1. alarm # "control"
      BY <2>5 DEF MatchInv, RoomFits, FreshRoom
    <3>2. /\ Len(r.recentCommands) <= MAX_RECENT_COMMANDS
          /\ \A item \in Range(r.recentCommands) : item.error # "none"
      BY <2>5, <2>7 DEF FreshRoom, read
    <3>3. QED
      BY <1>2, <2>8, <3>1, <3>2 DEF RoomFits
  <2>23. BeforeTheStart' /\ LateAnswers'
    BY <2>4, <2>8 DEF BeforeTheStart, LateAnswers, Late
  <2>24. QED
    BY <2>17, <2>21, <2>22, <2>23 DEF MatchInv
<1>5. QED
  BY <1>3, <1>4

LEMMA CancelStep ==
  ASSUME MatchInv, Cancel
  PROVE  MatchInv'
<1>1. Shape
  BY DEF MatchInv
<1>2. /\ room # None /\ room.status = "waiting" /\ room' = None
      /\ alarm' = "none" /\ sockets' = [s \in Seats |-> "closed"]
      /\ down' = [s \in Seats |-> << >>] /\ up' = [s \in Seats |-> << >>]
      /\ UNCHANGED <<joining, applied, refused, overdue>>
  BY DEF Cancel, cancel, historyVars
<1>3. ~Started /\ ~Started'
  BY <1>2, RoomKnown DEF Started
<1>4. PICK creator \in Seats :
        /\ FreshRoom(room, creator)
        /\ \A i \in Joiners :
             joining[i].step = "reading" => FreshRoom(joining[i].read, creator)
        /\ Dormant(opposite(creator))
  BY <1>2, <1>3 DEF MatchInv, BeforeTheStart
<1>5. PICK c : c = [client[creator] EXCEPT !.ending = TRUE, !.state = "ended",
                      !.isConnected = FALSE, !.stage = "none", !.looping = FALSE]
  OBVIOUS
<1>6. Update(creator, c)
  BY <1>4, <1>5 DEF Cancel, FreshRoom
<1>7. client[creator] \in Clients
  BY <1>1 DEF Shape
<1>8. /\ c \in Clients /\ c.revision = client[creator].revision
      /\ c.saved = client[creator].saved /\ c.winner = client[creator].winner
      /\ c.count = client[creator].count /\ c.inbound = client[creator].inbound
      /\ c.ending /\ c.pendingCommands = client[creator].pendingCommands
  BY <1>5, <1>7 DEF Clients, ConnectionStates
<1>9. /\ client' \in [Seats -> Clients] /\ client'[creator] = c
      /\ \A s \in Seats : s # creator => client'[s] = client[s]
  BY <1>1, <1>6, <1>8, UpdateFacts
<1>10. Shape'
  <2>1. down' \in [Seats -> Seq(Messages)] /\ up' \in [Seats -> Seq(Commands)]
    BY <1>2
  <2>2. QED
    BY <1>1, <1>2, <1>9, <2>1 DEF Shape
<1>11. \A s \in Seats : Bystander(s) /\ Range(down'[s]) = {}
  <2> SUFFICES ASSUME NEW s \in Seats PROVE Bystander(s) /\ Range(down'[s]) = {}
    OBVIOUS
  <2>1. down'[s] = << >> /\ up'[s] = << >>
    BY <1>2
  <2>2. CASE s = creator
    BY <1>8, <1>9, <2>1, <2>2, EmptyRange DEF Bystander
  <2>3. CASE s # creator
    BY <1>9, <2>1, <2>3, EmptyRange DEF Bystander
  <2>4. QED
    BY <2>2, <2>3
<1>12. Onward
  BY <1>2, OnwardGone
<1>13. SeatsFit'
  BY <1>1, <1>2, <1>10, <1>11, <1>12, ToldSeatFits DEF MatchInv, SeatsFit
<1>14. BeforeTheStart'
  <2>1. Dormant(opposite(creator))'
    BY <1>2, <1>4, <1>9, Opposites DEF Dormant
  <2>2. applied' = {}
    BY <1>2, <1>3 DEF MatchInv, BeforeTheStart
  <2>3. QED
    BY <1>2, <1>4, <2>1, <2>2 DEF BeforeTheStart
<1>15. RoomFits' /\ LateAnswers'
  BY <1>2 DEF RoomFits, LateAnswers, Late
<1>16. QED
  BY <1>10, <1>13, <1>14, <1>15 DEF MatchInv

LEMMA RoomAlarmStep ==
  ASSUME MatchInv, RoomAlarm
  PROVE  MatchInv'
<1>1. Shape /\ room # None
  BY DEF MatchInv, RoomAlarm, AlarmFires
<1>2. UNCHANGED <<joining, client, applied, refused, overdue>> /\ Started' = Started
  BY DEF RoomAlarm, AlarmFires, historyVars, Started
<1>3. CASE room.pendingControl # None
  <2>1. /\ room' = [room EXCEPT !.pendingControl = None, !.seq = @ + 1]
        /\ alarm' = "room" /\ sockets' = sockets
        /\ down' = Sent(down, controlResult(room', None, room.pendingControl.requestId),
                        Seats)
    BY <1>3 DEF RoomAlarm, AlarmFires
  <2>2. /\ room \in RoomStates /\ room.pendingControl \in Requests /\ Started
        /\ room.status = "ended" => Over
    BY <1>1, <1>3, RoomKnown
  <2>3. /\ room' \in RoomStates /\ room'.seq = room.seq + 1 /\ room.seq \in Nat
        /\ room'.status = room.status /\ room'.winnerSeat = room.winnerSeat
        /\ room'.pendingControl = None /\ room' # None
        /\ room'.recentCommands = room.recentCommands
    <3>1. room.seq \in Nat /\ room.seq + 1 \in Nat /\ None \in Pendings
      BY <2>2, RoomFacts DEF Pendings
    <3>2. room' \in RoomStates
      BY <2>1, <2>2, <3>1 DEF RoomStates
    <3>3. QED
      BY <2>1, <2>2, <3>1, <3>2, Somethings DEF RoomStates
  <2>4. up' = up
    BY <2>3 DEF RoomAlarm
  <2>5. PICK m : m = controlResult(room', None, room.pendingControl.requestId)
    OBVIOUS
  <2>6. m \in Messages /\ m.type = "controlResult" /\ m.seq = room'.seq
        /\ m.status = room'.status
    <3>1. room.pendingControl.requestId \in Ids
      BY <2>2 DEF Requests
    <3>2. QED
      BY <2>3, <2>5, <3>1, RoomFacts DEF controlResult, Messages
  <2>7. down' \in [Seats -> Seq(Messages)] /\ \A s \in Seats : Hears(s, m)
    BY <1>1, <2>1, <2>5, <2>6, SentToBoth
  <2>8. Shape'
    BY <1>1, <1>2, <2>1, <2>3, <2>4, <2>7 DEF Shape
  <2>9. Onward
    <3>1. room.seq <= room'.seq
      BY <2>3
    <3>2. QED
      BY <1>1, <1>2, <2>3, <2>8, <3>1, OnwardRoom
  <2>10. SeatsFit'
    <3> SUFFICES ASSUME NEW s \in Seats PROVE SeatFits(s)'
      BY DEF SeatsFit
    <3>1. TrueNews(s, m)'
      <4>1. m.seq <= room'.seq
        BY <2>3, <2>6
      <4>2. QED
        BY <1>2, <2>2, <2>3, <2>6, <4>1 DEF TrueNews, Past, Final, Over
    <3>2. \A n \in Range(down'[s]) : n \in Range(down[s]) \/ TrueNews(s, n)'
      BY <1>1, <2>6, <2>7, <3>1, HearsRange
    <3>3. Bystander(s)
      BY <1>2, <2>4 DEF Bystander
    <3>4. QED
      BY <1>1, <1>2, <2>8, <2>9, <3>2, <3>3, ToldSeatFits DEF MatchInv, SeatsFit
  <2>11. RoomFits'
    BY <1>1, <1>2, <2>1, <2>3 DEF MatchInv, RoomFits
  <2>12. BeforeTheStart' /\ LateAnswers'
    BY <1>2, <2>2, <2>3 DEF BeforeTheStart, LateAnswers, Late
  <2>13. QED
    BY <2>8, <2>10, <2>11, <2>12 DEF MatchInv
<1>4. CASE room.pendingControl = None
  <2>1. /\ room' = None /\ alarm' = "none" /\ down' = down
        /\ sockets' = [s \in Seats |-> "closed"] /\ quiet
        /\ up' = [s \in Seats |-> << >>]
    BY <1>4 DEF RoomAlarm, AlarmFires
  <2>2. Shape'
    <3>1. up' \in [Seats -> Seq(Commands)]
      BY <2>1
    <3>2. QED
      BY <1>1, <1>2, <2>1, <3>1 DEF Shape
  <2>3. Onward
    BY <1>2, <2>1, OnwardGone
  <2>4. \A s \in Seats : Bystander(s)
    BY <1>2, <2>1, EmptyRange DEF Bystander
  <2>5. SeatsFit'
    BY <1>1, <1>2, <2>1, <2>2, <2>3, <2>4, ToldSeatFits DEF MatchInv, SeatsFit
  <2>6. BeforeTheStart'
    BY <1>2, <2>1, Opposites DEF MatchInv, BeforeTheStart, Dormant
  <2>7. RoomFits' /\ LateAnswers'
    BY <2>1 DEF RoomFits, LateAnswers, Late
  <2>8. QED
    BY <2>2, <2>5, <2>6, <2>7 DEF MatchInv
<1>5. QED
  BY <1>3, <1>4

-----------------------------------------------------------------------------
(* The room takes a command.                                               *)

LEMMA RememberedFacts ==
  ASSUME NEW r \in RoomStates, NEW id \in Ids, NEW error \in Errors \union {"none"}
  PROVE  LET d == remembered(r, id, error) IN
         /\ d \in RoomStates /\ d # None
         /\ d.seq = r.seq /\ d.status = r.status /\ d.actions = r.actions
         /\ d.pendingControl = r.pendingControl /\ d.winnerSeat = r.winnerSeat
         /\ d.endReason = r.endReason /\ d.creatorSeat = r.creatorSeat
         /\ d.joined = r.joined
         /\ Len(d.recentCommands) <= MAX_RECENT_COMMANDS
         /\ \A item \in Range(d.recentCommands) :
              item \in Range(r.recentCommands) \/ item = [id |-> id, error |-> error]
<1> DEFINE item == [id |-> id, error |-> error]
           all == Append(r.recentCommands, item)
           excess == Len(all) - MAX_RECENT_COMMANDS
           kept == IF excess > 0 THEN SubSeq(all, excess + 1, Len(all)) ELSE all
           d == [r EXCEPT !.recentCommands = kept]
<1>1. remembered(r, id, error) = d
  BY DEF remembered
<1>2. item \in Items /\ r.recentCommands \in Seq(Items) /\ MAX_RECENT_COMMANDS \in Nat
  BY RoomFacts, RoomAssumption DEF Items
<1> HIDE DEF item
<1>3. all \in Seq(Items) /\ Len(all) \in Nat /\ excess \in Int
  BY <1>2
<1>4. Range(all) = Range(r.recentCommands) \union {item}
  BY <1>2, AppendRange
<1> HIDE DEF all
<1>5. /\ kept \in Seq(Items) /\ Len(kept) <= MAX_RECENT_COMMANDS
      /\ Range(kept) \subseteq Range(all)
  <2>1. CASE excess > 0
    <3>1. excess + 1 \in Nat \ {0} /\ excess \in Nat
      BY <1>3, <2>1
    <3>2. SubSeq(all, excess + 1, Len(all)) \in Seq(Items)
          /\ Range(SubSeq(all, excess + 1, Len(all))) \subseteq Range(all)
      BY <1>3, <3>1, SubSeqRange
    <3>3. Len(SubSeq(all, excess + 1, Len(all))) = MAX_RECENT_COMMANDS
      BY <1>2, <1>3, <2>1
    <3>4. QED
      BY <1>2, <2>1, <3>2, <3>3
  <2>2. CASE ~(excess > 0)
    BY <1>2, <1>3, <2>2
  <2>3. QED
    BY <2>1, <2>2
<1> HIDE DEF kept, excess
<1>6. d \in RoomStates
  BY <1>5 DEF RoomStates
<1>7. d # None
  BY <1>6, Somethings
<1>8. /\ d.seq = r.seq /\ d.status = r.status /\ d.actions = r.actions
      /\ d.pendingControl = r.pendingControl /\ d.winnerSeat = r.winnerSeat
      /\ d.endReason = r.endReason /\ d.creatorSeat = r.creatorSeat
      /\ d.joined = r.joined /\ d.recentCommands = kept
  BY DEF RoomStates
<1> HIDE DEF d
<1>9. QED
  BY <1>1, <1>4, <1>5, <1>6, <1>7, <1>8 DEF item

LEMMA CommittedFacts ==
  ASSUME NEW r \in RoomStates, NEW c \in Commands
  PROVE  LET d == committed(r, c) IN
         /\ d \in RoomStates /\ d # None
         /\ d.seq = r.seq + 1 /\ d.status = r.status /\ d.actions = r.actions
         /\ d.pendingControl = r.pendingControl /\ d.winnerSeat = r.winnerSeat
         /\ d.endReason = r.endReason
         /\ Len(d.recentCommands) <= MAX_RECENT_COMMANDS
         /\ \A item \in Range(d.recentCommands) :
              item \in Range(r.recentCommands) \/ item = [id |-> c.id, error |-> "none"]
<1> DEFINE e == [r EXCEPT !.seq = @ + 1]
<1>1. r.seq \in Nat /\ r.seq + 1 \in Nat
  BY RoomFacts
<1>2. /\ e \in RoomStates /\ e.seq = r.seq + 1 /\ e.status = r.status
      /\ e.actions = r.actions /\ e.pendingControl = r.pendingControl
      /\ e.winnerSeat = r.winnerSeat /\ e.endReason = r.endReason
      /\ e.recentCommands = r.recentCommands
  BY <1>1 DEF RoomStates
<1>3. committed(r, c) = remembered(e, c.id, "none")
  BY DEF committed
<1>4. c.id \in Ids
  BY CommandFacts
<1> HIDE DEF e
<1>5. QED
  BY <1>2, <1>3, <1>4, RememberedFacts

(* The command taken leaves its queue. *)
Takes(s) ==
    /\ up[s] # << >>
    /\ up' = [up EXCEPT ![s] = IF sockets'[s] = "closed" THEN << >> ELSE Tail(@)]
    /\ UNCHANGED <<client, joining, refused, overdue>>

LEMMA TakesFacts ==
  ASSUME Shape, NEW s \in Seats, Takes(s)
  PROVE  /\ up' \in [Seats -> Seq(Commands)]
         /\ \A t \in Seats : Bystander(t)
         /\ \A t \in Seats : t # s => up'[t] = up[t]
         /\ Head(up[s]) \in Commands /\ Head(up[s]) \in CommandsOf(s)
         /\ ~Dormant(s)
<1>1. /\ up[s] \in Seq(Commands) /\ up[s] # << >>
      /\ up' = [up EXCEPT ![s] = IF sockets'[s] = "closed" THEN << >> ELSE Tail(@)]
  BY DEF Shape, Takes
<1>2. /\ Head(up[s]) \in Commands /\ Head(up[s]) \in Range(up[s])
      /\ Tail(up[s]) \in Seq(Commands) /\ Range(Tail(up[s])) \subseteq Range(up[s])
  BY <1>1, TailRange
<1>3. up'[s] \in Seq(Commands) /\ Range(up'[s]) \subseteq Range(up[s])
  BY <1>1, <1>2, EmptyRange DEF Shape
<1>4. /\ up' \in [Seats -> Seq(Commands)]
      /\ \A t \in Seats : t # s => up'[t] = up[t]
  BY <1>1, <1>3 DEF Shape
<1>5. ASSUME NEW t \in Seats PROVE Bystander(t)
  BY <1>3, <1>4 DEF Bystander, Takes
<1>6. QED
  BY <1>1, <1>2, <1>4, <1>5 DEF CommandsOf, Dormant

(* A command that is answered without effect. *)
LEMMA AnswerStep ==
  ASSUME MatchInv, NEW s \in Seats, Takes(s), NEW m \in Messages,
         room # None, room' \in RoomStates, room' # None,
         room'.seq = room.seq, room'.status = room.status,
         room'.actions = room.actions, room'.joined = room.joined,
         room'.pendingControl = room.pendingControl,
         room'.winnerSeat = room.winnerSeat, room'.endReason = room.endReason,
         room'.creatorSeat = room.creatorSeat,
         Len(room'.recentCommands) <= MAX_RECENT_COMMANDS,
         \A item \in Range(room'.recentCommands) :
           item \in Range(room.recentCommands) \/ item.error # "none",
         UNCHANGED <<alarm, sockets, applied>>,
         down' = Sent(down, m, {s}),
         m.type \in {"state", "error"}, m.seq = room.seq,
         m.type = "state" => m.status = room.status /\ m.id \in applied
  PROVE  MatchInv'
<1>1. Shape /\ down \in [Seats -> Seq(Messages)]
  BY DEF MatchInv, Shape
<1>2. /\ up' \in [Seats -> Seq(Commands)] /\ \A t \in Seats : Bystander(t)
      /\ \A t \in Seats : t # s => up'[t] = up[t]
      /\ ~Dormant(s)
  BY <1>1, TakesFacts
<1>3. UNCHANGED <<client, joining, refused, overdue>> /\ Started' = Started
  BY DEF Takes, Started
<1>4. /\ down' \in [Seats -> Seq(Messages)] /\ Hears(s, m)
      /\ \A t \in Seats : t # s => down'[t] = down[t]
  <2>1. /\ Sent(down, m, {s}) \in [Seats -> Seq(Messages)]
        /\ \A t \in Seats : Sent(down, m, {s})[t] =
             IF t \in {s} /\ sockets[t] = "open" THEN Append(down[t], m) ELSE down[t]
    BY <1>1, SentFacts
  <2>2. QED
    BY <2>1 DEF Hears
<1>5. Shape'
  BY <1>1, <1>2, <1>3, <1>4 DEF Shape
<1>6. Onward
  <2>1. room.seq <= room'.seq
    BY <1>1, RoomFacts
  <2>2. QED
    BY <1>1, <1>3, <1>5, <2>1, OnwardRoom
<1>7. SeatsFit'
  <2> SUFFICES ASSUME NEW t \in Seats PROVE SeatFits(t)'
    BY DEF SeatsFit
  <2>1. TrueNews(s, m)
    BY RoomKnown DEF TrueNews, Final, WithStatus
  <2>2. TrueNews(s, m)'
    BY <1>6, <2>1, NewsStays
  <2>3. \A n \in Range(down'[t]) : n \in Range(down[t]) \/ TrueNews(t, n)'
    <3>1. CASE t = s
      BY <1>1, <1>4, <2>2, <3>1, HearsRange
    <3>2. CASE t # s
      BY <1>4, <3>2
    <3>3. QED
      BY <3>1, <3>2
  <2>4. QED
    BY <1>1, <1>2, <1>5, <1>6, <2>3, ToldSeatFits DEF MatchInv, SeatsFit
<1>8. LateAnswers'
  <2> SUFFICES ASSUME Late', NEW t \in Seats PROVE KnowsTheEnd(t)'
    BY DEF LateAnswers
  <2>1. Late
    BY DEF Late
  <2>2. CASE t = s /\ sockets[s] = "open"
    BY <1>2, <1>4, <1>5, <2>1, <2>2, HearsLate DEF Hears
  <2>3. CASE t # s \/ sockets[s] # "open"
    BY <1>2, <1>4, <1>5, <2>1, <2>3, HearsLate DEF Hears
  <2>4. QED
    BY <2>2, <2>3
<1>9. RoomFits'
  BY <1>3 DEF MatchInv, RoomFits
<1>10. BeforeTheStart'
  <2> SUFFICES ASSUME ~Started PROVE BeforeTheStart'
    BY <1>3 DEF BeforeTheStart
  <2>1. PICK creator \in Seats :
          /\ FreshRoom(room, creator)
          /\ \A i \in Joiners :
               joining[i].step = "reading" => FreshRoom(joining[i].read, creator)
          /\ Dormant(opposite(creator))
    BY DEF MatchInv, BeforeTheStart
  <2>2. FreshRoom(room', creator)
    BY <2>1 DEF FreshRoom
  <2>3. Dormant(opposite(creator))'
    <3>1. opposite(creator) # s /\ opposite(creator) \in Seats
      BY <1>2, <2>1, Opposites
    <3>2. QED
      BY <1>2, <1>3, <1>4, <2>1, <3>1 DEF Dormant
  <2>4. QED
    BY <1>3, <2>1, <2>2, <2>3 DEF MatchInv, BeforeTheStart
<1>11. QED
  BY <1>5, <1>7, <1>8, <1>9, <1>10 DEF MatchInv

(* A command that takes effect in a room that is active: both clients are  *)
(* told of the new revision, and of the end if it is one.                  *)
LEMMA EffectStep ==
  ASSUME MatchInv, NEW s \in Seats, Takes(s),
         room # None, room.status = "active",
         room' \in RoomStates, room' # None, room'.seq = room.seq + 1,
         room'.status \in {"active", "ended"},
         Len(room'.recentCommands) <= MAX_RECENT_COMMANDS,
         \A item \in Range(room'.recentCommands) :
           \/ item \in Range(room.recentCommands)
           \/ item = [id |-> Head(up[s]).id, error |-> "none"],
         applied' = applied \union {Head(up[s]).id},
         alarm' \in {"room", "control", "none"},
         alarm' = "control" <=> room'.pendingControl # None,
         sockets' \in [Seats -> {"closed", "open", "deaf"}],
         \A t \in Seats : sockets'[t] \in {sockets[t], "closed"},
         down' \in [Seats -> Seq(Messages)],
         \A t \in Seats : \E m \in Messages :
           /\ Hears(t, m) /\ m.seq = room'.seq /\ m.type # "welcome"
           /\ Final(m) <=> room'.status = "ended"
           /\ m.type = "opponentResigned" => room'.winnerSeat = t
           /\ m.type = "state" => m.id = Head(up[s]).id,
         Head(up[s]).type = "resign" =>
           room'.status = "ended" /\ room'.winnerSeat = opposite(s)
  PROVE  MatchInv'
<1>1. Shape /\ room \in RoomStates /\ room.seq \in Nat /\ Started /\ ~Over
  BY RoomKnown, RoomFacts DEF MatchInv, Over
<1>2. /\ up' \in [Seats -> Seq(Commands)] /\ \A t \in Seats : Bystander(t)
      /\ Head(up[s]) \in Commands /\ Head(up[s]) \in CommandsOf(s)
  BY <1>1, TakesFacts
<1>3. UNCHANGED <<client, joining, refused, overdue>> /\ Started' = Started
  BY DEF Takes, Started
<1>4. Shape'
  BY <1>1, <1>2, <1>3, CommandFacts DEF Shape
<1>5. Onward
  <2>1. room.seq <= room'.seq
    BY <1>1
  <2>2. QED
    BY <1>1, <1>3, <1>4, <2>1, OnwardRoom
<1>6. room'.status = "ended" => Over'
  BY <1>1, <1>3 DEF Over
<1>7. \A t \in Seats : SeatFits(t)
  BY DEF MatchInv, SeatsFit
<1>8. SeatsFit'
  <2> SUFFICES ASSUME NEW t \in Seats PROVE SeatFits(t)'
    BY DEF SeatsFit
  <2>1. PICK m \in Messages :
          /\ Hears(t, m) /\ m.seq = room'.seq /\ m.type # "welcome"
          /\ Final(m) <=> room'.status = "ended"
          /\ m.type = "opponentResigned" => room'.winnerSeat = t
          /\ m.type = "state" => m.id = Head(up[s]).id
    OBVIOUS
  <2>2. TrueNews(t, m)'
    <3>1. Past(m.seq)'
      BY <1>1, <1>3, <2>1 DEF Past
    <3>2. Final(m) => Over'
      BY <1>6, <2>1
    <3>3. m.type = "opponentResigned" => TrueWinner(t)'
      <4>1. m.type = "opponentResigned" => Over'
        BY <3>2 DEF Final
      <4>2. QED
        BY <2>1, <4>1 DEF TrueWinner
    <3>4. m.type = "state" => m.id \in applied'
      BY <2>1
    <3>5. QED
      BY <2>1, <3>1, <3>2, <3>3, <3>4 DEF TrueNews
  <2>3. \A n \in Range(down'[t]) : n \in Range(down[t]) \/ TrueNews(t, n)'
    BY <1>1, <2>1, <2>2, HearsRange
  <2>4. TrueCommand(s, Head(up[s]))
    BY <1>2, <1>7 DEF SeatFits
  <2>5. \A id \in applied' \ applied : id.seat = t => id.n <= client[t].count
    BY <2>4 DEF TrueCommand
  <2>6. \A c \in CommandsOf(t) :
          c.type = "resign" /\ c.id \in applied' \ applied => TrueWinner(opposite(t))'
    <3> SUFFICES ASSUME NEW c \in CommandsOf(t), c.type = "resign",
                        c.id = Head(up[s]).id
                 PROVE  TrueWinner(opposite(t))'
      OBVIOUS
    <3>1. t = s
      BY <1>7, <2>4 DEF SeatFits, TrueCommand
    <3>2. c = Head(up[s])
      BY <1>2, <1>7, <3>1 DEF SeatFits
    <3>3. room'.status = "ended" /\ room'.winnerSeat = opposite(t)
      BY <3>1, <3>2
    <3>4. QED
      BY <1>6, <3>3 DEF TrueWinner
  <2>7. QED
    BY <1>1, <1>2, <1>4, <1>5, <1>7, <2>3, <2>5, <2>6, ToldSeatFits
<1>9. LateAnswers'
  <2> SUFFICES ASSUME Late', NEW t \in Seats PROVE KnowsTheEnd(t)'
    BY DEF LateAnswers
  <2>1. PICK m \in Messages : Hears(t, m) /\ m.seq = room'.seq /\ Final(m)
    BY DEF Late
  <2>2. /\ down[t] \in Seq(Messages) /\ client[t] \in Clients
        /\ room'.seq = room.seq + 1 /\ client'[t] = client[t]
    BY <1>1, <1>3, ShapeFacts
  <2>3. /\ \A n \in Carried(t) : n.seq <= room.seq /\ ~Final(n) /\ n.seq \in Nat
        /\ client[t].revision <= room.seq /\ client[t].saved <= room.seq
        /\ client[t].revision \in Nat /\ client[t].saved \in Nat
        /\ \A c \in CommandsOf(t) : c.expectedSeq <= room.seq /\ c.expectedSeq \in Nat
    BY <1>1, <1>7, <2>2, ShapeFacts, ClientFacts, MessageFacts, CommandFacts
       DEF SeatFits, TrueNews, TrueCommand, Past
  <2>4. \A c \in CommandsOf(t)' : c.expectedSeq < room'.seq
    BY <1>1, <1>2, <2>2, <2>3, BystanderHas
  <2>5. client'[t].revision # room'.seq /\ client'[t].saved # room'.seq
    BY <1>1, <2>2, <2>3
  <2>6. client'[t].inbound # None => client'[t].inbound.seq < room'.seq
    BY <1>1, <2>2, <2>3 DEF Carried
  <2>7. CASE sockets[t] = "open"
    <3>1. down'[t] = Append(down[t], m)
      BY <2>1, <2>7 DEF Hears
    <3>2. PICK k \in Nat : k = Len(down[t])
      BY <2>2
    <3>3. /\ DOMAIN down[t] = 1..k /\ DOMAIN down'[t] = 1..(k + 1)
          /\ Len(down'[t]) = k + 1 /\ down'[t][k + 1] = m
          /\ \A i \in 1..k : down'[t][i] = down[t][i]
      BY <2>2, <3>1, <3>2, AppendFacts
    <3>4. Range(down'[t]) = Range(down[t]) \union {m}
      BY <2>2, <3>1, AppendRange
    <3>5. \A n \in Carried(t)' : Final(n) => n.seq = room'.seq
      BY <2>1, <2>2, <2>3, <3>4 DEF Carried
    <3>6. FinalBefore(t, k + 1)'
      BY <2>1, <3>3 DEF FinalBefore
    <3>7. ASSUME NEW i \in DOMAIN down'[t], down'[t][i].seq = room'.seq
          PROVE  FinalBefore(t, i)'
      <4>1. CASE i = k + 1
        BY <3>6, <4>1
      <4>2. CASE i # k + 1
        <5>1. i \in 1..k /\ i \in DOMAIN down[t]
          BY <3>2, <3>3, <4>2
        <5>2. down'[t][i] \in Range(down[t])
          BY <3>3, <5>1 DEF Range
        <5>3. down'[t][i].seq <= room.seq /\ down'[t][i].seq \in Nat
          BY <2>3, <5>2 DEF Carried
        <5>4. QED
          BY <1>1, <2>2, <3>7, <5>3
      <4>3. QED
        BY <4>1, <4>2
    <3>8. FinalBefore(t, Len(down[t]))'
      BY <3>3, <3>6 DEF FinalBefore
    <3>9. QED
      BY <2>4, <2>5, <2>6, <3>5, <3>7, <3>8 DEF KnowsTheEnd
  <2>8. CASE sockets[t] # "open"
    <3>1. down'[t] = down[t] /\ sockets'[t] # "open"
      BY <2>1, <2>8 DEF Hears
    <3>2. \A n \in Carried(t)' : ~Final(n)
      BY <2>2, <2>3, <3>1 DEF Carried
    <3>3. \A i \in DOMAIN down'[t] : down'[t][i].seq # room'.seq
      <4>1. \A i \in DOMAIN down[t] : down[t][i] \in Range(down[t])
        BY DEF Range
      <4>2. \A i \in DOMAIN down[t] : down[t][i].seq <= room.seq /\ down[t][i].seq \in Nat
        BY <2>3, <4>1 DEF Carried
      <4>3. QED
        BY <1>1, <2>2, <3>1, <4>2
    <3>4. QED
      BY <2>4, <2>5, <2>6, <3>1, <3>2, <3>3 DEF KnowsTheEnd
  <2>9. QED
    BY <2>7, <2>8
<1>10. RoomFits'
  <2>1. \A item \in Range(room'.recentCommands) :
          item.error = "none" => item.id \in applied'
    BY DEF MatchInv, RoomFits
  <2>2. QED
    BY <2>1 DEF RoomFits
<1>11. BeforeTheStart'
  BY <1>1, <1>3 DEF BeforeTheStart
<1>12. QED
  BY <1>4, <1>8, <1>9, <1>10, <1>11 DEF MatchInv

(* Messages to the sender of a command and to the other side. *)
LEMMA SentApart ==
  ASSUME Shape, NEW s \in Seats, NEW m \in Messages, NEW n \in Messages,
         \/ down' = Sent(Sent(down, m, {s}), n, Others(s))
         \/ down' = Sent(Sent(down, n, Others(s)), m, {s})
  PROVE  /\ down' \in [Seats -> Seq(Messages)]
         /\ \A t \in Seats : Hears(t, IF t = s THEN m ELSE n)
<1>1. down \in [Seats -> Seq(Messages)]
  BY DEF Shape
<1>2. CASE down' = Sent(Sent(down, m, {s}), n, Others(s))
  <2>1. PICK q : q = Sent(down, m, {s})
    OBVIOUS
  <2>2. /\ q \in [Seats -> Seq(Messages)]
        /\ \A t \in Seats : q[t] =
             IF t \in {s} /\ sockets[t] = "open" THEN Append(down[t], m) ELSE down[t]
    <3>1. PICK seats : seats = {s}
      OBVIOUS
    <3>2. q = Sent(down, m, seats)
      BY <2>1, <3>1
    <3>3. /\ Sent(down, m, seats) \in [Seats -> Seq(Messages)]
          /\ \A t \in Seats : Sent(down, m, seats)[t] =
               IF t \in seats /\ sockets[t] = "open" THEN Append(down[t], m) ELSE down[t]
      BY <1>1, SentFacts
    <3>4. QED
      BY <3>1, <3>2, <3>3
  <2>3. /\ Sent(q, n, Others(s)) \in [Seats -> Seq(Messages)]
        /\ \A t \in Seats : Sent(q, n, Others(s))[t] =
             IF t \in Others(s) /\ sockets[t] = "open" THEN Append(q[t], n) ELSE q[t]
    BY <2>2, SentFacts
  <2>4. QED
    BY <1>2, <2>1, <2>2, <2>3 DEF Hears, Others
<1>3. CASE down' = Sent(Sent(down, n, Others(s)), m, {s})
  <2>1. PICK q : q = Sent(down, n, Others(s))
    OBVIOUS
  <2>2. /\ q \in [Seats -> Seq(Messages)]
        /\ \A t \in Seats : q[t] =
             IF t \in Others(s) /\ sockets[t] = "open" THEN Append(down[t], n) ELSE down[t]
    <3>1. PICK seats : seats = Others(s)
      OBVIOUS
    <3>2. q = Sent(down, n, seats)
      BY <2>1, <3>1
    <3>3. /\ Sent(down, n, seats) \in [Seats -> Seq(Messages)]
          /\ \A t \in Seats : Sent(down, n, seats)[t] =
               IF t \in seats /\ sockets[t] = "open" THEN Append(down[t], n) ELSE down[t]
      BY <1>1, SentFacts
    <3>4. QED
      BY <3>1, <3>2, <3>3
  <2>3. /\ Sent(q, m, {s}) \in [Seats -> Seq(Messages)]
        /\ \A t \in Seats : Sent(q, m, {s})[t] =
             IF t \in {s} /\ sockets[t] = "open" THEN Append(q[t], m) ELSE q[t]
    BY <2>2, SentFacts
  <2>4. QED
    BY <1>3, <2>1, <2>2, <2>3 DEF Hears, Others
<1>4. QED
  BY <1>2, <1>3

(* The message about its new state that a room answers a command with. *)
LEMMA StateEvents ==
  ASSUME NEW r \in RoomStates, NEW id \in Ids
  PROVE  LET m == stateEvent(r, "state", id) IN
         /\ m \in Messages /\ m.type = "state" /\ m.seq = r.seq
         /\ m.status = r.status /\ m.id = id
         /\ Final(m) <=> r.status = "ended"
  BY RoomFacts DEF stateEvent, Messages, Final, WithStatus

(* What RoomReceives does in either case. *)
LEMMA ReceivesFacts ==
  ASSUME MatchInv, NEW s \in Seats, RoomReceives(s)
  PROVE  /\ up[s] # << >> /\ room # None /\ Head(up[s]) \in Commands
         /\ Head(up[s]) \in CommandsOf(s)
         /\ Takes(s)
         /\ applied' = IF room'.seq > room.seq
                       THEN applied \union {Head(up[s]).id} ELSE applied
         /\ \/ recognised(Head(up[s])) /\ answerAgain(s, Head(up[s]))
            \/ /\ ~recognised(Head(up[s])) /\ ~current(Head(up[s]))
               /\ rejectCommand(s, Head(up[s]), "stale_revision")
            \/ /\ ~recognised(Head(up[s])) /\ current(Head(up[s]))
               /\ handleCommand(s, Head(up[s]))
<1>1. up[s] # << >> /\ webSocketMessage(s, Head(up[s]))
  BY DEF RoomReceives
<1>2. Takes(s)
  BY <1>1 DEF RoomReceives, webSocketMessage, Takes
<1>3. QED
  BY <1>1, <1>2, TakesFacts DEF RoomReceives, webSocketMessage, MatchInv

LEMMA RejectStep ==
  ASSUME MatchInv, NEW s \in Seats, RoomReceives(s), NEW code \in Errors,
         rejectCommand(s, Head(up[s]), code)
  PROVE  MatchInv'
<1>1. PICK c : c = Head(up[s])
  OBVIOUS
<1>2. /\ c \in Commands /\ c.id \in Ids /\ Takes(s) /\ room # None
      /\ room \in RoomStates /\ room.seq \in Nat
  BY <1>1, ReceivesFacts, CommandFacts, RoomKnown, RoomFacts
<1>3. /\ room' = remembered(room, c.id, code)
      /\ down' = Sent(down, errorEvent(room, code, c.id), {s})
      /\ UNCHANGED <<alarm, sockets>>
  BY <1>1 DEF rejectCommand
<1>4. /\ room' \in RoomStates /\ room' # None
      /\ room'.seq = room.seq /\ room'.status = room.status
      /\ room'.actions = room.actions /\ room'.joined = room.joined
      /\ room'.pendingControl = room.pendingControl
      /\ room'.winnerSeat = room.winnerSeat /\ room'.endReason = room.endReason
      /\ room'.creatorSeat = room.creatorSeat
      /\ Len(room'.recentCommands) <= MAX_RECENT_COMMANDS
      /\ \A item \in Range(room'.recentCommands) :
           item \in Range(room.recentCommands) \/ item = [id |-> c.id, error |-> code]
  BY <1>2, <1>3, RememberedFacts
<1>5. \A item \in Range(room'.recentCommands) :
        item \in Range(room.recentCommands) \/ item.error # "none"
  BY <1>4 DEF Errors
<1>6. applied' = applied
  BY <1>2, <1>4, ReceivesFacts
<1>7. PICK m : m = errorEvent(room, code, c.id)
  OBVIOUS
<1>8. m \in Messages /\ m.type = "error" /\ m.seq = room.seq
  BY <1>2, <1>7, RoomFacts DEF errorEvent, Messages
<1>9. QED
  BY <1>2, <1>3, <1>4, <1>5, <1>6, <1>7, <1>8, AnswerStep

LEMMA AnswerAgainStep ==
  ASSUME MatchInv, NEW s \in Seats, RoomReceives(s),
         recognised(Head(up[s])), answerAgain(s, Head(up[s]))
  PROVE  MatchInv'
<1>1. PICK c : c = Head(up[s])
  OBVIOUS
<1>2. /\ c \in Commands /\ c.id \in Ids /\ Takes(s) /\ room # None
      /\ room \in RoomStates /\ room.seq \in Nat
      /\ room.recentCommands \in Seq(Items)
  BY <1>1, ReceivesFacts, CommandFacts, RoomKnown, RoomFacts
<1>3. PICK item : item = CHOOSE x \in Range(room.recentCommands) : x.id = c.id
  OBVIOUS
<1>4. item \in Range(room.recentCommands) /\ item.id = c.id
  <2>1. \E x \in Range(room.recentCommands) : x.id = c.id
    BY <1>1 DEF recognised, Range
  <2>2. QED
    BY <1>3, <2>1
<1>5. item \in Items /\ (item.error = "none" => c.id \in applied)
  BY <1>2, <1>4, RangeIn DEF MatchInv, RoomFits
<1>6. PICK m : m = IF item.error = "none" THEN stateEvent(room, "state", c.id)
                   ELSE errorEvent(room, item.error, c.id)
  OBVIOUS
<1>7. down' = Sent(down, m, {s}) /\ UNCHANGED <<room, alarm, sockets>>
  BY <1>1, <1>3, <1>6 DEF answerAgain
<1>8. applied' = applied
  BY <1>2, <1>7, ReceivesFacts
<1>9. /\ m \in Messages /\ m.type \in {"state", "error"} /\ m.seq = room.seq
      /\ m.type = "state" => m.status = room.status /\ m.id \in applied
  <2>1. CASE item.error = "none"
    BY <1>2, <1>5, <1>6, <2>1, StateEvents
  <2>2. CASE item.error # "none"
    <3>1. item.error \in Errors /\ m = errorEvent(room, item.error, c.id)
      BY <1>5, <1>6, <2>2 DEF Items
    <3>2. QED
      BY <1>2, <3>1, RoomFacts DEF errorEvent, Messages
  <2>3. QED
    BY <2>1, <2>2
<1>10. Len(room.recentCommands) <= MAX_RECENT_COMMANDS
  BY <1>2 DEF MatchInv, RoomFits
<1>11. QED
  BY <1>2, <1>7, <1>8, <1>9, <1>10, AnswerStep

(* A command that takes effect counts the revision. *)
LEMMA EffectApplied ==
  ASSUME MatchInv, NEW s \in Seats, RoomReceives(s), room'.seq = room.seq + 1
  PROVE  applied' = applied \union {Head(up[s]).id}
<1>1. room # None /\ room.seq \in Nat
  BY ReceivesFacts, RoomKnown, RoomFacts
<1>2. QED
  BY <1>1, ReceivesFacts

LEMMA StillActive ==
  ASSUME MatchInv, room # None, room.status = "active"
  PROVE  alarm = "control" <=> room.pendingControl # None
  BY DEF MatchInv, RoomFits

LEMMA PlayedFacts ==
  ASSUME NEW r \in RoomStates, NEW move \in Moves
  PROVE  LET d == played(r, move) IN
         /\ d \in RoomStates /\ d.seq = r.seq /\ d.actions = Append(r.actions, move)
         /\ d.pendingControl = r.pendingControl
         /\ d.recentCommands = r.recentCommands
         /\ OutcomeOf(d.actions) = "ongoing" =>
              d.status = r.status /\ d.endReason = r.endReason
              /\ d.winnerSeat = r.winnerSeat
         /\ OutcomeOf(d.actions) # "ongoing" =>
              /\ d.status = "ended" /\ d.endReason = "outcome"
              /\ d.winnerSeat = IF OutcomeOf(d.actions) = "draw" THEN "none"
                                ELSE OutcomeOf(d.actions)
<1> DEFINE line == Append(r.actions, move)
           winner == IF OutcomeOf(line) = "draw" THEN "none" ELSE OutcomeOf(line)
           d == played(r, move)
<1>1. line \in Lines
  BY RoomFacts DEF Lines
<1>2. winner \in Winners /\ "ended" \in Statuses /\ "outcome" \in EndReasons
  BY <1>1 DEF Winners, Statuses, EndReasons
<1>3. CASE OutcomeOf(line) = "ongoing"
  <2>1. d = [r EXCEPT !.actions = line]
    BY <1>3 DEF played
  <2> HIDE DEF line, d
  <2>2. /\ d \in RoomStates /\ d.seq = r.seq /\ d.actions = line
        /\ d.pendingControl = r.pendingControl
        /\ d.recentCommands = r.recentCommands
        /\ d.status = r.status /\ d.endReason = r.endReason
        /\ d.winnerSeat = r.winnerSeat
    BY <1>1, <2>1 DEF RoomStates
  <2>3. QED
    BY <1>3, <2>2 DEF d, line
<1>4. CASE OutcomeOf(line) # "ongoing"
  <2>1. d = [r EXCEPT !.actions = line, !.status = "ended",
                      !.endReason = "outcome", !.winnerSeat = winner]
    BY <1>4 DEF played
  <2> HIDE DEF line, winner, d
  <2>2. /\ d \in RoomStates /\ d.seq = r.seq /\ d.actions = line
        /\ d.pendingControl = r.pendingControl
        /\ d.recentCommands = r.recentCommands
        /\ d.status = "ended" /\ d.endReason = "outcome"
        /\ d.winnerSeat = winner
    BY <1>1, <1>2, <2>1 DEF RoomStates
  <2>3. QED
    BY <1>4, <2>2 DEF d, line, winner
<1>5. QED
  BY <1>3, <1>4

LEMMA ActionStep ==
  ASSUME MatchInv, NEW s \in Seats, RoomReceives(s),
         Head(up[s]).type = "action", may_act(s, Head(up[s])),
         applyAction(s, Head(up[s]))
  PROVE  MatchInv'
<1>1. PICK c : c = Head(up[s])
  OBVIOUS
<1>2. /\ c \in Commands /\ c.id \in Ids /\ c.move \in Moves /\ c.type = "action"
      /\ Takes(s) /\ room # None /\ room \in RoomStates /\ Shape
  BY <1>1, ReceivesFacts, CommandFacts, RoomKnown DEF MatchInv
<1>3. /\ room.status = "active" /\ room.pendingControl = None
      /\ room' = committed(played(room, c.move), c)
      /\ down' = Sent(down, stateEvent(room', "state", c.id), Seats)
      /\ UNCHANGED <<alarm, sockets>>
  BY <1>1 DEF applyAction, may_act
<1>4. PICK r \in RoomStates :
        /\ r = played(room, c.move) /\ r.seq = room.seq
        /\ r.pendingControl = room.pendingControl
        /\ r.recentCommands = room.recentCommands
        /\ r.status \in {"active", "ended"}
  BY <1>2, <1>3, PlayedFacts
<1>5. /\ room' \in RoomStates /\ room' # None /\ room'.seq = room.seq + 1
      /\ room'.status \in {"active", "ended"} /\ room'.pendingControl = None
      /\ Len(room'.recentCommands) <= MAX_RECENT_COMMANDS
      /\ \A item \in Range(room'.recentCommands) :
           item \in Range(room.recentCommands) \/ item = [id |-> c.id, error |-> "none"]
  BY <1>2, <1>3, <1>4, CommittedFacts
<1>6. PICK m : m = stateEvent(room', "state", c.id)
  OBVIOUS
<1>7. /\ m \in Messages /\ m.type = "state" /\ m.seq = room'.seq /\ m.id = c.id
      /\ Final(m) <=> room'.status = "ended"
  BY <1>2, <1>5, <1>6, StateEvents
<1>8. down' \in [Seats -> Seq(Messages)] /\ \A t \in Seats : Hears(t, m)
  BY <1>2, <1>3, <1>6, <1>7, SentToBoth
<1>9. /\ alarm' \in {"room", "control", "none"}
      /\ alarm' = "control" <=> room'.pendingControl # None
      /\ sockets' \in [Seats -> {"closed", "open", "deaf"}]
      /\ \A t \in Seats : sockets'[t] \in {sockets[t], "closed"}
  BY <1>2, <1>3, <1>5, StillActive DEF Shape
<1>10. applied' = applied \union {c.id}
  BY <1>1, <1>5, EffectApplied
<1>11. \A t \in Seats : \E n \in Messages :
         /\ Hears(t, n) /\ n.seq = room'.seq /\ n.type # "welcome"
         /\ Final(n) <=> room'.status = "ended"
         /\ n.type = "opponentResigned" => room'.winnerSeat = t
         /\ n.type = "state" => n.id = c.id
  BY <1>7, <1>8
<1>12. QED
  BY <1>1, <1>2, <1>3, <1>5, <1>8, <1>9, <1>10, <1>11, EffectStep

LEMMA RequestStep ==
  ASSUME MatchInv, NEW s \in Seats, RoomReceives(s),
         Head(up[s]).type = "request", may_request(Head(up[s])),
         requestControl(s, Head(up[s]))
  PROVE  MatchInv'
<1>1. PICK c : c = Head(up[s])
  OBVIOUS
<1>2. /\ c \in Commands /\ c.id \in Ids /\ c.type = "request"
      /\ c.kind \in CONTROL_KINDS /\ c.steps \in Nat
      /\ Takes(s) /\ room # None /\ room \in RoomStates /\ Shape
  BY <1>1, ReceivesFacts, CommandFacts, RoomKnown DEF MatchInv
<1>3. PICK pending : pending = [kind |-> c.kind, requestId |-> c.id,
                                requester |-> s, steps |-> c.steps]
  OBVIOUS
<1>4. /\ room.status = "active"
      /\ room' = committed([room EXCEPT !.pendingControl = pending], c)
      /\ alarm' = "control" /\ sockets' = sockets
      /\ down' = Sent(Sent(down, stateEvent(room', "state", c.id), {s}),
                      [type |-> "controlRequest", request |-> pending,
                       seq |-> room'.seq],
                      Others(s))
  BY <1>1, <1>3 DEF requestControl, may_request
<1>5. pending \in Requests /\ pending # None
  BY <1>2, <1>3, Somethings DEF Requests
<1>6. PICK r : r = [room EXCEPT !.pendingControl = pending]
  OBVIOUS
<1>7. /\ r \in RoomStates /\ r.seq = room.seq /\ r.status = room.status
      /\ r.pendingControl = pending /\ r.recentCommands = room.recentCommands
  BY <1>2, <1>5, <1>6 DEF RoomStates, Pendings
<1>8. /\ room' \in RoomStates /\ room' # None /\ room'.seq = room.seq + 1
      /\ room'.status = "active" /\ room'.pendingControl # None
      /\ Len(room'.recentCommands) <= MAX_RECENT_COMMANDS
      /\ \A item \in Range(room'.recentCommands) :
           item \in Range(room.recentCommands) \/ item = [id |-> c.id, error |-> "none"]
  <2>1. PICK d : d = committed(r, c)
    OBVIOUS
  <2>2. /\ d \in RoomStates /\ d # None /\ d.seq = r.seq + 1
        /\ d.status = r.status /\ d.pendingControl = r.pendingControl
        /\ Len(d.recentCommands) <= MAX_RECENT_COMMANDS
        /\ \A item \in Range(d.recentCommands) :
             item \in Range(r.recentCommands) \/ item = [id |-> c.id, error |-> "none"]
    BY <1>2, <1>7, <2>1, CommittedFacts
  <2>3. room' = d
    BY <1>4, <1>6, <2>1
  <2>4. QED
    BY <1>4, <1>5, <1>7, <2>2, <2>3
<1>9. PICK m : m = stateEvent(room', "state", c.id)
  OBVIOUS
<1>10. /\ m \in Messages /\ m.type = "state" /\ m.seq = room'.seq /\ m.id = c.id
       /\ ~Final(m)
  BY <1>2, <1>8, <1>9, StateEvents
<1>11. PICK n : n = [type |-> "controlRequest", request |-> pending, seq |-> room'.seq]
  OBVIOUS
<1>12. n \in Messages /\ n.type = "controlRequest" /\ n.seq = room'.seq /\ ~Final(n)
  BY <1>5, <1>8, <1>11, RoomFacts DEF Messages, Final, WithStatus
<1>13. /\ down' \in [Seats -> Seq(Messages)]
       /\ \A t \in Seats : Hears(t, IF t = s THEN m ELSE n)
  BY <1>2, <1>4, <1>9, <1>10, <1>11, <1>12, SentApart
<1>14. /\ sockets' \in [Seats -> {"closed", "open", "deaf"}]
       /\ \A t \in Seats : sockets'[t] \in {sockets[t], "closed"}
  BY <1>2, <1>4 DEF Shape
<1>15. applied' = applied \union {c.id}
  BY <1>1, <1>8, EffectApplied
<1>16. ASSUME NEW t \in Seats
       PROVE  \E e \in Messages :
                /\ Hears(t, e) /\ e.seq = room'.seq /\ e.type # "welcome"
                /\ Final(e) <=> room'.status = "ended"
                /\ e.type = "opponentResigned" => room'.winnerSeat = t
                /\ e.type = "state" => e.id = c.id
  <2>1. CASE t = s
    BY <1>8, <1>10, <1>13, <2>1
  <2>2. CASE t # s
    BY <1>8, <1>12, <1>13, <2>2
  <2>3. QED
    BY <2>1, <2>2
<1>17. QED
  BY <1>1, <1>2, <1>4, <1>8, <1>13, <1>14, <1>15, <1>16, EffectStep

(* What nobody may answer any more is not answered: an answer at the room's*)
(* revision finds the room active (the revisions are what keeps            *)
(* respondControl, which does not look at the status).                     *)
LEMMA AnsweredInTime ==
  ASSUME MatchInv, NEW s \in Seats, RoomReceives(s),
         current(Head(up[s])), room.pendingControl # None
  PROVE  room.status = "active"
<1>1. /\ room # None /\ room \in RoomStates /\ room.seq \in Nat
      /\ Head(up[s]) \in CommandsOf(s) /\ Head(up[s]).expectedSeq = room.seq
  BY ReceivesFacts, RoomKnown, RoomFacts DEF current
<1>2. room.status # "ended"
  <2> SUFFICES ASSUME room.status = "ended" PROVE FALSE
    OBVIOUS
  <2>1. KnowsTheEnd(s)
    BY <1>1 DEF Late, MatchInv, LateAnswers
  <2>2. QED
    BY <1>1, <2>1 DEF KnowsTheEnd
<1>3. room.status # "waiting"
  <2>1. CASE Started
    BY <1>1, <2>1 DEF MatchInv, RoomFits
  <2>2. CASE ~Started
    BY <1>1, <2>2 DEF MatchInv, BeforeTheStart, FreshRoom
  <2>3. QED
    BY <2>1, <2>2
<1>4. QED
  BY <1>1, <1>2, <1>3 DEF RoomStates, Statuses

LEMMA GrantedFacts ==
  ASSUME NEW r \in RoomStates, NEW pending \in Requests, LinesTransform
  PROVE  LET d == granted(r, pending) IN
         /\ d \in RoomStates /\ d.seq = r.seq /\ d.status = "active"
         /\ d.pendingControl = r.pendingControl
         /\ d.recentCommands = r.recentCommands
         /\ d.endReason = r.endReason /\ d.winnerSeat = r.winnerSeat
         /\ d.actions =
              CASE pending.kind = "takeBack" ->
                     SubSeq(r.actions, 1, Len(r.actions) - pending.steps)
                [] pending.kind = "restart" -> << >>
                [] pending.kind = "boardTransform" -> Transformed(r.actions)
<1>1. /\ r.actions \in Seq(Moves) /\ pending.steps \in Nat
      /\ pending.kind \in CONTROL_KINDS
  BY RoomFacts DEF Requests, Lines
<1>2. PICK line : line =
        CASE pending.kind = "takeBack" ->
               SubSeq(r.actions, 1, Len(r.actions) - pending.steps)
          [] pending.kind = "restart" -> << >>
          [] pending.kind = "boardTransform" -> Transformed(r.actions)
  OBVIOUS
<1>3. line \in Lines
  <2>1. SubSeq(r.actions, 1, Len(r.actions) - pending.steps) \in Seq(Moves)
    <3>1. Len(r.actions) - pending.steps \in Int
          /\ Len(r.actions) - pending.steps <= Len(r.actions)
      BY <1>1
    <3>2. PICK k \in Int : k = Len(r.actions) - pending.steps /\ k <= Len(r.actions)
      BY <3>1
    <3>3. SubSeq(r.actions, 1, k) \in Seq(Moves)
      BY <1>1, <3>2
    <3>4. QED
      BY <3>2, <3>3
  <2>2. << >> \in Seq(Moves)
    OBVIOUS
  <2>3. Transformed(r.actions) \in Lines
    BY <1>1 DEF LinesTransform, Lines
  <2>4. QED
    BY <1>1, <1>2, <2>1, <2>2, <2>3 DEF Lines, CONTROL_KINDS
<1>4. granted(r, pending) = [r EXCEPT !.status = "active", !.actions = line]
  BY <1>1, <1>2 DEF granted, CONTROL_KINDS
<1>5. PICK d : d = [r EXCEPT !.status = "active", !.actions = line]
  OBVIOUS
<1>6. /\ d \in RoomStates /\ d.seq = r.seq /\ d.status = "active"
      /\ d.pendingControl = r.pendingControl
      /\ d.recentCommands = r.recentCommands
      /\ d.endReason = r.endReason /\ d.winnerSeat = r.winnerSeat
      /\ d.actions = line
  BY <1>3, <1>5 DEF RoomStates, Statuses
<1>7. QED
  BY <1>2, <1>4, <1>5, <1>6

LEMMA RespondStep ==
  ASSUME MatchInv, NEW s \in Seats, RoomReceives(s), LinesTransform,
         Head(up[s]).type = "respond", current(Head(up[s])),
         may_respond(s, Head(up[s])), respondControl(s, Head(up[s]))
  PROVE  MatchInv'
<1>1. PICK c : c = Head(up[s])
  OBVIOUS
<1>2. /\ c \in Commands /\ c.id \in Ids /\ c.type = "respond"
      /\ Takes(s) /\ room # None /\ room \in RoomStates /\ Shape
  BY <1>1, ReceivesFacts, CommandFacts, RoomKnown DEF MatchInv
<1>3. /\ room.pendingControl # None /\ room.pendingControl \in Requests
      /\ room.status = "active"
  <2>1. room.pendingControl # None
    BY DEF may_respond
  <2>2. room.pendingControl \in Requests
    BY <1>2, <2>1, RoomFacts DEF Pendings
  <2>3. QED
    BY <2>1, <2>2, AnsweredInTime
<1>4. PICK pending \in Requests : pending = room.pendingControl
  BY <1>3
<1>5. PICK answer : answer = IF c.accepted THEN granted(room, pending) ELSE room
  OBVIOUS
<1>6. /\ room' = committed([answer EXCEPT !.pendingControl = None], c)
      /\ alarm' = "room" /\ sockets' = sockets
      /\ down' = Sent(down, controlResult(room', c.id, pending.requestId), Seats)
  BY <1>1, <1>4, <1>5 DEF respondControl
<1>7. /\ answer \in RoomStates /\ answer.seq = room.seq /\ answer.status = "active"
      /\ answer.recentCommands = room.recentCommands
  BY <1>2, <1>3, <1>5, GrantedFacts
<1>8. PICK r : r = [answer EXCEPT !.pendingControl = None]
  OBVIOUS
<1>9. /\ r \in RoomStates /\ r.seq = room.seq /\ r.status = "active"
      /\ r.pendingControl = None /\ r.recentCommands = room.recentCommands
  BY <1>7, <1>8 DEF RoomStates, Pendings
<1>10. /\ room' \in RoomStates /\ room' # None /\ room'.seq = room.seq + 1
       /\ room'.status = "active" /\ room'.pendingControl = None
       /\ Len(room'.recentCommands) <= MAX_RECENT_COMMANDS
       /\ \A item \in Range(room'.recentCommands) :
            item \in Range(room.recentCommands) \/ item = [id |-> c.id, error |-> "none"]
  <2>1. PICK d : d = committed(r, c)
    OBVIOUS
  <2>2. /\ d \in RoomStates /\ d # None /\ d.seq = r.seq + 1
        /\ d.status = r.status /\ d.pendingControl = r.pendingControl
        /\ Len(d.recentCommands) <= MAX_RECENT_COMMANDS
        /\ \A item \in Range(d.recentCommands) :
             item \in Range(r.recentCommands) \/ item = [id |-> c.id, error |-> "none"]
    BY <1>2, <1>9, <2>1, CommittedFacts
  <2>3. room' = d
    BY <1>6, <1>8, <2>1
  <2>4. QED
    BY <1>9, <2>2, <2>3
<1>11. PICK m : m = controlResult(room', c.id, pending.requestId)
  OBVIOUS
<1>12. /\ m \in Messages /\ m.type = "controlResult" /\ m.seq = room'.seq
       /\ ~Final(m)
  <2>1. pending.requestId \in Ids
    BY DEF Requests
  <2>2. QED
    BY <1>2, <1>10, <1>11, <2>1, RoomFacts
       DEF controlResult, Messages, Final, WithStatus
<1>13. down' \in [Seats -> Seq(Messages)] /\ \A t \in Seats : Hears(t, m)
  BY <1>2, <1>6, <1>11, <1>12, SentToBoth
<1>14. /\ alarm' \in {"room", "control", "none"}
       /\ alarm' = "control" <=> room'.pendingControl # None
       /\ sockets' \in [Seats -> {"closed", "open", "deaf"}]
       /\ \A t \in Seats : sockets'[t] \in {sockets[t], "closed"}
  BY <1>2, <1>6, <1>10 DEF Shape
<1>15. applied' = applied \union {c.id}
  BY <1>1, <1>10, EffectApplied
<1>16. \A t \in Seats : \E n \in Messages :
         /\ Hears(t, n) /\ n.seq = room'.seq /\ n.type # "welcome"
         /\ Final(n) <=> room'.status = "ended"
         /\ n.type = "opponentResigned" => room'.winnerSeat = t
         /\ n.type = "state" => n.id = c.id
  BY <1>10, <1>12, <1>13
<1>17. QED
  BY <1>1, <1>2, <1>3, <1>10, <1>13, <1>14, <1>15, <1>16, EffectStep

(* resign and leave end the match, and leave a pending request as it is.   *)
LEMMA ResignStep ==
  ASSUME MatchInv, NEW s \in Seats, RoomReceives(s),
         Head(up[s]).type = "resign", room.status = "active",
         resign(s, Head(up[s]))
  PROVE  MatchInv'
<1>1. PICK c : c = Head(up[s])
  OBVIOUS
<1>2. /\ c \in Commands /\ c.id \in Ids /\ c.type = "resign"
      /\ Takes(s) /\ room # None /\ room \in RoomStates /\ Shape
  BY <1>1, ReceivesFacts, CommandFacts, RoomKnown DEF MatchInv
<1>3. PICK r : r = [room EXCEPT !.status = "ended", !.endReason = "resign",
                                !.winnerSeat = opposite(s)]
  OBVIOUS
<1>4. /\ room' = committed(r, c)
      /\ down' = Sent(Sent(down, stateEvent(room', "state", c.id), {s}),
                      [type |-> "opponentResigned", seq |-> room'.seq],
                      Others(s))
      /\ UNCHANGED <<alarm, sockets>>
  BY <1>1, <1>3 DEF resign
<1>5. /\ r \in RoomStates /\ r.seq = room.seq /\ r.status = "ended"
      /\ r.pendingControl = room.pendingControl
      /\ r.recentCommands = room.recentCommands
      /\ r.winnerSeat = opposite(s)
  <2>1. opposite(s) \in Winners /\ "resign" \in EndReasons
    BY Opposites DEF Winners, EndReasons
  <2>2. PICK winner \in Winners : winner = opposite(s)
    BY <2>1
  <2>3. r = [room EXCEPT !.status = "ended", !.endReason = "resign",
                         !.winnerSeat = winner]
    BY <1>3, <2>2
  <2>4. /\ r \in RoomStates /\ r.seq = room.seq /\ r.status = "ended"
        /\ r.pendingControl = room.pendingControl
        /\ r.recentCommands = room.recentCommands
        /\ r.winnerSeat = winner
    BY <1>2, <2>1, <2>3 DEF RoomStates, Statuses
  <2>5. QED
    BY <2>2, <2>4
<1>6. /\ room' \in RoomStates /\ room' # None /\ room'.seq = room.seq + 1
      /\ room'.status = "ended" /\ room'.winnerSeat = opposite(s)
      /\ room'.pendingControl = room.pendingControl
      /\ Len(room'.recentCommands) <= MAX_RECENT_COMMANDS
      /\ \A item \in Range(room'.recentCommands) :
           item \in Range(room.recentCommands) \/ item = [id |-> c.id, error |-> "none"]
  <2>1. PICK d : d = committed(r, c)
    OBVIOUS
  <2>2. /\ d \in RoomStates /\ d # None /\ d.seq = r.seq + 1
        /\ d.status = r.status /\ d.pendingControl = r.pendingControl
        /\ d.winnerSeat = r.winnerSeat
        /\ Len(d.recentCommands) <= MAX_RECENT_COMMANDS
        /\ \A item \in Range(d.recentCommands) :
             item \in Range(r.recentCommands) \/ item = [id |-> c.id, error |-> "none"]
    BY <1>2, <1>5, <2>1, CommittedFacts
  <2>3. QED
    BY <1>4, <1>5, <2>1, <2>2
<1>7. PICK m : m = stateEvent(room', "state", c.id)
  OBVIOUS
<1>8. /\ m \in Messages /\ m.type = "state" /\ m.seq = room'.seq /\ m.id = c.id
      /\ Final(m)
  BY <1>2, <1>6, <1>7, StateEvents
<1>9. PICK n : n = [type |-> "opponentResigned", seq |-> room'.seq]
  OBVIOUS
<1>10. n \in Messages /\ n.type = "opponentResigned" /\ n.seq = room'.seq /\ Final(n)
  BY <1>6, <1>9, RoomFacts DEF Messages, Final
<1>11. /\ down' \in [Seats -> Seq(Messages)]
       /\ \A t \in Seats : Hears(t, IF t = s THEN m ELSE n)
  BY <1>2, <1>4, <1>7, <1>8, <1>9, <1>10, SentApart
<1>12. /\ alarm' \in {"room", "control", "none"}
       /\ alarm' = "control" <=> room'.pendingControl # None
       /\ sockets' \in [Seats -> {"closed", "open", "deaf"}]
       /\ \A t \in Seats : sockets'[t] \in {sockets[t], "closed"}
  BY <1>2, <1>4, <1>6, StillActive DEF Shape
<1>13. applied' = applied \union {c.id}
  BY <1>1, <1>6, EffectApplied
<1>14. ASSUME NEW t \in Seats
       PROVE  \E e \in Messages :
                /\ Hears(t, e) /\ e.seq = room'.seq /\ e.type # "welcome"
                /\ Final(e) <=> room'.status = "ended"
                /\ e.type = "opponentResigned" => room'.winnerSeat = t
                /\ e.type = "state" => e.id = c.id
  <2>1. CASE t = s
    BY <1>6, <1>8, <1>11, <2>1
  <2>2. CASE t # s
    <3>1. opposite(s) = t
      BY <2>2 DEF Seats, opposite
    <3>2. QED
      BY <1>6, <1>10, <1>11, <2>2, <3>1
  <2>3. QED
    BY <2>1, <2>2
<1>15. QED
  BY <1>1, <1>2, <1>6, <1>11, <1>12, <1>13, <1>14, EffectStep

LEMMA LeaveStep ==
  ASSUME MatchInv, NEW s \in Seats, RoomReceives(s),
         Head(up[s]).type = "leave", room.status = "active",
         leave(s, Head(up[s]))
  PROVE  MatchInv'
<1>1. PICK c : c = Head(up[s])
  OBVIOUS
<1>2. /\ c \in Commands /\ c.id \in Ids /\ c.type = "leave"
      /\ Takes(s) /\ room # None /\ room \in RoomStates /\ Shape
  BY <1>1, ReceivesFacts, CommandFacts, RoomKnown DEF MatchInv
<1>3. PICK r : r = [room EXCEPT !.status = "ended", !.endReason = "left"]
  OBVIOUS
<1>4. /\ room' = committed(r, c)
      /\ down' = Sent(Sent(down, [type |-> "opponentLeft", seq |-> room'.seq],
                           Others(s)),
                      stateEvent(room', "state", c.id), {s})
      /\ sockets' = [sockets EXCEPT ![s] = "closed"]
      /\ alarm' = alarm
  BY <1>1, <1>3 DEF leave
<1>5. /\ r \in RoomStates /\ r.seq = room.seq /\ r.status = "ended"
      /\ r.pendingControl = room.pendingControl
      /\ r.recentCommands = room.recentCommands
  BY <1>2, <1>3 DEF RoomStates, Statuses, EndReasons
<1>6. /\ room' \in RoomStates /\ room' # None /\ room'.seq = room.seq + 1
      /\ room'.status = "ended"
      /\ room'.pendingControl = room.pendingControl
      /\ Len(room'.recentCommands) <= MAX_RECENT_COMMANDS
      /\ \A item \in Range(room'.recentCommands) :
           item \in Range(room.recentCommands) \/ item = [id |-> c.id, error |-> "none"]
  <2>1. PICK d : d = committed(r, c)
    OBVIOUS
  <2>2. /\ d \in RoomStates /\ d # None /\ d.seq = r.seq + 1
        /\ d.status = r.status /\ d.pendingControl = r.pendingControl
        /\ Len(d.recentCommands) <= MAX_RECENT_COMMANDS
        /\ \A item \in Range(d.recentCommands) :
             item \in Range(r.recentCommands) \/ item = [id |-> c.id, error |-> "none"]
    BY <1>2, <1>5, <2>1, CommittedFacts
  <2>3. QED
    BY <1>4, <1>5, <2>1, <2>2
<1>7. PICK m : m = stateEvent(room', "state", c.id)
  OBVIOUS
<1>8. /\ m \in Messages /\ m.type = "state" /\ m.seq = room'.seq /\ m.id = c.id
      /\ Final(m)
  BY <1>2, <1>6, <1>7, StateEvents
<1>9. PICK n : n = [type |-> "opponentLeft", seq |-> room'.seq]
  OBVIOUS
<1>10. n \in Messages /\ n.type = "opponentLeft" /\ n.seq = room'.seq /\ Final(n)
  BY <1>6, <1>9, RoomFacts DEF Messages, Final
<1>11. /\ down' \in [Seats -> Seq(Messages)]
       /\ \A t \in Seats : Hears(t, IF t = s THEN m ELSE n)
  BY <1>2, <1>4, <1>7, <1>8, <1>9, <1>10, SentApart
<1>12. /\ alarm' \in {"room", "control", "none"}
       /\ alarm' = "control" <=> room'.pendingControl # None
       /\ sockets' \in [Seats -> {"closed", "open", "deaf"}]
       /\ \A t \in Seats : sockets'[t] \in {sockets[t], "closed"}
  BY <1>2, <1>4, <1>6, StillActive DEF Shape
<1>13. applied' = applied \union {c.id}
  BY <1>1, <1>6, EffectApplied
<1>14. ASSUME NEW t \in Seats
       PROVE  \E e \in Messages :
                /\ Hears(t, e) /\ e.seq = room'.seq /\ e.type # "welcome"
                /\ Final(e) <=> room'.status = "ended"
                /\ e.type = "opponentResigned" => room'.winnerSeat = t
                /\ e.type = "state" => e.id = c.id
  <2>1. CASE t = s
    BY <1>6, <1>8, <1>11, <2>1
  <2>2. CASE t # s
    BY <1>6, <1>10, <1>11, <2>2
  <2>3. QED
    BY <2>1, <2>2
<1>15. QED
  BY <1>1, <1>2, <1>6, <1>11, <1>12, <1>13, <1>14, EffectStep

(* The room takes a command.                                               *)
LEMMA ReceivesStep ==
  ASSUME MatchInv, NEW s \in Seats, RoomReceives(s), LinesTransform
  PROVE  MatchInv'
<1>1. PICK c : c = Head(up[s])
  OBVIOUS
<1>2. /\ c \in Commands
      /\ \/ recognised(c) /\ answerAgain(s, c)
         \/ ~current(c) /\ rejectCommand(s, c, "stale_revision")
         \/ current(c) /\ handleCommand(s, c)
  BY <1>1, ReceivesFacts
<1>3. CASE recognised(c) /\ answerAgain(s, c)
  BY <1>1, <1>3, AnswerAgainStep
<1>4. CASE rejectCommand(s, c, "stale_revision")
  BY <1>1, <1>4, RejectStep DEF Errors
<1>5. CASE rejectCommand(s, c, "action_rejected")
  BY <1>1, <1>5, RejectStep DEF Errors
<1>6. CASE current(c) /\ handleCommand(s, c)
  <2>1. c.type \in {"action", "request", "respond", "resign", "leave"}
    BY <1>2 DEF Commands
  <2>2. CASE c.type = "action"
    <3>1. applyAction(s, c)
      BY <1>6, <2>2 DEF handleCommand
    <3>2. QED
      BY <1>1, <1>5, <2>2, <3>1, ActionStep DEF applyAction
  <2>3. CASE c.type = "request"
    <3>1. requestControl(s, c)
      BY <1>6, <2>3 DEF handleCommand
    <3>2. CASE may_request(c)
      BY <1>1, <2>3, <3>1, <3>2, RequestStep
    <3>3. CASE ~may_request(c)
      BY <1>5, <3>1, <3>3 DEF requestControl
    <3>4. QED
      BY <3>2, <3>3
  <2>4. CASE c.type = "respond"
    <3>1. respondControl(s, c)
      BY <1>6, <2>4 DEF handleCommand
    <3>2. CASE may_respond(s, c)
      BY <1>1, <1>6, <2>4, <3>1, <3>2, RespondStep
    <3>3. CASE ~may_respond(s, c)
      BY <1>5, <3>1, <3>3 DEF respondControl
    <3>4. QED
      BY <3>2, <3>3
  <2>5. CASE c.type = "resign"
    <3>1. resign(s, c)
      BY <1>6, <2>5 DEF handleCommand
    <3>2. CASE room.status = "active"
      BY <1>1, <2>5, <3>1, <3>2, ResignStep
    <3>3. CASE room.status # "active"
      BY <1>5, <3>1, <3>3 DEF resign
    <3>4. QED
      BY <3>2, <3>3
  <2>6. CASE c.type = "leave"
    <3>1. leave(s, c)
      BY <1>6, <2>6 DEF handleCommand
    <3>2. CASE room.status = "active"
      BY <1>1, <2>6, <3>1, <3>2, LeaveStep
    <3>3. CASE room.status # "active"
      BY <1>5, <3>1, <3>3 DEF leave
    <3>4. QED
      BY <3>2, <3>3
  <2>7. QED
    BY <2>1, <2>2, <2>3, <2>4, <2>5, <2>6
<1>7. QED
  BY <1>2, <1>3, <1>4, <1>6

-----------------------------------------------------------------------------
(* The invariant as a whole.                                               *)

LEMMA MatchInit ==
  Init => MatchInv
<1> SUFFICES ASSUME Init PROVE MatchInv
  OBVIOUS
<1>1. PICK creator \in CreatorSeats :
        room = [creatorSeat |-> creator, joined |-> FALSE, status |-> "waiting",
                seq |-> 0, actions |-> << >>, tickets |-> {},
                recentCommands |-> << >>, pendingControl |-> None,
                endReason |-> "none", winnerSeat |-> "none"]
  BY DEF Init, RoomInit
<1>2. creator \in Seats
  BY RoomAssumption
<1>3. /\ alarm = "room" /\ down = [s \in Seats |-> << >>]
      /\ joining = [j \in Joiners |-> [step |-> "idle", read |-> None]]
      /\ up = [s \in Seats |-> << >>] /\ applied = {} /\ refused = {} /\ overdue = {}
      /\ sockets = [s \in Seats |-> IF s = creator THEN "open" ELSE "closed"]
      /\ client = [s \in Seats |->
                     IF s = creator
                     THEN [NewClient EXCEPT !.state = "listening", !.stage = "none",
                                            !.everWelcomed = TRUE,
                                            !.isConnected = TRUE]
                     ELSE [NewClient EXCEPT !.stage = "none"]]
  BY <1>1 DEF Init, RoomInit
<1>4. room \in RoomStates /\ room # None
  <2>1. /\ << >> \in Lines /\ << >> \in Seq(Items) /\ None \in Pendings
        /\ "none" \in Winners /\ "none" \in EndReasons /\ "waiting" \in Statuses
    BY DEF Lines, Pendings, Winners, EndReasons, Statuses
  <2>2. room \in RoomStates
    BY <1>1, <1>2, <2>1 DEF RoomStates
  <2>3. QED
    BY <2>2, Somethings
<1>5. FreshRoom(room, creator)
  BY <1>1, <1>4, EmptyRange, RoomAssumption DEF FreshRoom
<1>6. ~Started
  BY <1>3 DEF Started
<1>7. \A s \in Seats :
        /\ client[s] \in Clients
        /\ client[s].revision = 0 /\ client[s].saved = 0 /\ client[s].count = 0
        /\ client[s].winner = "none" /\ client[s].inbound = None
        /\ client[s].pendingCommands = << >>
  <2> SUFFICES ASSUME NEW s \in Seats
               PROVE  /\ client[s] \in Clients
                      /\ client[s].revision = 0 /\ client[s].saved = 0
                      /\ client[s].count = 0
                      /\ client[s].winner = "none" /\ client[s].inbound = None
                      /\ client[s].pendingCommands = << >>
    OBVIOUS
  <2>1. /\ << >> \in Lines /\ << >> \in Seq(Commands) /\ None \in Pendings
        /\ "none" \in Winners /\ "waiting" \in Statuses
        /\ None \in Snapshots \union {None}
    BY DEF Lines, Pendings, Winners, Statuses
  <2>2. PICK c : c = NewClient
    OBVIOUS
  <2>3. /\ c \in Clients /\ c.revision = 0 /\ c.saved = 0 /\ c.count = 0
        /\ c.winner = "none" /\ c.inbound = None /\ c.pendingCommands = << >>
    BY <2>1, <2>2 DEF NewClient, Clients, ConnectionStates
  <2>4. CASE s = creator
    <3>1. client[s] = [c EXCEPT !.state = "listening", !.stage = "none",
                                !.everWelcomed = TRUE, !.isConnected = TRUE]
      BY <1>3, <2>2, <2>4
    <3>2. QED
      BY <2>3, <3>1 DEF Clients, ConnectionStates
  <2>5. CASE s # creator
    <3>1. client[s] = [c EXCEPT !.stage = "none"]
      BY <1>3, <2>2, <2>5
    <3>2. QED
      BY <2>3, <3>1 DEF Clients
  <2>6. QED
    BY <2>4, <2>5
<1>8. Shape
  <2>1. sockets \in [Seats -> {"closed", "open", "deaf"}]
    BY <1>3
  <2>2. down \in [Seats -> Seq(Messages)] /\ up \in [Seats -> Seq(Commands)]
    BY <1>3
  <2>3. joining \in [Joiners -> Joins]
    BY <1>3 DEF Joins
  <2>4. client \in [Seats -> Clients]
    <3>1. \A s \in Seats : client[s] \in Clients
      BY <1>7
    <3>2. QED
      BY <1>3, <3>1
  <2>5. QED
    BY <1>3, <1>4, <2>1, <2>2, <2>3, <2>4 DEF Shape
<1>9. RoomFits
  BY <1>1, <1>3, <1>4, <1>6, EmptyRange, RoomAssumption DEF RoomFits
<1>10. BeforeTheStart
  <2>1. Dormant(opposite(creator))
    <3>1. opposite(creator) \in Seats /\ opposite(creator) # creator
      BY <1>2, Opposites
    <3>2. client[opposite(creator)] = [NewClient EXCEPT !.stage = "none"]
      BY <1>3, <3>1
    <3>3. QED
      BY <1>3, <3>1, <3>2 DEF Dormant, NewClient
  <2>2. \A j \in Joiners : joining[j].step # "reading"
    BY <1>3
  <2>3. QED
    BY <1>2, <1>3, <1>5, <2>1, <2>2 DEF BeforeTheStart
<1>11. SeatsFit
  <2> SUFFICES ASSUME NEW s \in Seats PROVE SeatFits(s)
    BY DEF SeatsFit
  <2>1. room.seq = 0
    BY <1>5 DEF FreshRoom
  <2>2. Carried(s) = {} /\ CommandsOf(s) = {}
    BY <1>3, <1>7, EmptyRange DEF Carried, CommandsOf
  <2>3. QED
    BY <1>3, <1>7, <2>1, <2>2 DEF SeatFits, Past
<1>12. ~Late
  BY <1>1, <1>4 DEF Late
<1>13. QED
  BY <1>8, <1>9, <1>10, <1>11, <1>12 DEF MatchInv, LateAnswers

LEMMA MatchStays ==
  ASSUME UNCHANGED vars
  PROVE  MatchInv' <=> MatchInv
<1>1. UNCHANGED <<room, alarm, sockets, down, joining, client, up, losses,
                  applied, refused, overdue>>
  BY DEF vars, roomVars, clientVars, historyVars
<1>2. \A s \in Seats : SeatFits(s)' <=> SeatFits(s)
  BY <1>1 DEF SeatFits, Past, TrueWinner, TrueNews, TrueCommand, Carried,
              CommandsOf, Over, Started
<1>3. \A s \in Seats : KnowsTheEnd(s)' <=> KnowsTheEnd(s)
  BY <1>1 DEF KnowsTheEnd, Informed, FinalBefore, Carried, CommandsOf
<1>4. (Shape' <=> Shape) /\ (RoomFits' <=> RoomFits) /\ (Late' <=> Late)
  BY <1>1 DEF Shape, RoomFits, Late, Started
<1>5. BeforeTheStart' <=> BeforeTheStart
  BY <1>1 DEF BeforeTheStart, Started, Dormant
<1>6. QED
  BY <1>2, <1>3, <1>4, <1>5 DEF MatchInv, SeatsFit, LateAnswers

LEMMA MatchNext ==
  ASSUME MatchInv, LinesTransform, JoinsOnce', [Next]_vars
  PROVE  MatchInv'
<1>1. CASE UNCHANGED vars
  BY <1>1, MatchStays
<1>2. ASSUME NEW s \in Seats,
             User(s) \/ Connecting(s) \/ Handling(s) \/ Network(s)
               \/ GiveUp(s) \/ WelcomeTimeout(s) \/ CommandTimeout(s)
      PROVE  MatchInv'
  <2>1. CASE User(s)
    BY <2>1, UserStep, LeaveOfflineStep, RetryConnectionStep DEF User
  <2>2. CASE Connecting(s)
    BY <2>2, GetTicketStep, RoomUnavailableStep, ConnectStep, FailedStep
       DEF Connecting
  <2>3. CASE Handling(s)
    BY <2>3, BeginMessageStep, EndMessageStep, HandleAtOnceStep DEF Handling
  <2>4. CASE Network(s)
    BY <2>4, BreakStep, AppRestartsStep, ReadCloseStep, RoomReadsCloseStep,
       ReceivesStep DEF Network
  <2>5. CASE GiveUp(s) \/ WelcomeTimeout(s) \/ CommandTimeout(s)
    BY <2>5, GiveUpStep, FailedStep, CommandTimeoutStep
  <2>6. QED
    BY <1>2, <2>1, <2>2, <2>3, <2>4, <2>5
<1>3. ASSUME NEW j \in Joiners, Join(j) \/ Joined(j)
      PROVE  MatchInv'
  BY <1>3, JoinStep, JoinedStep
<1>4. CASE Cancel \/ RoomAlarm
  BY <1>4, CancelStep, RoomAlarmStep
<1>5. QED
  BY <1>1, <1>2, <1>3, <1>4 DEF Next

(* As long as the invitation seats one player (join in game_room.ts lets   *)
(* two in if their requests overlap), everything that the room, the two    *)
(* clients and the messages between them know of each other fits: nobody   *)
(* is ahead of the room, the end of the match is news that comes before    *)
(* anything later, and what is said of the winner is so.                   *)
THEOREM MatchFits ==
  ASSUME LinesTransform
  PROVE  Spec /\ []JoinsOnce => []MatchInv
<1>1. MatchInv /\ JoinsOnce /\ JoinsOnce' /\ [Next]_vars => MatchInv'
  BY MatchNext
<1>2. QED
  BY <1>1, MatchInit, PTL DEF Spec

(* Every variable stays in its range; the alarm is set for a request       *)
(* exactly while one is pending (requestControl, respondControl and alarm  *)
(* in game_room.ts), and no more commands are remembered than              *)
(* MAX_RECENT_COMMANDS.                                                    *)
THEOREM MatchWellFormed ==
  ASSUME LinesTransform
  PROVE  Spec /\ []JoinsOnce => []OnlineTypeOK
<1>1. MatchInv => OnlineTypeOK
  <2> SUFFICES ASSUME MatchInv PROVE OnlineTypeOK
    OBVIOUS
  <2>1. Shape /\ RoomFits
    BY DEF MatchInv
  <2>2. room # None => /\ room.seq \in Nat
                       /\ room.status \in {"waiting", "active", "ended"}
    BY <2>1, RoomFacts DEF Shape, RoomStates, Statuses
  <2>3. \A s \in Seats :
          /\ client[s].state \in ConnectionStates
          /\ client[s].stage \in {"none", "ticket", "connect", "welcome"}
          /\ client[s].revision \in Nat
    BY <2>1 DEF Shape, Clients
  <2>4. QED
    BY <2>1, <2>2, <2>3 DEF OnlineTypeOK, Shape, RoomFits
<1>2. QED
  BY <1>1, MatchFits, PTL

(* A winner that a client shows (forceWinner, after resign, a welcome or   *)
(* opponentResigned in cloud_match_coordinator.dart) is the room's.        *)
THEOREM WinnersAreTheRooms ==
  ASSUME LinesTransform
  PROVE  Spec /\ []JoinsOnce => []WinnerIsTheRooms
<1>1. MatchInv => WinnerIsTheRooms
  <2> SUFFICES ASSUME MatchInv, NEW s \in Seats, client[s].winner # "none",
                      room # None
               PROVE  room.status = "ended" /\ room.winnerSeat = client[s].winner
    BY DEF WinnerIsTheRooms
  <2>1. TrueWinner(client[s].winner)
    BY DEF MatchInv, SeatsFit, SeatFits
  <2>2. QED
    BY <2>1 DEF TrueWinner, Over
<1>2. QED
  BY <1>1, MatchFits, PTL

-----------------------------------------------------------------------------
(* The room's line, result and offer are those of a match.                 *)

(* A match that has not been decided has no result: leave only gives the   *)
(* reason and keeps the winner it finds.                                   *)
Undecided ==
    room # None /\ room.status # "ended" =>
      room.endReason = "none" /\ room.winnerSeat = "none"

AgreedStep == Match!Next \/ UNCHANGED Match!matchVars

LEMMA SameLook ==
  ASSUME room # None, room' # None, Undecided,
         room'.status = room.status, room'.actions = room.actions,
         room'.pendingControl = room.pendingControl,
         room'.endReason = room.endReason, room'.winnerSeat = room.winnerSeat
  PROVE  AgreedStep /\ Undecided'
<1>1. UNCHANGED Match!matchVars
  BY DEF Match!matchVars
<1>2. Undecided'
  BY DEF Undecided
<1>3. QED
  BY <1>1, <1>2 DEF AgreedStep

LEMMA SameRoom ==
  ASSUME room' = room, Undecided
  PROVE  AgreedStep /\ Undecided'
BY DEF AgreedStep, Undecided, Match!matchVars

LEMMA GoneLook ==
  ASSUME room # None, room.status \in Statuses, room' = None
  PROVE  AgreedStep /\ Undecided'
<1>1. Match!Vanish
  BY DEF Match!Vanish, Match!Open, Statuses
<1>2. QED
  BY <1>1 DEF AgreedStep, Match!Next, Undecided

LEMMA JoinedLook ==
  ASSUME MatchInv, NEW j \in Joiners, Joined(j), JoinsOnce', Undecided
  PROVE  AgreedStep /\ Undecided'
<1>1. PICK read : read = joining[j].read
  OBVIOUS
<1>2. joining[j].step = "reading" /\ joining \in [Joiners -> Joins]
  BY DEF Joined, FinishJoin, MatchInv, Shape
<1>3. CASE ~may_join(read)
  <2>1. room' = room
    BY <1>1, <1>3 DEF Joined, FinishJoin
  <2>2. QED
    BY <2>1, SameRoom
<1>4. CASE may_join(read)
  <2>1. /\ room' = [read EXCEPT !.joined = TRUE, !.status = "active", !.seq = @ + 1]
        /\ joining' = [joining EXCEPT ![j].step = "seated"]
    BY <1>1, <1>4 DEF Joined, FinishJoin
  <2>2. ~Started
    <3> SUFFICES ASSUME NEW i \in Joiners, joining[i].step = "seated" PROVE FALSE
      BY DEF Started
    <3>1. i # j
      BY <1>2
    <3>2. joining'[i].step = "seated" /\ joining'[j].step = "seated"
      BY <1>2, <2>1, <3>1 DEF Joins
    <3>3. QED
      BY <3>1, <3>2 DEF JoinsOnce
  <2>3. PICK creator \in Seats :
          /\ room # None => FreshRoom(room, creator)
          /\ FreshRoom(read, creator)
    BY <1>1, <1>2, <2>2 DEF MatchInv, BeforeTheStart
  <2>4. PICK n \in Nat : n = read.seq + 1
    BY <2>3 DEF FreshRoom
  <2>5. room' = [read EXCEPT !.joined = TRUE, !.status = "active", !.seq = n]
    BY <2>1, <2>4
  <2>6. /\ room' \in RoomStates
        /\ room'.status = "active" /\ room'.actions = << >>
        /\ room'.endReason = "none" /\ room'.winnerSeat = "none"
        /\ room'.pendingControl = None
    BY <2>3, <2>5 DEF FreshRoom, RoomStates, Statuses
  <2>7. room' # None
    BY <2>6, Somethings
  <2>8. Match!Begin
    BY <2>3, <2>6, <2>7 DEF Match!Begin, Match!Open, FreshRoom
  <2>9. QED
    BY <2>6, <2>8 DEF AgreedStep, Match!Next, Undecided
<1>5. QED
  BY <1>3, <1>4

LEMMA AlarmLook ==
  ASSUME MatchInv, RoomAlarm, Undecided
  PROVE  AgreedStep /\ Undecided'
<1>1. /\ room # None /\ room \in RoomStates /\ room.seq \in Nat
      /\ room.status \in Statuses
  BY RoomKnown, RoomFacts DEF RoomAlarm, AlarmFires, RoomStates
<1>2. CASE room.pendingControl # None
  <2>1. PICK n \in Nat : n = room.seq + 1
    BY <1>1
  <2>2. room' = [room EXCEPT !.pendingControl = None, !.seq = n]
    BY <1>2, <2>1 DEF RoomAlarm, AlarmFires
  <2>3. /\ room' \in RoomStates /\ room'.pendingControl = None
        /\ room'.status = room.status /\ room'.actions = room.actions
        /\ room'.endReason = room.endReason /\ room'.winnerSeat = room.winnerSeat
    BY <1>1, <2>2 DEF RoomStates, Pendings
  <2>4. room' # None
    BY <2>3, Somethings
  <2>5. Match!Drop
    <3>1. DOMAIN None = {"none"}
      BY DEF None
    <3>2. QED
      BY <1>1, <1>2, <2>3, <2>4, <3>1 DEF Match!Drop
  <2>6. QED
    BY <1>1, <2>3, <2>5 DEF AgreedStep, Match!Next, Undecided
<1>3. CASE room.pendingControl = None
  <2>1. room' = None
    BY <1>3 DEF RoomAlarm, AlarmFires
  <2>2. QED
    BY <1>1, <2>1, GoneLook
<1>4. QED
  BY <1>2, <1>3

LEMMA TicketLook ==
  ASSUME MatchInv, NEW s \in Seats, GetTicket(s) \/ Connect(s), Undecided
  PROVE  AgreedStep /\ Undecided'
<1>1. /\ room # None
      /\ \E tickets \in SUBSET Seats : room' = [room EXCEPT !.tickets = tickets]
  <2>1. room # None
    BY DEF GetTicket, Connect, issueTicket, acceptSocket, valid_ticket
  <2>2. room \in RoomStates /\ room.tickets \in SUBSET Seats
    BY <2>1, RoomKnown DEF RoomStates
  <2>3. \/ room' = [room EXCEPT !.tickets = room.tickets \union {s}]
        \/ room' = [room EXCEPT !.tickets = room.tickets \ {s}]
    BY DEF GetTicket, Connect, issueTicket, acceptSocket
  <2>4. QED
    BY <2>1, <2>2, <2>3
<1>2. PICK tickets \in SUBSET Seats : room' = [room EXCEPT !.tickets = tickets]
  BY <1>1
<1>3. room \in RoomStates
  BY <1>1, RoomKnown
<1>4. /\ room' \in RoomStates
      /\ room'.status = room.status /\ room'.actions = room.actions
      /\ room'.pendingControl = room.pendingControl
      /\ room'.endReason = room.endReason /\ room'.winnerSeat = room.winnerSeat
  BY <1>2, <1>3 DEF RoomStates
<1>5. room' # None
  BY <1>4, Somethings
<1>6. QED
  BY <1>1, <1>4, <1>5, SameLook

LEMMA RejectLook ==
  ASSUME MatchInv, NEW s \in Seats, RoomReceives(s), NEW code \in Errors,
         rejectCommand(s, Head(up[s]), code), Undecided
  PROVE  AgreedStep /\ Undecided'
<1>1. PICK c : c = Head(up[s])
  OBVIOUS
<1>2. c.id \in Ids /\ room # None /\ room \in RoomStates
  BY <1>1, ReceivesFacts, CommandFacts, RoomKnown
<1>3. room' = remembered(room, c.id, code)
  BY <1>1 DEF rejectCommand
<1>4. /\ room' # None
      /\ room'.status = room.status /\ room'.actions = room.actions
      /\ room'.pendingControl = room.pendingControl
      /\ room'.endReason = room.endReason /\ room'.winnerSeat = room.winnerSeat
  BY <1>2, <1>3, RememberedFacts
<1>5. QED
  BY <1>2, <1>4, SameLook

LEMMA ActionLook ==
  ASSUME MatchInv, NEW s \in Seats, RoomReceives(s),
         Head(up[s]).type = "action", may_act(s, Head(up[s])),
         applyAction(s, Head(up[s])), Undecided
  PROVE  AgreedStep /\ Undecided'
<1>1. PICK c : c = Head(up[s])
  OBVIOUS
<1>2. /\ c \in Commands /\ c.move \in Moves
      /\ room # None /\ room \in RoomStates
  BY <1>1, ReceivesFacts, CommandFacts, RoomKnown
<1>3. /\ room.status = "active" /\ room.pendingControl = None
      /\ Legal(room.actions, c.move)
      /\ room' = committed(played(room, c.move), c)
  BY <1>1 DEF applyAction, may_act
<1>4. PICK move \in Moves : move = c.move
  BY <1>2
<1>5. PICK r : r = played(room, move)
  OBVIOUS
<1>6. /\ r \in RoomStates /\ r.actions = Append(room.actions, move)
      /\ r.pendingControl = None
      /\ OutcomeOf(r.actions) = "ongoing" =>
           r.status = "active" /\ r.endReason = room.endReason
           /\ r.winnerSeat = room.winnerSeat
      /\ OutcomeOf(r.actions) # "ongoing" =>
           /\ r.status = "ended" /\ r.endReason = "outcome"
           /\ r.winnerSeat = IF OutcomeOf(r.actions) = "draw" THEN "none"
                             ELSE OutcomeOf(r.actions)
  BY <1>2, <1>3, <1>5, PlayedFacts
<1>7. /\ room' # None /\ room'.status = r.status /\ room'.actions = r.actions
      /\ room'.pendingControl = r.pendingControl
      /\ room'.endReason = r.endReason /\ room'.winnerSeat = r.winnerSeat
  <2>1. room' = committed(r, c)
    BY <1>3, <1>4, <1>5
  <2>2. QED
    BY <1>2, <1>6, <2>1, CommittedFacts
<1>8. Match!Play(move)
  BY <1>2, <1>3, <1>4, <1>6, <1>7 DEF Match!Play
<1>9. Undecided'
  BY <1>2, <1>3, <1>6, <1>7 DEF Undecided
<1>10. QED
  BY <1>8, <1>9 DEF AgreedStep, Match!Next

LEMMA RequestLook ==
  ASSUME MatchInv, NEW s \in Seats, RoomReceives(s),
         Head(up[s]).type = "request", may_request(Head(up[s])),
         requestControl(s, Head(up[s])), Undecided
  PROVE  AgreedStep /\ Undecided'
<1>1. PICK c : c = Head(up[s])
  OBVIOUS
<1>2. /\ c \in Commands /\ c.id \in Ids /\ c.kind \in CONTROL_KINDS
      /\ c.steps \in 0..1 /\ (c.kind = "takeBack" <=> c.steps = 1)
      /\ room # None /\ room \in RoomStates /\ room.actions \in Seq(Moves)
  <2>1. c \in Commands /\ c.type = "request"
    BY <1>1, ReceivesFacts
  <2>2. c.steps \in 0..1 /\ (c.kind = "takeBack" <=> c.steps = 1)
    BY <2>1 DEF Commands
  <2>3. QED
    BY <1>1, <2>1, <2>2, ReceivesFacts, CommandFacts, RoomKnown, RoomFacts DEF Lines
<1>3. PICK pending : pending = [kind |-> c.kind, requestId |-> c.id,
                                requester |-> s, steps |-> c.steps]
  OBVIOUS
<1>4. /\ room.status = "active" /\ room.pendingControl = None
      /\ c.kind = "takeBack" => c.steps \in 1..Len(room.actions)
      /\ room' = committed([room EXCEPT !.pendingControl = pending], c)
  BY <1>1, <1>3 DEF requestControl, may_request
<1>5. pending \in Requests /\ pending # None
  BY <1>2, <1>3, Somethings DEF Requests
<1>6. PICK r : r = [room EXCEPT !.pendingControl = pending]
  OBVIOUS
<1>7. /\ r \in RoomStates /\ r.status = room.status /\ r.actions = room.actions
      /\ r.pendingControl = pending
      /\ r.endReason = room.endReason /\ r.winnerSeat = room.winnerSeat
  BY <1>2, <1>5, <1>6 DEF RoomStates, Pendings
<1>8. /\ room' # None /\ room'.status = room.status /\ room'.actions = room.actions
      /\ room'.pendingControl = pending
      /\ room'.endReason = room.endReason /\ room'.winnerSeat = room.winnerSeat
  <2>1. room' = committed(r, c)
    BY <1>4, <1>6
  <2>2. QED
    BY <1>2, <1>7, <2>1, CommittedFacts
<1>9. Match!Offer(s)
  <2>1. c.steps \in 0..Len(room.actions)
    <3>1. Len(room.actions) \in Nat
      BY <1>2
    <3>2. QED
      BY <1>2, <1>4, <3>1
  <2>2. c.kind = "takeBack" <=> c.steps > 0
    BY <1>2
  <2>3. c.kind \in {"takeBack", "restart", "boardTransform"}
    BY <1>2 DEF CONTROL_KINDS
  <2>4. /\ pending.requester = s /\ pending.kind = c.kind /\ pending.steps = c.steps
    BY <1>3
  <2>5. QED
    BY <1>2, <1>4, <1>5, <1>8, <2>1, <2>2, <2>3, <2>4 DEF Match!Offer
<1>10. Undecided'
  BY <1>2, <1>4, <1>8 DEF Undecided
<1>11. QED
  BY <1>9, <1>10 DEF AgreedStep, Match!Next, Seats, Match!Players

LEMMA RespondLook ==
  ASSUME MatchInv, NEW s \in Seats, RoomReceives(s), LinesTransform,
         Head(up[s]).type = "respond", current(Head(up[s])),
         may_respond(s, Head(up[s])), respondControl(s, Head(up[s])), Undecided
  PROVE  AgreedStep /\ Undecided'
<1>1. PICK c : c = Head(up[s])
  OBVIOUS
<1>2. /\ c \in Commands /\ room # None /\ room \in RoomStates
  BY <1>1, ReceivesFacts, RoomKnown
<1>3. /\ room.pendingControl # None /\ room.pendingControl \in Requests
      /\ room.status = "active"
  <2>1. room.pendingControl # None
    BY DEF may_respond
  <2>2. room.pendingControl \in Requests
    BY <1>2, <2>1, RoomFacts DEF Pendings
  <2>3. QED
    BY <2>1, <2>2, AnsweredInTime
<1>4. PICK pending \in Requests : pending = room.pendingControl
  BY <1>3
<1>5. PICK answer : answer = IF c.accepted THEN granted(room, pending) ELSE room
  OBVIOUS
<1>6. room' = committed([answer EXCEPT !.pendingControl = None], c)
  BY <1>1, <1>4, <1>5 DEF respondControl
<1> DEFINE wanted == CASE pending.kind = "takeBack" ->
                            SubSeq(room.actions, 1, Len(room.actions) - pending.steps)
                       [] pending.kind = "restart" -> << >>
                       [] pending.kind = "boardTransform" -> Transformed(room.actions)
           line == IF c.accepted THEN wanted ELSE room.actions
<1>8. /\ answer \in RoomStates /\ answer.status = "active" /\ answer.actions = line
      /\ answer.endReason = room.endReason /\ answer.winnerSeat = room.winnerSeat
  <2>1. CASE c.accepted
    <3>1. answer = granted(room, pending) /\ line = wanted
      BY <1>5, <2>1
    <3>2. QED
      BY <1>2, <3>1, GrantedFacts
  <2>2. CASE ~c.accepted
    <3>1. answer = room /\ line = room.actions
      BY <1>5, <2>2
    <3>2. QED
      BY <1>2, <1>3, <3>1
  <2>3. QED
    BY <2>1, <2>2
<1>7. (c.accepted => line = wanted) /\ (~c.accepted => line = room.actions)
  OBVIOUS
<1> HIDE DEF line
<1>9. PICK r : r = [answer EXCEPT !.pendingControl = None]
  OBVIOUS
<1>10. /\ r \in RoomStates /\ r.status = "active" /\ r.actions = line
       /\ r.pendingControl = None
       /\ r.endReason = room.endReason /\ r.winnerSeat = room.winnerSeat
  BY <1>8, <1>9 DEF RoomStates, Pendings
<1>11. /\ room' # None /\ room'.status = "active" /\ room'.actions = line
       /\ room'.pendingControl = None
       /\ room'.endReason = room.endReason /\ room'.winnerSeat = room.winnerSeat
  <2>1. room' = committed(r, c)
    BY <1>6, <1>9
  <2>2. QED
    BY <1>2, <1>10, <2>1, CommittedFacts
<1>12. Undecided'
  BY <1>2, <1>3, <1>11 DEF Undecided
<1>13. Match!Accept \/ Match!Drop
  <2>1. [by |-> pending.requester, kind |-> pending.kind, steps |-> pending.steps]
          # None
    <3>1. DOMAIN None = {"none"}
      BY DEF None
    <3>2. QED
      BY <3>1
  <2>2. CASE c.accepted
    <3>1. Match!Wanted = line
      <4>1. Match!Wanted = wanted
        BY <1>2, <1>3, <1>4 DEF Match!Wanted
      <4>2. QED
        BY <1>7, <2>2, <4>1
    <3>2. Match!Accept
      BY <1>2, <1>3, <1>4, <1>11, <2>1, <3>1 DEF Match!Accept
    <3>3. QED
      BY <3>2
  <2>3. CASE ~c.accepted
    BY <1>2, <1>3, <1>4, <1>7, <1>11, <2>1, <2>3 DEF Match!Drop
  <2>4. QED
    BY <2>2, <2>3
<1>14. QED
  BY <1>12, <1>13 DEF AgreedStep, Match!Next

LEMMA ResignLook ==
  ASSUME MatchInv, NEW s \in Seats, RoomReceives(s),
         Head(up[s]).type = "resign", room.status = "active",
         resign(s, Head(up[s])), Undecided
  PROVE  AgreedStep /\ Undecided'
<1>1. PICK c : c = Head(up[s])
  OBVIOUS
<1>2. c \in Commands /\ room # None /\ room \in RoomStates
  BY <1>1, ReceivesFacts, RoomKnown
<1>3. PICK winner \in Winners : winner = opposite(s)
  BY Opposites DEF Winners
<1>4. PICK r : r = [room EXCEPT !.status = "ended", !.endReason = "resign",
                                !.winnerSeat = winner]
  OBVIOUS
<1>5. room' = committed(r, c)
  BY <1>1, <1>3, <1>4 DEF resign
<1>6. /\ r \in RoomStates /\ r.status = "ended" /\ r.actions = room.actions
      /\ r.pendingControl = room.pendingControl
      /\ r.endReason = "resign" /\ r.winnerSeat = winner
  BY <1>2, <1>4 DEF RoomStates, Statuses, EndReasons
<1>7. /\ room' # None /\ room'.status = "ended" /\ room'.actions = room.actions
      /\ room'.pendingControl = room.pendingControl
      /\ room'.endReason = "resign" /\ room'.winnerSeat = winner
  BY <1>2, <1>5, <1>6, CommittedFacts
<1>8. winner = CHOOSE p \in Match!Players : p # s
  <2>1. \A p \in Match!Players : p # s <=> p = opposite(s)
    BY DEF Match!Players, Seats, opposite
  <2>2. opposite(s) \in Match!Players
    BY Opposites DEF Match!Players, Seats
  <2>3. QED
    BY <1>3, <2>1, <2>2
<1>9. Match!Resign(s)
  BY <1>2, <1>7, <1>8 DEF Match!Resign
<1>10. QED
  BY <1>7, <1>9 DEF AgreedStep, Match!Next, Match!Players, Seats, Undecided

LEMMA LeaveLook ==
  ASSUME MatchInv, NEW s \in Seats, RoomReceives(s),
         Head(up[s]).type = "leave", room.status = "active",
         leave(s, Head(up[s])), Undecided
  PROVE  AgreedStep /\ Undecided'
<1>1. PICK c : c = Head(up[s])
  OBVIOUS
<1>2. c \in Commands /\ room # None /\ room \in RoomStates
  BY <1>1, ReceivesFacts, RoomKnown
<1>3. PICK r : r = [room EXCEPT !.status = "ended", !.endReason = "left"]
  OBVIOUS
<1>4. room' = committed(r, c)
  BY <1>1, <1>3 DEF leave
<1>5. /\ r \in RoomStates /\ r.status = "ended" /\ r.actions = room.actions
      /\ r.pendingControl = room.pendingControl
      /\ r.endReason = "left" /\ r.winnerSeat = "none"
  BY <1>2, <1>3 DEF RoomStates, Statuses, EndReasons, Undecided
<1>6. /\ room' # None /\ room'.status = "ended" /\ room'.actions = room.actions
      /\ room'.pendingControl = room.pendingControl
      /\ room'.endReason = "left" /\ room'.winnerSeat = "none"
  BY <1>2, <1>4, <1>5, CommittedFacts
<1>7. Match!Leave
  BY <1>2, <1>6 DEF Match!Leave
<1>8. QED
  BY <1>6, <1>7 DEF AgreedStep, Match!Next, Undecided

LEMMA ReceivesLook ==
  ASSUME MatchInv, NEW s \in Seats, RoomReceives(s), LinesTransform, Undecided
  PROVE  AgreedStep /\ Undecided'
<1>1. PICK c : c = Head(up[s])
  OBVIOUS
<1>2. /\ c \in Commands
      /\ \/ answerAgain(s, c)
         \/ rejectCommand(s, c, "stale_revision")
         \/ current(c) /\ handleCommand(s, c)
  BY <1>1, ReceivesFacts
<1>3. CASE answerAgain(s, c)
  BY <1>3, SameRoom DEF answerAgain
<1>4. CASE rejectCommand(s, c, "stale_revision")
  BY <1>1, <1>4, RejectLook DEF Errors
<1>5. CASE rejectCommand(s, c, "action_rejected")
  BY <1>1, <1>5, RejectLook DEF Errors
<1>6. CASE current(c) /\ handleCommand(s, c)
  <2>1. c.type \in {"action", "request", "respond", "resign", "leave"}
    BY <1>2 DEF Commands
  <2>2. CASE c.type = "action"
    <3>1. applyAction(s, c)
      BY <1>6, <2>2 DEF handleCommand
    <3>2. QED
      BY <1>1, <1>5, <2>2, <3>1, ActionLook DEF applyAction
  <2>3. CASE c.type = "request"
    <3>1. requestControl(s, c)
      BY <1>6, <2>3 DEF handleCommand
    <3>2. CASE may_request(c)
      BY <1>1, <2>3, <3>1, <3>2, RequestLook
    <3>3. CASE ~may_request(c)
      BY <1>5, <3>1, <3>3 DEF requestControl
    <3>4. QED
      BY <3>2, <3>3
  <2>4. CASE c.type = "respond"
    <3>1. respondControl(s, c)
      BY <1>6, <2>4 DEF handleCommand
    <3>2. CASE may_respond(s, c)
      BY <1>1, <1>6, <2>4, <3>1, <3>2, RespondLook
    <3>3. CASE ~may_respond(s, c)
      BY <1>5, <3>1, <3>3 DEF respondControl
    <3>4. QED
      BY <3>2, <3>3
  <2>5. CASE c.type = "resign"
    <3>1. resign(s, c)
      BY <1>6, <2>5 DEF handleCommand
    <3>2. CASE room.status = "active"
      BY <1>1, <2>5, <3>1, <3>2, ResignLook
    <3>3. CASE room.status # "active"
      BY <1>5, <3>1, <3>3 DEF resign
    <3>4. QED
      BY <3>2, <3>3
  <2>6. CASE c.type = "leave"
    <3>1. leave(s, c)
      BY <1>6, <2>6 DEF handleCommand
    <3>2. CASE room.status = "active"
      BY <1>1, <2>6, <3>1, <3>2, LeaveLook
    <3>3. CASE room.status # "active"
      BY <1>5, <3>1, <3>3 DEF leave
    <3>4. QED
      BY <3>2, <3>3
  <2>7. QED
    BY <2>1, <2>2, <2>3, <2>4, <2>5, <2>6
<1>7. QED
  BY <1>2, <1>3, <1>4, <1>6

LEMMA CancelLook ==
  ASSUME MatchInv, Cancel, Undecided
  PROVE  AgreedStep /\ Undecided'
<1>1. room # None /\ room' = None
  BY DEF Cancel, cancel
<1>2. room.status \in Statuses
  BY <1>1, RoomKnown DEF RoomStates
<1>3. QED
  BY <1>1, <1>2, GoneLook

(* Every other step leaves the room alone. *)
LEMMA AgreedNext ==
  ASSUME MatchInv, LinesTransform, JoinsOnce', [Next]_vars, Undecided
  PROVE  AgreedStep /\ Undecided'
<1>1. CASE UNCHANGED vars
  BY <1>1, SameRoom DEF vars, roomVars
<1>2. ASSUME NEW s \in Seats,
             User(s) \/ Connecting(s) \/ Handling(s) \/ Network(s)
               \/ GiveUp(s) \/ WelcomeTimeout(s) \/ CommandTimeout(s)
      PROVE  AgreedStep /\ Undecided'
  <2>1. CASE User(s)
    BY <2>1, SameRoom DEF User, SubmitLocalAction, Request, Respond, Resign, Leave,
                          SendCommand, LeaveOffline, RetryConnection, roomVars
  <2>2. CASE Connecting(s)
    <3>1. CASE RoomUnavailable(s) \/ ConnectFails(s)
      BY <3>1, SameRoom DEF RoomUnavailable, ConnectFails, roomVars
    <3>2. QED
      BY <2>2, <3>1, TicketLook DEF Connecting
  <2>3. CASE Handling(s)
    BY <2>3, SameRoom DEF Handling, BeginMessage, EndMessage, HandleAtOnce, roomVars
  <2>4. CASE Network(s)
    <3>1. CASE Break(s) \/ AppRestarts(s) \/ ReadClose(s) \/ RoomReadsClose(s)
      BY <3>1, SameRoom DEF Break, AppRestarts, ReadClose, RoomReadsClose,
                            webSocketClose, roomVars
    <3>2. QED
      BY <2>4, <3>1, ReceivesLook DEF Network
  <2>5. CASE GiveUp(s) \/ WelcomeTimeout(s) \/ CommandTimeout(s)
    BY <2>5, SameRoom DEF GiveUp, WelcomeTimeout, CommandTimeout, roomVars
  <2>6. QED
    BY <1>2, <2>1, <2>2, <2>3, <2>4, <2>5
<1>3. ASSUME NEW j \in Joiners, Join(j) \/ Joined(j)
      PROVE  AgreedStep /\ Undecided'
  <2>1. CASE Join(j)
    BY <2>1, SameRoom DEF Join, BeginJoin
  <2>2. QED
    BY <1>3, <2>1, JoinedLook
<1>4. CASE Cancel \/ RoomAlarm
  BY <1>4, CancelLook, AlarmLook
<1>5. QED
  BY <1>1, <1>2, <1>3, <1>4 DEF Next

(* The line, the result and the offer of the room behave as a match of two *)
(* players does: moves come in turn and by the rules, the line changes     *)
(* otherwise only by an offer that the other side accepts, nothing but the *)
(* offer's end happens to a line under one, and a result stands            *)
(* (applyAction, requestControl, respondControl, resign, leave and alarm in*)
(* game_room.ts, with the guards of cloud_match_coordinator.dart).         *)
THEOREM RoomKeepsTheMatch ==
  ASSUME LinesTransform
  PROVE  Spec /\ []JoinsOnce => KeepsTheMatch
<1>1. Init => Match!Init /\ Undecided
  <2> SUFFICES ASSUME Init PROVE Match!Init /\ Undecided
    OBVIOUS
  <2>1. /\ room.status = "waiting" /\ room.actions = << >>
        /\ room.endReason = "none" /\ room.winnerSeat = "none"
        /\ room.pendingControl = None
    BY DEF Init, RoomInit
  <2>2. room # None
    BY MatchInit, Somethings DEF Init, RoomInit, None
  <2>3. QED
    BY <2>1, <2>2 DEF Match!Init, Match!Open, Undecided
<1>2. MatchInv /\ Undecided /\ JoinsOnce' /\ [Next]_vars
        => [Match!Next]_(Match!matchVars) /\ Undecided'
  BY AgreedNext DEF AgreedStep
<1>3. QED
  BY <1>1, <1>2, MatchFits, PTL DEF Spec, KeepsTheMatch, Match!Spec

(* With one joiner nothing is left to assume of the joins. *)
THEOREM OneJoiner ==
  ASSUME LinesTransform, \A i, j \in Joiners : i = j
  PROVE  Spec => KeepsTheMatch /\ [](OnlineTypeOK /\ WinnerIsTheRooms)
<1>1. JoinsOnce
  BY DEF JoinsOnce
<1>2. QED
  BY <1>1, MatchWellFormed, WinnersAreTheRooms, RoomKeepsTheMatch, PTL

=============================================================================
