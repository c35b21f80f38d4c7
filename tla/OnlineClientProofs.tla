------------------------- MODULE OnlineClientProofs -------------------------
(***************************************************************************)
(* What the clients of a match over an online room show and are told, for  *)
(* any number of joiners, commands, losses and any rules, as long as the   *)
(* invitation seats one player (JoinsOnce, as in OnlineMatchProofs).       *)
(*                                                                         *)
(* The first part: a command takes effect on the line its user saw, and    *)
(* when nothing is on its way an open connection means that client and     *)
(* room agree.  The second: a command that the room has refused has had no *)
(* effect and will have none, so that its sender is told falsely that it   *)
(* failed only by the timer of _sendCommand; for what takes effect before  *)
(* it is refused, that the room still remembers it is assumed.             *)
(***************************************************************************)
EXTENDS OnlineMatchProofs

-----------------------------------------------------------------------------
(* The line and the request that a client shows.                           *)
(*                                                                         *)
(* A client counts a revision only after it shows the line of the snapshot *)
(* that brought it, or at a message that changes no line.  That this is    *)
(* enough needs the order in which messages wait (InOrder) and, at every   *)
(* place where the room's revision waits, that the last snapshot before it *)
(* has the room's line and the last word about a request is so (OnTheWay). *)
(*                                                                         *)
(* A message tells of the line, or of the request, or of neither: what a   *)
(* client will show at a message is what the last one that tells has said. *)
(* The invariant says so of every place where the revision is the room's:  *)
(* the client, the message in hand (place 0) and each one on its way.      *)

(* A message puts a request on display, or takes it off.                   *)
Opens(s, m) ==
    \/ m.type = "controlRequest"
    \/ m.type \in WithStatus /\ m.pending # None /\ m.pending.requester # s
Closes(m) == m.type \in WithStatus /\ m.pending = None

Awaited(s) == room.pendingControl # None /\ room.pendingControl.requester # s
Asking(s) == room.pendingControl # None /\ room.pendingControl.requester = s

(* A request is on display once the message in hand has been handled.      *)
Displays(s) ==
    IF client[s].inbound = None THEN client[s].request # None
    ELSE \/ Opens(s, client[s].inbound)
         \/ client[s].request # None /\ ~Closes(client[s].inbound)

(* The last word on the way to place i: what was told and not denied since,*)
(* and what was never denied.                                              *)
Told(tells, denies, q, i) ==
    \E k \in 1..i : q[k] \in tells /\ \A j \in k+1..i : q[j] \notin denies
Undenied(denies, q, i) == \A j \in 1..i : q[j] \notin denies

LineTold == {m \in Messages : m.type \in CarriesSnapshot /\ m.actions = room.actions}
LineDenied == {m \in Messages : m.type \in CarriesSnapshot /\ m.actions # room.actions}
RequestTold(s) == {m \in Messages : IF Awaited(s) THEN Opens(s, m) ELSE Closes(m)}
RequestDenied(s) == {m \in Messages : IF Awaited(s) THEN Closes(m) ELSE Opens(s, m)}

KnowsLine(s, i) ==
    \/ Told(LineTold, LineDenied, down[s], i)
    \/ client[s].game = room.actions /\ Undenied(LineDenied, down[s], i)
KnowsRequest(s, i) ==
    \/ Told(RequestTold(s), RequestDenied(s), down[s], i)
    \/ (Displays(s) <=> Awaited(s)) /\ Undenied(RequestDenied(s), down[s], i)
Known(s, i) == KnowsLine(s, i) /\ KnowsRequest(s, i)

SeqAt(s, i) ==
    IF i > 0 THEN down[s][i].seq
    ELSE IF client[s].inbound # None THEN client[s].inbound.seq
    ELSE client[s].revision

(* The client has started again, and nothing of before reaches it.         *)
StartedAgain(s) ==
    /\ client[s].request = None /\ client[s].inbound = None
    /\ down[s] = << >> /\ sockets[s] # "open"

(* Revisions only grow on the way to a client, so that every message is    *)
(* fresh when it is handled.                                               *)
InOrder(s) ==
    /\ client[s].saved <= client[s].revision
    /\ client[s].revision <= SeqAt(s, 0)
    /\ \A i, j \in 0..Len(down[s]) : i <= j => SeqAt(s, i) <= SeqAt(s, j)
    /\ client[s].inbound # None => client[s].game = client[s].inbound.actions
    /\ \A m \in Carried(s) : m.type = "controlResult" => m.pending = None
    /\ \A c \in Range(client[s].pendingCommands) : c.expectedSeq <= client[s].revision
    /\ \A c \in Range(up[s]) : c.expectedSeq <= client[s].revision \/ StartedAgain(s)
    /\ room = None => sockets[s] # "open"

(* Whoever has the room's revision has its line and knows whether it waits *)
(* for his answer; an open socket's queue ends there; and who has asked    *)
(* has nothing to answer.                                                  *)
AtRevision(s) ==
    client[s].revision = room.seq =>
      /\ client[s].game = room.actions
      /\ client[s].inbound = None /\ client[s].request # None => Awaited(s)
OnTheWay(s) ==
    \A i \in 0..Len(down[s]) :
      SeqAt(s, i) = room.seq /\ (i = 0 => client[s].inbound # None) => Known(s, i)
ReachesTheRoom(s) ==
    sockets[s] = "open" =>
      SeqAt(s, Len(down[s])) = room.seq /\ Known(s, Len(down[s]))
Resumable(s) == client[s].saved = room.seq => client[s].actionLog = room.actions
SeenByItsUser(s) ==
    \A c \in CommandsOf(s) : c.expectedSeq = room.seq => c.seen = room.actions
AskerWaits(s) ==
    Asking(s) => ~Displays(s) /\ \A m \in Range(down[s]) : ~Opens(s, m)

InStep(s) ==
    room # None =>
      /\ AtRevision(s) /\ OnTheWay(s) /\ ReachesTheRoom(s)
      /\ Resumable(s) /\ SeenByItsUser(s) /\ AskerWaits(s)

LineInv ==
    /\ MatchInv
    /\ \A s \in Seats : InOrder(s) /\ InStep(s)

-----------------------------------------------------------------------------
(* Hearsay.                                                                *)

LEMMA ToldAlike ==
  ASSUME NEW tells, NEW denies, NEW q, NEW r, NEW i \in Nat,
         \A j \in 1..i : q[j] = r[j]
  PROVE  /\ Told(tells, denies, q, i) => Told(tells, denies, r, i)
         /\ Undenied(denies, q, i) => Undenied(denies, r, i)
<1>1. ASSUME Told(tells, denies, q, i) PROVE Told(tells, denies, r, i)
  <2>1. PICK k \in 1..i : q[k] \in tells /\ \A j \in k+1..i : q[j] \notin denies
    BY <1>1 DEF Told
  <2>2. \A j \in k+1..i : j \in 1..i
    BY <2>1
  <2>3. QED
    BY <2>1, <2>2 DEF Told
<1>2. QED
  BY <1>1 DEF Undenied

LEMMA ToldLast ==
  ASSUME NEW tells, NEW denies, NEW q, NEW i \in Nat, q[i + 1] \in tells
  PROVE  Told(tells, denies, q, i + 1)
<1>1. i + 1 \in 1..(i + 1) /\ (i + 1)+1..(i + 1) = {}
  OBVIOUS
<1>2. QED
  BY <1>1 DEF Told

LEMMA ToldNext ==
  ASSUME NEW tells, NEW denies, NEW q, NEW i \in Nat, q[i + 1] \notin denies
  PROVE  /\ Told(tells, denies, q, i) => Told(tells, denies, q, i + 1)
         /\ Undenied(denies, q, i) => Undenied(denies, q, i + 1)
<1>1. ASSUME Told(tells, denies, q, i) PROVE Told(tells, denies, q, i + 1)
  <2>1. PICK k \in 1..i : q[k] \in tells /\ \A j \in k+1..i : q[j] \notin denies
    BY <1>1 DEF Told
  <2>2. k \in 1..(i + 1) /\ \A j \in k+1..(i + 1) : j \in k+1..i \/ j = i + 1
    BY <2>1
  <2>3. QED
    BY <2>1, <2>2 DEF Told
<1>2. \A j \in 1..(i + 1) : j \in 1..i \/ j = i + 1
  OBVIOUS
<1>3. QED
  BY <1>1, <1>2 DEF Undenied

(* Without its first message.                                              *)
LEMMA ToldTail ==
  ASSUME NEW tells, NEW denies, NEW q, NEW r, NEW i \in Nat,
         \A j \in 1..i : r[j] = q[j + 1]
  PROVE  /\ Told(tells, denies, q, i + 1) =>
              Told(tells, denies, r, i) \/ (q[1] \in tells /\ Undenied(denies, r, i))
         /\ Undenied(denies, q, i + 1) => q[1] \notin denies /\ Undenied(denies, r, i)
<1>1. ASSUME Told(tells, denies, q, i + 1)
      PROVE  Told(tells, denies, r, i) \/ (q[1] \in tells /\ Undenied(denies, r, i))
  <2>1. PICK k \in 1..(i + 1) :
          q[k] \in tells /\ \A j \in k+1..(i + 1) : q[j] \notin denies
    BY <1>1 DEF Told
  <2>2. CASE k = 1
    <3>1. \A j \in 1..i : j + 1 \in k+1..(i + 1)
      BY <2>2
    <3>2. QED
      BY <2>1, <2>2, <3>1 DEF Undenied
  <2>3. CASE k # 1
    <3> DEFINE l == k - 1
    <3>1. l \in 1..i /\ l + 1 = k
      BY <2>3
    <3>2. \A j \in l+1..i : j \in 1..i /\ j + 1 \in k+1..(i + 1)
      BY <3>1
    <3> HIDE DEF l
    <3>3. r[l] \in tells /\ \A j \in l+1..i : r[j] \notin denies
      BY <2>1, <3>1, <3>2
    <3>4. QED
      BY <3>1, <3>3 DEF Told
  <2>4. QED
    BY <2>2, <2>3
<1>2. ASSUME Undenied(denies, q, i + 1)
      PROVE  q[1] \notin denies /\ Undenied(denies, r, i)
  <2>1. 1 \in 1..(i + 1) /\ \A j \in 1..i : j + 1 \in 1..(i + 1)
    OBVIOUS
  <2>2. QED
    BY <1>2, <2>1 DEF Undenied
<1>3. QED
  BY <1>1, <1>2

-----------------------------------------------------------------------------
(* Places on the way.                                                      *)

LEMMA PlaceFacts ==
  ASSUME Shape, NEW s \in Seats
  PROVE  /\ Len(down[s]) \in Nat /\ DOMAIN down[s] = 1..Len(down[s])
         /\ \A i \in 1..Len(down[s]) :
              down[s][i] \in Messages /\ down[s][i] \in Range(down[s])
         /\ \A i \in 0..Len(down[s]) : SeqAt(s, i) \in Nat
         /\ client[s].revision \in Nat /\ client[s].saved \in Nat
<1>1. /\ down[s] \in Seq(Messages) /\ client[s] \in Clients
  BY ShapeFacts
<1>2. Len(down[s]) \in Nat /\ DOMAIN down[s] = 1..Len(down[s])
  BY <1>1
<1>3. \A i \in 1..Len(down[s]) :
        down[s][i] \in Messages /\ down[s][i] \in Range(down[s])
  BY <1>1, <1>2 DEF Range
<1>4. \A i \in 1..Len(down[s]) : down[s][i].seq \in Nat
  BY <1>3, MessageFacts
<1>5. client[s].inbound # None => client[s].inbound.seq \in Nat
  BY <1>1, ClientFacts, MessageFacts
<1>6. \A i \in 0..Len(down[s]) : SeqAt(s, i) \in Nat
  BY <1>1, <1>2, <1>4, <1>5, ClientFacts DEF SeqAt
<1>7. QED
  BY <1>1, <1>2, <1>3, <1>6, ClientFacts

(* Nothing on the way, and nothing that the client has, is ahead of the    *)
(* room.                                                                   *)
LEMMA WithinTheRoom ==
  ASSUME MatchInv, room # None, NEW s \in Seats
  PROVE  /\ \A i \in 0..Len(down[s]) : SeqAt(s, i) <= room.seq
         /\ client[s].revision <= room.seq /\ client[s].saved <= room.seq
         /\ \A c \in CommandsOf(s) : c.expectedSeq <= room.seq /\ c.expectedSeq \in Nat
         /\ room.seq \in Nat
<1>1. Shape /\ SeatFits(s)
  BY DEF MatchInv, SeatsFit
<1>2. \A m \in Carried(s) : m.seq <= room.seq
  BY <1>1 DEF SeatFits, TrueNews, Past
<1>3. client[s].revision <= room.seq /\ client[s].saved <= room.seq
  BY <1>1 DEF SeatFits, Past
<1>4. \A i \in 1..Len(down[s]) : down[s][i].seq <= room.seq
  BY <1>1, <1>2, PlaceFacts DEF Carried
<1>5. client[s].inbound # None => client[s].inbound.seq <= room.seq
  BY <1>2 DEF Carried
<1>6. \A i \in 0..Len(down[s]) : SeqAt(s, i) <= room.seq
  BY <1>1, <1>3, <1>4, <1>5, PlaceFacts DEF SeqAt
<1>7. \A c \in CommandsOf(s) : c.expectedSeq <= room.seq /\ c.expectedSeq \in Nat
  BY <1>1, ShapeFacts, CommandFacts DEF SeatFits, TrueCommand, Past
<1>8. room.seq \in Nat
  BY RoomKnown, RoomFacts
<1>9. QED
  BY <1>3, <1>6, <1>7, <1>8

(* The client keeps what it knows; it may lose commands.                   *)
Keeps(s) ==
    /\ client'[s].revision = client[s].revision /\ client'[s].saved = client[s].saved
    /\ client'[s].game = client[s].game /\ client'[s].actionLog = client[s].actionLog
    /\ client'[s].request = client[s].request
    /\ client'[s].inbound = client[s].inbound
Held(s) ==
    /\ Keeps(s)
    /\ Range(client'[s].pendingCommands) \subseteq Range(client[s].pendingCommands)
    /\ Range(up'[s]) \subseteq Range(up[s])

LEMMA KeepsFacts ==
  ASSUME NEW s \in Seats, Keeps(s)
  PROVE  (Displays(s)' <=> Displays(s)) /\ SeqAt(s, 0)' = SeqAt(s, 0)
<1>1. Displays(s)' <=> Displays(s)
  BY DEF Keeps, Displays, Opens, Closes
<1>2. SeqAt(s, 0)' = SeqAt(s, 0)
  BY DEF Keeps, SeqAt
<1>3. QED
  BY <1>1, <1>2

LEMMA HeldFacts ==
  ASSUME NEW s \in Seats, Held(s)
  PROVE  /\ Displays(s)' <=> Displays(s)
         /\ SeqAt(s, 0)' = SeqAt(s, 0)
         /\ CommandsOf(s)' \subseteq CommandsOf(s)
  BY KeepsFacts DEF Held, CommandsOf

(* What comes after the old messages has the highest revision.             *)
LEMMA OrderHeld ==
  ASSUME Shape, Shape', NEW s \in Seats, InOrder(s), Held(s), NEW n \in Nat,
         \A i \in 0..Len(down[s]) : SeqAt(s, i) <= n,
         \A i \in 1..Len(down'[s]) :
           \/ i <= Len(down[s]) /\ down'[s][i] = down[s][i]
           \/ i > Len(down[s]) /\ down'[s][i].seq = n,
         \A m \in Range(down'[s]) :
           m \in Range(down[s]) \/ (m.type = "controlResult" => m.pending = None),
         StartedAgain(s) => StartedAgain(s)' \/ up'[s] = << >>,
         room' = None => sockets'[s] # "open"
  PROVE  InOrder(s)'
<1> DEFINE l == Len(down[s])
           k == Len(down'[s])
<1>1. l \in Nat /\ k \in Nat /\ (\A i \in 0..l : SeqAt(s, i) \in Nat)
  BY PlaceFacts DEF Shape
<1>2. SeqAt(s, 0)' = SeqAt(s, 0)
  BY HeldFacts
<1>3. \A i \in 1..k : (i <= l /\ SeqAt(s, i)' = SeqAt(s, i)) \/ (i > l /\ SeqAt(s, i)' = n)
  BY DEF SeqAt
<1>4. \A i, j \in 0..l : i <= j => SeqAt(s, i) <= SeqAt(s, j)
  BY DEF InOrder
<1>5. \A i \in 0..k : (i <= l /\ SeqAt(s, i)' = SeqAt(s, i)) \/ (i > l /\ SeqAt(s, i)' = n)
  BY <1>1, <1>2, <1>3
<1>6. \A i, j \in 0..k : i <= j => SeqAt(s, i)' <= SeqAt(s, j)'
  <2> SUFFICES ASSUME NEW i \in 0..k, NEW j \in 0..k, i <= j
               PROVE  SeqAt(s, i)' <= SeqAt(s, j)'
    OBVIOUS
  <2>1. CASE j <= l
    <3>1. i \in 0..l /\ j \in 0..l
      BY <1>1, <2>1
    <3>2. SeqAt(s, i)' = SeqAt(s, i) /\ SeqAt(s, j)' = SeqAt(s, j)
      BY <1>1, <1>5, <3>1
    <3>3. QED
      BY <1>4, <3>1, <3>2
  <2>2. CASE j > l
    <3>1. SeqAt(s, j)' = n
      BY <1>1, <1>5, <2>2
    <3>2. CASE i <= l
      <4>1. i \in 0..l
        BY <1>1, <3>2
      <4>2. QED
        BY <1>1, <1>5, <3>1, <3>2, <4>1
    <3>3. CASE i > l
      BY <1>1, <1>5, <3>1, <3>3
    <3>4. QED
      BY <1>1, <3>2, <3>3
  <2>3. QED
    BY <1>1, <2>1, <2>2
<1>7. \A m \in Carried(s)' : m.type = "controlResult" => m.pending = None
  BY DEF Carried, Held, Keeps, InOrder
<1>8. \A c \in Range(up'[s]) : c.expectedSeq <= client'[s].revision \/ StartedAgain(s)'
  BY EmptyRange DEF Held, Keeps, InOrder
<1> HIDE DEF l, k
<1>9. /\ client'[s].saved <= client'[s].revision /\ client'[s].revision <= SeqAt(s, 0)'
      /\ client'[s].inbound # None => client'[s].game = client'[s].inbound.actions
      /\ \A c \in Range(client'[s].pendingCommands) :
            c.expectedSeq <= client'[s].revision
  BY <1>2 DEF Held, Keeps, InOrder
<1>10. QED
  BY <1>6, <1>7, <1>8, <1>9 DEF InOrder, k

(* What is on its way stays known as long as the line and the question of  *)
(* who is to answer are as they were.                                      *)
LEMMA KnownStays ==
  ASSUME NEW s \in Seats, Keeps(s), NEW i \in Nat,
         \A j \in 1..i : down[s][j] = down'[s][j]
  PROVE  /\ room'.actions = room.actions /\ KnowsLine(s, i) => KnowsLine(s, i)'
         /\ (Awaited(s)' <=> Awaited(s)) /\ KnowsRequest(s, i) => KnowsRequest(s, i)'
<1>1. ASSUME room'.actions = room.actions, KnowsLine(s, i) PROVE KnowsLine(s, i)'
  <2>1. LineTold' = LineTold /\ LineDenied' = LineDenied
    BY <1>1 DEF LineTold, LineDenied
  <2>2. client'[s].game = room'.actions <=> client[s].game = room.actions
    BY <1>1 DEF Keeps
  <2>3. QED
    BY <1>1, <2>1, <2>2, ToldAlike DEF KnowsLine
<1>2. ASSUME Awaited(s)' <=> Awaited(s), KnowsRequest(s, i) PROVE KnowsRequest(s, i)'
  <2>1. RequestTold(s)' = RequestTold(s) /\ RequestDenied(s)' = RequestDenied(s)
    BY <1>2 DEF RequestTold, RequestDenied, Opens, Closes
  <2>2. (Displays(s) <=> Awaited(s))' <=> (Displays(s) <=> Awaited(s))
    BY <1>2, KeepsFacts
  <2>3. QED
    BY <1>2, <2>1, <2>2, ToldAlike DEF KnowsRequest
<1>3. QED
  BY <1>1, <1>2

(* What the room says to a seat of a room that has become this one.        *)
Says(s, m) ==
    /\ m.seq = room'.seq
    /\ m \notin LineDenied'
    /\ m \in LineTold' \/ (sockets[s] = "open" /\ room'.actions = room.actions)
    /\ m \notin RequestDenied(s)'
    /\ \/ m \in RequestTold(s)'
       \/ Asking(s)'
       \/ sockets[s] = "open" /\ (Awaited(s)' <=> Awaited(s))
    /\ Asking(s)' => ~Opens(s, m)

LEMMA SaidIsKnown ==
  ASSUME Shape, NEW s \in Seats, Held(s), NEW m \in Messages, Says(s, m),
         down'[s] = Append(down[s], m), NEW n \in Nat, n = Len(down[s]),
         sockets[s] = "open" => Known(s, n),
         Asking(s)' => ~Displays(s) /\ \A x \in Range(down[s]) : ~Opens(s, x)
  PROVE  Known(s, n + 1)'
<1>1. n \in Nat /\ n + 1 \in Nat /\ down[s] \in Seq(Messages)
  BY PlaceFacts, ShapeFacts
<1>2. down'[s][n + 1] = m /\ \A j \in 1..n : down[s][j] = down'[s][j]
  BY <1>1
<1>3. KnowsLine(s, n + 1)'
  <2>1. CASE m \in LineTold'
    <3>1. Told(LineTold', LineDenied', down'[s], n + 1)
      BY <1>1, <1>2, <2>1, ToldLast
    <3>2. QED
      BY <3>1 DEF KnowsLine
  <2>2. CASE sockets[s] = "open" /\ room'.actions = room.actions
    <3>1. KnowsLine(s, n)'
      BY <1>1, <1>2, <2>2, KnownStays DEF Held, Known
    <3>2. m \notin LineDenied'
      BY DEF Says
    <3>3. QED
      BY <1>1, <1>2, <3>1, <3>2, ToldNext DEF KnowsLine
  <2>3. QED
    BY <2>1, <2>2 DEF Says
<1>4. KnowsRequest(s, n + 1)'
  <2>1. CASE m \in RequestTold(s)'
    <3>1. Told(RequestTold(s)', RequestDenied(s)', down'[s], n + 1)
      BY <1>1, <1>2, <2>1, ToldLast
    <3>2. QED
      BY <3>1 DEF KnowsRequest
  <2>2. CASE sockets[s] = "open" /\ (Awaited(s)' <=> Awaited(s))
    <3>1. KnowsRequest(s, n)'
      BY <1>1, <1>2, <2>2, KnownStays DEF Held, Known
    <3>2. m \notin RequestDenied(s)'
      BY DEF Says
    <3>3. QED
      BY <1>1, <1>2, <3>1, <3>2, ToldNext DEF KnowsRequest
  <2>3. CASE Asking(s)'
    <3>1. ~Awaited(s)' /\ ~Displays(s)'
      BY <2>3, HeldFacts DEF Awaited, Asking
    <3>2. ASSUME NEW j \in 1..(n + 1) PROVE down'[s][j] \notin RequestDenied(s)'
      <4>1. CASE j = n + 1
        BY <1>2, <4>1 DEF Says
      <4>2. CASE j \in 1..n
        <5>1. ~Opens(s, down'[s][j])
          BY <1>2, <2>3, <4>2, PlaceFacts
        <5>2. QED
          BY <3>1, <5>1 DEF RequestDenied, Opens
      <4>3. QED
        BY <1>1, <4>1, <4>2
    <3>3. Undenied(RequestDenied(s)', down'[s], n + 1)
      BY <3>2 DEF Undenied
    <3>4. QED
      BY <3>1, <3>3 DEF KnowsRequest
  <2>4. QED
    BY <2>1, <2>2, <2>3 DEF Says
<1>5. QED
  BY <1>3, <1>4 DEF Known

(* The room's step as a seat sees it: nothing, or one message more.        *)
Listens(s) ==
    /\ Held(s)
    /\ room'.seq \in {room.seq, room.seq + 1}
    /\ room'.seq = room.seq =>
         room'.actions = room.actions /\ (Awaited(s)' <=> Awaited(s))
    /\ \/ /\ down'[s] = down[s]
          /\ sockets'[s] = "open" => sockets[s] = "open" /\ room'.seq = room.seq
       \/ \E m \in Messages : Says(s, m) /\ down'[s] = Append(down[s], m)
    /\ Asking(s)' => ~Displays(s) /\ \A m \in Range(down[s]) : ~Opens(s, m)

LEMMA ListenersFit ==
  ASSUME MatchInv, NEW s \in Seats, InStep(s), Listens(s), room # None, room' # None
  PROVE  InStep(s)'
<1>1. Shape /\ Held(s) /\ AtRevision(s) /\ OnTheWay(s) /\ ReachesTheRoom(s)
      /\ Resumable(s) /\ SeenByItsUser(s) /\ AskerWaits(s)
  BY DEF MatchInv, InStep, Listens
<1>2. PICK n \in Nat : n = Len(down[s])
  BY <1>1, PlaceFacts
<1>3. down[s] \in Seq(Messages) /\ DOMAIN down[s] = 1..n
  BY <1>1, <1>2, ShapeFacts, PlaceFacts
<1>4. \/ down'[s] = down[s] /\ Len(down'[s]) = n
      \/ \E m \in Messages : Says(s, m) /\ down'[s] = Append(down[s], m)
           /\ Len(down'[s]) = n + 1 /\ down'[s][n + 1] = m
  BY <1>2, <1>3 DEF Listens
<1>5. \A i \in 1..n : down'[s][i] = down[s][i]
  BY <1>2, <1>3 DEF Listens
<1>6. \A i \in 0..n : SeqAt(s, i)' = SeqAt(s, i)
  BY <1>1, <1>5, HeldFacts DEF SeqAt
<1>7. /\ \A i \in 0..n : SeqAt(s, i) <= room.seq /\ SeqAt(s, i) \in Nat
      /\ client[s].revision <= room.seq /\ client[s].saved <= room.seq
      /\ client[s].revision \in Nat /\ client[s].saved \in Nat
      /\ \A c \in CommandsOf(s) : c.expectedSeq <= room.seq /\ c.expectedSeq \in Nat
      /\ room.seq \in Nat
  BY <1>1, <1>2, WithinTheRoom, PlaceFacts
<1>8. \A i \in 0..n : room'.seq = room.seq /\ Known(s, i) => Known(s, i)'
  <2> SUFFICES ASSUME NEW i \in 0..n, room'.seq = room.seq, Known(s, i)
               PROVE  Known(s, i)'
    OBVIOUS
  <2>1. i \in Nat /\ \A j \in 1..i : down[s][j] = down'[s][j]
    BY <1>5
  <2>2. QED
    BY <1>1, <2>1, KnownStays DEF Held, Known, Listens
<1>9. AtRevision(s)'
  <2> SUFFICES ASSUME client'[s].revision = room'.seq
               PROVE  /\ client'[s].game = room'.actions
                      /\ client'[s].inbound = None /\ client'[s].request # None
                           => Awaited(s)'
    BY DEF AtRevision
  <2>1. room'.seq = room.seq
    BY <1>1, <1>7 DEF Held, Keeps, Listens
  <2>2. QED
    BY <1>1, <2>1 DEF AtRevision, Held, Keeps, Listens
<1>10. Resumable(s)'
  <2> SUFFICES ASSUME client'[s].saved = room'.seq
               PROVE  client'[s].actionLog = room'.actions
    BY DEF Resumable
  <2>1. room'.seq = room.seq
    BY <1>1, <1>7 DEF Held, Keeps, Listens
  <2>2. QED
    BY <1>1, <2>1 DEF Resumable, Held, Keeps, Listens
<1>11. SeenByItsUser(s)'
  <2> SUFFICES ASSUME NEW c \in CommandsOf(s)', c.expectedSeq = room'.seq
               PROVE  c.seen = room'.actions
    BY DEF SeenByItsUser
  <2>1. c \in CommandsOf(s)
    BY <1>1, HeldFacts
  <2>2. room'.seq = room.seq
    BY <1>7, <2>1 DEF Listens
  <2>3. QED
    BY <1>1, <2>1, <2>2 DEF SeenByItsUser, Listens
<1>12. ASSUME NEW m \in Messages, Says(s, m), down'[s] = Append(down[s], m)
       PROVE  Known(s, n + 1)' /\ SeqAt(s, n + 1)' = room'.seq
  <2>1. Known(s, n + 1)'
    BY <1>1, <1>2, <1>12, SaidIsKnown DEF ReachesTheRoom, Listens
  <2>2. down'[s][n + 1] = m
    BY <1>2, <1>3, <1>12
  <2>3. n + 1 > 0 /\ m.seq = room'.seq
    BY <1>12 DEF Says
  <2>4. SeqAt(s, n + 1)' = room'.seq
    BY <2>2, <2>3 DEF SeqAt
  <2>5. QED
    BY <2>1, <2>4
<1>13. OnTheWay(s)'
  <2> SUFFICES ASSUME NEW i \in 0..Len(down'[s]), SeqAt(s, i)' = room'.seq,
                      i = 0 => client'[s].inbound # None
               PROVE  Known(s, i)'
    BY DEF OnTheWay
  <2>1. CASE i \in 0..n
    <3>1. room'.seq = room.seq
      BY <1>6, <1>7, <2>1 DEF Listens
    <3>2. Known(s, i)
      BY <1>1, <1>2, <1>6, <2>1, <3>1 DEF OnTheWay, Held, Keeps
    <3>3. QED
      BY <1>8, <2>1, <3>1, <3>2
  <2>2. CASE i \notin 0..n
    <3>1. i = n + 1 /\ \E m \in Messages : Says(s, m) /\ down'[s] = Append(down[s], m)
      BY <1>4, <2>2
    <3>2. QED
      BY <1>12, <3>1
  <2>3. QED
    BY <2>1, <2>2
<1>14. ReachesTheRoom(s)'
  <2> SUFFICES ASSUME sockets'[s] = "open", NEW k, k = Len(down'[s])
               PROVE  SeqAt(s, k)' = room'.seq /\ Known(s, k)'
    BY DEF ReachesTheRoom
  <2>1. CASE \E m \in Messages : Says(s, m) /\ down'[s] = Append(down[s], m)
    <3>1. k = n + 1
      BY <1>2, <1>3, <2>1
    <3>2. QED
      BY <1>12, <2>1, <3>1
  <2>2. CASE /\ down'[s] = down[s]
             /\ sockets'[s] = "open" => sockets[s] = "open" /\ room'.seq = room.seq
    <3>1. k = n /\ n \in 0..n /\ sockets[s] = "open" /\ room'.seq = room.seq
      BY <1>2, <2>2
    <3>2. SeqAt(s, n) = room.seq /\ Known(s, n)
      BY <1>1, <1>2, <3>1 DEF ReachesTheRoom
    <3>3. QED
      BY <1>6, <1>8, <3>1, <3>2
  <2>3. QED
    BY <2>1, <2>2 DEF Listens
<1>15. AskerWaits(s)'
  <2> SUFFICES ASSUME Asking(s)'
               PROVE  ~Displays(s)' /\ \A m \in Range(down'[s]) : ~Opens(s, m)
    BY DEF AskerWaits, Opens
  <2>1. ~Displays(s)'
    BY <1>1, HeldFacts DEF Listens
  <2>2. \A m \in Range(down[s]) : ~Opens(s, m)
    BY DEF Listens
  <2>3. CASE \E m \in Messages : Says(s, m) /\ down'[s] = Append(down[s], m)
    <3>1. PICK m \in Messages : Says(s, m) /\ down'[s] = Append(down[s], m)
      BY <2>3
    <3>2. Range(down'[s]) = Range(down[s]) \union {m}
      BY <1>3, <3>1, AppendRange
    <3>3. QED
      BY <2>1, <2>2, <3>1, <3>2 DEF Says
  <2>4. CASE down'[s] = down[s]
    BY <2>1, <2>2, <2>4
  <2>5. QED
    BY <2>3, <2>4 DEF Listens
<1>16. QED
  BY <1>9, <1>10, <1>11, <1>13, <1>14, <1>15 DEF InStep

(* A seat whose client loses its channel, or the rest of what was on its   *)
(* way.                                                                    *)
Drops(s) ==
    /\ Keeps(s)
    /\ sockets'[s] = "open" => sockets[s] = "open"
    /\ \/ down'[s] = down[s]
       \/ /\ sockets'[s] # "open"
          /\ \E k \in 0..Len(down[s]) : down'[s] = SubSeq(down[s], 1, k)
Loses(s) == Held(s) /\ Drops(s)

LEMMA DropsFacts ==
  ASSUME Shape, NEW s \in Seats, Drops(s)
  PROVE  /\ Len(down'[s]) \in 0..Len(down[s])
         /\ \A i \in 1..Len(down'[s]) : down'[s][i] = down[s][i]
         /\ Range(down'[s]) \subseteq Range(down[s])
         /\ StartedAgain(s) => StartedAgain(s)'
         /\ sockets'[s] = "open" => sockets[s] = "open" /\ down'[s] = down[s]
<1>1. down[s] \in Seq(Messages) /\ Len(down[s]) \in Nat
  BY ShapeFacts, PlaceFacts
<1>2. /\ Len(down'[s]) \in 0..Len(down[s])
      /\ \A i \in 1..Len(down'[s]) : down'[s][i] = down[s][i]
      /\ Range(down'[s]) \subseteq Range(down[s])
  <2>1. CASE down'[s] = down[s]
    BY <1>1, <2>1
  <2>2. CASE \E k \in 0..Len(down[s]) : down'[s] = SubSeq(down[s], 1, k)
    <3>1. PICK k \in 0..Len(down[s]) : down'[s] = SubSeq(down[s], 1, k)
      BY <2>2
    <3>2. k \in Nat /\ k <= Len(down[s])
      BY <1>1, <3>1
    <3>3. Range(down'[s]) \subseteq Range(down[s])
      BY <1>1, <3>1, <3>2, SubSeqRange
    <3>4. QED
      BY <1>1, <3>1, <3>2, <3>3
  <2>3. QED
    BY <2>1, <2>2 DEF Drops
<1>3. ASSUME StartedAgain(s) PROVE StartedAgain(s)'
  <2>1. Len(down'[s]) = 0 /\ down'[s] = << >>
    BY <1>1, <1>2, <1>3 DEF StartedAgain, Drops
  <2>2. QED
    BY <1>3, <2>1 DEF StartedAgain, Drops, Keeps
<1>4. QED
  BY <1>2, <1>3 DEF Drops

(* The room that the clients see is the same.                              *)
SameSight ==
    /\ room # None /\ room' # None /\ room'.seq = room.seq
    /\ room'.actions = room.actions /\ room'.pendingControl = room.pendingControl

LEMMA DropsFit ==
  ASSUME Shape, NEW s \in Seats, InStep(s), Drops(s), SameSight, SeenByItsUser(s)'
  PROVE  InStep(s)'
<1>1. /\ Keeps(s) /\ AtRevision(s) /\ OnTheWay(s) /\ ReachesTheRoom(s)
      /\ Resumable(s) /\ AskerWaits(s)
  BY DEF InStep, Drops, SameSight
<1>2. (Awaited(s)' <=> Awaited(s)) /\ (Asking(s)' <=> Asking(s))
  BY DEF SameSight, Awaited, Asking
<1>3. /\ Len(down[s]) \in Nat /\ Len(down'[s]) \in 0..Len(down[s])
      /\ \A i \in 1..Len(down'[s]) : down'[s][i] = down[s][i]
      /\ Range(down'[s]) \subseteq Range(down[s])
  BY DropsFacts, PlaceFacts
<1>4. \A i \in 0..Len(down'[s]) : SeqAt(s, i)' = SeqAt(s, i) /\ (Known(s, i) => Known(s, i)')
  <2> SUFFICES ASSUME NEW i \in 0..Len(down'[s])
               PROVE  SeqAt(s, i)' = SeqAt(s, i) /\ (Known(s, i) => Known(s, i)')
    OBVIOUS
  <2>1. i \in Nat /\ \A j \in 1..i : down[s][j] = down'[s][j]
    BY <1>3
  <2>2. SeqAt(s, i)' = SeqAt(s, i)
    BY <1>1, <1>3, KeepsFacts DEF SeqAt
  <2>3. QED
    BY <1>1, <1>2, <2>1, <2>2, KnownStays DEF Known, SameSight
<1>5. AtRevision(s)'
  BY <1>1, <1>2 DEF AtRevision, Keeps, SameSight
<1>6. Resumable(s)'
  BY <1>1 DEF Resumable, Keeps, SameSight
<1>7. OnTheWay(s)'
  <2> SUFFICES ASSUME NEW i \in 0..Len(down'[s]), SeqAt(s, i)' = room'.seq,
                      i = 0 => client'[s].inbound # None
               PROVE  Known(s, i)'
    BY DEF OnTheWay
  <2>1. i \in 0..Len(down[s]) /\ SeqAt(s, i) = room.seq /\ (i = 0 => client[s].inbound # None)
    BY <1>1, <1>3, <1>4 DEF Keeps, SameSight
  <2>2. QED
    BY <1>1, <1>4, <2>1 DEF OnTheWay
<1>8. ReachesTheRoom(s)'
  <2> SUFFICES ASSUME sockets'[s] = "open", NEW k, k = Len(down'[s])
               PROVE  SeqAt(s, k)' = room'.seq /\ Known(s, k)'
    BY DEF ReachesTheRoom
  <2>1. sockets[s] = "open" /\ k = Len(down[s]) /\ k \in 0..Len(down'[s])
    BY <1>3, DropsFacts
  <2>2. SeqAt(s, k) = room.seq /\ Known(s, k)
    BY <1>1, <2>1 DEF ReachesTheRoom
  <2>3. QED
    BY <1>4, <2>1, <2>2 DEF SameSight
<1>9. AskerWaits(s)'
  <2> SUFFICES ASSUME Asking(s)'
               PROVE  ~Displays(s)' /\ \A m \in Range(down'[s]) : ~Opens(s, m)
    BY DEF AskerWaits, Opens
  <2>1. QED
    BY <1>1, <1>2, <1>3, KeepsFacts DEF AskerWaits
<1>10. QED
  BY <1>5, <1>6, <1>7, <1>8, <1>9 DEF InStep

LEMMA LosersFit ==
  ASSUME Shape, NEW s \in Seats, InStep(s), Loses(s), SameSight
  PROVE  InStep(s)'
<1>1. SeenByItsUser(s)
  BY DEF InStep, SameSight
<1>2. SeenByItsUser(s)'
  BY <1>1, HeldFacts DEF SeenByItsUser, SameSight, Loses
<1>3. QED
  BY <1>2, DropsFit DEF Loses

LEMMA LosersOrder ==
  ASSUME Shape, Shape', NEW s \in Seats, InOrder(s), Loses(s),
         room' = None => sockets'[s] # "open"
  PROVE  InOrder(s)'
<1> DEFINE l == Len(down[s])
           n == SeqAt(s, l)
<1>1. l \in Nat /\ l \in 0..l /\ \A i \in 0..l : SeqAt(s, i) \in Nat
  BY PlaceFacts
<1>2. n \in Nat /\ \A i \in 0..l : SeqAt(s, i) <= n
  BY <1>1 DEF InOrder
<1> HIDE DEF n
<1>3. /\ Held(s) /\ Len(down'[s]) \in 0..l
      /\ \A i \in 1..Len(down'[s]) : down'[s][i] = down[s][i]
      /\ Range(down'[s]) \subseteq Range(down[s])
      /\ StartedAgain(s) => StartedAgain(s)'
  BY DropsFacts DEF Loses
<1>4. QED
  BY <1>2, <1>3, OrderHeld

LEMMA ListenersOrder ==
  ASSUME MatchInv, Shape', NEW s \in Seats, InOrder(s), Listens(s),
         room # None, room' # None,
         StartedAgain(s) => StartedAgain(s)' \/ up'[s] = << >>,
         \A m \in Messages : down'[s] = Append(down[s], m) =>
           (m.type = "controlResult" => m.pending = None)
  PROVE  InOrder(s)'
<1>1. Shape /\ Held(s) /\ down[s] \in Seq(Messages) /\ Len(down[s]) \in Nat
  BY ShapeFacts, PlaceFacts DEF MatchInv, Listens
<1>2. /\ \A i \in 0..Len(down[s]) : SeqAt(s, i) <= room'.seq
      /\ room'.seq \in Nat
  BY <1>1, WithinTheRoom, PlaceFacts DEF Listens
<1>3. /\ \A i \in 1..Len(down'[s]) :
           \/ i <= Len(down[s]) /\ down'[s][i] = down[s][i]
           \/ i > Len(down[s]) /\ down'[s][i].seq = room'.seq
      /\ \A m \in Range(down'[s]) :
           m \in Range(down[s]) \/ (m.type = "controlResult" => m.pending = None)
  <2>1. CASE down'[s] = down[s]
    BY <1>1, <2>1
  <2>2. CASE \E m \in Messages : Says(s, m) /\ down'[s] = Append(down[s], m)
    <3>1. PICK m \in Messages : Says(s, m) /\ down'[s] = Append(down[s], m)
      BY <2>2
    <3>2. m.seq = room'.seq
      BY <3>1 DEF Says
    <3>3. Range(down'[s]) = Range(down[s]) \union {m}
      BY <1>1, <3>1, AppendRange
    <3>4. QED
      BY <1>1, <3>1, <3>2, <3>3
  <2>3. QED
    BY <2>1, <2>2 DEF Listens
<1>4. QED
  BY <1>1, <1>2, <1>3, OrderHeld

-----------------------------------------------------------------------------
(* Steps that tell nobody anything.                                        *)

InLine == \A s \in Seats : InOrder(s) /\ InStep(s)

LEMMA LosersLine ==
  ASSUME MatchInv, Shape', InLine, \A s \in Seats : Loses(s),
         SameSight \/ (room' = None /\ \A s \in Seats : sockets'[s] # "open")
  PROVE  InLine'
<1> SUFFICES ASSUME NEW s \in Seats PROVE InOrder(s)' /\ InStep(s)'
  BY DEF InLine
<1>1. Shape /\ InOrder(s) /\ InStep(s) /\ Loses(s)
  BY DEF MatchInv, InLine
<1>2. InOrder(s)'
  BY <1>1, LosersOrder DEF SameSight
<1>3. InStep(s)'
  BY <1>1, LosersFit DEF InStep
<1>4. QED
  BY <1>2, <1>3

Alike(c, d) ==
    /\ d.revision = c.revision /\ d.saved = c.saved
    /\ d.game = c.game /\ d.actionLog = c.actionLog
    /\ d.request = c.request /\ d.inbound = c.inbound
    /\ Range(d.pendingCommands) \subseteq Range(c.pendingCommands)

LEMMA LosesAlone ==
  ASSUME MatchInv, Shape', InLine, NEW s \in Seats, NEW c, Update(s, c),
         Alike(client[s], c),
         Range(up'[s]) \subseteq Range(up[s]),
         sockets'[s] = "open" => sockets[s] = "open",
         \/ down'[s] = down[s]
         \/ /\ sockets'[s] # "open"
            /\ \E k \in 0..Len(down[s]) : down'[s] = SubSeq(down[s], 1, k),
         \A t \in Seats : t # s =>
           sockets'[t] = sockets[t] /\ down'[t] = down[t] /\ up'[t] = up[t],
         room' = room \/ SameSight
  PROVE  InLine'
<1>1. client'[s] = c /\ \A t \in Seats : t # s => client'[t] = client[t]
  BY UpdateFacts DEF MatchInv
<1>2. Loses(s)
  BY <1>1 DEF Loses, Drops, Held, Keeps, Alike
<1>3. \A t \in Seats : t # s => Loses(t)
  BY <1>1 DEF Loses, Drops, Held, Keeps
<1>4. \A t \in Seats : Loses(t)
  BY <1>2, <1>3
<1>5. room = None => \A t \in Seats : sockets'[t] # "open"
  BY <1>4 DEF InLine, InOrder, Loses, Drops
<1>6. SameSight \/ (room' = None /\ \A t \in Seats : sockets'[t] # "open")
  BY <1>5 DEF SameSight
<1>7. QED
  BY <1>4, <1>6, LosersLine

LEMMA LostAlike ==
  ASSUME NEW c \in Clients
  PROVE  Alike(c, lost(c)) /\ Alike(c, failed(c))
  BY DEF lost, failed, Clients, Alike

LEMMA BreakLine ==
  ASSUME MatchInv, Shape', InLine, NEW s \in Seats, Break(s)
  PROVE  InLine'
<1>1. Shape /\ client[s] \in Clients
  BY ShapeFacts DEF MatchInv
<1>2. Update(s, lost(client[s])) /\ Disconnect(s) /\ up' = up /\ room' = room
  BY DEF Break
<1>3. QED
  BY <1>1, <1>2, LostAlike, DisconnectFacts, LosesAlone

LEMMA ReadCloseLine ==
  ASSUME MatchInv, Shape', InLine, NEW s \in Seats, ReadClose(s)
  PROVE  InLine'
<1>1. Shape /\ client[s] \in Clients
  BY ShapeFacts DEF MatchInv
<1>2. /\ Update(s, lost(client[s])) /\ up' = [up EXCEPT ![s] = << >>]
      /\ room' = room /\ sockets' = sockets /\ down' = down
  BY DEF ReadClose, roomVars
<1>3. Range(up'[s]) \subseteq Range(up[s]) /\ \A t \in Seats : t # s => up'[t] = up[t]
  BY <1>1, <1>2, EmptyRange DEF Shape
<1>4. QED
  BY <1>1, <1>2, <1>3, LostAlike, LosesAlone

LEMMA GetTicketLine ==
  ASSUME MatchInv, Shape', InLine, NEW s \in Seats, GetTicket(s)
  PROVE  InLine'
<1> DEFINE c == [client[s] EXCEPT !.stage = "connect", !.isConnected = FALSE]
<1>1. Shape /\ client[s] \in Clients
  BY ShapeFacts DEF MatchInv
<1>2. /\ Update(s, c) /\ Disconnect(s) /\ up' = up /\ room # None
      /\ room' = [room EXCEPT !.tickets = @ \union {s}]
  BY DEF GetTicket, issueTicket
<1>3. room \in RoomStates
  BY <1>1, <1>2 DEF Shape
<1>4. room' \in RoomStates
  <2>1. room.tickets \union {s} \in SUBSET Seats
    BY <1>3, RoomFacts
  <2>2. QED
    BY <1>2, <1>3, <2>1 DEF RoomStates
<1>5. SameSight
  BY <1>2, <1>3, <1>4, Somethings DEF SameSight, RoomStates
<1>6. Alike(client[s], c)
  BY <1>1 DEF Clients, Alike
<1> HIDE DEF c
<1>7. QED
  BY <1>1, <1>2, <1>5, <1>6, DisconnectFacts, LosesAlone

LEMMA AloneLine ==
  ASSUME MatchInv, Shape', InLine, NEW s \in Seats, NEW c, Update(s, c),
         Alike(client[s], c), UNCHANGED <<roomVars, up>>
  PROVE  InLine'
  BY LosesAlone DEF roomVars

LEMMA FailedLine ==
  ASSUME MatchInv, Shape', InLine, NEW s \in Seats, ConnectFails(s) \/ WelcomeTimeout(s)
  PROVE  InLine'
<1>1. client[s] \in Clients
  BY ShapeFacts DEF MatchInv
<1>2. Update(s, failed(client[s])) /\ UNCHANGED <<roomVars, up>>
  BY DEF ConnectFails, WelcomeTimeout
<1>3. QED
  BY <1>1, <1>2, LostAlike, AloneLine

LEMMA ClientAloneLine ==
  ASSUME MatchInv, Shape', InLine, NEW s \in Seats,
         \/ RoomUnavailable(s) \/ GiveUp(s) \/ RetryConnection(s)
         \/ LeaveOffline(s) \/ CommandTimeout(s)
  PROVE  InLine'
<1>1. client[s] \in Clients
  BY ShapeFacts DEF MatchInv
<1>2. UNCHANGED <<roomVars, up>>
  BY DEF RoomUnavailable, GiveUp, RetryConnection, LeaveOffline, CommandTimeout
<1>3. \E c : Update(s, c) /\ Alike(client[s], c)
  <2>1. CASE RoomUnavailable(s)
    <3> DEFINE c == [client[s] EXCEPT !.ending = TRUE, !.state = "error",
                                      !.stage = "none", !.looping = FALSE]
    <3>1. Alike(client[s], c)
      BY <1>1 DEF Clients, Alike
    <3>2. Update(s, c)
      BY <2>1 DEF RoomUnavailable
    <3>3. QED
      BY <3>1, <3>2
  <2>2. CASE GiveUp(s)
    <3> DEFINE c == [client[s] EXCEPT !.looping = FALSE, !.stage = "none",
                                      !.state = "error"]
    <3>1. Alike(client[s], c)
      BY <1>1 DEF Clients, Alike
    <3>2. Update(s, c)
      BY <2>2 DEF GiveUp
    <3>3. QED
      BY <3>1, <3>2
  <2>3. CASE RetryConnection(s)
    <3> DEFINE c == [client[s] EXCEPT !.state = "reconnecting", !.looping = TRUE,
                                      !.stage = "ticket"]
    <3>1. Alike(client[s], c)
      BY <1>1 DEF Clients, Alike
    <3>2. Update(s, c)
      BY <2>3 DEF RetryConnection
    <3>3. QED
      BY <3>1, <3>2
  <2>4. CASE LeaveOffline(s)
    <3> DEFINE c == [client[s] EXCEPT !.ending = TRUE, !.stage = "none",
                                      !.looping = FALSE, !.count = @ + 1]
    <3>1. Alike(client[s], c)
      BY <1>1 DEF Clients, Alike
    <3>2. Update(s, c)
      BY <2>4 DEF LeaveOffline
    <3>3. QED
      BY <3>1, <3>2
  <2>5. CASE CommandTimeout(s)
    <3> DEFINE c == [client[s] EXCEPT !.pendingCommands = Tail(@)]
    <3>1. Update(s, c) /\ client[s].pendingCommands # << >>
      BY <2>5 DEF CommandTimeout
    <3>2. Range(Tail(client[s].pendingCommands)) \subseteq Range(client[s].pendingCommands)
      BY <1>1, <3>1, ClientFacts, TailRange
    <3>3. Alike(client[s], c)
      BY <1>1, <3>2 DEF Clients, Alike
    <3>4. QED
      BY <3>1, <3>3
  <2>6. QED
    BY <2>1, <2>2, <2>3, <2>4, <2>5
<1>4. QED
  BY <1>2, <1>3, AloneLine

LEMMA JoinLine ==
  ASSUME MatchInv, Shape', InLine, NEW j \in Joiners, Join(j)
  PROVE  InLine'
<1>1. room # None /\ UNCHANGED <<room, sockets, down, client, up>>
  BY DEF Join, BeginJoin
<1>2. \A s \in Seats : Loses(s)
  BY <1>1 DEF Loses, Drops, Held, Keeps
<1>3. SameSight
  BY <1>1 DEF SameSight
<1>4. QED
  BY <1>2, <1>3, LosersLine

LEMMA CancelLine ==
  ASSUME MatchInv, Shape', InLine, Cancel
  PROVE  InLine'
<1>1. /\ room # None /\ room' = None /\ sockets' = [s \in Seats |-> "closed"]
      /\ down' = [s \in Seats |-> << >>] /\ up' = [s \in Seats |-> << >>]
  BY DEF Cancel, cancel
<1>2. Shape /\ room \in RoomStates /\ room.creatorSeat \in Seats
  BY <1>1, RoomFacts DEF MatchInv, Shape
<1> DEFINE c == [client[room.creatorSeat] EXCEPT !.ending = TRUE, !.state = "ended",
                   !.isConnected = FALSE, !.stage = "none", !.looping = FALSE]
<1>3. Alike(client[room.creatorSeat], c)
  BY <1>2 DEF Shape, Clients, Alike
<1>4. Update(room.creatorSeat, c)
  BY DEF Cancel
<1> HIDE DEF c
<1>5. \A s \in Seats : Alike(client[s], client'[s])
  <2>1. \A s \in Seats : s # room.creatorSeat => Alike(client[s], client[s])
    BY DEF Alike
  <2>2. QED
    BY <1>2, <1>3, <1>4, <2>1, UpdateFacts
<1>6. ASSUME NEW s \in Seats PROVE Loses(s)
  <2>1. down'[s] = << >> /\ up'[s] = << >> /\ sockets'[s] = "closed"
    BY <1>1
  <2>2. << >> = SubSeq(down[s], 1, 0) /\ 0 \in 0..Len(down[s])
    BY <1>2, ShapeFacts, PlaceFacts
  <2>3. Held(s)
    BY <1>5, <2>1, EmptyRange DEF Held, Keeps, Alike
  <2>4. QED
    BY <2>1, <2>2, <2>3 DEF Loses, Drops, Held
<1>7. QED
  BY <1>1, <1>6, LosersLine

-----------------------------------------------------------------------------
(* One client's steps that the others do not see.                          *)

LEMMA SeatLine ==
  ASSUME MatchInv, Shape', InLine, NEW s \in Seats, NEW c, Update(s, c),
         \A t \in Seats : t # s =>
           sockets'[t] = sockets[t] /\ down'[t] = down[t] /\ up'[t] = up[t],
         room' = room, InOrder(s)', InStep(s)'
  PROVE  InLine'
<1> SUFFICES ASSUME NEW t \in Seats PROVE InOrder(t)' /\ InStep(t)'
  BY DEF InLine
<1>1. CASE t = s
  BY <1>1
<1>2. CASE t # s
  <2>1. client'[t] = client[t] /\ Shape /\ InOrder(t) /\ InStep(t)
    BY <1>2, UpdateFacts DEF MatchInv, InLine
  <2>2. Loses(t)
    BY <1>2, <2>1 DEF Loses, Drops, Held, Keeps
  <2>3. room' = None => sockets'[t] # "open"
    BY <1>2, <2>1 DEF InOrder
  <2>4. InStep(t)'
    <3>1. CASE room = None
      BY <3>1 DEF InStep
    <3>2. CASE room # None
      BY <2>1, <2>2, <3>2, LosersFit DEF SameSight
    <3>3. QED
      BY <3>1, <3>2
  <2>5. QED
    BY <2>1, <2>2, <2>3, <2>4, LosersOrder
<1>3. QED
  BY <1>1, <1>2

LEMMA AppRestartsLine ==
  ASSUME MatchInv, Shape', InLine, NEW s \in Seats, AppRestarts(s)
  PROVE  InLine'
<1> DEFINE c == [NewClient EXCEPT !.revision = client[s].saved,
                                  !.saved = client[s].saved,
                                  !.actionLog = client[s].actionLog,
                                  !.game = client[s].actionLog,
                                  !.status = client[s].status,
                                  !.count = client[s].count]
<1>1. client[s] \in Clients /\ Shape /\ InOrder(s) /\ InStep(s)
  BY ShapeFacts DEF MatchInv, InLine
<1>2. /\ Update(s, c) /\ up' = up /\ room' = room
      /\ sockets' = [sockets EXCEPT ![s] = IF @ = "open" THEN "deaf" ELSE @]
      /\ down' = [down EXCEPT ![s] = << >>]
  BY DEF AppRestarts
<1>3. /\ c.revision = client[s].saved /\ c.saved = client[s].saved
      /\ c.game = client[s].actionLog /\ c.actionLog = client[s].actionLog
      /\ c.request = None /\ c.inbound = None /\ c.pendingCommands = << >>
  BY <1>1, ClientFacts DEF NewClient
<1> HIDE DEF c
<1>4. client'[s] = c
  BY <1>1, <1>2, UpdateFacts
<1>5. /\ sockets'[s] # "open" /\ down'[s] = << >> /\ up'[s] = up[s]
      /\ \A t \in Seats : t # s =>
           sockets'[t] = sockets[t] /\ down'[t] = down[t] /\ up'[t] = up[t]
  BY <1>1, <1>2 DEF Shape
<1>6. /\ Len(down'[s]) = 0 /\ Range(down'[s]) = {}
      /\ Range(client'[s].pendingCommands) = {} /\ SeqAt(s, 0)' = client[s].saved
      /\ client[s].saved \in Nat /\ \A i \in 0..0 : i = 0
  BY <1>1, <1>3, <1>4, <1>5, EmptyRange, ClientFacts DEF SeqAt
<1>7. StartedAgain(s)'
  BY <1>3, <1>4, <1>5 DEF StartedAgain
<1>8. InOrder(s)'
  <2>1. \A i, j \in 0..Len(down'[s]) : i <= j => SeqAt(s, i)' <= SeqAt(s, j)'
    BY <1>6
  <2>2. Carried(s)' = {}
    BY <1>3, <1>4, <1>6 DEF Carried
  <2>3. QED
    BY <1>3, <1>4, <1>5, <1>6, <1>7, <2>1, <2>2 DEF InOrder
<1>9. InStep(s)'
  <2> SUFFICES ASSUME room # None PROVE InStep(s)'
    BY <1>2 DEF InStep
  <2>1. Resumable(s) /\ SeenByItsUser(s)
    BY <1>1 DEF InStep
  <2>2. AtRevision(s)' /\ Resumable(s)'
    BY <1>2, <1>3, <1>4, <2>1 DEF AtRevision, Resumable
  <2>3. OnTheWay(s)' /\ ReachesTheRoom(s)'
    BY <1>3, <1>4, <1>5, <1>6 DEF OnTheWay, ReachesTheRoom
  <2>4. SeenByItsUser(s)'
    BY <1>2, <1>5, <1>6, <2>1 DEF SeenByItsUser, CommandsOf
  <2>5. ~Displays(s)'
    BY <1>3, <1>4 DEF Displays
  <2>6. AskerWaits(s)'
    BY <1>6, <2>5 DEF AskerWaits
  <2>7. QED
    BY <2>2, <2>3, <2>4, <2>6 DEF InStep
<1>10. QED
  BY <1>2, <1>5, <1>8, <1>9, SeatLine

LEMMA SendLine ==
  ASSUME MatchInv, Shape', InLine, NEW s \in Seats, NEW command,
         command.expectedSeq = client[s].revision, command.seen = client[s].game,
         SendCommand(s, command)
  PROVE  InLine'
<1> DEFINE c == [client[s] EXCEPT !.count = @ + 1,
                                  !.pendingCommands = Append(@, command),
                                  !.ending = (@ \/ command.type = "leave")]
<1>1. /\ Shape /\ client[s] \in Clients /\ InOrder(s) /\ InStep(s)
      /\ client[s].pendingCommands \in Seq(Commands) /\ up[s] \in Seq(Commands)
      /\ client[s].revision \in Nat
  BY ShapeFacts, ClientFacts DEF MatchInv, InLine
<1>2. /\ Update(s, c) /\ up' = [up EXCEPT ![s] = Append(@, command)]
      /\ UNCHANGED <<room, sockets, down>>
  BY DEF SendCommand, roomVars
<1>3. /\ c.revision = client[s].revision /\ c.saved = client[s].saved
      /\ c.game = client[s].game /\ c.actionLog = client[s].actionLog
      /\ c.request = client[s].request /\ c.inbound = client[s].inbound
      /\ c.pendingCommands = Append(client[s].pendingCommands, command)
  BY <1>1 DEF Clients
<1> HIDE DEF c
<1>4. client'[s] = c /\ Keeps(s)
  BY <1>1, <1>2, <1>3, UpdateFacts DEF Keeps
<1>5. /\ up'[s] = Append(up[s], command) /\ down'[s] = down[s] /\ sockets'[s] = sockets[s]
      /\ \A t \in Seats : t # s =>
           sockets'[t] = sockets[t] /\ down'[t] = down[t] /\ up'[t] = up[t]
  BY <1>1, <1>2 DEF Shape
<1>6. /\ Range(up'[s]) = Range(up[s]) \union {command}
      /\ Range(client'[s].pendingCommands)
           = Range(client[s].pendingCommands) \union {command}
  BY <1>1, <1>3, <1>4, <1>5, AppendRange
<1>7. \A i : SeqAt(s, i)' = SeqAt(s, i)
  BY <1>4, <1>5 DEF SeqAt, Keeps
<1>8. (StartedAgain(s)' <=> StartedAgain(s)) /\ Carried(s)' = Carried(s)
  BY <1>4, <1>5 DEF StartedAgain, Keeps, Carried
<1>9. InOrder(s)'
  <2>1. \A i, j \in 0..Len(down'[s]) : i <= j => SeqAt(s, i)' <= SeqAt(s, j)'
    BY <1>1, <1>5, <1>7 DEF InOrder
  <2>2. command.expectedSeq <= client'[s].revision
    BY <1>1, <1>3, <1>4
  <2>3. /\ client'[s].saved <= client'[s].revision /\ client'[s].revision <= SeqAt(s, 0)'
        /\ client'[s].inbound # None => client'[s].game = client'[s].inbound.actions
        /\ \A m \in Carried(s)' : m.type = "controlResult" => m.pending = None
        /\ room' = None => sockets'[s] # "open"
    BY <1>1, <1>2, <1>4, <1>5, <1>7, <1>8 DEF InOrder, Keeps
  <2>4. \A d \in Range(client'[s].pendingCommands) : d.expectedSeq <= client'[s].revision
    BY <1>1, <1>4, <1>6, <2>2 DEF InOrder, Keeps
  <2>5. \A d \in Range(up'[s]) :
          d.expectedSeq <= client'[s].revision \/ StartedAgain(s)'
    BY <1>1, <1>4, <1>6, <1>8, <2>2 DEF InOrder, Keeps
  <2>6. QED
    BY <2>1, <2>3, <2>4, <2>5 DEF InOrder
<1>10. InStep(s)'
  <2> SUFFICES ASSUME room # None PROVE InStep(s)'
    BY <1>2 DEF InStep
  <2>1. SeenByItsUser(s) /\ AtRevision(s)
    BY <1>1 DEF InStep
  <2>2. command.expectedSeq = room.seq => command.seen = room.actions
    BY <2>1 DEF AtRevision
  <2>3. SeenByItsUser(s)'
    BY <1>2, <1>6, <2>1, <2>2 DEF SeenByItsUser, CommandsOf
  <2>4. Drops(s) /\ SameSight
    BY <1>2, <1>4, <1>5 DEF Drops, SameSight
  <2>5. QED
    BY <1>1, <2>3, <2>4, DropsFit
<1>11. QED
  BY <1>2, <1>5, <1>9, <1>10, SeatLine

LEMMA UserLine ==
  ASSUME MatchInv, Shape', InLine, NEW s \in Seats,
         \/ \E move \in Moves : SubmitLocalAction(s, move)
         \/ \E kind \in CONTROL_KINDS :
              Request(s, kind, IF kind = "takeBack" THEN 1 ELSE 0)
         \/ \E accepted \in BOOLEAN : Respond(s, accepted)
         \/ Resign(s) \/ Leave(s)
  PROVE  InLine'
<1>1. ASSUME NEW command, SendCommand(s, command),
             command.expectedSeq = client[s].revision, command.seen = client[s].game
      PROVE  InLine'
  BY <1>1, SendLine
<1>2. CASE \E move \in Moves : SubmitLocalAction(s, move)
  <2>1. PICK move \in Moves : SubmitLocalAction(s, move)
    BY <1>2
  <2> DEFINE command == [type |-> "action", id |-> newId(s),
                         expectedSeq |-> client[s].revision,
                         seen |-> client[s].game, move |-> move]
  <2>2. SendCommand(s, command)
    BY <2>1 DEF SubmitLocalAction
  <2>3. command.expectedSeq = client[s].revision /\ command.seen = client[s].game
    OBVIOUS
  <2> HIDE DEF command
  <2>4. QED
    BY <1>1, <2>2, <2>3
<1>3. CASE \E kind \in CONTROL_KINDS :
             Request(s, kind, IF kind = "takeBack" THEN 1 ELSE 0)
  <2>1. PICK kind, steps : Request(s, kind, steps)
    BY <1>3
  <2> DEFINE command == [type |-> "request", id |-> newId(s),
                         expectedSeq |-> client[s].revision,
                         seen |-> client[s].game, kind |-> kind, steps |-> steps]
  <2>2. SendCommand(s, command)
    BY <2>1 DEF Request
  <2>3. command.expectedSeq = client[s].revision /\ command.seen = client[s].game
    OBVIOUS
  <2> HIDE DEF command
  <2>4. QED
    BY <1>1, <2>2, <2>3
<1>4. CASE \E accepted \in BOOLEAN : Respond(s, accepted)
  <2>1. PICK accepted \in BOOLEAN : Respond(s, accepted)
    BY <1>4
  <2> DEFINE command == [type |-> "respond", id |-> newId(s),
                         expectedSeq |-> client[s].revision,
                         seen |-> client[s].game,
                         kind |-> client[s].request.kind,
                         requestId |-> client[s].request.requestId,
                         accepted |-> accepted]
  <2>2. SendCommand(s, command)
    BY <2>1 DEF Respond
  <2>3. command.expectedSeq = client[s].revision /\ command.seen = client[s].game
    OBVIOUS
  <2> HIDE DEF command
  <2>4. QED
    BY <1>1, <2>2, <2>3
<1>5. ASSUME NEW type \in {"resign", "leave"},
             SendCommand(s, [type |-> type, id |-> newId(s),
                             expectedSeq |-> client[s].revision,
                             seen |-> client[s].game])
      PROVE  InLine'
  <2> DEFINE command == [type |-> type, id |-> newId(s),
                         expectedSeq |-> client[s].revision, seen |-> client[s].game]
  <2>1. SendCommand(s, command)
    BY <1>5
  <2>2. command.expectedSeq = client[s].revision /\ command.seen = client[s].game
    OBVIOUS
  <2> HIDE DEF command
  <2>3. QED
    BY <1>1, <2>1, <2>2
<1>6. CASE Resign(s) \/ Leave(s)
  BY <1>5, <1>6 DEF Resign, Leave
<1>7. QED
  BY <1>2, <1>3, <1>4, <1>6

-----------------------------------------------------------------------------
(* A message is handled.                                                   *)

(* What a client shows when it has handled a fresh snapshot.               *)
Shows(s, c, m, d) ==
    /\ d.revision = m.seq /\ d.saved = m.seq /\ d.actionLog = m.actions
    /\ d.game = c.game /\ d.inbound = c.inbound
    /\ d.request # None <=> (Opens(s, m) \/ (c.request # None /\ ~Closes(m)))
    /\ Range(d.pendingCommands) \subseteq Range(c.pendingCommands)

LEMMA AppliedShows ==
  ASSUME NEW s \in Seats, NEW c \in Clients, NEW m, StateOf(m), c.revision <= m.seq
  PROVE  Shows(s, c, m, applied_state(s, c, m))
<1> DEFINE status == IF m.type = "error" THEN c.status ELSE m.status
           state == IF status = "ended" THEN "ended"
                    ELSE IF status = "active" THEN "ready" ELSE c.state
           ending == c.ending \/ status = "ended"
           request == displayed(s, c, m)
           pending == answered(c, m)
           d == [c EXCEPT !.revision = m.seq, !.saved = m.seq, !.actionLog = m.actions,
                          !.status = status, !.ending = ending, !.state = state,
                          !.request = request, !.pendingCommands = pending]
<1>1. applied_state(s, c, m) = d
  BY DEF applied_state, fresh
<1>2. request # None <=> (Opens(s, m) \/ (c.request # None /\ ~Closes(m)))
  <2>1. m.type = "error" \/ m.type \in WithStatus
    BY DEF StateOf, CarriesSnapshot, WithStatus
  <2>2. m.type # "controlRequest" /\ (m.type = "error" => m.type \notin WithStatus)
    BY DEF StateOf, CarriesSnapshot, WithStatus
  <2>3. QED
    BY <2>1, <2>2 DEF displayed, Opens, Closes
<1>3. Range(pending) \subseteq Range(c.pendingCommands)
  BY AnsweredFacts
<1> HIDE DEF status, state, ending, request, pending
<1>4. /\ d.revision = m.seq /\ d.saved = m.seq /\ d.actionLog = m.actions
      /\ d.game = c.game /\ d.inbound = c.inbound
      /\ d.request = request /\ d.pendingCommands = pending
  BY DEF Clients
<1> HIDE DEF d
<1>5. QED
  BY <1>1, <1>2, <1>3, <1>4 DEF Shows

(* Nothing of it shows in the line or the request. *)
SameFace(b, d) ==
    /\ d.revision = b.revision /\ d.saved = b.saved
    /\ d.actionLog = b.actionLog /\ d.game = b.game /\ d.inbound = b.inbound
    /\ d.request = b.request /\ d.pendingCommands = b.pendingCommands

LEMMA HandledShows ==
  ASSUME NEW s \in Seats, NEW c \in Clients, NEW m \in Messages,
         m.type \in CarriesSnapshot, c.revision <= m.seq,
         m.type = "controlResult" => m.pending = None
  PROVE  Shows(s, c, m, handled(s, c, m))
<1>1. StateOf(m) /\ m.seq \in Nat /\ c.revision \in Nat
  BY MessageFacts, ClientFacts DEF StateOf, CarriesSnapshot, WithStatus
<1>2. CASE m.type = "welcome"
  <2> DEFINE e == [c EXCEPT !.status = m.status]
             a == applied_state(s, e, m)
             b == [a EXCEPT !.everWelcomed = TRUE, !.stage = "none", !.looping = FALSE]
  <2>1. m.status \in Statuses
    BY <1>2, MessageFacts DEF WithStatus
  <2>2. /\ e \in Clients /\ e.revision = c.revision /\ e.game = c.game
        /\ e.inbound = c.inbound /\ e.request = c.request
        /\ e.pendingCommands = c.pendingCommands
    BY <2>1 DEF Clients
  <2>3. welcomed(s, c, m) =
          CASE m.status = "ended" ->
                 [b EXCEPT !.ending = TRUE, !.state = "ended",
                           !.winner = IF m.endReason = "resign" THEN m.winnerSeat
                                      ELSE @]
            [] m.status = "active" ->
                 [b EXCEPT !.state = IF m.opponentConnected THEN "ready"
                                     ELSE "listening"]
            [] m.status = "waiting" -> [b EXCEPT !.state = "listening"]
    BY DEF welcomed
  <2> HIDE DEF e
  <2>4. Shows(s, e, m, a) /\ a \in Clients
    BY <1>1, <2>2, AppliedShows, AppliedState DEF Applied
  <2> HIDE DEF a
  <2>5. /\ b \in Clients /\ b.revision = a.revision /\ b.saved = a.saved
        /\ b.actionLog = a.actionLog /\ b.game = a.game /\ b.inbound = a.inbound
        /\ b.request = a.request /\ b.pendingCommands = a.pendingCommands
    BY <2>4 DEF Clients
  <2> HIDE DEF b
  <2>6. Shows(s, c, m, b)
    BY <2>2, <2>4, <2>5 DEF Shows
  <2>7. handled(s, c, m) = welcomed(s, c, m)
    BY <1>2 DEF handled
  <2>8. SameFace(b, handled(s, c, m))
    <3>1. CASE m.status = "ended"
      <4> DEFINE w == IF m.endReason = "resign" THEN m.winnerSeat ELSE b.winner
      <4>1. handled(s, c, m) = [b EXCEPT !.ending = TRUE, !.state = "ended", !.winner = w]
        BY <2>3, <2>7, <3>1
      <4> HIDE DEF w
      <4>2. QED
        BY <2>5, <4>1 DEF Clients, SameFace
    <3>2. CASE m.status = "active"
      <4> DEFINE y == IF m.opponentConnected THEN "ready" ELSE "listening"
      <4>1. handled(s, c, m) = [b EXCEPT !.state = y]
        BY <2>3, <2>7, <3>2
      <4> HIDE DEF y
      <4>2. QED
        BY <2>5, <4>1 DEF Clients, SameFace
    <3>3. CASE m.status = "waiting"
      <4>1. handled(s, c, m) = [b EXCEPT !.state = "listening"]
        BY <2>3, <2>7, <3>3
      <4>2. QED
        BY <2>5, <4>1 DEF Clients, SameFace
    <3>4. QED
      BY <2>1, <3>1, <3>2, <3>3 DEF Statuses
  <2>9. QED
    BY <2>6, <2>8 DEF Shows, SameFace
<1>3. CASE m.type \in {"state", "opponentJoined"}
  <2> DEFINE a == applied_state(s, c, m)
  <2>1. Shows(s, c, m, a) /\ a \in Clients
    BY <1>1, AppliedShows, AppliedState DEF Applied
  <2>2. \/ handled(s, c, m) = a
        \/ handled(s, c, m) = [a EXCEPT !.winner = opposite(s), !.ending = TRUE,
                                        !.state = "ended"]
        \/ handled(s, c, m) = [a EXCEPT !.state = "listening"]
    BY <1>3 DEF handled, resigned
  <2> HIDE DEF a
  <2>3. SameFace(a, handled(s, c, m))
    <3>1. SameFace(a, a)
      BY DEF SameFace
    <3>2. SameFace(a, [a EXCEPT !.winner = opposite(s), !.ending = TRUE, !.state = "ended"])
      BY <2>1 DEF Clients, SameFace
    <3>3. SameFace(a, [a EXCEPT !.state = "listening"])
      BY <2>1 DEF Clients, SameFace
    <3>4. QED
      BY <2>2, <3>1, <3>2, <3>3, Zenon
  <2>4. QED
    BY <2>1, <2>3 DEF Shows, SameFace
<1>4. CASE m.type = "error"
  <2> DEFINE n == [m EXCEPT !.id = None]
             a == applied_state(s, c, n)
             d == [a EXCEPT !.pendingCommands = answered(c, m)]
  <2>1. n.type = m.type /\ n.seq = m.seq /\ n.actions = m.actions /\ StateOf(n)
    BY <1>1, <1>4 DEF Messages, StateOf
  <2>2. handled(s, c, m) = d
    BY <1>4 DEF handled
  <2> HIDE DEF n
  <2>3. Shows(s, c, n, a) /\ a \in Clients
    BY <1>1, <2>1, AppliedShows, AppliedState DEF Applied
  <2> HIDE DEF a
  <2>4. /\ d.revision = a.revision /\ d.saved = a.saved
        /\ d.actionLog = a.actionLog /\ d.game = a.game /\ d.inbound = a.inbound
        /\ d.request = a.request /\ d.pendingCommands = answered(c, m)
    BY <2>3 DEF Clients
  <2> HIDE DEF d
  <2>5. (Opens(s, n) <=> Opens(s, m)) /\ (Closes(n) <=> Closes(m))
    BY <1>4, <2>1 DEF Opens, Closes, WithStatus
  <2>6. QED
    BY <2>1, <2>2, <2>3, <2>4, <2>5, AnsweredFacts DEF Shows
<1>5. CASE m.type = "controlResult"
  <2> DEFINE a == applied_state(s, c, m)
             request == IF a.request # None /\ a.request.requestId = m.requestId
                        THEN None ELSE a.request
             d == [a EXCEPT !.request = request]
  <2>1. Shows(s, c, m, a) /\ a \in Clients
    BY <1>1, AppliedShows, AppliedState DEF Applied
  <2>2. handled(s, c, m) = d
    BY <1>5 DEF handled
  <2>3. Closes(m) /\ ~Opens(s, m)
    BY <1>5 DEF Closes, Opens, WithStatus
  <2> HIDE DEF a
  <2>4. request = None
    BY <2>1, <2>3 DEF Shows
  <2> HIDE DEF request
  <2>5. /\ d.revision = a.revision /\ d.saved = a.saved
        /\ d.actionLog = a.actionLog /\ d.game = a.game /\ d.inbound = a.inbound
        /\ d.request = request /\ d.pendingCommands = a.pendingCommands
    BY <2>1 DEF Clients
  <2> HIDE DEF d
  <2>6. QED
    BY <2>1, <2>2, <2>3, <2>4, <2>5 DEF Shows
<1>6. QED
  BY <1>2, <1>3, <1>4, <1>5 DEF CarriesSnapshot

LEMMA NoticedShows ==
  ASSUME NEW s \in Seats, NEW c \in Clients, NEW m \in Messages,
         m.type \notin CarriesSnapshot
  PROVE  LET d == noticed(s, c, m) IN
         /\ d.revision = m.seq /\ d.saved = c.saved /\ d.actionLog = c.actionLog
         /\ d.game = c.game /\ d.inbound = c.inbound
         /\ d.request # None <=> (Opens(s, m) \/ (c.request # None /\ ~Closes(m)))
         /\ d.pendingCommands = c.pendingCommands
<1> DEFINE e == [c EXCEPT !.revision = m.seq]
<1>1. /\ e \in Clients /\ e.revision = m.seq /\ e.saved = c.saved
      /\ e.actionLog = c.actionLog /\ e.game = c.game /\ e.inbound = c.inbound
      /\ e.request = c.request /\ e.pendingCommands = c.pendingCommands
  BY MessageFacts DEF Clients
<1>2. /\ m.type = "controlRequest" => noticed(s, c, m) = [e EXCEPT !.request = m.request]
      /\ m.type = "opponentResigned" => noticed(s, c, m)
           = [e EXCEPT !.winner = s, !.ending = TRUE, !.state = "ended"]
      /\ m.type = "opponentLeft" => noticed(s, c, m)
           = [e EXCEPT !.ending = TRUE, !.state = "ended"]
      /\ m.type = "opponentConnection" => noticed(s, c, m)
           = [e EXCEPT !.state = IF e.status # "active" THEN @
                                 ELSE IF m.connected THEN "ready" ELSE "listening"]
  BY DEF noticed
<1> HIDE DEF e
<1>3. ~Closes(m)
  BY DEF Closes, WithStatus, CarriesSnapshot
<1>4. CASE m.type = "controlRequest"
  <2> DEFINE d == noticed(s, c, m)
  <2>1. d = [e EXCEPT !.request = m.request] /\ m.request # None /\ Opens(s, m)
    BY <1>2, <1>4, MessageFacts, Somethings DEF Opens
  <2> HIDE DEF d
  <2>2. /\ d.revision = e.revision /\ d.saved = e.saved /\ d.actionLog = e.actionLog
        /\ d.game = e.game /\ d.inbound = e.inbound /\ d.request = m.request
        /\ d.pendingCommands = e.pendingCommands
    BY <1>1, <2>1 DEF Clients
  <2>3. QED
    BY <1>1, <2>1, <2>2 DEF d
<1>5. CASE m.type # "controlRequest"
  <2> DEFINE d == noticed(s, c, m)
  <2>1. SameFace(e, d)
    <3>1. CASE m.type = "opponentResigned"
      <4>1. d = [e EXCEPT !.winner = s, !.ending = TRUE, !.state = "ended"]
        BY <1>2, <3>1
      <4>2. QED
        BY <1>1, <4>1 DEF Clients, SameFace
    <3>2. CASE m.type = "opponentLeft"
      <4>1. d = [e EXCEPT !.ending = TRUE, !.state = "ended"]
        BY <1>2, <3>2
      <4>2. QED
        BY <1>1, <4>1 DEF Clients, SameFace
    <3>3. CASE m.type = "opponentConnection"
      <4> DEFINE y == IF e.status # "active" THEN e.state
                      ELSE IF m.connected THEN "ready" ELSE "listening"
      <4>1. d = [e EXCEPT !.state = y]
        BY <1>2, <3>3
      <4> HIDE DEF y
      <4>2. QED
        BY <1>1, <4>1 DEF Clients, SameFace
    <3>4. QED
      BY <1>5, <3>1, <3>2, <3>3, MessageFacts
  <2>2. ~Opens(s, m)
    BY <1>5 DEF Opens, WithStatus, CarriesSnapshot
  <2> HIDE DEF d
  <2>3. QED
    BY <1>1, <1>3, <2>1, <2>2 DEF d, SameFace
<1>6. QED
  BY <1>4, <1>5

(* The places move up by k: by one when a message is taken, by none when   *)
(* the one in hand is done with.                                           *)
MovesUp(s, k) ==
    /\ k = 0 => client[s].inbound # None
    /\ Len(down'[s]) \in Nat /\ Len(down[s]) = Len(down'[s]) + k
    /\ \A i \in 0..Len(down'[s]) : SeqAt(s, i)' = SeqAt(s, i + k)
    /\ Range(down'[s]) \subseteq Range(down[s])
    /\ client'[s].revision <= SeqAt(s, 0)'
    /\ CommandsOf(s)' \subseteq CommandsOf(s)
    /\ room' = room /\ sockets'[s] = sockets[s]

LEMMA MoversFit ==
  ASSUME MatchInv, NEW s \in Seats, InStep(s), NEW k \in 0..1, MovesUp(s, k),
         \A i \in 0..Len(down'[s]) : Known(s, i + k) => Known(s, i)',
         \/ client'[s].saved = client[s].saved
            /\ client'[s].actionLog = client[s].actionLog
         \/ client'[s].saved = SeqAt(s, 0)' /\ client'[s].actionLog = client'[s].game,
         Displays(s)' => Displays(s) \/ \E m \in Range(down[s]) : Opens(s, m)
  PROVE  InStep(s)'
<1> SUFFICES ASSUME room # None PROVE InStep(s)'
  BY DEF InStep, MovesUp
<1>1. /\ AtRevision(s) /\ OnTheWay(s) /\ ReachesTheRoom(s)
      /\ Resumable(s) /\ SeenByItsUser(s) /\ AskerWaits(s)
  BY DEF InStep
<1>2. PICK n \in Nat : n = Len(down'[s])
  BY DEF MovesUp
<1>3. /\ Len(down[s]) = n + k /\ k \in Nat /\ 0 + k = k
      /\ \A i \in 0..n : i + k \in 0..Len(down[s])
      /\ 0 \in 0..n /\ n \in 0..n
      /\ \A i \in 0..n : i + k = 0 => k = 0
  BY <1>2 DEF MovesUp
<1>4. \A i \in 0..n : SeqAt(s, i)' = SeqAt(s, i + k)
  BY <1>2 DEF MovesUp
<1>5. \A i \in 0..n : SeqAt(s, i)' = room.seq => Known(s, i)'
  <2> SUFFICES ASSUME NEW i \in 0..n, SeqAt(s, i)' = room.seq PROVE Known(s, i)'
    OBVIOUS
  <2>1. i + k \in 0..Len(down[s]) /\ SeqAt(s, i + k) = room.seq
    BY <1>3, <1>4
  <2>2. i + k = 0 => client[s].inbound # None
    BY <1>3 DEF MovesUp
  <2>3. Known(s, i + k)
    BY <1>1, <2>1, <2>2 DEF OnTheWay
  <2>4. QED
    BY <1>2, <2>3
<1>6. SeqAt(s, 0)' <= room.seq /\ SeqAt(s, 0)' \in Nat /\ room.seq \in Nat
  BY <1>3, <1>4, WithinTheRoom, PlaceFacts DEF MatchInv
<1>7. SeqAt(s, 0)' = room.seq =>
        /\ client'[s].game = room.actions
        /\ Displays(s)' <=> Awaited(s)'
  <2> SUFFICES ASSUME SeqAt(s, 0)' = room.seq
               PROVE  client'[s].game = room.actions /\ (Displays(s)' <=> Awaited(s)')
    OBVIOUS
  <2>1. Known(s, 0)'
    BY <1>3, <1>5
  <2>2. \A tells, denies, q : ~Told(tells, denies, q, 0)
    BY DEF Told
  <2>3. client'[s].game = room'.actions
    BY <2>1, <2>2 DEF Known, KnowsLine
  <2>4. Displays(s)' <=> Awaited(s)'
    BY <2>1, <2>2 DEF Known, KnowsRequest
  <2>5. QED
    BY <2>3, <2>4 DEF MovesUp
<1>8. AtRevision(s)'
  <2> SUFFICES ASSUME client'[s].revision = room'.seq
               PROVE  /\ client'[s].game = room'.actions
                      /\ client'[s].inbound = None /\ client'[s].request # None
                           => Awaited(s)'
    BY DEF AtRevision
  <2>1. SeqAt(s, 0)' = room.seq
    BY <1>6 DEF MovesUp
  <2>2. client'[s].inbound = None /\ client'[s].request # None => Displays(s)'
    BY DEF Displays
  <2>3. QED
    BY <1>7, <2>1, <2>2 DEF MovesUp
<1>9. OnTheWay(s)'
  BY <1>2, <1>5 DEF OnTheWay, MovesUp
<1>10. ReachesTheRoom(s)'
  <2> SUFFICES ASSUME sockets'[s] = "open" PROVE SeqAt(s, n)' = room'.seq /\ Known(s, n)'
    BY <1>2 DEF ReachesTheRoom
  <2>1. sockets[s] = "open" /\ room' = room
    BY DEF MovesUp
  <2>2. SeqAt(s, n + k) = room.seq
    BY <1>1, <1>3, <2>1 DEF ReachesTheRoom
  <2>3. QED
    BY <1>3, <1>4, <1>5, <2>1, <2>2
<1>11. Resumable(s)'
  BY <1>1, <1>7 DEF Resumable, MovesUp
<1>12. SeenByItsUser(s)'
  BY <1>1 DEF SeenByItsUser, MovesUp
<1>13. AskerWaits(s)'
  <2> SUFFICES ASSUME Asking(s)'
               PROVE  ~Displays(s)' /\ \A m \in Range(down'[s]) : ~Opens(s, m)
    BY DEF AskerWaits, Opens
  <2>1. Asking(s)
    BY DEF Asking, MovesUp
  <2>2. QED
    BY <1>1, <2>1 DEF AskerWaits, MovesUp
<1>14. QED
  BY <1>8, <1>9, <1>10, <1>11, <1>12, <1>13 DEF InStep

LEMMA MoversOrder ==
  ASSUME Shape, Shape', NEW s \in Seats, InOrder(s), NEW k \in 0..1, MovesUp(s, k),
         client[s].revision <= client'[s].revision,
         client'[s].saved <= client'[s].revision,
         client'[s].inbound # None => client'[s].game = client'[s].inbound.actions,
         Carried(s)' \subseteq Carried(s),
         Range(client'[s].pendingCommands) \subseteq Range(client[s].pendingCommands)
  PROVE  InOrder(s)'
<1>1. PICK n \in Nat : n = Len(down'[s])
  BY DEF MovesUp
<1>2. /\ Len(down[s]) = n + k
      /\ \A i \in 0..n : i + k \in 0..Len(down[s])
      /\ \A i \in 0..n : SeqAt(s, i)' = SeqAt(s, i + k)
  BY <1>1 DEF MovesUp
<1>3. \A i, j \in 0..n : i <= j => SeqAt(s, i)' <= SeqAt(s, j)'
  <2> SUFFICES ASSUME NEW i \in 0..n, NEW j \in 0..n, i <= j
               PROVE  SeqAt(s, i)' <= SeqAt(s, j)'
    OBVIOUS
  <2>1. /\ i + k \in 0..Len(down[s]) /\ j + k \in 0..Len(down[s])
        /\ i + k <= j + k
    BY <1>2
  <2>2. SeqAt(s, i + k) <= SeqAt(s, j + k)
    BY <2>1 DEF InOrder
  <2>3. QED
    BY <1>2, <2>2
<1>4. ~StartedAgain(s)
  <2>1. CASE k = 0
    BY <2>1 DEF StartedAgain, MovesUp
  <2>2. CASE k = 1
    <3>1. Len(down[s]) # 0
      BY <1>1, <1>2, <2>2
    <3>2. QED
      BY <3>1 DEF StartedAgain
  <2>3. QED
    BY <2>1, <2>2
<1>5. client[s].revision \in Nat /\ client'[s].revision \in Nat
  BY ClientFacts DEF Shape
<1>6. \A c \in CommandsOf(s)' : c.expectedSeq <= client'[s].revision
  <2> SUFFICES ASSUME NEW c \in CommandsOf(s)'
               PROVE  c.expectedSeq <= client'[s].revision
    OBVIOUS
  <2>1. c \in CommandsOf(s) /\ c.expectedSeq \in Nat
    BY ShapeFacts, CommandFacts DEF MovesUp
  <2>2. c.expectedSeq <= client[s].revision
    BY <1>4, <2>1 DEF InOrder, CommandsOf
  <2>3. QED
    BY <1>5, <2>1, <2>2
<1>7. /\ \A c \in Range(client'[s].pendingCommands) : c.expectedSeq <= client'[s].revision
      /\ \A c \in Range(up'[s]) : c.expectedSeq <= client'[s].revision
  BY <1>6 DEF CommandsOf
<1>8. /\ client'[s].saved <= client'[s].revision
      /\ client'[s].revision <= SeqAt(s, 0)'
      /\ client'[s].inbound # None => client'[s].game = client'[s].inbound.actions
      /\ \A m \in Carried(s)' : m.type = "controlResult" => m.pending = None
      /\ room' = None => sockets'[s] # "open"
  BY DEF InOrder, MovesUp
<1>9. QED
  BY <1>1, <1>3, <1>7, <1>8 DEF InOrder

LEMMA TakenMoves ==
  ASSUME Shape, NEW s \in Seats, down[s] # << >>, client[s].inbound = None,
         down' = [down EXCEPT ![s] = Tail(@)], room' = room,
         NEW m, m = Head(down[s]), SeqAt(s, 0)' = m.seq,
         m.type \in CarriesSnapshot => client'[s].game = m.actions,
         m.type \notin CarriesSnapshot => client'[s].game = client[s].game,
         Displays(s)' <=> (Opens(s, m) \/ (Displays(s) /\ ~Closes(m)))
  PROVE  /\ Len(down'[s]) \in Nat /\ Len(down[s]) = Len(down'[s]) + 1
         /\ \A i \in 0..Len(down'[s]) :
              SeqAt(s, i)' = SeqAt(s, i + 1) /\ (Known(s, i + 1) => Known(s, i)')
         /\ Range(down'[s]) \subseteq Range(down[s])
         /\ m \in Range(down[s]) /\ m \in Messages
         /\ SeqAt(s, 1) = m.seq /\ 1 \in 0..Len(down[s])
         /\ \A t \in Seats : t # s => down'[t] = down[t]
<1>1. down[s] \in Seq(Messages) /\ down'[s] = Tail(down[s])
      /\ \A t \in Seats : t # s => down'[t] = down[t]
  BY ShapeFacts DEF Shape
<1>2. PICK q \in Seq(Messages) : q = down[s]
  BY <1>1
<1>3. PICK r \in Seq(Messages) : r = down'[s] /\ r = Tail(q)
  BY <1>1, <1>2, TailRange
<1>4. /\ \A i \in DOMAIN r : r[i] = q[i + 1]
      /\ Len(r) = Len(q) - 1 /\ Len(q) \in Nat \ {0} /\ m = q[1]
      /\ DOMAIN r = 1..Len(r)
  BY <1>2, <1>3, TailFacts
<1>5. Len(r) \in Nat /\ Len(q) = Len(r) + 1 /\ 1 \in 0..Len(q)
  BY <1>4
<1>6. Range(r) \subseteq Range(q) /\ m \in Range(q) /\ m \in Messages
  BY <1>2, <1>3, TailRange
<1>7. SeqAt(s, 1) = m.seq
  BY <1>2, <1>4 DEF SeqAt
<1>8. ASSUME NEW i \in 0..Len(r)
      PROVE  SeqAt(s, i)' = SeqAt(s, i + 1) /\ (Known(s, i + 1) => Known(s, i)')
  <2>1. i \in Nat /\ \A j \in 1..i : j \in DOMAIN r /\ r[j] = q[j + 1]
    BY <1>4, <1>5
  <2>2. SeqAt(s, i)' = SeqAt(s, i + 1)
    <3>1. CASE i = 0
      BY <1>7, <3>1
    <3>2. CASE i # 0
      <4>1. i > 0 /\ i + 1 > 0 /\ r[i] = q[i + 1]
        BY <2>1, <3>2
      <4>2. QED
        BY <1>2, <1>3, <4>1 DEF SeqAt
    <3>3. QED
      BY <3>1, <3>2
  <2>3. ASSUME NEW tells, NEW denies
        PROVE  /\ Told(tells, denies, q, i + 1) =>
                    \/ Told(tells, denies, r, i)
                    \/ m \in tells /\ Undenied(denies, r, i)
               /\ Undenied(denies, q, i + 1) => m \notin denies /\ Undenied(denies, r, i)
    <3>1. i \in Nat /\ \A j \in 1..i : r[j] = q[j + 1]
      BY <2>1
    <3>2. /\ Told(tells, denies, q, i + 1) =>
               Told(tells, denies, r, i) \/ (q[1] \in tells /\ Undenied(denies, r, i))
          /\ Undenied(denies, q, i + 1) => q[1] \notin denies /\ Undenied(denies, r, i)
      BY <3>1, ToldTail
    <3>3. QED
      BY <1>4, <3>2
  <2>4. ASSUME KnowsLine(s, i + 1) PROVE KnowsLine(s, i)'
    <3>1. LineTold' = LineTold /\ LineDenied' = LineDenied
      BY DEF LineTold, LineDenied
    <3>2. CASE Told(LineTold, LineDenied, q, i + 1)
      <4>1. CASE Told(LineTold, LineDenied, r, i)
        BY <1>3, <3>1, <4>1 DEF KnowsLine
      <4>2. CASE m \in LineTold /\ Undenied(LineDenied, r, i)
        <5>1. client'[s].game = room'.actions
          BY <4>2 DEF LineTold
        <5>2. QED
          BY <1>3, <3>1, <4>2, <5>1 DEF KnowsLine
      <4>3. QED
        BY <2>3, <3>2, <4>1, <4>2
    <3>3. CASE client[s].game = room.actions /\ Undenied(LineDenied, q, i + 1)
      <4>1. m \notin LineDenied /\ Undenied(LineDenied, r, i)
        BY <2>3, <3>3
      <4>2. client'[s].game = room'.actions
        BY <1>6, <3>3, <4>1 DEF LineDenied
      <4>3. QED
        BY <1>3, <3>1, <4>1, <4>2 DEF KnowsLine
    <3>4. QED
      BY <1>2, <2>4, <3>2, <3>3 DEF KnowsLine
  <2>5. ASSUME KnowsRequest(s, i + 1) PROVE KnowsRequest(s, i)'
    <3>1. /\ RequestTold(s)' = RequestTold(s) /\ RequestDenied(s)' = RequestDenied(s)
          /\ Awaited(s)' <=> Awaited(s)
      BY DEF RequestTold, RequestDenied, Awaited, Opens, Closes
    <3>2. Closes(m) => ~Opens(s, m)
      BY DEF Opens, Closes, WithStatus
    <3>3. CASE Told(RequestTold(s), RequestDenied(s), q, i + 1)
      <4>1. CASE Told(RequestTold(s), RequestDenied(s), r, i)
        BY <1>3, <3>1, <4>1 DEF KnowsRequest
      <4>2. CASE m \in RequestTold(s) /\ Undenied(RequestDenied(s), r, i)
        <5>1. IF Awaited(s) THEN Opens(s, m) ELSE Closes(m)
          BY <4>2 DEF RequestTold
        <5>2. Displays(s)' <=> Awaited(s)'
          BY <3>1, <3>2, <5>1
        <5>3. QED
          BY <1>3, <3>1, <4>2, <5>2 DEF KnowsRequest
      <4>3. QED
        BY <2>3, <3>3, <4>1, <4>2
    <3>4. CASE (Displays(s) <=> Awaited(s)) /\ Undenied(RequestDenied(s), q, i + 1)
      <4>1. m \notin RequestDenied(s) /\ Undenied(RequestDenied(s), r, i)
        BY <2>3, <3>4
      <4>2. IF Awaited(s) THEN ~Closes(m) ELSE ~Opens(s, m)
        BY <1>6, <4>1 DEF RequestDenied
      <4>3. Displays(s)' <=> Awaited(s)'
        BY <3>1, <3>4, <4>2
      <4>4. QED
        BY <1>3, <3>1, <4>1, <4>3 DEF KnowsRequest
    <3>5. QED
      BY <1>2, <2>5, <3>3, <3>4 DEF KnowsRequest
  <2>6. QED
    BY <2>2, <2>4, <2>5 DEF Known
<1>9. QED
  BY <1>1, <1>2, <1>3, <1>5, <1>6, <1>7, <1>8

(* Every message is fresh.                                                 *)
LEMMA FreshHead ==
  ASSUME Shape, NEW s \in Seats, InOrder(s), down[s] # << >>,
         client[s].inbound = None
  PROVE  client[s].revision <= Head(down[s]).seq /\ SeqAt(s, 1) = Head(down[s]).seq
<1>1. down[s] \in Seq(Messages)
  BY ShapeFacts
<1>2. /\ 0 \in 0..Len(down[s]) /\ 1 \in 0..Len(down[s])
      /\ Head(down[s]) = down[s][1]
  BY <1>1, TailFacts
<1>3. SeqAt(s, 0) = client[s].revision /\ SeqAt(s, 1) = Head(down[s]).seq
  BY <1>2 DEF SeqAt
<1>4. SeqAt(s, 0) <= SeqAt(s, 1)
  BY <1>2 DEF InOrder
<1>5. QED
  BY <1>3, <1>4

LEMMA BeginMessageLine ==
  ASSUME MatchInv, Shape', InLine, NEW s \in Seats, BeginMessage(s)
  PROVE  InLine'
<1> DEFINE m == Head(down[s])
           game == IF fresh(client[s], m) THEN m.actions ELSE client[s].game
           c == [client[s] EXCEPT !.inbound = m, !.game = game]
<1>1. /\ Shape /\ client[s] \in Clients /\ InOrder(s) /\ InStep(s)
      /\ client[s].revision \in Nat
  BY ShapeFacts, ClientFacts DEF MatchInv, InLine
<1>2. /\ down[s] # << >> /\ client[s].inbound = None /\ m.type \in CarriesSnapshot
      /\ down' = [down EXCEPT ![s] = Tail(@)] /\ Update(s, c)
      /\ UNCHANGED <<room, sockets, up>>
  BY DEF BeginMessage, incoming, restores
<1>3. client[s].revision <= m.seq /\ SeqAt(s, 1) = m.seq
  BY <1>1, <1>2, FreshHead
<1>4. game = m.actions
  BY <1>3 DEF fresh
<1> HIDE DEF game
<1>5. m \in Messages /\ m # None
  BY <1>1, <1>2, ShapeFacts, TailRange, MessageFacts
<1>6. PICK n : n = m
  OBVIOUS
<1> HIDE DEF m
<1>7. /\ c.inbound = m /\ c.game = m.actions
      /\ c.revision = client[s].revision /\ c.saved = client[s].saved
      /\ c.actionLog = client[s].actionLog /\ c.request = client[s].request
      /\ c.pendingCommands = client[s].pendingCommands
  BY <1>1, <1>4 DEF Clients
<1> HIDE DEF c
<1>8. client'[s] = c
  BY <1>1, <1>2, UpdateFacts
<1>9. SeqAt(s, 0)' = m.seq
  BY <1>5, <1>7, <1>8 DEF SeqAt
<1>10. Displays(s)' <=> (Opens(s, m) \/ (Displays(s) /\ ~Closes(m)))
  BY <1>2, <1>5, <1>7, <1>8 DEF Displays, Opens, Closes
<1>11. /\ Len(down'[s]) \in Nat /\ Len(down[s]) = Len(down'[s]) + 1
       /\ \A i \in 0..Len(down'[s]) :
            SeqAt(s, i)' = SeqAt(s, i + 1) /\ (Known(s, i + 1) => Known(s, i)')
       /\ Range(down'[s]) \subseteq Range(down[s]) /\ m \in Range(down[s])
       /\ \A t \in Seats : t # s => down'[t] = down[t]
  BY <1>1, <1>2, <1>7, <1>8, <1>9, <1>10, TakenMoves DEF m
<1>12. MovesUp(s, 1)
  BY <1>2, <1>3, <1>7, <1>8, <1>9, <1>11 DEF MovesUp, CommandsOf
<1>13. InStep(s)'
  <2>1. Displays(s)' => Displays(s) \/ \E x \in Range(down[s]) : Opens(s, x)
    BY <1>10, <1>11
  <2>2. QED
    BY <1>1, <1>7, <1>8, <1>11, <1>12, <2>1, MoversFit
<1>14. InOrder(s)'
  <2>1. Carried(s)' \subseteq Carried(s)
    BY <1>5, <1>7, <1>8, <1>11 DEF Carried
  <2>2. client[s].saved <= client[s].revision
    BY <1>1 DEF InOrder
  <2>3. QED
    BY <1>1, <1>7, <1>8, <1>12, <2>1, <2>2, MoversOrder
<1>15. QED
  BY <1>2, <1>11, <1>13, <1>14, SeatLine

LEMMA HandleAtOnceLine ==
  ASSUME MatchInv, Shape', InLine, NEW s \in Seats, HandleAtOnce(s)
  PROVE  InLine'
<1> DEFINE m == Head(down[s])
           c == IF m.type \in CarriesSnapshot THEN handled(s, client[s], m)
                ELSE noticed(s, client[s], m)
<1>1. /\ Shape /\ client[s] \in Clients /\ InOrder(s) /\ InStep(s)
      /\ client[s].revision \in Nat /\ client[s].saved \in Nat
  BY ShapeFacts, ClientFacts DEF MatchInv, InLine
<1>2. /\ down[s] # << >> /\ client[s].inbound = None /\ ~restores(client[s], m)
      /\ down' = [down EXCEPT ![s] = Tail(@)] /\ Update(s, c)
      /\ UNCHANGED <<room, sockets, up>>
  BY DEF HandleAtOnce, incoming
<1>3. client[s].revision <= m.seq /\ SeqAt(s, 1) = m.seq
  BY <1>1, <1>2, FreshHead
<1>4. m.type \in CarriesSnapshot => m.actions = client[s].game
  BY <1>2, <1>3 DEF restores, fresh
<1>5. m \in Messages /\ m \in Carried(s) /\ m.seq \in Nat
  BY <1>1, <1>2, ShapeFacts, TailRange, MessageFacts DEF Carried
<1>6. m.type = "controlResult" => m.pending = None
  BY <1>1, <1>5 DEF InOrder
<1>7. /\ c.revision = m.seq /\ c.game = client[s].game /\ c.inbound = None
      /\ \/ c.saved = client[s].saved /\ c.actionLog = client[s].actionLog
         \/ c.saved = m.seq /\ c.actionLog = c.game
      /\ c.request # None <=> (Opens(s, m) \/ (client[s].request # None /\ ~Closes(m)))
      /\ Range(c.pendingCommands) \subseteq Range(client[s].pendingCommands)
  <2>1. CASE m.type \in CarriesSnapshot
    <3>1. Shows(s, client[s], m, handled(s, client[s], m))
      BY <1>1, <1>3, <1>5, <1>6, <2>1, HandledShows
    <3>2. c = handled(s, client[s], m)
      BY <2>1
    <3> HIDE DEF c, m
    <3>3. QED
      BY <1>2, <1>4, <2>1, <3>1, <3>2 DEF Shows
  <2>2. CASE m.type \notin CarriesSnapshot
    <3> DEFINE d == noticed(s, client[s], m)
    <3>1. /\ d.revision = m.seq /\ d.saved = client[s].saved
          /\ d.actionLog = client[s].actionLog
          /\ d.game = client[s].game /\ d.inbound = client[s].inbound
          /\ d.request # None
               <=> (Opens(s, m) \/ (client[s].request # None /\ ~Closes(m)))
          /\ d.pendingCommands = client[s].pendingCommands
      BY <1>1, <1>5, <2>2, NoticedShows
    <3>2. c = d
      BY <2>2
    <3> HIDE DEF c, d, m
    <3>3. QED
      BY <1>2, <3>1, <3>2
  <2>3. QED
    BY <2>1, <2>2
<1> HIDE DEF c
<1>8. client'[s] = c
  BY <1>1, <1>2, UpdateFacts
<1> HIDE DEF m
<1>9. SeqAt(s, 0)' = m.seq
  BY <1>7, <1>8 DEF SeqAt
<1>10. Displays(s)' <=> (Opens(s, m) \/ (Displays(s) /\ ~Closes(m)))
  BY <1>2, <1>7, <1>8 DEF Displays
<1>11. /\ Len(down'[s]) \in Nat /\ Len(down[s]) = Len(down'[s]) + 1
       /\ \A i \in 0..Len(down'[s]) :
            SeqAt(s, i)' = SeqAt(s, i + 1) /\ (Known(s, i + 1) => Known(s, i)')
       /\ Range(down'[s]) \subseteq Range(down[s]) /\ m \in Range(down[s])
       /\ \A t \in Seats : t # s => down'[t] = down[t]
  BY <1>1, <1>2, <1>4, <1>7, <1>8, <1>9, <1>10, TakenMoves DEF m
<1>12. MovesUp(s, 1)
  <2>1. CommandsOf(s)' \subseteq CommandsOf(s)
    BY <1>2, <1>7, <1>8 DEF CommandsOf
  <2>2. client'[s].revision <= SeqAt(s, 0)'
    BY <1>5, <1>7, <1>8, <1>9
  <2>3. QED
    BY <1>2, <1>11, <2>1, <2>2 DEF MovesUp
<1>13. InStep(s)'
  <2>1. Displays(s)' => Displays(s) \/ \E x \in Range(down[s]) : Opens(s, x)
    BY <1>10, <1>11
  <2>2. QED
    BY <1>1, <1>7, <1>8, <1>9, <1>11, <1>12, <2>1, MoversFit
<1>14. InOrder(s)'
  <2>1. Carried(s)' \subseteq Carried(s)
    BY <1>7, <1>8, <1>11 DEF Carried
  <2>2. client[s].saved <= client[s].revision
    BY <1>1 DEF InOrder
  <2>3. c.saved <= c.revision /\ client[s].revision <= c.revision
    BY <1>1, <1>3, <1>5, <1>7, <2>2
  <2>4. QED
    BY <1>1, <1>7, <1>8, <1>12, <2>1, <2>3, MoversOrder
<1>15. QED
  BY <1>2, <1>11, <1>13, <1>14, SeatLine

LEMMA EndMessageLine ==
  ASSUME MatchInv, Shape', InLine, NEW s \in Seats, EndMessage(s)
  PROVE  InLine'
<1> DEFINE m == client[s].inbound
           h == handled(s, client[s], m)
           d == [h EXCEPT !.inbound = None]
           c == IF m.type = "welcome" /\ ~client[s].isConnected
                THEN [d EXCEPT !.stage = client[s].stage,
                               !.looping = client[s].looping]
                ELSE d
<1>1. /\ Shape /\ client[s] \in Clients /\ InOrder(s) /\ InStep(s)
      /\ up[s] \in Seq(Commands)
      /\ client[s].revision \in Nat /\ client[s].saved \in Nat
  BY ShapeFacts, ClientFacts DEF MatchInv, InLine
<1>2. /\ m # None /\ Update(s, c)
      /\ up' = up \/ up' = [up EXCEPT ![s] = @ \o d.pendingCommands]
      /\ UNCHANGED <<room, sockets, down>>
  BY DEF EndMessage, roomVars
<1>3. m \in Messages /\ m.type \in CarriesSnapshot /\ m \in Carried(s) /\ m.seq \in Nat
  BY <1>1, <1>2, ClientFacts, CarriedByOf, MessageFacts
<1>4. /\ client[s].revision <= m.seq /\ client[s].game = m.actions
      /\ m.type = "controlResult" => m.pending = None
      /\ SeqAt(s, 0) = m.seq
  BY <1>1, <1>2, <1>3 DEF InOrder, SeqAt
<1>5. Shows(s, client[s], m, h) /\ h \in Clients
  BY <1>1, <1>3, <1>4, HandledShows, HandledFacts DEF Applied
<1>6. Displays(s) <=> (Opens(s, m) \/ (client[s].request # None /\ ~Closes(m)))
  BY <1>2 DEF Displays
<1> HIDE DEF m, h
<1>7. /\ d \in Clients
      /\ d.revision = h.revision /\ d.saved = h.saved
      /\ d.actionLog = h.actionLog /\ d.game = h.game /\ d.inbound = None
      /\ d.request = h.request /\ d.pendingCommands = h.pendingCommands
  BY <1>5 DEF Clients, SameFace
<1> HIDE DEF d
<1>8. SameFace(d, c)
  <2>1. SameFace(d, d)
    BY DEF SameFace
  <2>2. SameFace(d, [d EXCEPT !.stage = client[s].stage, !.looping = client[s].looping])
    BY <1>7 DEF Clients, SameFace
  <2>3. QED
    BY <2>1, <2>2, Zenon
<1> HIDE DEF c
<1>9. client'[s] = c
  BY <1>1, <1>2, UpdateFacts
<1>10. /\ c.revision = m.seq /\ c.saved = m.seq /\ c.actionLog = m.actions
       /\ c.game = m.actions /\ c.inbound = None
       /\ c.request # None <=> Displays(s)
       /\ c.pendingCommands = d.pendingCommands
       /\ Range(d.pendingCommands) \subseteq Range(client[s].pendingCommands)
  BY <1>4, <1>5, <1>6, <1>7, <1>8 DEF Shows, SameFace
<1>11. /\ Range(up'[s]) \subseteq CommandsOf(s)
       /\ \A t \in Seats : t # s => up'[t] = up[t]
  <2>1. CASE up' = up
    BY <2>1 DEF CommandsOf
  <2>2. CASE up' = [up EXCEPT ![s] = @ \o d.pendingCommands]
    <3>1. Range(up[s] \o d.pendingCommands) \subseteq CommandsOf(s)
      <4>1. d.pendingCommands \in Seq(Commands)
        BY <1>7, ClientFacts
      <4>2. QED
        BY <1>1, <1>10, <4>1, ConcatRange DEF CommandsOf
    <3>2. QED
      BY <1>1, <2>2, <3>1 DEF Shape
  <2>3. QED
    BY <1>2, <2>1, <2>2
<1>12. Len(down[s]) \in Nat /\ down'[s] = down[s]
  BY <1>1, <1>2, PlaceFacts
<1>13. \A i \in 0..Len(down'[s]) : SeqAt(s, i)' = SeqAt(s, i)
  BY <1>2, <1>4, <1>9, <1>10, <1>12 DEF SeqAt
<1>14. /\ Displays(s)' <=> Displays(s)
       /\ client'[s].game = client[s].game
  BY <1>4, <1>9, <1>10 DEF Displays
<1>15. \A i \in 0..Len(down'[s]) : Known(s, i) => Known(s, i)'
  <2>1. /\ LineTold' = LineTold /\ LineDenied' = LineDenied
        /\ RequestTold(s)' = RequestTold(s) /\ RequestDenied(s)' = RequestDenied(s)
        /\ Awaited(s)' <=> Awaited(s)
    BY <1>2 DEF LineTold, LineDenied, RequestTold, RequestDenied, Awaited, Opens, Closes
  <2>2. QED
    BY <1>2, <1>12, <1>14, <2>1 DEF Known, KnowsLine, KnowsRequest
<1>16. MovesUp(s, 0)
  <2>1. CommandsOf(s)' \subseteq CommandsOf(s)
    BY <1>9, <1>10, <1>11 DEF CommandsOf
  <2>2. \A i \in 0..Len(down'[s]) : SeqAt(s, i)' = SeqAt(s, i + 0)
    BY <1>12, <1>13
  <2>3. Len(down[s]) = Len(down'[s]) + 0
    BY <1>12
  <2>4. m.seq <= SeqAt(s, 0)'
    BY <1>3, <1>4, <1>12, <1>13
  <2>5. QED
    BY <1>2, <1>9, <1>10, <1>12, <2>1, <2>2, <2>3, <2>4 DEF MovesUp, m
<1>17. InStep(s)'
  <2>1. \A i \in 0..Len(down'[s]) : Known(s, i + 0) => Known(s, i)'
    BY <1>12, <1>15
  <2>2. SeqAt(s, 0)' = m.seq
    BY <1>4, <1>12, <1>13
  <2>3. QED
    BY <1>1, <1>9, <1>10, <1>14, <1>16, <2>1, <2>2, MoversFit
<1>18. InOrder(s)'
  <2>1. Carried(s)' \subseteq Carried(s)
    BY <1>9, <1>10, <1>12 DEF Carried
  <2>2. m.seq <= m.seq
    BY <1>3
  <2>3. QED
    BY <1>1, <1>4, <1>9, <1>10, <1>16, <2>1, <2>2, MoversOrder
<1>19. QED
  BY <1>2, <1>11, <1>17, <1>18, SeatLine

-----------------------------------------------------------------------------
(* The room's steps.                                                       *)

(* What the room says to a seat is so, and enough.                         *)
Tells(s, m) ==
    /\ m.seq = room'.seq
    /\ m.type \in CarriesSnapshot => m.actions = room'.actions
    /\ m.type \notin CarriesSnapshot => room'.actions = room.actions
    /\ m.type \in WithStatus => m.pending = room'.pendingControl
    /\ m.type = "controlRequest" => Awaited(s)'
    /\ m.type \notin WithStatus /\ m.type # "controlRequest" =>
         (Awaited(s)' <=> Awaited(s))
    /\ m.type = "controlResult" => m.pending = None

LEMMA TellsSays ==
  ASSUME NEW s \in Seats, NEW m \in Messages, Tells(s, m),
         sockets[s] = "open" \/ m.type = "welcome"
  PROVE  Says(s, m)
<1>1. m.type \in WithStatus => m.type \in CarriesSnapshot
  BY DEF WithStatus, CarriesSnapshot
<1>2. m.seq = room'.seq /\ m \notin LineDenied'
  BY DEF Tells, LineDenied
<1>3. m \in LineTold' \/ (sockets[s] = "open" /\ room'.actions = room.actions)
  BY DEF Tells, LineTold, CarriesSnapshot
<1>4. m.type # "controlRequest" \/ m.type \notin WithStatus
  BY DEF WithStatus
<1>5. Opens(s, m) => Awaited(s)' /\ ~Closes(m)
  BY <1>4 DEF Tells, Opens, Closes, Awaited
<1>6. Closes(m) => ~Awaited(s)'
  BY DEF Tells, Closes, Awaited
<1>7. m \notin RequestDenied(s)'
  BY <1>5, <1>6 DEF RequestDenied, Opens, Closes
<1>8. Asking(s)' => ~Opens(s, m)
  BY <1>5 DEF Asking, Awaited
<1>9. \/ m \in RequestTold(s)'
      \/ Asking(s)'
      \/ sockets[s] = "open" /\ (Awaited(s)' <=> Awaited(s))
  <2>1. CASE m.type \in WithStatus
    <3>1. CASE Awaited(s)'
      <4>1. Opens(s, m)
        BY <2>1, <3>1 DEF Tells, Opens, Awaited
      <4>2. QED
        BY <3>1, <4>1 DEF RequestTold, Opens
    <3>2. CASE ~Awaited(s)' /\ room'.pendingControl = None
      <4>1. Closes(m)
        BY <2>1, <3>2 DEF Tells, Closes
      <4>2. QED
        BY <3>2, <4>1 DEF RequestTold, Closes
    <3>3. CASE ~Awaited(s)' /\ room'.pendingControl # None
      BY <3>3 DEF Asking, Awaited
    <3>4. QED
      BY <3>1, <3>2, <3>3
  <2>2. CASE m.type = "controlRequest"
    <3>1. Awaited(s)' /\ Opens(s, m)
      BY <2>2 DEF Tells, Opens
    <3>2. QED
      BY <3>1 DEF RequestTold, Opens
  <2>3. CASE m.type \notin WithStatus /\ m.type # "controlRequest"
    BY <2>3 DEF Tells, WithStatus
  <2>4. QED
    BY <2>1, <2>2, <2>3
<1>10. QED
  BY <1>2, <1>3, <1>7, <1>8, <1>9 DEF Says

(* A seat that may learn of a request that is not its own.                 *)
Unasked(s) == ~Displays(s) /\ \A m \in Range(down[s]) : ~Opens(s, m)

LEMMA HearersListen ==
  ASSUME Shape, NEW s \in Seats, InStep(s), Held(s), room # None,
         room'.seq \in {room.seq, room.seq + 1},
         room'.seq = room.seq =>
           room'.actions = room.actions /\ room'.pendingControl = room.pendingControl,
         sockets'[s] = "open" => sockets[s] = "open",
         \/ down'[s] = down[s] /\ room'.seq = room.seq
         \/ \E m \in Messages : Hears(s, m) /\ Tells(s, m),
         Asking(s)' => Asking(s) \/ Unasked(s)
  PROVE  Listens(s)
<1>1. room'.seq = room.seq => (Awaited(s)' <=> Awaited(s))
  BY DEF Awaited
<1>2. Asking(s)' => ~Displays(s) /\ \A m \in Range(down[s]) : ~Opens(s, m)
  BY DEF InStep, AskerWaits, Unasked
<1>3. \/ /\ down'[s] = down[s]
         /\ sockets'[s] = "open" => sockets[s] = "open" /\ room'.seq = room.seq
      \/ \E m \in Messages : Says(s, m) /\ down'[s] = Append(down[s], m)
  <2>1. CASE down'[s] = down[s] /\ room'.seq = room.seq
    BY <2>1
  <2>2. ASSUME NEW m \in Messages, Hears(s, m), Tells(s, m), sockets[s] = "open"
        PROVE  Says(s, m) /\ down'[s] = Append(down[s], m)
    BY <2>2, TellsSays DEF Hears
  <2>3. ASSUME NEW m \in Messages, Hears(s, m), sockets[s] # "open"
        PROVE  down'[s] = down[s]
    BY <2>3 DEF Hears
  <2>4. QED
    BY <2>1, <2>2, <2>3
<1>4. QED
  BY <1>1, <1>2, <1>3 DEF Listens

LEMMA ListenersLine ==
  ASSUME MatchInv, Shape', InLine, room # None, room' # None,
         \A s \in Seats : Listens(s),
         \A s \in Seats : StartedAgain(s) => StartedAgain(s)' \/ up'[s] = << >>,
         \A s \in Seats : \A m \in Messages : down'[s] = Append(down[s], m) =>
           (m.type = "controlResult" => m.pending = None)
  PROVE  InLine'
<1> SUFFICES ASSUME NEW s \in Seats PROVE InOrder(s)' /\ InStep(s)'
  BY DEF InLine
<1>1. InOrder(s) /\ InStep(s) /\ Listens(s)
  BY DEF InLine
<1>2. InOrder(s)'
  BY <1>1, ListenersOrder
<1>3. InStep(s)'
  BY <1>1, ListenersFit
<1>4. QED
  BY <1>2, <1>3

(* The room does something and says so.                                    *)
LEMMA HearersLine ==
  ASSUME MatchInv, Shape', InLine, room # None, room' # None,
         room'.seq \in {room.seq, room.seq + 1},
         room'.seq = room.seq =>
           room'.actions = room.actions /\ room'.pendingControl = room.pendingControl,
         client' = client,
         \A s \in Seats : Range(up'[s]) \subseteq Range(up[s]),
         \A s \in Seats : sockets'[s] \in {sockets[s], "closed"},
         \A s \in Seats :
           \/ down'[s] = down[s] /\ room'.seq = room.seq
           \/ \E m \in Messages : Hears(s, m) /\ Tells(s, m),
         \A s \in Seats : Asking(s)' => Asking(s) \/ Unasked(s)
  PROVE  InLine'
<1>1. ASSUME NEW s \in Seats
      PROVE  /\ Listens(s)
             /\ StartedAgain(s) => StartedAgain(s)'
             /\ \A m \in Messages : down'[s] = Append(down[s], m) =>
                  (m.type = "controlResult" => m.pending = None)
  <2>1. Shape /\ InStep(s) /\ down[s] \in Seq(Messages)
    BY ShapeFacts DEF MatchInv, InLine
  <2>2. Held(s)
    BY DEF Held, Keeps
  <2>3. Listens(s)
    BY <2>1, <2>2, HearersListen
  <2>4. ASSUME StartedAgain(s) PROVE StartedAgain(s)'
    <3>1. down'[s] = down[s]
      BY <2>4 DEF StartedAgain, Hears
    <3>2. sockets'[s] # "open"
      BY <2>4 DEF StartedAgain
    <3>3. QED
      BY <2>4, <3>1, <3>2 DEF StartedAgain
  <2>5. ASSUME NEW m \in Messages, down'[s] = Append(down[s], m),
               m.type = "controlResult"
        PROVE  m.pending = None
    <3>1. down'[s] # down[s]
      <4>1. Len(Append(down[s], m)) = Len(down[s]) + 1 /\ Len(down[s]) \in Nat
        BY <2>1
      <4>2. QED
        BY <2>5, <4>1
    <3>2. PICK n \in Messages : down'[s] = Append(down[s], n) /\ Tells(s, n)
      BY <3>1 DEF Hears
    <3>3. n = m
      <4>1. /\ Append(down[s], m)[Len(down[s]) + 1] = m
            /\ Append(down[s], n)[Len(down[s]) + 1] = n
        BY <2>1
      <4>2. QED
        BY <2>5, <3>2, <4>1
    <3>4. QED
      BY <2>5, <3>2, <3>3 DEF Tells
  <2>6. QED
    BY <2>3, <2>4, <2>5
<1>2. QED
  BY <1>1, ListenersLine

LEMMA AnswerLine ==
  ASSUME MatchInv, Shape', InLine, NEW s \in Seats, Takes(s), NEW m \in Messages,
         room # None, room' # None, room'.seq = room.seq,
         room'.actions = room.actions, room'.pendingControl = room.pendingControl,
         sockets' = sockets, down' = Sent(down, m, {s}), Tells(s, m)
  PROVE  InLine'
<1>1. Shape /\ down \in [Seats -> Seq(Messages)]
  BY DEF MatchInv, Shape
<1>2. \A t \in Seats : down'[t] = IF t \in {s} /\ sockets[t] = "open"
                                  THEN Append(down[t], m) ELSE down[t]
  BY <1>1, SentFacts
<1>3. Hears(s, m) /\ \A t \in Seats : t # s => down'[t] = down[t]
  BY <1>2 DEF Hears
<1>4. client' = client /\ \A t \in Seats : Range(up'[t]) \subseteq Range(up[t])
  BY <1>1, TakesFacts DEF Takes, Bystander
<1>5. \A t \in Seats : Asking(t)' => Asking(t)
  BY DEF Asking
<1>6. \A t \in Seats :
        \/ down'[t] = down[t] /\ room'.seq = room.seq
        \/ \E n \in Messages : Hears(t, n) /\ Tells(t, n)
  BY <1>3
<1>7. QED
  BY <1>4, <1>5, <1>6, HearersLine

LEMMA RejectLine ==
  ASSUME MatchInv, Shape', InLine, NEW s \in Seats, RoomReceives(s),
         NEW code \in Errors, rejectCommand(s, Head(up[s]), code)
  PROVE  InLine'
<1>1. PICK c : c = Head(up[s])
  OBVIOUS
<1>2. /\ c \in Commands /\ c.id \in Ids /\ Takes(s) /\ room # None
      /\ room \in RoomStates /\ room.seq \in Nat
  BY <1>1, ReceivesFacts, CommandFacts, RoomKnown, RoomFacts
<1>3. /\ room' = remembered(room, c.id, code)
      /\ down' = Sent(down, errorEvent(room, code, c.id), {s})
      /\ UNCHANGED <<alarm, sockets>>
  BY <1>1 DEF rejectCommand
<1>4. /\ room' \in RoomStates /\ room' # None
      /\ room'.seq = room.seq /\ room'.actions = room.actions
      /\ room'.pendingControl = room.pendingControl
  BY <1>2, <1>3, RememberedFacts
<1>5. PICK m : m = errorEvent(room, code, c.id)
  OBVIOUS
<1>6. m \in Messages /\ m.type = "error" /\ m.seq = room.seq /\ m.actions = room.actions
  BY <1>2, <1>5, RoomFacts DEF errorEvent, Messages
<1>7. Tells(s, m)
  <2>1. Awaited(s)' <=> Awaited(s)
    BY <1>4 DEF Awaited
  <2>2. QED
    BY <1>4, <1>6, <2>1 DEF Tells, CarriesSnapshot, WithStatus
<1>8. QED
  BY <1>2, <1>3, <1>4, <1>5, <1>6, <1>7, AnswerLine

(* A snapshot of the room as it has become.                                *)
LEMMA StateTells ==
  ASSUME NEW s \in Seats, NEW id \in Ids, room' \in RoomStates, NEW m,
         m = stateEvent(room', "state", id)
  PROVE  m \in Messages /\ m.type = "state" /\ Tells(s, m)
<1>1. m \in Messages /\ m.type = "state"
  BY StateEvents
<1>2. m.seq = room'.seq /\ m.actions = room'.actions /\ m.pending = room'.pendingControl
  BY DEF stateEvent
<1>3. QED
  BY <1>1, <1>2 DEF Tells, CarriesSnapshot, WithStatus

LEMMA AnswerAgainLine ==
  ASSUME MatchInv, Shape', InLine, NEW s \in Seats, RoomReceives(s),
         recognised(Head(up[s])), answerAgain(s, Head(up[s]))
  PROVE  InLine'
<1>1. PICK c : c = Head(up[s])
  OBVIOUS
<1>2. /\ c \in Commands /\ c.id \in Ids /\ Takes(s) /\ room # None
      /\ room \in RoomStates /\ room.seq \in Nat
      /\ room.recentCommands \in Seq(Items)
  BY <1>1, ReceivesFacts, CommandFacts, RoomKnown, RoomFacts
<1>3. PICK item : item = CHOOSE x \in Range(room.recentCommands) : x.id = c.id
  OBVIOUS
<1>4. item \in Items
  <2>1. \E x \in Range(room.recentCommands) : x.id = c.id
    BY <1>1 DEF recognised, Range
  <2>2. item \in Range(room.recentCommands)
    BY <1>3, <2>1
  <2>3. QED
    BY <1>2, <2>2, RangeIn
<1>5. PICK m : m = IF item.error = "none" THEN stateEvent(room, "state", c.id)
                   ELSE errorEvent(room, item.error, c.id)
  OBVIOUS
<1>6. down' = Sent(down, m, {s}) /\ UNCHANGED <<room, alarm, sockets>>
  BY <1>1, <1>3, <1>5 DEF answerAgain
<1>7. m \in Messages /\ Tells(s, m)
  <2>1. CASE item.error = "none"
    <3>1. room' \in RoomStates /\ m = stateEvent(room', "state", c.id)
      BY <1>2, <1>5, <1>6, <2>1
    <3>2. QED
      BY <1>2, <3>1, StateTells
  <2>2. CASE item.error # "none"
    <3>1. item.error \in Errors /\ m = errorEvent(room, item.error, c.id)
      BY <1>4, <1>5, <2>2 DEF Items
    <3>2. /\ m \in Messages /\ m.type = "error" /\ m.seq = room.seq
          /\ m.actions = room.actions
      BY <1>2, <3>1, RoomFacts DEF errorEvent, Messages
    <3>3. Awaited(s)' <=> Awaited(s)
      BY <1>6 DEF Awaited
    <3>4. QED
      BY <1>6, <3>2, <3>3 DEF Tells, CarriesSnapshot, WithStatus
  <2>3. QED
    BY <2>1, <2>2
<1>8. QED
  BY <1>2, <1>6, <1>7, AnswerLine

(* A command that takes effect.                                            *)
LEMMA EffectLine ==
  ASSUME MatchInv, Shape', InLine, NEW s \in Seats, Takes(s),
         room # None, room' # None, room'.seq = room.seq + 1,
         \A t \in Seats : sockets'[t] \in {sockets[t], "closed"},
         \A t \in Seats : \E m \in Messages : Hears(t, m) /\ Tells(t, m),
         \A t \in Seats : Asking(t)' => Asking(t) \/ Unasked(t)
  PROVE  InLine'
<1>1. Shape /\ room.seq \in Nat
  BY RoomKnown, RoomFacts DEF MatchInv
<1>2. client' = client /\ \A t \in Seats : Range(up'[t]) \subseteq Range(up[t])
  BY <1>1, TakesFacts DEF Takes, Bystander
<1>3. room'.seq # room.seq
  BY <1>1
<1>4. QED
  BY <1>2, <1>3, HearersLine

LEMMA ActionLine ==
  ASSUME MatchInv, Shape', InLine, NEW s \in Seats, RoomReceives(s),
         Head(up[s]).type = "action", may_act(s, Head(up[s])),
         applyAction(s, Head(up[s]))
  PROVE  InLine'
<1>1. PICK c : c = Head(up[s])
  OBVIOUS
<1>2. /\ c \in Commands /\ c.id \in Ids /\ c.move \in Moves
      /\ Takes(s) /\ room # None /\ room \in RoomStates /\ Shape
  BY <1>1, ReceivesFacts, CommandFacts, RoomKnown DEF MatchInv
<1>3. /\ room.pendingControl = None
      /\ room' = committed(played(room, c.move), c)
      /\ down' = Sent(down, stateEvent(room', "state", c.id), Seats)
      /\ sockets' = sockets
  BY <1>1 DEF applyAction, may_act
<1>4. PICK r \in RoomStates :
        /\ r = played(room, c.move) /\ r.seq = room.seq
        /\ r.pendingControl = room.pendingControl
  BY <1>2, <1>3, PlayedFacts
<1>5. /\ room' \in RoomStates /\ room' # None /\ room'.seq = room.seq + 1
      /\ room'.pendingControl = None
  BY <1>2, <1>3, <1>4, CommittedFacts
<1>6. PICK m : m = stateEvent(room', "state", c.id)
  OBVIOUS
<1>7. m \in Messages /\ \A t \in Seats : Tells(t, m)
  BY <1>2, <1>5, <1>6, StateTells
<1>8. \A t \in Seats : Hears(t, m)
  BY <1>2, <1>3, <1>6, <1>7, SentToBoth
<1>9. \A t \in Seats : ~Asking(t)'
  BY <1>5 DEF Asking
<1>10. QED
  BY <1>2, <1>3, <1>5, <1>7, <1>8, <1>9, EffectLine

(* Whoever asks stands where the room stands, and has nothing to answer.   *)
LEMMA AskersAreUnasked ==
  ASSUME MatchInv, InLine, NEW s \in Seats, NEW c \in Range(up[s]), room # None,
         c.expectedSeq = room.seq, room.pendingControl = None
  PROVE  Unasked(s)
<1>1. /\ Shape /\ InOrder(s) /\ AtRevision(s) /\ OnTheWay(s)
      /\ client[s] \in Clients /\ down[s] \in Seq(Messages)
  BY ShapeFacts DEF MatchInv, InLine, InStep
<1>2. /\ \A i \in 0..Len(down[s]) : SeqAt(s, i) <= room.seq /\ SeqAt(s, i) \in Nat
      /\ client[s].revision <= room.seq /\ client[s].revision \in Nat
      /\ room.seq \in Nat /\ Len(down[s]) \in Nat
  BY <1>1, WithinTheRoom, PlaceFacts
<1>3. ~Awaited(s)
  BY DEF Awaited
<1>4. CASE StartedAgain(s)
  <2>1. ~Displays(s)
    BY <1>4 DEF StartedAgain, Displays
  <2>2. Range(down[s]) = {}
    BY <1>4, EmptyRange DEF StartedAgain
  <2>3. QED
    BY <2>1, <2>2 DEF Unasked
<1>5. CASE ~StartedAgain(s)
  <2>1. room.seq <= client[s].revision
    BY <1>1, <1>5 DEF InOrder
  <2>2. client[s].revision = room.seq
    BY <1>2, <2>1
  <2>3. \A i \in 0..Len(down[s]) : SeqAt(s, i) = room.seq
    <3> SUFFICES ASSUME NEW i \in 0..Len(down[s]) PROVE SeqAt(s, i) = room.seq
      OBVIOUS
    <3>1. 0 \in 0..Len(down[s]) /\ 0 <= i
      BY <1>2
    <3>2. SeqAt(s, 0) <= SeqAt(s, i) /\ client[s].revision <= SeqAt(s, 0)
      BY <1>1, <3>1 DEF InOrder
    <3>3. SeqAt(s, 0) \in Nat /\ SeqAt(s, i) \in Nat /\ SeqAt(s, i) <= room.seq
      BY <1>2, <3>1
    <3>4. QED
      BY <1>2, <2>2, <3>2, <3>3
  <2>4. ~Displays(s)
    <3>1. CASE client[s].inbound = None
      BY <1>1, <1>3, <2>2, <3>1 DEF AtRevision, Displays
    <3>2. CASE client[s].inbound # None
      <4>1. 0 \in 0..Len(down[s])
        BY <1>2
      <4>2. Known(s, 0)
        BY <1>1, <2>3, <3>2, <4>1 DEF OnTheWay
      <4>3. \A tells, denies, q : ~Told(tells, denies, q, 0)
        BY DEF Told
      <4>4. QED
        BY <1>3, <4>2, <4>3 DEF Known, KnowsRequest
    <3>3. QED
      BY <3>1, <3>2
  <2>5. ASSUME NEW i \in 1..Len(down[s]) PROVE ~Opens(s, down[s][i])
    <3>1. i \in 0..Len(down[s]) /\ i # 0 /\ i \in Nat /\ i \in 1..i
      BY <1>2
    <3>2. KnowsRequest(s, i)
      BY <1>1, <2>3, <3>1 DEF OnTheWay, Known
    <3>3. CASE Undenied(RequestDenied(s), down[s], i)
      <4>1. down[s][i] \notin RequestDenied(s) /\ down[s][i] \in Messages
        BY <1>1, <3>1, <3>3, PlaceFacts DEF Undenied
      <4>2. QED
        BY <1>3, <4>1 DEF RequestDenied
    <3>4. CASE Told(RequestTold(s), RequestDenied(s), down[s], i)
      <4>1. PICK k \in 1..i : /\ down[s][k] \in RequestTold(s)
                              /\ \A j \in k+1..i : down[s][j] \notin RequestDenied(s)
        BY <3>4 DEF Told
      <4>2. CASE k = i
        <5>1. Closes(down[s][i])
          BY <1>3, <4>1, <4>2 DEF RequestTold
        <5>2. QED
          BY <5>1 DEF Opens, Closes, WithStatus
      <4>3. CASE k # i
        <5>1. i \in k+1..i
          BY <3>1, <4>1, <4>3
        <5>2. down[s][i] \notin RequestDenied(s) /\ down[s][i] \in Messages
          BY <1>1, <4>1, <5>1, PlaceFacts
        <5>3. QED
          BY <1>3, <5>2 DEF RequestDenied
      <4>4. QED
        BY <4>2, <4>3
    <3>5. QED
      BY <3>2, <3>3, <3>4 DEF KnowsRequest
  <2>6. \A m \in Range(down[s]) : ~Opens(s, m)
    BY <1>1, <2>5, PlaceFacts DEF Range
  <2>7. QED
    BY <2>4, <2>6 DEF Unasked
<1>6. QED
  BY <1>4, <1>5

LEMMA RequestLine ==
  ASSUME MatchInv, Shape', InLine, NEW s \in Seats, RoomReceives(s),
         Head(up[s]).type = "request", current(Head(up[s])),
         may_request(Head(up[s])), requestControl(s, Head(up[s]))
  PROVE  InLine'
<1>1. PICK c : c = Head(up[s])
  OBVIOUS
<1>2. /\ c \in Commands /\ c.id \in Ids /\ c.type = "request"
      /\ c.kind \in CONTROL_KINDS /\ c.steps \in Nat
      /\ Takes(s) /\ room # None /\ room \in RoomStates /\ Shape
  BY <1>1, ReceivesFacts, CommandFacts, RoomKnown DEF MatchInv
<1>3. PICK pending : pending = [kind |-> c.kind, requestId |-> c.id,
                                requester |-> s, steps |-> c.steps]
  OBVIOUS
<1>4. /\ room.pendingControl = None
      /\ room' = committed([room EXCEPT !.pendingControl = pending], c)
      /\ sockets' = sockets
      /\ down' = Sent(Sent(down, stateEvent(room', "state", c.id), {s}),
                      [type |-> "controlRequest", request |-> pending,
                       seq |-> room'.seq],
                      Others(s))
  BY <1>1, <1>3 DEF requestControl, may_request
<1>5. pending \in Requests /\ pending # None /\ pending.requester = s
  BY <1>2, <1>3, Somethings DEF Requests
<1>6. PICK r : r = [room EXCEPT !.pendingControl = pending]
  OBVIOUS
<1>7. /\ r \in RoomStates /\ r.seq = room.seq /\ r.actions = room.actions
      /\ r.pendingControl = pending
  BY <1>2, <1>5, <1>6 DEF RoomStates, Pendings
<1>8. /\ room' \in RoomStates /\ room' # None /\ room'.seq = room.seq + 1
      /\ room'.actions = room.actions /\ room'.pendingControl = pending
  <2>1. PICK d : d = committed(r, c)
    OBVIOUS
  <2>2. /\ d \in RoomStates /\ d # None /\ d.seq = r.seq + 1
        /\ d.actions = r.actions /\ d.pendingControl = r.pendingControl
    BY <1>2, <1>7, <2>1, CommittedFacts
  <2>3. room' = d
    BY <1>4, <1>6, <2>1
  <2>4. QED
    BY <1>7, <2>2, <2>3
<1>9. PICK m : m = stateEvent(room', "state", c.id)
  OBVIOUS
<1>10. m \in Messages /\ Tells(s, m)
  BY <1>2, <1>8, <1>9, StateTells
<1>11. PICK n : n = [type |-> "controlRequest", request |-> pending, seq |-> room'.seq]
  OBVIOUS
<1>12. n \in Messages /\ n.type = "controlRequest" /\ n.seq = room'.seq
  BY <1>5, <1>8, <1>11, RoomFacts DEF Messages
<1>13. \A t \in Seats : Hears(t, IF t = s THEN m ELSE n)
  BY <1>2, <1>4, <1>9, <1>10, <1>11, <1>12, SentApart
<1>14. \A t \in Seats : t # s => Tells(t, n)
  <2> SUFFICES ASSUME NEW t \in Seats, t # s PROVE Tells(t, n)
    OBVIOUS
  <2>1. Awaited(t)'
    BY <1>5, <1>8 DEF Awaited
  <2>2. QED
    BY <1>8, <1>12, <2>1 DEF Tells, CarriesSnapshot, WithStatus
<1>15. \A t \in Seats : \E e \in Messages : Hears(t, e) /\ Tells(t, e)
  <2> SUFFICES ASSUME NEW t \in Seats
               PROVE  \E e \in Messages : Hears(t, e) /\ Tells(t, e)
    OBVIOUS
  <2>1. CASE t = s
    BY <1>10, <1>13, <2>1
  <2>2. CASE t # s
    BY <1>12, <1>13, <1>14, <2>2
  <2>3. QED
    BY <2>1, <2>2
<1>16. \A t \in Seats : Asking(t)' => Asking(t) \/ Unasked(t)
  <2> SUFFICES ASSUME NEW t \in Seats, Asking(t)' PROVE Unasked(t)
    OBVIOUS
  <2>1. t = s
    BY <1>5, <1>8 DEF Asking
  <2>2. c \in Range(up[s]) /\ c.expectedSeq = room.seq
    BY <1>1, <1>2, ShapeFacts, TailRange DEF Takes, current
  <2>3. QED
    BY <1>2, <1>4, <2>1, <2>2, AskersAreUnasked
<1>17. QED
  BY <1>2, <1>4, <1>8, <1>15, <1>16, EffectLine

LEMMA RespondLine ==
  ASSUME MatchInv, Shape', InLine, NEW s \in Seats, RoomReceives(s), LinesTransform,
         Head(up[s]).type = "respond",
         may_respond(s, Head(up[s])), respondControl(s, Head(up[s]))
  PROVE  InLine'
<1>1. PICK c : c = Head(up[s])
  OBVIOUS
<1>2. /\ c \in Commands /\ c.id \in Ids /\ c.type = "respond"
      /\ Takes(s) /\ room # None /\ room \in RoomStates /\ Shape
  BY <1>1, ReceivesFacts, CommandFacts, RoomKnown DEF MatchInv
<1>3. PICK pending \in Requests : pending = room.pendingControl
  BY <1>2, RoomFacts DEF may_respond, Pendings
<1>4. PICK answer : answer = IF c.accepted THEN granted(room, pending) ELSE room
  OBVIOUS
<1>5. /\ room' = committed([answer EXCEPT !.pendingControl = None], c)
      /\ sockets' = sockets
      /\ down' = Sent(down, controlResult(room', c.id, pending.requestId), Seats)
  BY <1>1, <1>3, <1>4 DEF respondControl
<1>6. answer \in RoomStates /\ answer.seq = room.seq
  BY <1>2, <1>4, GrantedFacts
<1>7. PICK r : r = [answer EXCEPT !.pendingControl = None]
  OBVIOUS
<1>8. r \in RoomStates /\ r.seq = room.seq /\ r.pendingControl = None
  BY <1>6, <1>7 DEF RoomStates, Pendings
<1>9. /\ room' \in RoomStates /\ room' # None /\ room'.seq = room.seq + 1
      /\ room'.pendingControl = None
  <2>1. PICK d : d = committed(r, c)
    OBVIOUS
  <2>2. /\ d \in RoomStates /\ d # None /\ d.seq = r.seq + 1
        /\ d.pendingControl = r.pendingControl
    BY <1>2, <1>8, <2>1, CommittedFacts
  <2>3. room' = d
    BY <1>5, <1>7, <2>1
  <2>4. QED
    BY <1>8, <2>2, <2>3
<1>10. PICK m : m = controlResult(room', c.id, pending.requestId)
  OBVIOUS
<1>11. /\ m \in Messages /\ m.type = "controlResult" /\ m.seq = room'.seq
       /\ m.actions = room'.actions /\ m.pending = None
  <2>1. pending.requestId \in Ids
    BY DEF Requests
  <2>2. QED
    BY <1>2, <1>9, <1>10, <2>1, RoomFacts DEF controlResult, Messages
<1>12. \A t \in Seats : Hears(t, m) /\ Tells(t, m)
  <2>1. \A t \in Seats : Hears(t, m)
    BY <1>2, <1>5, <1>10, <1>11, SentToBoth
  <2>2. \A t \in Seats : Tells(t, m)
    BY <1>9, <1>11 DEF Tells, CarriesSnapshot, WithStatus
  <2>3. QED
    BY <2>1, <2>2
<1>13. \A t \in Seats : ~Asking(t)'
  BY <1>9 DEF Asking
<1>14. QED
  BY <1>2, <1>5, <1>9, <1>11, <1>12, <1>13, EffectLine

(* The end of the match leaves the line and the request.                   *)
LEMMA EndLine ==
  ASSUME MatchInv, Shape', InLine, NEW s \in Seats, Takes(s), room # None,
         NEW c \in Commands, NEW r \in RoomStates, r.seq = room.seq,
         r.actions = room.actions, r.pendingControl = room.pendingControl,
         room' = committed(r, c),
         NEW type \in {"opponentResigned", "opponentLeft"},
         NEW m, m = stateEvent(room', "state", c.id),
         NEW n, n = [type |-> type, seq |-> room'.seq],
         \/ down' = Sent(Sent(down, m, {s}), n, Others(s))
         \/ down' = Sent(Sent(down, n, Others(s)), m, {s}),
         sockets' \in {sockets, [sockets EXCEPT ![s] = "closed"]}
  PROVE  InLine'
<1>1. Shape /\ c.id \in Ids
  BY CommandFacts DEF MatchInv
<1>2. /\ room' \in RoomStates /\ room' # None /\ room'.seq = room.seq + 1
      /\ room'.actions = room.actions /\ room'.pendingControl = room.pendingControl
  BY CommittedFacts
<1>3. m \in Messages /\ Tells(s, m)
  BY <1>1, <1>2, StateTells
<1>4. n \in Messages /\ n.type = type /\ n.seq = room'.seq
  BY <1>2, RoomFacts DEF Messages
<1>5. \A t \in Seats : Hears(t, IF t = s THEN m ELSE n)
  BY <1>1, <1>3, <1>4, SentApart
<1>6. \A t \in Seats : Tells(t, n)
  <2>1. \A t \in Seats : Awaited(t)' <=> Awaited(t)
    BY <1>2 DEF Awaited
  <2>2. QED
    BY <1>2, <1>4, <2>1 DEF Tells, CarriesSnapshot, WithStatus
<1>7. \A t \in Seats : \E e \in Messages : Hears(t, e) /\ Tells(t, e)
  <2> SUFFICES ASSUME NEW t \in Seats
               PROVE  \E e \in Messages : Hears(t, e) /\ Tells(t, e)
    OBVIOUS
  <2>1. CASE t = s
    BY <1>3, <1>5, <2>1
  <2>2. CASE t # s
    BY <1>4, <1>5, <1>6, <2>2
  <2>3. QED
    BY <2>1, <2>2
<1>8. \A t \in Seats : Asking(t)' => Asking(t)
  BY <1>2 DEF Asking
<1>9. \A t \in Seats : sockets'[t] \in {sockets[t], "closed"}
  BY <1>1 DEF Shape
<1>10. QED
  BY <1>2, <1>7, <1>8, <1>9, EffectLine
LEMMA ResignLine ==
  ASSUME MatchInv, Shape', InLine, NEW s \in Seats, RoomReceives(s),
         Head(up[s]).type = "resign", room.status = "active",
         resign(s, Head(up[s]))
  PROVE  InLine'
<1>1. PICK c : c = Head(up[s])
  OBVIOUS
<1>2. /\ c \in Commands /\ Takes(s) /\ room # None /\ room \in RoomStates
  BY <1>1, ReceivesFacts, RoomKnown DEF MatchInv
<1>3. PICK winner \in Winners : winner = opposite(s)
  BY Opposites DEF Winners
<1>4. PICK r : r = [room EXCEPT !.status = "ended", !.endReason = "resign",
                                !.winnerSeat = winner]
  OBVIOUS
<1>5. PICK m : m = stateEvent(room', "state", c.id)
  OBVIOUS
<1>6. PICK n : n = [type |-> "opponentResigned", seq |-> room'.seq]
  OBVIOUS
<1>7. /\ room' = committed(r, c) /\ sockets' = sockets
      /\ down' = Sent(Sent(down, m, {s}), n, Others(s))
  BY <1>1, <1>3, <1>4, <1>5, <1>6 DEF resign
<1>8. /\ r \in RoomStates /\ r.seq = room.seq /\ r.actions = room.actions
      /\ r.pendingControl = room.pendingControl
  BY <1>2, <1>4 DEF RoomStates, Statuses, EndReasons
<1>9. QED
  BY <1>2, <1>5, <1>6, <1>7, <1>8, EndLine

LEMMA LeaveLine ==
  ASSUME MatchInv, Shape', InLine, NEW s \in Seats, RoomReceives(s),
         Head(up[s]).type = "leave", room.status = "active",
         leave(s, Head(up[s]))
  PROVE  InLine'
<1>1. PICK c : c = Head(up[s])
  OBVIOUS
<1>2. /\ c \in Commands /\ Takes(s) /\ room # None /\ room \in RoomStates
  BY <1>1, ReceivesFacts, RoomKnown DEF MatchInv
<1>4. PICK r : r = [room EXCEPT !.status = "ended", !.endReason = "left"]
  OBVIOUS
<1>5. PICK m : m = stateEvent(room', "state", c.id)
  OBVIOUS
<1>6. PICK n : n = [type |-> "opponentLeft", seq |-> room'.seq]
  OBVIOUS
<1>7. /\ room' = committed(r, c) /\ sockets' = [sockets EXCEPT ![s] = "closed"]
      /\ down' = Sent(Sent(down, n, Others(s)), m, {s})
  BY <1>1, <1>4, <1>5, <1>6 DEF leave
<1>8. /\ r \in RoomStates /\ r.seq = room.seq /\ r.actions = room.actions
      /\ r.pendingControl = room.pendingControl
  BY <1>2, <1>4 DEF RoomStates, Statuses, EndReasons
<1>9. QED
  BY <1>2, <1>5, <1>6, <1>7, <1>8, EndLine

LEMMA ReceivesLine ==
  ASSUME MatchInv, Shape', InLine, NEW s \in Seats, RoomReceives(s), LinesTransform
  PROVE  InLine'
<1>1. PICK c : c = Head(up[s])
  OBVIOUS
<1>2. /\ c \in Commands
      /\ \/ recognised(c) /\ answerAgain(s, c)
         \/ ~current(c) /\ rejectCommand(s, c, "stale_revision")
         \/ current(c) /\ handleCommand(s, c)
  BY <1>1, ReceivesFacts DEF MatchInv
<1>3. CASE recognised(c) /\ answerAgain(s, c)
  BY <1>1, <1>3, AnswerAgainLine
<1>4. CASE rejectCommand(s, c, "stale_revision")
  BY <1>1, <1>4, RejectLine DEF Errors
<1>5. CASE rejectCommand(s, c, "action_rejected")
  BY <1>1, <1>5, RejectLine DEF Errors
<1>6. CASE current(c) /\ handleCommand(s, c)
  <2>1. c.type \in {"action", "request", "respond", "resign", "leave"}
    BY <1>2 DEF Commands
  <2>2. CASE c.type = "action"
    <3>1. applyAction(s, c)
      BY <1>6, <2>2 DEF handleCommand
    <3>2. CASE may_act(s, c)
      BY <1>1, <2>2, <3>1, <3>2, ActionLine
    <3>3. CASE ~may_act(s, c)
      BY <1>5, <3>1, <3>3 DEF applyAction
    <3>4. QED
      BY <3>2, <3>3
  <2>3. CASE c.type = "request"
    <3>1. requestControl(s, c)
      BY <1>6, <2>3 DEF handleCommand
    <3>2. CASE may_request(c)
      BY <1>1, <1>6, <2>3, <3>1, <3>2, RequestLine
    <3>3. CASE ~may_request(c)
      BY <1>5, <3>1, <3>3 DEF requestControl
    <3>4. QED
      BY <3>2, <3>3
  <2>4. CASE c.type = "respond"
    <3>1. respondControl(s, c)
      BY <1>6, <2>4 DEF handleCommand
    <3>2. CASE may_respond(s, c)
      BY <1>1, <2>4, <3>1, <3>2, RespondLine
    <3>3. CASE ~may_respond(s, c)
      BY <1>5, <3>1, <3>3 DEF respondControl
    <3>4. QED
      BY <3>2, <3>3
  <2>5. CASE c.type = "resign"
    <3>1. resign(s, c)
      BY <1>6, <2>5 DEF handleCommand
    <3>2. CASE room.status = "active"
      BY <1>1, <2>5, <3>1, <3>2, ResignLine
    <3>3. CASE room.status # "active"
      BY <1>5, <3>1, <3>3 DEF resign
    <3>4. QED
      BY <3>2, <3>3
  <2>6. CASE c.type = "leave"
    <3>1. leave(s, c)
      BY <1>6, <2>6 DEF handleCommand
    <3>2. CASE room.status = "active"
      BY <1>1, <2>6, <3>1, <3>2, LeaveLine
    <3>3. CASE room.status # "active"
      BY <1>5, <3>1, <3>3 DEF leave
    <3>4. QED
      BY <3>2, <3>3
  <2>7. QED
    BY <2>1, <2>2, <2>3, <2>4, <2>5, <2>6
<1>7. QED
  BY <1>2, <1>3, <1>4, <1>6

-----------------------------------------------------------------------------
(* Connections.                                                            *)

LEMMA RoomReadsCloseLine ==
  ASSUME MatchInv, Shape', InLine, NEW s \in Seats, RoomReadsClose(s)
  PROVE  InLine'
<1>n. PICK n : n = [type |-> "opponentConnection", connected |-> FALSE, seq |-> room.seq]
  OBVIOUS
<1>1. Shape /\ down \in [Seats -> Seq(Messages)]
  BY DEF MatchInv, Shape
<1>2. /\ sockets' = [sockets EXCEPT ![s] = "closed"]
      /\ down' = IF room = None \/ room.status = "ended" THEN down
                 ELSE Sent(down, n, Others(s))
      /\ up' = [up EXCEPT ![s] = << >>]
      /\ room' = room /\ client' = client
  BY <1>n DEF RoomReadsClose, webSocketClose
<1>3. /\ \A t \in Seats : sockets'[t] \in {sockets[t], "closed"}
      /\ \A t \in Seats : Range(up'[t]) \subseteq Range(up[t])
  BY <1>1, <1>2, EmptyRange DEF Shape
<1>4. CASE room = None
  <2>1. \A t \in Seats : Loses(t)
    BY <1>2, <1>3, <1>4 DEF Loses, Drops, Held, Keeps
  <2>2. \A t \in Seats : sockets'[t] # "open"
    BY <1>3, <1>4 DEF InLine, InOrder
  <2>3. QED
    BY <1>2, <1>4, <2>1, <2>2, LosersLine
<1>5. CASE room # None
  <2>1. n \in Messages /\ n.type = "opponentConnection" /\ n.seq = room.seq
    BY <1>n, <1>5, ConnectionNews
  <2>2. \A t \in Seats : Tells(t, n)
    <3>1. \A t \in Seats : Awaited(t)' <=> Awaited(t)
      BY <1>2 DEF Awaited
    <3>2. QED
      BY <1>2, <2>1, <3>1 DEF Tells, CarriesSnapshot, WithStatus
  <2>3. \A t \in Seats : down'[t] = down[t] \/ Hears(t, n)
    <3>1. CASE room.status = "ended"
      BY <1>2, <3>1
    <3>2. CASE room.status # "ended"
      <4>1. \A t \in Seats : Sent(down, n, Others(s))[t] =
              IF t \in Others(s) /\ sockets[t] = "open"
              THEN Append(down[t], n) ELSE down[t]
        BY <1>1, <2>1, SentFacts
      <4>2. QED
        BY <1>2, <1>5, <3>2, <4>1 DEF Hears
    <3>3. QED
      BY <3>1, <3>2
  <2>4. \A t \in Seats : Asking(t)' => Asking(t)
    BY <1>2 DEF Asking
  <2>5. QED
    BY <1>2, <1>3, <1>5, <2>1, <2>2, <2>3, <2>4, HearersLine
<1>6. QED
  BY <1>4, <1>5

LEMMA ConnectLine ==
  ASSUME MatchInv, Shape', InLine, NEW s \in Seats, Connect(s)
  PROVE  InLine'
<1>w. PICK w : w = welcome(room', s)
  OBVIOUS
<1>n. PICK n : n = [type |-> "opponentConnection", connected |-> TRUE, seq |-> room.seq]
  OBVIOUS
<1>f. PICK first : first = [down EXCEPT ![s] = Append(@, w)]
  OBVIOUS
<1>c. PICK c : c = [client[s] EXCEPT !.isConnected = TRUE, !.stage = "welcome"]
  OBVIOUS
<1>1. /\ Shape /\ client[s] \in Clients /\ down \in [Seats -> Seq(Messages)]
  BY ShapeFacts DEF MatchInv, Shape
<1>2. /\ room # None /\ room' = [room EXCEPT !.tickets = @ \ {s}]
      /\ sockets' = [sockets EXCEPT ![s] = "open"]
      /\ down' = Sent(first, n, Others(s))
      /\ Update(s, c) /\ up' = [up EXCEPT ![s] = << >>]
  BY <1>w, <1>n, <1>f, <1>c DEF Connect, attempting, acceptSocket, valid_ticket
<1>3. /\ room \in RoomStates /\ room' \in RoomStates /\ room' # None
      /\ room'.seq = room.seq /\ room.seq \in Nat
      /\ room'.actions = room.actions /\ room'.pendingControl = room.pendingControl
  <2>1. room \in RoomStates
    BY <1>2, RoomKnown DEF MatchInv
  <2>2. room' \in RoomStates
    BY <1>2, <2>1 DEF RoomStates
  <2>3. QED
    BY <1>2, <2>1, <2>2, RoomFacts, Somethings DEF RoomStates
<1>4. \A u \in Seats : (Awaited(u)' <=> Awaited(u)) /\ (Asking(u)' <=> Asking(u))
  BY <1>3 DEF Awaited, Asking
<1>5. w \in Messages
  BY <1>w, <1>3, RoomFacts DEF welcome, Messages, isSeatConnected
<1>6. /\ w.type = "welcome" /\ w.seq = room'.seq /\ w.actions = room'.actions
      /\ w.pending = room'.pendingControl
  BY <1>w DEF welcome
<1>7. n \in Messages /\ n.type = "opponentConnection" /\ n.seq = room'.seq
  BY <1>2, <1>3, <1>n, ConnectionNews
<1>8. Tells(s, w) /\ \A u \in Seats : Tells(u, n)
  <2>1. Tells(s, w)
    BY <1>6 DEF Tells, CarriesSnapshot, WithStatus
  <2>2. \A u \in Seats : Tells(u, n)
    BY <1>3, <1>4, <1>7 DEF Tells, CarriesSnapshot, WithStatus
  <2>3. QED
    BY <2>1, <2>2
<1>9. /\ first \in [Seats -> Seq(Messages)] /\ first[s] = Append(down[s], w)
      /\ \A u \in Seats : u # s => first[u] = down[u]
  <2>1. Append(down[s], w) \in Seq(Messages)
    BY <1>1, <1>5
  <2>2. QED
    BY <1>1, <1>f, <2>1
<1>10. down'[s] = Append(down[s], w) /\ \A u \in Seats : u # s => Hears(u, n)
  <2>1. \A u \in Seats : Sent(first, n, Others(s))[u] =
          IF u \in Others(s) /\ sockets[u] = "open"
          THEN Append(first[u], n) ELSE first[u]
    BY <1>7, <1>9, SentFacts
  <2>2. QED
    BY <1>2, <1>9, <2>1 DEF Hears, Others
<1>11. Alike(client[s], c)
  BY <1>1, <1>c DEF Clients, Alike
<1>12. client'[s] = c /\ \A u \in Seats : u # s => client'[u] = client[u]
  BY <1>1, <1>2, UpdateFacts
<1>13. /\ up'[s] = << >> /\ \A u \in Seats : u # s => up'[u] = up[u]
       /\ \A u \in Seats : u # s => sockets'[u] = sockets[u]
  BY <1>1, <1>2 DEF Shape
<1>14. \A u \in Seats : Held(u)
  <2> SUFFICES ASSUME NEW u \in Seats PROVE Held(u)
    OBVIOUS
  <2>1. CASE u = s
    BY <1>11, <1>12, <1>13, <2>1, EmptyRange DEF Held, Keeps, Alike
  <2>2. CASE u # s
    BY <1>12, <1>13, <2>2 DEF Held, Keeps
  <2>3. QED
    BY <2>1, <2>2
<1>15. ASSUME NEW u \in Seats PROVE Listens(u)
  <2>1. InStep(u)
    BY DEF InLine
  <2>2. CASE u = s
    <3>1. Says(s, w)
      BY <1>5, <1>6, <1>8, TellsSays
    <3>2. Asking(s)' => ~Displays(s) /\ \A m \in Range(down[s]) : ~Opens(s, m)
      BY <1>2, <1>4, <2>1, <2>2 DEF InStep, AskerWaits
    <3>3. QED
      BY <1>3, <1>4, <1>5, <1>10, <1>14, <2>2, <3>1, <3>2 DEF Listens
  <2>3. CASE u # s
    BY <1>1, <1>2, <1>3, <1>4, <1>7, <1>8, <1>10, <1>13, <1>14, <2>1, <2>3, HearersListen
  <2>4. QED
    BY <2>2, <2>3
<1>16. ASSUME NEW u \in Seats, StartedAgain(u)
       PROVE  StartedAgain(u)' \/ up'[u] = << >>
  <2>1. CASE u = s
    BY <1>13, <2>1
  <2>2. CASE u # s
    <3>1. down'[u] = down[u]
      BY <1>10, <1>16, <2>2 DEF StartedAgain, Hears
    <3>2. QED
      BY <1>12, <1>13, <1>16, <2>2, <3>1 DEF StartedAgain
  <2>3. QED
    BY <2>1, <2>2
<1>17. ASSUME NEW u \in Seats, NEW m \in Messages, down'[u] = Append(down[u], m)
       PROVE  m.type # "controlResult"
  <2>1. down[u] \in Seq(Messages) /\ Len(down[u]) \in Nat
    BY <1>1
  <2>2. PICK x \in {w, n} : down'[u] = Append(down[u], x)
    <3>1. down[u] # Append(down[u], m)
      <4>1. Len(Append(down[u], m)) = Len(down[u]) + 1
        BY <2>1
      <4>2. QED
        BY <2>1, <4>1
    <3>2. QED
      BY <1>10, <1>17, <3>1 DEF Hears
  <2>3. m = x
    <3>1. x \in Messages
      BY <1>5, <1>7
    <3>2. /\ Append(down[u], m)[Len(down[u]) + 1] = m
          /\ Append(down[u], x)[Len(down[u]) + 1] = x
      BY <2>1, <3>1
    <3>3. QED
      BY <1>17, <2>2, <3>2
  <2>4. QED
    BY <1>6, <1>7, <2>2, <2>3
<1>18. QED
  BY <1>2, <1>3, <1>15, <1>16, <1>17, ListenersLine

LEMMA RoomAlarmLine ==
  ASSUME MatchInv, Shape', InLine, RoomAlarm
  PROVE  InLine'
<1>1. Shape /\ room # None /\ room \in RoomStates /\ client' = client
  BY RoomKnown DEF MatchInv, RoomAlarm, AlarmFires
<1>2. CASE room.pendingControl # None
  <2>1. /\ room' = [room EXCEPT !.pendingControl = None, !.seq = @ + 1]
        /\ sockets' = sockets
        /\ down' = Sent(down, controlResult(room', None, room.pendingControl.requestId),
                        Seats)
    BY <1>2 DEF RoomAlarm, AlarmFires
  <2>2. /\ room' \in RoomStates /\ room' # None /\ room'.seq = room.seq + 1
        /\ room.seq \in Nat /\ room'.pendingControl = None
    <3>1. room.seq \in Nat /\ room.seq + 1 \in Nat /\ None \in Pendings
      BY <1>1, RoomFacts DEF Pendings
    <3>2. room' \in RoomStates
      BY <1>1, <2>1, <3>1 DEF RoomStates
    <3>3. QED
      BY <1>1, <2>1, <3>1, <3>2, Somethings DEF RoomStates
  <2>3. up' = up
    BY <2>2 DEF RoomAlarm
  <2>4. PICK m : m = controlResult(room', None, room.pendingControl.requestId)
    OBVIOUS
  <2>5. /\ m \in Messages /\ m.type = "controlResult" /\ m.seq = room'.seq
        /\ m.actions = room'.actions /\ m.pending = None
    <3>1. room.pendingControl \in Requests
      BY <1>1, <1>2, RoomFacts DEF Pendings
    <3>2. room.pendingControl.requestId \in Ids
      BY <3>1 DEF Requests
    <3>3. QED
      BY <2>2, <2>4, <3>2, RoomFacts DEF controlResult, Messages
  <2>6. \A t \in Seats : Hears(t, m)
    BY <1>1, <2>1, <2>4, <2>5, SentToBoth
  <2>7. \A t \in Seats : Tells(t, m)
    BY <2>2, <2>5 DEF Tells, CarriesSnapshot, WithStatus
  <2>8. \A t \in Seats : ~Asking(t)'
    BY <2>2 DEF Asking
  <2>9. room'.seq # room.seq
    BY <2>2
  <2>10. QED
    BY <1>1, <2>1, <2>2, <2>3, <2>5, <2>6, <2>7, <2>8, <2>9, HearersLine
<1>3. CASE room.pendingControl = None
  <2>1. /\ room' = None /\ down' = down /\ sockets' = [s \in Seats |-> "closed"]
        /\ up' = [s \in Seats |-> << >>]
    BY <1>3 DEF RoomAlarm, AlarmFires
  <2>2. \A t \in Seats : Loses(t)
    BY <1>1, <2>1, EmptyRange DEF Loses, Drops, Held, Keeps
  <2>3. QED
    BY <2>1, <2>2, LosersLine
<1>4. QED
  BY <1>2, <1>3

-----------------------------------------------------------------------------
(* The second player comes.                                                *)

(* A room that a join brings back finds everybody before the start.        *)
LEMMA RevivedLine ==
  ASSUME MatchInv, InLine, NEW s \in Seats, ~Started, room = None,
         room'.seq = 1, room'.pendingControl = None,
         UNCHANGED <<sockets, up>>, client'[s] = client[s], down'[s] = down[s]
  PROVE  InOrder(s)' /\ InStep(s)'
<1>1. Shape /\ InOrder(s) /\ sockets'[s] # "open"
  BY DEF MatchInv, InLine, InOrder
<1>2. SeatFits(s) /\ \A n : Past(n) => n = 0
  BY DEF MatchInv, SeatsFit, Past
<1>3. /\ client[s].revision = 0 /\ client[s].saved = 0
      /\ \A m \in Carried(s) : m.seq = 0
      /\ \A c \in CommandsOf(s) : c.expectedSeq = 0
  BY <1>2 DEF SeatFits, TrueNews, TrueCommand
<1>4. CommandsOf(s)' = CommandsOf(s) /\ Carried(s)' = Carried(s)
      /\ Len(down'[s]) = Len(down[s])
      /\ (StartedAgain(s)' <=> StartedAgain(s))
      /\ (\A i : SeqAt(s, i)' = SeqAt(s, i))
  BY DEF CommandsOf, Carried, StartedAgain, SeqAt
<1>5. \A i \in 0..Len(down'[s]) : SeqAt(s, i)' = 0
  <2>1. \A i \in 1..Len(down[s]) : down[s][i].seq = 0
    BY <1>1, <1>3, PlaceFacts DEF Carried
  <2>2. client[s].inbound # None => client[s].inbound.seq = 0
    BY <1>3 DEF Carried
  <2>3. \A i \in 0..Len(down[s]) : SeqAt(s, i) = 0
    BY <1>1, <1>3, <2>1, <2>2, PlaceFacts DEF SeqAt
  <2>4. QED
    BY <1>4, <2>3
<1>6. InOrder(s)'
  <2>1. /\ client'[s].saved <= client'[s].revision
        /\ client'[s].revision <= SeqAt(s, 0)'
        /\ client'[s].inbound # None => client'[s].game = client'[s].inbound.actions
        /\ \A m \in Carried(s)' : m.type = "controlResult" => m.pending = None
        /\ \A c \in Range(client'[s].pendingCommands) :
             c.expectedSeq <= client'[s].revision
        /\ \A c \in Range(up'[s]) :
             c.expectedSeq <= client'[s].revision \/ StartedAgain(s)'
    BY <1>1, <1>4 DEF InOrder
  <2>2. \A i, j \in 0..Len(down'[s]) : i <= j => SeqAt(s, i)' <= SeqAt(s, j)'
    BY <1>5
  <2>3. QED
    BY <1>1, <2>1, <2>2 DEF InOrder
<1>7. InStep(s)'
  <2>1. AtRevision(s)' /\ Resumable(s)'
    BY <1>3 DEF AtRevision, Resumable
  <2>2. OnTheWay(s)'
    BY <1>5 DEF OnTheWay
  <2>3. ReachesTheRoom(s)' /\ AskerWaits(s)'
    BY <1>1 DEF ReachesTheRoom, AskerWaits, Asking
  <2>4. SeenByItsUser(s)'
    BY <1>3, <1>4 DEF SeenByItsUser
  <2>5. QED
    BY <2>1, <2>2, <2>3, <2>4 DEF InStep
<1>8. QED
  BY <1>6, <1>7

(* The joiner's client starts where the room stands.                       *)
LEMMA NewcomerLine ==
  ASSUME NEW s \in Seats, NEW c, client'[s] = c,
         c.revision \in Nat, c.revision = room'.seq, c.saved = room'.seq,
         c.game = room'.actions, c.actionLog = room'.actions,
         c.request = None, c.inbound = None, c.pendingCommands = << >>,
         down'[s] = << >>, up'[s] = << >>, sockets'[s] # "open",
         room'.pendingControl = None
  PROVE  InOrder(s)' /\ InStep(s)'
<1>1. Len(down'[s]) = 0 /\ Range(down'[s]) = {} /\ Range(up'[s]) = {}
      /\ Range(client'[s].pendingCommands) = {} /\ SeqAt(s, 0)' = c.revision
      /\ \A i \in 0..0 : i = 0
  BY EmptyRange DEF SeqAt
<1>2. Carried(s)' = {} /\ CommandsOf(s)' = {}
  BY <1>1 DEF Carried, CommandsOf
<1>3. InOrder(s)'
  <2>1. \A i, j \in 0..Len(down'[s]) : i <= j => SeqAt(s, i)' <= SeqAt(s, j)'
    BY <1>1
  <2>2. QED
    BY <1>1, <1>2, <2>1 DEF InOrder
<1>4. InStep(s)'
  <2>1. AtRevision(s)' /\ Resumable(s)' /\ SeenByItsUser(s)'
    BY <1>2 DEF AtRevision, Resumable, SeenByItsUser
  <2>2. OnTheWay(s)' /\ ReachesTheRoom(s)'
    BY <1>1 DEF OnTheWay, ReachesTheRoom
  <2>3. AskerWaits(s)'
    BY DEF AskerWaits, Asking
  <2>4. QED
    BY <2>1, <2>2, <2>3 DEF InStep
<1>5. QED
  BY <1>3, <1>4

LEMMA JoinedLine ==
  ASSUME MatchInv, Shape', InLine, NEW j \in Joiners, Joined(j), JoinsOnce'
  PROVE  InLine'
<1>1. Shape /\ joining[j] \in Joins
  BY DEF MatchInv, Shape
<1>2. PICK read : read = joining[j].read
  OBVIOUS
<1>3. joining[j].step = "reading" /\ UNCHANGED <<sockets, up>>
  BY DEF Joined, FinishJoin
<1>4. CASE ~may_join(read)
  <2>1. joining' = [joining EXCEPT ![j].step = "refused"] /\ UNCHANGED <<room, down>>
    BY <1>2, <1>4 DEF Joined, FinishJoin
  <2>2. joining'[j].step # "seated"
    BY <1>1, <2>1 DEF Shape, Joins
  <2>3. client' = client
    BY <2>2 DEF Joined
  <2>4. \A s \in Seats : Loses(s)
    BY <1>3, <2>1, <2>3 DEF Loses, Drops, Held, Keeps
  <2>5. room = None => \A s \in Seats : sockets'[s] # "open"
    BY <1>3 DEF InLine, InOrder
  <2>6. SameSight \/ (room' = None /\ \A s \in Seats : sockets'[s] # "open")
    BY <2>1, <2>5 DEF SameSight
  <2>7. QED
    BY <2>4, <2>6, LosersLine
<1>5. CASE may_join(read)
  <2>1. /\ room' = [read EXCEPT !.joined = TRUE, !.status = "active", !.seq = @ + 1]
        /\ down' = Sent(down, stateEvent(room', "opponentJoined", None), Seats)
        /\ joining' = [joining EXCEPT ![j].step = "seated"]
    BY <1>2, <1>5 DEF Joined, FinishJoin
  <2>2. joining'[j].step = "seated"
    BY <1>1, <2>1 DEF Shape, Joins
  <2>3. ~Started
    <3> SUFFICES ASSUME NEW i \in Joiners, joining[i].step = "seated" PROVE FALSE
      BY DEF Started
    <3>1. i # j
      BY <1>3
    <3>2. joining'[i].step = "seated"
      BY <1>1, <2>1, <3>1 DEF Shape
    <3>3. QED
      BY <2>2, <3>1, <3>2 DEF JoinsOnce
  <2>4. PICK creator \in Seats :
          /\ room # None => FreshRoom(room, creator)
          /\ FreshRoom(read, creator)
          /\ Dormant(opposite(creator))
    BY <1>2, <1>3, <2>3 DEF MatchInv, BeforeTheStart
  <2>5. /\ read \in RoomStates /\ read.seq = 0 /\ read.pendingControl = None
        /\ read.creatorSeat = creator /\ read.actions = << >>
    BY <2>4 DEF FreshRoom
  <2>6. /\ room' \in RoomStates /\ room' # None /\ room'.seq = 1
        /\ room'.creatorSeat = creator /\ room'.actions = << >>
        /\ room'.pendingControl = None
    <3>1. read.seq + 1 = 1 /\ "active" \in Statuses
      BY <2>5 DEF Statuses
    <3>2. room' = [read EXCEPT !.joined = TRUE, !.status = "active", !.seq = 1]
      BY <2>1, <3>1
    <3>3. room' \in RoomStates
      BY <2>5, <3>1, <3>2 DEF RoomStates
    <3>4. QED
      BY <2>5, <3>2, <3>3, Somethings DEF RoomStates
  <2>7. PICK m : m = stateEvent(room', "opponentJoined", None)
    OBVIOUS
  <2>8. /\ m \in Messages /\ m.type = "opponentJoined" /\ m.seq = room'.seq
        /\ m.actions = room'.actions /\ m.pending = None
    BY <2>6, <2>7, RoomFacts DEF stateEvent, Messages
  <2>9. \A s \in Seats : Hears(s, m)
    BY <1>1, <2>1, <2>7, <2>8, SentToBoth
  <2>10. PICK o \in Seats : o = opposite(creator)
    BY Opposites
  <2>11. PICK c : c = [NewClient EXCEPT !.revision = room'.seq, !.saved = room'.seq,
                                        !.status = room'.status]
    OBVIOUS
  <2>12. Update(o, c)
    BY <2>2, <2>6, <2>10, <2>11 DEF Joined
  <2>13. client'[o] = c /\ client'[creator] = client[creator]
    BY <1>1, <2>10, <2>12, Opposites, UpdateFacts
  <2>14. /\ c.revision = 1 /\ c.saved = 1 /\ c.game = << >> /\ c.actionLog = << >>
         /\ c.request = None /\ c.inbound = None /\ c.pendingCommands = << >>
    BY <2>6, <2>11 DEF NewClient
  <2>15. InOrder(o)' /\ InStep(o)'
    <3>1. down'[o] = << >> /\ up'[o] = << >> /\ sockets'[o] # "open"
      BY <1>3, <2>4, <2>9, <2>10 DEF Dormant, Hears
    <3>2. QED
      BY <2>6, <2>13, <2>14, <3>1, NewcomerLine
  <2>16. InOrder(creator)' /\ InStep(creator)'
    <3>1. CASE room = None
      <4>1. down'[creator] = down[creator]
        BY <2>9, <3>1 DEF InLine, InOrder, Hears
      <4>2. QED
        BY <1>3, <2>3, <2>6, <2>13, <3>1, <4>1, RevivedLine
    <3>2. CASE room # None
      <4>1. room.seq = 0 /\ room.actions = << >>
        BY <2>4, <3>2 DEF FreshRoom
      <4>2. InOrder(creator) /\ InStep(creator) /\ down[creator] \in Seq(Messages)
        BY <1>1, ShapeFacts DEF InLine
      <4>3. Held(creator)
        BY <1>3, <2>13 DEF Held, Keeps
      <4>4. Tells(creator, m)
        BY <2>6, <2>8 DEF Tells, CarriesSnapshot, WithStatus
      <4>5. ~Asking(creator)'
        BY <2>6 DEF Asking
      <4>6. Listens(creator)
        <5>1. room'.seq = room.seq + 1 /\ room'.seq # room.seq
          BY <2>6, <4>1
        <5>2. QED
          BY <1>1, <1>3, <2>8, <2>9, <3>2, <4>2, <4>3, <4>4, <4>5, <5>1, HearersListen
      <4>7. StartedAgain(creator) => StartedAgain(creator)'
        BY <1>3, <2>9, <2>13 DEF StartedAgain, Hears
      <4>8. ASSUME NEW x \in Messages, down'[creator] = Append(down[creator], x)
            PROVE  x.type # "controlResult"
        <5>1. Len(Append(down[creator], x)) = Len(down[creator]) + 1
              /\ Len(down[creator]) \in Nat
          BY <4>2
        <5>2. down'[creator] = Append(down[creator], m)
          <6>1. down'[creator] # down[creator]
            BY <4>8, <5>1
          <6>2. QED
            BY <2>9, <6>1 DEF Hears
        <5>3. /\ Append(down[creator], m)[Len(down[creator]) + 1] = m
              /\ Append(down[creator], x)[Len(down[creator]) + 1] = x
          BY <2>8, <4>2
        <5>4. QED
          BY <2>8, <4>8, <5>2, <5>3
      <4>9. InOrder(creator)'
        BY <2>6, <3>2, <4>2, <4>6, <4>7, <4>8, ListenersOrder
      <4>10. InStep(creator)'
        BY <2>6, <3>2, <4>2, <4>6, ListenersFit
      <4>11. QED
        BY <4>9, <4>10
    <3>3. QED
      BY <3>1, <3>2
  <2>17. QED
    BY <2>10, <2>15, <2>16, Opposites DEF InLine
<1>6. QED
  BY <1>4, <1>5

-----------------------------------------------------------------------------
(* The invariant of the line as a whole.                                   *)

LEMMA LineInit ==
  Init => InLine
<1> SUFFICES ASSUME Init, NEW s \in Seats PROVE InOrder(s) /\ InStep(s)
  BY DEF InLine
<1>1. PICK creator \in CreatorSeats :
        room = [creatorSeat |-> creator, joined |-> FALSE, status |-> "waiting",
                seq |-> 0, actions |-> << >>, tickets |-> {},
                recentCommands |-> << >>, pendingControl |-> None,
                endReason |-> "none", winnerSeat |-> "none"]
  BY DEF Init, RoomInit
<1>2. room.seq = 0 /\ room.actions = << >> /\ room.pendingControl = None
  BY <1>1
<1>3. room \in RoomStates /\ room # None
  <2>1. creator \in Seats /\ << >> \in Lines /\ << >> \in Seq(Items)
        /\ None \in Pendings /\ "none" \in Winners /\ "none" \in EndReasons
        /\ "waiting" \in Statuses
    BY RoomAssumption DEF Lines, Pendings, Winners, EndReasons, Statuses
  <2>2. room \in RoomStates
    BY <1>1, <2>1 DEF RoomStates
  <2>3. QED
    BY <2>2, Somethings
<1>4. /\ down[s] = << >> /\ up[s] = << >>
      /\ client[s] = IF s = room.creatorSeat
                     THEN [NewClient EXCEPT !.state = "listening", !.stage = "none",
                                            !.everWelcomed = TRUE,
                                            !.isConnected = TRUE]
                     ELSE [NewClient EXCEPT !.stage = "none"]
  BY <1>1 DEF Init, RoomInit
<1>5. /\ client[s].revision = 0 /\ client[s].saved = 0
      /\ client[s].game = << >> /\ client[s].actionLog = << >>
      /\ client[s].request = None /\ client[s].inbound = None
      /\ client[s].pendingCommands = << >>
  BY <1>4 DEF NewClient
<1>6. /\ Len(down[s]) = 0 /\ Range(down[s]) = {} /\ Range(up[s]) = {}
      /\ Range(client[s].pendingCommands) = {} /\ SeqAt(s, 0) = 0
      /\ \A i \in 0..0 : i = 0
  BY <1>4, <1>5, EmptyRange DEF SeqAt
<1>7. Carried(s) = {} /\ CommandsOf(s) = {}
  BY <1>5, <1>6 DEF Carried, CommandsOf
<1>8. InOrder(s)
  <2>1. \A i, j \in 0..Len(down[s]) : i <= j => SeqAt(s, i) <= SeqAt(s, j)
    BY <1>6
  <2>2. QED
    BY <1>3, <1>5, <1>6, <1>7, <2>1 DEF InOrder
<1>9. InStep(s)
  <2>1. AtRevision(s) /\ Resumable(s) /\ SeenByItsUser(s)
    BY <1>2, <1>5, <1>7 DEF AtRevision, Resumable, SeenByItsUser
  <2>2. OnTheWay(s)
    BY <1>5, <1>6 DEF OnTheWay
  <2>3. Known(s, 0)
    <3>1. 1..0 = {}
      OBVIOUS
    <3>2. ~Displays(s) /\ ~Awaited(s)
      BY <1>2, <1>5 DEF Displays, Awaited
    <3>3. QED
      BY <1>2, <1>5, <3>1, <3>2 DEF Known, KnowsLine, KnowsRequest, Undenied
  <2>4. ReachesTheRoom(s) /\ AskerWaits(s)
    BY <1>2, <1>6, <2>3 DEF ReachesTheRoom, AskerWaits, Asking
  <2>5. QED
    BY <2>1, <2>2, <2>4 DEF InStep
<1>10. QED
  BY <1>8, <1>9

LEMMA LineStays ==
  ASSUME UNCHANGED vars
  PROVE  InLine' <=> InLine
<1>1. UNCHANGED <<room, sockets, down, client, up>>
  BY DEF vars, roomVars, clientVars
<1>2. ASSUME NEW s \in Seats
      PROVE  (InOrder(s)' <=> InOrder(s)) /\ (InStep(s)' <=> InStep(s))
  <2>1. (\A i : SeqAt(s, i)' = SeqAt(s, i)) /\ (Displays(s)' <=> Displays(s))
        /\ (Awaited(s)' <=> Awaited(s)) /\ (Asking(s)' <=> Asking(s))
    BY <1>1 DEF SeqAt, Displays, Opens, Closes, Awaited, Asking
  <2>2. InOrder(s)' <=> InOrder(s)
    BY <1>1, <2>1 DEF InOrder, Carried, StartedAgain
  <2>3. LineTold' = LineTold /\ LineDenied' = LineDenied
        /\ RequestTold(s)' = RequestTold(s) /\ RequestDenied(s)' = RequestDenied(s)
    BY <1>1, <2>1 DEF LineTold, LineDenied, RequestTold, RequestDenied, Opens, Closes
  <2>4. \A i : Known(s, i)' <=> Known(s, i)
    BY <1>1, <2>1, <2>3 DEF Known, KnowsLine, KnowsRequest, Told, Undenied
  <2>5. (AtRevision(s)' <=> AtRevision(s)) /\ (Resumable(s)' <=> Resumable(s))
        /\ (SeenByItsUser(s)' <=> SeenByItsUser(s))
    BY <1>1, <2>1 DEF AtRevision, Resumable, SeenByItsUser, CommandsOf
  <2>6. (OnTheWay(s)' <=> OnTheWay(s)) /\ (ReachesTheRoom(s)' <=> ReachesTheRoom(s))
    BY <1>1, <2>1, <2>4 DEF OnTheWay, ReachesTheRoom
  <2>7. AskerWaits(s)' <=> AskerWaits(s)
    BY <1>1, <2>1 DEF AskerWaits, Opens
  <2>8. QED
    BY <1>1, <2>2, <2>5, <2>6, <2>7 DEF InStep
<1>3. QED
  BY <1>2 DEF InLine

LEMMA LineNext ==
  ASSUME MatchInv, InLine, LinesTransform, JoinsOnce', [Next]_vars
  PROVE  MatchInv' /\ InLine'
<1>m. MatchInv' /\ Shape'
  BY MatchNext DEF MatchInv
<1>1. CASE UNCHANGED vars
  BY <1>m, <1>1, LineStays
<1>2. ASSUME NEW s \in Seats,
             User(s) \/ Connecting(s) \/ Handling(s) \/ Network(s)
               \/ GiveUp(s) \/ WelcomeTimeout(s) \/ CommandTimeout(s)
      PROVE  InLine'
  <2>1. CASE User(s)
    BY <1>m, <2>1, UserLine, ClientAloneLine DEF User
  <2>2. CASE Connecting(s)
    BY <1>m, <2>2, GetTicketLine, ClientAloneLine, ConnectLine, FailedLine
       DEF Connecting
  <2>3. CASE Handling(s)
    BY <1>m, <2>3, BeginMessageLine, EndMessageLine, HandleAtOnceLine DEF Handling
  <2>4. CASE Network(s)
    BY <1>m, <2>4, BreakLine, AppRestartsLine, ReadCloseLine, RoomReadsCloseLine,
       ReceivesLine DEF Network
  <2>5. CASE GiveUp(s) \/ WelcomeTimeout(s) \/ CommandTimeout(s)
    BY <1>m, <2>5, ClientAloneLine, FailedLine
  <2>6. QED
    BY <1>2, <2>1, <2>2, <2>3, <2>4, <2>5
<1>3. ASSUME NEW j \in Joiners, Join(j) \/ Joined(j)
      PROVE  InLine'
  BY <1>m, <1>3, JoinLine, JoinedLine
<1>4. CASE Cancel \/ RoomAlarm
  BY <1>m, <1>4, CancelLine, RoomAlarmLine
<1>5. QED
  BY <1>m, <1>1, <1>2, <1>3, <1>4 DEF Next

(* As long as the invitation seats one player, messages are handled in the *)
(* order of their revisions, and whoever stands at the room's revision has *)
(* its line and knows whether he is asked for an answer, through lost      *)
(* sockets, resumed sessions and the await between the game and the        *)
(* revision (_applyStateMessage in cloud_match_coordinator.dart).          *)
THEOREM LineFits ==
  ASSUME LinesTransform
  PROVE  Spec /\ []JoinsOnce => []LineInv
<1>1. Init => LineInv
  BY MatchInit, LineInit DEF LineInv, InLine
<1>2. LineInv /\ JoinsOnce /\ JoinsOnce' /\ [Next]_vars => LineInv'
  BY LineNext DEF LineInv, InLine
<1>3. QED
  BY <1>1, <1>2, PTL DEF Spec

(* The room is told of a command's effect only where it is made.           *)
LEMMA EffectsAreReceived ==
  ASSUME [Next]_vars, applied' # applied
  PROVE  \E s \in Seats : RoomReceives(s) /\ room'.seq > room.seq
                          /\ applied' = applied \union {Head(up[s]).id}
<1>1. ~UNCHANGED vars
  BY DEF vars, historyVars
<1>2. ASSUME NEW s \in Seats, User(s) PROVE applied' = applied
  BY <1>2 DEF User, SubmitLocalAction, Request, Respond, Resign, Leave, SendCommand,
              LeaveOffline, RetryConnection, historyVars
<1>3. ASSUME NEW s \in Seats, Connecting(s) \/ Handling(s) PROVE applied' = applied
  BY <1>3 DEF Connecting, GetTicket, RoomUnavailable, Connect, ConnectFails, Handling,
              BeginMessage, EndMessage, HandleAtOnce, historyVars
<1>4. ASSUME NEW s \in Seats,
             \/ Break(s) \/ AppRestarts(s) \/ ReadClose(s) \/ RoomReadsClose(s)
             \/ GiveUp(s) \/ WelcomeTimeout(s) \/ CommandTimeout(s)
      PROVE  applied' = applied
  BY <1>4 DEF Break, AppRestarts, ReadClose, RoomReadsClose, GiveUp, WelcomeTimeout,
              CommandTimeout, historyVars
<1>5. ASSUME (\E j \in Joiners : Join(j) \/ Joined(j)) \/ Cancel \/ RoomAlarm
      PROVE  applied' = applied
  BY <1>5 DEF Join, Joined, Cancel, RoomAlarm, historyVars
<1>6. PICK s \in Seats : RoomReceives(s)
  BY <1>1, <1>2, <1>3, <1>4, <1>5 DEF Next, Network
<1>7. QED
  BY <1>6 DEF RoomReceives

LEMMA ActsOnItsSight ==
  ASSUME LineInv, [Next]_vars, NEW s \in Seats, applied' # applied, up[s] # << >>,
         Head(up[s]).id \in applied' \ applied
  PROVE  /\ Head(up[s]).seen = room.actions
         /\ Head(up[s]).type = "action" => ToMove(room.actions) = s
<1>1. PICK t \in Seats : RoomReceives(t) /\ room'.seq > room.seq
                         /\ applied' = applied \union {Head(up[t]).id}
  BY EffectsAreReceived
<1>2. MatchInv /\ Shape
  BY DEF LineInv, MatchInv
<1>3. PICK c : c = Head(up[t])
  OBVIOUS
<1>4. /\ c \in Commands /\ c.id \in Ids /\ c \in Range(up[t])
      /\ room # None /\ room \in RoomStates
      /\ \/ recognised(c) /\ answerAgain(t, c)
         \/ ~current(c) /\ rejectCommand(t, c, "stale_revision")
         \/ current(c) /\ handleCommand(t, c)
  <2>1. up[t] \in Seq(Commands) /\ up[t] # << >>
    BY <1>1, <1>2, ShapeFacts DEF RoomReceives
  <2>2. Head(up[t]) \in Range(up[t])
    BY <2>1, TailRange
  <2>3. QED
    BY <1>1, <1>2, <1>3, <2>2, ReceivesFacts, CommandFacts, RoomKnown
<1>5. t = s
  <2>1. Head(up[s]).id = c.id
    BY <1>1, <1>3
  <2>2. up[s] \in Seq(Commands)
    BY <1>2, ShapeFacts
  <2>3. Head(up[s]) \in Range(up[s])
    BY <2>2, TailRange
  <2>4. Head(up[s]).id.seat = s /\ c.id.seat = t
    BY <1>2, <1>4, <2>3 DEF MatchInv, SeatsFit, SeatFits, TrueCommand, CommandsOf
  <2>5. QED
    BY <2>1, <2>4
<1>6. room.seq \in Nat /\ ~(room.seq > room.seq)
  BY <1>4, RoomFacts
<1>7. \A code \in Errors : ~rejectCommand(t, c, code)
  <2> SUFFICES ASSUME NEW code \in Errors, rejectCommand(t, c, code) PROVE FALSE
    OBVIOUS
  <2>1. room' = remembered(room, c.id, code)
    BY DEF rejectCommand
  <2>2. room'.seq = room.seq
    BY <1>4, <2>1, RememberedFacts
  <2>3. QED
    BY <1>1, <1>6, <2>2
<1>8. ~answerAgain(t, c)
  BY <1>1, <1>6 DEF answerAgain
<1>9. current(c) /\ handleCommand(t, c)
  BY <1>4, <1>7, <1>8 DEF Errors
<1>10. c.seen = room.actions
  <2>1. SeenByItsUser(t)
    BY <1>4 DEF LineInv, InStep
  <2>2. QED
    BY <1>4, <1>9, <2>1 DEF SeenByItsUser, CommandsOf, current
<1>11. ASSUME c.type = "action" PROVE ToMove(room.actions) = t
  <2>1. applyAction(t, c)
    BY <1>9, <1>11 DEF handleCommand
  <2>2. may_act(t, c)
    BY <1>7, <2>1 DEF applyAction, Errors
  <2>3. QED
    BY <2>2 DEF may_act
<1>12. QED
  BY <1>3, <1>5, <1>10, <1>11

(* A command takes effect on the line that its user saw when he gave it    *)
(* (submitLocalAction and the control requests carry _revision; the game   *)
(* shows a snapshot before the revision counts), and a move is the side's  *)
(* own (webSocketMessage compares expectedSeq, then the side to move).     *)
THEOREM CommandsActOnWhatWasSeen ==
  ASSUME LinesTransform
  PROVE  Spec /\ []JoinsOnce => ActsOnWhatItSaw
<1> DEFINE A == \A s \in Seats :
                  up'[s] # up[s] /\ applied' # applied /\ up[s] # << >> =>
                    LET command == Head(up[s]) IN
                    command.id \in applied' \ applied =>
                      /\ command.seen = room.actions
                      /\ command.type = "action" => ToMove(room.actions) = s
<1>1. LineInv /\ [Next]_vars => [A]_vars
  <2> SUFFICES ASSUME LineInv, [Next]_vars PROVE A
    OBVIOUS
  <2>1. QED
    BY ActsOnItsSight
<1>2. Spec => [][Next]_vars
  BY PTL DEF Spec
<1>3. QED
  BY <1>1, <1>2, LineFits, PTL DEF ActsOnWhatItSaw

(* With nothing on its way an open connection means agreement: the client  *)
(* shows the room's line, stands at its revision, and has a request on     *)
(* display exactly when the room waits for its answer (_applyStateMessage  *)
(* and _restorePendingControl against broadcast in game_room.ts).          *)
THEOREM QuietClientsAgree ==
  ASSUME LinesTransform
  PROVE  Spec /\ []JoinsOnce => []QuietMeansAgreed
<1>1. LineInv => QuietMeansAgreed
  <2> SUFFICES ASSUME LineInv, NEW s \in Seats, quiet, room # None,
                      sockets[s] = "open", settled(s)
               PROVE  /\ client[s].game = room.actions
                      /\ client[s].revision = room.seq
                      /\ (client[s].request # None) =
                           (room.pendingControl # None
                              /\ room.pendingControl.requester # s)
    BY DEF QuietMeansAgreed
  <2>1. down[s] = << >> /\ client[s].inbound = None
    BY DEF quiet, settled
  <2>2. Len(down[s]) = 0 /\ 1..0 = {} /\ ~(0 > 0)
    BY <2>1
  <2>3. SeqAt(s, 0) = room.seq /\ Known(s, 0)
    BY <2>2 DEF LineInv, InStep, ReachesTheRoom
  <2>4. client[s].revision = room.seq
    BY <2>1, <2>2, <2>3 DEF SeqAt
  <2>5. client[s].game = room.actions /\ (Displays(s) <=> Awaited(s))
    BY <2>2, <2>3 DEF Known, KnowsLine, KnowsRequest, Told
  <2>6. QED
    BY <2>1, <2>4, <2>5 DEF Displays, Awaited
<1>2. QED
  BY <1>1, LineFits, PTL

(* With one joiner nothing is left to assume of the joins. *)
THEOREM OneJoinerAgrees ==
  ASSUME LinesTransform, \A i, j \in Joiners : i = j
  PROVE  Spec => ActsOnWhatItSaw /\ []QuietMeansAgreed
<1>1. JoinsOnce
  BY DEF JoinsOnce
<1>2. QED
  BY <1>1, CommandsActOnWhatWasSeen, QuietClientsAgree, PTL

-----------------------------------------------------------------------------
(* The answers that a client is given.                                     *)
(*                                                                         *)
(* A refusal lives in three places: among the room's last answers, in the  *)
(* messages on their way, and with the sender.  A refused command may still*)
(* be sent again, after the room has forgotten that it refused it.  What   *)
(* keeps it from taking effect then is its revision (RefusalsAreSpent): it *)
(* was made for a revision that the room has left, or for the one the room *)
(* stands at, where the state that refused it is as it was.                *)

(* The room, and what the joins under way have read of it. *)
Rooms ==
    ({room} \ {None})
    \union {joining[j].read : j \in {i \in Joiners : joining[i].step = "reading"}}

(* A command that the room has answered with an error, wherever the answer *)
(* is by now.                                                              *)
Refused(id) ==
    \/ id \in refused
    \/ \E s \in Seats : \E m \in Carried(s) : m.type = "error" /\ m.id = id
    \/ \E r \in Rooms : \E item \in Range(r.recentCommands) :
         item.error # "none" /\ item.id = id

MayTakeEffect(s, c) ==
    \/ c.type = "action" /\ may_act(s, c)
    \/ c.type = "request" /\ may_request(c)
    \/ c.type = "respond" /\ may_respond(s, c)
    \/ c.type \in {"resign", "leave"} /\ room.status = "active"

Spent(s, c) == c.expectedSeq < room.seq \/ ~MayTakeEffect(s, c)

-----------------------------------------------------------------------------
(* The invariant.                                                          *)

(* No identifier is refused before it is given. *)
RefusalsAreOld ==
    \A id \in Ids : Refused(id) => id.n <= client[id.seat].count

RefusalsAreSpent ==
    room # None =>
      \A s \in Seats : \A c \in CommandsOf(s) : Refused(c.id) => Spent(s, c)

(* A join that puts the room back to its start, and gives the joiner a new *)
(* client, revives none of its commands.                                   *)
RefusalsAreTheCreators ==
    ~Started => \A r \in Rooms : \A id \in Ids : Refused(id) => id.seat = r.creatorSeat

RefusalInv == RefusalsAreOld /\ RefusalsAreSpent /\ RefusalsAreTheCreators

(* A command that the room may yet receive and that has taken effect is    *)
(* among those it remembers.                                               *)
EffectsRemembered ==
    room # None =>
      \A s \in Seats : \A c \in Range(up[s]) : c.id \in applied => recognised(c)

NoneRefused == \A id \in applied : ~Refused(id)

-----------------------------------------------------------------------------
(* What every step keeps to.                                               *)

NowRefused(id) ==
    /\ room # None
    /\ \E s \in Seats : \E c \in Range(up[s]) :
         c.id = id /\ Spent(s, c) /\ ~recognised(c)

NowApplied(id) ==
    /\ room # None
    /\ \E s \in Seats : \E c \in CommandsOf(s) : c.id = id /\ ~Spent(s, c)

(* The room's answer to a command depends on its revision alone. *)
RoomGoesOn ==
    room' # None =>
      /\ room # None
      /\ \/ room.seq < room'.seq
         \/ /\ room'.seq = room.seq /\ room'.status = room.status
            /\ room'.actions = room.actions
            /\ room'.pendingControl = room.pendingControl

NewCommands ==
    \A s \in Seats :
      /\ client[s].count <= client'[s].count
      /\ \A c \in CommandsOf(s)' : c \in CommandsOf(s) \/ client[s].count < c.id.n

SameCreator ==
    ~Started' => ~Started /\ \A r \in Rooms' : \E q \in Rooms :
                               q.creatorSeat = r.creatorSeat

Careful ==
    /\ RoomGoesOn /\ NewCommands /\ SameCreator
    /\ \A id \in Ids : Refused(id)' => Refused(id) \/ NowRefused(id)
    /\ \A id \in applied' : id \in applied \/ NowApplied(id)

(* A command is added to what the room remembers. *)
Recalls(c) ==
    Len(room.recentCommands) + 1 <= MAX_RECENT_COMMANDS =>
      \E error : room'.recentCommands
                   = Append(room.recentCommands, [id |-> c.id, error |-> error])

Recording ==
    room' # None =>
      /\ room # None
      /\ \/ room'.recentCommands = room.recentCommands /\ applied' = applied
         \/ \E s \in Seats : \E c \in Range(up[s]) :
              /\ ~recognised(c) /\ Recalls(c)
              /\ applied' \subseteq applied \union {c.id}

(* A join reads the room that is there. *)
Reading ==
    \A j \in Joiners :
      joining'[j].step = "reading" =>
        \/ joining[j].step = "reading" /\ joining'[j].read = joining[j].read
        \/ room # None /\ joining'[j].read = room

Orderly == Careful /\ Recording /\ Reading

LEMMA CommandsKnown ==
  ASSUME MatchInv, NEW s \in Seats, NEW c \in CommandsOf(s)
  PROVE  /\ c \in Commands /\ c.id \in Ids /\ c.id.seat = s
         /\ c.id.n \in Nat /\ client[s].count \in Nat /\ c.id.n <= client[s].count
         /\ c.expectedSeq \in Nat /\ Past(c.expectedSeq)
<1>1. c \in Commands /\ client[s] \in Clients
  BY ShapeFacts DEF MatchInv
<1>2. TrueCommand(s, c)
  BY DEF MatchInv, SeatsFit, SeatFits
<1>3. QED
  BY <1>1, <1>2, CommandFacts, ClientFacts DEF TrueCommand

(* A command is known by its identifier. *)
LEMMA OneCommand ==
  ASSUME MatchInv, NEW s \in Seats, NEW c \in CommandsOf(s),
         NEW t \in Seats, NEW d \in CommandsOf(t), c.id = d.id
  PROVE  s = t /\ c = d
<1>1. s = t
  BY CommandsKnown
<1>2. QED
  BY <1>1 DEF MatchInv, SeatsFit, SeatFits

LEMMA SpentStays ==
  ASSUME MatchInv, MatchInv', RoomGoesOn, room' # None,
         NEW s \in Seats, NEW c \in CommandsOf(s), Spent(s, c)
  PROVE  Spent(s, c)'
<1>1. /\ room # None /\ room.seq \in Nat /\ room'.seq \in Nat
      /\ c.expectedSeq \in Nat /\ c.expectedSeq <= room.seq
  BY CommandsKnown, RoomFacts DEF RoomGoesOn, MatchInv, Shape, Past
<1>2. CASE room.seq < room'.seq
  BY <1>1, <1>2 DEF Spent
<1>3. CASE /\ room'.seq = room.seq /\ room'.status = room.status
           /\ room'.actions = room.actions
           /\ room'.pendingControl = room.pendingControl
  <2>1. MayTakeEffect(s, c)' <=> MayTakeEffect(s, c)
    BY <1>3 DEF MayTakeEffect, may_act, may_request, may_respond
  <2>2. QED
    BY <1>3, <2>1 DEF Spent
<1>4. QED
  BY <1>1, <1>2, <1>3 DEF RoomGoesOn

LEMMA RefusalStep ==
  ASSUME MatchInv, MatchInv', RefusalInv, Careful
  PROVE  RefusalInv'
<1>1. \A s \in Seats : Range(up[s]) \subseteq CommandsOf(s)
  BY DEF CommandsOf
<1>2. RefusalsAreOld'
  <2> SUFFICES ASSUME NEW id \in Ids, Refused(id)'
               PROVE  id.n <= client'[id.seat].count
    BY DEF RefusalsAreOld
  <2>1. /\ id.seat \in Seats /\ id.n \in Nat
        /\ client[id.seat].count \in Nat /\ client'[id.seat].count \in Nat
        /\ client[id.seat].count <= client'[id.seat].count
    BY ClientFacts DEF Ids, MatchInv, Shape, Careful, NewCommands
  <2>2. id.n <= client[id.seat].count
    <3>1. CASE Refused(id)
      BY <3>1 DEF RefusalInv, RefusalsAreOld
    <3>2. CASE NowRefused(id)
      <4>1. PICK s \in Seats : \E c \in CommandsOf(s) : c.id = id
        BY <1>1, <3>2 DEF NowRefused
      <4>2. QED
        BY <4>1, CommandsKnown
    <3>3. QED
      BY <3>1, <3>2 DEF Careful
  <2>3. QED
    BY <2>1, <2>2
<1>3. ASSUME room' # None, NEW s \in Seats, NEW c \in CommandsOf(s)', Refused(c.id)'
      PROVE  Spent(s, c)'
  <2>1. /\ c.id \in Ids /\ c.id.seat = s /\ c.id.n \in Nat /\ client[s].count \in Nat
    <3>1. c \in Commands
      <4>1. client'[s] \in Clients /\ up'[s] \in Seq(Commands)
        BY DEF MatchInv, Shape
      <4>2. client'[s].pendingCommands \in Seq(Commands)
        BY <4>1 DEF Clients
      <4>3. /\ Range(up'[s]) \subseteq Commands
            /\ Range(client'[s].pendingCommands) \subseteq Commands
        BY <4>1, <4>2, RangeIn
      <4>4. QED
        BY <4>3 DEF CommandsOf
    <3>2. TrueCommand(s, c)'
      BY DEF MatchInv, SeatsFit, SeatFits
    <3>3. QED
      BY <3>1, <3>2, CommandFacts, ShapeFacts, ClientFacts DEF TrueCommand, MatchInv
  <2>2. \/ Refused(c.id)
        \/ \E t \in Seats : \E d \in CommandsOf(t) : d.id = c.id /\ Spent(t, d)
    BY <1>1, <1>3, <2>1 DEF Careful, NowRefused
  <2>3. c.id.n <= client[s].count
    BY <2>1, <2>2, CommandsKnown DEF RefusalInv, RefusalsAreOld
  <2>4. c \in CommandsOf(s)
    BY <2>1, <2>3 DEF Careful, NewCommands
  <2>5. Spent(s, c)
    <3>1. CASE Refused(c.id)
      BY <1>3, <2>4, <3>1 DEF RefusalInv, RefusalsAreSpent, Careful, RoomGoesOn
    <3>2. CASE \E t \in Seats : \E d \in CommandsOf(t) : d.id = c.id /\ Spent(t, d)
      <4>1. PICK t \in Seats : \E d \in CommandsOf(t) : d.id = c.id /\ Spent(t, d)
        BY <3>2
      <4>2. PICK d \in CommandsOf(t) : d.id = c.id /\ Spent(t, d)
        BY <4>1
      <4>3. s = t /\ c = d
        BY <2>4, <4>2, OneCommand
      <4>4. QED
        BY <4>2, <4>3
    <3>3. QED
      BY <2>2, <3>1, <3>2
  <2>6. QED
    BY <1>3, <2>4, <2>5, SpentStays DEF Careful
<1>4. ASSUME ~Started', NEW r \in Rooms', NEW id \in Ids, Refused(id)'
      PROVE  id.seat = r.creatorSeat
  <2>1. PICK q \in Rooms : q.creatorSeat = r.creatorSeat
    BY <1>4 DEF Careful, SameCreator
  <2>2. ~Started
    BY <1>4 DEF Careful, SameCreator
  <2>3. CASE Refused(id)
    BY <2>1, <2>2, <2>3 DEF RefusalInv, RefusalsAreTheCreators
  <2>4. CASE NowRefused(id)
    <3>1. PICK creator \in Seats :
            /\ room # None => FreshRoom(room, creator)
            /\ \A j \in Joiners :
                 joining[j].step = "reading" => FreshRoom(joining[j].read, creator)
            /\ Dormant(opposite(creator))
      BY <2>2 DEF MatchInv, BeforeTheStart
    <3>2. q.creatorSeat = creator
      BY <3>1 DEF Rooms, FreshRoom
    <3>3. PICK s \in Seats : \E c \in Range(up[s]) : c.id = id
      BY <2>4 DEF NowRefused
    <3>4. id.seat = s
      BY <1>1, <3>3, CommandsKnown
    <3>5. s # opposite(creator)
      BY <3>1, <3>3, EmptyRange DEF Dormant
    <3>6. s = creator
      BY <3>5, Opposites
    <3>7. QED
      BY <2>1, <3>2, <3>4, <3>6
  <2>5. QED
    BY <1>4, <2>3, <2>4 DEF Careful
<1>5. RefusalsAreSpent' /\ RefusalsAreTheCreators'
  BY <1>3, <1>4 DEF RefusalsAreSpent, RefusalsAreTheCreators
<1>6. QED
  BY <1>2, <1>5 DEF RefusalInv

(* What takes effect is what nobody has refused. *)
LEMMA FreshEffects ==
  ASSUME MatchInv, RefusalInv, NEW id, NowApplied(id)
  PROVE  ~Refused(id)
  BY DEF NowApplied, RefusalInv, RefusalsAreSpent

LEMMA NoneRefusedStep ==
  ASSUME MatchInv, RefusalInv, NoneRefused, EffectsRemembered, Careful,
         applied' \subseteq Ids
  PROVE  NoneRefused'
<1> SUFFICES ASSUME NEW id \in applied', Refused(id)' PROVE FALSE
  BY DEF NoneRefused
<1>1. Refused(id) \/ NowRefused(id)
  BY DEF Careful
<1>2. CASE id \in applied
  <2>1. NowRefused(id)
    BY <1>1, <1>2 DEF NoneRefused
  <2>2. QED
    BY <1>2, <2>1 DEF NowRefused, EffectsRemembered
<1>3. CASE NowApplied(id)
  <2>1. NowRefused(id)
    BY <1>1, <1>3, FreshEffects
  <2>2. PICK s \in Seats : \E c \in CommandsOf(s) : c.id = id /\ Spent(s, c)
    BY <2>1 DEF NowRefused, CommandsOf
  <2>3. PICK c \in CommandsOf(s) : c.id = id /\ Spent(s, c)
    BY <2>2
  <2>4. PICK t \in Seats : \E d \in CommandsOf(t) : d.id = id /\ ~Spent(t, d)
    BY <1>3 DEF NowApplied
  <2>5. PICK d \in CommandsOf(t) : d.id = id /\ ~Spent(t, d)
    BY <2>4
  <2>6. QED
    BY <2>3, <2>5, OneCommand
<1>4. QED
  BY <1>2, <1>3 DEF Careful

-----------------------------------------------------------------------------
(* The clients, and the room without a command.                            *)

(* Where the refusals after a step come from. *)
LEMMA RefusalsFrom ==
  ASSUME NEW N,
         \A id \in refused' : Refused(id) \/ id \in N,
         \A s \in Seats : \A m \in Carried(s)' :
           m.type = "error" => Refused(m.id) \/ m.id \in N,
         \A r \in Rooms' : \A item \in Range(r.recentCommands) :
           item.error # "none" => Refused(item.id) \/ item.id \in N
  PROVE  \A id : Refused(id)' => Refused(id) \/ id \in N
  BY DEF Refused

LEMMA CarriedRefusals ==
  ASSUME NEW s \in Seats, NEW m \in Carried(s), m.type = "error"
  PROVE  Refused(m.id)
  BY DEF Refused

LEMMA RememberedRefusals ==
  ASSUME NEW r \in Rooms, NEW item \in Range(r.recentCommands), item.error # "none"
  PROVE  Refused(item.id)
  BY DEF Refused

LEMMA SameRooms ==
  ASSUME joining' = joining,
         room' # None => /\ room # None
                         /\ room'.recentCommands = room.recentCommands
                         /\ room'.creatorSeat = room.creatorSeat
  PROVE  \A r \in Rooms' : \E q \in Rooms :
           r.recentCommands = q.recentCommands /\ r.creatorSeat = q.creatorSeat
<1> SUFFICES ASSUME NEW r \in Rooms'
             PROVE  \E q \in Rooms : /\ r.recentCommands = q.recentCommands
                                     /\ r.creatorSeat = q.creatorSeat
  OBVIOUS
<1>1. CASE r \in {room'} \ {None}
  <2>1. room \in Rooms
    BY <1>1 DEF Rooms
  <2>2. QED
    BY <1>1, <2>1
<1>2. CASE r \in Rooms
  BY <1>2
<1>3. QED
  BY <1>1, <1>2 DEF Rooms

(* A step in which no room and no message refuses anything new. *)
Silent ==
    /\ \A id \in refused' : Refused(id)
    /\ \A s \in Seats : \A m \in Carried(s)' : m.type = "error" => Refused(m.id)
    /\ \A r \in Rooms' : \E q \in Rooms :
         r.recentCommands = q.recentCommands /\ r.creatorSeat = q.creatorSeat

LEMMA SilentStep ==
  ASSUME RoomGoesOn, NewCommands, Silent, applied' = applied, Started' = Started
  PROVE  Careful
<1>1. \A id : Refused(id)' => Refused(id)
  <2>1. \A r \in Rooms' : \A item \in Range(r.recentCommands) :
          item.error # "none" => Refused(item.id)
    BY RememberedRefusals DEF Silent
  <2>2. PICK N : N = {}
    OBVIOUS
  <2>3. \A id : Refused(id)' => Refused(id) \/ id \in N
    BY <2>1, RefusalsFrom DEF Silent
  <2>4. QED
    BY <2>2, <2>3
<1>2. SameCreator
  BY DEF SameCreator, Silent
<1>3. QED
  BY <1>1, <1>2 DEF Careful

LEMMA SameRoomGoesOn ==
  ASSUME Shape, SameMatch
  PROVE  RoomGoesOn
  BY SameMatchFacts DEF RoomGoesOn

LEMMA SameMatchRooms ==
  ASSUME Shape, SameMatch
  PROVE  \A r \in Rooms' : \E q \in Rooms :
           r.recentCommands = q.recentCommands /\ r.creatorSeat = q.creatorSeat
  BY SameMatchFacts, SameRooms DEF SameMatch

LEMMA SameRecord ==
  ASSUME Shape, SameMatch
  PROVE  Recording /\ Reading
<1>1. Recording
  BY SameMatchFacts DEF Recording, SameMatch
<1>2. QED
  BY <1>1 DEF Reading, SameMatch

LEMMA UndisturbedStep ==
  ASSUME MatchInv, Undisturbed
  PROVE  Orderly
<1>1. Shape /\ SameMatch
  BY DEF MatchInv, Undisturbed
<1>2. Silent
  BY <1>1, SameMatchRooms DEF Silent, Undisturbed, Refused
<1>3. NewCommands
  BY DEF NewCommands, Undisturbed
<1>4. Careful
  BY <1>1, <1>2, <1>3, SameRoomGoesOn, SameMatchFacts, SilentStep DEF SameMatch
<1>5. QED
  BY <1>1, <1>4, SameRecord DEF Orderly

(* A seat that is sent at most one message, which is no error. *)
Spared(s) ==
    \/ down'[s] = down[s]
    \/ \E m : m.type # "error" /\ down'[s] = Append(down[s], m)

LEMMA SparedErrors ==
  ASSUME Shape, NEW s \in Seats, Spared(s), client'[s].inbound = client[s].inbound
  PROVE  \A m \in Carried(s)' : m.type = "error" => m \in Carried(s)
<1>1. down[s] \in Seq(Messages)
  BY DEF Shape
<1>2. \A m \in Range(down'[s]) : m \in Range(down[s]) \/ m.type # "error"
  <2>1. ASSUME NEW n, n.type # "error", down'[s] = Append(down[s], n)
        PROVE  \A m \in Range(down'[s]) : m \in Range(down[s]) \/ m.type # "error"
    <3>1. Range(Append(down[s], n)) = Range(down[s]) \union {n}
      BY <1>1, AppendRange
    <3>2. QED
      BY <2>1, <3>1
  <2>2. QED
    BY <2>1 DEF Spared
<1>3. QED
  BY <1>2 DEF Carried

LEMMA BystandersCommand ==
  ASSUME Shape, \A s \in Seats : Bystander(s)
  PROVE  NewCommands
<1>1. ASSUME NEW s \in Seats
      PROVE  /\ client[s].count <= client'[s].count
             /\ CommandsOf(s)' \subseteq CommandsOf(s)
  <2>1. Bystander(s) /\ client[s].count \in Nat
    BY ShapeFacts, ClientFacts
  <2>2. QED
    BY <2>1, BystanderHas DEF Bystander
<1>2. QED
  BY <1>1 DEF NewCommands

(* The room, the network or a join does something, and no command is taken.*)
LEMMA ApartStep ==
  ASSUME MatchInv, \A s \in Seats : Bystander(s) /\ Spared(s), RoomGoesOn,
         UNCHANGED <<refused, applied>>, Started' = Started,
         \A r \in Rooms' : \E q \in Rooms :
           r.recentCommands = q.recentCommands /\ r.creatorSeat = q.creatorSeat
  PROVE  Careful
<1>1. Shape
  BY DEF MatchInv
<1>2. \A s \in Seats : \A m \in Carried(s)' : m.type = "error" => m \in Carried(s)
  BY <1>1, SparedErrors DEF Bystander
<1>3. Silent
  BY <1>2, CarriedRefusals DEF Silent, Refused
<1>4. QED
  BY <1>1, <1>3, BystandersCommand, SilentStep

LEMMA ConnectCares ==
  ASSUME MatchInv, NEW s \in Seats, Connect(s)
  PROVE  Orderly
<1> DEFINE c == [client[s] EXCEPT !.isConnected = TRUE, !.stage = "welcome"]
<1>w. PICK w : w = welcome(room', s)
  OBVIOUS
<1>n. PICK n : n = [type |-> "opponentConnection", connected |-> TRUE, seq |-> room.seq]
  OBVIOUS
<1>f. PICK first : first = [down EXCEPT ![s] = Append(@, w)]
  OBVIOUS
<1>1. /\ Shape /\ client[s] \in Clients /\ down \in [Seats -> Seq(Messages)]
  BY ShapeFacts DEF MatchInv, Shape
<1>2. /\ room # None /\ room' = [room EXCEPT !.tickets = @ \ {s}]
      /\ down' = Sent(first, n, Others(s))
      /\ Update(s, c) /\ up' = [up EXCEPT ![s] = << >>]
      /\ UNCHANGED <<alarm, joining, applied, refused, overdue>>
  BY <1>w, <1>n, <1>f DEF Connect, acceptSocket, valid_ticket, historyVars
<1>3. SameMatch
  <2>1. room.tickets \ {s} \in SUBSET Seats
    BY <1>2, RoomKnown, RoomFacts
  <2>2. QED
    BY <1>2, <2>1 DEF SameMatch
<1>4. w.type # "error" /\ n.type # "error"
  BY <1>w, <1>n DEF welcome
<1>5. \A t \in Seats : Spared(t)
  <2>1. \A t \in Seats : first[t] = IF t = s THEN Append(down[t], w) ELSE down[t]
    BY <1>1, <1>f
  <2>2. \A t \in Seats : down'[t] \in {down[t], Append(down[t], w), Append(down[t], n)}
    BY <1>2, <2>1 DEF Sent, Others
  <2>3. QED
    BY <1>4, <2>2 DEF Spared
<1>6. /\ c.revision = client[s].revision /\ c.saved = client[s].saved
      /\ c.winner = client[s].winner /\ c.count = client[s].count
      /\ c.inbound = client[s].inbound /\ c.ending = client[s].ending
      /\ c.pendingCommands = client[s].pendingCommands
  BY <1>1 DEF Clients
<1> HIDE DEF c
<1>7. \A t \in Seats : Bystander(t)
  <2>1. /\ client'[s] = c /\ \A t \in Seats : t # s => client'[t] = client[t]
    BY <1>1, <1>2, UpdateFacts
  <2>2. up'[s] = << >> /\ \A t \in Seats : t # s => up'[t] = up[t]
    BY <1>1, <1>2 DEF Shape
  <2>3. QED
    BY <1>6, <2>1, <2>2, EmptyRange DEF Bystander
<1>8. Careful
  BY <1>1, <1>2, <1>3, <1>5, <1>7, SameRoomGoesOn, SameMatchRooms, SameMatchFacts,
     ApartStep
<1>9. QED
  BY <1>1, <1>3, <1>8, SameRecord DEF Orderly

LEMMA RoomReadsCloseCares ==
  ASSUME MatchInv, NEW s \in Seats, RoomReadsClose(s)
  PROVE  Orderly
<1>n. PICK n : n = [type |-> "opponentConnection", connected |-> FALSE, seq |-> room.seq]
  OBVIOUS
<1>1. Shape
  BY DEF MatchInv
<1>2. /\ down' = IF room = None \/ room.status = "ended" THEN down
                 ELSE Sent(down, n, Others(s))
      /\ up' = [up EXCEPT ![s] = << >>]
      /\ UNCHANGED <<room, alarm, joining, client, applied, refused, overdue>>
  BY <1>n DEF RoomReadsClose, webSocketClose, historyVars
<1>3. SameMatch
  BY <1>2 DEF SameMatch
<1>4. \A t \in Seats : Spared(t)
  <2>1. n.type # "error"
    BY <1>n
  <2>2. \A t \in Seats : down'[t] \in {down[t], Append(down[t], n)}
    BY <1>2 DEF Sent
  <2>3. QED
    BY <2>1, <2>2 DEF Spared
<1>5. \A t \in Seats : Bystander(t)
  <2>1. \A t \in Seats : up'[t] \in {up[t], << >>}
    BY <1>1, <1>2 DEF Shape
  <2>2. QED
    BY <1>2, <2>1, EmptyRange DEF Bystander
<1>6. Careful
  BY <1>1, <1>2, <1>3, <1>4, <1>5, SameRoomGoesOn, SameMatchRooms, SameMatchFacts,
     ApartStep
<1>7. QED
  BY <1>1, <1>3, <1>6, SameRecord DEF Orderly

LEMMA RoomAlarmCares ==
  ASSUME MatchInv, RoomAlarm
  PROVE  Orderly
<1>1. Shape /\ room # None /\ room \in RoomStates
  BY RoomKnown DEF MatchInv, RoomAlarm, AlarmFires
<1>2. UNCHANGED <<joining, client, applied, refused, overdue>> /\ Started' = Started
  BY DEF RoomAlarm, AlarmFires, historyVars, Started
<1>3. CASE room.pendingControl # None
  <2>1. PICK m : m = controlResult(room', None, room.pendingControl.requestId)
    OBVIOUS
  <2>2. /\ room' = [room EXCEPT !.pendingControl = None, !.seq = @ + 1]
        /\ down' = Sent(down, m, Seats)
    BY <1>3, <2>1 DEF RoomAlarm, AlarmFires
  <2>3. /\ room'.seq = room.seq + 1 /\ room.seq \in Nat /\ room' # None
        /\ room'.recentCommands = room.recentCommands
        /\ room'.creatorSeat = room.creatorSeat
    <3>1. room.seq \in Nat /\ room.seq + 1 \in Nat /\ None \in Pendings
      BY <1>1, RoomFacts DEF Pendings
    <3>2. room' \in RoomStates
      BY <1>1, <2>2, <3>1 DEF RoomStates
    <3>3. QED
      BY <1>1, <2>2, <3>1, <3>2, Somethings DEF RoomStates
  <2>4. RoomGoesOn
    BY <1>1, <2>3 DEF RoomGoesOn
  <2>5. up' = up
    BY <2>3 DEF RoomAlarm
  <2>6. m.type # "error"
    BY <2>1 DEF controlResult
  <2>7. \A t \in Seats : Bystander(t) /\ Spared(t)
    BY <1>2, <2>2, <2>5, <2>6 DEF Bystander, Spared, Sent
  <2>8. Careful
    BY <1>1, <1>2, <2>3, <2>4, <2>7, SameRooms, ApartStep
  <2>9. QED
    BY <1>1, <1>2, <2>3, <2>8 DEF Orderly, Recording, Reading
<1>4. CASE room.pendingControl = None
  <2>1. room' = None /\ down' = down /\ up' = [s \in Seats |-> << >>]
    BY <1>4 DEF RoomAlarm, AlarmFires
  <2>2. \A t \in Seats : Bystander(t) /\ Spared(t)
    BY <1>2, <2>1, EmptyRange DEF Bystander, Spared
  <2>3. RoomGoesOn
    BY <2>1 DEF RoomGoesOn
  <2>4. Careful
    BY <1>2, <2>1, <2>2, <2>3, SameRooms, ApartStep
  <2>5. QED
    BY <1>2, <2>1, <2>4 DEF Orderly, Recording, Reading
<1>5. QED
  BY <1>3, <1>4

LEMMA CancelCares ==
  ASSUME MatchInv, Cancel
  PROVE  Orderly
<1>1. Shape /\ room # None
  BY DEF MatchInv, Cancel, cancel
<1>2. /\ room' = None /\ down' = [s \in Seats |-> << >>]
      /\ up' = [s \in Seats |-> << >>]
      /\ UNCHANGED <<joining, applied, refused, overdue>>
  BY DEF Cancel, cancel, historyVars
<1>3. PICK s \in Seats : s = room.creatorSeat
  BY <1>1, RoomKnown, RoomFacts
<1>4. PICK c : c = [client[s] EXCEPT !.ending = TRUE, !.state = "ended",
                      !.isConnected = FALSE, !.stage = "none", !.looping = FALSE]
  OBVIOUS
<1>5. Update(s, c) /\ client[s] \in Clients
  BY <1>1, <1>3, <1>4 DEF Cancel, Shape
<1>6. /\ c.count = client[s].count /\ c.inbound = client[s].inbound
      /\ c.pendingCommands = client[s].pendingCommands
  BY <1>4, <1>5 DEF Clients
<1>7. \A t \in Seats : /\ client'[t].count = client[t].count
                       /\ client'[t].inbound = client[t].inbound
                       /\ client'[t].pendingCommands = client[t].pendingCommands
  BY <1>1, <1>5, <1>6, UpdateFacts
<1>8. NewCommands
  <2>1. \A t \in Seats : CommandsOf(t)' \subseteq CommandsOf(t)
    BY <1>2, <1>7, EmptyRange DEF CommandsOf
  <2>2. \A t \in Seats : client[t].count <= client'[t].count
    BY <1>1, <1>7, ShapeFacts, ClientFacts
  <2>3. QED
    BY <2>1, <2>2 DEF NewCommands
<1>9. Silent
  <2>1. \A t \in Seats : Carried(t)' \subseteq Carried(t)
    BY <1>2, <1>7, EmptyRange DEF Carried
  <2>2. \A r \in Rooms' : \E q \in Rooms :
          r.recentCommands = q.recentCommands /\ r.creatorSeat = q.creatorSeat
    BY <1>2, SameRooms
  <2>3. QED
    BY <1>2, <2>1, <2>2, CarriedRefusals DEF Silent, Refused
<1>10. RoomGoesOn /\ Started' = Started
  BY <1>2 DEF RoomGoesOn, Started
<1>11. Careful
  BY <1>2, <1>8, <1>9, <1>10, SilentStep
<1>12. QED
  BY <1>2, <1>11 DEF Orderly, Recording, Reading

LEMMA JoinCares ==
  ASSUME MatchInv, NEW j \in Joiners, Join(j)
  PROVE  Orderly
<1>1. /\ Shape /\ joining[j].step = "idle" /\ room # None
      /\ joining' = [joining EXCEPT ![j] = [step |-> "reading", read |-> room]]
      /\ UNCHANGED <<room, alarm, sockets, down, client, up, applied, refused, overdue>>
  BY DEF Join, BeginJoin, historyVars, MatchInv
<1>2. Started' = Started
  BY <1>1 DEF Started, Shape
<1>3. \A t \in Seats : Bystander(t) /\ Spared(t)
  BY <1>1 DEF Bystander, Spared
<1>4. RoomGoesOn
  BY <1>1 DEF RoomGoesOn
<1>5. \A r \in Rooms' : r \in Rooms
  BY <1>1 DEF Rooms, Shape
<1>6. Careful
  BY <1>1, <1>2, <1>3, <1>4, <1>5, ApartStep
<1>7. Reading
  BY <1>1 DEF Reading, Shape
<1>8. QED
  BY <1>1, <1>6, <1>7 DEF Orderly, Recording

LEMMA RefusedJoinCares ==
  ASSUME MatchInv, NEW j \in Joiners, Joined(j), ~may_join(joining[j].read)
  PROVE  Orderly
<1>1. /\ Shape /\ joining[j].step = "reading" /\ joining[j] \in Joins
      /\ joining' = [joining EXCEPT ![j].step = "refused"]
      /\ UNCHANGED <<room, down, up, applied, refused, overdue>>
  BY DEF Joined, FinishJoin, historyVars, MatchInv, Shape
<1>2. /\ joining'[j].step = "refused"
      /\ \A i \in Joiners : i # j => joining'[i] = joining[i]
  BY <1>1 DEF Shape, Joins
<1>3. client' = client
  BY <1>2 DEF Joined
<1>4. Started' = Started
  BY <1>1, <1>2 DEF Started
<1>5. \A t \in Seats : Bystander(t) /\ Spared(t)
  BY <1>1, <1>3 DEF Bystander, Spared
<1>6. RoomGoesOn
  BY <1>1 DEF RoomGoesOn
<1>7. \A r \in Rooms' : r \in Rooms
  BY <1>1, <1>2 DEF Rooms
<1>8. Careful
  BY <1>1, <1>4, <1>5, <1>6, <1>7, ApartStep
<1>9. Reading
  BY <1>2 DEF Reading
<1>10. QED
  BY <1>1, <1>6, <1>8, <1>9 DEF Orderly, Recording, RoomGoesOn

(* The room that a join writes back is the one it has read: it remembers   *)
(* no other refusals, its revision is ahead of every command, and the      *)
(* joiner's new client has made none.                                      *)
LEMMA SeatedJoinRefuses ==
  ASSUME MatchInv, MatchInv', RefusalInv, NEW j \in Joiners, Joined(j),
         may_join(joining[j].read), JoinsOnce'
  PROVE  /\ RefusalInv' /\ applied' = {} /\ applied = {} /\ refused' = refused
         /\ ~Started /\ Started'
         /\ \A s \in Seats : CommandsOf(s)' \subseteq CommandsOf(s)
         /\ \E r \in Rooms :
              /\ r \in RoomStates /\ room'.recentCommands = r.recentCommands
              /\ \A item \in Range(r.recentCommands) :
                   client'[item.id.seat].count = client[item.id.seat].count
<1>1. /\ Shape /\ joining[j].step = "reading" /\ joining[j] \in Joins
      /\ UNCHANGED <<sockets, up, applied, refused, overdue>>
      /\ joining' = [joining EXCEPT ![j].step = "seated"]
  BY DEF Joined, FinishJoin, historyVars, MatchInv, Shape
<1>2. /\ joining'[j].step = "seated"
      /\ \A i \in Joiners : i # j => joining'[i] = joining[i]
  BY <1>1 DEF Shape, Joins
<1>3. ~Started /\ Started'
  <2>1. \A i \in Joiners : joining[i].step # "seated"
    BY <1>1, <1>2 DEF JoinsOnce
  <2>2. QED
    BY <1>2, <2>1 DEF Started
<1>4. PICK creator \in Seats :
        /\ room # None => FreshRoom(room, creator)
        /\ FreshRoom(joining[j].read, creator)
        /\ Dormant(opposite(creator))
  BY <1>1, <1>3 DEF MatchInv, BeforeTheStart
<1>5. PICK r : r = joining[j].read
  OBVIOUS
<1>6. /\ r \in RoomStates /\ r.seq = 0 /\ r.creatorSeat = creator /\ r \in Rooms
  BY <1>1, <1>4, <1>5 DEF FreshRoom, Rooms
<1>7. PICK m : m = stateEvent(room', "opponentJoined", None)
  OBVIOUS
<1>8. /\ room' = [r EXCEPT !.joined = TRUE, !.status = "active", !.seq = @ + 1]
      /\ down' = Sent(down, m, Seats)
  BY <1>5, <1>7 DEF Joined, FinishJoin
<1>9. /\ room'.seq = 1 /\ room'.recentCommands = r.recentCommands
      /\ room'.creatorSeat = creator
  BY <1>6, <1>8 DEF RoomStates
<1>10. PICK o \in Seats : o = opposite(creator) /\ o # creator
  BY Opposites
<1>11. PICK c : c = [NewClient EXCEPT !.revision = room'.seq, !.saved = room'.seq,
                                      !.status = room'.status]
  OBVIOUS
<1>12. Update(o, c)
  BY <1>2, <1>9, <1>10, <1>11 DEF Joined
<1>13. c.inbound = None /\ c.pendingCommands = << >>
  BY <1>11 DEF NewClient
<1>14. client'[o] = c /\ client'[creator] = client[creator]
  BY <1>1, <1>10, <1>12, UpdateFacts
<1>15. Carried(o)' = {} /\ CommandsOf(o)' = {}
  <2>1. down'[o] = << >> /\ up'[o] = << >>
    BY <1>1, <1>4, <1>8, <1>10 DEF Dormant, Sent
  <2>2. QED
    BY <1>13, <1>14, <2>1, EmptyRange DEF Carried, CommandsOf
<1>16. \A n \in Carried(creator)' : n.type = "error" => n \in Carried(creator)
  <2>1. m.type # "error"
    BY <1>7 DEF stateEvent
  <2>2. Spared(creator)
    BY <1>8, <2>1 DEF Spared, Sent
  <2>3. QED
    BY <1>1, <1>14, <2>2, SparedErrors
<1>17. \A s \in Seats : s = o \/ s = creator
  BY <1>10, Opposites
<1>18. \A id : Refused(id)' => Refused(id)
  <2>1. \A s \in Seats : \A n \in Carried(s)' : n.type = "error" => Refused(n.id)
    BY <1>15, <1>16, <1>17, CarriedRefusals
  <2>2. \A q \in Rooms' : q = room' \/ q \in Rooms
    BY <1>1, <1>2 DEF Rooms
  <2>3. \A q \in Rooms' : \A item \in Range(q.recentCommands) :
          item.error # "none" => Refused(item.id)
    BY <1>6, <1>9, <2>2, RememberedRefusals
  <2>4. PICK N : N = {}
    OBVIOUS
  <2>5. \A id \in refused' : Refused(id)
    BY <1>1 DEF Refused
  <2>6. \A id : Refused(id)' => Refused(id) \/ id \in N
    BY <2>1, <2>3, <2>5, RefusalsFrom
  <2>7. QED
    BY <2>4, <2>6
<1>19. RefusalsAreOld'
  <2> SUFFICES ASSUME NEW id \in Ids, Refused(id) PROVE id.n <= client'[id.seat].count
    BY <1>18 DEF RefusalsAreOld
  <2>1. id.seat = creator
    BY <1>3, <1>6 DEF RefusalInv, RefusalsAreTheCreators
  <2>2. QED
    BY <1>14, <2>1 DEF RefusalInv, RefusalsAreOld
<1>20. RefusalsAreSpent'
  <2> SUFFICES ASSUME NEW s \in Seats, NEW d \in CommandsOf(s)'
               PROVE  d.expectedSeq < room'.seq
    BY DEF RefusalsAreSpent, Spent
  <2>1. s = creator /\ d \in CommandsOf(creator)
    BY <1>1, <1>14, <1>15, <1>17 DEF CommandsOf
  <2>2. d.expectedSeq = 0
    BY <1>3, <2>1, CommandsKnown DEF Past
  <2>3. QED
    BY <1>9, <2>2
<1>21. applied = {}
  BY <1>3 DEF MatchInv, BeforeTheStart
<1>22. \A s \in Seats : CommandsOf(s)' \subseteq CommandsOf(s)
  BY <1>1, <1>14, <1>15, <1>17 DEF CommandsOf
<1>23. \A item \in Range(r.recentCommands) :
         client'[item.id.seat].count = client[item.id.seat].count
  <2> SUFFICES ASSUME NEW item \in Range(r.recentCommands)
               PROVE  item.id.seat = creator
    BY <1>14
  <2>1. item.error # "none" /\ item \in Items /\ item.id \in Ids
    <3>1. item.error # "none"
      BY <1>4, <1>5 DEF FreshRoom
    <3>2. r.recentCommands \in Seq(Items)
      BY <1>6, RoomFacts
    <3>3. item \in Items
      BY <3>2, RangeIn
    <3>4. QED
      BY <3>1, <3>3 DEF Items
  <2>2. Refused(item.id)
    BY <1>6, <2>1, RememberedRefusals
  <2>3. QED
    BY <1>3, <1>6, <2>1, <2>2 DEF RefusalInv, RefusalsAreTheCreators
<1>24. QED
  BY <1>1, <1>3, <1>6, <1>9, <1>19, <1>20, <1>21, <1>22, <1>23
     DEF RefusalInv, RefusalsAreTheCreators

-----------------------------------------------------------------------------
(* The room takes a command.                                               *)

LEMMA TakenCommand ==
  ASSUME MatchInv, NEW s \in Seats, RoomReceives(s)
  PROVE  /\ Head(up[s]) \in Range(up[s]) /\ Shape /\ NewCommands
         /\ \A t \in Seats : Bystander(t)
         /\ UNCHANGED <<joining, refused, overdue>> /\ Started' = Started
         /\ room # None /\ room \in RoomStates /\ room.seq \in Nat /\ room \in Rooms
<1>1. /\ up[s] \in Seq(Commands) /\ up[s] # << >> /\ Shape /\ room # None /\ Takes(s)
  BY ReceivesFacts DEF MatchInv, Shape
<1>2. Head(up[s]) \in Range(up[s]) /\ \A t \in Seats : Bystander(t)
  BY <1>1, TailRange, TakesFacts
<1>3. NewCommands
  BY <1>1, <1>2, BystandersCommand
<1>4. QED
  BY <1>1, <1>2, <1>3, RoomKnown, RoomFacts DEF Takes, Started, Rooms

(* A command that has been answered is answered in the same way. *)
LEMMA AnswerAgainCares ==
  ASSUME MatchInv, NEW s \in Seats, RoomReceives(s),
         recognised(Head(up[s])), answerAgain(s, Head(up[s]))
  PROVE  Careful
<1>1. PICK c : c = Head(up[s])
  OBVIOUS
<1>2. /\ Shape /\ NewCommands /\ \A t \in Seats : Bystander(t)
      /\ UNCHANGED <<joining, refused, overdue>> /\ Started' = Started
      /\ room # None /\ room \in Rooms /\ room.seq \in Nat
  BY TakenCommand
<1>3. PICK item : item = CHOOSE x \in Range(room.recentCommands) : x.id = c.id
  OBVIOUS
<1>4. item \in Range(room.recentCommands) /\ item.id = c.id
  <2>1. \E x \in Range(room.recentCommands) : x.id = c.id
    BY <1>1 DEF recognised, Range
  <2>2. QED
    BY <1>3, <2>1
<1>5. PICK m : m = IF item.error = "none" THEN stateEvent(room, "state", c.id)
                   ELSE errorEvent(room, item.error, c.id)
  OBVIOUS
<1>6. down' = Sent(down, m, {s}) /\ room' = room
  BY <1>1, <1>3, <1>5 DEF answerAgain
<1>7. applied' = applied
  BY <1>2, <1>6, ReceivesFacts
<1>8. m.type = "error" => Refused(m.id)
  <2>1. CASE item.error = "none"
    BY <1>5, <2>1 DEF stateEvent
  <2>2. CASE item.error # "none"
    <3>1. m.id = c.id
      BY <1>5, <2>2 DEF errorEvent
    <3>2. QED
      BY <1>2, <1>4, <2>2, <3>1, RememberedRefusals
  <2>3. QED
    BY <2>1, <2>2
<1>9. \A t \in Seats : \A n \in Carried(t)' : n \in Carried(t) \/ n = m
  <2> SUFFICES ASSUME NEW t \in Seats PROVE \A n \in Carried(t)' : n \in Carried(t) \/ n = m
    OBVIOUS
  <2>1. down'[t] = down[t] \/ down'[t] = Append(down[t], m)
    BY <1>6 DEF Sent
  <2>2. down[t] \in Seq(Messages)
    BY <1>2 DEF Shape
  <2>3. Range(Append(down[t], m)) = Range(down[t]) \union {m}
    BY <2>2, AppendRange
  <2>4. client'[t].inbound = client[t].inbound
    BY <1>2 DEF Bystander
  <2>5. QED
    BY <2>1, <2>3, <2>4 DEF Carried
<1>10. Silent
  <2>1. \A t \in Seats : \A n \in Carried(t)' : n.type = "error" => Refused(n.id)
    BY <1>8, <1>9, CarriedRefusals
  <2>2. \A r \in Rooms' : r \in Rooms
    BY <1>2, <1>6 DEF Rooms
  <2>3. QED
    BY <1>2, <2>1, <2>2 DEF Silent, Refused
<1>11. RoomGoesOn
  BY <1>2, <1>6 DEF RoomGoesOn
<1>12. QED
  BY <1>2, <1>7, <1>10, <1>11, SilentStep

LEMMA RememberedAll ==
  ASSUME NEW r \in RoomStates, NEW id \in Ids, NEW error,
         Len(r.recentCommands) + 1 <= MAX_RECENT_COMMANDS
  PROVE  remembered(r, id, error).recentCommands
           = Append(r.recentCommands, [id |-> id, error |-> error])
<1> DEFINE all == Append(r.recentCommands, [id |-> id, error |-> error])
           excess == Len(all) - MAX_RECENT_COMMANDS
           kept == IF excess > 0 THEN SubSeq(all, excess + 1, Len(all)) ELSE all
<1>1. remembered(r, id, error) = [r EXCEPT !.recentCommands = kept]
  BY DEF remembered
<1>2. r.recentCommands \in Seq(Items) /\ MAX_RECENT_COMMANDS \in Nat
  BY RoomFacts, RoomAssumption
<1>3. Len(all) = Len(r.recentCommands) + 1 /\ Len(r.recentCommands) \in Nat
  BY <1>2
<1>4. ~(excess > 0)
  BY <1>2, <1>3
<1>5. kept = all
  BY <1>4
<1> HIDE DEF kept, all, excess
<1>6. [r EXCEPT !.recentCommands = kept].recentCommands = kept
  BY DEF RoomStates
<1>7. QED
  BY <1>1, <1>5, <1>6 DEF all

(* What the room refuses is spent. *)
LEMMA RejectCares ==
  ASSUME MatchInv, NEW s \in Seats, RoomReceives(s), NEW code \in Errors,
         ~recognised(Head(up[s])), Spent(s, Head(up[s])),
         rejectCommand(s, Head(up[s]), code)
  PROVE  Careful /\ Recalls(Head(up[s])) /\ applied' = applied
<1>1. PICK c : c = Head(up[s])
  OBVIOUS
<1>2. /\ Shape /\ NewCommands /\ \A t \in Seats : Bystander(t) /\ c \in Range(up[s])
      /\ UNCHANGED <<joining, refused, overdue>> /\ Started' = Started
      /\ room # None /\ room \in Rooms /\ room \in RoomStates /\ room.seq \in Nat
      /\ c.id \in Ids
  BY <1>1, TakenCommand, ReceivesFacts, CommandFacts
<1>3. PICK m : m = errorEvent(room, code, c.id)
  OBVIOUS
<1>4. down' = Sent(down, m, {s}) /\ room' = remembered(room, c.id, code)
  BY <1>1, <1>3 DEF rejectCommand
<1>5. /\ room'.seq = room.seq /\ room'.status = room.status
      /\ room'.actions = room.actions /\ room'.pendingControl = room.pendingControl
      /\ room'.creatorSeat = room.creatorSeat
      /\ \A item \in Range(room'.recentCommands) :
           item \in Range(room.recentCommands) \/ item = [id |-> c.id, error |-> code]
  BY <1>2, <1>4, RememberedFacts
<1>6. applied' = applied
  BY <1>2, <1>5, ReceivesFacts
<1>7. PICK N : N = {c.id}
  OBVIOUS
<1>8. \A t \in Seats : \A n \in Carried(t)' : n \in Carried(t) \/ n = m
  <2> SUFFICES ASSUME NEW t \in Seats PROVE \A n \in Carried(t)' : n \in Carried(t) \/ n = m
    OBVIOUS
  <2>1. down'[t] = down[t] \/ down'[t] = Append(down[t], m)
    BY <1>4 DEF Sent
  <2>2. down[t] \in Seq(Messages)
    BY <1>2 DEF Shape
  <2>3. Range(Append(down[t], m)) = Range(down[t]) \union {m}
    BY <2>2, AppendRange
  <2>4. client'[t].inbound = client[t].inbound
    BY <1>2 DEF Bystander
  <2>5. QED
    BY <2>1, <2>3, <2>4 DEF Carried
<1>9. \A r \in Rooms' : r \in Rooms \/ r = room'
  BY <1>2 DEF Rooms
<1>10. \A id : Refused(id)' => Refused(id) \/ id \in N
  <2>1. \A t \in Seats : \A n \in Carried(t)' :
          n.type = "error" => Refused(n.id) \/ n.id \in N
    <3>1. m.id \in N
      BY <1>3, <1>7 DEF errorEvent
    <3>2. QED
      BY <1>8, <3>1, CarriedRefusals
  <2>2. \A r \in Rooms' : \A item \in Range(r.recentCommands) :
          item.error # "none" => Refused(item.id) \/ item.id \in N
    BY <1>2, <1>5, <1>7, <1>9, RememberedRefusals
  <2>3. \A id \in refused' : Refused(id)
    BY <1>2 DEF Refused
  <2>4. QED
    BY <2>1, <2>2, <2>3, RefusalsFrom
<1>11. NowRefused(c.id)
  BY <1>1, <1>2 DEF NowRefused
<1>12. RoomGoesOn /\ SameCreator
  BY <1>2, <1>5, <1>9 DEF RoomGoesOn, SameCreator
<1>13. Recalls(c)
  BY <1>2, <1>4, RememberedAll DEF Recalls
<1>14. QED
  BY <1>1, <1>2, <1>6, <1>7, <1>10, <1>11, <1>12, <1>13 DEF Careful

(* A command that takes effect in a room that is not waiting. *)
LEMMA EffectCares ==
  ASSUME MatchInv, NEW s \in Seats, RoomReceives(s), ~Spent(s, Head(up[s])), Started,
         NEW r \in RoomStates, r.seq = room.seq,
         r.recentCommands = room.recentCommands,
         room' = committed(r, Head(up[s])), \A t \in Seats : Spared(t)
  PROVE  Careful /\ Recalls(Head(up[s]))
         /\ applied' = applied \union {Head(up[s]).id}
<1>1. PICK c : c = Head(up[s])
  OBVIOUS
<1>2. /\ Shape /\ NewCommands /\ \A t \in Seats : Bystander(t) /\ c \in Commands
      /\ UNCHANGED <<joining, refused, overdue>> /\ Started' = Started
      /\ room # None /\ room \in Rooms /\ room.seq \in Nat
      /\ c \in CommandsOf(s)
  BY <1>1, TakenCommand, ReceivesFacts
<1>3. /\ room'.seq = room.seq + 1
      /\ \A item \in Range(room'.recentCommands) :
           item \in Range(room.recentCommands) \/ item = [id |-> c.id, error |-> "none"]
  BY <1>1, <1>2, CommittedFacts
<1>4. applied' = applied \union {c.id} /\ NowApplied(c.id)
  BY <1>1, <1>2, <1>3, EffectApplied DEF NowApplied
<1>5. \A id : Refused(id)' => Refused(id)
  <2>1. \A t \in Seats : \A n \in Carried(t)' : n.type = "error" => Refused(n.id)
    BY <1>2, SparedErrors, CarriedRefusals DEF Bystander
  <2>2. \A q \in Rooms' : q \in Rooms \/ q = room'
    BY <1>2 DEF Rooms
  <2>3. \A q \in Rooms' : \A item \in Range(q.recentCommands) :
          item.error # "none" => Refused(item.id)
    BY <1>2, <1>3, <2>2, RememberedRefusals
  <2>4. \A id \in refused' : Refused(id)
    BY <1>2 DEF Refused
  <2>5. PICK N : N = {}
    OBVIOUS
  <2>6. \A id : Refused(id)' => Refused(id) \/ id \in N
    BY <2>1, <2>3, <2>4, RefusalsFrom
  <2>7. QED
    BY <2>5, <2>6
<1>6. RoomGoesOn /\ SameCreator
  BY <1>2, <1>3 DEF RoomGoesOn, SameCreator
<1>7. Recalls(c)
  <2>1. PICK d : d = [r EXCEPT !.seq = @ + 1]
    OBVIOUS
  <2>2. d \in RoomStates /\ d.recentCommands = room.recentCommands
    BY <1>2, <2>1 DEF RoomStates
  <2>3. room' = remembered(d, c.id, "none") /\ c.id \in Ids
    BY <1>1, <1>2, <2>1, CommandFacts DEF committed
  <2>4. ASSUME Len(room.recentCommands) + 1 <= MAX_RECENT_COMMANDS
        PROVE  room'.recentCommands
                 = Append(room.recentCommands, [id |-> c.id, error |-> "none"])
    BY <2>2, <2>3, <2>4, RememberedAll
  <2>5. QED
    BY <2>4 DEF Recalls
<1>8. QED
  BY <1>1, <1>2, <1>4, <1>5, <1>6, <1>7 DEF Careful

(* Two messages, one to each seat. *)
LEMMA SparedApart ==
  ASSUME NEW s \in Seats, NEW m, NEW n, m.type # "error", n.type # "error",
         \/ down' = Sent(Sent(down, m, {s}), n, Others(s))
         \/ down' = Sent(Sent(down, n, Others(s)), m, {s})
  PROVE  \A t \in Seats : Spared(t)
<1>1. \A t \in Seats : down'[t] \in {down[t], Append(down[t], m), Append(down[t], n)}
  BY DEF Sent, Others
<1>2. QED
  BY <1>1 DEF Spared

LEMMA SparedBoth ==
  ASSUME NEW m, m.type # "error", down' = Sent(down, m, Seats)
  PROVE  \A t \in Seats : Spared(t)
  BY DEF Sent, Spared

LEMMA NotSpent ==
  ASSUME MatchInv, NEW s \in Seats, RoomReceives(s), current(Head(up[s])),
         MayTakeEffect(s, Head(up[s]))
  PROVE  ~Spent(s, Head(up[s]))
<1>1. room.seq \in Nat
  BY TakenCommand
<1>2. QED
  BY <1>1 DEF Spent, current

LEMMA HandleCares ==
  ASSUME MatchInv, NEW s \in Seats, RoomReceives(s), LinesTransform,
         current(Head(up[s])), MayTakeEffect(s, Head(up[s])),
         handleCommand(s, Head(up[s]))
  PROVE  Careful /\ Recalls(Head(up[s]))
         /\ applied' = applied \union {Head(up[s]).id}
<1>1. PICK c : c = Head(up[s])
  OBVIOUS
<1>2. /\ c \in Commands /\ room # None /\ room \in RoomStates
      /\ c.type \in {"action", "request", "respond", "resign", "leave"}
      /\ ~Spent(s, c)
  BY <1>1, TakenCommand, ReceivesFacts, CommandFacts, NotSpent
<1>3. Started
  BY <1>1, <1>2, RoomKnown DEF MayTakeEffect, may_act, may_request, may_respond
<1>4. CASE c.type = "action"
  <2>1. may_act(s, c) /\ c.move \in Moves
    BY <1>1, <1>2, <1>4, CommandFacts DEF MayTakeEffect
  <2>2. PICK m : m = stateEvent(room', "state", c.id)
    OBVIOUS
  <2>3. /\ room' = committed(played(room, c.move), c) /\ down' = Sent(down, m, Seats)
        /\ m.type # "error"
    BY <1>1, <1>4, <2>1, <2>2 DEF handleCommand, applyAction, stateEvent
  <2>4. PICK r \in RoomStates : /\ r = played(room, c.move) /\ r.seq = room.seq
                                /\ r.recentCommands = room.recentCommands
    BY <1>2, <2>1, PlayedFacts
  <2>5. QED
    BY <1>1, <1>2, <1>3, <2>3, <2>4, SparedBoth, EffectCares
<1>5. CASE c.type = "request"
  <2>1. may_request(c) /\ c.kind \in CONTROL_KINDS /\ c.steps \in Nat /\ c.id \in Ids
    BY <1>1, <1>2, <1>5, CommandFacts DEF MayTakeEffect
  <2>2. PICK pending : pending = [kind |-> c.kind, requestId |-> c.id,
                                  requester |-> s, steps |-> c.steps]
    OBVIOUS
  <2>3. PICK m : m = stateEvent(room', "state", c.id)
    OBVIOUS
  <2>4. PICK n : n = [type |-> "controlRequest", request |-> pending, seq |-> room'.seq]
    OBVIOUS
  <2>5. requestControl(s, c)
    BY <1>1, <1>5 DEF handleCommand
  <2>6. /\ room' = committed([room EXCEPT !.pendingControl = pending], c)
        /\ down' = Sent(Sent(down, m, {s}), n, Others(s))
    BY <2>1, <2>2, <2>3, <2>4, <2>5 DEF requestControl
  <2>7. m.type # "error" /\ n.type # "error"
    BY <2>3, <2>4 DEF stateEvent
  <2>8. PICK r : r = [room EXCEPT !.pendingControl = pending]
    OBVIOUS
  <2>9. r \in RoomStates /\ r.seq = room.seq /\ r.recentCommands = room.recentCommands
    <3>1. pending \in Requests
      BY <2>1, <2>2 DEF Requests
    <3>2. QED
      BY <1>2, <2>8, <3>1 DEF RoomStates, Pendings
  <2>10. room' = committed(r, c) /\ \A t \in Seats : Spared(t)
    BY <2>6, <2>7, <2>8, SparedApart
  <2>11. QED
    BY <1>1, <1>2, <1>3, <2>9, <2>10, EffectCares
<1>6. CASE c.type = "respond"
  <2>1. may_respond(s, c)
    BY <1>1, <1>6 DEF MayTakeEffect
  <2>2. room.pendingControl # None /\ room.status = "active"
    BY <1>1, <2>1, AnsweredInTime DEF may_respond
  <2>3. PICK pending \in Requests : pending = room.pendingControl
    BY <1>2, <2>2, RoomKnown
  <2>4. PICK answer : answer = IF c.accepted THEN granted(room, pending) ELSE room
    OBVIOUS
  <2>5. PICK m : m = controlResult(room', c.id, pending.requestId)
    OBVIOUS
  <2>6. respondControl(s, c)
    BY <1>1, <1>6 DEF handleCommand
  <2>7. /\ room' = committed([answer EXCEPT !.pendingControl = None], c)
        /\ down' = Sent(down, m, Seats)
    BY <2>1, <2>3, <2>4, <2>5, <2>6 DEF respondControl
  <2>8. m.type # "error"
    BY <2>5 DEF controlResult
  <2>9. /\ answer \in RoomStates /\ answer.seq = room.seq
        /\ answer.recentCommands = room.recentCommands
    BY <1>2, <2>2, <2>4, GrantedFacts
  <2>10. PICK r : r = [answer EXCEPT !.pendingControl = None]
    OBVIOUS
  <2>11. r \in RoomStates /\ r.seq = room.seq /\ r.recentCommands = room.recentCommands
    BY <2>9, <2>10 DEF RoomStates, Pendings
  <2>12. room' = committed(r, c) /\ \A t \in Seats : Spared(t)
    BY <2>7, <2>8, <2>10, SparedBoth
  <2>13. QED
    BY <1>1, <1>2, <1>3, <2>11, <2>12, EffectCares
<1>7. CASE c.type = "resign"
  <2>1. room.status = "active" /\ resign(s, c)
    BY <1>1, <1>7 DEF MayTakeEffect, handleCommand
  <2>2. PICK r : r = [room EXCEPT !.status = "ended", !.endReason = "resign",
                                  !.winnerSeat = opposite(s)]
    OBVIOUS
  <2>3. PICK m : m = stateEvent(room', "state", c.id)
    OBVIOUS
  <2>4. PICK n : n = [type |-> "opponentResigned", seq |-> room'.seq]
    OBVIOUS
  <2>5. /\ room' = committed(r, c)
        /\ down' = Sent(Sent(down, m, {s}), n, Others(s))
    BY <2>1, <2>2, <2>3, <2>4 DEF resign
  <2>6. m.type # "error" /\ n.type # "error"
    BY <2>3, <2>4 DEF stateEvent
  <2>7. r \in RoomStates /\ r.seq = room.seq /\ r.recentCommands = room.recentCommands
    <3>1. PICK winner \in Winners : winner = opposite(s)
      BY Opposites DEF Winners
    <3>2. r = [room EXCEPT !.status = "ended", !.endReason = "resign",
                           !.winnerSeat = winner]
      BY <2>2, <3>1
    <3>3. QED
      BY <1>2, <3>2 DEF RoomStates, Statuses, EndReasons
  <2>8. \A t \in Seats : Spared(t)
    BY <2>5, <2>6, SparedApart
  <2>9. QED
    BY <1>1, <1>2, <1>3, <2>5, <2>7, <2>8, EffectCares
<1>8. CASE c.type = "leave"
  <2>1. room.status = "active" /\ leave(s, c)
    BY <1>1, <1>8 DEF MayTakeEffect, handleCommand
  <2>2. PICK r : r = [room EXCEPT !.status = "ended", !.endReason = "left"]
    OBVIOUS
  <2>3. PICK m : m = stateEvent(room', "state", c.id)
    OBVIOUS
  <2>4. PICK n : n = [type |-> "opponentLeft", seq |-> room'.seq]
    OBVIOUS
  <2>5. /\ room' = committed(r, c)
        /\ down' = Sent(Sent(down, n, Others(s)), m, {s})
    BY <2>1, <2>2, <2>3, <2>4 DEF leave
  <2>6. m.type # "error" /\ n.type # "error"
    BY <2>3, <2>4 DEF stateEvent
  <2>7. r \in RoomStates /\ r.seq = room.seq /\ r.recentCommands = room.recentCommands
    BY <1>2, <2>2 DEF RoomStates, Statuses, EndReasons
  <2>8. \A t \in Seats : Spared(t)
    BY <2>5, <2>6, SparedApart
  <2>9. QED
    BY <1>1, <1>2, <1>3, <2>5, <2>7, <2>8, EffectCares
<1>9. QED
  BY <1>2, <1>4, <1>5, <1>6, <1>7, <1>8

(* What handleCommand refuses may not take effect. *)
LEMMA HandleRefuses ==
  ASSUME NEW s \in Seats, NEW c \in Commands, handleCommand(s, c), ~MayTakeEffect(s, c)
  PROVE  rejectCommand(s, c, "action_rejected")
<1>1. c.type \in {"action", "request", "respond", "resign", "leave"}
  BY CommandFacts
<1>2. CASE c.type = "action"
  BY <1>2 DEF handleCommand, applyAction, MayTakeEffect
<1>3. CASE c.type = "request"
  <2>1. requestControl(s, c) /\ ~may_request(c)
    BY <1>3 DEF handleCommand, MayTakeEffect
  <2>2. QED
    BY <2>1 DEF requestControl
<1>4. CASE c.type = "respond"
  <2>1. respondControl(s, c) /\ ~may_respond(s, c)
    BY <1>4 DEF handleCommand, MayTakeEffect
  <2>2. QED
    BY <2>1 DEF respondControl
<1>5. CASE c.type = "resign"
  BY <1>5 DEF handleCommand, resign, MayTakeEffect
<1>6. CASE c.type = "leave"
  BY <1>6 DEF handleCommand, leave, MayTakeEffect
<1>7. QED
  BY <1>1, <1>2, <1>3, <1>4, <1>5, <1>6

LEMMA ReceivesCares ==
  ASSUME MatchInv, NEW s \in Seats, RoomReceives(s), LinesTransform
  PROVE  Orderly
<1>1. PICK c : c = Head(up[s])
  OBVIOUS
<1>2. /\ c \in Commands /\ c \in CommandsOf(s) /\ room # None /\ room.seq \in Nat
      /\ \/ recognised(c) /\ answerAgain(s, c)
         \/ ~recognised(c) /\ ~current(c) /\ rejectCommand(s, c, "stale_revision")
         \/ ~recognised(c) /\ current(c) /\ handleCommand(s, c)
  BY <1>1, TakenCommand, ReceivesFacts
<1>c. c \in Range(up[s]) /\ joining' = joining
  BY <1>1, TakenCommand
<1>r. Reading
  BY <1>c DEF Reading
<1>3. CASE recognised(c) /\ answerAgain(s, c)
  <2>1. Careful /\ room' = room /\ applied' = applied
    <3>1. room' = room
      BY <1>3 DEF answerAgain
    <3>2. applied' = applied
      BY <1>2, <3>1, ReceivesFacts
    <3>3. QED
      BY <1>1, <1>3, <3>1, <3>2, AnswerAgainCares
  <2>2. QED
    BY <1>2, <1>r, <2>1 DEF Recording, Orderly
<1>4. CASE ~recognised(c) /\ ~current(c) /\ rejectCommand(s, c, "stale_revision")
  <2>1. c.expectedSeq < room.seq
    BY <1>2, <1>4, CommandsKnown DEF current, Past
  <2>2. Careful /\ Recalls(c) /\ applied' = applied
    BY <1>1, <1>4, <2>1, RejectCares DEF Spent, Errors
  <2>3. QED
    BY <1>2, <1>4, <1>c, <1>r, <2>2 DEF Recording, Orderly
<1>5. CASE ~recognised(c) /\ current(c) /\ handleCommand(s, c)
  <2>1. CASE MayTakeEffect(s, c)
    <3>1. Careful /\ Recalls(c) /\ applied' = applied \union {c.id}
      BY <1>1, <1>5, <2>1, HandleCares
    <3>2. QED
      BY <1>2, <1>5, <1>c, <1>r, <3>1 DEF Recording, Orderly
  <2>2. CASE ~MayTakeEffect(s, c)
    <3>1. rejectCommand(s, c, "action_rejected") /\ Spent(s, c)
      BY <1>2, <1>5, <2>2, HandleRefuses DEF Spent
    <3>2. Careful /\ Recalls(c) /\ applied' = applied
      BY <1>1, <1>5, <3>1, RejectCares DEF Errors
    <3>3. QED
      BY <1>2, <1>5, <1>c, <1>r, <3>2 DEF Recording, Orderly
  <2>3. QED
    BY <2>1, <2>2
<1>6. QED
  BY <1>2, <1>3, <1>4, <1>5

-----------------------------------------------------------------------------
(* All steps, and what follows.                                            *)

LEMMA RefusalInit ==
  Init => RefusalInv /\ NoneRefused
<1> SUFFICES ASSUME Init PROVE RefusalInv /\ NoneRefused
  OBVIOUS
<1>1. /\ room.recentCommands = << >> /\ down = [s \in Seats |-> << >>]
      /\ joining = [j \in Joiners |-> [step |-> "idle", read |-> None]]
      /\ applied = {} /\ refused = {} /\ overdue = {}
  BY DEF Init, RoomInit
<1>2. \A s \in Seats : client[s].inbound = None
  BY DEF Init, NewClient
<1>3. \A s \in Seats : Carried(s) = {}
  BY <1>1, <1>2, EmptyRange DEF Carried
<1>4. \A r \in Rooms : Range(r.recentCommands) = {}
  <2>1. \A j \in Joiners : joining[j].step = "idle"
    BY <1>1
  <2>2. \A r \in Rooms : r = room
    BY <2>1 DEF Rooms
  <2>3. QED
    BY <1>1, <2>2, EmptyRange
<1>5. \A id : ~Refused(id)
  BY <1>1, <1>3, <1>4 DEF Refused
<1>6. QED
  BY <1>1, <1>5 DEF RefusalInv, RefusalsAreOld, RefusalsAreSpent,
                    RefusalsAreTheCreators, NoneRefused

LEMMA Nothing ==
  ASSUME MatchInv, UNCHANGED vars
  PROVE  Orderly
<1>1. UNCHANGED <<room, alarm, sockets, down, joining, client, up, losses,
                  applied, refused, overdue>>
  BY DEF vars, roomVars, clientVars, historyVars
<1>2. \A s \in Seats : client[s].count \in Nat
  BY ClientFacts, ShapeFacts DEF MatchInv
<1>3. NewCommands
  BY <1>1, <1>2 DEF NewCommands, CommandsOf
<1>4. RoomGoesOn /\ Started' = Started
  BY <1>1 DEF RoomGoesOn, Started
<1>5. Silent
  BY <1>1 DEF Silent, Refused, Rooms, Carried
<1>6. Careful
  BY <1>1, <1>3, <1>4, <1>5, SilentStep
<1>7. QED
  BY <1>1, <1>6 DEF Orderly, Recording, Reading

(* Every step is orderly but the join that seats the second player. *)
LEMMA OrderlyNext ==
  ASSUME MatchInv, LinesTransform, [Next]_vars
  PROVE  Orderly \/ \E j \in Joiners : Joined(j) /\ may_join(joining[j].read)
<1>1. ASSUME UNCHANGED vars
      PROVE  Orderly
  BY <1>1, Nothing
<1>2. ASSUME NEW s \in Seats,
             User(s) \/ Connecting(s) \/ Handling(s) \/ Network(s)
               \/ GiveUp(s) \/ WelcomeTimeout(s) \/ CommandTimeout(s)
      PROVE  Orderly
  <2>1. CASE User(s)
    BY <2>1, UserStep, LeaveOfflineStep, RetryConnectionStep, UndisturbedStep DEF User
  <2>2. CASE Connecting(s)
    BY <2>2, GetTicketStep, RoomUnavailableStep, ConnectCares, FailedStep,
       UndisturbedStep DEF Connecting
  <2>3. CASE Handling(s)
    BY <2>3, BeginMessageStep, EndMessageStep, HandleAtOnceStep, UndisturbedStep
       DEF Handling
  <2>4. CASE Network(s)
    BY <2>4, BreakStep, AppRestartsStep, ReadCloseStep, RoomReadsCloseCares,
       ReceivesCares, UndisturbedStep DEF Network
  <2>5. CASE GiveUp(s) \/ WelcomeTimeout(s) \/ CommandTimeout(s)
    BY <2>5, GiveUpStep, FailedStep, CommandTimeoutStep, UndisturbedStep
  <2>6. QED
    BY <1>2, <2>1, <2>2, <2>3, <2>4, <2>5
<1>3. ASSUME NEW j \in Joiners, Join(j) \/ Joined(j)
      PROVE  Orderly \/ (Joined(j) /\ may_join(joining[j].read))
  BY <1>3, JoinCares, RefusedJoinCares
<1>4. ASSUME Cancel \/ RoomAlarm
      PROVE  Orderly
  BY <1>4, CancelCares, RoomAlarmCares
<1>5. QED
  BY <1>1, <1>2, <1>3, <1>4 DEF Next

LEMMA RefusalNext ==
  ASSUME MatchInv, RefusalInv, LinesTransform, JoinsOnce', [Next]_vars
  PROVE  /\ MatchInv' /\ RefusalInv'
         /\ Careful \/ (applied = {} /\ applied' = {})
<1>1. MatchInv'
  BY MatchNext
<1>2. CASE Orderly
  BY <1>1, <1>2, RefusalStep DEF Orderly
<1>3. CASE \E j \in Joiners : Joined(j) /\ may_join(joining[j].read)
  BY <1>1, <1>3, SeatedJoinRefuses
<1>4. QED
  BY <1>2, <1>3, OrderlyNext

LEMMA RefusalsHold ==
  ASSUME LinesTransform
  PROVE  Spec /\ []JoinsOnce => []RefusalInv
<1>1. MatchInv /\ RefusalInv /\ JoinsOnce' /\ [Next]_vars => RefusalInv'
  BY RefusalNext
<1>2. QED
  BY <1>1, RefusalInit, MatchFits, PTL DEF Spec

(* A command that the room has refused, whether its sender has been told so*)
(* yet or not, takes no effect from then on, however often it is sent again*)
(* and whatever the room remembers of it (the check of revisions in        *)
(* webSocketMessage, game_room.ts).                                        *)
RefusalIsFinal == [][\A id \in applied' \ applied : ~Refused(id)]_vars

THEOREM RefusalsAreFinal ==
  ASSUME LinesTransform
  PROVE  Spec /\ []JoinsOnce => RefusalIsFinal
<1>1. MatchInv /\ RefusalInv /\ JoinsOnce' /\ [Next]_vars
        => [\A id \in applied' \ applied : ~Refused(id)]_vars
  BY RefusalNext, FreshEffects DEF Careful
<1>2. QED
  BY <1>1, RefusalsHold, MatchFits, PTL DEF Spec, RefusalIsFinal

(* A command whose sender is told that it failed has had no effect, however*)
(* often it was sent (recentCommands and webSocketMessage in game_room.ts, *)
(* and the sending again in _handleWelcome), unless he is told so by the   *)
(* timer of _sendCommand; as long as no command reaches the room again     *)
(* after MAX_RECENT_COMMANDS others have been remembered since it took     *)
(* effect.                                                                 *)
THEOREM AnswersAreTrue ==
  ASSUME LinesTransform
  PROVE  Spec /\ []JoinsOnce /\ []EffectsRemembered => []AnswerIsTrue
<1>1. MatchInv /\ RefusalInv /\ NoneRefused /\ EffectsRemembered
        /\ JoinsOnce' /\ [Next]_vars => NoneRefused'
  <2> SUFFICES ASSUME MatchInv, RefusalInv, NoneRefused, EffectsRemembered,
                      JoinsOnce', [Next]_vars
               PROVE  NoneRefused'
    OBVIOUS
  <2>1. MatchInv' /\ (Careful \/ (applied = {} /\ applied' = {}))
    BY RefusalNext
  <2>2. applied' \subseteq Ids
    BY <2>1 DEF MatchInv, Shape
  <2>3. CASE Careful
    BY <2>2, <2>3, NoneRefusedStep
  <2>4. CASE applied' = {}
    BY <2>4 DEF NoneRefused
  <2>5. QED
    BY <2>1, <2>3, <2>4
<1>2. NoneRefused => AnswerIsTrue
  BY DEF NoneRefused, AnswerIsTrue, told, Refused
<1>3. QED
  BY <1>1, <1>2, RefusalInit, RefusalsHold, MatchFits, PTL DEF Spec

-----------------------------------------------------------------------------
(* As long as the two players together make no more commands than the room *)
(* remembers, it remembers all that took effect.                           *)

FewCommands == client["first"].count + client["second"].count <= MAX_RECENT_COMMANDS

(* Every command is remembered once, and has been made. *)
Recorded(r) ==
    /\ \A i, k \in DOMAIN r.recentCommands :
         r.recentCommands[i].id = r.recentCommands[k].id => i = k
    /\ \A item \in Range(r.recentCommands) :
         item.id.n \in 1..client[item.id.seat].count

RecordInv ==
    /\ \A s \in Seats : \A c \in CommandsOf(s) : c.id.n # 0
    /\ room # None =>
         /\ Recorded(room)
         /\ \A id \in applied : \E item \in Range(room.recentCommands) : item.id = id
    /\ ~Started => \A r \in Rooms : Recorded(r)

LEMMA ItemsOf ==
  ASSUME NEW r \in RoomStates, NEW item \in Range(r.recentCommands)
  PROVE  item \in Items /\ item.id \in Ids /\ item.id.seat \in Seats
<1>1. r.recentCommands \in Seq(Items)
  BY RoomFacts
<1>2. QED
  BY <1>1, RangeIn DEF Items, Ids

(* Commands of two seats, each known by its number. *)
LEMMA FewIds ==
  ASSUME NEW a \in Nat, NEW b \in Nat, NEW n \in Nat, NEW ids \in [1..n -> Ids],
         \A i, k \in 1..n : ids[i] = ids[k] => i = k,
         \A i \in 1..n : ids[i].n \in 1..(IF ids[i].seat = "first" THEN a ELSE b)
  PROVE  n <= a + b
<1> DEFINE A == {"first"} \X (1..a)
           B == {"second"} \X (1..b)
           f == [i \in 1..n |-> <<ids[i].seat, ids[i].n>>]
<1>1. /\ IsFiniteSet(1..n) /\ Cardinality(1..n) = n
      /\ IsFiniteSet(1..a) /\ Cardinality(1..a) = a
      /\ IsFiniteSet(1..b) /\ Cardinality(1..b) = b
  BY FS_Interval
<1>2. IsFiniteSet(A) /\ Cardinality(A) = a
  <2>1. IsFiniteSet(A) /\ Cardinality(A) = Cardinality({"first"}) * Cardinality(1..a)
    BY <1>1, FS_Singleton, FS_Product
  <2>2. Cardinality({"first"}) = 1
    BY FS_Singleton
  <2>3. QED
    BY <1>1, <2>1, <2>2
<1>3. IsFiniteSet(B) /\ Cardinality(B) = b
  <2>1. IsFiniteSet(B) /\ Cardinality(B) = Cardinality({"second"}) * Cardinality(1..b)
    BY <1>1, FS_Singleton, FS_Product
  <2>2. Cardinality({"second"}) = 1
    BY FS_Singleton
  <2>3. QED
    BY <1>1, <2>1, <2>2
<1>4. f \in Injection(1..n, A \union B)
  <2>1. \A i \in 1..n : ids[i] \in Ids /\ ids[i].seat \in {"first", "second"}
    BY DEF Ids, Seats
  <2>2. \A i \in 1..n : f[i] \in A \union B
    BY <2>1
  <2>3. ASSUME NEW i \in 1..n, NEW k \in 1..n, f[i] = f[k]
        PROVE  i = k
    <3>1. ids[i].seat = ids[k].seat /\ ids[i].n = ids[k].n
      BY <2>3
    <3>2. ids[i] = ids[k]
      BY <2>1, <3>1 DEF Ids
    <3>3. QED
      BY <3>2
  <2>4. f \in [1..n -> A \union B]
    BY <2>2
  <2> HIDE DEF f, A, B
  <2>5. QED
    BY <2>3, <2>4 DEF Injection, IsInjective
<1> HIDE DEF f, A, B
<1>5. /\ IsFiniteSet(A \union B)
      /\ Cardinality(A \union B) = a + b - Cardinality(A \cap B)
  BY <1>2, <1>3, FS_Union
<1>6. Cardinality(A \cap B) \in Nat
  BY <1>2, FS_Intersection, FS_CardinalityType
<1>7. n <= Cardinality(A \union B)
  BY <1>1, <1>4, <1>5, FS_Injection
<1>8. QED
  BY <1>5, <1>6, <1>7

(* There is room for one more. *)
LEMMA RoomForOneMore ==
  ASSUME MatchInv, room # None, Recorded(room), FewCommands,
         NEW id \in Ids, id.n \in 1..client[id.seat].count,
         \A item \in Range(room.recentCommands) : item.id # id
  PROVE  Len(room.recentCommands) + 1 <= MAX_RECENT_COMMANDS
<1>1. PICK q : q = room.recentCommands
  OBVIOUS
<1>2. /\ room \in RoomStates /\ q \in Seq(Items)
      /\ client["first"].count \in Nat /\ client["second"].count \in Nat
  BY <1>1, RoomFacts, ShapeFacts, ClientFacts DEF MatchInv, Shape, Seats
<1>3. PICK n \in Nat : n = Len(q)
  BY <1>2
<1>4. PICK ids : ids = [i \in 1..(n + 1) |-> IF i = n + 1 THEN id ELSE q[i].id]
  OBVIOUS
<1>5. /\ DOMAIN q = 1..n
      /\ \A i \in 1..n : q[i] \in Range(q) /\ q[i].id \in Ids /\ q[i].id # id
  <2>1. DOMAIN q = 1..n
    BY <1>2, <1>3
  <2>2. \A i \in 1..n : q[i] \in Range(q)
    BY <2>1 DEF Range
  <2>3. \A i \in 1..n : q[i].id \in Ids
    BY <1>1, <1>2, <2>2, ItemsOf
  <2>4. \A i \in 1..n : q[i].id # id
    BY <1>1, <2>2
  <2>5. QED
    BY <2>1, <2>2, <2>3, <2>4
<1>6. ids \in [1..(n + 1) -> Ids] /\ ids[n + 1] = id /\ \A i \in 1..n : ids[i] = q[i].id
  <2>1. \A i \in 1..n : i # n + 1 /\ i \in 1..(n + 1)
    BY <1>3
  <2>2. n + 1 \in 1..(n + 1)
    BY <1>3
  <2>3. \A i \in 1..(n + 1) : i \in 1..n \/ i = n + 1
    BY <1>3
  <2>4. ids[n + 1] = id
    BY <1>4, <2>2
  <2>5. \A i \in 1..n : ids[i] = q[i].id
    BY <1>4, <2>1
  <2>6. \A i \in 1..(n + 1) : ids[i] \in Ids
    BY <1>5, <2>3, <2>4, <2>5
  <2>7. ids \in [1..(n + 1) -> Ids]
    BY <1>4, <2>6
  <2>8. QED
    BY <2>4, <2>5, <2>7
<1>7. \A i, k \in 1..(n + 1) : ids[i] = ids[k] => i = k
  <2>1. \A i \in 1..(n + 1) : i \in 1..n \/ i = n + 1
    BY <1>3
  <2>2. \A i, k \in 1..n : ids[i] = ids[k] => i = k
    BY <1>1, <1>5, <1>6 DEF Recorded
  <2>3. \A i \in 1..n : ids[i] # ids[n + 1]
    BY <1>5, <1>6
  <2>4. QED
    BY <2>1, <2>2, <2>3
<1>8. \A i \in 1..(n + 1) :
        ids[i].n \in 1..(IF ids[i].seat = "first" THEN client["first"].count
                         ELSE client["second"].count)
  <2>1. \A i \in 1..(n + 1) : i \in 1..n \/ i = n + 1
    BY <1>3
  <2>2. \A i \in 1..(n + 1) : ids[i].n \in 1..client[ids[i].seat].count
    BY <1>1, <1>5, <1>6, <2>1 DEF Recorded
  <2>3. \A i \in 1..(n + 1) : ids[i].seat \in {"first", "second"}
    BY <1>6 DEF Ids, Seats
  <2>4. QED
    BY <2>2, <2>3
<1>9. n + 1 <= client["first"].count + client["second"].count
  <2>1. n + 1 \in Nat
    BY <1>3
  <2>2. PICK a \in Nat : a = client["first"].count
    BY <1>2
  <2>3. PICK b \in Nat : b = client["second"].count
    BY <1>2
  <2>4. \A i \in 1..(n + 1) : ids[i].n \in 1..(IF ids[i].seat = "first" THEN a ELSE b)
    BY <1>8, <2>2, <2>3
  <2>5. n + 1 <= a + b
    BY <1>6, <1>7, <2>1, <2>4, FewIds
  <2>6. QED
    BY <2>2, <2>3, <2>5
<1>10. QED
  BY <1>1, <1>2, <1>3, <1>9, RoomAssumption DEF FewCommands

LEMMA StaysRecorded ==
  ASSUME Shape, Shape', NEW q \in RoomStates, Recorded(q), NEW r,
         r.recentCommands = q.recentCommands,
         \A item \in Range(q.recentCommands) :
           client[item.id.seat].count <= client'[item.id.seat].count
  PROVE  /\ \A i, k \in DOMAIN r.recentCommands :
              r.recentCommands[i].id = r.recentCommands[k].id => i = k
         /\ \A item \in Range(r.recentCommands) :
              item.id.n \in 1..client'[item.id.seat].count
<1>1. \A s \in Seats : client[s].count \in Nat /\ client'[s].count \in Nat
  BY ClientFacts DEF Shape
<1>2. ASSUME NEW item \in Range(r.recentCommands)
      PROVE  item.id.n \in 1..client'[item.id.seat].count
  <2>1. item \in Range(q.recentCommands)
    BY <1>2
  <2>2. item.id.seat \in Seats /\ item.id.n \in 1..client[item.id.seat].count
    BY <2>1, ItemsOf DEF Recorded
  <2>3. QED
    BY <1>1, <2>1, <2>2
<1>3. QED
  BY <1>2 DEF Recorded

LEMMA RecordInit == Init => RecordInv
<1> SUFFICES ASSUME Init PROVE RecordInv
  OBVIOUS
<1>1. /\ room.recentCommands = << >> /\ up = [s \in Seats |-> << >>]
      /\ joining = [j \in Joiners |-> [step |-> "idle", read |-> None]]
      /\ applied = {}
  BY DEF Init, RoomInit
<1>2. \A s \in Seats : client[s].pendingCommands = << >>
  BY DEF Init, NewClient
<1>3. \A s \in Seats : CommandsOf(s) = {}
  BY <1>1, <1>2, EmptyRange DEF CommandsOf
<1>4. \A r \in Rooms : r = room
  <2>1. \A j \in Joiners : joining[j].step = "idle"
    BY <1>1
  <2>2. QED
    BY <2>1 DEF Rooms
<1>5. Recorded(room)
  BY <1>1, EmptyRange DEF Recorded
<1>6. QED
  BY <1>1, <1>3, <1>4, <1>5 DEF RecordInv

LEMMA RecordStep ==
  ASSUME MatchInv, MatchInv', RecordInv, FewCommands, Orderly
  PROVE  RecordInv'
<1>1. /\ Shape /\ Shape' /\ \A s \in Seats : client[s].count <= client'[s].count
  BY DEF MatchInv, Orderly, Careful, NewCommands
<1>2. ASSUME NEW s \in Seats, NEW c \in CommandsOf(s)'
      PROVE  c.id.n # 0
  <2>1. client[s].count \in Nat
    BY <1>1, ShapeFacts, ClientFacts
  <2>2. c \in CommandsOf(s) \/ client[s].count < c.id.n
    BY <1>2 DEF Orderly, Careful, NewCommands
  <2>3. QED
    BY <2>1, <2>2 DEF RecordInv
<1>3. ASSUME NEW q \in RoomStates, Recorded(q), NEW r,
             r.recentCommands = q.recentCommands
      PROVE  /\ \A i, k \in DOMAIN r.recentCommands :
                  r.recentCommands[i].id = r.recentCommands[k].id => i = k
             /\ \A item \in Range(r.recentCommands) :
                  item.id.n \in 1..client'[item.id.seat].count
  <2>1. \A item \in Range(q.recentCommands) : item.id.seat \in Seats
    BY ItemsOf
  <2>2. QED
    BY <1>1, <1>3, <2>1, StaysRecorded
<1>4. ASSUME room' # None
      PROVE  /\ \A i, k \in DOMAIN room'.recentCommands :
                  room'.recentCommands[i].id = room'.recentCommands[k].id => i = k
             /\ \A item \in Range(room'.recentCommands) :
                  item.id.n \in 1..client'[item.id.seat].count
             /\ \A id \in applied' :
                  \E item \in Range(room'.recentCommands) : item.id = id
  <2>1. room # None /\ room \in RoomStates /\ room \in Rooms /\ Recorded(room)
    BY <1>1, <1>4 DEF Orderly, Recording, Shape, Rooms, RecordInv
  <2>2. CASE room'.recentCommands = room.recentCommands /\ applied' = applied
    <3>1. PICK r : r = room'
      OBVIOUS
    <3>2. r.recentCommands = room.recentCommands
      BY <2>2, <3>1
    <3>3. \A id \in applied' : \E item \in Range(room'.recentCommands) : item.id = id
      BY <2>1, <2>2 DEF RecordInv
    <3>4. QED
      BY <1>3, <2>1, <3>1, <3>2, <3>3
  <2>3. CASE \E s \in Seats : \E c \in Range(up[s]) :
               /\ ~recognised(c) /\ Recalls(c)
               /\ applied' \subseteq applied \union {c.id}
    <3>1. PICK s \in Seats : \E c \in Range(up[s]) :
               /\ ~recognised(c) /\ Recalls(c)
               /\ applied' \subseteq applied \union {c.id}
      BY <2>3
    <3>2. PICK c \in Range(up[s]) :
               /\ ~recognised(c) /\ Recalls(c)
               /\ applied' \subseteq applied \union {c.id}
      BY <3>1
    <3>3. c \in CommandsOf(s)
      BY DEF CommandsOf
    <3>4. c.id \in Ids /\ c.id.seat = s /\ c.id.n \in 1..client[s].count
      BY <3>3, CommandsKnown DEF RecordInv
    <3>5. \A item \in Range(room.recentCommands) : item.id # c.id
      BY <3>2 DEF recognised, Range
    <3>6. Len(room.recentCommands) + 1 <= MAX_RECENT_COMMANDS
      BY <2>1, <3>4, <3>5, RoomForOneMore
    <3>7. PICK error : room'.recentCommands
                         = Append(room.recentCommands, [id |-> c.id, error |-> error])
      BY <3>2, <3>6 DEF Recalls
    <3>8. PICK item : item = [id |-> c.id, error |-> error]
      OBVIOUS
    <3>9. PICK q \in Seq(Items) : q = room.recentCommands
      BY <2>1, RoomFacts
    <3>10. room'.recentCommands = Append(q, item) /\ item.id = c.id
      BY <3>7, <3>8, <3>9
    <3>11. Range(room'.recentCommands) = Range(q) \union {item}
      BY <3>10, AppendRange
    <3>12. \A i, k \in DOMAIN room'.recentCommands :
             room'.recentCommands[i].id = room'.recentCommands[k].id => i = k
      <4>1. PICK n \in Nat : n = Len(q)
        BY <3>9
      <4>2. /\ DOMAIN q = 1..n /\ DOMAIN Append(q, item) = 1..(n + 1)
            /\ \A i \in 1..n : Append(q, item)[i] = q[i]
            /\ Append(q, item)[n + 1] = item
        BY <4>1
      <4>3. \A i \in 1..n : q[i].id # item.id
        BY <3>5, <3>9, <3>10, <4>2 DEF Range
      <4>4. \A i, k \in 1..n : q[i].id = q[k].id => i = k
        BY <2>1, <3>9, <4>2 DEF Recorded
      <4>5. \A i \in 1..(n + 1) : i \in 1..n \/ i = n + 1
        OBVIOUS
      <4>6. QED
        BY <3>10, <4>2, <4>3, <4>4, <4>5
    <3>13. \A x \in Range(room'.recentCommands) : x.id.n \in 1..client'[x.id.seat].count
      <4>1. \A x \in Range(q) : x.id.n \in 1..client'[x.id.seat].count
        <5>1. PICK r : r = room
          OBVIOUS
        <5>2. QED
          BY <1>3, <2>1, <3>9, <5>1
      <4>2. c.id.n \in 1..client'[s].count
        <5>1. client[s].count \in Nat /\ client'[s].count \in Nat
          BY <1>1, ClientFacts DEF Shape
        <5>2. QED
          BY <1>1, <3>4, <5>1
      <4>3. QED
        BY <3>4, <3>10, <3>11, <4>1, <4>2
    <3>14. \A id \in applied' : \E x \in Range(room'.recentCommands) : x.id = id
      BY <2>1, <3>2, <3>9, <3>10, <3>11 DEF RecordInv
    <3>15. QED
      BY <3>12, <3>13, <3>14
  <2>4. QED
    BY <1>4, <2>2, <2>3 DEF Orderly, Recording
<1>5. ASSUME ~Started', NEW r \in Rooms'
      PROVE  Recorded(r)'
  <2>1. CASE r \in {room'} \ {None}
    BY <1>4, <2>1 DEF Recorded
  <2>2. CASE \E j \in Joiners : joining'[j].step = "reading" /\ r = joining'[j].read
    <3>1. ~Started
      BY <1>5 DEF Orderly, Careful, SameCreator
    <3>2. r \in Rooms
      BY <2>2 DEF Orderly, Reading, Rooms
    <3>3. r \in RoomStates
      <4>1. \A j \in Joiners : joining[j].step = "reading" => joining[j].read \in RoomStates
        BY <3>1 DEF MatchInv, BeforeTheStart, FreshRoom
      <4>2. QED
        BY <1>1, <3>2, <4>1 DEF Rooms, Shape
    <3>4. Recorded(r)
      BY <3>1, <3>2 DEF RecordInv
    <3>5. QED
      BY <1>3, <3>3, <3>4 DEF Recorded
  <2>3. QED
    BY <1>5, <2>1, <2>2 DEF Rooms
<1>6. room' # None => Recorded(room)'
  BY <1>4 DEF Recorded
<1>7. QED
  BY <1>2, <1>4, <1>5, <1>6 DEF RecordInv

LEMMA SeatedRecord ==
  ASSUME MatchInv, RefusalInv, RecordInv, LinesTransform, JoinsOnce', [Next]_vars,
         NEW j \in Joiners, Joined(j), may_join(joining[j].read)
  PROVE  RecordInv'
<1>1. MatchInv'
  BY MatchNext
<1>2. /\ Shape /\ Shape' /\ applied' = {} /\ ~Started /\ Started'
      /\ \A s \in Seats : CommandsOf(s)' \subseteq CommandsOf(s)
  BY <1>1, SeatedJoinRefuses DEF MatchInv
<1>3. PICK r \in Rooms :
        /\ r \in RoomStates /\ room'.recentCommands = r.recentCommands
        /\ \A item \in Range(r.recentCommands) :
             client'[item.id.seat].count = client[item.id.seat].count
  BY <1>1, SeatedJoinRefuses
<1>4. Recorded(r)
  BY <1>2 DEF RecordInv
<1>5. \A item \in Range(r.recentCommands) :
        client[item.id.seat].count <= client'[item.id.seat].count
  <2>1. \A item \in Range(r.recentCommands) : client[item.id.seat].count \in Nat
    BY <1>2, <1>3, ItemsOf, ShapeFacts, ClientFacts
  <2>2. QED
    BY <1>3, <2>1
<1>6. Recorded(room)'
  <2>1. PICK q : q = room'
    OBVIOUS
  <2>2. QED
    BY <1>2, <1>3, <1>4, <1>5, <2>1, StaysRecorded DEF Recorded
<1>7. QED
  BY <1>2, <1>6 DEF RecordInv

LEMMA RecordNext ==
  ASSUME MatchInv, RefusalInv, RecordInv, FewCommands, LinesTransform, JoinsOnce',
         [Next]_vars
  PROVE  RecordInv'
<1>1. MatchInv'
  BY MatchNext
<1>2. QED
  BY <1>1, OrderlyNext, RecordStep, SeatedRecord

LEMMA RecordsSuffice ==
  ASSUME RecordInv
  PROVE  EffectsRemembered
<1> SUFFICES ASSUME room # None, NEW s \in Seats, NEW c \in Range(up[s]),
                    c.id \in applied
             PROVE  recognised(c)
  BY DEF EffectsRemembered
<1>1. \E item \in Range(room.recentCommands) : item.id = c.id
  BY DEF RecordInv
<1>2. QED
  BY <1>1 DEF recognised, Range

(* Only the timer of _sendCommand tells a sender falsely that a command    *)
(* failed in every match in which the two players together make no more    *)
(* commands than the room remembers: 64 of MAX_RECENT_COMMANDS in types.ts *)
(* (remember and webSocketMessage in game_room.ts).                        *)
THEOREM ShortMatchesAreTrue ==
  ASSUME LinesTransform
  PROVE  Spec /\ []JoinsOnce /\ []FewCommands => []AnswerIsTrue
<1>1. MatchInv /\ RefusalInv /\ RecordInv /\ FewCommands
        /\ JoinsOnce' /\ [Next]_vars => RecordInv'
  BY RecordNext
<1>2. RecordInv => EffectsRemembered
  BY RecordsSuffice
<1>3. Spec /\ []JoinsOnce /\ []FewCommands => []RecordInv
  BY <1>1, RecordInit, RefusalsHold, MatchFits, PTL DEF Spec
<1>4. QED
  BY <1>2, <1>3, AnswersAreTrue, PTL

=============================================================================
