-------------------------- MODULE MillPonderProofs --------------------------
(***************************************************************************)
(* What the search workers promise, and a game with pondering that uses    *)
(* them, for any number of workers, any positions and human turns and any  *)
(* length of the game.                                                     *)
(*                                                                         *)
(* Of the workers (EngineSearch): two facts carry the proof of             *)
(* BestMoveNeedsHit from the Dart call to the published event: a gate is   *)
(* only ever HIT by a hit granted for the worker's own root (GateEarned),  *)
(* and a ponder worker only gets to publishing through such a gate         *)
(* (PublishingEarned).                                                     *)
(*                                                                         *)
(* A session (MillPonder) is one of the ways Dart may call the workers, so *)
(* everything proved of them holds of it too (SessionsAreSearches).  What  *)
(* is special of a session is who may be running: the worker of the ponder *)
(* that _activePonder holds or the one the AI's turn awaits, and nothing is*)
(* held while the turn searches (OnlyTheAwaitedRuns).                      *)
(***************************************************************************)
EXTENDS MillPonder, SequenceTheorems, FiniteSetTheorems, TLAPS

-----------------------------------------------------------------------------
(* The workers.                                                            *)

Entitled(w) == <<w, task[w].root>> \in promoted

GateEarned == \A w \in Workers : gate[w] = "HIT" => Entitled(w)

PublishingEarned ==
    \A w \in Workers : phase[w] = "publishing" /\ IsPonder(w) => Entitled(w)

HasBestMove(s) == \E i \in DOMAIN s : s[i] = "bestMove"

BestMoveEarned ==
    \A w \in Workers : IsPonder(w) /\ HasBestMove(sent[w]) => Entitled(w)

(* What a worker can have sent before its search has come to an end. *)
Unfinished == {<<>>, <<"ponderStarted">>}

StreamsFit ==
    \A w \in Workers :
        /\ phase[w] \in {"spawned", "registered"} => sent[w] = <<>>
        /\ phase[w] \notin {"idle", "clearing", "done"} => sent[w] \in Unfinished

Inv ==
    /\ SearchTypeOK
    /\ StreamsFit
    /\ GateEarned
    /\ PublishingEarned
    /\ BestMoveEarned
    /\ RegistrationIsLive

-----------------------------------------------------------------------------
(* The few streams that occur.                                             *)

(* Adding one event to a stream of one. *)
LEMMA AppendToOne ==
    ASSUME NEW S, NEW x \in S, NEW y \in S
    PROVE  Append(<<x>>, y) = <<x, y>>
<1> DEFINE s == Append(<<x>>, y)
           t == <<x, y>>
<1>1. s \in Seq(S) /\ Len(s) = 2 /\ s[1] = x /\ s[2] = y
  OBVIOUS
<1>2. t \in Seq(S) /\ Len(t) = 2 /\ t[1] = x /\ t[2] = y
  OBVIOUS
<1> HIDE DEF s, t
<1>3. \A i \in 1..2 : s[i] = t[i]
  BY <1>1, <1>2
<1>4. s = t
  BY <1>1, <1>2, <1>3, SeqEqual
<1>5. QED
  BY <1>4 DEF s, t

(* Adding two events to a stream of one. *)
LEMMA ConcatToOne ==
    ASSUME NEW S, NEW x \in S, NEW y \in S, NEW z \in S
    PROVE  <<x>> \o <<y, z>> = <<x, y, z>>
<1> DEFINE s == <<x>> \o <<y, z>>
           t == <<x, y, z>>
<1>1. s \in Seq(S) /\ Len(s) = 3 /\ s[1] = x /\ s[2] = y /\ s[3] = z
  OBVIOUS
<1>2. t \in Seq(S) /\ Len(t) = 3 /\ t[1] = x /\ t[2] = y /\ t[3] = z
  OBVIOUS
<1> HIDE DEF s, t
<1>3. \A i \in 1..3 : s[i] = t[i]
  BY <1>1, <1>2
<1>4. s = t
  BY <1>1, <1>2, <1>3, SeqEqual
<1>5. QED
  BY <1>4 DEF s, t

(* Each event a worker adds leaves a stream of the allowed shapes. *)
LEMMA StreamShapes ==
    /\ Append(<<>>, "ponderStarted") \in Unfinished
    /\ \A s \in Unfinished : Append(s, "stopped") \in Streams
    /\ \A s \in Unfinished : s \o <<"bestMove", "stopped">> \in Streams
    /\ Unfinished \subseteq Streams
<1> DEFINE E == {"ponderStarted", "bestMove", "stopped"}
<1>1. Append(<<"ponderStarted">>, "stopped") = <<"ponderStarted", "stopped">>
  BY AppendToOne, "ponderStarted" \in E, "stopped" \in E
<1>2. <<"ponderStarted">> \o <<"bestMove", "stopped">>
        = <<"ponderStarted", "bestMove", "stopped">>
  BY ConcatToOne, "ponderStarted" \in E, "bestMove" \in E, "stopped" \in E
<1>3. /\ Append(<<>>, "ponderStarted") = <<"ponderStarted">>
      /\ Append(<<>>, "stopped") = <<"stopped">>
      /\ <<>> \o <<"bestMove", "stopped">> = <<"bestMove", "stopped">>
  OBVIOUS
<1>4. QED
  BY <1>1, <1>2, <1>3 DEF Unfinished, Streams

(* A stream that has not been published holds no best move. *)
LEMMA NoBestMoveYet ==
    \A s \in Unfinished : ~HasBestMove(s) /\ ~HasBestMove(Append(s, "stopped"))
<1> DEFINE E == {"ponderStarted", "bestMove", "stopped"}
<1>1. Append(<<"ponderStarted">>, "stopped") = <<"ponderStarted", "stopped">>
  BY AppendToOne, "ponderStarted" \in E, "stopped" \in E
<1>2. Append(<<>>, "stopped") = <<"stopped">>
  OBVIOUS
<1>3. /\ ~HasBestMove(<<>>)
      /\ ~HasBestMove(<<"ponderStarted">>)
      /\ ~HasBestMove(<<"stopped">>)
  BY DEF HasBestMove
<1>4. ~HasBestMove(<<"ponderStarted", "stopped">>)
  BY DEF HasBestMove
<1>5. QED
  BY <1>1, <1>2, <1>3, <1>4 DEF Unfinished

-----------------------------------------------------------------------------
(* The worker's own steps.                                                 *)

(* A search that has not registered is not the registered one: starting a   *)
(* thread anew, or refusing its root, leaves ACTIVE_SEARCH alone.           *)
LEMMA StartKeepsInv ==
    ASSUME Inv, NEW w \in Workers,
           (\E t \in Tasks : Start(w, t)) \/ Refuse(w)
    PROVE  Inv'
<1>1. ASSUME NEW t \in Tasks, Start(w, t) PROVE Inv'
  <2>1. SearchTypeOK' /\ StreamsFit'
    BY <1>1, StreamShapes
       DEF Inv, SearchTypeOK, StreamsFit, Start, Goto, Phases, Unfinished
  <2>2. GateEarned' /\ PublishingEarned'
    BY <1>1 DEF Inv, SearchTypeOK, GateEarned, PublishingEarned, Entitled,
                IsPonder, Start, Goto
  <2>3. BestMoveEarned'
    BY <1>1, NoBestMoveYet DEF Inv, SearchTypeOK, BestMoveEarned, Entitled,
                IsPonder, Start, Unfinished
  <2>4. RegistrationIsLive'
    BY <1>1, WorkerAssumption
       DEF Inv, SearchTypeOK, RegistrationIsLive, Running, Start, Goto
  <2>5. QED
    BY <2>1, <2>2, <2>3, <2>4 DEF Inv
<1>2. ASSUME Refuse(w) PROVE Inv'
  <2>1. SearchTypeOK' /\ StreamsFit'
    BY <1>2, StreamShapes
       DEF Inv, SearchTypeOK, StreamsFit, Refuse, Emit, Goto, Phases
  <2>2. GateEarned' /\ PublishingEarned'
    BY <1>2 DEF Inv, SearchTypeOK, GateEarned, PublishingEarned, Entitled,
                IsPonder, Refuse, Goto
  <2>3. BestMoveEarned'
    BY <1>2, NoBestMoveYet DEF Inv, SearchTypeOK, StreamsFit, BestMoveEarned,
                Entitled, IsPonder, Refuse, Emit
  <2>4. RegistrationIsLive'
    BY <1>2, WorkerAssumption
       DEF Inv, SearchTypeOK, RegistrationIsLive, Running, Refuse, Goto
  <2>5. QED
    BY <2>1, <2>2, <2>3, <2>4 DEF Inv
<1>3. QED
  BY <1>1, <1>2

(* Taking the registration, and announcing it or finding nobody listening.  *)
LEMMA RegisterKeepsInv ==
    ASSUME Inv, NEW w \in Workers,
           Register(w) \/ Announce(w) \/ LoseReader(w)
    PROVE  Inv'
<1>1. ASSUME Register(w) PROVE Inv'
  <2>1. SearchTypeOK' /\ StreamsFit'
    BY <1>1, StreamShapes
       DEF Inv, SearchTypeOK, StreamsFit, Phases, Register, Goto
  <2>2. GateEarned' /\ PublishingEarned'
    BY <1>1
       DEF Inv, SearchTypeOK, GateEarned, PublishingEarned, Entitled,
           IsPonder, Register, Goto
  <2>3. BestMoveEarned'
    BY <1>1, NoBestMoveYet
       DEF Inv, SearchTypeOK, StreamsFit, GateEarned, PublishingEarned,
           BestMoveEarned,
           Entitled, IsPonder, Register, Goto
  <2>4. RegistrationIsLive'
    BY <1>1, WorkerAssumption
       DEF Inv, SearchTypeOK, RegistrationIsLive, Running, Phases, Register,
           Goto
  <2>5. QED
    BY <2>1, <2>2, <2>3, <2>4 DEF Inv
<1>2. ASSUME Announce(w) PROVE Inv'
  <2>1. SearchTypeOK' /\ StreamsFit'
    BY <1>2, StreamShapes
       DEF Inv, SearchTypeOK, StreamsFit, Phases, Announce, Emit, Goto
  <2>2. GateEarned' /\ PublishingEarned'
    BY <1>2
       DEF Inv, SearchTypeOK, GateEarned, PublishingEarned, Entitled,
           IsPonder, Announce, Emit, Goto
  <2>3. BestMoveEarned'
    BY <1>2, StreamShapes, NoBestMoveYet
       DEF Inv, SearchTypeOK, StreamsFit, GateEarned, PublishingEarned,
           BestMoveEarned,
           Entitled, IsPonder, Announce, Emit, Goto
  <2>4. RegistrationIsLive'
    BY <1>2, WorkerAssumption
       DEF Inv, SearchTypeOK, RegistrationIsLive, Running, Phases, Announce,
           Emit, Goto
  <2>5. QED
    BY <2>1, <2>2, <2>3, <2>4 DEF Inv
<1>3. ASSUME LoseReader(w) PROVE Inv'
  <2>1. SearchTypeOK' /\ StreamsFit'
    <3>1. CASE active = NoWorker
      BY <1>3, <3>1, StreamShapes
         DEF Inv, SearchTypeOK, StreamsFit, Phases, LoseReader, Goto
    <3>2. CASE active # NoWorker
      <4>1. active \in Workers
        BY <3>2 DEF Inv, SearchTypeOK
      <4>2. /\ abort' = [abort EXCEPT ![active] = TRUE]
            /\ gate' = [gate EXCEPT ![active] = "STOPPED"] \/ gate' = gate
            /\ phase' = [Notified(active) EXCEPT ![w] = "clearing"]
            /\ UNCHANGED <<task, active, timers, sent, closed, promoted>>
        BY <1>3, <3>2 DEF LoseReader, abort_active
      <4>3. SearchTypeOK'
        BY <4>1, <4>2 DEF Inv, SearchTypeOK, Notified, Phases
      <4>4. StreamsFit'
        BY <4>1, <4>2 DEF Inv, SearchTypeOK, StreamsFit, Notified, Phases
      <4>5. QED
        BY <4>3, <4>4
    <3>3. QED
      BY <3>1, <3>2
  <2>2. GateEarned' /\ PublishingEarned'
    BY <1>3
       DEF Inv, SearchTypeOK, GateEarned, PublishingEarned, Entitled,
           IsPonder, LoseReader, abort_active, Notified, Goto
  <2>3. BestMoveEarned'
    BY <1>3, NoBestMoveYet
       DEF Inv, SearchTypeOK, StreamsFit, GateEarned, PublishingEarned,
           BestMoveEarned,
           Entitled, IsPonder, LoseReader, abort_active, Notified, Goto
  <2>4. RegistrationIsLive'
    BY <1>3, WorkerAssumption
       DEF Inv, SearchTypeOK, RegistrationIsLive, Running, Phases, LoseReader,
           abort_active, Notified, Goto
  <2>5. QED
    BY <2>1, <2>2, <2>3, <2>4 DEF Inv
<1>4. QED
  BY <1>1, <1>2, <1>3

(* The search ends and the worker goes up to its gate and back: only a       *)
(* normal worker comes to publishing here.                                  *)
LEMMA WaitKeepsInv ==
    ASSUME Inv, NEW w \in Workers,
           EndSearch(w) \/ CheckGate(w) \/ Wait(w) \/ WakeSpuriously(w)
    PROVE  Inv'
<1>1. ASSUME EndSearch(w) PROVE Inv'
  <2>1. SearchTypeOK' /\ StreamsFit'
    BY <1>1, StreamShapes
       DEF Inv, SearchTypeOK, StreamsFit, Phases, EndSearch, Goto
  <2>2. GateEarned' /\ PublishingEarned'
    BY <1>1
       DEF Inv, SearchTypeOK, GateEarned, PublishingEarned, Entitled,
           IsPonder, EndSearch, Goto
  <2>3. BestMoveEarned'
    BY <1>1, NoBestMoveYet
       DEF Inv, SearchTypeOK, StreamsFit, GateEarned, PublishingEarned,
           BestMoveEarned,
           Entitled, IsPonder, EndSearch, Goto
  <2>4. RegistrationIsLive'
    BY <1>1, WorkerAssumption
       DEF Inv, SearchTypeOK, RegistrationIsLive, Running, Phases, EndSearch,
           Goto
  <2>5. QED
    BY <2>1, <2>2, <2>3, <2>4 DEF Inv
<1>2. ASSUME CheckGate(w) PROVE Inv'
  <2>1. SearchTypeOK' /\ StreamsFit'
    BY <1>2, StreamShapes
       DEF Inv, SearchTypeOK, StreamsFit, Phases, CheckGate, Goto
  <2>2. GateEarned' /\ PublishingEarned'
    BY <1>2
       DEF Inv, SearchTypeOK, GateEarned, PublishingEarned, Entitled,
           IsPonder, CheckGate, Goto
  <2>3. BestMoveEarned'
    BY <1>2, NoBestMoveYet
       DEF Inv, SearchTypeOK, StreamsFit, GateEarned, PublishingEarned,
           BestMoveEarned,
           Entitled, IsPonder, CheckGate, Goto
  <2>4. RegistrationIsLive'
    BY <1>2, WorkerAssumption
       DEF Inv, SearchTypeOK, RegistrationIsLive, Running, Phases, CheckGate,
           Goto
  <2>5. QED
    BY <2>1, <2>2, <2>3, <2>4 DEF Inv
<1>3. ASSUME Wait(w) PROVE Inv'
  <2>1. SearchTypeOK' /\ StreamsFit'
    BY <1>3, StreamShapes
       DEF Inv, SearchTypeOK, StreamsFit, Phases, Wait, Goto
  <2>2. GateEarned' /\ PublishingEarned'
    BY <1>3
       DEF Inv, SearchTypeOK, GateEarned, PublishingEarned, Entitled,
           IsPonder, Wait, Goto
  <2>3. BestMoveEarned'
    BY <1>3, NoBestMoveYet
       DEF Inv, SearchTypeOK, StreamsFit, GateEarned, PublishingEarned,
           BestMoveEarned,
           Entitled, IsPonder, Wait, Goto
  <2>4. RegistrationIsLive'
    BY <1>3, WorkerAssumption
       DEF Inv, SearchTypeOK, RegistrationIsLive, Running, Phases, Wait, Goto
  <2>5. QED
    BY <2>1, <2>2, <2>3, <2>4 DEF Inv
<1>4. ASSUME WakeSpuriously(w) PROVE Inv'
  <2>1. SearchTypeOK' /\ StreamsFit'
    BY <1>4, StreamShapes
       DEF Inv, SearchTypeOK, StreamsFit, Phases, WakeSpuriously, Goto
  <2>2. GateEarned' /\ PublishingEarned'
    BY <1>4
       DEF Inv, SearchTypeOK, GateEarned, PublishingEarned, Entitled,
           IsPonder, WakeSpuriously, Goto
  <2>3. BestMoveEarned'
    BY <1>4, NoBestMoveYet
       DEF Inv, SearchTypeOK, StreamsFit, GateEarned, PublishingEarned,
           BestMoveEarned,
           Entitled, IsPonder, WakeSpuriously, Goto
  <2>4. RegistrationIsLive'
    BY <1>4, WorkerAssumption
       DEF Inv, SearchTypeOK, RegistrationIsLive, Running, Phases,
           WakeSpuriously, Goto
  <2>5. QED
    BY <2>1, <2>2, <2>3, <2>4 DEF Inv
<1>5. QED
  BY <1>1, <1>2, <1>3, <1>4

(* Through the gate to the end: a HIT gate was earned, and whoever publishes *)
(* came through one.                                                        *)
LEMMA ReleaseKeepsInv ==
    ASSUME Inv, NEW w \in Workers,
           Release(w) \/ Publish(w) \/ ClearActive(w)
    PROVE  Inv'
<1>1. ASSUME Release(w) PROVE Inv'
  <2>1. sent[w] \in Unfinished
    BY <1>1 DEF Inv, StreamsFit, Release
  <2>2. sent' = sent \/ sent' = [sent EXCEPT ![w] = Append(sent[w], "stopped")]
    BY <1>1 DEF Release, Emit
  <2>3. \/ phase' = [phase EXCEPT ![w] = "clearing"]
        \/ /\ gate[w] = "HIT" /\ sent' = sent
           /\ phase' = [phase EXCEPT ![w] = "publishing"]
    BY <1>1 DEF Release, gate_opens, Goto
  <2>4. /\ phase[w] = "released"
        /\ UNCHANGED <<task, abort, gate, active, timers, closed, promoted>>
    BY <1>1 DEF Release
  <2>5. Append(sent[w], "stopped") \in Streams
    BY <2>1, StreamShapes
  <2>6. SearchTypeOK'
    BY <2>2, <2>3, <2>4, <2>5 DEF Inv, SearchTypeOK, Phases
  <2>7. StreamsFit'
    BY <2>1, <2>2, <2>3, <2>4 DEF Inv, SearchTypeOK, StreamsFit
  <2>8. GateEarned' /\ PublishingEarned'
    BY <2>3, <2>4 DEF Inv, SearchTypeOK, GateEarned, PublishingEarned,
                      Entitled, IsPonder
  <2>9. BestMoveEarned'
    <3>1. ~HasBestMove(sent'[w])
      BY <2>1, <2>2, NoBestMoveYet DEF Inv, SearchTypeOK
    <3>2. \A v \in Workers : v # w => sent'[v] = sent[v]
      BY <2>2 DEF Inv, SearchTypeOK
    <3>3. QED
      BY <2>4, <3>1, <3>2 DEF Inv, BestMoveEarned, Entitled, IsPonder
  <2>10. RegistrationIsLive'
    BY <2>3, <2>4, WorkerAssumption
       DEF Inv, SearchTypeOK, RegistrationIsLive, Running, Phases
  <2>11. QED
    BY <2>6, <2>7, <2>8, <2>9, <2>10 DEF Inv
<1>2. ASSUME Publish(w) PROVE Inv'
  <2>1. SearchTypeOK' /\ StreamsFit'
    BY <1>2, StreamShapes
       DEF Inv, SearchTypeOK, StreamsFit, Phases, Publish, Goto
  <2>2. GateEarned' /\ PublishingEarned'
    BY <1>2
       DEF Inv, SearchTypeOK, GateEarned, PublishingEarned, Entitled,
           IsPonder, Publish, Goto
  <2>3. BestMoveEarned'
    BY <1>2, NoBestMoveYet
       DEF Inv, SearchTypeOK, StreamsFit, GateEarned, PublishingEarned,
           BestMoveEarned,
           Entitled, IsPonder, Publish, Goto
  <2>4. RegistrationIsLive'
    BY <1>2, WorkerAssumption
       DEF Inv, SearchTypeOK, RegistrationIsLive, Running, Phases, Publish, Goto
  <2>5. QED
    BY <2>1, <2>2, <2>3, <2>4 DEF Inv
<1>3. ASSUME ClearActive(w) PROVE Inv'
  <2>1. SearchTypeOK' /\ StreamsFit'
    BY <1>3, StreamShapes
       DEF Inv, SearchTypeOK, StreamsFit, Phases, ClearActive,
           owns_registration, Goto
  <2>2. GateEarned' /\ PublishingEarned'
    BY <1>3
       DEF Inv, SearchTypeOK, GateEarned, PublishingEarned, Entitled,
           IsPonder, ClearActive, owns_registration, Goto
  <2>3. BestMoveEarned'
    BY <1>3, NoBestMoveYet
       DEF Inv, SearchTypeOK, StreamsFit, GateEarned, PublishingEarned,
           BestMoveEarned,
           Entitled, IsPonder, ClearActive, owns_registration, Goto
  <2>4. RegistrationIsLive'
    BY <1>3, WorkerAssumption
       DEF Inv, SearchTypeOK, RegistrationIsLive, Running, Phases,
           ClearActive, owns_registration, Goto
  <2>5. QED
    BY <2>1, <2>2, <2>3, <2>4 DEF Inv
<1>4. QED
  BY <1>1, <1>2, <1>3

-----------------------------------------------------------------------------
(* What comes from outside the worker.                                     *)

(* A stop, whoever it reaches, only closes a gate.                          *)
LEMMA StopKeepsInv ==
    ASSUME Inv, NEW w \in Workers,
           StopSearch \/ StopPonder(w) \/ HitTimer(w) \/ CloseStream(w)
    PROVE  Inv'
<1>1. ASSUME StopSearch PROVE Inv'
  <2>1. SearchTypeOK' /\ StreamsFit'
    BY <1>1, StreamShapes
       DEF Inv, SearchTypeOK, StreamsFit, Phases, StopSearch, abort_active,
           Notified
  <2>2. GateEarned' /\ PublishingEarned'
    BY <1>1
       DEF Inv, SearchTypeOK, GateEarned, PublishingEarned, Entitled,
           IsPonder, StopSearch, abort_active, Notified
  <2>3. BestMoveEarned'
    BY <1>1, NoBestMoveYet
       DEF Inv, SearchTypeOK, StreamsFit, GateEarned, PublishingEarned,
           BestMoveEarned,
           Entitled, IsPonder, StopSearch, abort_active, Notified
  <2>4. RegistrationIsLive'
    BY <1>1, WorkerAssumption
       DEF Inv, SearchTypeOK, RegistrationIsLive, Running, Phases, StopSearch,
           abort_active, Notified
  <2>5. QED
    BY <2>1, <2>2, <2>3, <2>4 DEF Inv
<1>2. ASSUME StopPonder(w) PROVE Inv'
  <2>1. SearchTypeOK' /\ StreamsFit'
    BY <1>2, StreamShapes
       DEF Inv, SearchTypeOK, StreamsFit, Phases, StopPonder, stop_ponder,
           Notified
  <2>2. GateEarned' /\ PublishingEarned'
    BY <1>2
       DEF Inv, SearchTypeOK, GateEarned, PublishingEarned, Entitled,
           IsPonder, StopPonder, stop_ponder, Notified
  <2>3. BestMoveEarned'
    BY <1>2, NoBestMoveYet
       DEF Inv, SearchTypeOK, StreamsFit, GateEarned, PublishingEarned,
           BestMoveEarned,
           Entitled, IsPonder, StopPonder, stop_ponder, Notified
  <2>4. RegistrationIsLive'
    BY <1>2, WorkerAssumption
       DEF Inv, SearchTypeOK, RegistrationIsLive, Running, Phases, StopPonder,
           stop_ponder, Notified
  <2>5. QED
    BY <2>1, <2>2, <2>3, <2>4 DEF Inv
<1>3. ASSUME HitTimer(w) PROVE Inv'
  <2>1. SearchTypeOK' /\ StreamsFit'
    BY <1>3, StreamShapes
       DEF Inv, SearchTypeOK, StreamsFit, Phases, HitTimer
  <2>2. GateEarned' /\ PublishingEarned'
    BY <1>3
       DEF Inv, SearchTypeOK, GateEarned, PublishingEarned, Entitled,
           IsPonder, HitTimer
  <2>3. BestMoveEarned'
    BY <1>3, NoBestMoveYet
       DEF Inv, SearchTypeOK, StreamsFit, GateEarned, PublishingEarned,
           BestMoveEarned,
           Entitled, IsPonder, HitTimer
  <2>4. RegistrationIsLive'
    BY <1>3, WorkerAssumption
       DEF Inv, SearchTypeOK, RegistrationIsLive, Running, Phases, HitTimer
  <2>5. QED
    BY <2>1, <2>2, <2>3, <2>4 DEF Inv
<1>4. ASSUME CloseStream(w) PROVE Inv'
  <2>1. SearchTypeOK' /\ StreamsFit'
    BY <1>4, StreamShapes
       DEF Inv, SearchTypeOK, StreamsFit, Phases, CloseStream
  <2>2. GateEarned' /\ PublishingEarned'
    BY <1>4
       DEF Inv, SearchTypeOK, GateEarned, PublishingEarned, Entitled,
           IsPonder, CloseStream
  <2>3. BestMoveEarned'
    BY <1>4, NoBestMoveYet
       DEF Inv, SearchTypeOK, StreamsFit, GateEarned, PublishingEarned,
           BestMoveEarned,
           Entitled, IsPonder, CloseStream
  <2>4. RegistrationIsLive'
    BY <1>4, WorkerAssumption
       DEF Inv, SearchTypeOK, RegistrationIsLive, Running, Phases, CloseStream
  <2>5. QED
    BY <2>1, <2>2, <2>3, <2>4 DEF Inv
<1>5. QED
  BY <1>1, <1>2, <1>3, <1>4

(* A hit opens the gate of the worker whose root it names, and records it.  *)
LEMMA HitKeepsInv ==
    ASSUME Inv, NEW w \in Workers, NEW p \in Positions,
           HitMismatch(w, p) \/ HitPonder(w, p)
    PROVE  Inv'
<1>1. ASSUME HitMismatch(w, p) PROVE Inv'
  <2>1. SearchTypeOK' /\ StreamsFit'
    BY <1>1, StreamShapes
       DEF Inv, SearchTypeOK, StreamsFit, Phases, HitMismatch, stop_ponder,
           Notified
  <2>2. GateEarned' /\ PublishingEarned'
    BY <1>1
       DEF Inv, SearchTypeOK, GateEarned, PublishingEarned, Entitled,
           IsPonder, HitMismatch, stop_ponder, Notified
  <2>3. BestMoveEarned'
    BY <1>1, NoBestMoveYet
       DEF Inv, SearchTypeOK, StreamsFit, GateEarned, PublishingEarned,
           BestMoveEarned,
           Entitled, IsPonder, HitMismatch, stop_ponder, Notified
  <2>4. RegistrationIsLive'
    BY <1>1, WorkerAssumption
       DEF Inv, SearchTypeOK, RegistrationIsLive, Running, Phases,
           HitMismatch, stop_ponder, Notified
  <2>5. QED
    BY <2>1, <2>2, <2>3, <2>4 DEF Inv
<1>2. ASSUME HitPonder(w, p) PROVE Inv'
  <2>1. SearchTypeOK' /\ StreamsFit'
    BY <1>2, StreamShapes
       DEF Inv, SearchTypeOK, StreamsFit, Phases, HitPonder, hit_granted,
           root_matches, Notified
  <2>2. GateEarned' /\ PublishingEarned'
    BY <1>2
       DEF Inv, SearchTypeOK, GateEarned, PublishingEarned, Entitled,
           IsPonder, HitPonder, hit_granted, root_matches, Notified
  <2>3. BestMoveEarned'
    BY <1>2, NoBestMoveYet
       DEF Inv, SearchTypeOK, StreamsFit, GateEarned, PublishingEarned,
           BestMoveEarned,
           Entitled, IsPonder, HitPonder, hit_granted, root_matches, Notified
  <2>4. RegistrationIsLive'
    BY <1>2, WorkerAssumption
       DEF Inv, SearchTypeOK, RegistrationIsLive, Running, Phases, HitPonder,
           hit_granted, root_matches, Notified
  <2>5. QED
    BY <2>1, <2>2, <2>3, <2>4 DEF Inv
<1>3. QED
  BY <1>1, <1>2

-----------------------------------------------------------------------------
(* Invariant, and the properties the runs check.                           *)

LEMMA InitInv == SearchInit => Inv
<1> SUFFICES ASSUME SearchInit PROVE Inv
  OBVIOUS
<1>1. (CHOOSE t \in Tasks : TRUE) \in Tasks
  <2>1. PICK p \in Positions : TRUE
    BY WorkerAssumption
  <2>2. [ponder |-> FALSE, root |-> p, effort |-> "shallow"] \in Tasks
    BY DEF Tasks, Efforts
  <2>3. QED
    BY <2>2
<1>2. SearchTypeOK /\ StreamsFit
  BY <1>1 DEF SearchInit, SearchTypeOK, StreamsFit, Phases, Streams, Unfinished
<1>3. GateEarned /\ PublishingEarned /\ RegistrationIsLive
  BY DEF SearchInit, GateEarned, PublishingEarned, RegistrationIsLive
<1>4. BestMoveEarned
  BY NoBestMoveYet DEF SearchInit, BestMoveEarned, Unfinished
<1>5. QED
  BY <1>2, <1>3, <1>4 DEF Inv

LEMMA NextInv == Inv /\ [SearchNext]_searchVars => Inv'
<1> SUFFICES ASSUME Inv, [SearchNext]_searchVars PROVE Inv'
  OBVIOUS
<1>1. CASE StopSearch
  <2>1. active \in Workers
    BY <1>1 DEF Inv, SearchTypeOK, StopSearch, abort_active
  <2>2. QED
    BY <1>1, <2>1, StopKeepsInv
<1>2. ASSUME NEW w \in Workers,
             \/ StopPonder(w) \/ CloseStream(w)
             \/ \E t \in Tasks : Start(w, t)
             \/ \E p \in Positions : HitMismatch(w, p) \/ HitPonder(w, p)
      PROVE  Inv'
  BY <1>2, StopKeepsInv, StartKeepsInv, HitKeepsInv
<1>3. ASSUME NEW w \in Workers,
             WorkerStep(w) \/ Refuse(w) \/ WakeSpuriously(w) \/ HitTimer(w)
      PROVE  Inv'
  BY <1>3, StartKeepsInv, RegisterKeepsInv, WaitKeepsInv, ReleaseKeepsInv,
     StopKeepsInv DEF WorkerStep
<1>4. CASE UNCHANGED searchVars
  BY <1>4 DEF Inv, SearchTypeOK, StreamsFit, GateEarned, PublishingEarned,
              BestMoveEarned, RegistrationIsLive, Entitled, IsPonder,
              HasBestMove, searchVars
<1>5. QED
  BY <1>1, <1>2, <1>3, <1>4 DEF SearchNext, Call

(* Every worker's state stays well formed, its stream one of the six.       *)
THEOREM WorkersWellFormed == SearchSpec => []SearchTypeOK
<1>1. Inv => SearchTypeOK
  BY DEF Inv
<1>2. QED
  BY InitInv, NextInv, <1>1, PTL DEF SearchSpec

(* With any number of workers, whatever Dart calls and in any order of the  *)
(* threads' steps, a ponder worker's best move is published only after a    *)
(* hit granted for the position it searched.                                *)
THEOREM BestMoveWasAskedFor == SearchSpec => []BestMoveNeedsHit
<1>1. Inv => BestMoveNeedsHit
  BY DEF Inv, BestMoveEarned, BestMoveNeedsHit, HasBestMove, Entitled
<1>2. QED
  BY InitInv, NextInv, <1>1, PTL DEF SearchSpec

(* ACTIVE_SEARCH never names a worker that has ended, so what a stop aborts *)
(* is a search that runs.                                                   *)
THEOREM RegistrationStaysLive == SearchSpec => []RegistrationIsLive
<1>1. Inv => RegistrationIsLive
  BY DEF Inv
<1>2. QED
  BY InitInv, NextInv, <1>1, PTL DEF SearchSpec

(* What one step may do to a worker whose search it does not start.         *)
GateStep(w) ==
    phase'[w] # "spawned" =>
        /\ gate[w] = "STOPPED" => gate'[w] = "STOPPED"
        /\ gate'[w] = "HIT" /\ gate[w] # "HIT" => gate[w] = "THINKING"
        /\ abort[w] => abort'[w]

LEMMA NextForward ==
    Inv /\ [SearchNext]_searchVars => \A w \in Workers : GateStep(w)
<1> SUFFICES ASSUME Inv, [SearchNext]_searchVars, NEW w \in Workers
             PROVE  GateStep(w)
  OBVIOUS
<1> USE DEF Inv, SearchTypeOK, GateStep
<1>1. CASE StopSearch
  BY <1>1 DEF StopSearch, abort_active
<1>2. ASSUME NEW v \in Workers, StopPonder(v) \/ CloseStream(v)
      PROVE  GateStep(w)
  BY <1>2 DEF StopPonder, stop_ponder, CloseStream
<1>3. ASSUME NEW v \in Workers, NEW t \in Tasks, Start(v, t)
      PROVE  GateStep(w)
  BY <1>3 DEF Start, Goto
<1>4. ASSUME NEW v \in Workers, NEW p \in Positions,
             HitMismatch(v, p) \/ HitPonder(v, p)
      PROVE  GateStep(w)
  BY <1>4 DEF HitMismatch, stop_ponder, HitPonder, hit_granted
<1>5. ASSUME NEW v \in Workers, WorkerStep(v)
      PROVE  GateStep(w)
  <2>1. CASE LoseReader(v)
    BY <2>1 DEF LoseReader, abort_active
  <2>2. CASE ~LoseReader(v)
    BY <1>5, <2>2 DEF WorkerStep, Register, Announce, EndSearch, CheckGate,
                      Wait, Release, Publish, ClearActive
  <2>3. QED
    BY <2>1, <2>2
<1>6. ASSUME NEW v \in Workers, Refuse(v) \/ WakeSpuriously(v) \/ HitTimer(v)
      PROVE  GateStep(w)
  BY <1>6 DEF Refuse, WakeSpuriously, HitTimer
<1>7. CASE UNCHANGED searchVars
  BY <1>7 DEF searchVars
<1>8. QED
  BY <1>1, <1>2, <1>3, <1>4, <1>5, <1>6, <1>7 DEF SearchNext, Call

(* A stop is final and a hit is granted once, for any number of workers.    *)
THEOREM GatesMoveForward == SearchSpec => GateMovesForward
<1>1. Inv /\ [SearchNext]_searchVars
        => [\A w \in Workers : GateStep(w)]_searchVars
  BY NextForward
<1>2. SearchSpec => [][\A w \in Workers : GateStep(w)]_searchVars
  BY InitInv, NextInv, <1>1, PTL DEF SearchSpec
<1>3. QED
  BY <1>2 DEF GateMovesForward, GateStep

-----------------------------------------------------------------------------
(* The session.                                                            *)

Turns == {"human", "undo", "take", "hit", "drain", "search", "apply"}
Stages == {"none", "predict", "call", "stream", "ended"}

Ponders ==
    [stage : Stages, worker : Workers \cup {NoWorker}, line : PartialTurns,
     expected : PartialTurns, matched : Nat, read : Nat,
     hit : BOOLEAN, cancelled : BOOLEAN, best : BOOLEAN]

(* A worker whose stream is not over yet, one that has not even registered *)
(* included.                                                               *)
Alive(w) == phase[w] \notin {"idle", "done"}

(* A hit whose result the AI's turn takes. *)
Hit == asked.hit /\ ~asked.cancelled

SessionShape ==
    /\ pos \in GamePositions
    /\ turn \in Turns
    /\ asked \in Ponders
    /\ searcher \in Workers \cup {NoWorker}
    /\ hurried \in BOOLEAN

(* The AI's turn is only taken in a game that goes on, and it searches once *)
(* no ponder is left.                                                       *)
TurnFits ==
    /\ turn \notin {"human", "undo"} => complete(pos) /\ ~terminal(pos)
    /\ turn \in {"search", "apply"} => asked.stage = "none"
    /\ turn = "search" => searcher \in Workers

(* What the stage of a ponder says of its worker and of the line the       *)
(* opponent is expected to play.                                           *)
PonderFits ==
    /\ asked.stage \in {"predict", "stream"} => asked.worker \in Workers
    /\ asked.expected \in {NoLine, asked.line}
    /\ asked.expected # NoLine => asked.stage \in {"stream", "ended"}
    /\ asked.matched <= Len(asked.expected)
    /\ asked.stage = "ended" => Hit

(* A hit is held from the human's last action until the AI's turn takes it,*)
(* so the position it was granted for is still the one on the board.       *)
HitHeld ==
    /\ turn = "hit" => Hit
    /\ Hit =>
         /\ asked.stage \in {"stream", "ended"}
         /\ turn \in {"take", "hit"}
         /\ asked.worker \in Workers
         /\ <<asked.worker, pos>> \in promoted
         /\ gate[asked.worker] # "THINKING"

OnlyTheAwaitedRuns ==
    \A w \in Workers : Alive(w) =>
        \/ asked.stage \in {"predict", "stream"} /\ w = asked.worker
        \/ turn = "search" /\ w = searcher

SessionInv ==
    /\ SessionShape
    /\ TurnFits
    /\ PonderFits
    /\ HitHeld
    /\ OnlyTheAwaitedRuns

-----------------------------------------------------------------------------
(* Positions and lines.                                                    *)

(* A part of a human turn is a sequence, and so is any part of it.         *)
LEMMA PartialTurnFacts ==
    /\ PartialTurns \subseteq Seq(TurnActions)
    /\ NoLine \in PartialTurns
    /\ HumanTurns \subseteq PartialTurns
    /\ \A s \in PartialTurns : \A n \in 0..Len(s) : SubSeq(s, 1, n) \in PartialTurns
<1>1. \A t \in HumanTurns : t \in Seq(TurnActions)
  BY TurnAssumption
<1>2. \A t \in HumanTurns : \A n \in 0..Len(t) :
        /\ SubSeq(t, 1, n) \in Seq(TurnActions)
        /\ Len(SubSeq(t, 1, n)) = n
        /\ \A m \in 0..n : SubSeq(SubSeq(t, 1, n), 1, m) = SubSeq(t, 1, m)
  <2> TAKE t \in HumanTurns
  <2> TAKE n \in 0..Len(t)
  <2>1. t \in Seq(TurnActions)
    BY <1>1
  <2>2. SubSeq(t, 1, n) \in Seq(TurnActions) /\ Len(SubSeq(t, 1, n)) = n
    BY <2>1
  <2>3. ASSUME NEW m \in 0..n
        PROVE  SubSeq(SubSeq(t, 1, n), 1, m) = SubSeq(t, 1, m)
    BY <2>1, <2>2
  <2>4. QED
    BY <2>2, <2>3
<1>3. \A t \in HumanTurns : SubSeq(t, 1, Len(t)) = t /\ SubSeq(t, 1, 0) = NoLine
  BY <1>1 DEF NoLine
<1>4. PartialTurns \subseteq Seq(TurnActions)
  BY <1>2 DEF PartialTurns
<1>5. NoLine \in PartialTurns /\ HumanTurns \subseteq PartialTurns
  <2>1. \A t \in HumanTurns : 0 \in 0..Len(t) /\ Len(t) \in 0..Len(t)
    BY <1>1
  <2>2. QED
    BY <1>3, <2>1, TurnAssumption DEF PartialTurns
<1>6. ASSUME NEW s \in PartialTurns, NEW n \in 0..Len(s)
      PROVE  SubSeq(s, 1, n) \in PartialTurns
  <2>1. PICK t \in HumanTurns : \E k \in 0..Len(t) : s = SubSeq(t, 1, k)
    BY DEF PartialTurns
  <2>2. PICK k \in 0..Len(t) : s = SubSeq(t, 1, k)
    BY <2>1
  <2>3. n \in 0..k /\ SubSeq(s, 1, n) = SubSeq(t, 1, n)
    BY <1>2, <2>2
  <2>4. n \in 0..Len(t)
    BY <1>1, <2>2, <2>3
  <2>5. QED
    BY <2>3, <2>4 DEF PartialTurns
<1>7. QED
  BY <1>4, <1>5, <1>6

(* A position of a game, said with sequences.                              *)
LEMMA GamePositionFacts ==
    ASSUME NEW p
    PROVE  p \in GamePositions <=>
             /\ p \in [answered : Seq(HumanTurns), played : PartialTurns]
             /\ Len(p.answered) <= MaxTurns
<1> DEFINE Short == UNION {[1..n -> HumanTurns] : n \in 0..MaxTurns}
<1>1. Short = {s \in Seq(HumanTurns) : Len(s) <= MaxTurns}
  <2>1. \A s \in Short : s \in Seq(HumanTurns) /\ Len(s) <= MaxTurns
    <3> TAKE s \in Short
    <3>1. PICK n \in 0..MaxTurns : s \in [1..n -> HumanTurns]
      OBVIOUS
    <3>2. QED
      BY <3>1, TurnAssumption
  <2>2. \A s \in Seq(HumanTurns) : Len(s) <= MaxTurns => s \in Short
    <3> TAKE s \in Seq(HumanTurns)
    <3> HAVE Len(s) <= MaxTurns
    <3>1. s \in [1..Len(s) -> HumanTurns]
      OBVIOUS
    <3>2. Len(s) \in 0..MaxTurns
      BY TurnAssumption
    <3>3. QED
      BY <3>1, <3>2
  <2>3. QED
    BY <2>1, <2>2
<1>2. QED
  BY <1>1 DEF GamePositions

-----------------------------------------------------------------------------
(* What the calls and the threads may do to the workers.                   *)

(* Nothing starts, no hit is forgotten and no gate goes back to THINKING.  *)
QuietStep ==
    /\ SearchTypeOK'
    /\ promoted \subseteq promoted'
    /\ \A w \in Workers :
         /\ gate[w] # "THINKING" => gate'[w] # "THINKING"
         /\ Alive(w)' => Alive(w)

(* A step of the workers, or none, that keeps their invariant.             *)
SearchStep == [SearchNext]_searchVars /\ Inv'

Stops == StopSearch \/ \E w \in Workers : StopPonder(w)

(* The calls that stop are quiet, and so is making none.                   *)
LEMMA StopsAreQuiet ==
    ASSUME Inv, Stops \/ UNCHANGED searchVars
    PROVE  SearchStep /\ QuietStep
<1>1. SearchStep
  BY NextInv DEF SearchStep, SearchNext, Call, Stops
<1> USE DEF Inv, SearchTypeOK, QuietStep, Alive, Phases
<1>2. CASE StopSearch
  BY <1>1, <1>2 DEF SearchStep, StopSearch, abort_active, Notified
<1>3. ASSUME NEW w \in Workers, StopPonder(w) PROVE QuietStep
  BY <1>1, <1>3 DEF SearchStep, StopPonder, stop_ponder, Notified
<1>4. CASE UNCHANGED searchVars
  BY <1>1, <1>4 DEF SearchStep, searchVars
<1>5. QED
  BY <1>1, <1>2, <1>3, <1>4 DEF Stops

(* So are the workers' own steps.                                          *)
LEMMA ThreadsAreQuiet ==
    ASSUME Inv, NEW w \in Workers,
           WorkerStep(w) \/ HitTimer(w) \/ WakeSpuriously(w)
    PROVE  SearchStep /\ QuietStep
<1>1. SearchStep
  BY NextInv DEF SearchStep, SearchNext
<1> USE DEF Inv, SearchTypeOK, QuietStep, Alive, Phases
<1>2. CASE HitTimer(w) \/ WakeSpuriously(w)
  BY <1>1, <1>2 DEF SearchStep, HitTimer, WakeSpuriously, Goto
<1>3. CASE LoseReader(w)
  BY <1>1, <1>3 DEF SearchStep, LoseReader, abort_active, Notified, Goto
<1>4. CASE WorkerStep(w) /\ ~LoseReader(w)
  BY <1>1, <1>4 DEF SearchStep, WorkerStep, Register, Announce, EndSearch,
                    CheckGate, Wait, Release, Publish, ClearActive, Goto
<1>5. QED
  BY <1>1, <1>2, <1>3, <1>4

(* A granted hit closes no gate either, and is remembered.                 *)
LEMMA HitsAreQuiet ==
    ASSUME Inv, NEW w \in Workers, NEW p \in Positions, HitPonder(w, p)
    PROVE  /\ SearchStep /\ QuietStep
           /\ <<w, p>> \in promoted' /\ gate'[w] # "THINKING"
<1>1. SearchStep
  BY NextInv DEF SearchStep, SearchNext, Call
<1>2. QED
  BY <1>1 DEF Inv, SearchTypeOK, SearchStep, QuietStep, Alive, Phases,
              HitPonder, hit_granted, Notified

(* A start brings to life the worker it starts and no other.               *)
LEMMA StartsAreSteps ==
    ASSUME Inv, NEW w \in Workers, NEW t \in Tasks, Start(w, t)
    PROVE  /\ SearchStep
           /\ \A v \in Workers : Alive(v)' => Alive(v) \/ v = w
<1>1. SearchStep
  BY NextInv DEF SearchStep, SearchNext, Call
<1>2. QED
  BY <1>1 DEF Inv, SearchTypeOK, Alive, Start, Goto

-----------------------------------------------------------------------------
(* What the session does to the ponder it holds.                           *)

(* The same ponder, further matched, hit or cancelled.                     *)
SamePonder ==
    /\ asked' \in Ponders
    /\ asked'.stage = asked.stage /\ asked'.worker = asked.worker
    /\ asked'.line = asked.line /\ asked'.expected = asked.expected
    /\ asked'.matched <= Len(asked'.expected)

(* A cancellation stops one worker or none.                                *)
LEMMA CancelSteps ==
    ASSUME Inv, SessionInv, request_cancellation
    PROVE  /\ SearchStep /\ QuietStep
           /\ SamePonder /\ (~Hit => ~Hit')
           /\ asked'.stage # "none" => asked'.cancelled
<1>1. Stops \/ UNCHANGED searchVars
  <2>1. CASE asked.stage = "none" \/ asked.cancelled
    BY <2>1 DEF request_cancellation, searchVars
  <2>2. CASE asked.stage \in {"stream", "ended"}
    BY <2>2 DEF request_cancellation, Stops, SessionInv, PonderFits, HitHeld,
                searchVars
  <2>3. CASE ~(asked.stage = "none" \/ asked.cancelled)
             /\ asked.stage \in {"predict", "call"}
    BY <2>3 DEF request_cancellation, Stops, searchVars
  <2>4. QED
    BY <2>1, <2>2, <2>3 DEF SessionInv, SessionShape, Ponders, Stages
<1>2. /\ asked' = asked \/ asked' = [asked EXCEPT !.cancelled = TRUE]
      /\ asked'.stage # "none" => asked'.cancelled
  BY DEF request_cancellation, SessionInv, SessionShape, Ponders
<1>3. SamePonder /\ (~Hit => ~Hit')
  BY <1>2 DEF SamePonder, Hit, SessionInv, SessionShape, PonderFits, Ponders
<1>4. QED
  BY <1>1, <1>2, <1>3, StopsAreQuiet

(* An action of the human's is one more that was expected, the last one,   *)
(* which a hit rewards, or none of these, and then the ponder is cancelled.*)
LEMMA ObserveSteps ==
    ASSUME Inv, SessionInv, NEW a, NEW next \in GamePositions,
           ~Hit, observe(a, next)
    PROVE  /\ SearchStep /\ QuietStep /\ SamePonder
           /\ Hit' => /\ asked.stage = "stream"
                      /\ complete(next) /\ ~terminal(next)
                      /\ <<asked.worker, next>> \in promoted'
                      /\ gate'[asked.worker] # "THINKING"
<1> USE DEF SessionInv, SessionShape
<1>1. CASE request_cancellation
  BY <1>1, CancelSteps
<1>2. CASE UNCHANGED <<asked, searchVars>>
  BY <1>2, StopsAreQuiet DEF SamePonder, PonderFits, Hit
<1>3. ASSUME matches_prediction(a)
      PROVE  /\ asked.expected \in Seq(TurnActions)
             /\ asked.stage \in {"stream", "ended"}
             /\ asked.matched + 1 \in Nat
             /\ asked.matched + 1 <= Len(asked.expected)
  BY <1>3, PartialTurnFacts DEF matches_prediction, PonderFits, Ponders, NoLine
<1>4. CASE /\ matches_prediction(a)
           /\ asked' = [asked EXCEPT !.matched = asked.matched + 1]
           /\ UNCHANGED searchVars
  <2>1. SamePonder /\ ~Hit'
    BY <1>3, <1>4 DEF SamePonder, Ponders, Hit
  <2>2. QED
    BY <1>4, <2>1, StopsAreQuiet
<1>5. CASE /\ ~asked.cancelled /\ ~asked.hit
           /\ matches_prediction(a)
           /\ complete(next) /\ ~terminal(next)
           /\ HitPonder(asked.worker, next)
           /\ asked' = [asked EXCEPT !.matched = asked.matched + 1,
                                     !.hit = TRUE]
  <2>1. asked.stage = "stream" /\ asked.worker \in Workers
    BY <1>3, <1>5 DEF PonderFits, Hit
  <2>2. next \in Positions
    BY PositionAssumption
  <2>3. SamePonder
    BY <1>3, <1>5 DEF SamePonder, Ponders
  <2>4. QED
    BY <1>5, <2>1, <2>2, <2>3, HitsAreQuiet
<1>6. QED
  BY <1>1, <1>2, <1>4, <1>5 DEF observe

(* What a ponder leaves when its coroutine ends.                           *)
LEMMA FinishFacts ==
    ASSUME NEW p \in Ponders
    PROVE  /\ finish(p) \in Ponders
           /\ ~(p.hit /\ ~p.cancelled) => finish(p) = NoPonder
           /\ p.hit /\ ~p.cancelled => finish(p) = [p EXCEPT !.stage = "ended"]
BY PartialTurnFacts DEF finish, Ponders, Stages, NoPonder

-----------------------------------------------------------------------------
(* One lemma for each group of actions.                                    *)

(* While the session stands still, quiet steps of the workers keep it.     *)
LEMMA QuietKeepsSession ==
    ASSUME SessionInv, QuietStep, UNCHANGED sessionVars
    PROVE  SessionInv'
BY DEF SessionInv, SessionShape, TurnFits, PonderFits, HitHeld, Hit,
       OnlyTheAwaitedRuns, QuietStep, sessionVars, complete, terminal

(* The human's actions: a hit is granted for the position the action leads *)
(* to, and nothing but the AI's turn follows it.                           *)
LEMMA PlayKeepsSession ==
    ASSUME Inv, SessionInv, NEW a \in TurnActions, HumanPlays(a)
    PROVE  SearchStep /\ SessionInv'
<1> USE DEF SessionInv
<1> DEFINE next == played(pos, a)
<1>1. /\ turn = "human" /\ ~terminal(pos) /\ legal_for_human(pos, a)
      /\ pos' = next /\ observe(a, next)
      /\ turn' = IF complete(next) /\ ~terminal(next) THEN "take" ELSE "human"
      /\ UNCHANGED <<searcher, hurried>>
  BY DEF HumanPlays
<1>2. next \in GamePositions
  <2>1. /\ pos \in [answered : Seq(HumanTurns), played : PartialTurns]
        /\ Len(pos.answered) <= MaxTurns
    BY GamePositionFacts DEF SessionShape
  <2>2. /\ next \in [answered : Seq(HumanTurns), played : PartialTurns]
        /\ next.answered = pos.answered
    BY <1>1, <2>1 DEF legal_for_human, played
  <2>3. QED
    BY <2>1, <2>2, GamePositionFacts
<1>3. ~Hit
  BY <1>1 DEF HitHeld
<1> HIDE DEF next
<1>4. /\ SearchStep /\ QuietStep /\ SamePonder
      /\ Hit' => /\ asked.stage = "stream"
                 /\ complete(next) /\ ~terminal(next)
                 /\ <<asked.worker, next>> \in promoted'
                 /\ gate'[asked.worker] # "THINKING"
  BY <1>1, <1>2, <1>3, ObserveSteps
<1>5. SessionShape' /\ TurnFits'
  BY <1>1, <1>2, <1>4
     DEF SessionShape, TurnFits, Turns, complete, terminal, SamePonder
<1>6. PonderFits' /\ HitHeld'
  BY <1>1, <1>3, <1>4 DEF PonderFits, HitHeld, SamePonder
<1>7. OnlyTheAwaitedRuns'
  BY <1>1, <1>4 DEF OnlyTheAwaitedRuns, QuietStep, SamePonder
<1>8. QED
  BY <1>4, <1>5, <1>6, <1>7

(* A take-back and a new game cancel, and so does the AI's turn when there *)
(* was no hit.                                                             *)
LEMMA CancellingKeepsSession ==
    ASSUME Inv, SessionInv,
           TakeBack \/ NewGame \/ (TakePondered /\ ~Hit)
    PROVE  SearchStep /\ SessionInv'
<1> USE DEF SessionInv
<1>1. /\ request_cancellation
      /\ turn' \in {"undo", "human", "drain"}
      /\ turn \in {"human", "take"} /\ (turn = "take" <=> turn' = "drain")
      /\ pos' = pos \/ (pos' = StartPosition /\ turn' = "human")
      /\ UNCHANGED <<searcher, hurried>>
  BY DEF TakeBack, NewGame, TakePondered, Hit
<1>2. ~Hit
  BY DEF TakeBack, NewGame, HitHeld
<1>3. SearchStep /\ QuietStep /\ SamePonder /\ ~Hit'
  BY <1>1, <1>2, CancelSteps
<1>4. StartPosition \in GamePositions
  BY GamePositionFacts, PartialTurnFacts, TurnAssumption, SMTT(30)
     DEF StartPosition, NoLine
<1>5. SessionShape' /\ TurnFits'
  BY <1>1, <1>3, <1>4
     DEF SessionShape, TurnFits, Turns, complete, terminal, SamePonder
<1>6. PonderFits' /\ HitHeld'
  BY <1>1, <1>2, <1>3 DEF PonderFits, HitHeld, SamePonder
<1>7. OnlyTheAwaitedRuns'
  BY <1>1, <1>3 DEF OnlyTheAwaitedRuns, QuietStep, SamePonder
<1>8. QED
  BY <1>3, <1>5, <1>6, <1>7

(* What the AI's turn does without starting a search: it takes a hit, or   *)
(* the answer it waited for, and the take-back puts the position back.     *)
LEMMA TurnKeepsSession ==
    ASSUME Inv, SessionInv,
           \/ FinishTakeBack \/ MoveNow \/ (TakePondered /\ Hit)
           \/ TakeAnswer \/ SearchAnswers
    PROVE  SearchStep /\ SessionInv'
<1> USE DEF SessionInv
<1>1. CASE FinishTakeBack
  <2>1. SearchStep /\ QuietStep
    BY <1>1, StopsAreQuiet DEF FinishTakeBack
  <2>2. pos' \in GamePositions
    <3>1. /\ pos \in [answered : Seq(HumanTurns), played : PartialTurns]
          /\ Len(pos.answered) <= MaxTurns
      BY GamePositionFacts DEF SessionShape
    <3>2. CASE pos.played # <<>>
      <4>1. /\ pos' \in [answered : Seq(HumanTurns), played : PartialTurns]
            /\ pos'.answered = pos.answered
        BY <1>1, <3>1, <3>2, PartialTurnFacts DEF FinishTakeBack, NoLine
      <4>2. QED
        BY <3>1, <4>1, GamePositionFacts
    <3>3. CASE pos.played = <<>>
      <4> DEFINE shorter == SubSeq(pos.answered, 1, Len(pos.answered) - 1)
      <4>1. shorter \in Seq(HumanTurns) /\ Len(shorter) <= Len(pos.answered)
        BY <3>1
      <4> HIDE DEF shorter
      <4>2. pos' = [pos EXCEPT !.answered = shorter]
        BY <1>1, <3>3 DEF FinishTakeBack, shorter
      <4>3. /\ pos' \in [answered : Seq(HumanTurns), played : PartialTurns]
            /\ pos'.answered = shorter
        BY <3>1, <4>1, <4>2
      <4>4. Len(pos'.answered) <= MaxTurns
        BY <3>1, <4>1, <4>3, TurnAssumption
      <4>5. QED
        BY <4>3, <4>4, GamePositionFacts
    <3>4. QED
      BY <3>2, <3>3
  <2>3. SessionShape' /\ TurnFits' /\ PonderFits' /\ HitHeld'
    BY <1>1, <2>2 DEF FinishTakeBack, SessionShape, TurnFits, PonderFits,
                      HitHeld, Hit, Turns, drained
  <2>4. OnlyTheAwaitedRuns'
    BY <1>1, <2>1 DEF FinishTakeBack, OnlyTheAwaitedRuns, QuietStep
  <2>5. QED
    BY <2>1, <2>3, <2>4
<1>2. CASE MoveNow
  <2>1. SearchStep /\ QuietStep
    BY <1>2, StopsAreQuiet DEF MoveNow, Stops
  <2>2. QED
    BY <1>2, <2>1 DEF MoveNow, SessionShape, TurnFits, PonderFits, HitHeld,
                      Hit, OnlyTheAwaitedRuns, QuietStep, complete, terminal
<1>3. CASE TakePondered /\ Hit
  <2>1. SearchStep /\ QuietStep
    BY <1>3, StopsAreQuiet DEF TakePondered, Hit
  <2>2. turn = "take" /\ turn' = "hit" /\ UNCHANGED <<asked, pos, searcher, hurried>>
    BY <1>3 DEF TakePondered, Hit
  <2>3. QED
    BY <1>3, <2>1, <2>2
       DEF SessionShape, TurnFits, PonderFits, HitHeld, Hit, Turns,
           OnlyTheAwaitedRuns, QuietStep, complete, terminal
<1>4. CASE TakeAnswer
  <2>1. SearchStep /\ QuietStep
    BY <1>4, StopsAreQuiet DEF TakeAnswer
  <2>2. NoPonder \in Ponders /\ ~Hit'
    BY <1>4, PartialTurnFacts DEF TakeAnswer, NoPonder, Ponders, Stages, Hit
  <2>3. NoPonder.stage = "none" /\ NoPonder.expected = NoLine
        /\ NoPonder.matched = 0 /\ Len(NoLine) = 0
    BY DEF NoPonder, NoLine
  <2>4. QED
    BY <1>4, <2>1, <2>2, <2>3
       DEF TakeAnswer, SessionShape, TurnFits, PonderFits, HitHeld, Turns,
           OnlyTheAwaitedRuns, QuietStep, complete, terminal
<1>5. CASE SearchAnswers
  <2>1. SearchStep /\ QuietStep
    BY <1>5, StopsAreQuiet DEF SearchAnswers
  <2>2. QED
    BY <1>5, <2>1
       DEF SearchAnswers, SessionShape, TurnFits, PonderFits, HitHeld, Hit,
           Turns, OnlyTheAwaitedRuns, QuietStep, Alive, complete, terminal
<1>6. QED
  BY <1>1, <1>2, <1>3, <1>4, <1>5

(* Any position of a game can be searched from.                            *)
LEMMA GameTasks ==
    ASSUME NEW root \in GamePositions, NEW ponder \in BOOLEAN,
           NEW effort \in GameEfforts
    PROVE  [ponder |-> ponder, root |-> root, effort |-> effort] \in Tasks
BY PositionAssumption DEF Tasks, Efforts, GameEfforts

(* Where no ponder is held and no search awaited, no worker is alive.      *)
LEMMA NobodyRuns ==
    ASSUME SessionInv, asked.stage \notin {"predict", "stream"}, turn # "search"
    PROVE  \A w \in Workers : ~Alive(w)
BY DEF SessionInv, OnlyTheAwaitedRuns

(* The ordinary search starts when the old ponder is drained, so it is the *)
(* only one.                                                               *)
LEMMA SearchKeepsSession ==
    ASSUME Inv, SessionInv, NEW w \in Workers, NEW effort \in GameEfforts,
           SearchBestAction(w, effort)
    PROVE  SearchStep /\ SessionInv'
<1> USE DEF SessionInv
<1>1. /\ turn = "drain" /\ asked.stage = "none"
      /\ Start(w, [ponder |-> FALSE, root |-> pos, effort |-> effort])
      /\ searcher' = w /\ turn' = "search" /\ UNCHANGED <<pos, asked, hurried>>
  BY DEF SearchBestAction, drained
<1>2. [ponder |-> FALSE, root |-> pos, effort |-> effort] \in Tasks
  BY GameTasks DEF SessionShape
<1>3. /\ SearchStep
      /\ \A v \in Workers : Alive(v)' => v = w
  BY <1>1, <1>2, StartsAreSteps, NobodyRuns
<1>4. SessionShape' /\ TurnFits' /\ PonderFits'
  BY <1>1 DEF SessionShape, TurnFits, PonderFits, Turns, complete, terminal, Hit
<1>5. HitHeld'
  BY <1>1 DEF HitHeld, Hit
<1>6. OnlyTheAwaitedRuns'
  BY <1>1, <1>3 DEF OnlyTheAwaitedRuns
<1>7. QED
  BY <1>3, <1>4, <1>5, <1>6

(* A ponder that is just called or launched has matched nothing yet.       *)
LEMMA NewPonderFacts ==
    ASSUME NEW stage \in {"predict", "call"}, NEW w \in Workers \cup {NoWorker},
           NEW line \in PartialTurns
    PROVE  /\ NewPonder(stage, w, line) \in Ponders
           /\ NewPonder(stage, w, line).stage = stage
           /\ NewPonder(stage, w, line).worker = w
           /\ NewPonder(stage, w, line).expected = NoLine
           /\ NewPonder(stage, w, line).matched = 0
           /\ ~NewPonder(stage, w, line).hit
           /\ NoPonder \in Ponders /\ NoPonder.stage = "none"
           /\ NoPonder.expected = NoLine /\ NoPonder.matched = 0
           /\ ~NoPonder.hit /\ Len(NoLine) = 0
BY PartialTurnFacts DEF NewPonder, NoPonder, Ponders, Stages, NoLine

(* The answer makes one more turn of the game, and a ponder may begin.     *)
LEMMA ApplyKeepsSession ==
    ASSUME Inv, SessionInv, AiApplies
    PROVE  SearchStep /\ SessionInv'
<1> USE DEF SessionInv
<1>1. /\ turn = "apply" /\ turn' = "human" /\ searcher' = searcher
      /\ hurried' = FALSE /\ asked.stage = "none"
      /\ complete(pos) /\ ~terminal(pos)
  BY DEF AiApplies, TurnFits
<1> DEFINE next == answered(pos)
<1>2. next \in GamePositions
  <2>1. /\ pos \in [answered : Seq(HumanTurns), played : PartialTurns]
        /\ Len(pos.answered) <= MaxTurns /\ Len(pos.answered) # MaxTurns
        /\ pos.played \in HumanTurns
    BY <1>1, GamePositionFacts DEF SessionShape, complete, terminal
  <2>2. /\ Append(pos.answered, pos.played) \in Seq(HumanTurns)
        /\ Len(Append(pos.answered, pos.played)) <= MaxTurns
    BY <2>1, TurnAssumption
  <2>3. /\ next \in [answered : Seq(HumanTurns), played : PartialTurns]
        /\ Len(next.answered) <= MaxTurns
    BY <2>2, PartialTurnFacts DEF answered, NoLine
  <2>4. QED
    BY <2>3, GamePositionFacts
<1>3. pos' = next
  BY DEF AiApplies
<1> HIDE DEF next
<1>4. \A w \in Workers : ~Alive(w)
  BY <1>1, NobodyRuns
<1>5. ASSUME UNCHANGED searchVars, asked' \in Ponders, ~Hit',
             asked'.stage \in {"none", "call"},
             asked'.expected = NoLine, asked'.matched <= Len(asked'.expected)
      PROVE  SearchStep /\ SessionInv'
  <2>1. SearchStep /\ QuietStep
    BY <1>5, StopsAreQuiet
  <2>2. SessionShape' /\ TurnFits' /\ PonderFits' /\ HitHeld'
    BY <1>1, <1>2, <1>3, <1>5
       DEF SessionShape, TurnFits, PonderFits, HitHeld, Turns
  <2>3. OnlyTheAwaitedRuns'
    BY <1>4, <2>1 DEF OnlyTheAwaitedRuns, QuietStep
  <2>4. QED
    BY <2>1, <2>2, <2>3
<1>6. CASE asked' = NoPonder /\ UNCHANGED searchVars
  BY <1>5, <1>6, NewPonderFacts, PartialTurnFacts DEF Hit
<1>7. CASE asked' = asked /\ UNCHANGED searchVars
  <2>1. ~Hit /\ asked.expected = NoLine
    BY <1>1 DEF HitHeld, PonderFits
  <2>2. QED
    BY <1>1, <1>5, <1>7, <2>1 DEF SessionShape, PonderFits, Hit
<1>8. ASSUME NEW line \in PartialTurns,
             asked' = NewPonder("call", NoWorker, line), UNCHANGED searchVars
      PROVE  SearchStep /\ SessionInv'
  BY <1>5, <1>8, NewPonderFacts DEF Hit
<1>9. ASSUME NEW w \in Workers,
             Start(w, [ponder |-> FALSE, root |-> next, effort |-> "shallow"]),
             asked' = NewPonder("predict", w, NoLine)
      PROVE  SearchStep /\ SessionInv'
  <2>1. [ponder |-> FALSE, root |-> next, effort |-> "shallow"] \in Tasks
    BY <1>2, GameTasks DEF GameEfforts
  <2>2. /\ SearchStep
        /\ \A v \in Workers : Alive(v)' => v = w
    BY <1>4, <1>9, <2>1, StartsAreSteps
  <2>3. /\ asked' \in Ponders /\ asked'.stage = "predict" /\ asked'.worker = w
        /\ asked'.expected = NoLine /\ asked'.matched = 0 /\ ~Hit'
        /\ Len(NoLine) = 0
    BY <1>9, NewPonderFacts, PartialTurnFacts DEF Hit
  <2>4. SessionShape' /\ TurnFits'
    BY <1>1, <1>2, <1>3, <2>3 DEF SessionShape, TurnFits, Turns
  <2>5. PonderFits' /\ HitHeld'
    BY <1>1, <2>3 DEF PonderFits, HitHeld
  <2>6. OnlyTheAwaitedRuns'
    BY <2>2, <2>3 DEF OnlyTheAwaitedRuns
  <2>7. QED
    BY <2>2, <2>4, <2>5, <2>6
<1>10. QED
  BY <1>3, <1>6, <1>7, <1>8, <1>9 DEF AiApplies, start_ponder

(* The ponder's coroutine: it ends only when its worker has, and starts    *)
(* one only when none is alive.                                            *)
LEMMA PonderKeepsSession ==
    ASSUME Inv, SessionInv, Predicted \/ RefusePonder \/ ReadEvent \/ StreamEnds
    PROVE  SearchStep /\ SessionInv'
<1> USE DEF SessionInv
<1>1. /\ UNCHANGED <<searchVars, pos, turn, searcher, hurried>>
      /\ asked.stage \in {"predict", "call", "stream"}
  BY DEF Predicted, RefusePonder, ReadEvent, StreamEnds
<1>2. SearchStep /\ QuietStep
  BY <1>1, StopsAreQuiet
<1>3. UNCHANGED <<gate, promoted, phase>>
  BY <1>1 DEF searchVars
<1>4. \A w \in Workers : Alive(w)' => Alive(w)
  BY <1>2 DEF QuietStep
<1>5. ASSUME asked' = finish(asked),
             asked.stage = "call" \/ phase[asked.worker] = "done"
      PROVE  SessionInv'
  <2>1. \A w \in Workers : ~Alive(w)
    BY <1>1, <1>5 DEF OnlyTheAwaitedRuns, Alive, TurnFits
  <2>2. CASE Hit
    <3>1. asked' \in Ponders /\ asked' = [asked EXCEPT !.stage = "ended"]
      BY <1>5, <2>2, FinishFacts DEF SessionShape, Hit
    <3>2. /\ asked'.stage = "ended" /\ asked'.worker = asked.worker
          /\ asked'.line = asked.line /\ asked'.expected = asked.expected
          /\ asked'.matched = asked.matched /\ Hit'
      BY <2>2, <3>1 DEF SessionShape, Ponders, Hit
    <3>3. turn \in {"take", "hit"}
      BY <2>2 DEF HitHeld
    <3>4. QED
      BY <1>1, <1>3, <1>4, <2>1, <2>2, <3>1, <3>2, <3>3
         DEF SessionShape, TurnFits, PonderFits, HitHeld, OnlyTheAwaitedRuns,
             complete, terminal
  <2>3. CASE ~Hit
    <3>1. asked' = NoPonder
      BY <1>5, <2>3, FinishFacts DEF SessionShape, Hit
    <3>2. /\ asked' \in Ponders /\ asked'.stage = "none"
          /\ asked'.expected = NoLine /\ asked'.matched = 0 /\ ~Hit'
          /\ Len(NoLine) = 0
      BY <3>1, NewPonderFacts, PartialTurnFacts DEF Hit
    <3>3. QED
      BY <1>1, <1>4, <2>1, <2>3, <3>2
         DEF SessionShape, TurnFits, PonderFits, HitHeld, OnlyTheAwaitedRuns,
             complete, terminal
  <2>4. QED
    BY <2>2, <2>3
<1>6. CASE RefusePonder
  BY <1>2, <1>5, <1>6 DEF RefusePonder
<1>7. CASE StreamEnds
  BY <1>2, <1>5, <1>7 DEF StreamEnds
<1>8. CASE Predicted /\ asked' # finish(asked)
  <2>1. PICK line \in PartialTurns :
          asked' = [asked EXCEPT !.stage = "call", !.worker = NoWorker,
                                 !.line = line]
    BY <1>8 DEF Predicted
  <2>2. /\ asked.stage = "predict" /\ phase[asked.worker] = "done"
        /\ asked.expected = NoLine /\ ~Hit
    BY <1>8 DEF Predicted, PonderFits, HitHeld
  <2>3. /\ asked' \in Ponders /\ asked'.stage = "call"
        /\ asked'.expected = NoLine /\ asked'.matched = asked.matched /\ ~Hit'
    BY <2>1, <2>2 DEF SessionShape, Ponders, Stages, Hit
  <2>4. \A w \in Workers : ~Alive(w)
    BY <2>2 DEF OnlyTheAwaitedRuns, Alive, TurnFits
  <2>5. QED
    BY <1>1, <1>2, <1>4, <2>2, <2>3, <2>4
       DEF SessionShape, TurnFits, PonderFits, HitHeld, OnlyTheAwaitedRuns,
           complete, terminal
<1>9. CASE Predicted /\ asked' = finish(asked)
  BY <1>2, <1>5, <1>9 DEF Predicted
<1>10. CASE ReadEvent
  <2> DEFINE event == sent[asked.worker][asked.read + 1]
             line == IF event = "ponderStarted" /\ ~asked.cancelled
                     THEN asked.line ELSE asked.expected
             best == asked.best \/ (event = "bestMove" /\ ~asked.cancelled)
  <2>1. /\ asked.stage = "stream"
        /\ asked' = [asked EXCEPT !.read = asked.read + 1, !.expected = line,
                                  !.best = best]
    BY <1>10 DEF ReadEvent
  <2>2. line \in {asked.expected, asked.line} /\ best \in BOOLEAN
    OBVIOUS
  <2> HIDE DEF line, best
  <2>3. asked \in Ponders /\ asked.read + 1 \in Nat
    BY DEF SessionShape, Ponders
  <2>4. asked' \in Ponders
    BY <2>1, <2>2, <2>3 DEF Ponders
  <2>5. /\ asked'.stage = asked.stage /\ asked'.worker = asked.worker
        /\ asked'.line = asked.line /\ asked'.matched = asked.matched
        /\ asked'.hit = asked.hit /\ asked'.cancelled = asked.cancelled
        /\ asked'.expected \in {asked.expected, asked.line}
    BY <2>1, <2>2, <2>3 DEF Ponders
  <2>6. asked'.matched <= Len(asked'.expected) /\ (Hit' <=> Hit)
    BY <2>3, <2>5, PartialTurnFacts DEF PonderFits, Ponders, NoLine, Hit
  <2>7. QED
    BY <1>1, <1>2, <1>3, <1>4, <2>1, <2>4, <2>5, <2>6
       DEF SessionShape, TurnFits, PonderFits, HitHeld, OnlyTheAwaitedRuns,
           complete, terminal
<1>11. QED
  BY <1>2, <1>6, <1>7, <1>8, <1>9, <1>10

(* The kernel launches a ponder for a prediction that completes the        *)
(* opponent's turn, and only while a call awaits it.                       *)
LEMMA LaunchKeepsSession ==
    ASSUME Inv, SessionInv, NEW w \in Workers, NEW effort \in GameEfforts,
           LaunchPonder(w, effort)
    PROVE  SearchStep /\ SessionInv'
<1> USE DEF SessionInv
<1>1. /\ asked.stage = "call" /\ UNCHANGED <<pos, turn, searcher, hurried>>
      /\ asked.expected = NoLine /\ ~Hit /\ asked \in Ponders
      /\ turn # "search"
  BY DEF LaunchPonder, PonderFits, HitHeld, SessionShape, TurnFits
<1>2. PICK line \in accepted(pos) :
        /\ Start(w, [ponder |-> TRUE, root |-> replayed(pos, line),
                     effort |-> effort])
        /\ asked' = [asked EXCEPT !.stage = "stream", !.worker = w,
                                  !.line = line]
  BY DEF LaunchPonder
<1>3. line \in PartialTurns /\ complete(replayed(pos, line))
  <2>1. PICK n \in 1..Len(asked.line) : line = SubSeq(asked.line, 1, n)
    BY DEF accepted
  <2>2. n \in 0..Len(asked.line)
    OBVIOUS
  <2>3. QED
    BY <1>1, <2>1, <2>2, PartialTurnFacts DEF accepted, Ponders
<1>4. replayed(pos, line) \in GamePositions
  <2> DEFINE root == replayed(pos, line)
  <2>1. /\ pos \in [answered : Seq(HumanTurns), played : PartialTurns]
        /\ Len(pos.answered) <= MaxTurns
    BY GamePositionFacts DEF SessionShape
  <2>2. root = [pos EXCEPT !.played = root.played] /\ root.played \in PartialTurns
    BY <1>3, <2>1, PartialTurnFacts DEF replayed, complete
  <2> HIDE DEF root
  <2>3. /\ root \in [answered : Seq(HumanTurns), played : PartialTurns]
        /\ root.answered = pos.answered
    BY <2>1, <2>2
  <2>4. root \in GamePositions
    BY <2>1, <2>3, GamePositionFacts
  <2>5. QED
    BY <2>4 DEF root
<1>5. /\ SearchStep
      /\ \A v \in Workers : Alive(v)' => v = w
  <2>1. [ponder |-> TRUE, root |-> replayed(pos, line), effort |-> effort] \in Tasks
    BY <1>4, GameTasks
  <2>2. QED
    BY <1>1, <1>2, <2>1, StartsAreSteps, NobodyRuns
<1>6. /\ asked' \in Ponders /\ asked'.stage = "stream" /\ asked'.worker = w
      /\ asked'.expected = NoLine /\ asked'.matched = asked.matched /\ ~Hit'
  BY <1>1, <1>2, <1>3 DEF Ponders, Stages, Hit
<1>7. SessionShape' /\ TurnFits'
  BY <1>1, <1>6 DEF SessionShape, TurnFits, complete, terminal
<1>8. PonderFits' /\ HitHeld'
  BY <1>1, <1>6 DEF PonderFits, HitHeld
<1>9. OnlyTheAwaitedRuns'
  BY <1>5, <1>6 DEF OnlyTheAwaitedRuns
<1>10. QED
  BY <1>5, <1>7, <1>8, <1>9

-----------------------------------------------------------------------------
(* The invariant of the whole, and the properties the runs check.          *)

LEMMA InitSession == Init => Inv /\ SessionInv
<1> SUFFICES ASSUME Init PROVE SessionInv
  BY InitInv DEF Init
<1>1. StartPosition \in GamePositions
  BY GamePositionFacts, PartialTurnFacts, TurnAssumption
     DEF StartPosition, NoLine
<1>2. /\ NoPonder \in Ponders /\ NoPonder.stage = "none" /\ ~NoPonder.hit
      /\ NoPonder.expected = NoLine /\ NoPonder.matched = 0 /\ Len(NoLine) = 0
  BY NewPonderFacts, PartialTurnFacts
<1>3. SessionShape /\ TurnFits
  BY <1>1, <1>2 DEF Init, SessionShape, TurnFits, Turns
<1>4. ~Hit
  BY <1>2 DEF Init, Hit
<1>5. PonderFits /\ HitHeld
  BY <1>2, <1>4 DEF Init, PonderFits, HitHeld
<1>6. OnlyTheAwaitedRuns
  BY DEF Init, SearchInit, OnlyTheAwaitedRuns, Alive
<1>7. QED
  BY <1>3, <1>5, <1>6 DEF SessionInv

LEMMA NextSession ==
    Inv /\ SessionInv /\ [Next]_vars => SearchStep /\ SessionInv'
<1> SUFFICES ASSUME Inv, SessionInv, [Next]_vars
             PROVE  SearchStep /\ SessionInv'
  OBVIOUS
<1>1. CASE User
  BY <1>1, PlayKeepsSession, CancellingKeepsSession, TurnKeepsSession DEF User
<1>2. CASE Session
  BY <1>2, CancellingKeepsSession, TurnKeepsSession, ApplyKeepsSession,
     SearchKeepsSession DEF Session
<1>3. CASE PonderRun
  BY <1>3, PonderKeepsSession, LaunchKeepsSession DEF PonderRun
<1>4. ASSUME NEW w \in Workers, Threads(w) \/ Timer(w) \/ Spurious(w)
      PROVE  SearchStep /\ SessionInv'
  BY <1>4, ThreadsAreQuiet, QuietKeepsSession DEF Threads, Timer, Spurious
<1>5. CASE UNCHANGED vars
  BY <1>5, StopsAreQuiet, QuietKeepsSession DEF vars
<1>6. QED
  BY <1>1, <1>2, <1>3, <1>4, <1>5 DEF Next

LEMMA SessionInvariant == Spec => [](Inv /\ SessionInv)
<1>1. Inv /\ SessionInv /\ [Next]_vars => (Inv /\ SessionInv)'
  BY NextSession DEF SearchStep
<1>2. QED
  BY InitSession, <1>1, PTL DEF Spec

(* A session with pondering is one of the ways Dart may call the workers:  *)
(* whatever the user does, each of its steps is one of EngineSearch's or   *)
(* leaves the workers alone, so what holds of the workers under arbitrary  *)
(* calls holds in every game.                                              *)
THEOREM SessionsAreSearches == Spec => SearchSpec
<1>1. Init => SearchInit
  BY DEF Init
<1>2. Inv /\ SessionInv /\ [Next]_vars => [SearchNext]_searchVars
  BY NextSession DEF SearchStep
<1>3. QED
  BY SessionInvariant, <1>1, <1>2, PTL DEF Spec, SearchSpec

(* In a game with pondering too, a ponder worker's best move is published  *)
(* only after a hit for the position it searched, ACTIVE_SEARCH names a    *)
(* running worker or none, and a stopped gate stays stopped.               *)
THEOREM SessionsKeepTheGate ==
    Spec => []BestMoveNeedsHit /\ []RegistrationIsLive /\ GateMovesForward
BY SessionsAreSearches, BestMoveWasAskedFor, RegistrationStaysLive,
   GatesMoveForward

(* The session's own state is well formed in every game, and a result is   *)
(* kept beyond its stream only for a hit that the AI's turn takes.         *)
THEOREM SessionWellFormed == Spec => []SessionTypeOK
<1>1. SessionInv => SessionTypeOK
  <2> SUFFICES ASSUME SessionInv PROVE SessionTypeOK
    OBVIOUS
  <2>1. asked.matched \in 0..Len(asked.expected)
    BY PartialTurnFacts DEF SessionInv, SessionShape, PonderFits, Ponders
  <2>2. pos.played \in PartialTurns /\ Len(pos.answered) <= MaxTurns
    BY GamePositionFacts DEF SessionInv, SessionShape
  <2>3. QED
    BY <2>1, <2>2 DEF SessionInv, SessionShape, PonderFits, HitHeld, Hit,
                      Ponders, Stages, Turns, SessionTypeOK
<1>2. QED
  BY SessionInvariant, <1>1, PTL

(* One engine search at a time: however hits, cancellations, take-backs,   *)
(* new games and the workers' steps interleave, at most one worker of the  *)
(* session has started and not ended.                                      *)
THEOREM SessionsSearchOnce == Spec => []OneSearchAtATime
<1>1. SessionInv => OneSearchAtATime
  <2> SUFFICES ASSUME SessionInv PROVE OneSearchAtATime
    OBVIOUS
  <2> DEFINE alive == {w \in Workers : phase[w] \notin {"idle", "done"}}
             awaited == IF turn = "search" THEN searcher ELSE asked.worker
  <2>1. alive \subseteq {awaited}
    BY DEF SessionInv, OnlyTheAwaitedRuns, TurnFits, Alive
  <2>2. IsFiniteSet({awaited}) /\ Cardinality({awaited}) = 1
    BY FS_Singleton
  <2>3. Cardinality(alive) <= 1
    BY <2>1, <2>2, FS_Subset
  <2>4. QED
    BY <2>3 DEF OneSearchAtATime
<1>2. QED
  BY SessionInvariant, <1>1, PTL

(* A hit whose result the AI's turn awaits was granted for the position on *)
(* the board, however the session came there.                              *)
THEOREM HitsAreForTheBoard == Spec => []HitIsForThisPosition
<1>1. SessionInv => HitIsForThisPosition
  BY DEF SessionInv, HitHeld, HitIsForThisPosition
<1>2. QED
  BY SessionInvariant, <1>1, PTL

=============================================================================
