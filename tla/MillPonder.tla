----------------------------- MODULE MillPonder -----------------------------
(***************************************************************************)
(* A human against the AI with pondering: the Dart side of EngineSearch    *)
(* (NativeMillGameSession, NativeMillAiTurnController and the Move Now     *)
(* button of GameController) together with the kernel call that starts a   *)
(* ponder worker.  Dart is one event loop: what happens between two awaits *)
(* is one step here, and every await is a place where the worker threads,  *)
(* the user and other events get their turn.                               *)
(*                                                                         *)
(* A human turn is a sequence of actions (a mill owes a removal); the AI's *)
(* answer is left out, a position being the human turns answered so far    *)
(* and the actions of the current one.                                     *)
(* The BUG_ operators are plausible mistakes in the definitions after them.*)
(***************************************************************************)
EXTENDS EngineSearch, Naturals, FiniteSets

CONSTANTS
    HumanTurns,    \* the complete turns a human may play
    WinningTurns,  \* those of them that end the game
    MaxTurns       \* bound: answered turns after which a game ends

VARIABLES
    pos,      \* the kernel's position
    turn,     \* the human's turn, or where the AI's turn is awaiting
    asked,    \* _activePonder, with the locals of its _runPonder
    searcher, \* the worker of the ordinary search the AI's turn awaits
    hurried   \* history: Move Now has stopped the search the turn awaits

sessionVars == <<pos, turn, asked, searcher, hurried>>
vars == <<searchVars, sessionVars>>

-----------------------------------------------------------------------------
(* Positions.                                                              *)

PartialTurns == UNION {{SubSeq(t, 1, n) : n \in 0..Len(t)} : t \in HumanTurns}
TurnActions == UNION {{t[i] : i \in DOMAIN t} : t \in HumanTurns}

ASSUME TurnAssumption ==
    /\ HumanTurns # {} /\ HumanTurns \subseteq Seq(TurnActions)
    /\ WinningTurns \subseteq HumanTurns
    /\ MaxTurns \in Nat \ {0}

GamePositions ==
    [answered : UNION {[1..n -> HumanTurns] : n \in 0..MaxTurns},
     played : PartialTurns]

(* A search may start from any position of a game. *)
ASSUME PositionAssumption == GamePositions \subseteq Positions

StartPosition == [answered |-> <<>>, played |-> <<>>]

legal_for_human(p, a) == Append(p.played, a) \in PartialTurns
played(p, a) == [p EXCEPT !.played = Append(@, a)]
complete(p) == p.played \in HumanTurns
terminal(p) == p.played \in WinningTurns \/ Len(p.answered) = MaxTurns
answered(p) == [answered |-> Append(p.answered, p.played), played |-> <<>>]

-----------------------------------------------------------------------------
(* _ActiveMillPonder.  stage: "predict" awaits the shallow search that     *)
(* supplies a prediction, "call" has called the kernel and awaits its      *)
(* stream, "stream" reads it, "ended" keeps a hit's result, "none" is null.*)

NoLine == <<>>

NoPonder == [stage |-> "none", worker |-> NoWorker, line |-> NoLine,
             expected |-> NoLine, matched |-> 0, read |-> 0,
             hit |-> FALSE, cancelled |-> FALSE, best |-> FALSE]

NewPonder(stage, w, line) ==
    [NoPonder EXCEPT !.stage = stage, !.worker = w, !.line = line]

(* _requestPonderCancellation: once, and only what is registered hears it. *)
request_cancellation ==
    IF asked.stage = "none" \/ asked.cancelled
    THEN UNCHANGED <<asked, searchVars>>
    ELSE /\ asked' = [asked EXCEPT !.cancelled = TRUE]
         /\ IF asked.stage = "predict"
            THEN IF active # NoWorker THEN StopSearch ELSE UNCHANGED searchVars
            ELSE IF asked.stage # "call" /\ registered_ponder(asked.worker)
                 THEN StopPonder(asked.worker)
                 ELSE UNCHANGED searchVars

(* _observeAppliedActionForPonder, the position being the one after a.     *)
matches_prediction(a) ==
    /\ asked.matched < Len(asked.expected)
    /\ asked.expected[asked.matched + 1] = a

BUG_hit_unconfirmed(a, next) ==
    IF asked.stage = "none" \/ asked.cancelled \/ asked.hit
    THEN UNCHANGED <<asked, searchVars>>
    ELSE IF matches_prediction(a)
    THEN /\ asked' = [asked EXCEPT !.matched = @ + 1, !.hit = complete(next)]
         /\ UNCHANGED searchVars
    ELSE request_cancellation

observe(a, next) ==
    LET seen == asked.matched + 1
        last == seen = Len(asked.expected)
    IN IF asked.stage = "none" \/ asked.cancelled \/ asked.hit
       THEN UNCHANGED <<asked, searchVars>>
       ELSE IF /\ matches_prediction(a)
               /\ ~complete(next)
               /\ ~last
       THEN asked' = [asked EXCEPT !.matched = seen] /\ UNCHANGED searchVars
       ELSE IF /\ matches_prediction(a)
               /\ complete(next) /\ ~terminal(next)
               /\ last
               /\ hit_granted(asked.worker, next)
       THEN /\ HitPonder(asked.worker, next)
            /\ asked' = [asked EXCEPT !.matched = seen, !.hit = TRUE]
       ELSE request_cancellation

-----------------------------------------------------------------------------
(* The human.                                                              *)

HumanPlays(a) ==
    /\ turn = "human"
    /\ ~terminal(pos)
    /\ legal_for_human(pos, a)
    /\ pos' = played(pos, a)
    /\ observe(a, pos')
    /\ turn' = IF complete(pos') /\ ~terminal(pos') THEN "take" ELSE "human"
    /\ UNCHANGED <<searcher, hurried>>

(* undo() awaits cancelPonder before it touches the kernel. *)
TakeBack ==
    /\ turn = "human"
    /\ pos # StartPosition
    /\ request_cancellation
    /\ turn' = "undo"
    /\ UNCHANGED <<pos, searcher, hurried>>

BUG_not_awaited == TRUE

drained == asked.stage = "none"

FinishTakeBack ==
    /\ turn = "undo"
    /\ drained
    /\ pos' = IF pos.played # <<>>
              THEN [pos EXCEPT !.played = <<>>]
              ELSE [pos EXCEPT !.answered = SubSeq(@, 1, Len(@) - 1)]
    /\ turn' = "human"
    /\ UNCHANGED <<searchVars, asked, searcher, hurried>>

(* resetGame cancels the ponder and does not wait for it. *)
NewGame ==
    /\ turn = "human"
    /\ request_cancellation
    /\ pos' = StartPosition
    /\ UNCHANGED <<turn, searcher, hurried>>

(* engineToGo(isMoveNow) while the engine runs. *)
MoveNow ==
    /\ turn \in {"hit", "drain", "search"}
    /\ ~hurried
    /\ StopSearch
    /\ hurried' = (turn # "drain")
    /\ UNCHANGED <<pos, turn, asked, searcher>>

-----------------------------------------------------------------------------
(* The AI's turn (playIfAiTurn).                                           *)

(* takePonderedAction up to its first await: a hit is worth waiting for,   *)
(* any other ponder is cancelled and drained.                              *)
TakePondered ==
    /\ turn = "take"
    /\ IF asked.hit /\ ~asked.cancelled
       THEN turn' = "hit" /\ UNCHANGED <<asked, searchVars>>
       ELSE turn' = "drain" /\ request_cancellation
    /\ UNCHANGED <<pos, searcher, hurried>>

(* The promoted search has ended: with its move, or with none, and then the*)
(* ordinary search follows.                                                *)
TakeAnswer ==
    /\ turn = "hit"
    /\ asked.stage = "ended"
    /\ turn' = IF asked.best THEN "apply" ELSE "drain"
    /\ asked' = NoPonder
    /\ UNCHANGED <<searchVars, pos, searcher, hurried>>

(* searchBestAction, once cancelPonder has drained the old worker. *)
SearchBestAction(w, effort) ==
    /\ turn = "drain"
    /\ drained
    /\ Start(w, [ponder |-> FALSE, root |-> pos, effort |-> effort])
    /\ searcher' = w
    /\ turn' = "search"
    /\ UNCHANGED <<pos, asked, hurried>>

SearchAnswers ==
    /\ turn = "search"
    /\ phase[searcher] = "done"
    /\ turn' = "apply"
    /\ searcher' = NoWorker
    /\ UNCHANGED <<searchVars, pos, asked, hurried>>

(* Apply the move and, unless the game is over, start pondering: with the  *)
(* tail of the last principal variation or, without one, with a shallow    *)
(* search for a prediction.                                                *)
start_ponder ==
    \/ asked' = NoPonder /\ UNCHANGED searchVars
    \/ /\ \E line \in PartialTurns \ {<<>>} : asked' = NewPonder("call", NoWorker, line)
       /\ UNCHANGED searchVars
    \/ \E w \in Workers :
         /\ Start(w, [ponder |-> FALSE, root |-> pos', effort |-> "shallow"])
         /\ asked' = NewPonder("predict", w, NoLine)

AiApplies ==
    /\ turn = "apply"
    /\ pos' = answered(pos)
    /\ IF terminal(pos') THEN UNCHANGED <<asked, searchVars>> ELSE start_ponder
    /\ turn' = "human"
    /\ hurried' = FALSE
    /\ UNCHANGED searcher

-----------------------------------------------------------------------------
(* The ponder itself (_runPonder).                                         *)

BUG_result_kept(p) == [p EXCEPT !.stage = "ended"]

(* The finally block: only a hit keeps its result and _activePonder. *)
finish(p) == IF p.hit /\ ~p.cancelled THEN [p EXCEPT !.stage = "ended"] ELSE NoPonder

Predicted ==
    /\ asked.stage = "predict"
    /\ phase[asked.worker] = "done"
    /\ IF asked.cancelled
       THEN asked' = finish(asked)
       ELSE \E line \in PartialTurns :
              asked' = IF line = <<>> THEN finish(asked)
                       ELSE [asked EXCEPT !.stage = "call", !.worker = NoWorker,
                                          !.line = line]
    /\ UNCHANGED <<searchVars, pos, turn, searcher, hurried>>

(* tgf_kernel_mill_ponder_events runs on the bridge's own threads, later:  *)
(* it reads the kernel's position of that moment, replays the prediction   *)
(* over the opponent's turn and gives up if that is illegal, does not      *)
(* complete the turn or ends the game.                                     *)
replayed(p, line) == [p EXCEPT !.played = @ \o line]

accepted(p) ==
    {line \in {SubSeq(asked.line, 1, n) : n \in 1..Len(asked.line)} :
        LET root == replayed(p, line)
        IN ~complete(p) /\ complete(root) /\ ~terminal(root)}

LaunchPonder(w, effort) ==
    /\ asked.stage = "call"
    /\ \E line \in accepted(pos) :
         /\ Start(w, [ponder |-> TRUE, root |-> replayed(pos, line), effort |-> effort])
         /\ asked' = [asked EXCEPT !.stage = "stream", !.worker = w, !.line = line]
    /\ UNCHANGED <<pos, turn, searcher, hurried>>

RefusePonder ==
    /\ asked.stage = "call"
    /\ accepted(pos) = {}
    /\ asked' = finish(asked)
    /\ UNCHANGED <<searchVars, pos, turn, searcher, hurried>>

ReadEvent ==
    /\ asked.stage = "stream"
    /\ asked.read < Len(sent[asked.worker])
    /\ LET event == sent[asked.worker][asked.read + 1]
       IN asked' = [asked EXCEPT
            !.read = @ + 1,
            !.expected = IF event = "ponderStarted" /\ ~asked.cancelled
                         THEN asked.line ELSE @,
            !.best = @ \/ (event = "bestMove" /\ ~asked.cancelled)]
    /\ UNCHANGED <<searchVars, pos, turn, searcher, hurried>>

(* The stream closes when the worker returns and drops its end. *)
StreamEnds ==
    /\ asked.stage = "stream"
    /\ phase[asked.worker] = "done"
    /\ asked.read = Len(sent[asked.worker])
    /\ asked' = finish(asked)
    /\ UNCHANGED <<searchVars, pos, turn, searcher, hurried>>

-----------------------------------------------------------------------------

Init ==
    /\ SearchInit
    /\ pos = StartPosition
    /\ turn = "human"
    /\ asked = NoPonder
    /\ searcher = NoWorker
    /\ hurried = FALSE

User == (\E a \in TurnActions : HumanPlays(a)) \/ TakeBack \/ NewGame \/ MoveNow

(* The move time and the level a user sets: a search ends by itself. *)
GameEfforts == {"shallow", "timed"}

Session ==
    \/ FinishTakeBack \/ TakePondered \/ TakeAnswer \/ SearchAnswers \/ AiApplies
    \/ \E w \in Workers, effort \in GameEfforts : SearchBestAction(w, effort)

PonderRun ==
    \/ Predicted \/ RefusePonder \/ ReadEvent \/ StreamEnds
    \/ \E w \in Workers, effort \in GameEfforts : LaunchPonder(w, effort)

Threads(w) == WorkerStep(w) /\ UNCHANGED sessionVars
Timer(w) == HitTimer(w) /\ UNCHANGED sessionVars
Spurious(w) == WakeSpuriously(w) /\ UNCHANGED sessionVars

Next ==
    \/ User \/ Session \/ PonderRun
    \/ \E w \in Workers : Threads(w) \/ Timer(w) \/ Spurious(w)

Spec == Init /\ [][Next]_vars

(* The event loop, the bridge's threads and the workers run; the user need *)
(* not do anything.                                                        *)
Fairness ==
    /\ WF_vars(Session)
    /\ WF_vars(PonderRun)
    /\ \A w \in Workers : WF_vars(Threads(w)) /\ WF_vars(Timer(w))

FairSpec == Spec /\ Fairness

-----------------------------------------------------------------------------
(* Properties *)

(* The session's own state is well formed, and _activePonder outlives its  *)
(* stream only to hand over the result of a hit.                           *)
SessionTypeOK ==
    /\ turn \in {"human", "undo", "take", "hit", "drain", "search", "apply"}
    /\ asked.stage \in {"none", "predict", "call", "stream", "ended"}
    /\ asked.stage = "ended" => asked.hit /\ turn \in {"take", "hit"}
    /\ asked.worker \in Workers \cup {NoWorker}
    /\ asked.line \in PartialTurns /\ asked.expected \in PartialTurns
    /\ asked.matched \in 0..Len(asked.expected)
    /\ searcher \in Workers \cup {NoWorker}
    /\ pos.played \in PartialTurns /\ Len(pos.answered) <= MaxTurns

(* "Exactly one engine search may run on a session at a time": whatever is *)
(* cancelled, hit, taken back or started anew, a worker is started only    *)
(* when the one before it has cleared its registration.                    *)
OneSearchAtATime ==
    Cardinality({w \in Workers : phase[w] \notin {"idle", "done"}}) <= 1

(* While the AI's turn awaits a promoted ponder, that worker has searched  *)
(* the very position on the board and was told so, or was stopped since.   *)
HitIsForThisPosition ==
    turn = "hit" =>
        /\ <<asked.worker, pos>> \in promoted
        /\ gate[asked.worker] # "THINKING"

(* A worker no call on its way will end: it missed the wake-up at its gate,*)
(* or its ponder was cancelled before it could be told.                    *)
Unattended(w) ==
    /\ phase[w] \in {"searching", "checked", "waiting"}
    /\ \/ phase[w] # "searching" /\ gate[w] # "THINKING"
       \/ asked.cancelled /\ asked.worker = w /\ gate[w] = "THINKING"

(* Every turn of the AI and every take-back comes to its end, unless it    *)
(* awaits a worker that nobody attends to any more.                        *)
TurnOnlyHangsUnattended ==
    turn # "human" ~> (turn = "human" \/ \E w \in Workers : Unattended(w))

(* cancelPonder is to "stop and drain the current ponder worker": a worker *)
(* whose ponder is cancelled has been stopped.                             *)
CancelReachesWorker ==
    asked.cancelled /\ asked.stage = "stream" /\ phase[asked.worker] \in Running
        => gate[asked.worker] = "STOPPED"

(* After Move Now "the driving coroutine that started the search will then *)
(* receive the aborted bestmove" and apply it, and no second search starts.*)
(* It does not hold (README, what was seen without a run); no run repeats  *)
(* it.                                                                     *)
MoveNowIsAnswered ==
    [][hurried /\ turn \in {"hit", "search"} => turn' \in {turn, "apply"}]_vars

=============================================================================
