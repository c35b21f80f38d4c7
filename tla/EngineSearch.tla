---------------------------- MODULE EngineSearch ----------------------------
(***************************************************************************)
(* The search workers of the Flutter bridge                                *)
(* (crates/tgf-frb/src/games/mill/search.rs).  A search runs on a thread   *)
(* of its own and streams events to Dart; the process remembers one of     *)
(* them in ACTIVE_SEARCH, and Dart controls whichever is there with three  *)
(* synchronous calls: stop, ponder stop and ponder hit.  A ponder worker   *)
(* searches on the opponent's time and then waits at a PonderGate (an      *)
(* atomic, a mutex and a condition variable) to learn whether its best     *)
(* move may be published.                                                  *)
(*                                                                         *)
(* A worker is named by its thread, and a ponder request by its worker:    *)
(* Dart draws request ids from a static counter, so none is used twice     *)
(* while it matters.  What a search computes is left out; what it keeps is *)
(* how it can end.                                                         *)
(*                                                                         *)
(* Each BUG_ operator is a plausible mistake in the definition after it;   *)
(* nothing uses them but the mutants of PROJECT.json.                      *)
(***************************************************************************)
EXTENDS Sequences

CONSTANTS
    Workers,    \* the search threads
    Positions,  \* the game positions searches start from
    NoWorker    \* the empty ACTIVE_SEARCH

ASSUME WorkerAssumption == NoWorker \notin Workers /\ Positions # {}

VARIABLES
    phase,     \* where each worker is in run_mill_engine_config_event_stream
    task,      \* what it was started with
    abort,     \* its abort flag
    gate,      \* the state of its PonderGate
    active,    \* ACTIVE_SEARCH: the worker whose handles are registered
    timers,    \* the workers whose ponder-hit timer thread is asleep
    sent,      \* the events each worker has added to its stream
    closed,    \* the workers whose stream has lost its reader
    promoted   \* history: <<worker, position>> for each granted ponder hit

searchVars ==
    <<phase, task, abort, gate, active, timers, sent, closed, promoted>>

-----------------------------------------------------------------------------

(* "shallow" reaches its depth by itself, "timed" only stops at its move   *)
(* time, "endless" has neither limit and runs until it is aborted.         *)
Efforts == {"shallow", "timed", "endless"}

Tasks == [ponder : BOOLEAN, root : Positions, effort : Efforts]

Phases == {"idle", "spawned", "registered", "searching", "gate", "checked",
           "waiting", "released", "publishing", "clearing", "done"}

(* Between the registration in ACTIVE_SEARCH and clear_active_search. *)
Running == Phases \ {"idle", "spawned", "done"}

IsPonder(w) == task[w].ponder

(* Condvar::notify_all: a worker asleep in wait() checks the gate again.   *)
Notified(w) == [phase EXCEPT ![w] = IF @ = "waiting" THEN "gate" ELSE @]

(* sink.add, whose failure every later event ignores. *)
Emit(w, event) ==
    sent' = IF w \in closed THEN sent
                            ELSE [sent EXCEPT ![w] = Append(@, event)]

Goto(w, p) == phase' = [phase EXCEPT ![w] = p]

-----------------------------------------------------------------------------
(* The worker thread.                                                      *)

(* thread::spawn: a new worker with fresh handles. *)
Start(w, t) ==
    /\ phase[w] \in {"idle", "done"}
    /\ w \notin timers
    /\ Goto(w, "spawned")
    /\ task' = [task EXCEPT ![w] = t]
    /\ abort' = [abort EXCEPT ![w] = FALSE]
    /\ gate' = [gate EXCEPT ![w] = "THINKING"]
    /\ sent' = [sent EXCEPT ![w] = <<>>]
    /\ closed' = closed \ {w}
    /\ promoted' = {p \in promoted : p[1] # w}
    /\ UNCHANGED <<active, timers>>

BUG_refused_but_running(w) ==
    /\ phase[w] = "spawned"
    /\ Emit(w, "stopped")
    /\ UNCHANGED <<phase, task, abort, gate, active, timers, closed, promoted>>

(* validate_root_action_capacity refuses the root; a normal worker whose   *)
(* reader has gone returns in silence.                                     *)
Refuse(w) ==
    /\ phase[w] = "spawned"
    /\ Emit(w, "stopped")
    /\ Goto(w, "done")
    /\ UNCHANGED <<task, abort, gate, active, timers, closed, promoted>>

(* Publish this search's handles, replacing whatever was registered.  Only *)
(* a ponder worker announces itself after this.                            *)
Register(w) ==
    /\ phase[w] = "spawned"
    /\ IsPonder(w) \/ w \notin closed
    /\ active' = w
    /\ Goto(w, IF IsPonder(w) THEN "registered" ELSE "searching")
    /\ UNCHANGED <<task, abort, gate, timers, sent, closed, promoted>>

Announce(w) ==
    /\ phase[w] = "registered"
    /\ w \notin closed
    /\ Emit(w, "ponderStarted")
    /\ Goto(w, "searching")
    /\ UNCHANGED <<task, abort, gate, active, timers, closed, promoted>>

(* request_abort_active_search: stops whatever is registered. *)
abort_active ==
    /\ active # NoWorker
    /\ gate' = IF IsPonder(active) THEN [gate EXCEPT ![active] = "STOPPED"] ELSE gate
    /\ abort' = [abort EXCEPT ![active] = TRUE]

(* A ponder worker that cannot announce itself stops the active search,    *)
(* which by now may be another one, and goes to clear its registration.    *)
LoseReader(w) ==
    /\ phase[w] = "registered"
    /\ w \in closed
    /\ IF active = NoWorker
       THEN Goto(w, "clearing") /\ UNCHANGED <<gate, abort>>
       ELSE abort_active /\ phase' = [Notified(active) EXCEPT ![w] = "clearing"]
    /\ UNCHANGED <<task, active, timers, sent, closed, promoted>>

BUG_abort_ignored(w) == task[w].effort = "shallow" \/ ~IsPonder(w)

(* The search returns: aborted, at its depth, or at its own deadline.  A   *)
(* ponder search has no deadline, the time being the opponent's.           *)
search_ends(w) ==
    \/ abort[w]
    \/ task[w].effort = "shallow"
    \/ task[w].effort = "timed" /\ ~IsPonder(w)

EndSearch(w) ==
    /\ phase[w] = "searching"
    /\ search_ends(w)
    /\ Goto(w, IF IsPonder(w) THEN "gate" ELSE "publishing")
    /\ UNCHANGED <<task, abort, gate, active, timers, sent, closed, promoted>>

(* wait_for_release, holding wake_mutex: look at the state ... *)
CheckGate(w) ==
    /\ phase[w] = "gate"
    /\ Goto(w, IF gate[w] = "THINKING" THEN "checked" ELSE "released")
    /\ UNCHANGED <<task, abort, gate, active, timers, sent, closed, promoted>>

(* ... and only then go to sleep.  hit and stop do not take wake_mutex, so *)
(* they may come in between.                                               *)
Wait(w) ==
    /\ phase[w] = "checked"
    /\ Goto(w, "waiting")
    /\ UNCHANGED <<task, abort, gate, active, timers, sent, closed, promoted>>

(* Condition variables may wake a thread for no reason. *)
WakeSpuriously(w) ==
    /\ phase[w] = "waiting"
    /\ Goto(w, "gate")
    /\ UNCHANGED <<task, abort, gate, active, timers, sent, closed, promoted>>

(* The second look decides between a best move and silence. *)
gate_opens(w) == gate[w] = "HIT"

Release(w) ==
    /\ phase[w] = "released"
    /\ IF gate_opens(w)
       THEN Goto(w, "publishing") /\ UNCHANGED sent
       ELSE Goto(w, "clearing") /\ Emit(w, "stopped")
    /\ UNCHANGED <<task, abort, gate, active, timers, closed, promoted>>

Publish(w) ==
    /\ phase[w] = "publishing"
    /\ sent' = IF w \in closed THEN sent
                               ELSE [sent EXCEPT ![w] = @ \o <<"bestMove", "stopped">>]
    /\ Goto(w, "clearing")
    /\ UNCHANGED <<task, abort, gate, active, timers, closed, promoted>>

BUG_normal_searches_only(w) == active # NoWorker /\ ~IsPonder(active)

(* clear_active_search: a ponder worker removes its own request only, a    *)
(* normal worker any normal search.                                        *)
owns_registration(w) ==
    /\ active # NoWorker
    /\ IF IsPonder(w) THEN active = w ELSE ~IsPonder(active)

ClearActive(w) ==
    /\ phase[w] = "clearing"
    /\ active' = IF owns_registration(w) THEN NoWorker ELSE active
    /\ Goto(w, "done")
    /\ UNCHANGED <<task, abort, gate, timers, sent, closed, promoted>>

(* The thread request_ponder_hit starts wakes after the move time. *)
HitTimer(w) ==
    /\ w \in timers
    /\ timers' = timers \ {w}
    /\ abort' = IF gate[w] = "HIT" THEN [abort EXCEPT ![w] = TRUE] ELSE abort
    /\ UNCHANGED <<phase, task, gate, active, sent, closed, promoted>>

-----------------------------------------------------------------------------
(* The synchronous calls of the Dart isolate.  Each holds ACTIVE_SEARCH's  *)
(* mutex, and they never overlap because one isolate makes them all.       *)

(* native_mill_search_stop; "returns false" is the case left out. *)
StopSearch ==
    /\ abort_active
    /\ phase' = Notified(active)
    /\ UNCHANGED <<task, active, timers, sent, closed, promoted>>

(* The registered search is the ponder request w. *)
registered_ponder(w) == active = w /\ IsPonder(w)

stop_ponder(w) ==
    /\ gate' = [gate EXCEPT ![w] = "STOPPED"]
    /\ abort' = [abort EXCEPT ![w] = TRUE]
    /\ phase' = Notified(w)
    /\ UNCHANGED <<task, active, timers, sent, closed, promoted>>

(* request_stop_ponder *)
StopPonder(w) == registered_ponder(w) /\ stop_ponder(w)

BUG_any_root(w, position) == TRUE

(* request_ponder_hit, with the position the live kernel has reached. *)
root_matches(w, position) == task[w].root = position

BUG_store_not_exchange(w, position) ==
    registered_ponder(w) /\ root_matches(w, position)

hit_granted(w, position) ==
    registered_ponder(w) /\ root_matches(w, position) /\ gate[w] = "THINKING"

HitMismatch(w, position) ==
    /\ registered_ponder(w)
    /\ ~root_matches(w, position)
    /\ stop_ponder(w)

HitPonder(w, position) ==
    /\ hit_granted(w, position)
    /\ gate' = [gate EXCEPT ![w] = "HIT"]
    /\ phase' = Notified(w)
    /\ timers' = IF task[w].effort = "timed" THEN timers \cup {w} ELSE timers
    /\ promoted' = promoted \cup {<<w, position>>}
    /\ UNCHANGED <<task, abort, active, sent, closed>>

(* Dart stops listening to a stream. *)
CloseStream(w) ==
    /\ phase[w] \notin {"idle", "done"}
    /\ w \notin closed
    /\ closed' = closed \cup {w}
    /\ UNCHANGED <<phase, task, abort, gate, active, timers, sent, promoted>>

-----------------------------------------------------------------------------

SearchInit ==
    /\ phase = [w \in Workers |-> "idle"]
    /\ task = [w \in Workers |-> CHOOSE t \in Tasks : TRUE]
    /\ abort = [w \in Workers |-> FALSE]
    /\ gate = [w \in Workers |-> "THINKING"]
    /\ active = NoWorker
    /\ timers = {}
    /\ sent = [w \in Workers |-> <<>>]
    /\ closed = {}
    /\ promoted = {}

(* What a worker does by itself; each step is the next line of its code.   *)
WorkerStep(w) ==
    \/ Register(w) \/ Announce(w) \/ LoseReader(w) \/ EndSearch(w)
    \/ CheckGate(w) \/ Wait(w) \/ Release(w) \/ Publish(w) \/ ClearActive(w)

(* Calls from Dart in any order, about any request. *)
Call ==
    \/ StopSearch
    \/ \E w \in Workers :
         \/ StopPonder(w) \/ CloseStream(w)
         \/ \E t \in Tasks : Start(w, t)
         \/ \E p \in Positions : HitMismatch(w, p) \/ HitPonder(w, p)

SearchNext ==
    \/ Call
    \/ \E w \in Workers :
         WorkerStep(w) \/ Refuse(w) \/ WakeSpuriously(w) \/ HitTimer(w)

SearchSpec == SearchInit /\ [][SearchNext]_searchVars

(* Threads are scheduled and sleeps end; nothing makes Dart call, readers  *)
(* leave, or a condition variable wake for no reason.                      *)
ThreadFairness ==
    \A w \in Workers :
        WF_searchVars(WorkerStep(w) \/ Refuse(w)) /\ WF_searchVars(HitTimer(w))

FairSearchSpec == SearchSpec /\ ThreadFairness

-----------------------------------------------------------------------------
(* Properties *)

(* A stream is closed by one "stopped", right after the best move if any,  *)
(* or breaks off where its reader left.                                    *)
Streams ==
    {<<>>, <<"stopped">>, <<"bestMove", "stopped">>, <<"ponderStarted">>,
     <<"ponderStarted", "stopped">>, <<"ponderStarted", "bestMove", "stopped">>}

(* The state of every worker is well formed, its stream included. *)
SearchTypeOK ==
    /\ phase \in [Workers -> Phases]
    /\ task \in [Workers -> Tasks]
    /\ abort \in [Workers -> BOOLEAN]
    /\ gate \in [Workers -> {"THINKING", "HIT", "STOPPED"}]
    /\ active \in Workers \cup {NoWorker}
    /\ timers \subseteq Workers
    /\ sent \in [Workers -> Streams]
    /\ closed \subseteq Workers
    /\ promoted \subseteq Workers \X Positions

(* "A bestMove is withheld until tgf_kernel_mill_ponder_hit succeeds", and *)
(* a mismatch never allows "a stale best move to reach Flutter": a ponder  *)
(* worker publishes only after a hit granted for the very position it      *)
(* searched.                                                               *)
BestMoveNeedsHit ==
    \A w \in Workers :
        IsPonder(w) /\ (\E i \in DOMAIN sent[w] : sent[w][i] = "bestMove")
            => <<w, task[w].root>> \in promoted

(* Whatever way a search ends it takes its registration along, so a stop   *)
(* from Dart never goes to a worker that is no longer there.               *)
RegistrationIsLive == active # NoWorker => phase[active] \in Running

(* "A stopped ponder request cannot be revived" and a request is hit "only *)
(* once": for the whole life of a search its gate only moves forward, and  *)
(* an abort is not taken back.                                             *)
GateMovesForward ==
    [][\A w \in Workers : phase'[w] # "spawned" =>
          /\ gate[w] = "STOPPED" => gate'[w] = "STOPPED"
          /\ gate'[w] = "HIT" /\ gate[w] # "HIT" => gate[w] = "THINKING"
          /\ abort[w] => abort'[w]]_searchVars

(* A stop that arrives before the worker looks at its gate, or a hit for a *)
(* search that a depth or the move time ends, brings the worker to its end *)
(* whatever else Dart calls.                                               *)
Released(w) ==
    \/ abort[w] /\ ~IsPonder(w)
    \/ /\ phase[w] \in {"registered", "searching", "gate"}
       /\ \/ gate[w] = "STOPPED"
          \/ gate[w] = "HIT" /\ task[w].effort # "endless"

ReleasedWorkerEnds == \A w \in Workers : Released(w) ~> phase[w] = "done"

(* "Promote the matching ponder worker to an ordinary timed search": a     *)
(* granted hit is answered with a best move unless the search is stopped or*)
(* nobody listens any more.                                                *)
HitIsAnswered ==
    \A w \in Workers :
        (gate[w] = "HIT" /\ task[w].effort # "endless") ~>
            phase[w] \in {"publishing", "clearing", "done"} \/ gate[w] = "STOPPED"

(* ACTIVE_SEARCH "tracks the currently-running search worker so the FRB    *)
(* stop and ponder-hit entry points can control it": while a search runs,  *)
(* something is registered for a stop to reach.  It does not hold (README, *)
(* what was seen without a run); no run repeats it.                        *)
RunningSearchIsReachable ==
    (\E w \in Workers : phase[w] \in {"searching", "gate", "checked", "waiting"})
        => active # NoWorker

=============================================================================
