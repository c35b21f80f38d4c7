# Sanmill in TLA+

Sanmill plays the mill family of board games (nine men's morris and its many
variants): a Rust rules engine and search behind a Flutter app, with play
against the engine, on one device, on a local network and through a small cloud
service. This directory holds a formal specification of its core, the TLC
configurations that model-check it on small instances, and proofs for TLAPS.

- [The system](#the-system)
- [What is modelled](#what-is-modelled)
- [What each run shows](#what-each-run-shows)
- [Bounds, and why they are enough](#bounds-and-why-they-are-enough)
- [Fairness](#fairness)
- [What is proved](#what-is-proved)
- [Where the code and its documentation
  disagree](#where-the-code-and-its-documentation-disagree)
- [What is not modelled, and the plan](#what-is-not-modelled-and-the-plan)

Paths are relative to the repository's root. `PROJECT.json` maps every
definition to the lines it models and lists the hazards with their properties.

## The system

| Component | State it keeps | Operations | What is hard about it | What makes it correct |
|---|---|---|---|---|
| Rules engine (`crates/tgf-mill/src/rules`) | one `MillState`: board, hands, phase, obligations, capture targets, counters, repetition keys | `legal_actions`, `apply_to_state` and its three fast paths | some twenty variant options that interact over several plies; cached fields; fast paths that repeat the general code | a game never stops without a result, obligations never outlive their cause, results are earned, fast and general paths agree |
| Game kernel (`crates/tgf-core/src/kernel.rs`) | current snapshot, undo stack, redo stack | `apply`, `undo`, `redo`, `reset`, `replace_state` | repetition history is not stored but rebuilt from snapshots | the game is a line with a cursor; repetition is judged by the positions played |
| Search workers (`crates/tgf-frb/src/games/mill/search.rs`) | a thread per search, `ACTIVE_SEARCH`, a `PonderGate` and an abort flag per ponder, timer threads | start, stop, ponder stop, ponder hit, event stream | threads, an atomic with a condition variable, one slot for many workers, timers that fire late | nothing stale is published, stops arrive, released workers end |
| Game session (`src/ui/flutter_app/lib/games/mill/native_mill_game_session.dart`, `native_mill_ai_turn_controller.dart`, `game_page/services/controller/game_controller.dart`) | `_activePonder`, the turn in progress | human action, AI turn, take-back, New Game, Move Now | awaits between every two steps; the engine's events arrive in between | one search at a time, a ponder's answer is played in its own position, the AI's turn ends |
| Online room (`services/online-worker/src/game_room.ts`) | room state in durable storage: seats, tickets, actions, pending control, recent command ids; one alarm; sockets | create, join, ticket, socket, commands, alarm, cancel | an await in the middle of read-modify-write; one alarm for two deadlines; reconnects and repeats | two seats, one authoritative line of moves, a result is final |
| Online client (`online_play/cloud_match_coordinator.dart`) | revision, line, commands without an answer, request on display, reconnect loop | submit, request, answer, resign, leave, receive, reconnect | lost, late and repeated messages; a game that is restored over an await | what a user does is done to the line he saw; a quiet network leaves both at the room's line; a lost socket is not for ever |
| Search (`crates/tgf-search`, `MillWorkbench`) | transposition table, one position with an undo stack per thread | alpha-beta, MTD(f), PVS, MCTS, lazy SMP | a table shared without locks, aborts at any node, make and unmake | the value of plain minimax, forced wins, an unchanged position |
| FEN and set-up (`fen.rs`, `rules_setup.rs`, `state_impl.rs`) | edits a kernel's snapshot | export, import, set a piece, finish | a FEN says less than a position | a game goes on from its FEN as it stood |
| LAN and Bluetooth (`remote_play/`) | like the online client's, with a peer for a room | host, join, moves, controls | the peers decide together | the same line on both sides |

How they interact: the Flutter session owns a kernel by a handle and calls it
synchronously. A search or a ponder is an asynchronous stream: the call reads
the kernel's snapshot, starts a thread and returns events to the Dart event
loop. Stop and hit are synchronous calls that find the worker through the
process-wide `ACTIVE_SEARCH`. The room drives the same rules through a
WebAssembly adapter, and its clients replay its moves on kernels of their own.

## What is modelled

    MillState ── MillRules ─┬─ MillWorkbench ─┐
                            ├─ MillFen ───────┴─ MCMillRules ─┐
                            ├─ MillHistory ───────────────────┴─ MCMillHistory
                            │     └─ MillHistoryProofs (and MillGameProofs)
                            ├─ GameKernel ── MCGameKernel
                            │     ├─ implements GameLine
                            │     └─ GameKernelProofs (and MillGameProofs)
                            └─ MillGameProofs ── MillResultProofs
                                     ── MillPositionProofs
                                         (and MillWorkbench, MillFen)

    EngineSearch ─┬─ MillPonder ── MCMillPonder
                  └──────┴─ MillPonderProofs

    GameRoom ── OnlineMatch ── MCOnlineMatch      TableSearch ── MCTableSearch
                     ├─ implements AgreedMatch
                     └─ OnlineMatchProofs ── OnlineClientProofs

**MillState** is the data of a position: the options of a variant, the record
of a `MillState`, and the operators on it (mills, capture targets, protection,
counts, the cached action). A board is a parameter (nodes, neighbours, mill and
capture lines), because nothing in the rules depends on the 24 points.

**MillRules** is the state machine: `legal_actions` and `apply_to_state` with
its `Place`, `Move` and `Remove` branches, everything they call (stalemate, full
board, n-move rule, repetition, end of placing) and the three fast paths.
A step applies one legal action. The control of the source is kept branch by
branch; these representations differ:

- The counts of capture targets are derived from the target sets; Zobrist
  hashes are the signatures they hash (board, marks, side); `used_mill_lines`
  is the set of points the engine really records; `move_number`,
  `preferred_remove_target`, mobility counters and the order of generated
  moves are left out, as no rule reads them.
- `piece_count == 12` is `FillsBoard` (twice the pieces equals the points), and
  24 is the number of points.
- The Ready phase is left out: every game starts by placing.
- Repetition keys are recorded only where the code adjudicates, after quiet
  moves, and only under `threefold_repetition_rule`.

**MillWorkbench** is the position a search works on: `do_move` applies an action
and pushes an undo record, `undo_move` puts it back. A record is what the source
makes it, depending on the options: some fields whole (fewer under the standard
rules), some cells of the board or all of them, and the repetition keys if the
action may drop some. Its property takes every action of every position that the
rules reach and undoes it, two deep where a removal follows.

**MillFen** is `export_fen` and `set_from_fen` as functions between positions
and records of a FEN's fields. Signs, the counts and tokens of obligations, the
inferences of the reader ("remove" with nothing owed owes one; a mill if there
is no capture) and its end-of-game checks are kept; spelling, malformed text and
the move number are not.

**MillHistory** adds an observer of the board to MillRules: the mills that have
earned a removal and the last move of each side. Its properties are about the
rules "a mill pays once" and "no shuttling between two mills", judged without
the record that the engine keeps for them. It notes only what the rules in force
speak of, so that games without them gain no states.

**GameKernel** is `kernel.rs` over these rules: snapshots, two stacks, and the
repetition history rebuilt before a move. **GameLine** is the abstract
specification: a line of positions with a cursor. `Line` is the refinement
mapping.

**EngineSearch** is `search.rs`: one worker per thread with the phases of
`run_mill_engine_config_event_stream`, the `ACTIVE_SEARCH` slot, a `PonderGate`
per worker and the timers of granted hits. Its control-flow points are

| phase | the worker is about to |
|---|---|
| spawned | publish its handles in `ACTIVE_SEARCH`, or refuse the root |
| registered | (ponder) announce itself to its reader |
| searching | return from the search |
| gate, checked, waiting, released | look at the gate, go to sleep, sleep, look again |
| publishing, clearing, done | send its best move, clear the slot, nothing |

What is abstracted: the search's result; how it can end is kept ("shallow"
reaches its depth, "timed" needs its deadline, which a ponder search does not
have, "endless" has neither). A lookup in `ACTIVE_SEARCH` and what is done with
it are one step where the code holds its mutex, and in `request_ponder_hit`,
where the exchange follows the unlock, because no other synchronous call can
come in between: one Dart isolate makes them all. The gate's state and its
condition variable are separate, and a check and the sleep after it are two
steps. Condition variables may wake up spuriously. A stream whose reader has
gone is a member of `closed` (that part stands for flutter_rust_bridge).
`promoted` is a history variable. Request ids are worker names. Progress events
are left out.

**MillPonder** extends it with the Dart session: a human against the engine
with pondering on. What runs between two awaits is one step. `asked` is
`_activePonder` with the locals of its `_runPonder`, `turn` says which await
the AI's turn stands at:

| turn | awaiting |
|---|---|
| human | the user |
| undo | `cancelPonder`, in a take-back |
| take | the controller's loop, before `takePonderedAction` |
| hit | `ponder.result` of a granted hit |
| drain | `cancelPonder`, before an ordinary search |
| search | `searchBestAction` |
| apply | about to apply the engine's move |

The kernel call that starts a ponder (`tgf_kernel_mill_ponder_events`) runs
later and reads the position of that moment (`LaunchPonder`, `RefusePonder`).
A position is abstracted to the human turns answered so far and the actions of
the current one; the engine's own moves are left out since they follow from
these. New Game and take-back are allowed on the human's turn. Several undo
calls of one take-back are one step to the turn boundary they go to.

**GameRoom** is the durable object: storage, its alarm, a socket per seat and
the messages on their way. One handler is one step, because the storage holds
other events back while it is read and written and the steps between are
synchronous, save for `join`, which awaits the body of its request after it has
read the room: `BeginJoin` and `FinishJoin`. A digest is taken not to let other
events in; if it did, `acceptSocket` and `issueTicket` would have the race of
`join`. The rules are parameters (the adapter is a stateless call). Rate limits,
protocol and rules negotiation, and secrets (a ticket is the right to one
connection) are left out.

**OnlineMatch** composes two clients with it. A client's fields are those of
`CloudMatchCoordinator`; `stage` is where `_connectAndAwaitWelcome` stands
(ticket, connect, welcome), `game` the line that the Mill session shows.
Messages are handled one after the other as `_inboundSerial` does. One with
another line than the game shows awaits `restoreSnapshot`: `BeginMessage`,
`EndMessage`, with the user, timers and the socket in between; any other is one
step. Connections break on one side first (`sockets` says "deaf" until the room
notices), requests fail, answers come too late, the app restarts from its saved
session, commands are sent again after a welcome. `applied`, `refused` and `overdue` are
history variables: the commands that took effect, and those whose sender was
told that they failed, since the room refused them or their time ran out. Both
are the same `false` to the user (`told`). Commands still on their way when their socket is replaced are
dropped.

**AgreedMatch** is the abstract specification: what a match promises, whatever
carries it. The room alone does not keep it, since `respondControl` has no look
at the status and `resign` and `leave` keep an open request; with its clients it
does, and that is what the refinement shows.

**TableSearch** is one move's search: iterative deepening over alpha-beta or
MTD(f) on one cluster of the transposition table, by one or two threads. A step
looks into the table once or writes one slot of it (the choice of the slot and
the write are two steps, as they are two atomic accesses). A thread is

| mode | the thread is about to |
|---|---|
| next | start the next iteration, or answer a root with one move or none |
| enter | look at a node: end of the game, depth, table |
| moves | try a move, give up, or end the loop |
| store | write the entry it has chosen a slot for |
| return | hand a value to the node above, or end a pass |
| done | nothing; `result` is what it has published |

The game is a parameter: a tree with transpositions whose moves need not pass
the turn. Move order is a choice (but for the first move at the root). Left out
are quiescence deeper than its default of 0, null moves (off), repetition and
n-move cuts, MultiPV, PVS and MCTS.

`MC...` modules give boards, variants and human turns to TLC. Operators named
`BUG_...` are plausible mistakes in the definition after them: each property is
shown to fail under at least one (`mutants` in `PROJECT.json`).

## What each run shows

All runs below end without an error except those of the last table.

| Run | Checks | Shows |
|---|---|---|
| sector_games | TypeOK, OngoingHasLegalAction, ObligationsCoherent, MaterialAccounted, PhaseFollowsHand, ResultIsEarned, PathsAgree, UndoRestores, FenKeepsTheGame, MillProtection | standard games with and without flying and with repetition keys, each capture rule and all together, each action a mill can have while placing: a game never stops without a result, leaves no stale target, keeps its counters, takes pieces from mills only where all stand in mills (or did when a pair was offered), plays alike on the fast and general paths, is unchanged by what a search tries and takes back, and goes on from its FEN at any moment |
| ring_games | OngoingHasLegalAction, ActionCoherent, LossDeclaredAtOnce, StalemateMeansNoMove, NMoveRuleBites, GameEnds, PaidMillPaysNoMore, NoShuttleMill | each stalemate action, each full-board action with either first mover, their combinations, and flying Lasker games: losses are declared when they happen, the n-move rule draws when it should, and every game ends; an observer of the board agrees with the engine's records: a mill pays once, and a piece does not shuttle between two mills |
| game_session | ThreefoldIsDrawn, SearchSeesRepetitions, ImplementsGameLine | repetition is drawn at the third observation exactly, whatever undo and redo did; the kernel is a line with a cursor |
| search_workers | SearchTypeOK, BestMoveNeedsHit, RegistrationIsLive, GateMovesForward, ReleasedWorkerEnds | two workers under any calls: streams well formed, no unasked best move, no dead registration, no revived ponder; a worker stopped or hit before it looks at its gate ends |
| ponder_session | SessionTypeOK, OneSearchAtATime, HitIsForThisPosition, TurnOnlyHangsUnattended | the session never runs two searches nor waits for a hit in another position; every AI turn and take-back ends, or hangs on a worker that missed its wake-up or was cancelled before it could hear it |
| online_match | OnlineTypeOK, AnswerIsTrue, QuietMeansAgreed, WinnerIsTheRooms, ActsOnWhatItSaw, KeepsTheMatch | two clients, a room and a network that fails once: the room and its clients keep the promise of AgreedMatch; a command takes effect only on the line its user saw; a command that is reported as failed because the room refused it had no effect, however often it was sent; when nothing is on its way a connected client shows the room's line and request, and no client shows a winner that the room does not have |
| online_recovery | Reconnects | a client that loses its socket, and again while it reconnects, comes back, gives up or learns that the room is gone |
| table_search | TableIsTrue, PublishedIsMinimax, WinsAreForced | the entries that a lone search leaves are true bounds of minimax at their depth; what it publishes, also when it is aborted at any later node, is the minimax value and a move that has it; both up to answers of the table that are deeper than what was asked; a win or a loss that any thread stores or publishes, with two on one table, is forced |

| Run | Violated | See |
|---|---|---|
| double_join | JoinsOnce | finding 1 |
| lost_wakeup | HitIsAnswered | finding 2 |
| cancelled_ponder | CancelReachesWorker | finding 3 |
| late_answer | ResignSaysWhetherAccepted | finding 4 |

LossDeclaredAtOnce and StalemateMeansNoMove are checked on the ring, whose
variants have neither mills that take from the hand nor leaps; they do not hold
of those (see what was seen without a run).

TableIsTrue and PublishedIsMinimax speak of lone threads, and of minimax as far
as depth decides it. An entry answers a query of its own depth or a shallower
one (`tt.rs:369`), and a forced reply does not count as a ply, so that one thread
that meets a position over a forced and a free move stores the deeper value and
uses it where the shallower was asked; what it then stores, and may publish, is
minimax at neither depth. `Minimax` therefore gives a range: each position may be
answered at its own depth or at any deeper one that the iteration can have
reached it with, which `Distances` bounds. Where all ways to a position are
equally long the range is one value. In `Narrow` and `Deep` they are not, and an
exact value would be violated there.

With two threads on one table even depths of another iteration answer, so that
no such bound is left; WinsAreForced is what is, and all that play relies on.

`CHECK_DEADLOCK FALSE` is set for the rules, the kernel and the tree search
because games and searches end (OngoingHasLegalAction says that a game stops
nowhere else), for the match because its events are bounded, and for the session
because finding 3 lets it hang and its games are bounded.

## Bounds, and why they are enough

- *Boards.* The **ring** is the inner square with its four mills (8 points), the
  **sector** the top third of the board with its rows, its spoke and, on the
  diagonal board, its columns (9 points; 3x3 grid), the **arc** the ring cut
  open (7 points). Every kind of line, crossing mills, full boards and blocked
  sides occur on them. Node numbers and line order are the source's.
- *Pieces.* Four a side (`piece_count`) fill the ring and leave one point of the
  sector: flying, jumping captures, several mills at once and full boards all
  occur. An intervention that takes its second piece from a closed mill needs
  six in two mills: `Crowded` has six a side on the sector, and the constraint
  `InTwoMills` follows only those games of this variant that keep side 0 to two
  of its rows and side 1 to the third; it leaves the other variants alone. On the
  ring `pieces_at_least_count` is 2 (1 where shuttling is watched), so that play
  goes on after a removal, and the n-move limits are 2 to 10 plies instead of
  100.
- *Variants* are small sets, one per feature and its known interactions. The
  product of all options is not explored; the proofs cover all of it for what
  they prove.
- *game_session*: the snapshot keeps 2 keys (24 in the source), so the rebuilt
  history matters after the third ply; the n-move limit of 10 is one ply more
  than the third occurrence takes; games from the empty board are followed for
  two plies and repetition is explored from a set-up position.
- *HistoryCap* (256 in the source, more than the n-move rule lets a game
  collect) is 2 on the sector, so that undo and FEN meet a history that has
  dropped keys, and out of reach elsewhere.
- *Workers.* Two threads: a slot holds one, so two are what it takes to overlap,
  to leave a stale entry or to be hit by another's stop. A finished thread is
  reused for the next search, with as many searches as one likes. lost_wakeup
  needs one.
- *Sessions.* `MaxTurns` = 2 answered turns, so a ponder follows a ponder, hit
  or missed; human turns are a quiet move, a mill with its removal (a turn of
  two actions) and a winning move. `GameEfforts` leaves out a search without any
  limit, which the app's settings do not start in a game with a move time or
  level in force.
- *Matches.* A game of two moves of which the second wins, and a board
  transformation that renames moves, so that a line differs from its image.
  `MaxEvents` counts the users' commands and the losses of the network together:
  3 with one loss (a request, its answer and a broken connection; two moves and
  a resent one) in online_match, 2 losses in online_recovery.
  `MAX_RECENT_COMMANDS` is 2 (64 in the source): the window fills and slides;
  for a command to be repeated after the room has forgotten it takes more events
  than are allowed, and 64 commands in the app. The room's end of life finds no
  message on its way: a room lives for hours. One joiner is enough except for
  double_join.
- *Searches.* Trees of up to three plies searched to depth 2 and then 3, with
  positions reached twice and at two depths, leaves of two values, wins and
  losses at either ply, forced replies (which search deeper, also to a position
  that another move reaches without one) and a side that moves twice; two or three slots for eight positions, some of them filled by an
  older generation. Only lone searches are aborted; the pairs of threads play on
  a narrower tree.

## Fairness

- Rules: the side to move eventually acts (`PlayersAct`). Only GameEnds uses it.
- Workers: each thread is scheduled and each sleep ends (weak fairness per
  worker and per timer). Nothing makes Dart call, a reader leave or a condition
  variable wake up by itself. The last one matters: with it, finding 2 would
  vanish, and no operating system promises it.
- Session: the Dart event loop handles what is due (weak fairness of `Session`
  and of `PonderRun`), as it handles completed futures and stream events. The
  user need not do anything.
- Match: requests that a client makes while it connects are answered, received
  messages are handled and the end of a connection is read (weak fairness of
  `Connecting`, `Handling` and `ReadClose` per seat). Nothing is assumed of
  users, losses, timers or the end of the room. Only Reconnects uses it.

## What is proved

For every value of the constants that meets the assumptions below, each theorem
by an inductive invariant.

| Module | Theorem | Property |
|---|---|---|
| MillGameProofs | TypeCorrect, ActionAlwaysCoherent | TypeOK, ActionCoherent |
| | ObligationsAreCoherent, PhaseIsTheHands, MaterialIsAccounted, NMoveRuleIsKept | ObligationsCoherent, PhaseFollowsHand, MaterialAccounted, NMoveRuleBites |
| MillResultProofs | LossIsDeclared, ResultsAreEarned, BlockedSideHasNoMove, MillsAreProtected, CalmInvariant | LossDeclaredAtOnce, ResultIsEarned, StalemateMeansNoMove, MillProtection |
| MillPositionProofs | SearchRestores, ShortcutsAgree, FenCarriesTheGame | UndoRestores, PathsAgree, FenKeepsTheGame |
| MillHistoryProofs | MillsPayOnce, NoMillIsShuttled | PaidMillPaysNoMore, NoShuttleMill |
| GameKernelProofs | StacksAreSequences, KernelImplementsGameLine | ImplementsGameLine |
| | LineCarriesItsRecord, ThreefoldDrawnExactly, SearchIsToldRepetitions | ThreefoldIsDrawn, SearchSeesRepetitions |
| MillPonderProofs | WorkersWellFormed, BestMoveWasAskedFor, RegistrationStaysLive, GatesMoveForward | SearchTypeOK, BestMoveNeedsHit, RegistrationIsLive, GateMovesForward |
| | SessionsAreSearches, SessionsKeepTheGate, SessionWellFormed, SessionsSearchOnce, HitsAreForTheBoard | SessionTypeOK, OneSearchAtATime, HitIsForThisPosition, and those of the workers in every game |
| OnlineMatchProofs | MatchWellFormed, WinnersAreTheRooms, RoomKeepsTheMatch, OneJoiner | OnlineTypeOK, WinnerIsTheRooms, KeepsTheMatch |
| OnlineClientProofs | CommandsActOnWhatWasSeen, QuietClientsAgree, OneJoinerAgrees | ActsOnWhatItSaw, QuietMeansAgreed |
| | RefusalsAreFinal, AnswersAreTrue, ShortMatchesAreTrue | AnswerIsTrue |

### The rules

The proofs go bottom-up through the helpers of a ply, on any board and for any
set of variants.

- *Types* (`Inv`, MillGameProofs). `Coherent` is membership in `MillStates` and
  `Synced`: the action byte that move generation dispatches on is the one
  `sync_action_state` would compute. Types alone are not inductive: a removal is
  applied for the side whose byte says Remove, and hands stay naturals only
  because a placement is generated for a side that the byte says has pieces.
- *Games* (`GameInv`, MillGameProofs) is `Good`: `Coherent` and `Sound`, which is
  `Due` (who owes what, and for which targets), `Phased` (a side that owes
  nothing is placing exactly while it has pieces in hand), `Swept` (no marks in
  the moving phase once both hands are empty), `Counted` (the counters are those
  of the board, and no side has more than `piece_count`) and `Paced` (where
  nothing is owed the counter is below the threshold in force).
  The parts need each other: obligations say what a ply may do, the counts
  decide when the moving phase is entered and which threshold is in force, and
  the targets on offer decide whether a removal takes a piece that is counted.
- *Results* (`ResultInv`, MillResultProofs) adds `Judged`: a game that goes on
  has both sides at the minimum; one that ended for material, for lack of moves,
  on a full board or by the counter bears its reason out.
- *Protection* (`FairInv`, MillResultProofs) adds `Fair`: capture targets on offer
  may still be removed, none is one of a pair, and no other removal is owed with
  them but one for a mill. (The pairs of an intervention are what the
  property makes an exception for, and the theorem is about variants without
  them.) They were looked for when the capture was detected;
  that they may be taken later is a fact about another position, and holds
  because no other removal comes between.
- *Calm* (`CalmInv`, MillResultProofs) adds `Calm`: what a reader of the position
  would look for, a full board or a blocked side, has been dealt with. It rests
  on the order in which the handlers check: a stalemate is looked for after
  everything that can change the side to move or the board.
- *FEN* (MillPositionProofs). `FenCarriesTheGame` is field by field what a FEN
  writes and what its import makes of it: the obligations are read back since
  `Due` leaves one side to owe them, and the checks at the end of the import find
  nothing in a position that is calm and has enough material.
- *Searches* (MillPositionProofs). `Undoable` says what a record must find to put a
  position back: off the cells it keeps the board is unchanged, what a standard
  record leaves out is at rest, and the repetition keys were kept or dropped by
  an action that saves them. It holds after every action, so `undo_move` after
  `do_move` is the identity. For the fast paths, `Shown` and `Alike` say which
  part of a position `apply_to_state` and its shortcut must leave alike.
- *Repeated mills* (MillHistoryProofs) relates two memories of a game: the
  engine's (`formed_mills`, `last_mill_from`, `last_mill_to`) and that of an
  observer who has only seen the board. `Recorded` says what a turn must write
  down, and that every path through placing and moving does: nothing of the
  opponent, every line completed, and the move itself if it earned something.
  So the lines paid for are formed mills (`PaidIsFormed`), which leaves nothing
  usable in them, and a move from mill to mill is the last one noted
  (`ShuttlesAreNoted`), so that its return is one of the moves that
  `generate_move_actions` leaves out. Both bridge any number of removals and
  turns of the opponent.

### Kernel, workers and sessions

- *Kernel.* Each operation is `Play`, `Undo`, `Redo` or `Restart` of GameLine
  under the refinement mapping, given that both stacks are sequences.
- *Repetition*. `KernelInv` says of every position of the line, those undone
  included, that its snapshot carries the last keys of the full record of the
  game that led to it, and that this record is no longer than the plies since
  the last capture (`RecordInv`). A scan of the snapshots backwards then finds
  exactly the quiet steps since the last irreversible one, so what the kernel
  rebuilds before a move is the full record although each snapshot keeps only
  the end of it. This needs three facts about a ply of the rules: repetition keys
  decide nothing but the draw (MillGameProofs ends with lemmas on which fields
  each helper of a ply leaves alone), placing and removing forget them, and a
  move either is recorded or owes a removal. `Ascending` turns the set of quiet
  steps into their list; that it lists each of them once, in order, is proved by
  counting ranks, without induction.
- *Workers*, for any number of them and of positions. From the published event
  back: what was sent was entitled to (`BestMoveEarned`), since a ponder worker
  reaches publishing only through a gate that is HIT (`PublishingEarned`), which
  only a hit for its own root sets (`GateEarned`). That a worker starts with an
  empty stream and sends one best move is `StreamsFit`. Whoever is registered is
  running, so a thread that starts is not the registered one, and whoever clears
  has `ACTIVE_SEARCH` in its own name or leaves it.
- *Sessions*, for any number of workers, turns and plies. `SessionsAreSearches`
  shows that a game is one of the ways in which Dart may call the workers, so
  what holds under arbitrary calls holds in every game. The session's own
  invariant is `SessionInv`: `TurnFits` and `PonderFits` tie the stage of the AI's
  turn and of the held ponder to their workers, `OnlyTheAwaitedRuns` leaves
  no worker running but the one of the held ponder or of the turn, and `HitHeld`
  keeps the position of a granted hit. `OneSearchAtATime` alone is not inductive:
  it does not say that the worker left over is the one the next step waits for.

### The online match

`MatchInv` relates the room, both clients and every queue between them:
`RoomFits`, `BeforeTheStart` (nobody acts in a room that has not begun),
`SeatsFit` (revisions and messages never run ahead of the room; whoever has
reached the revision of the end knows of the end, because every queue holds the
news of the end before anything later) and `LateAnswers` (an answer under way to
a request of a match that has ended carries an old revision). This is what
keeps a result, as `respondControl` does not look at the status. Every step of
the composition is then a step of AgreedMatch or leaves its variables alone
(`RoomKeepsTheMatch`).

`LineInv` adds what the clients show. A message tells of the line (a snapshot),
of the open request (a `controlRequest`, or the pending control of a status) or
of neither, so what a client will show at a place of its queue is the last thing
told before it. `InOrder` says that revisions only grow from the client's own
over the message in hand to the end of the queue, and that a client in the
middle of a message already shows its line; `InStep` says that

- a client at the room's revision shows the room's line (`AtRevision`), and so
  does its saved session (`Resumable`);
- at every place on the way where the room's revision stands, line and request
  are known (`OnTheWay`), and an open socket's queue ends at such a place
  (`ReachesTheRoom`);
- a command given at the room's revision was given in sight of the room's line
  (`SeenByItsUser`), and whoever waits for an answer is not being asked
  (`AskerWaits`).

ActsOnWhatItSaw is `SeenByItsUser` of a command that the room finds current,
QuietMeansAgreed is `ReachesTheRoom` of an empty queue. What makes the invariant
inductive is an order in the code: the client shows a snapshot's line, awaits
the game, and only then counts the revision, so that the user's command in
between still carries the old one.

`RefusalInv` follows a refusal through the three places where it may be: the
room's last answers, the messages on their way, and its sender. The same command
may still be on its way once more, and the room may have forgotten that it
refused it; what keeps it from taking effect is its revision. It is *spent*
(`RefusalsAreSpent`): made for a revision that the room has left, or for the one
at which the room still stands just as it was when it refused. The revision
grows with every change that could make a difference, so what is spent stays so.
That a new command is not spent already is that no identifier is refused before
it is given (`RefusalsAreOld`). The one step that puts the room back to a
revision it had, the join that seats the second player, happens before anything
has taken effect and makes the room move on at once; the joiner's new client
starts its numbers again, and nothing refused so far bears its seat
(`RefusalsAreTheCreators`).

So a refusal is final without any bound (RefusalsAreFinal). A sender may be told
of failure by his timer alone (`overdue`), which says nothing of the room (finding
4); but for that the only way for an answer to be false is the opposite order: a command takes effect, the room
forgets it, and a copy of it is refused. `EffectsRemembered` says that this does
not happen, and AnswersAreTrue needs nothing else. In a match of no more than
MAX_RECENT_COMMANDS commands (`FewCommands`) it cannot (ShortMatchesAreTrue):
the room remembers each command once (`RecordInv`), and counting the identifiers
given so far shows that there is always a place left for a new one.

### Assumptions

On constants, checked by TLC on every run:

- `BoardAssumption`: finitely many points, neighbours among them, standard lines
  of three points each, capture lines that are triples with two different ends,
  and a history that may hold a key.
- `VariantsAssumption`: variants are well typed, there are pieces, and no fewer
  of them than a side must keep (`MillVariantOptions::assert_valid`,
  `crates/tgf-mill/src/rules/mod.rs:383-395`, which the rules' constructor calls).
- `KernelAssumption` (a snapshot keeps a key or more, set-up positions are well
  formed), `WorkerAssumption` (`NoWorker` is no worker, there is a position),
  `TurnAssumption` (human turns are lists of actions, winning ones are among
  them, one turn or more is played), `PositionAssumption` (the positions of a
  game are positions of the workers) and `RoomAssumption` (the creator takes one
  of the two seats).

As hypotheses of a theorem, where the code does not keep the property without:

- ThreefoldDrawnExactly and SearchIsToldRepetitions: `SetupsArePositions`, a
  position set up is one of the rules from which nothing has been played, and
  `RepetitionFits`, a variant with threefold repetition has an n-move rule, which
  ends the game before its keys outgrow their buffer. A source variant allows 10
  to 200 plies, or 0 for none, and 256 keys, so this leaves out threefold
  repetition without an n-move rule: there the buffer drops the oldest keys.
  game_session's variants and positions meet both.
- MillsPayOnce: `OnlyMillsPay`, since a turn that completes used mills only may
  still earn a removal by a capture, at the start of the moving phase, or from a
  blocked side or a full board.
- NoMillIsShuttled: `NotesEveryMill`, that is no leap captures and no one-time
  mills. A leap is settled before the mill it closes is noted, and a line that
  has been used is not noted again; see what was seen without a run.
- LossIsDeclared and ResultsAreEarned: `LostOnTheBoard`, that is no mills which
  take from the opponent's hand and no end of placing that drops both hands.
- FenCarriesTheGame: `LostOnTheBoard` as well, since the import would declare a
  loss that play has missed; and no `ChangeSideToMove`: play looks at one side
  per action, so that where both are blocked the import passes the turn once
  more.
- BlockedSideHasNoMove: no leap captures. This and LostOnTheBoard leave out what
  is real, see what was seen without a run.
- MillsAreProtected: no intervention captures. What a pair may take is checked
  by sector_games.
- The match: `LinesTransform` (a board transformation maps lines to lines) and
  `[]JoinsOnce`, which finding 1 violates; `OneJoiner` and `OneJoinerAgrees`
  replace it by there being one joiner.
- AnswersAreTrue: `[]EffectsRemembered`, a command that took effect is still
  among those the room remembers when a copy of it arrives. The window of 64
  does not ensure it in a long match, and with a window of one TLC finds the
  copy that is refused although the command was applied. ShortMatchesAreTrue
  replaces it by `[]FewCommands`.

### Only model-checked

- *All liveness* (GameEnds, ReleasedWorkerEnds, TurnOnlyHangsUnattended,
  Reconnects), which is beyond TLAPS.
- *OngoingHasLegalAction* speaks of the graph: whether a removal that is owed
  finds a piece depends on how many mills few pieces can make, and whether a
  blocked side has a neighbour to take on how the points are connected.
- *TableIsTrue, PublishedIsMinimax, WinsAreForced*: values are minimax of a tree,
  so that they rest on induction over data, which the installed provers cannot
  do.

## Where the code and its documentation disagree

1. **double_join.** `join` checks the invitation in a state it read before it
   awaits the request's body and writes that state back
   (`game_room.ts:299-353`). A second join in between is seated too, and the
   first one's token is overwritten. The test at `worker.test.ts:72` says that
   an invitation "joins once".
2. **lost_wakeup.** `hit` and `stop` notify without the mutex that
   `wait_for_release` holds (`search.rs:86, 92`). A notification between its
   check and its sleep is lost, and the promoted search never answers.
3. **cancelled_ponder.** A ponder cancelled after the kernel was called and
   before its worker registered is never stopped
   (`native_mill_game_session.dart:862`); `cancelPonder` then waits for good.
4. **late_answer.** The timer of `_sendCommand` completes a command with `false`
   (`cloud_match_coordinator.dart:746-751`), as a refusal does, while the room may
   have applied it. `resign` is documented to return "whether the remote side
   accepted the command" (`remote_match_controller.dart:214`); in the run it
   denies a resignation that has ended the match. A move is reported the same
   way as "rejected" (`tap_handler.dart:286-291`, `game_controller.dart:1150-1155`
   for transformations of the board).

ponder_session shows that 2 and 3 are the only ways in which a turn of the
modelled session hangs.

### What was seen without a run

The modules show these when they are asked; no run repeats them, and the
definitions or variants to ask with are named.

- *From the hand.* Mills that remove from the opponent's hand
  (`legal_apply.rs:690`) never compare what is left with the minimum, though the
  comment at `legal_apply.rs:1045` declares that loss "immediately".
  LossDeclaredAtOnce on `FromHandLaskerVariants`.
- *Leaps.* A side whose only moves are leap captures is declared blocked
  (`evaluation.rs:333`). StalemateMeansNoMove on `LeapVariants`.
- *Mills that are not noted.* A move that leaps is settled before the mill it
  closes is noted (`legal_apply.rs:827`), so once the opponent has put another
  piece in between the leap back is offered; and with
  `one_time_use_mill` a piece may shuttle between two mills that were both used.
  NoShuttleMill with leap captures on a board of two mills joined by a capture
  line, and on `Restricted` with one-time mills.
- *Overlapping searches.* An ordinary worker that ends late clears the entry of
  the ordinary search after it (`search.rs:1474`); stops no longer find it.
  RunningSearchIsReachable of EngineSearch.
- *Move Now.* On a promoted ponder it throws the result away (`search.rs:1389`)
  and the turn searches again from the start. MoveNowIsAnswered of MillPonder.
- *A room from the dead.* A join that is under way when the creator cancels
  writes the room back, active, and with no alarm to end it
  (`game_room.ts:353`). This is why `Begin` of AgreedMatch may follow "gone".
- *Answers after the end.* `respondControl` does not look at the status, so by
  itself the room would reopen a match that has ended under a request. With the
  modelled clients such an answer carries an old revision (KeepsTheMatch).
- *FEN at the limit.* Reading a FEN draws a game at the n-move limit while a
  removal is owed, which play leaves to the removal (comment at
  `legal_actions.rs:147`). FenKeepsTheGame spells the exception out, and that a
  FEN forgets whether a removal is owed for a mill when a capture is open too.
- *Two mills in one capture.* An intervention takes a pair, piece by piece. When
  all of the opponent's pieces stand in two mills, the first piece of the pair
  opens one of them, and the second is then taken from the closed one although
  free pieces exist: `filter_capture_targets` (`captures.rs:135`) looks when the
  capture is detected. MillProtection names this case and no other
  (`LeftOfPair`); without it the property fails on `Crowded`, in sector_games.
- *Ties.* A comment on `check_pieces_at_least` (`state_impl.rs`) gives the win
  to Black when both sides are short; the code gives it to White.
- *A move that loses the win.* With a shared table the root's cutoff in MTD(f)
  may publish the first move in order with a score that another move earned.
  PublishedMoveKeepsTheWin of TableSearch on `SharedSearches`; the comment of
  `search_mtdf_with_guess` denies it.
- *Bounds of aborted searches.* The root saves an entry after an abort, in the
  generation that a search reusing the table goes on with. TableIsTrue leaves
  aborted searches out for this reason.
- *One-time mills* are recorded as a union of points (`transitions.rs:334`), so
  a mill completed for the first time may earn nothing once other mills have
  covered its points. No document says otherwise; PaidMillPaysNoMore speaks of
  mills that were paid for.
- *New Game in the AI's turn*, from reading only. `reset` stops the search,
  resets the same session and lets the next turn start
  (`game_controller.dart:2032-2051`). Its comment says that this signals the
  running human-against-AI loop "to bail out", but only the AI-against-AI loop
  looks at the signal. `playIfAiTurn` goes on after its await: the old search's
  answer, where it is legal, or that of a new search, is played in the new game.

## What is not modelled, and the plan

Left out of what is modelled:

- *Rules*: the Ready phase, move ordering and evaluation.
- *Session*: New Game and history navigation during the AI's turn, AI against
  AI, resignation by the engine, the analysis and live-evaluation services,
  which share `ACTIVE_SEARCH`.
- *Room and client*: protocol checks, rate limits, the futures that a control
  request completes, ratings, the await of the session store, HTTP retries. A
  time-out and a failed request are one kind of loss.
- *FEN and set-up*: editing a position piece by piece and malformed text. The
  editor accepts positions that no game reaches, such as a full board with
  pieces in hand; MillRules starts from those of a game.
- *Search*: PVS and its deepening (used by the command line only), MCTS,
  MultiPV, and the cuts for repetition.

Next, in this order:

1. A proof of OngoingHasLegalAction on boards that are connected.
2. **MillSetup**: the set-up calls with `finish`, and play from what they
   accept.
3. New Game and navigation during the AI's turn, as a second driver in
   MillPonder; analysis as another consumer of EngineSearch.
4. LAN play, as a second transport under AgreedMatch.

Not planned: the perfect database (tables computed elsewhere), the command line
tools (sequential file processing over the same rules), evaluation weights,
opening books and skill levels (quality, not correctness), Othello, the session
registry (one-step operations), the HTTP relays and the rule adapter (stateless)
and the user interface.
