---------------------------- MODULE Orchestrator ----------------------------
(***************************************************************************)
(* The dry-run process and its database:                                   *)
(*   bot/runner/orchestrator.py  DryRunOrchestrator                        *)
(*   bot/main.py                 build_dry_run_stack: reset or restore     *)
(*   bot/storage/storage.py      SQLiteStorage, one transaction per call   *)
(*   scripts/run_dry_run_ws.py   one update at a time; an exception ends   *)
(*                               the process                               *)
(*                                                                         *)
(* A closed bar is decided on and executed in memory, then written to the  *)
(* database by a series of awaited calls, each committed by itself, and    *)
(* only then does the process take the next update.  It may die between    *)
(* any two of them; a new process resets or restores its state.            *)
(*                                                                         *)
(* market, trades, book, stopped_books and deaths are not in the program:  *)
(* the newest bar the exchange has sent, the fills that reached the saved  *)
(* state, the number of resets, the books in which the strategy asked for  *)
(* a safe stop and its event was recorded, and how often the process died. *)
(***************************************************************************)
EXTENDS CandleUpdateBuffer, DryRunExecutor, CandleClock, BotStateTables

CONSTANTS Shapes,           \* the OHLC contents of a bar
          MaxBar,           \* bound on the bars
          MaxDeaths,        \* bound on the deaths of the process
          StartPolicies,    \* the values LIVE_START_POLICY takes over the restarts
          Bot               \* this process's (mode, symbol, timeframe)

ASSUME BoundsAssumption == MaxBar \in Nat \ {0} /\ MaxDeaths \in Nat
ASSUME ShapesAssumption == Shapes \subseteq [open : Nat, high : Nat, low : Nat, close : Nat]
ASSUME PoliciesAssumption == StartPolicies \subseteq {"reset", "restore"}
ASSUME BotAssumption == Bot \in Bots
ASSUME KeyAssumption == None \notin (OpenTypes \cup CoverTypes) \X Int
ASSUME IntentAssumption ==
    None \notin [intent_id : (OpenTypes \cup CoverTypes) \X Int,
                 intent_type : OpenTypes \cup CoverTypes, qty : Int, price : Nat]

VARIABLES
    pc,                 \* "down", "idle" (waiting for an update) or "writing"
    buffer,             \* CandleUpdateBuffer
    runtime,            \* DryRunOrchestrator.runtime_state
    last_processed,     \* DryRunOrchestrator._last_processed_close_time
    work,               \* what is left of the bar, or of the warmup, being written
    db,                 \* the tables
    market, trades, book, stopped_books, deaths

process == <<buffer, runtime, last_processed>>
history == <<trades, book, stopped_books, deaths>>
vars == <<pc, process, work, db, market, history>>

Bars == 1 .. MaxBar

CandleOf(t, s) ==
    [close_time |-> t, open |-> s.open, high |-> s.high, low |-> s.low, close |-> s.close]

Candles == {CandleOf(t, s) : t \in Bars, s \in Shapes}

ASSUME CandleAssumption == None \notin Candles

-----------------------------------------------------------------------------
(* Work: the storage calls of one handler, in its order, with the state to   *)
(* save, the key of the filled intent, and the bar the handler ends with     *)

NoWork == [calls |-> <<>>, state |-> CleanState, filled |-> None, bar |-> None]

Begin(calls, state, filled, bar) ==
    /\ pc' = "writing"
    /\ work' = [calls |-> calls, state |-> state, filled |-> filled, bar |-> bar]

\* The next call commits.
Commit(call) ==
    /\ pc = "writing"
    /\ work.calls # <<>>
    /\ Head(work.calls) = call
    /\ work' = [work EXCEPT !.calls = Tail(@)]

-----------------------------------------------------------------------------
(* Start *)

\* CandleUpdateBuffer after process_update of the bars from .. candle.close_time
Warmed(from, candle) ==
    [current_candle |-> candle,
     last_emitted_close_time |-> IF from = candle.close_time THEN None
                                 ELSE candle.close_time - 1]

HasSavedState == HasRow(db.tables, Bot)
SavedState == load_bot_state(db.tables, Bot)

\* restore_or_initialize_state
InitialState(policy) ==
    IF policy = "restore" /\ HasSavedState THEN SavedState ELSE CleanState

NewBook(policy) == book' = IF policy = "reset" THEN book + 1 ELSE book

\* build_dry_run_stack, with a backfill of the bars from .. candle.close_time.  The
\* snapshot is at least as new as the last update the process before this one saw.
Start(policy, from, candle) ==
    LET state == [InitialState(policy) EXCEPT !.last_candle_time = candle.close_time] IN
    /\ pc = "down"
    /\ deaths <= MaxDeaths
    /\ from <= candle.close_time
    /\ candle.close_time >= market
    /\ market' = candle.close_time
    /\ buffer' = Warmed(from, candle)
    /\ runtime' = state
    /\ last_processed' = Warmed(from, candle).last_emitted_close_time
    /\ Begin(<<"save_bot_state">>, state, None, None)
    /\ NewBook(policy)
    /\ UNCHANGED <<db, trades, stopped_books, deaths>>

\* The exchange has no candle to give: warmup_from_candles returns at once.
StartWithoutBackfill(policy) ==
    /\ pc = "down"
    /\ deaths <= MaxDeaths
    /\ pc' = "idle"
    /\ buffer' = EmptyBuffer
    /\ runtime' = InitialState(policy)
    /\ last_processed' = InitialState(policy).last_candle_time
    /\ NewBook(policy)
    /\ UNCHANGED <<work, db, market, trades, stopped_books, deaths>>

-----------------------------------------------------------------------------
(* process_candle_update, up to its first storage call *)

Bug_GuardOffByOne(t) == last_processed # None /\ t < last_processed
AlreadyProcessed(t) == last_processed # None /\ t <= last_processed

\* The websocket delivers an update, perhaps of the bar before the newest one.
Receive(u) ==
    /\ pc = "idle"
    /\ u.close_time \in market - 1 .. market + 2
    /\ market' = HigherOf(market, u.close_time)
    /\ buffer' = process_update(buffer, u).buffer

ClosedBy(u) == process_update(buffer, u).closed

\* The update closes no bar, or one this process is not to handle.
BufferUpdate(u) ==
    /\ Receive(u)
    /\ ClosedBy(u) # None => AlreadyProcessed(ClosedBy(u).close_time)
    /\ UNCHANGED <<pc, runtime, last_processed, work, db, history>>

\* The update closes a bar to decide on.
Closes(u) ==
    /\ Receive(u)
    /\ ClosedBy(u) # None
    /\ ~AlreadyProcessed(ClosedBy(u).close_time)
    /\ UNCHANGED <<last_processed, db, history>>

DecisionOn(bar) == evaluate_bar(runtime, bar, is_bar_allowed(bar.close_time))

StrategySafeStop(u) ==
    LET bar == ClosedBy(u)
        decision == DecisionOn(bar)
    IN  /\ Closes(u)
        /\ decision.safe_stop_required
        /\ runtime' = decision.updated_state
        /\ Begin(<<"save_bot_state", "save_event", "save_safe_stop_reason">>,
                 decision.updated_state, None, bar.close_time)

NoIntent(u) ==
    LET bar == ClosedBy(u)
        decision == DecisionOn(bar)
    IN  /\ Closes(u)
        /\ ~decision.safe_stop_required
        /\ decision.intent = None
        /\ runtime' = decision.updated_state
        /\ Begin(<<"save_bot_state">>, decision.updated_state, None, bar.close_time)

\* decision.updated_state is not looked at: the executor starts again from the
\* runtime state, which keeps its value until the last call has committed.
Bug_EventFirst == <<"save_bot_state", "save_event", "save_order", "save_fill">>
Bug_NoEvent == <<"save_bot_state", "save_order", "save_fill">>
FillCalls == <<"save_bot_state", "save_order", "save_fill", "save_event">>

ExecuteIntent(u) ==
    LET bar == ClosedBy(u)
        decision == DecisionOn(bar)
        result == execute_intent(decision.intent, runtime, bar, {})
    IN  /\ Closes(u)
        /\ ~decision.safe_stop_required
        /\ decision.intent # None
        /\ Begin(IF result.filled_qty > 0 THEN FillCalls
                 ELSE IF result.safe_stop_required
                 THEN <<"save_bot_state", "save_safe_stop_reason">>
                 ELSE <<"save_bot_state">>,
                 result.updated_state,
                 IF result.filled_qty > 0 THEN decision.intent.intent_id ELSE None,
                 bar.close_time)
        /\ UNCHANGED runtime

-----------------------------------------------------------------------------
(* The storage calls *)

\* bot_state, lots, rolling_window_entries and bar_counters, in one transaction
SaveBotState ==
    /\ Commit("save_bot_state")
    /\ db' = [db EXCEPT !.tables = save_bot_state(@, Bot, work.state)]
    /\ trades' = IF work.filled = None THEN trades
                 ELSE Append(trades, [id |-> work.filled, book |-> book])
    /\ UNCHANGED <<pc, process, market, book, stopped_books, deaths>>

\* client_order_id is UNIQUE
Bug_AnyClientOrderId(id) == TRUE
NewClientOrderId(id) == id \notin db.orders

SaveOrder ==
    /\ NewClientOrderId(work.filled)
    /\ Commit("save_order")
    /\ db' = [db EXCEPT !.orders = @ \cup {work.filled}]
    /\ UNCHANGED <<pc, process, market, history>>

Die ==
    /\ pc' = "down"
    /\ work' = NoWork
    /\ buffer' = EmptyBuffer
    /\ runtime' = CleanState
    /\ last_processed' = None
    /\ deaths' = deaths + 1
    /\ UNCHANGED <<db, market, trades, book, stopped_books>>

\* which nothing catches short of run_dry_run_ws.py
Bug_RetriesForever == UNCHANGED vars
IntegrityError == Die

SaveOrderFails ==
    /\ pc = "writing"
    /\ work.calls # <<>>
    /\ Head(work.calls) = "save_order"
    /\ ~NewClientOrderId(work.filled)
    /\ IntegrityError

SaveFill ==
    /\ Commit("save_fill")
    /\ db' = [db EXCEPT !.fills = Append(@, work.filled)]
    /\ UNCHANGED <<pc, process, market, history>>

\* INSERT OR REPLACE
SaveEvent ==
    /\ Commit("save_event")
    /\ db' = [db EXCEPT !.events =
                  @ \cup {IF work.filled = None THEN <<"SAFE_STOP", work.bar>> ELSE work.filled}]
    /\ stopped_books' = IF work.filled = None THEN stopped_books \cup {book} ELSE stopped_books
    /\ UNCHANGED <<pc, process, market, trades, book, deaths>>

SaveSafeStopReason ==
    /\ Commit("save_safe_stop_reason")
    /\ db' = [db EXCEPT !.safe_stops = @ \cup {work.bar}, !.tables = MarkSafeStop(@, Bot)]
    /\ UNCHANGED <<pc, process, market, history>>

\* The handler returns.
Bug_RuntimeNotCommitted == runtime
CommittedRuntime == work.state

Return ==
    /\ pc = "writing"
    /\ work.calls = <<>>
    /\ pc' = "idle"
    /\ work' = NoWork
    /\ runtime' = CommittedRuntime
    /\ last_processed' = IF work.bar = None THEN last_processed ELSE work.bar
    /\ UNCHANGED <<buffer, db, market, history>>

Crash ==
    /\ pc # "down"
    /\ deaths < MaxDeaths
    /\ Die

-----------------------------------------------------------------------------
Init ==
    /\ pc = "down"
    /\ buffer = EmptyBuffer
    /\ runtime = CleanState
    /\ last_processed = None
    /\ work = NoWork
    /\ db = [tables |-> NoTables, orders |-> {}, fills |-> <<>>, events |-> {},
             safe_stops |-> {}]
    /\ market = 1
    /\ trades = <<>>
    /\ book = 0
    /\ stopped_books = {}
    /\ deaths = 0

Write ==
    \/ SaveBotState \/ SaveOrder \/ SaveOrderFails \/ SaveFill \/ SaveEvent
    \/ SaveSafeStopReason \/ Return

Next ==
    \/ \E policy \in StartPolicies :
          \/ StartWithoutBackfill(policy)
          \/ \E candle \in Candles :
                \E from \in {candle.close_time - 1, candle.close_time} \cap Bars :
                    Start(policy, from, candle)
    \/ \E u \in Candles : BufferUpdate(u) \/ StrategySafeStop(u) \/ NoIntent(u) \/ ExecuteIntent(u)
    \/ Write
    \/ Crash

\* Storage calls return, and the handler goes on: the process awaits each of them.
\* Nothing else is fair: updates may stop, and a process that died may stay down.
Spec == Init /\ [][Next]_vars /\ WF_vars(Write)
-----------------------------------------------------------------------------
TradeKeys == OpenTypes \X Bars \cup CoverTypes \X Bars
Keys == OpenTypes \X Bars
FilledKeys == {db.fills[i] : i \in DOMAIN db.fills}

\* Types; and the runtime state, the state being written and the saved one are all
\* states the strategy and the risk manager accept, through every restart.
TypeOK ==
    /\ pc \in {"down", "idle", "writing"}
    /\ runtime \in BotState(Keys) /\ ~InvalidState(runtime)
    /\ work.state \in BotState(Keys) /\ ~InvalidState(work.state)
    /\ HasSavedState => SavedState \in BotState(Keys) /\ ~InvalidState(SavedState)
    /\ stopped_books \subseteq 0 .. book
    /\ last_processed \in Optional(Bars)
    /\ market \in Bars
    /\ buffer.current_candle \in Optional(Candles)
    /\ db.orders \subseteq TradeKeys /\ FilledKeys \subseteq TradeKeys

\* A book never trades the same bar twice, nor an earlier bar after a later one,
\* whatever updates are repeated or late and wherever the process is restarted
\* from its saved state (the stale guard of process_candle_update, the warmup, and
\* last_candle_time).
TradesInOrder ==
    \A i, j \in DOMAIN trades :
        i < j /\ trades[i].book = trades[j].book => trades[i].id[2] < trades[j].id[2]

\* No two trades are on adjacent bars, of whatever books, over late updates, restarts and
\* midnight, where the count of bars starts anew; for days of an even number of bars
\* (CandleClock.is_bar_allowed, asked about the bar that closed, and evaluate_bar).
TradesSkipABar ==
    \A i, j \in DOMAIN trades : trades[j].id[2] # trades[i].id[2] + 1

\* The audit trail has no loose end: a trade's event has its fill, a fill its order,
\* and an order stands for a trade of some book.
AuditChain ==
    /\ db.events \cap TradeKeys \subseteq FilledKeys
    /\ FilledKeys \subseteq db.orders
    /\ db.orders \subseteq {trades[i].id : i \in DOMAIN trades}

\* No fill is recorded twice, not even when a reset book trades a bar again.
FillsOnce == \A i, j \in DOMAIN db.fills : db.fills[i] = db.fills[j] => i = j

\* A death costs the records of one trade at most: the one being written.
DeathLosesOneTrade ==
    Cardinality({i \in DOMAIN trades : trades[i].id \notin db.events})
        <= deaths + (IF pc = "writing" THEN 1 ELSE 0)

\* Between updates the saved state is the runtime state, so a restart under
\* `restore` goes on with the same book.  Two fields apart: safe_stop_active, which
\* save_safe_stop_reason sets behind the runtime's back, and a reset that found no
\* backfill to warm up with, which saves nothing before the first bar.
Bookkeeping(st) == [st EXCEPT !.safe_stop_active = FALSE]

IdleStateIsSaved ==
    pc = "idle" /\ last_processed # None =>
        HasSavedState /\ Bookkeeping(SavedState) = Bookkeeping(runtime)

SafeStopSaved == HasSavedState /\ SavedState.safe_stop_active

\* Once the strategy's safe stop is on record, the book is not traded and the database
\* keeps the flag, through bars and restarts, until the book is reset: the flag is in the
\* runtime state too, so saving that state does not clear it.
SafeStopHolds ==
    [][ (book \in stopped_books /\ book' = book)
            => trades' = trades /\ (SafeStopSaved => SafeStopSaved') ]_vars

\* Every bar's writes come to an end: the process waits for updates again, or died.
HandlersReturn == pc = "writing" ~> pc # "writing"

-----------------------------------------------------------------------------
(* What the documents say and the code does not do *)

\* TZ_rewritten.txt:191: a position has a next level, at which a DCA opens.
OpenPositionHasNextLevel ==
    pc = "idle" /\ runtime.lots # {} => runtime.next_level_price # None

\* IMPLEMENTATION_DECISIONS_V1.txt:158: safe_stop stops the bot because the order
\* could not be normalized.  So nothing is traded once one is on record.
SafeStopStopsTrading == [][ db.safe_stops # {} => trades' = trades ]_vars

\* TZ_rewritten.txt:1021: every order and every event is logged, of each trade that
\* the saved state has.
EveryTradeIsLogged ==
    pc = "idle" =>
        \A i \in DOMAIN trades : trades[i].id \in db.orders /\ trades[i].id \in db.events
=============================================================================
