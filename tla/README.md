# TLA+ model of the short-grid trading bot

The repository is a dry-run trading bot for BingX perpetuals. It reads candle
updates from a websocket, decides on every closed bar what a short-only grid
strategy would do, executes the decision virtually, keeps its state, orders,
fills and events in SQLite so that it can be restarted, and tells subscribers on
Telegram about it.

This directory holds a TLA+ model of it: modules translated from the source, the
TLC configurations that check them, and proofs that TLAPS checks. `PROJECT.json`
maps every definition to the lines it models and lists runs, mutants, findings,
hazards and theorems.

## 1. Inventory

| Component | State | Operations |
|---|---|---|
| Candle buffer (`bot/data/market_stream.py`) | bar in progress, close time of the last bar handed out | `process_update` |
| Candle clock (`bot/data/candle_clock.py`) | anchor | `is_bar_allowed` |
| Position and lots (`bot/engine/position_manager.py`, `bot/storage/models.py`) | `BotState`: lots, totals, `num_sells`, DCA level, trailing stop, counters, flags | `add_short_lot`, `close_last_lot`, `close_all`, `reset_cycle`, all pure |
| Strategy engine (`bot/engine/strategy_engine.py`) | none | `evaluate_bar`: from state and bar to at most one intent and a new state |
| Risk manager (`bot/engine/risk_manager.py`) | none | `check_intent`, `check_normalized_order` |
| Normalizer (`bot/utils/rounding.py`) | none | `normalize_order` |
| Dry-run executor (`bot/execution/dry_run_executor.py`) | none | `execute_intent`: from state and intent to a virtual fill and a new state |
| Order manager (`bot/execution/order_manager.py`) | none; the order record it is given | creation and seven marks |
| Orchestrator (`bot/runner/orchestrator.py`) | runtime state, last processed bar | `warmup_from_candles`, `process_candle_update` |
| Bootstrap (`bot/main.py`) | none | reset or restore, backfill, assembly |
| Storage (`bot/storage/`) | SQLite tables | one transaction per save; four SELECTs per load of a state |
| Market websocket (`bot/data/market_ws.py`) | a connection | `stream_candles`, `parse_ws_message` |
| Startup source, exchange client, metadata (`bot/data/market_source.py`, `bot/exchange/`) | an HTTP session | `fetch_startup_candles`, `fetch_instrument_constraints` |
| Runner (`scripts/run_dry_run_ws.py`) | none | one update at a time until an exception |
| Notifier (`bot/telegram/telegram_notifier.py`) | time of the last message; subscribers in SQLite | `broadcast_event` |
| Telegram bot and runner (`bot/telegram/telegram_bot.py`, `telegram_runner.py`) | none; polls | `/start`, `/stop`, `/status`, `/position`, `/pnl`, `/sync` |
| Composition (`bot/app.py`) | a launch of a runtime mode | `dry_run_only`, `telegram_only`, `dry_run_with_telegram` |
| Configuration (`bot/config.py`) | none | `load_settings` |
| Utilities (`bot/utils/`), backtest (`bot/simulation/`, a stub) | none | |

How they interact: a trading process is one asyncio program. Its runner awaits
`process_candle_update` for each update, which calls the buffer, the clock, the
strategy and the executor synchronously (no other task runs meanwhile), and then
awaits storage call after storage call. So within the process nothing interleaves;
what does are the *storage calls with the death of the process*, *one process with
the next one* (by way of the database), *the market with both* (updates repeat,
skip and come late, and the backfill overlaps the websocket), and *the processes
around one database*: trading processes of several bots, and the app, whose Telegram
polling reads states and writes subscribers while the others save and broadcast.

What is hard about it, and what makes each part correct:

- *Buffer*: each bar once, in order, with its latest content, whatever the order
  of arrival.
- *Strategy and position*: the invariants of a cycle that lasts many bars: a level
  while there is a position, a LIFO book, a ratcheting trailing stop, limits.
- *Executor*: two components compute the state after a fill; limits are per bar and
  per window; rounding must not part position and fills.
- *Orchestrator and storage*: the records of one trade are five separate commits;
  a restart must neither trade a bar twice nor forget a position or a safe stop.
- *Tables*: a state is spread over four tables, which several bots share, and it is
  read with awaits between the reads.
- *Order manager*: reports of a live exchange in any order.
- *Websocket*: outages, and what they do to the bars; its limits over all connections.
- *Notifier*: subscribers who come, go and fail in the middle of a broadcast; its
  throttle; that it ends.
- *Launch*: it reads a state, does slow and failing things, and writes the state back.

`PROJECT.json` lists these as hazards, each at its line.

## 2. Modules

| Module | What it is |
|---|---|
| `Common` | `None`, `Optional`; bars are numbered by close time |
| `CandleUpdateBuffer` | the buffer, as pure operators |
| `CandleStream` | the buffer fed by any sequence of updates |
| `CandleClock` | the even-bar filter, pure |
| `Position` | `BotState`, the lots and the operations on them, pure |
| `LotStack` | **abstract**: the lot book as a stack |
| `StrategyEngine` | `evaluate_bar`, pure |
| `EngineReplay` | the strategy played on its own decisions, bar after bar; refines `LotStack` |
| `DryRunExecutor` | risk checks, normalization, the virtual fill, pure |
| `DryRunSession` | the executor given any intents over several bars; refines `LotStack` |
| `BotStateTables` | a `BotState` in its four tables, shared by several bots, pure |
| `Orchestrator` | a trading process and its database, crashes and restarts; composes the buffer, the clock, the strategy, the executor and the tables |
| `OrderManager` | one order and the marks on it |
| `MarketFeed` | the websocket stream with its reconnects, from the exchange to the buffer |
| `WsMessages` | which candle a message of the websocket holds, pure |
| `StartupCandles` | the backfill, from rows of the exchange to candles, pure |
| `InstrumentMetadata` | from an entry of the exchange to the constraints of the executor, pure |
| `Configuration` | settings from a `.env` file and the environment, pure |
| `Notifier` | **specification of its own**: subscribers, broadcasts, throttle |
| `TelegramApp` | launches, commands and saves around one database, with the notifier; implements `NotifierSpec` |
| `BotStateProofs` | lemmas about a `BotState`: sums over the book, operations on it, the strategy, the executor, the tables |
| `CandleProofs`, `OrderManagerProofs`, `MarketFeedProofs`, `OrchestratorProofs`, `DryRunSessionProofs`, `EngineReplayProofs`, `TelegramAppProofs` (with the notifier's) | theorems |
| `MC...` | constants for TLC, and assumptions that TLC evaluates |

Correspondence to the code:

- Operators carry the names of the functions they translate (`evaluate_bar`,
  `execute_intent`, `recalculate_position_fields`, `_apply_fill_to_state` as
  `ApplyFill`), and the pure functions of the code, which work on deep copies, are
  pure operators here. Each rule of `evaluate_bar` is an operator of its own, and
  `ManagePosition` tries them in the order of the code.
- `Orchestrator`: one action for the synchronous part of `process_candle_update` on
  each of its ways out (`BufferUpdate`, `StrategySafeStop`, `NoIntent`,
  `ExecuteIntent`), which leaves the list of storage calls still to be awaited in
  `work`; one action per storage call, each a transaction; `Return` for what the
  code does after the last of them (commit of the runtime state and of
  `last_processed`); `Crash` between any two. `Start` is `build_dry_run_stack`:
  reset or restore, backfill, warmup, and the save of the warmed-up state.
  `SaveOrderFails` is the `IntegrityError` of the UNIQUE `client_order_id`, which
  ends the process.
- `TelegramApp`: the same launch step by step, because here others run meanwhile:
  `Restore`, `FetchSnapshot` (or `FetchNoCandles`), `SaveWarmup`, `Poll`, with
  `LaunchFails` at each of them. A command that reports the state is `load_bot_state`,
  SELECT by SELECT (`ReadRow`, `ReadLots`, `ReadOrders`, `ReadCounters`), then
  `Answer`; or it is answered from the runtime state if the app has one. The trading
  processes appear by what they save: any of a set of states, at any time, for each of
  several bots, with the `IntegrityError` of a `lot_id` that another bot has and the
  rollback it causes. `NotifyEvent` is the call of the notifier by `_notify_event`.
- `Notifier`: a broadcast reads the list of subscribers once, and for each chat there
  is `Throttle` (which computes the sleep and sleeps), `Send`, and `Accepted` or
  `SendFails`. Time passes in ticks.
- `MarketFeed`: `stream_candles` as one action for each thing that can happen to its
  loop: a connection (with the subscription), a failed one, a message without a candle,
  a candle, a loss of the connection (also by a failed send of a pong), a close in good
  order, the end of the delay. The exchange publishes each bar in versions, the last of
  them final; what it publishes while no connection is open is lost, as are the messages
  in flight when a connection breaks. A candle goes straight into the buffer, the
  runner's handling of a closed bar being `Orchestrator`'s.
- Pure functions that no state machine needs whole are checked against what the state
  machines assume of them, by assumptions that TLC evaluates on a run: `BackfillFromRows`
  and `OneBadRow` (what the buffer makes of any short list of rows is what `MarketFeed`
  starts from), `Payloads` (which messages hold a candle), in `MCMarketFeed`;
  `MetadataFallbacks` (the constraints of `MCDryRunSession` from an entry of the
  exchange); `WarmedIsReplay` in `MCOrchestrator`; `EveryOtherBar` (the even-bar filter for
  the supported timeframes) in `MCCandleStream`.
- History variables (`emitted` and `latest`, `fills`, `trades`, `book`, `deaths`,
  `market`, `saved`, `query.seen`, `steady`, `tried`) exist only to state properties and
  bounds, and to say what the market may send.

Abstractions. Prices, quantities and percentages are integers (ticks, units, tenths
of a percent), so the code's comparisons of floats are exact here. Bars are numbers
and the three-minute window is `WindowBars`. `avg_price` is the quotient of two fields
that are kept. The strategy returns at most one intent per bar, so the orchestrator's
loop over intents runs once; `DryRunSession` gives the executor several. No entry point
passes a notifier to the orchestrator, though its constructor takes one; `Orchestrator`
has none, and `TelegramApp` has it, because all it does to the handler is to take time.
`cycle_id`, tags, timestamps other than close times, reasons, the wording of messages
and logging are left out.

Each `Bug_...` operator stands before the definition it is a faulty variant of. They
are not part of the model: the mutants of `PROJECT.json` put one in the other's place,
to see that a property notices.

## 3. Runs

Run one with `tlc -config <cfg> <module>`.

| Run | What it asks | Bounds |
|---|---|---|
| `MCCandleStream` | order, uniqueness and freshness of closed bars | 5 bars, 2 contents each, every order of arrival |
| `MCEngineReplay` | the strategy's own invariants over whole cycles | 5 bar shapes, `MaxSells` 7 |
| `MCDryRunSession` | limits, LIFO, position against fills | 3 bars, closes of 0 and 10, 4 fills, window of 1 bar |
| `MCOrchestrator` | crash, restart, safe stop, audit trail, order and spacing of trades, liveness | 5 bars, 3 shapes, days of 4 bars, 2 deaths, both policies |
| `MCMarketFeed` | which bars an outage damages; the limits of the stream; that it goes on | 4 bars of 2 versions, 3 messages in flight, without limits, one reconnect, 2 candles or none |
| `MCOrderManager` | any reports of one order | quantities 0, 1, 2, 3, 5 |
| `MCTelegramApp` | launches, commands and broadcasts around one database | 2 bots, 2 chats, interval of 2 ticks, 8 environments, 4 events from outside |

Why the bounds are enough. *CandleStream*: the buffer compares an update with one
bar; with five bars an old update can be older than the current bar, than the last
closed one, and than all. *EngineReplay*: the tables of levels and multipliers end at
the sixth sell, sub-covers begin after the fifth, and the call limit is set to six, so
seven sells reach all of them and one sell past the limit, and sub-covers empty a cycle of
six; the shapes touch and close on either side of every level. *DryRunSession*: three fills fill the window and two the
bar, so four fills over three bars meet and leave every limit. *Orchestrator*: five bars
hold an open, a cover and another open around a skipped bar of the even-bar filter, and
cross a midnight; one shape can be traded, one makes the executor ask for a safe stop and
one, a close of 0, the strategy (or takes the profit of an open short); two
deaths give a crash, a restart, and a crash of the restarted process. *MarketFeed*: four
bars let an outage
hide a whole bar between two that are seen, after a snapshot that lags behind by one; two
versions are an unfinished bar and a final one; `failures` is never compared beyond
`reconnect_attempts` + 1, so it is not counted further. *TelegramApp*: four events are a
save of each bot with a command or a launch after them, a command with two saves between
its reads, or a broadcast with a subscription and a departure in its middle; the two states
share a lot or have none, so two bots collide; a third chat would
only repeat the second. Beyond `MaxBar` and `MaxEvents` a system is not stepped
(`CHECK_DEADLOCK FALSE` in the configurations of the orchestrator, the session, the feed,
whose bars run out too, and the app). No other run stops.

Assumptions on the market in `Orchestrator`: an update is of a bar from one before
the newest to two after it, so it may be late, repeated, or follow a gap; a backfill
ends at least at the newest bar the previous process was sent. The second is a real
assumption: see the hazard at `orchestrator.py:101`. And in `Orchestrator` and
`TelegramApp` alike, one process at a time trades a bot: nothing in the code enforces it.

Fairness in `Orchestrator`: `WF_vars(Write)` only. A storage call of aiosqlite returns
or raises, and the
coroutine then goes on, so the writes of a handler are carried out unless the process
dies. Nothing obliges the market to send updates, or an operator to restart the bot. In
`MarketFeed`: `WF_vars(Wake)`, because `asyncio.sleep` ends, and `SF_vars(Connect)`, which
is an assumption on the exchange: tried for ever, it lets the stream in at last.
`StreamGoesOn` then says that nothing in the loop itself ends it. In `TelegramApp`:
`NotifierFairness`, because a request to Telegram is answered or given up after its
timeout of ten seconds, and time passes; `BroadcastEnds` then says that a handler that
awaits a broadcast gets its turn again. Nothing is asked of people and launches.

### What the code does not do

Five runs check what a document says and are expected to be violated.

| Run | Property | In short |
|---|---|---|
| `MCOrchestratorNoNextLevel` | `OpenPositionHasNextLevel` | the executor opens lots without a DCA level, so no DCA ever opens |
| `MCOrchestratorSafeStopIgnored` | `SafeStopStopsTrading` | the executor's safe stop reaches the database only, and is erased by the next save |
| `MCOrchestratorUnloggedTrade` | `EveryTradeIsLogged` | a crash after `save_bot_state` loses the order, fill and event of a trade for good |
| `MCEngineReplayDcaAfterTouch` | `NoDcaAfterTpTouch` | an unconfirmed touch of the TP blocks the DCA of its own bar only |
| `MCDryRunSessionCapNotPerBar` | `CapRefusesFullBarOnly` | the counters "of this bar" are never reset for a new bar |

The first has a consequence for the reading of the others: in `Orchestrator` a cycle
is a first short and an exit, whatever the settings and the candles (`NoDcaIsTraded`,
section 4). DCA and sub-covers are therefore checked where they can
happen: in the strategy by `EngineReplay`, in the executor by `DryRunSession`.

### What else the model makes visible

None of these contradicts a document strongly enough to be a finding, but a reader of the
code should know them. Each follows from the definitions named.

- Two bots in one database collide on `lot_id`, which is made of the intent type and the
  close time: the second save is rolled back with an `IntegrityError` (`LotIdsFree`).
- `load_bot_state` may mix two states when a bot saves between its SELECTs. The commands do
  not show it, because all they print comes from the row of `bot_state`
  (`RepliesAreOneState`); a command that printed lots would.
- `dry_run_with_telegram` resets or restores and saves the state before it looks at the
  Telegram settings, and answers commands from a runtime state that nothing updates after
  the warmup (`TelegramApp.Poll`, `Command`).
- A variable that is exported blank hides the value of the `.env` file and gives the
  default; for `LIVE_START_POLICY` that is a reset (`load_raw_values`, `Parsed`).
- `EVEN_BAR_ANCHOR_MODE=live_start` passes the validation and every launch with it fails
  in `create_orchestrator` (`AnchorIsGiven`). `ENABLE_EVEN_BAR_FILTER` is parsed and never
  read.
- With the anchor at midnight and the timeframe 1d every bar is let through
  (`TwoBarsAroundMidnight`).
- A close of 0 passes the parser of the websocket (`market_ws.py:421`).
- Of a list payload the first item counts, where `market_ws.py:97` has the last; a candle
  given as a flat list of numbers is never read (`Payloads`).
- `STARTUP_CANDLES_BACKFILL=0` keeps the whole list (`Newest`).
- A candle whose time is infinite, or beyond what a datetime can hold, is not skipped like
  other malformed ones: it ends the connection (`WsMessages`, `Drop`). The stream yields one
  candle for `max_candles` = 0 (`AtLeastOne`).
- A cycle that sub-covers empty, lot by lot, is not ended: a flat state keeps its `num_sells`,
  base quantity and trailing stop, and the next first short goes on with them
  (`SellsCoverLots` says when; in the pipeline nothing sub-covers).
- A trailing exit that the executor refuses loses what the bar did to the trailing minimum:
  the executor returns the state from before `evaluate_bar` (`Blocked`).
- `EVEN_BAR_FIXED_TIMESTAMP` is looked at only under `fixed_timestamp`; under another anchor
  any text passes (`validate_settings`).
- A quantity precision that is coarser than the step wins over it (`MetadataFallbacks`).
- Where neither of the lot step and the quantity quantum is a multiple of the other, the
  order of an exit may be rounded below the position, yet the whole position is closed: with
  a step of 4 and a quantum of 10, an open of 39 fills 30, and the full cover of 30 reports
  a fill of 20. `FillsMakePosition` has the condition under which this cannot happen.
- A message that fails is not counted by the throttle, and one who sends `/stop` during a
  broadcast may still be sent its message (`Notifier`).

## 4. Proofs

Every theorem below is of the specification with any values of the constants that satisfy
its module's assumptions: any settings, candles, prices, chats, any number of bars, deaths
or failures. Run `tlapm <module>.tla`.

**`CandleProofs`**, the buffer: `BarsInOrder` (`Spec => []EmittedInOrder`), `BarsUpToDate`
(`Spec => []EmittedIsLatest`) and `TypeCorrect`. Neither of the first two is inductive. The
invariant `IInv` adds `InProgress`: before the first update nothing was handed out, and
afterwards every bar handed out is older than the one in progress, whose content is the
last update accepted for it. So the bar that is about to be handed out is newer than all
before it, and an update of the bar in progress touches none of them. `StepCases` reduces a
step to three cases (taken, dropped, closed), and one lemma for each changing case
preserves `IInv`.

**`OrderManagerProofs`**: `TypeCorrect`, `FillsStayWithinOrder`, `TerminalStaysFinal` and
`FillsStayOnRecord`. `TransitionType` and `TransitionOutcome` say what `_transition`
returns, `StepOutcome` what a step comes to (a refusal that changes nothing, or an allowed
mark with the quantities of a partial fill, of a final one or of none), and each theorem
follows from that and the table. `DryRunOrderIsFilled` proves the claim `DryRunExecutor`
rests on: the executor's order passes from NEW to FILLED without a refusal.

**`MarketFeedProofs`**, two invariants. `IInv` for the limits: `AsManyAsAsked`
(`[]NeverMoreThanAsked`) needs that the stream has returned exactly when it has yielded
enough (one candle when none was asked for), `LostConnectionIsRetried` (`DropIsRetried`) that
an open connection has no failure on its account. `FeedInv` for the bars: `FeedTypes` and `BarsAreWhole`
(`[]BarsWholeUnlessLost`) rest on `WireInOrder` (the messages in flight are in order and
later than the bar in progress), `NothingSlips` (every published update is lost, in flight,
or behind the buffer) and `EmittedIsPast`. When a bar is closed, its final update is behind
the bar that closes it and so no longer in flight; what is neither lost nor in flight was
read, and it was the last of its bar to be read.

**`BotStateProofs`** holds what four of the modules below need of a state and its book.

- *Sums.* `Quantity` and `Proceeds` fold over the set of lots. `FiniteInduction` (a set of
  sets that holds each finite set whose proper subsets it holds has them all, from the
  well-foundedness of the strict subset ordering) shows that the sum over a finite set exists
  and is unique (`SumExists`, `SumIsUnique`), and from that how it splits, grows and agrees
  (`SumSplits`, `TotalGrows`, `TotalsAgree`).
- *The book.* `Booked(st, Ids)` is the invariant of a state that its book accounts for:
  finitely many lots of positive size with ids and sequence numbers of their own, and totals
  that are their sums. It is what `_invalid_state_reason` looks for and more, since validity
  alone is not preserved: a lot may be closed from the top only if the newest is unique.
  `AddedLotIsBooked`, `ClosedLotIsBooked`, `ResetIsBooked` and `RecalculatedIsBooked` are the
  operations of `position_manager.py`.
- *The book in order.* `BookWithOneMore`, `BookWithoutTop` and `AppendedTo`: sorted by
  `open_sequence`, an added lot is appended, and a cover takes the last one or a part of it.
- *The tables.* `SavedIsHeld`: what `save_bot_state` saves for one bot is held for it, and the
  others' rows are as they were; `HeldIsLoaded`: what is held is what `load_bot_state` returns.
  `InOrderKeepsOrder` is the `ORDER BY` in it, which gives a chronological sequence back.
- *Strategy and executor.* `BarDecision` and `DecisionOnBooked` say what `evaluate_bar` may come
  to on any bar, `RefusedOrFilled` and `AppliedFill` what `execute_intent` does to the state.

**`EngineReplayProofs`**, from `Inv`: a booked state whose sells account for its lots (`Sells`,
which is `SellsCoverLots`), with a level exactly while there is a position. `OwnStateIsAccepted`
(`[]TypeOK`), `LevelsFollowPosition` (`[]LevelIffPosition`), `SellsCoverTheLots`,
`TrailingOnlyFalls` and `DcasKeepLimit` are read off it and off `BarOutcome`, which says rule by
rule what a bar comes to. `BookImplementsStack` is the refinement of `LotStack` (`Spec =>
LifoBook`): each step leaves the book, empties it, appends a lot or takes the last one.
`FullCoverGains` (`FullCoverIsProfit`) has hypotheses, because the property has no other ground
in the code: with `REQUIRE_CLOSE_BELOW_FULL_TP`, a TP above zero and closes above zero, a full
cover at the close is a gain. Without the setting a touch within the bar is enough.

**`DryRunSessionProofs`**. `DInv` (`CapsHoldPerBar`): `FillsOK` relates
the fills of the current bar to the ids the bar has seen; `CountersOK` says that the counters
of the state count at least the fills of the bar, unless an exit has reset them. The caps hold
although the counters are never reset for a new bar: they count too much, and that they do is
the finding `CapRefusesFullBarOnly`. `Inv` adds `StateOK` (a booked state, whose lots are of
fills) and `WindowOK` (`orders_last_3min` has the time of every fill, in order), for
`OwnFillsAreAccepted` (`[]TypeOK`), `WindowKeepsLimit` (`[]RateLimit`: a fill that would exceed
the limit of a window ending at its own bar is refused, and a window that ends later holds no
more of the past) and `FillsImplementStack` (`LifoBook`, with partial covers). `NetOK` adds that
the position is in whole grains, for `FillsMakePosition` (`[]PositionIsNetOfFills`), whose
hypothesis is `StepsFit`: one of the lot step and the quantity quantum is a multiple of the
other. Section 3 has the counterexample without it.

**`OrchestratorProofs`**: `BooksTradeForward` (`[]TradesInOrder`), `AuditTrailIsClosed`
(`[]AuditChain`), `FillsAreRecordedOnce` (`[]FillsOnce`), `SafeStopIsKept`
(`SafeStopHolds`) and `DeathCostsOneTrade` (`[]DeathLosesOneTrade`). The first three share
`IInv`. The heart of it is what stands between a bar and a second trade of it in each state
of the process: `TradesOK` (trades are of bars that are over), `ProcessOK` (while it is up,
the stale guard refuses the bars traded, or the buffer is past them), `SavedOK` (what a
restart would restore is not older than the last trade of the book), `WorkOK` (which calls
may be left, and that the bar in hand is newer than the book until its state is saved) and
`RecordsOK` (how far the records of the trade in hand have come, so that the next call adds
no loose end and no second fill). `StopInv` adds for the safe stop that a stopped book has
its flag wherever the next decision could come from: in the database, in the runtime state
between bars, in the state being written. `LossInv` counts the trades without an event, but
for the one being written (`Halfway`): a death leaves that one, and nothing else adds any.

`StatesAreAccepted` (`[]TypeOK`) and `RestartGoesOn` (`[]IdleStateIsSaved`) take `StatesInv` as
well, which is about three states at once: the runtime state, the one being written and the
saved one. Each is booked and storable (`Kept`); the saved one is what the tables hold for the
bot (`TablesOK`); the written one is the saved one as soon as `save_bot_state` is done
(`WrittenOK`). What makes it inductive is the time that the states refer to. A lot's id is the
intent type and the close time of its bar, and a booked state has ids of their own; so the bar
about to be decided on must be later than every lot's. `RuntimeOK` has the reason: each bar that
the runtime state refers to is behind the stale guard, or behind the bar in progress of the
buffer. After a restart `last_processed` may be None or old, and it is the second that holds:
the backfill ends at a bar that no earlier process has passed.

`TradesAreSpaced` (`[]TradesSkipABar`) takes `FilteredInv`: what is traded, or in hand to be
recorded, is of a bar that the filter lets through. The rest is arithmetic about the clock:
`WholeDay` counts the bars of a day, `AnchorAtMidnight` shows that the bars from the anchor
are the bar's number modulo that count, and `EveryOtherBar` that of two adjacent bars exactly
one is let through. Its hypothesis `EvenDays` is needed: with an odd number of bars a day both
bars around midnight are (`TwoBarsAroundMidnight`).

`NoDcaIsTraded` (`[]OneShortPerCycle`) is the finding `OpenPositionHasNextLevel` turned into a
statement of all runs: every trade is a first short or an exit, and no state, in memory or in
the database, holds two lots. `CycleInv` needs all three states once more, since a restart takes
up the saved one: none has a level, and each has as many sells as lots, one at most. No run
lists it. `BackfillIsReplay` justifies the shortcut `Warmed` of the start: it is the buffer that
`process_update` makes of one candle of each bar, for any number of bars.

**`TelegramAppProofs`**. Of the notifier by itself: `NotifierTypes`, `NobodyIsLeftOut`
(`[]SteadySubscriberIsTriedOnce`) and `SendsAreSpaced` (`SpacedSends`). `ListInv` says where
each chat of the list stands, `SleepInv` that the sleep left reaches to the end of the interval.
`AppRunsNotifier` (`Spec => NotifierSpec`): every step of the app, of the commands and of the
trading processes is one of the notifier's specification or leaves its variables alone; so
`AppKeepsNotifierPromises`. Of the database, from `AppInv`: `TablesInv` says that the tables
hold for every bot what it saved last, however the saves of the others fail
(`BotsStayApart`, `[]BotsDoNotMix`); `QueryInv` that each column a command has read is that of a
state that was current meanwhile, and those of the row of `bot_state` are of one such state
(`CommandsShowOneState`, `[]RepliesAreOneState`); `LaunchInv` that a launch that restores
has the saved book in hand until it writes it (`LaunchKeepsBook`,
`RestoringLaunchKeepsBook`). `AppTypes` is `[]TypeOK`.

Assumptions. TLC evaluates all of them on the runs.

- *`None` is not a value*: `NoneAssumption`, `KeyAssumption`, `IntentAssumption`,
  `CandleAssumption`, `CountersAssumption`, and a part of `StatesAssumption`.
- *Types of settings, constraints and inputs*: `SettingsAssumption`, `ConstraintsAssumption`
  (`validate_settings` and the metadata parser see to them, but nothing checks that the tick and
  the step are positive), `ShapesAssumption` (prices are not negative), `UpdatesAssumption`,
  `QtysAssumption`, `PricesAssumption`, `SessionAssumption`, `TimesAssumption`,
  `PoliciesAssumption`, `BotAssumption`, `WindowAssumption`, `IntervalAssumption`, and
  `ClockAssumption` (a timeframe divides the day, and a mode other than `utc_day_start` has its
  anchor).
- *What trading processes save, in `TelegramApp`*: `StatesAssumption`, states of a bot whose
  `orders_last_3min` is chronological, as `StatesAreAccepted` and `OwnFillsAreAccepted` show of
  the states that the executor makes.
- *Bounds are numbers*: `FeedBounds`, `BoundsAssumption`, `MaxSellsAssumption`,
  `EventsAssumption`. The bounds of a specification may be any numbers, so a theorem is of runs
  of any length.

Only model-checked: liveness (`HandlersReturn`, `StreamGoesOn`, `BroadcastEnds`), which is out
of the prover's reach, and the expected violations of section 3. Each other property of a
passing run is the statement of a theorem. The assumptions of the `MC` modules about pure functions
(`BackfillFromRows`, `OneBadRow`, `Payloads`, `MetadataFallbacks`, `WarmedIsReplay`) are
evaluated by TLC on their instances; the last is proved as well, as `BackfillIsReplay`.

## 5. Not modelled

- A backfill that lags behind what an earlier process saw, in `Orchestrator`. What the
  exchange's REST snapshot promises is not in the repository; within one process
  `MarketFeed` lets the snapshot lag.
- Instrument constraints that change over a restart. A position would then be no multiple of
  the lot step.
- The growth of `orders_last_3min`, which is appended to and never pruned: the model bounds
  the fills, so it has nothing to say about a life of any length.
- Floating-point sums, the tolerance of 1e-9 and the rounding to 12 digits.
- The HTTP and websocket libraries, gzip, and the parsing of single fields: here they
  succeed or fail.
- Settings that are only handed on or never read, `/sync` (a constant answer), `save_lot`,
  `append_lot_history`, `update_order_status`, `is_new_bar` and `should_enter_safe_stop`,
  which nothing calls.
- The backtest, a stub that raises `NotImplementedError`, and the demo and debug scripts.
