----------------------------- MODULE TelegramApp -----------------------------
(***************************************************************************)
(* The processes around one database:                                      *)
(*   bot/app.py                       a launch of a runtime mode           *)
(*   bot/telegram/telegram_runner.py, polling for commands and answering   *)
(*       telegram_bot.py              them from the runtime state or the   *)
(*                                    database                             *)
(*   bot/storage/storage.py           the state of several bots            *)
(* with the trading processes of the bots (Orchestrator), which appear     *)
(* here only by what they save, and the notifier of one of them.           *)
(*                                                                         *)
(* Bot is the bot of the app's settings.  One process trades a bot: its    *)
(* trading process is not up while the app has a dry-run stack for it.     *)
(*                                                                         *)
(* saved, query.seen and events are not in the program: what each bot last *)
(* saved, the states that were current while a query was worked on, and    *)
(* how much has happened from outside.                                     *)
(***************************************************************************)
EXTENDS Notifier, BotStateTables, Configuration

CONSTANTS Bot,
          LotIds,
          States,           \* states a trading process may save
          CloseTimes,       \* of the newest candle of a backfill
          Environments,     \* pairs of a .env file and an environment
          MaxEvents         \* bound on what happens from outside

ASSUME BotAssumption == Bot \in Bots
ASSUME EventsAssumption == MaxEvents \in Nat
ASSUME StatesAssumption ==
    /\ None \notin BotState(LotIds)
    /\ \A st \in States : st \in BotState(LotIds) /\ Storable(st)
ASSUME TimesAssumption == CloseTimes \subseteq Nat

VARIABLES tables, saved, app, query, events

appVars == <<tables, saved, app, query, events>>
vars == <<notifierVars, appVars>>

FromOutside == events < MaxEvents /\ events' = events + 1

SavedState(b) == load_bot_state(tables, b)
StateOrInitial(st) == IF st = None THEN CleanState ELSE st

-----------------------------------------------------------------------------
(* The app *)

RuntimeModes == {"dry_run_only", "telegram_only", "dry_run_with_telegram"}
HasStack(mode) == mode \in {"dry_run_only", "dry_run_with_telegram"}
HasTelegram(mode) == mode \in {"telegram_only", "dry_run_with_telegram"}

\* runtime is the runtime_state of the orchestrator, if the app has one
AppDown == [pc |-> "down", mode |-> None, settings |-> None, runtime |-> None]

StackIsUp == app.pc # "down" /\ HasStack(app.mode)

\* What a query is answered from, if nothing is saved meanwhile.
Current == IF app.runtime # None THEN app.runtime ELSE StateOrInitial(saved[Bot])

\* load_settings, which must not fail
Launch(mode, env) ==
    LET settings == from_env(env.dotenv, env.environ) IN
    /\ app.pc = "down"
    /\ FromOutside
    /\ settings # None
    /\ app' = [pc |-> IF HasStack(mode) THEN "restoring" ELSE "composing",
               mode |-> mode, settings |-> settings, runtime |-> None]
    /\ UNCHANGED <<tables, saved, query>>

\* restore_or_initialize_state
Bug_NotRestored(st) == [CleanState EXCEPT !.last_candle_time = st.last_candle_time]
Restored(st) == st

Restore ==
    /\ app.pc = "restoring"
    /\ app.settings.mode = "dry_run"
    /\ app.settings.live_start_policy \in {"reset", "restore"}
    /\ app' = [app EXCEPT
                  !.pc = "fetching",
                  !.runtime = IF app.settings.live_start_policy = "restore"
                              THEN Restored(StateOrInitial(SavedState(Bot)))
                              ELSE CleanState]
    /\ UNCHANGED <<tables, saved, query, events>>

\* fetch_startup_market_snapshot, then create_orchestrator, whose clock has no
\* live_start_time to start from, and warmup_from_candles
AnchorIsGiven == app.settings.even_bar_anchor_mode # "live_start"
Fetched(close_time) == [app.runtime EXCEPT !.last_candle_time = close_time]

FetchSnapshot(close_time) ==
    /\ app.pc = "fetching"
    /\ AnchorIsGiven
    /\ app' = [app EXCEPT !.pc = "saving", !.runtime = Fetched(close_time)]
    /\ UNCHANGED <<tables, saved, query, events>>

StackIsBuilt == IF HasTelegram(app.mode) THEN [app EXCEPT !.pc = "composing"] ELSE AppDown

\* The exchange has no candles: warmup_from_candles returns at once.
FetchNoCandles ==
    /\ app.pc = "fetching"
    /\ AnchorIsGiven
    /\ app' = StackIsBuilt
    /\ UNCHANGED <<tables, saved, query, events>>

\* dry_run_only ends with its readiness message.
SaveWarmup ==
    /\ app.pc = "saving"
    /\ LotIdsFree(tables, Bot, app.runtime)
    /\ tables' = save_bot_state(tables, Bot, app.runtime)
    /\ saved' = [saved EXCEPT ![Bot] = app.runtime]
    /\ app' = StackIsBuilt
    /\ UNCHANGED <<query, events>>

\* build_telegram_service and validate_telegram_runtime
TelegramIsConfigured ==
    app.settings.telegram_enabled /\ app.settings.telegram_bot_token # None

Poll ==
    /\ app.pc = "composing"
    /\ TelegramIsConfigured
    /\ app' = [app EXCEPT !.pc = "polling"]
    /\ UNCHANGED <<tables, saved, query, events>>

\* What a launch may fail of before it polls; and the app may be ended at any time.
LaunchFails ==
    /\ \/ app.pc = "restoring" /\ ~(/\ app.settings.mode = "dry_run"
                                    /\ app.settings.live_start_policy # "sync_only")
       \/ app.pc = "fetching"
       \/ app.pc = "saving" /\ ~LotIdsFree(tables, Bot, app.runtime)
       \/ app.pc = "composing" /\ ~TelegramIsConfigured
    /\ app' = AppDown
    /\ UNCHANGED <<tables, saved, query, events>>

AppEnds ==
    /\ app.pc # "down"
    /\ FromOutside
    /\ app' = AppDown
    /\ query' = None
    /\ UNCHANGED <<tables, saved>>

-----------------------------------------------------------------------------
(* The trading processes *)

Trades(b) == b = Bot => ~StackIsUp

Seen(b, st) ==
    IF query = None \/ b # Bot THEN query ELSE [query EXCEPT !.seen = @ \cup {st}]

\* save_bot_state: all of it, or after an IntegrityError nothing
Bug_NoRollback(b, st) == [tables EXCEPT !.lots = OtherLots(tables, b)]
RolledBack(b, st) == tables

SaveBotState(b, st) ==
    /\ Trades(b)
    /\ FromOutside
    /\ IF LotIdsFree(tables, b, st)
       THEN /\ tables' = save_bot_state(tables, b, st)
            /\ saved' = [saved EXCEPT ![b] = st]
            /\ query' = Seen(b, st)
       ELSE tables' = RolledBack(b, st) /\ UNCHANGED <<saved, query>>
    /\ UNCHANGED app

SaveSafeStopReason(b) ==
    LET st == [saved[b] EXCEPT !.safe_stop_active = TRUE] IN
    /\ Trades(b)
    /\ FromOutside
    /\ saved[b] # None
    /\ tables' = MarkSafeStop(tables, b)
    /\ saved' = [saved EXCEPT ![b] = st]
    /\ query' = Seen(b, st)
    /\ UNCHANGED app

-----------------------------------------------------------------------------
(* The commands that report the state.  load_bot_state is four SELECTs, with *)
(* awaits between them; the lots are read over a connection of their own.    *)

Shown ==
    [status |-> {"last_candle_time", "safe_stop_active"},
     position |-> {"pos_size_abs", "pos_proceeds_usdt", "num_sells", "trailing_active"},
     pnl |-> {"pos_size_abs", "pos_proceeds_usdt", "last_fill_price"}]

\* handle_status, handle_position, handle_pnl
Bug_CountsLots(command, st) ==
    [f \in Shown[command] |-> IF f = "pos_size_abs" THEN Quantity(st.lots) ELSE st[f]]
Reply(command, st) == [f \in Shown[command] |-> st[f]]

\* _provider prefers the runtime state
Command(command) ==
    /\ app.pc = "polling"
    /\ query = None
    /\ FromOutside
    /\ query' = [command |-> command, reads |-> IF app.runtime = None THEN "row" ELSE "answer",
                 state |-> app.runtime, seen |-> {Current}]
    /\ UNCHANGED <<tables, saved, app>>

Read(this, next, state) ==
    /\ query # None
    /\ query.reads = this
    /\ query' = [query EXCEPT !.reads = next, !.state = state]
    /\ UNCHANGED <<tables, saved, app, events>>

\* with the columns of one SELECT more
WithColumns(state, columns) ==
    [f \in DOMAIN state \cup DOMAIN columns |->
        IF f \in DOMAIN columns THEN columns[f] ELSE state[f]]

ReadRow ==
    IF HasRow(tables, Bot) THEN Read("row", "lots", tables.bot_state[Bot])
    ELSE Read("row", "answer", CleanState)

ReadLots == Read("lots", "orders", WithColumns(query.state, [lots |-> list_open_lots(tables, Bot)]))

ReadOrders ==
    Read("orders", "counters",
         WithColumns(query.state, [orders_last_3min |-> RollingWindow(tables, Bot)]))

ReadCounters == Read("counters", "answer", WithColumns(query.state, BarCounters(tables, Bot)))

Answer ==
    /\ query # None
    /\ query.reads = "answer"
    /\ query' = None
    /\ UNCHANGED <<tables, saved, app, events>>

\* _run_handler answers that the command failed
CommandFails ==
    /\ query # None
    /\ query.reads # "answer"
    /\ query' = None
    /\ UNCHANGED <<tables, saved, app, events>>

-----------------------------------------------------------------------------
(* /start and /stop, and the notifier in the trading process *)

Subscribe(c) == app.pc = "polling" /\ FromOutside /\ add_subscriber(c)

Unsubscribe(c) == app.pc = "polling" /\ FromOutside /\ deactivate_subscriber(c)

NotifyEvent == FromOutside /\ Broadcast
-----------------------------------------------------------------------------
Init ==
    /\ NotifierInit
    /\ tables = NoTables
    /\ saved = [b \in Bots |-> None]
    /\ app = AppDown
    /\ query = None
    /\ events = 0

AppStep ==
    \/ Restore \/ (\E t \in CloseTimes : FetchSnapshot(t)) \/ FetchNoCandles \/ SaveWarmup
    \/ Poll \/ LaunchFails

QueryStep == ReadRow \/ ReadLots \/ ReadOrders \/ ReadCounters \/ Answer \/ CommandFails

AppNext ==
    \/ \E mode \in RuntimeModes, env \in Environments : Launch(mode, env)
    \/ AppStep
    \/ AppEnds
    \/ \E b \in Bots : (\E st \in States : SaveBotState(b, st)) \/ SaveSafeStopReason(b)
    \/ \E command \in DOMAIN Shown : Command(command)
    \/ QueryStep

NotifierSteps ==
    \/ \E c \in Chats : Subscribe(c) \/ Unsubscribe(c)
    \/ NotifyEvent

Next ==
    \/ AppNext /\ UNCHANGED notifierVars
    \/ NotifierSteps /\ UNCHANGED <<tables, saved, app, query>>
    \/ (BroadcastStep \/ Tick) /\ UNCHANGED appVars

Spec == Init /\ [][Next]_vars /\ NotifierFairness
-----------------------------------------------------------------------------
TypeOK ==
    /\ NotifierTypeOK
    /\ saved \in [Bots -> Optional(BotState(LotIds))]
    /\ app.pc \in {"down", "restoring", "fetching", "saving", "composing", "polling"}
    /\ app.runtime \in Optional(BotState(LotIds))
    /\ app.settings # None => validate_settings(app.settings)
    /\ query # None =>
          /\ query.command \in DOMAIN Shown
          /\ query.reads = "answer" => query.state \in BotState(LotIds)
    /\ events \in 0 .. MaxEvents

\* Bots that share the database do not see each other: what is loaded for a bot is the
\* state it last saved, whatever the others saved, failed to save (a lot_id is unique
\* over all bots) or marked (save_bot_state, load_bot_state).
BotsDoNotMix == \A b \in Bots : SavedState(b) = saved[b]

\* A reply never mixes two states, although load_bot_state does when the bot saves
\* between its SELECTs: it shows fields of one state that was current while the command
\* was worked on.  With nothing saved meanwhile that state was loaded whole.
RepliesAreOneState ==
    query # None /\ query.reads = "answer" =>
        /\ Reply(query.command, query.state) \in {Reply(query.command, st) : st \in query.seen}
        /\ Cardinality(query.seen) = 1 => query.state \in query.seen

\* A launch that restores writes back the book it read, however late it does so, and
\* wherever it fails or ends: only last_candle_time of the saved state ever changes.
SavedBook == [StateOrInitial(SavedState(Bot)) EXCEPT !.last_candle_time = None]

RestoringLaunchKeepsBook ==
    [][ StackIsUp /\ app.settings.live_start_policy = "restore" => SavedBook' = SavedBook ]_vars
=============================================================================
