-------------------------- MODULE OrchestratorProofs --------------------------
(***************************************************************************)
(* What the dry-run process and its database promise of the trades and of  *)
(* their records, for any strategy settings, any candles, and any number   *)
(* of bars and of deaths.                                                  *)
(***************************************************************************)
EXTENDS Orchestrator, BotStateProofs

TradeTypes == OpenTypes \cup CoverTypes
TradeIds == TradeTypes \X Int

LEMMA TypesOfTrades ==
    /\ "FIRST_SHORT" \in TradeTypes /\ "DCA_SHORT" \in TradeTypes
    /\ "FULL_COVER" \in TradeTypes /\ "SUB_COVER" \in TradeTypes
    /\ "TRAILING_TP" \in TradeTypes
  BY DEF TradeTypes, OpenTypes, CoverTypes

LEMMA NoneIsNoTrade == None \notin TradeIds
  BY KeyAssumption DEF TradeIds, TradeTypes

-----------------------------------------------------------------------------
(* The strategy and the executor *)

\* A state whose last_candle_time is a time, or not set.
Timed(st) == "last_candle_time" \in DOMAIN st /\ st.last_candle_time \in Optional(Int)

\* A decision after a bar knows its time; its intent, if any, carries it in its key.
DecidedAt(d, c) ==
    /\ "last_candle_time" \in DOMAIN d.updated_state
    /\ d.updated_state.last_candle_time = c.close_time
    /\ d.intent # None =>
          \E type \in TradeTypes : d.intent.intent_id = <<type, c.close_time>>

SameTime(s, st) ==
    /\ "last_candle_time" \in DOMAIN st => "last_candle_time" \in DOMAIN s
    /\ "last_candle_time" \in DOMAIN st => s.last_candle_time = st.last_candle_time

\* No operation on the position touches last_candle_time.
LEMMA PositionKeepsTime ==
    ASSUME NEW st, NEW a, NEW b, NEW p, NEW lvl
    PROVE  /\ SameTime(recalculate_position_fields(st, p, lvl), st)
           /\ SameTime(BookLot(st, a), st)
           /\ SameTime(add_short_lot(st, a, b, p, lvl), st)
           /\ SameTime(close_last_lot(st, b, p), st)
           /\ SameTime(close_all(st, p), st)
           /\ SameTime(reset_cycle(st), st)
  <1>1. ASSUME NEW s, NEW q, NEW l
        PROVE  SameTime(recalculate_position_fields(s, q, l), s)
    BY DEF SameTime, recalculate_position_fields
  <1>2. ASSUME NEW s, NEW lot PROVE SameTime(BookLot(s, lot), s)
    BY DEF SameTime, BookLot
  <1>3. ASSUME NEW s, NEW lots PROVE SameTime([s EXCEPT !.lots = lots], s)
    BY DEF SameTime
  <1>4. ASSUME NEW r, NEW s, NEW t, SameTime(r, s), SameTime(s, t) PROVE SameTime(r, t)
    BY <1>4 DEF SameTime
  <1>5. SameTime(reset_cycle(st), st)
    BY DEF SameTime, reset_cycle
  <1>6. SameTime(add_short_lot(st, a, b, p, lvl), st)
    BY <1>1, <1>2, <1>4 DEF add_short_lot
  <1>7. SameTime(close_last_lot(st, b, p), st)
    BY <1>1, <1>3, <1>4 DEF close_last_lot
  <1>8. SameTime(close_all(st, p), st)
    BY <1>1, <1>3, <1>4 DEF close_all
  <1> QED
    BY <1>1, <1>2, <1>5, <1>6, <1>7, <1>8

LEMMA SameTimeIsTransitive ==
    ASSUME NEW r, NEW s, NEW t, SameTime(r, s), SameTime(s, t)
    PROVE  SameTime(r, t)
  BY DEF SameTime

\* Every rule of evaluate_bar decides at the time of the bar.
LEMMA RulesDecideAt ==
    ASSUME NEW c, NEW st, "last_candle_time" \in DOMAIN st,
           st.last_candle_time = c.close_time
    PROVE  /\ DecidedAt(SafeStopDecision(st), c)
           /\ \A s : SameTime(s, st) => DecidedAt(Decision(s, None), c)
           /\ \A s, q : \A type \in TradeTypes :
                  SameTime(s, st) => DecidedAt(Decision(s, Intent(type, c, q)), c)
  BY DEF DecidedAt, SafeStopDecision, Decision, Intent, IntentKey, SameTime

LEMMA TrailingKeepsTime ==
    ASSUME NEW st, NEW c
    PROVE  SameTime(UpdateTrailing(st, c), st)
  BY DEF SameTime, UpdateTrailing

\* evaluate_bar stamps the state with the time of the bar, whichever rule decides.
LEMMA EvaluateBarDecidesAt ==
    ASSUME NEW state, NEW c, NEW allowed, "last_candle_time" \in DOMAIN state
    PROVE  DecidedAt(evaluate_bar(state, c, allowed), c)
  <1> DEFINE st == [state EXCEPT !.last_candle_time = c.close_time]
             At(d) == DecidedAt(d, c)
             Stamped(s) == "last_candle_time" \in DOMAIN s /\ s.last_candle_time = c.close_time
  <1>1. Stamped(st)
    OBVIOUS
  <1>2. ASSUME NEW s, NEW r, Stamped(s), SameTime(r, s) PROVE Stamped(r)
    BY <1>2 DEF SameTime
  <1>3. ASSUME NEW s, Stamped(s)
        PROVE  /\ At(SafeStopDecision(s)) /\ At(Decision(s, None))
               /\ \A q : \A type \in TradeTypes : At(Decision(s, Intent(type, c, q)))
    <2>1. SameTime(s, s)
      BY DEF SameTime
    <2> QED
      BY <1>3, <2>1, RulesDecideAt
  <1> HIDE DEF st, At, Stamped
  <1>4. ASSUME NEW s, Stamped(s) PROVE At(FirstShort(s, c))
    <2>1. \/ FirstShort(s, c) = SafeStopDecision(s)
          \/ \E q, lvl : FirstShort(s, c) =
                Decision(add_short_lot(s, IntentKey("FIRST_SHORT", c), q, c.close, lvl),
                         Intent("FIRST_SHORT", c, q))
      BY DEF FirstShort
    <2> QED
      BY <1>2, <1>3, <1>4, <2>1, PositionKeepsTime, TypesOfTrades
  <1>5. ASSUME NEW s, Stamped(s) PROVE At(Dca(s, c))
    <2>1. \/ Dca(s, c) = SafeStopDecision(s)
          \/ \E q, lvl : Dca(s, c) =
                Decision(add_short_lot(s, IntentKey("DCA_SHORT", c), q, c.close, lvl),
                         Intent("DCA_SHORT", c, q))
      BY DEF Dca
    <2> QED
      BY <1>2, <1>3, <1>5, <2>1, PositionKeepsTime, TypesOfTrades
  <1>6. ASSUME NEW s, Stamped(s) PROVE At(Subcover(s, c))
    <2>1. \E q : Subcover(s, c) = Decision(close_last_lot(s, q, c.close),
                                           Intent("SUB_COVER", c, q))
      BY DEF Subcover
    <2> QED
      BY <1>2, <1>3, <1>6, <2>1, PositionKeepsTime, TypesOfTrades
  <1>7. ASSUME NEW s, NEW tr, Stamped(tr), NEW type \in TradeTypes
        PROVE  At(Exit(s, tr, c, type))
    <2>1. Stamped(reset_cycle(close_all(tr, c.close)))
      BY <1>2, <1>7, PositionKeepsTime
    <2> QED
      BY <1>3, <2>1 DEF Exit
  <1>8. ASSUME NEW s, Stamped(s) PROVE At(ManagePosition(s, c))
    <2>1. Stamped(UpdateTrailing(s, c))
      BY <1>2, <1>8, TrailingKeepsTime
    <2>2. \/ ManagePosition(s, c) = Exit(s, s, c, "FULL_COVER")
          \/ ManagePosition(s, c) = Exit(s, UpdateTrailing(s, c), c, "TRAILING_TP")
          \/ ManagePosition(s, c) = Subcover(UpdateTrailing(s, c), c)
          \/ ManagePosition(s, c) = Dca(UpdateTrailing(s, c), c)
          \/ ManagePosition(s, c) = Decision(UpdateTrailing(s, c), None)
      BY DEF ManagePosition
    <2> QED
      BY <1>3, <1>5, <1>6, <1>7, <1>8, <2>1, <2>2, TypesOfTrades
  <1>9. \/ evaluate_bar(state, c, allowed) = SafeStopDecision(st)
        \/ evaluate_bar(state, c, allowed) = Decision(st, None)
        \/ evaluate_bar(state, c, allowed) = FirstShort(st, c)
        \/ evaluate_bar(state, c, allowed) = ManagePosition(st, c)
    BY DEF evaluate_bar, st
  <1>10. At(evaluate_bar(state, c, allowed))
    BY <1>1, <1>3, <1>4, <1>8, <1>9
  <1> QED
    BY <1>10 DEF At

\* The executor hands back the state it was given, or one stamped with the bar's time;
\* what it reports as filled is stamped.
LEMMA ExecutorKeepsTime ==
    ASSUME NEW intent, NEW st, NEW c, NEW seen, "last_candle_time" \in DOMAIN st,
           NEW r, r = execute_intent(intent, st, c, seen)
    PROVE  /\ "last_candle_time" \in DOMAIN r.updated_state
           /\ \/ r.updated_state.last_candle_time = c.close_time
              \/ r.updated_state.last_candle_time = st.last_candle_time /\ r.filled_qty = 0
  <1> DEFINE now == c.close_time
             Stamp(s) == [s EXCEPT !.orders_last_3min = Append(st.orders_last_3min, now),
                                   !.last_candle_time = now]
             Stamped(s) == "last_candle_time" \in DOMAIN s /\ s.last_candle_time = now
  <1>1. ASSUME NEW s, SameTime(s, st) PROVE Stamped(Stamp(s))
    BY <1>1 DEF SameTime
  <1>2. ASSUME NEW qty PROVE Stamped(ApplyFill(st, intent, qty, c))
    <2>1. CASE intent.intent_type \in OpenTypes
      <3>1. Stamped(Stamp(add_short_lot(st, intent.intent_id, qty, c.close, None)))
        BY <1>1, PositionKeepsTime
      <3> QED
        BY <2>1, <3>1 DEF ApplyFill
    <2>2. CASE intent.intent_type \notin OpenTypes /\ intent.intent_type = "SUB_COVER"
      <3>1. Stamped(Stamp(close_last_lot(st, qty, c.close)))
        BY <1>1, PositionKeepsTime
      <3> QED
        BY <2>2, <3>1 DEF ApplyFill
    <2>3. CASE intent.intent_type \notin OpenTypes /\ intent.intent_type # "SUB_COVER"
      <3>1. Stamped(Stamp(reset_cycle(close_all(st, c.close))))
        BY <1>1, PositionKeepsTime, SameTimeIsTransitive
      <3> QED
        BY <2>3, <3>1 DEF ApplyFill
    <2> QED
      BY <2>1, <2>2, <2>3
  <1>3. \/ \E stop, why : r = Blocked(st, stop, why)
        \/ \E qty : r = Filled(ApplyFill(st, intent, BookedQty(intent), c), qty)
    BY DEF execute_intent
  <1> QED
    BY <1>2, <1>3 DEF Blocked, Filled
-----------------------------------------------------------------------------
(* The inductive invariant *)

SavedTime == db.tables.bot_state[Bot].last_candle_time

\* The trades of the current book are not later than the time (None only without any).
BookUpTo(time) ==
    \A i \in DOMAIN trades :
        trades[i].book = book => time \in Int /\ trades[i].id[2] <= time

BookBefore(time) ==
    \A i \in DOMAIN trades : trades[i].book = book => trades[i].id[2] < time

\* A trade is of a bar that is over, and its book is not a later one.
TradesOK ==
    /\ market \in Int /\ book \in Nat
    /\ trades \in Seq([id : TradeIds, book : Nat])
    /\ \A i \in DOMAIN trades : trades[i].book <= book /\ trades[i].id[2] < market
    /\ TradesInOrder

\* A bar this process may still handle is later than any trade of the book: either the
\* stale guard refuses the others, or the buffer is past them.
Guarded ==
    \A i \in DOMAIN trades : trades[i].book = book =>
        \/ last_processed \in Int /\ trades[i].id[2] <= last_processed
        \/ buffer.current_candle # None /\ trades[i].id[2] < buffer.current_candle.close_time

ProcessOK ==
    /\ last_processed \in Optional(Int)
    /\ "current_candle" \in DOMAIN buffer
    /\ buffer.current_candle # None => buffer.current_candle.close_time \in Int
    /\ Timed(runtime)
    /\ pc = "idle" => BookUpTo(runtime.last_candle_time)
    /\ pc # "down" => Guarded

\* What a restart would restore is not older than the book's last trade.
SavedOK ==
    /\ {"tables", "orders", "fills", "events", "safe_stops"} \subseteq DOMAIN db
    /\ "bot_state" \in DOMAIN db.tables
    /\ HasSavedState => Timed(db.tables.bot_state[Bot]) /\ BookUpTo(SavedTime)
    /\ ~HasSavedState => \A i \in DOMAIN trades : trades[i].book # book

CallsOfFill ==
    {FillCalls, <<"save_order", "save_fill", "save_event">>, <<"save_fill", "save_event">>,
     <<"save_event">>, << >>}

OtherCalls ==
    {<<"save_bot_state">>, <<"save_bot_state", "save_event", "save_safe_stop_reason">>,
     <<"save_event", "save_safe_stop_reason">>, <<"save_safe_stop_reason">>,
     <<"save_bot_state", "save_safe_stop_reason">>, << >>}

WorkOK ==
    /\ {"calls", "state", "filled", "bar"} \subseteq DOMAIN work
    /\ Timed(work.state)
    /\ pc # "writing" => work = NoWork
    /\ pc = "writing" => BookUpTo(work.state.last_candle_time)
    /\ work.bar # None =>
          /\ work.bar \in Int /\ work.bar < market /\ BookUpTo(work.bar)
          /\ buffer.current_candle # None /\ work.bar < buffer.current_candle.close_time
    /\ work.filled # None =>
          /\ work.filled \in TradeIds /\ work.filled[2] = work.bar
          /\ work.state.last_candle_time = work.bar
          /\ work.calls \in CallsOfFill
          /\ work.calls = FillCalls => BookBefore(work.bar)
    /\ work.filled = None => work.calls \in OtherCalls

\* How far the records of the trade that is being written have come.
RecordsOK ==
    /\ AuditChain /\ FillsOnce
    /\ db.fills \in Seq(TradeIds)
    /\ work.filled # None =>
          /\ work.calls = <<"save_order", "save_fill", "save_event">> =>
                \E i \in DOMAIN trades : trades[i].id = work.filled
          /\ work.calls = <<"save_fill", "save_event">> =>
                work.filled \in db.orders \ FilledKeys
          /\ work.calls = <<"save_event">> => work.filled \in FilledKeys

IInv == TradesOK /\ ProcessOK /\ SavedOK /\ WorkOK /\ RecordsOK

-----------------------------------------------------------------------------
(* Tables and calls *)

LEMMA NoneIsNoTime == None \notin Int
  BY NoneAssumption

\* A saved state is there, with the time it had; and what is loaded has that time.
LEMMA SavedRow ==
    ASSUME NEW t, NEW b, NEW st, Timed(st)
    PROVE  /\ HasRow(save_bot_state(t, b, st), b)
           /\ "bot_state" \in DOMAIN save_bot_state(t, b, st)
           /\ Timed(save_bot_state(t, b, st).bot_state[b])
           /\ save_bot_state(t, b, st).bot_state[b].last_candle_time = st.last_candle_time
  <1>1. "last_candle_time" \in Scalars
    BY DEF Scalars, CleanState
  <1>2. Timed(BotStateRow(st)) /\ BotStateRow(st).last_candle_time = st.last_candle_time
    BY <1>1 DEF Timed, BotStateRow
  <1>3. /\ b \in DOMAIN save_bot_state(t, b, st).bot_state
        /\ save_bot_state(t, b, st).bot_state[b] = BotStateRow(st)
    BY DEF save_bot_state
  <1> QED
    BY <1>2, <1>3 DEF save_bot_state, HasRow

LEMMA MarkedRow ==
    ASSUME NEW t, NEW b, "bot_state" \in DOMAIN t, HasRow(t, b) => Timed(t.bot_state[b])
    PROVE  /\ HasRow(MarkSafeStop(t, b), b) <=> HasRow(t, b)
           /\ "bot_state" \in DOMAIN MarkSafeStop(t, b)
           /\ HasRow(t, b) =>
                 /\ Timed(MarkSafeStop(t, b).bot_state[b])
                 /\ MarkSafeStop(t, b).bot_state[b].last_candle_time
                        = t.bot_state[b].last_candle_time
  BY DEF MarkSafeStop, HasRow, Timed

LEMMA LoadedTime ==
    ASSUME NEW t, NEW b, HasRow(t, b), Timed(t.bot_state[b])
    PROVE  /\ Timed(load_bot_state(t, b))
           /\ load_bot_state(t, b).last_candle_time = t.bot_state[b].last_candle_time
  <1>1. ASSUME NEW row, Timed(row), NEW lots, NEW orders, NEW counters
        PROVE  LET st == deserialize_bot_state(row, lots, orders, counters) IN
               Timed(st) /\ st.last_candle_time = row.last_candle_time
    <2>1. "last_candle_time" \in Scalars /\ "last_candle_time" \in DOMAIN CleanState
      BY DEF Scalars, CleanState
    <2> QED
      BY <1>1, <2>1 DEF Timed, deserialize_bot_state
  <1> QED
    BY <1>1 DEF load_bot_state

LEMMA CallsShrink ==
    /\ FillCalls # << >> /\ Head(FillCalls) = "save_bot_state"
    /\ Tail(FillCalls) = <<"save_order", "save_fill", "save_event">>
    /\ Head(<<"save_order", "save_fill", "save_event">>) = "save_order"
    /\ Tail(<<"save_order", "save_fill", "save_event">>) = <<"save_fill", "save_event">>
    /\ Head(<<"save_fill", "save_event">>) = "save_fill"
    /\ Tail(<<"save_fill", "save_event">>) = <<"save_event">>
    /\ Head(<<"save_event">>) = "save_event" /\ Tail(<<"save_event">>) = << >>
  BY DEF FillCalls

LEMMA OtherCallsShrink ==
    ASSUME NEW calls \in OtherCalls, calls # << >>
    PROVE  /\ Tail(calls) \in OtherCalls
           /\ Head(calls) \in {"save_bot_state", "save_event", "save_safe_stop_reason"}
  <1>1. CASE calls = <<"save_bot_state">>
    BY <1>1 DEF OtherCalls
  <1>5. CASE calls = <<"save_safe_stop_reason">>
    BY <1>5 DEF OtherCalls
  <1>2. CASE calls = <<"save_bot_state", "save_event", "save_safe_stop_reason">>
    BY <1>2 DEF OtherCalls
  <1>3. CASE calls = <<"save_event", "save_safe_stop_reason">>
    BY <1>3 DEF OtherCalls
  <1>4. CASE calls = <<"save_bot_state", "save_safe_stop_reason">>
    BY <1>4 DEF OtherCalls
  <1> QED
    BY <1>1, <1>2, <1>3, <1>4, <1>5 DEF OtherCalls

LEMMA FillCallsShrink ==
    ASSUME NEW calls \in CallsOfFill, calls # << >>
    PROVE  /\ Tail(calls) \in CallsOfFill /\ Tail(calls) # FillCalls
           /\ Head(calls) = "save_bot_state" =>
                 /\ calls = FillCalls
                 /\ Tail(calls) = <<"save_order", "save_fill", "save_event">>
           /\ Head(calls) = "save_order" =>
                 /\ calls = <<"save_order", "save_fill", "save_event">>
                 /\ Tail(calls) = <<"save_fill", "save_event">>
           /\ Head(calls) = "save_fill" =>
                 /\ calls = <<"save_fill", "save_event">>
                 /\ Tail(calls) = <<"save_event">>
           /\ Head(calls) = "save_event" => calls = <<"save_event">> /\ Tail(calls) = << >>
           /\ Head(calls) # "save_safe_stop_reason"
  <1>1. CASE calls = FillCalls
    BY <1>1 DEF CallsOfFill, FillCalls
  <1>2. CASE calls = <<"save_order", "save_fill", "save_event">>
    BY <1>2 DEF CallsOfFill, FillCalls
  <1>3. CASE calls = <<"save_fill", "save_event">>
    BY <1>3 DEF CallsOfFill, FillCalls
  <1>4. CASE calls = <<"save_event">>
    BY <1>4 DEF CallsOfFill, FillCalls
  <1> QED
    BY <1>1, <1>2, <1>3, <1>4 DEF CallsOfFill

-----------------------------------------------------------------------------
(* The invariant holds at first and is kept *)

LEMMA CleanTime == Timed(CleanState) /\ CleanState.last_candle_time = None
  BY DEF Timed, CleanState, Optional

LEMMA InitIInv == Init => IInv
  <1> SUFFICES ASSUME Init PROVE IInv
    OBVIOUS
  <1>1. trades = << >> /\ db.fills = << >> /\ db.tables = NoTables /\ work = NoWork
    BY DEF Init
  <1>2. TradesOK
    BY <1>1 DEF Init, TradesOK, TradesInOrder
  <1>3. ProcessOK
    BY CleanTime DEF Init, ProcessOK, EmptyBuffer, Optional
  <1>4. ~HasSavedState
    BY <1>1 DEF HasSavedState, HasRow, NoTables
  <1>5. SavedOK
    BY <1>1, <1>4 DEF Init, SavedOK, NoTables
  <1>6. WorkOK
    BY <1>1, CleanTime DEF Init, WorkOK, NoWork, OtherCalls
  <1>7. RecordsOK
    BY <1>1 DEF Init, RecordsOK, AuditChain, FillsOnce, FilledKeys, NoWork
  <1> QED
    BY <1>2, <1>3, <1>5, <1>6, <1>7 DEF IInv

LEMMA InitialTime ==
    ASSUME IInv, NEW policy \in StartPolicies
    PROVE  /\ Timed(InitialState(policy))
           /\ policy = "restore" => BookUpTo(InitialState(policy).last_candle_time)
  <1>1. CASE policy = "restore" /\ HasSavedState
    <2>1. HasRow(db.tables, Bot) /\ Timed(db.tables.bot_state[Bot]) /\ BookUpTo(SavedTime)
      BY <1>1 DEF IInv, SavedOK, HasSavedState
    <2>2. Timed(SavedState) /\ SavedState.last_candle_time = SavedTime
      BY <2>1, LoadedTime DEF SavedState, SavedTime
    <2> QED
      BY <1>1, <2>1, <2>2 DEF InitialState
  <1>2. CASE ~(policy = "restore" /\ HasSavedState)
    <2>1. InitialState(policy) = CleanState
      BY <1>2 DEF InitialState
    <2>2. policy = "restore" => \A i \in DOMAIN trades : trades[i].book # book
      BY <1>2 DEF IInv, SavedOK
    <2> QED
      BY <2>1, <2>2, CleanTime DEF BookUpTo
  <1> QED
    BY <1>1, <1>2

LEMMA TradeRecords ==
    ASSUME TradesOK
    PROVE  \A i \in DOMAIN trades :
              trades[i].book \in Nat /\ trades[i].id \in TradeIds /\ trades[i].id[2] \in Int
  <1> DEFINE R == [id : TradeIds, book : Nat]
  <1>1. \A r \in R : r.book \in Nat /\ r.id \in TradeIds
    OBVIOUS
  <1>2. \A id \in TradeIds : id[2] \in Int
    BY DEF TradeIds
  <1>3. \A i \in DOMAIN trades : trades[i] \in R
    <2> HIDE DEF R
    <2>1. trades \in Seq(R)
      BY DEF TradesOK, R
    <2> QED
      BY <2>1
  <1> QED
    BY <1>1, <1>2, <1>3

\* A new book has no trades yet.
LEMMA NewBookIsEmpty ==
    ASSUME TradesOK, NEW policy \in StartPolicies, NewBook(policy), UNCHANGED trades
    PROVE  /\ book' \in Nat
           /\ \A i \in DOMAIN trades : trades[i].book <= book'
           /\ \A i \in DOMAIN trades :
                 trades[i].book = book' => policy # "reset" /\ book' = book
  <1>1. \A i \in DOMAIN trades : trades[i].book \in Nat
    BY TradeRecords
  <1> QED
    BY <1>1 DEF NewBook, TradesOK

LEMMA PolicyIs == ASSUME NEW policy \in StartPolicies PROVE policy \in {"reset", "restore"}
  BY PoliciesAssumption

LEMMA CandleTimes ==
    ASSUME NEW c \in Candles
    PROVE  c.close_time \in Int
  BY BoundsAssumption DEF Candles, CandleOf, Bars

\* What no process start changes.
LEMMA StartKeepsRecords ==
    ASSUME IInv, NEW policy \in StartPolicies, NewBook(policy), UNCHANGED <<db, trades>>,
           market' \in Int, market' >= market
    PROVE  TradesOK' /\ SavedOK'
  <1>1. /\ book' \in Nat
        /\ \A i \in DOMAIN trades : trades[i].book <= book'
        /\ \A i \in DOMAIN trades : trades[i].book = book' => book' = book
    BY NewBookIsEmpty DEF IInv
  <1>2. \A i \in DOMAIN trades : trades[i].id[2] \in Int
    BY TradeRecords DEF IInv
  <1>3. TradesOK'
    BY <1>1, <1>2 DEF IInv, TradesOK, TradesInOrder
  <1>4. SavedOK'
    BY <1>1 DEF IInv, SavedOK, HasSavedState, SavedTime, BookUpTo
  <1> QED
    BY <1>3, <1>4

LEMMA StartStep ==
    ASSUME IInv, NEW policy \in StartPolicies, NEW candle \in Candles, NEW from \in Bars,
           Start(policy, from, candle)
    PROVE  IInv'
  <1> DEFINE state == [InitialState(policy) EXCEPT !.last_candle_time = candle.close_time]
  <1>1. candle.close_time \in Int
    BY CandleTimes
  <1>2. Timed(state) /\ state.last_candle_time = candle.close_time
    BY <1>1, InitialTime DEF Timed, Optional
  <1>3. /\ market \in Int /\ market' = candle.close_time /\ market' >= market
        /\ NewBook(policy) /\ UNCHANGED <<db, trades>>
        /\ runtime' = state /\ pc' = "writing"
        /\ work' = [calls |-> <<"save_bot_state">>, state |-> state, filled |-> None,
                    bar |-> None]
        /\ buffer' = Warmed(from, candle)
        /\ last_processed' = Warmed(from, candle).last_emitted_close_time
    BY DEF Start, Begin, IInv, TradesOK
  <1> HIDE DEF state
  <1>4. TradesOK' /\ SavedOK'
    BY <1>1, <1>3, StartKeepsRecords
  <1>5. \A i \in DOMAIN trades : trades[i].id[2] \in Int /\ trades[i].id[2] < candle.close_time
    <2>1. \A i \in DOMAIN trades : trades[i].id[2] \in Int /\ trades[i].id[2] < market
      BY TradeRecords DEF IInv, TradesOK
    <2> QED
      BY <1>1, <1>3, <2>1
  <1>6. ProcessOK'
    <2>1. /\ buffer'.current_candle = candle /\ "current_candle" \in DOMAIN buffer'
          /\ last_processed' \in Optional(Int)
      BY <1>1, <1>3 DEF Warmed, Optional
    <2>2. candle # None
      BY CandleAssumption
    <2>3. Guarded'
      BY <2>2, <1>3, <1>5, <2>1 DEF Guarded
    <2> QED
      BY <1>1, <1>2, <1>3, <2>1, <2>2, <2>3 DEF ProcessOK
  <1>7. WorkOK'
    BY <1>1, <1>2, <1>3, <1>5 DEF WorkOK, OtherCalls, BookUpTo
  <1>8. RecordsOK'
    BY <1>3 DEF IInv, RecordsOK, AuditChain, FillsOnce, FilledKeys
  <1> QED
    BY <1>4, <1>6, <1>7, <1>8 DEF IInv

LEMMA StartWithoutBackfillStep ==
    ASSUME IInv, NEW policy \in StartPolicies, StartWithoutBackfill(policy)
    PROVE  IInv'
  <1>1. /\ market \in Int /\ UNCHANGED <<db, trades, work, market>> /\ NewBook(policy)
        /\ pc = "down" /\ pc' = "idle" /\ buffer' = EmptyBuffer
        /\ runtime' = InitialState(policy)
        /\ last_processed' = InitialState(policy).last_candle_time
    BY DEF StartWithoutBackfill, IInv, TradesOK
  <1>2. TradesOK' /\ SavedOK'
    BY <1>1, StartKeepsRecords
  <1>3. Timed(InitialState(policy))
    BY InitialTime
  <1>4. \A i \in DOMAIN trades : trades[i].book = book' =>
            /\ InitialState(policy).last_candle_time \in Int
            /\ trades[i].id[2] <= InitialState(policy).last_candle_time
    BY <1>1, NewBookIsEmpty, InitialTime, PolicyIs DEF IInv, BookUpTo
  <1>5. ProcessOK'
    BY <1>1, <1>3, <1>4 DEF ProcessOK, Guarded, BookUpTo, EmptyBuffer, Timed, Optional
  <1>6. work = NoWork
    BY <1>1 DEF IInv, WorkOK
  <1>7. WorkOK'
    BY <1>1, <1>6, CleanTime DEF WorkOK, NoWork, OtherCalls
  <1>8. RecordsOK'
    BY <1>1, <1>6 DEF IInv, RecordsOK, AuditChain, FillsOnce, FilledKeys, NoWork
  <1> QED
    BY <1>2, <1>5, <1>7, <1>8 DEF IInv

\* An update moves the buffer and the market on, never back; a bar is closed by an update
\* of a later one.
LEMMA ReceiveMovesOn ==
    ASSUME IInv, NEW u \in Candles, Receive(u)
    PROVE  /\ pc = "idle" /\ market' \in Int /\ market <= market'
           /\ "current_candle" \in DOMAIN buffer' /\ buffer'.current_candle # None
           /\ buffer'.current_candle.close_time \in Int
           /\ buffer.current_candle # None =>
                 buffer.current_candle.close_time <= buffer'.current_candle.close_time
           /\ ClosedBy(u) # None =>
                 /\ buffer.current_candle # None /\ ClosedBy(u) = buffer.current_candle
                 /\ ClosedBy(u).close_time \in Int
                 /\ ClosedBy(u).close_time < buffer'.current_candle.close_time
                 /\ ClosedBy(u).close_time < market'
  <1>1. u.close_time \in Int /\ u # None
    BY CandleTimes, CandleAssumption
  <1>2. market \in Int
    BY DEF IInv, TradesOK
  <1>3. /\ pc = "idle" /\ market' = HigherOf(market, u.close_time)
        /\ buffer' = process_update(buffer, u).buffer
    BY DEF Receive
  <1>4. market' \in Int /\ market <= market' /\ u.close_time <= market'
    BY <1>1, <1>2, <1>3 DEF HigherOf
  <1>5. /\ "current_candle" \in DOMAIN buffer
        /\ buffer.current_candle # None => buffer.current_candle.close_time \in Int
    BY DEF IInv, ProcessOK
  <1>6. CASE Starts(buffer, u)
    <2>1. buffer' = [buffer EXCEPT !.current_candle = u] /\ ClosedBy(u) = None
      BY <1>3, <1>6 DEF process_update, Refresh, ClosedBy
    <2>2. buffer'.current_candle = u /\ "current_candle" \in DOMAIN buffer'
      BY <1>5, <2>1
    <2>3. buffer.current_candle # None => u.close_time = buffer.current_candle.close_time
      BY <1>6 DEF Starts
    <2> QED
      BY <1>1, <1>3, <1>4, <1>5, <2>1, <2>2, <2>3
  <1>7. CASE ~Starts(buffer, u) /\ OutOfOrder(buffer, u)
    <2>1. buffer' = buffer /\ ClosedBy(u) = None /\ buffer.current_candle # None
      BY <1>3, <1>7 DEF process_update, ClosedBy, Starts
    <2> QED
      BY <1>3, <1>4, <1>5, <2>1
  <1>8. CASE ~Starts(buffer, u) /\ ~OutOfOrder(buffer, u)
    <2>1. /\ buffer'.current_candle = u /\ "current_candle" \in DOMAIN buffer'
          /\ ClosedBy(u) = buffer.current_candle
      BY <1>3, <1>8 DEF process_update, ClosedBy
    <2>2. /\ buffer.current_candle # None
          /\ buffer.current_candle.close_time < u.close_time
      BY <1>1, <1>5, <1>8 DEF Starts, OutOfOrder
    <2> QED
      BY <1>1, <1>3, <1>4, <1>5, <2>1, <2>2
  <1> QED
    BY <1>6, <1>7, <1>8

\* What an update changes of the market and the buffer disturbs nothing else.
LEMMA ReceiveKeeps ==
    ASSUME IInv, NEW u \in Candles, Receive(u), UNCHANGED <<last_processed, db, history>>
    PROVE  TradesOK' /\ SavedOK' /\ Guarded'
  <1>1. \A i \in DOMAIN trades : trades[i].id[2] \in Int
    BY TradeRecords DEF IInv
  <1>2. UNCHANGED <<trades, book>>
    BY DEF history
  <1>3. TradesOK'
    BY <1>1, <1>2, ReceiveMovesOn DEF IInv, TradesOK, TradesInOrder
  <1>4. SavedOK'
    BY <1>2 DEF IInv, SavedOK, HasSavedState, SavedTime, BookUpTo
  <1>5. Guarded
    BY ReceiveMovesOn DEF IInv, ProcessOK
  <1>6. Guarded'
    <2> SUFFICES ASSUME NEW i \in DOMAIN trades, trades[i].book = book,
                        ~(last_processed \in Int /\ trades[i].id[2] <= last_processed)
                 PROVE  /\ buffer'.current_candle # None
                        /\ trades[i].id[2] < buffer'.current_candle.close_time
      BY <1>2 DEF Guarded
    <2>1. /\ buffer.current_candle # None
          /\ trades[i].id[2] < buffer.current_candle.close_time
      BY <1>5 DEF Guarded
    <2>2. buffer.current_candle.close_time \in Int
      BY <2>1 DEF IInv, ProcessOK
    <2> QED
      BY <1>1, <2>1, <2>2, ReceiveMovesOn
  <1> QED
    BY <1>3, <1>4, <1>6

LEMMA BufferUpdateStep ==
    ASSUME IInv, NEW u \in Candles, BufferUpdate(u)
    PROVE  IInv'
  <1>1. Receive(u) /\ UNCHANGED <<pc, runtime, last_processed, work, db, history>>
    BY DEF BufferUpdate
  <1>2. UNCHANGED <<trades, book>>
    BY <1>1 DEF history
  <1>3. TradesOK' /\ SavedOK' /\ Guarded'
    BY <1>1, ReceiveKeeps
  <1>4. ProcessOK'
    BY <1>1, <1>2, <1>3, ReceiveMovesOn DEF IInv, ProcessOK, BookUpTo
  <1>5. work = NoWork /\ pc = "idle"
    BY <1>1, ReceiveMovesOn DEF IInv, WorkOK
  <1>6. WorkOK'
    BY <1>1, <1>5, CleanTime DEF WorkOK, NoWork, OtherCalls
  <1>7. RecordsOK'
    BY <1>1, <1>2 DEF IInv, RecordsOK, AuditChain, FillsOnce, FilledKeys
  <1> QED
    BY <1>3, <1>4, <1>6, <1>7 DEF IInv

\* A bar that is decided on is later than every trade of the book.
LEMMA ClosedBarIsNew ==
    ASSUME IInv, NEW u \in Candles, Closes(u)
    PROVE  /\ ClosedBy(u) # None /\ ClosedBy(u).close_time \in Int
           /\ BookBefore(ClosedBy(u).close_time) /\ BookUpTo(ClosedBy(u).close_time)
  <1>1. Receive(u) /\ ClosedBy(u) # None /\ ~AlreadyProcessed(ClosedBy(u).close_time)
    BY DEF Closes
  <1>2. /\ ClosedBy(u) = buffer.current_candle /\ ClosedBy(u).close_time \in Int
        /\ Guarded
    BY <1>1, ReceiveMovesOn DEF IInv, ProcessOK
  <1>3. last_processed \in Int => last_processed < ClosedBy(u).close_time
    BY <1>1, <1>2, NoneIsNoTime DEF AlreadyProcessed
  <1>4. \A i \in DOMAIN trades : trades[i].id[2] \in Int
    BY TradeRecords DEF IInv
  <1>5. ASSUME NEW i \in DOMAIN trades, trades[i].book = book
        PROVE  trades[i].id[2] < ClosedBy(u).close_time
    BY <1>2, <1>3, <1>4, <1>5 DEF Guarded
  <1> QED
    BY <1>1, <1>2, <1>4, <1>5 DEF BookBefore, BookUpTo

\* The writes of a bar begin from a state that is not older than the book's trades.
LEMMA BeginStep ==
    ASSUME IInv, NEW u \in Candles, Closes(u),
           NEW calls, NEW state, NEW filled,
           Begin(calls, state, filled, ClosedBy(u).close_time),
           Timed(state), BookUpTo(state.last_candle_time), Timed(runtime'),
           filled # None =>
              /\ filled \in TradeIds /\ filled[2] = ClosedBy(u).close_time
              /\ state.last_candle_time = ClosedBy(u).close_time
              /\ calls = FillCalls,
           filled = None => calls \in OtherCalls
    PROVE  IInv'
  <1> DEFINE bar == ClosedBy(u).close_time
  <1>1. /\ Receive(u) /\ ClosedBy(u) # None
        /\ UNCHANGED <<last_processed, db, history>> /\ UNCHANGED <<trades, book>>
    BY DEF Closes, history
  <1>2. /\ pc' = "writing"
        /\ work' = [calls |-> calls, state |-> state, filled |-> filled, bar |-> bar]
    BY DEF Begin
  <1>3. TradesOK' /\ SavedOK' /\ Guarded'
    BY <1>1, ReceiveKeeps
  <1>4. bar \in Int /\ BookBefore(bar) /\ BookUpTo(bar)
    BY ClosedBarIsNew
  <1>5. /\ "current_candle" \in DOMAIN buffer' /\ buffer'.current_candle # None
        /\ buffer'.current_candle.close_time \in Int
        /\ bar < buffer'.current_candle.close_time /\ bar < market'
    BY <1>1, ReceiveMovesOn
  <1> HIDE DEF bar
  <1>6. ProcessOK'
    BY <1>1, <1>2, <1>3, <1>5 DEF IInv, ProcessOK
  <1>7. WorkOK'
    <2>1. {"calls", "state", "filled", "bar"} \subseteq DOMAIN work'
      BY <1>2
    <2>2. /\ work'.calls = calls /\ work'.state = state /\ work'.filled = filled
          /\ work'.bar = bar
      BY <1>2
    <2>3. /\ BookUpTo(work.state.last_candle_time)'
          /\ BookUpTo(work.bar)' /\ BookBefore(work.bar)'
      BY <1>1, <1>4, <2>2 DEF BookUpTo, BookBefore
    <2>4. filled # None =>
             /\ filled \in TradeIds /\ filled[2] = bar /\ state.last_candle_time = bar
             /\ calls \in CallsOfFill
      BY DEF CallsOfFill, bar
    <2> QED
      BY <1>1, <1>2, <1>4, <1>5, <2>1, <2>2, <2>3, <2>4 DEF WorkOK
  <1>8. RecordsOK'
    <2>1. work'.calls = calls /\ work'.filled = filled
      BY <1>2
    <2>2. filled # None => /\ calls # <<"save_order", "save_fill", "save_event">>
                           /\ calls # <<"save_fill", "save_event">>
                           /\ calls # <<"save_event">>
      BY DEF FillCalls
    <2> QED
      BY <1>1, <2>1, <2>2 DEF IInv, RecordsOK, AuditChain, FillsOnce, FilledKeys
  <1> QED
    BY <1>3, <1>6, <1>7, <1>8 DEF IInv

LEMMA DecisionIsAt ==
    ASSUME IInv, NEW u \in Candles, Closes(u)
    PROVE  DecidedAt(DecisionOn(ClosedBy(u)), ClosedBy(u))
  BY EvaluateBarDecidesAt DEF DecisionOn, IInv, ProcessOK, Timed

LEMMA StrategySafeStopStep ==
    ASSUME IInv, NEW u \in Candles, StrategySafeStop(u)
    PROVE  IInv'
  <1> DEFINE bar == ClosedBy(u)
             state == DecisionOn(bar).updated_state
  <1>1. /\ Closes(u) /\ runtime' = state
        /\ Begin(<<"save_bot_state", "save_event", "save_safe_stop_reason">>, state, None,
                 bar.close_time)
    BY DEF StrategySafeStop
  <1>2. /\ "last_candle_time" \in DOMAIN state /\ state.last_candle_time = bar.close_time
        /\ bar.close_time \in Int /\ BookUpTo(bar.close_time)
    BY <1>1, DecisionIsAt, ClosedBarIsNew DEF DecidedAt
  <1>3. <<"save_bot_state", "save_event", "save_safe_stop_reason">> \in OtherCalls
    BY DEF OtherCalls
  <1> HIDE DEF bar, state
  <1>4. Timed(state) /\ Timed(runtime') /\ BookUpTo(state.last_candle_time)
    BY <1>1, <1>2 DEF Timed, Optional
  <1> QED
    BY <1>1, <1>3, <1>4, BeginStep DEF bar

LEMMA NoIntentStep ==
    ASSUME IInv, NEW u \in Candles, NoIntent(u)
    PROVE  IInv'
  <1> DEFINE bar == ClosedBy(u)
             state == DecisionOn(bar).updated_state
  <1>1. /\ Closes(u) /\ runtime' = state
        /\ Begin(<<"save_bot_state">>, state, None, bar.close_time)
    BY DEF NoIntent
  <1>2. /\ "last_candle_time" \in DOMAIN state /\ state.last_candle_time = bar.close_time
        /\ bar.close_time \in Int /\ BookUpTo(bar.close_time)
    BY <1>1, DecisionIsAt, ClosedBarIsNew DEF DecidedAt
  <1>3. <<"save_bot_state">> \in OtherCalls
    BY DEF OtherCalls
  <1> HIDE DEF bar, state
  <1>4. Timed(state) /\ Timed(runtime') /\ BookUpTo(state.last_candle_time)
    BY <1>1, <1>2 DEF Timed, Optional
  <1> QED
    BY <1>1, <1>3, <1>4, BeginStep DEF bar

LEMMA ExecuteIntentStep ==
    ASSUME IInv, NEW u \in Candles, ExecuteIntent(u)
    PROVE  IInv'
  <1> DEFINE bar == ClosedBy(u)
             intent == DecisionOn(bar).intent
             result == execute_intent(intent, runtime, bar, {})
             state == result.updated_state
             filled == IF result.filled_qty > 0 THEN intent.intent_id ELSE None
             calls == IF result.filled_qty > 0 THEN FillCalls
                      ELSE IF result.safe_stop_required
                      THEN <<"save_bot_state", "save_safe_stop_reason">>
                      ELSE <<"save_bot_state">>
  <1>1. /\ Closes(u) /\ intent # None /\ runtime' = runtime
        /\ Begin(calls, state, filled, bar.close_time)
    BY DEF ExecuteIntent
  <1>2. /\ bar.close_time \in Int /\ BookUpTo(bar.close_time)
        /\ intent.intent_id \in TradeIds /\ intent.intent_id[2] = bar.close_time
    BY <1>1, DecisionIsAt, ClosedBarIsNew DEF DecidedAt, TradeIds
  <1>3. pc = "idle" /\ Timed(runtime) /\ BookUpTo(runtime.last_candle_time)
    BY <1>1 DEF Closes, Receive, IInv, ProcessOK
  <1>4. /\ "last_candle_time" \in DOMAIN state
        /\ \/ state.last_candle_time = bar.close_time
           \/ state.last_candle_time = runtime.last_candle_time /\ result.filled_qty = 0
    BY <1>3, ExecutorKeepsTime DEF Timed
  <1>5. Timed(state) /\ BookUpTo(state.last_candle_time)
    <2> HIDE DEF bar, state, result, intent
    <2> QED
      BY <1>2, <1>3, <1>4 DEF Timed, Optional
  <1>6. filled # None => /\ filled \in TradeIds /\ filled[2] = bar.close_time
                         /\ state.last_candle_time = bar.close_time
                         /\ calls = FillCalls
    <2> HIDE DEF bar, state, result, intent
    <2> QED
      BY <1>2, <1>4
  <1>7. filled = None => calls \in OtherCalls
    <2> HIDE DEF bar, state, result, intent
    <2> QED
      BY <1>2, NoneIsNoTrade DEF OtherCalls
  <1>8. Timed(runtime')
    BY <1>1, <1>3
  <1> HIDE DEF state, filled, calls
  <1> QED
    BY <1>1, <1>5, <1>6, <1>7, <1>8, BeginStep

-----------------------------------------------------------------------------
(* The storage calls *)

LEMMA CommitIs ==
    ASSUME IInv, NEW call, Commit(call)
    PROVE  /\ pc = "writing" /\ work.calls # << >> /\ Head(work.calls) = call
           /\ {"calls", "state", "filled", "bar"} \subseteq DOMAIN work'
           /\ work'.calls = Tail(work.calls) /\ work'.state = work.state
           /\ work'.filled = work.filled /\ work'.bar = work.bar
           /\ work.filled # None => work.calls \in CallsOfFill
           /\ work.filled = None => work.calls \in OtherCalls
  BY DEF Commit, IInv, WorkOK

\* A call that only writes a record leaves the process as it was.
LEMMA CommitKeeps ==
    ASSUME IInv, NEW call, Commit(call), UNCHANGED <<pc, process, market, trades, book>>
    PROVE  TradesOK' /\ ProcessOK' /\ WorkOK'
  <1>1. TradesOK'
    BY DEF IInv, TradesOK, TradesInOrder
  <1>2. ProcessOK'
    BY DEF IInv, ProcessOK, process, Guarded, BookUpTo
  <1>3. WorkOK'
    <2>1. /\ work'.filled # None => work'.calls \in CallsOfFill /\ work'.calls # FillCalls
          /\ work'.filled = None => work'.calls \in OtherCalls
      BY CommitIs, FillCallsShrink, OtherCallsShrink
    <2>2. /\ BookUpTo(work.state.last_candle_time) => BookUpTo(work.state.last_candle_time)'
          /\ BookUpTo(work.bar) => BookUpTo(work.bar)'
      BY CommitIs DEF BookUpTo
    <2> QED
      BY <2>1, <2>2, CommitIs DEF IInv, WorkOK, process
  <1> QED
    BY <1>1, <1>2, <1>3

LEMMA SaveOrderStep == ASSUME IInv, SaveOrder PROVE IInv'
  <1>1. /\ Commit("save_order") /\ work.filled \notin db.orders
        /\ db' = [db EXCEPT !.orders = @ \cup {work.filled}]
        /\ UNCHANGED <<pc, process, market, trades, book>>
    BY DEF SaveOrder, NewClientOrderId, history
  <1>2. TradesOK' /\ ProcessOK' /\ WorkOK'
    BY <1>1, CommitKeeps
  <1>3. /\ db'.orders = db.orders \cup {work.filled} /\ DOMAIN db' = DOMAIN db
        /\ db'.tables = db.tables /\ db'.fills = db.fills /\ db'.events = db.events
    BY <1>1 DEF IInv, SavedOK
  <1>4. SavedOK'
    BY <1>1, <1>3 DEF IInv, SavedOK, HasSavedState, SavedTime, BookUpTo
  <1>5. /\ work.filled # None
        /\ work.calls = <<"save_order", "save_fill", "save_event">>
        /\ work'.calls = <<"save_fill", "save_event">> /\ work'.filled = work.filled
    BY <1>1, CommitIs, FillCallsShrink, OtherCallsShrink
  <1>6. \E i \in DOMAIN trades : trades[i].id = work.filled
    BY <1>5 DEF IInv, RecordsOK
  <1>7. FilledKeys' = FilledKeys /\ FilledKeys \subseteq db.orders
    BY <1>3 DEF FilledKeys, IInv, RecordsOK, AuditChain
  <1>8. AuditChain' /\ FillsOnce'
    BY <1>1, <1>3, <1>6, <1>7 DEF IInv, RecordsOK, AuditChain, FillsOnce
  <1>9. RecordsOK'
    BY <1>1, <1>3, <1>5, <1>7, <1>8 DEF IInv, RecordsOK
  <1> QED
    BY <1>2, <1>4, <1>9 DEF IInv

LEMMA SaveFillStep == ASSUME IInv, SaveFill PROVE IInv'
  <1>1. /\ Commit("save_fill") /\ db' = [db EXCEPT !.fills = Append(@, work.filled)]
        /\ UNCHANGED <<pc, process, market, trades, book>>
    BY DEF SaveFill, history
  <1>2. TradesOK' /\ ProcessOK' /\ WorkOK'
    BY <1>1, CommitKeeps
  <1>3. /\ db'.fills = Append(db.fills, work.filled) /\ DOMAIN db' = DOMAIN db
        /\ db'.tables = db.tables /\ db'.orders = db.orders /\ db'.events = db.events
    BY <1>1 DEF IInv, SavedOK
  <1>4. SavedOK'
    BY <1>1, <1>3 DEF IInv, SavedOK, HasSavedState, SavedTime, BookUpTo
  <1>5. /\ work.filled # None /\ work.calls = <<"save_fill", "save_event">>
        /\ work'.calls = <<"save_event">> /\ work'.filled = work.filled
    <2>1. Head(work.calls) = "save_fill" /\ work.calls # << >>
      BY <1>1, CommitIs
    <2>2. work.filled # None
      BY <1>1, <2>1, CommitIs, OtherCallsShrink
    <2> QED
      BY <1>1, <2>1, <2>2, CommitIs, FillCallsShrink
  <1>6. work.filled \in db.orders \ FilledKeys /\ work.filled \in TradeIds
    BY <1>5 DEF IInv, RecordsOK, WorkOK
  <1>7. db.fills \in Seq(TradeIds)
    BY DEF IInv, RecordsOK
  <1>8. /\ db'.fills \in Seq(TradeIds)
        /\ DOMAIN db'.fills = DOMAIN db.fills \cup {Len(db.fills) + 1}
        /\ db'.fills[Len(db.fills) + 1] = work.filled
        /\ \A i \in DOMAIN db.fills : db'.fills[i] = db.fills[i]
    BY <1>3, <1>6, <1>7
  <1>9. FilledKeys' = FilledKeys \cup {work.filled}
    BY <1>7, <1>8 DEF FilledKeys
  <1>10. AuditChain'
    BY <1>1, <1>3, <1>6, <1>9 DEF IInv, RecordsOK, AuditChain
  <1>11. FillsOnce'
    BY <1>6, <1>8 DEF IInv, RecordsOK, FillsOnce, FilledKeys
  <1>12. RecordsOK'
    BY <1>5, <1>8, <1>9, <1>10, <1>11 DEF RecordsOK
  <1> QED
    BY <1>2, <1>4, <1>12 DEF IInv

LEMMA SaveEventStep == ASSUME IInv, SaveEvent PROVE IInv'
  <1> DEFINE event == IF work.filled = None THEN <<"SAFE_STOP", work.bar>> ELSE work.filled
  <1>1. /\ Commit("save_event") /\ db' = [db EXCEPT !.events = @ \cup {event}]
        /\ UNCHANGED <<pc, process, market, trades, book>>
    BY DEF SaveEvent
  <1>2. TradesOK' /\ ProcessOK' /\ WorkOK'
    BY <1>1, CommitKeeps
  <1>3. /\ db'.events = db.events \cup {event} /\ DOMAIN db' = DOMAIN db
        /\ db'.tables = db.tables /\ db'.orders = db.orders /\ db'.fills = db.fills
    BY <1>1 DEF IInv, SavedOK
  <1>4. SavedOK'
    BY <1>1, <1>3 DEF IInv, SavedOK, HasSavedState, SavedTime, BookUpTo
  <1>5. event \in TradeKeys => event \in FilledKeys
    <2>1. CASE work.filled = None
      BY <2>1 DEF TradeKeys, OpenTypes, CoverTypes
    <2>2. CASE work.filled # None
      <3>1. work.calls = <<"save_event">>
        BY <1>1, <2>2, CommitIs, FillCallsShrink
      <3> QED
        BY <2>2, <3>1 DEF IInv, RecordsOK
    <2> QED
      BY <2>1, <2>2
  <1>6. /\ work'.filled = work.filled
        /\ work.filled # None => work'.calls = << >>
    BY <1>1, CommitIs, FillCallsShrink
  <1> HIDE DEF event
  <1>7. FilledKeys' = FilledKeys
    BY <1>3 DEF FilledKeys
  <1>8. AuditChain' /\ FillsOnce'
    BY <1>1, <1>3, <1>5, <1>7 DEF IInv, RecordsOK, AuditChain, FillsOnce, TradeKeys, Bars
  <1>9. RecordsOK'
    <2>1. /\ << >> # <<"save_order", "save_fill", "save_event">>
          /\ << >> # <<"save_fill", "save_event">> /\ << >> # <<"save_event">>
      OBVIOUS
    <2> QED
      BY <1>3, <1>6, <1>8, <2>1 DEF IInv, RecordsOK
  <1> QED
    BY <1>2, <1>4, <1>9 DEF IInv

LEMMA SaveSafeStopReasonStep == ASSUME IInv, SaveSafeStopReason PROVE IInv'
  <1>1. /\ Commit("save_safe_stop_reason")
        /\ db' = [db EXCEPT !.safe_stops = @ \cup {work.bar},
                            !.tables = MarkSafeStop(@, Bot)]
        /\ UNCHANGED <<pc, process, market, trades, book>>
    BY DEF SaveSafeStopReason, history
  <1>2. TradesOK' /\ ProcessOK' /\ WorkOK'
    BY <1>1, CommitKeeps
  <1>3. /\ db'.tables = MarkSafeStop(db.tables, Bot) /\ DOMAIN db' = DOMAIN db
        /\ db'.orders = db.orders /\ db'.fills = db.fills /\ db'.events = db.events
    BY <1>1 DEF IInv, SavedOK
  <1>4. SavedOK'
    BY <1>1, <1>3, MarkedRow DEF IInv, SavedOK, HasSavedState, SavedTime, BookUpTo
  <1>5. work.filled = None /\ work'.filled = None
    BY <1>1, CommitIs, FillCallsShrink
  <1>6. FilledKeys' = FilledKeys
    BY <1>3 DEF FilledKeys
  <1>7. AuditChain' /\ FillsOnce'
    BY <1>1, <1>3, <1>6 DEF IInv, RecordsOK, AuditChain, FillsOnce
  <1>8. RecordsOK'
    BY <1>3, <1>5, <1>7 DEF IInv, RecordsOK
  <1> QED
    BY <1>2, <1>4, <1>8 DEF IInv

\* The state, and with it the trade, reaches the database.
LEMMA SaveBotStateStep == ASSUME IInv, SaveBotState PROVE IInv'
  <1> DEFINE trade == [id |-> work.filled, book |-> book]
  <1>1. /\ Commit("save_bot_state") /\ UNCHANGED <<pc, process, market, book>>
        /\ db' = [db EXCEPT !.tables = save_bot_state(@, Bot, work.state)]
    BY DEF SaveBotState
  <1>2. /\ db'.tables = save_bot_state(db.tables, Bot, work.state) /\ DOMAIN db' = DOMAIN db
        /\ db'.orders = db.orders /\ db'.fills = db.fills /\ db'.events = db.events
    BY <1>1 DEF IInv, SavedOK
  <1>3. FilledKeys' = FilledKeys
    BY <1>2 DEF FilledKeys
  <1>4. pc = "writing" /\ Timed(work.state) /\ BookUpTo(work.state.last_candle_time)
    BY <1>1, CommitIs DEF IInv, WorkOK
  <1>5. /\ HasSavedState' /\ "bot_state" \in DOMAIN db'.tables
        /\ Timed(db'.tables.bot_state[Bot]) /\ SavedTime' = work.state.last_candle_time
    BY <1>2, <1>4, SavedRow DEF HasSavedState, SavedTime
  <1>6. CASE work.filled = None
    <2>1. UNCHANGED trades
      BY <1>6 DEF SaveBotState
    <2>2. TradesOK' /\ ProcessOK' /\ WorkOK'
      BY <1>1, <2>1, CommitKeeps
    <2>3. SavedOK'
      BY <1>1, <1>2, <1>4, <1>5, <2>1 DEF IInv, SavedOK, BookUpTo
    <2>4. AuditChain' /\ FillsOnce'
      BY <1>2, <1>3, <2>1 DEF IInv, RecordsOK, AuditChain, FillsOnce
    <2>5. RecordsOK'
      BY <1>1, <1>2, <1>6, <2>4, CommitIs DEF IInv, RecordsOK
    <2> QED
      BY <2>2, <2>3, <2>5 DEF IInv
  <1>7. CASE work.filled # None
    <2>1. trades' = Append(trades, trade)
      BY <1>7 DEF SaveBotState
    <2>2. /\ work.filled \in TradeIds /\ work.bar \in Int /\ work.filled[2] = work.bar
          /\ work.bar < market /\ work.state.last_candle_time = work.bar
          /\ buffer.current_candle # None /\ work.bar < buffer.current_candle.close_time
      BY <1>7, NoneIsNoTime DEF IInv, WorkOK, TradeIds
    <2>3. /\ work.calls = FillCalls
          /\ work'.calls = <<"save_order", "save_fill", "save_event">>
      BY <1>1, <1>7, CommitIs, FillCallsShrink
    <2>4. BookBefore(work.bar)
      BY <1>7, <2>3 DEF IInv, WorkOK
    <2>5. book \in Nat /\ trades \in Seq([id : TradeIds, book : Nat])
      BY DEF IInv, TradesOK
    <2>6. trade \in [id : TradeIds, book : Nat] /\ trade.id = work.filled /\ trade.book = book
      BY <2>2, <2>5
    <2> DEFINE n == Len(trades) + 1
    <2> HIDE DEF trade
    <2>7. /\ trades' \in Seq([id : TradeIds, book : Nat])
          /\ n \in DOMAIN trades' /\ DOMAIN trades' = DOMAIN trades \cup {n}
          /\ n \in Nat /\ DOMAIN trades = 1 .. n - 1 /\ trades'[n] = trade
          /\ \A i \in DOMAIN trades : trades'[i] = trades[i]
      <3> DEFINE R == [id : TradeIds, book : Nat]
      <3>1. trades \in Seq(R) /\ trade \in R
        BY <2>5, <2>6
      <3> HIDE DEF R
      <3>2. /\ trades' \in Seq(R)
            /\ n \in DOMAIN trades' /\ DOMAIN trades' = DOMAIN trades \cup {n}
            /\ n \in Nat /\ DOMAIN trades = 1 .. n - 1 /\ trades'[n] = trade
            /\ \A i \in DOMAIN trades : trades'[i] = trades[i]
        BY <2>1, <3>1
      <3> QED
        BY <3>2 DEF R
    <2> HIDE DEF n
    <2>8. \A i \in DOMAIN trades : trades[i].id[2] \in Int
      BY TradeRecords DEF IInv
    <2>9. TradesInOrder'
      <3> SUFFICES ASSUME NEW i \in DOMAIN trades', NEW j \in DOMAIN trades', i < j,
                          trades'[i].book = trades'[j].book
                   PROVE  trades'[i].id[2] < trades'[j].id[2]
        BY DEF TradesInOrder
      <3>1. i \in DOMAIN trades
        BY <2>7
      <3>2. CASE j = n
        BY <2>2, <2>4, <2>6, <2>7, <3>1, <3>2 DEF BookBefore
      <3>3. CASE j # n
        <4>1. j \in DOMAIN trades
          BY <2>7, <3>3
        <4> QED
          BY <2>7, <3>1, <4>1 DEF IInv, TradesOK, TradesInOrder
      <3> QED
        BY <3>2, <3>3
    <2>10. TradesOK'
      <3>1. \A i \in DOMAIN trades : trades[i].book <= book /\ trades[i].id[2] < market
        BY DEF IInv, TradesOK
      <3>2. \A i \in DOMAIN trades' : trades'[i].book <= book /\ trades'[i].id[2] < market
        BY <2>2, <2>5, <2>6, <2>7, <3>1
      <3>3. UNCHANGED <<market, book>> /\ market \in Int
        BY <1>1 DEF IInv, TradesOK
      <3> QED
        BY <2>5, <2>7, <2>9, <3>2, <3>3 DEF TradesOK
    <2>11. \A i \in DOMAIN trades' : trades'[i].book = book => trades'[i].id[2] <= work.bar
      BY <2>2, <2>4, <2>6, <2>7, <2>8 DEF BookBefore
    <2>12. ProcessOK'
      <3>1. UNCHANGED <<pc, book, buffer, runtime, last_processed>>
        BY <1>1 DEF process
      <3>2. Guarded'
        <4>1. buffer.current_candle.close_time \in Int
          BY <2>2 DEF IInv, ProcessOK
        <4>2. \A i \in DOMAIN trades' : trades'[i].id[2] \in Int
          BY <2>2, <2>6, <2>7, <2>8
        <4>3. \A i \in DOMAIN trades' : trades'[i].book = book =>
                 trades'[i].id[2] < buffer.current_candle.close_time
          BY <2>2, <2>11, <4>1, <4>2
        <4> QED
          BY <2>2, <3>1, <4>3 DEF Guarded
      <3> QED
        BY <1>4, <3>1, <3>2 DEF IInv, ProcessOK
    <2>13. SavedOK'
      BY <1>1, <1>2, <1>5, <2>2, <2>11 DEF IInv, SavedOK, BookUpTo
    <2>14. WorkOK'
      <3>1. BookUpTo(work.bar)' /\ BookUpTo(work.state.last_candle_time)'
        BY <1>1, <2>2, <2>11, CommitIs DEF BookUpTo
      <3>2. work'.calls \in CallsOfFill /\ work'.calls # FillCalls
        BY <1>1, <1>7, CommitIs, FillCallsShrink
      <3> QED
        BY <1>1, <1>4, <1>7, <2>2, <3>1, <3>2, CommitIs DEF WorkOK, process
    <2>15. AuditChain' /\ FillsOnce'
      BY <1>2, <1>3, <2>7 DEF IInv, RecordsOK, AuditChain, FillsOnce
    <2>16. RecordsOK'
      <3>1. /\ work'.filled = work.filled
            /\ work'.calls # <<"save_fill", "save_event">> /\ work'.calls # <<"save_event">>
        BY <1>1, <2>3, CommitIs
      <3>2. \E i \in DOMAIN trades' : trades'[i].id = work.filled
        BY <2>6, <2>7
      <3> QED
        BY <1>2, <2>15, <3>1, <3>2 DEF IInv, RecordsOK
    <2> QED
      BY <2>10, <2>12, <2>13, <2>14, <2>16 DEF IInv
  <1> QED
    BY <1>6, <1>7

LEMMA ReturnStep == ASSUME IInv, Return PROVE IInv'
  <1>1. /\ pc = "writing" /\ pc' = "idle" /\ work' = NoWork /\ runtime' = work.state
        /\ last_processed' = IF work.bar = None THEN last_processed ELSE work.bar
        /\ UNCHANGED <<buffer, db, market, trades, book>>
    BY DEF Return, CommittedRuntime, history
  <1>2. TradesOK' /\ SavedOK'
    BY <1>1 DEF IInv, TradesOK, TradesInOrder, SavedOK, HasSavedState, SavedTime, BookUpTo
  <1>3. Guarded'
    <2>1. CASE work.bar = None
      BY <1>1, <2>1 DEF IInv, ProcessOK, Guarded
    <2>2. CASE work.bar # None
      BY <1>1, <2>2 DEF IInv, WorkOK, Guarded, BookUpTo
    <2> QED
      BY <2>1, <2>2
  <1>4. Timed(work.state) /\ BookUpTo(work.state.last_candle_time)
    BY <1>1 DEF IInv, WorkOK
  <1>5. last_processed' \in Optional(Int)
    BY <1>1 DEF IInv, ProcessOK, WorkOK, Optional
  <1>6. ProcessOK'
    BY <1>1, <1>3, <1>4, <1>5 DEF IInv, ProcessOK, BookUpTo
  <1>7. WorkOK'
    BY <1>1, CleanTime DEF WorkOK, NoWork, OtherCalls
  <1>8. RecordsOK'
    BY <1>1 DEF IInv, RecordsOK, AuditChain, FillsOnce, FilledKeys, NoWork
  <1> QED
    BY <1>2, <1>6, <1>7, <1>8 DEF IInv

LEMMA DieStep == ASSUME IInv, Die PROVE IInv'
  <1>1. /\ pc' = "down" /\ work' = NoWork /\ buffer' = EmptyBuffer /\ runtime' = CleanState
        /\ last_processed' = None /\ UNCHANGED <<db, market, trades, book>>
    BY DEF Die
  <1>2. TradesOK' /\ SavedOK'
    BY <1>1 DEF IInv, TradesOK, TradesInOrder, SavedOK, HasSavedState, SavedTime, BookUpTo
  <1>3. ProcessOK'
    BY <1>1, CleanTime DEF ProcessOK, EmptyBuffer, Optional
  <1>4. WorkOK'
    BY <1>1, CleanTime DEF WorkOK, NoWork, OtherCalls
  <1>5. RecordsOK'
    BY <1>1 DEF IInv, RecordsOK, AuditChain, FillsOnce, FilledKeys, NoWork
  <1> QED
    BY <1>2, <1>3, <1>4, <1>5 DEF IInv

LEMMA NextIInv == IInv /\ [Next]_vars => IInv'
  <1> SUFFICES ASSUME IInv, [Next]_vars PROVE IInv'
    OBVIOUS
  <1>1. ASSUME NEW policy \in StartPolicies, StartWithoutBackfill(policy) PROVE IInv'
    BY <1>1, StartWithoutBackfillStep
  <1>2. ASSUME NEW policy \in StartPolicies, NEW candle \in Candles,
               NEW from \in {candle.close_time - 1, candle.close_time} \cap Bars,
               Start(policy, from, candle)
        PROVE  IInv'
    BY <1>2, StartStep
  <1>3. ASSUME NEW u \in Candles,
               BufferUpdate(u) \/ StrategySafeStop(u) \/ NoIntent(u) \/ ExecuteIntent(u)
        PROVE  IInv'
    BY <1>3, BufferUpdateStep, StrategySafeStopStep, NoIntentStep, ExecuteIntentStep
  <1>4. CASE Write
    <2>1. CASE SaveBotState
      BY <2>1, SaveBotStateStep
    <2>2. CASE SaveOrder
      BY <2>2, SaveOrderStep
    <2>3. CASE SaveOrderFails
      BY <2>3, DieStep DEF SaveOrderFails, IntegrityError
    <2>4. CASE SaveFill
      BY <2>4, SaveFillStep
    <2>5. CASE SaveEvent
      BY <2>5, SaveEventStep
    <2>6. CASE SaveSafeStopReason
      BY <2>6, SaveSafeStopReasonStep
    <2>7. CASE Return
      BY <2>7, ReturnStep
    <2> QED
      BY <1>4, <2>1, <2>2, <2>3, <2>4, <2>5, <2>6, <2>7 DEF Write
  <1>5. CASE Crash
    BY <1>5, DieStep DEF Crash
  <1>6. CASE UNCHANGED vars
    <2>1. UNCHANGED <<pc, buffer, runtime, last_processed, work, db, market, trades, book>>
      BY <1>6 DEF vars, process, history
    <2>2. TradesOK' /\ SavedOK'
      BY <2>1 DEF IInv, TradesOK, TradesInOrder, SavedOK, HasSavedState, SavedTime, BookUpTo
    <2>3. ProcessOK'
      BY <2>1 DEF IInv, ProcessOK, Guarded, BookUpTo
    <2>4. WorkOK'
      BY <2>1 DEF IInv, WorkOK, BookUpTo, BookBefore
    <2>5. RecordsOK'
      BY <2>1 DEF IInv, RecordsOK, AuditChain, FillsOnce, FilledKeys
    <2> QED
      BY <2>2, <2>3, <2>4, <2>5 DEF IInv
  <1> QED
    BY <1>1, <1>2, <1>3, <1>4, <1>5, <1>6 DEF Next

-----------------------------------------------------------------------------
(* The safe stop *)

HasFlag(st) == "safe_stop_active" \in DOMAIN st
Marked(st) == HasFlag(st) /\ st.safe_stop_active = TRUE

\* s has the flag st has.
SameStop(s, st) ==
    HasFlag(st) => HasFlag(s) /\ s.safe_stop_active = st.safe_stop_active

\* No operation on the position touches safe_stop_active, not even reset_cycle.
LEMMA PositionKeepsStop ==
    ASSUME NEW st, NEW a, NEW b, NEW p, NEW lvl
    PROVE  /\ SameStop(add_short_lot(st, a, b, p, lvl), st)
           /\ SameStop(close_last_lot(st, b, p), st)
           /\ SameStop(reset_cycle(close_all(st, p)), st)
  <1>1. ASSUME NEW s, NEW q, NEW l
        PROVE  SameStop(recalculate_position_fields(s, q, l), s)
    BY DEF SameStop, HasFlag, recalculate_position_fields
  <1>2. ASSUME NEW s, NEW lot PROVE SameStop(BookLot(s, lot), s)
    BY DEF SameStop, HasFlag, BookLot
  <1>3. ASSUME NEW s, NEW lots PROVE SameStop([s EXCEPT !.lots = lots], s)
    BY DEF SameStop, HasFlag
  <1>4. ASSUME NEW r, NEW s, NEW t, SameStop(r, s), SameStop(s, t) PROVE SameStop(r, t)
    BY <1>4 DEF SameStop
  <1>5. ASSUME NEW s PROVE SameStop(reset_cycle(s), s)
    BY DEF SameStop, HasFlag, reset_cycle
  <1>6. SameStop(add_short_lot(st, a, b, p, lvl), st)
    BY <1>1, <1>2, <1>4 DEF add_short_lot
  <1>7. SameStop(close_last_lot(st, b, p), st)
    BY <1>1, <1>3, <1>4 DEF close_last_lot
  <1>8. SameStop(reset_cycle(close_all(st, p)), st)
    <2>1. SameStop(close_all(st, p), st)
      BY <1>1, <1>3, <1>4 DEF close_all
    <2> QED
      BY <1>4, <1>5, <2>1
  <1> QED
    BY <1>6, <1>7, <1>8

\* A decision of a state with the flag st has: it keeps that flag, or asks for the safe
\* stop and sets it.
DecidesWithStop(d, st) ==
    /\ HasFlag(d.updated_state)
    /\ \/ Marked(d.updated_state)
       \/ d.safe_stop_required = FALSE /\ SameStop(d.updated_state, st)

\* evaluate_bar never takes the flag back, and what asks for a safe stop has it.
LEMMA EvaluateBarKeepsStop ==
    ASSUME NEW state, NEW c, NEW allowed, HasFlag(state)
    PROVE  DecidesWithStop(evaluate_bar(state, c, allowed), state)
  <1> DEFINE st == [state EXCEPT !.last_candle_time = c.close_time]
             OK(d) == DecidesWithStop(d, state)
             Flagged(s) == HasFlag(s) /\ SameStop(s, state)
  <1>1. Flagged(st)
    BY DEF HasFlag, SameStop
  <1>2. ASSUME NEW s, NEW r, Flagged(s), SameStop(r, s) PROVE Flagged(r)
    BY <1>2 DEF SameStop
  <1>3. ASSUME NEW s, Flagged(s)
        PROVE  OK(SafeStopDecision(s)) /\ \A intent : OK(Decision(s, intent))
    BY <1>3 DEF DecidesWithStop, SafeStopDecision, Decision, Marked, HasFlag
  <1> HIDE DEF st, OK, Flagged
  <1>4. ASSUME NEW s, Flagged(s) PROVE OK(FirstShort(s, c))
    <2>1. \/ FirstShort(s, c) = SafeStopDecision(s)
          \/ \E q, lvl, intent : FirstShort(s, c) =
                Decision(add_short_lot(s, IntentKey("FIRST_SHORT", c), q, c.close, lvl), intent)
      BY DEF FirstShort
    <2> QED
      BY <1>2, <1>3, <1>4, <2>1, PositionKeepsStop
  <1>5. ASSUME NEW s, Flagged(s) PROVE OK(Dca(s, c))
    <2>1. \/ Dca(s, c) = SafeStopDecision(s)
          \/ \E q, lvl, intent : Dca(s, c) =
                Decision(add_short_lot(s, IntentKey("DCA_SHORT", c), q, c.close, lvl), intent)
      BY DEF Dca
    <2> QED
      BY <1>2, <1>3, <1>5, <2>1, PositionKeepsStop
  <1>6. ASSUME NEW s, Flagged(s) PROVE OK(Subcover(s, c))
    <2>1. \E q, intent : Subcover(s, c) = Decision(close_last_lot(s, q, c.close), intent)
      BY DEF Subcover
    <2> QED
      BY <1>2, <1>3, <1>6, <2>1, PositionKeepsStop
  <1>7. ASSUME NEW s, NEW tr, NEW type, Flagged(tr)
        PROVE  OK(Exit(s, tr, c, type))
    <2>1. Flagged(reset_cycle(close_all(tr, c.close)))
      BY <1>2, <1>7, PositionKeepsStop
    <2> QED
      BY <1>3, <2>1 DEF Exit
  <1>8. ASSUME NEW s, Flagged(s) PROVE OK(ManagePosition(s, c))
    <2>1. SameStop(UpdateTrailing(s, c), s)
      BY DEF SameStop, HasFlag, UpdateTrailing
    <2>2. Flagged(UpdateTrailing(s, c))
      BY <1>2, <1>8, <2>1
    <2>3. \/ ManagePosition(s, c) = Exit(s, s, c, "FULL_COVER")
          \/ ManagePosition(s, c) = Exit(s, UpdateTrailing(s, c), c, "TRAILING_TP")
          \/ ManagePosition(s, c) = Subcover(UpdateTrailing(s, c), c)
          \/ ManagePosition(s, c) = Dca(UpdateTrailing(s, c), c)
          \/ ManagePosition(s, c) = Decision(UpdateTrailing(s, c), None)
      BY DEF ManagePosition
    <2> QED
      BY <1>3, <1>5, <1>6, <1>7, <1>8, <2>2, <2>3
  <1>9. \/ evaluate_bar(state, c, allowed) = SafeStopDecision(st)
        \/ evaluate_bar(state, c, allowed) = Decision(st, None)
        \/ evaluate_bar(state, c, allowed) = FirstShort(st, c)
        \/ evaluate_bar(state, c, allowed) = ManagePosition(st, c)
    BY DEF evaluate_bar, st
  <1>10. OK(evaluate_bar(state, c, allowed))
    BY <1>1, <1>3, <1>4, <1>8, <1>9
  <1> QED
    BY <1>10 DEF OK

\* While the flag is set the executor refuses every intent and hands the state back
\* (RiskManager.check_intent); and a fill does not touch the flag.
LEMMA ExecutorStops ==
    ASSUME NEW intent, NEW st, NEW c, NEW seen, HasFlag(st),
           NEW r, r = execute_intent(intent, st, c, seen)
    PROVE  /\ HasFlag(r.updated_state)
           /\ Marked(st) => r.updated_state = st /\ r.filled_qty = 0
  <1> DEFINE Stamp(s) == [s EXCEPT !.orders_last_3min = Append(st.orders_last_3min, c.close_time),
                                   !.last_candle_time = c.close_time]
  <1>1. ASSUME NEW s, SameStop(s, st) PROVE HasFlag(Stamp(s))
    BY <1>1 DEF SameStop, HasFlag
  <1>2. ASSUME NEW qty PROVE HasFlag(ApplyFill(st, intent, qty, c))
    <2>1. CASE intent.intent_type \in OpenTypes
      <3>1. HasFlag(Stamp(add_short_lot(st, intent.intent_id, qty, c.close, None)))
        BY <1>1, PositionKeepsStop
      <3> QED
        BY <2>1, <3>1 DEF ApplyFill, HasFlag
    <2>2. CASE intent.intent_type \notin OpenTypes /\ intent.intent_type = "SUB_COVER"
      <3>1. HasFlag(Stamp(close_last_lot(st, qty, c.close)))
        BY <1>1, PositionKeepsStop
      <3> QED
        BY <2>2, <3>1 DEF ApplyFill, HasFlag
    <2>3. CASE intent.intent_type \notin OpenTypes /\ intent.intent_type # "SUB_COVER"
      <3>1. HasFlag(Stamp(reset_cycle(close_all(st, c.close))))
        BY <1>1, PositionKeepsStop
      <3> QED
        BY <2>3, <3>1 DEF ApplyFill
    <2> QED
      BY <2>1, <2>2, <2>3
  <1>3. \/ \E stop, why : r = Blocked(st, stop, why)
        \/ \E qty : r = Filled(ApplyFill(st, intent, BookedQty(intent), c), qty)
    BY DEF execute_intent
  <1>4. HasFlag(r.updated_state)
    BY <1>2, <1>3 DEF Blocked, Filled
  <1>5. ASSUME Marked(st) PROVE r.updated_state = st /\ r.filled_qty = 0
    <2>1. check_intent(st, intent, c.close_time, seen) \in {"invalid_state", "safe_stop_active"}
      BY <1>5 DEF check_intent, Stopped, Marked
    <2>2. check_intent(st, intent, c.close_time, seen) # "ok"
      BY <2>1
    <2>3. \E stop, why : r = Blocked(st, stop, why)
      BY <2>2 DEF execute_intent
    <2> QED
      BY <2>3 DEF Blocked
  <1> QED
    BY <1>4, <1>5

\* The row of a saved state has its flag.
LEMMA RowKeepsStop ==
    ASSUME NEW t, NEW b, NEW st, HasFlag(st)
    PROVE  /\ HasFlag(save_bot_state(t, b, st).bot_state[b])
           /\ save_bot_state(t, b, st).bot_state[b].safe_stop_active = st.safe_stop_active
  <1>1. save_bot_state(t, b, st).bot_state[b] = BotStateRow(st)
    BY DEF save_bot_state
  <1>2. "safe_stop_active" \in Scalars
    BY DEF Scalars, CleanState
  <1> QED
    BY <1>1, <1>2 DEF BotStateRow, HasFlag

\* A state loaded has the flag of its row, and save_safe_stop_reason marks the row.
LEMMA TablesKeepStop ==
    ASSUME NEW t, NEW b
    PROVE  /\ HasRow(t, b) /\ HasFlag(t.bot_state[b]) =>
                 /\ HasFlag(load_bot_state(t, b))
                 /\ load_bot_state(t, b).safe_stop_active = t.bot_state[b].safe_stop_active
           /\ "bot_state" \in DOMAIN t /\ HasRow(t, b) /\ HasFlag(t.bot_state[b]) =>
                 Marked(MarkSafeStop(t, b).bot_state[b])
  <1>1. "safe_stop_active" \in Scalars /\ "safe_stop_active" \in DOMAIN CleanState
    BY DEF Scalars, CleanState
  <1>2. ASSUME NEW row, NEW lots, NEW orders, NEW counters
        PROVE  LET st == deserialize_bot_state(row, lots, orders, counters) IN
               HasFlag(st) /\ st.safe_stop_active = row.safe_stop_active
    BY <1>1 DEF HasFlag, deserialize_bot_state
  <1>3. HasRow(t, b) /\ HasFlag(t.bot_state[b]) =>
            /\ HasFlag(load_bot_state(t, b))
            /\ load_bot_state(t, b).safe_stop_active = t.bot_state[b].safe_stop_active
    BY <1>2 DEF load_bot_state
  <1>4. "bot_state" \in DOMAIN t /\ HasRow(t, b) /\ HasFlag(t.bot_state[b]) =>
            Marked(MarkSafeStop(t, b).bot_state[b])
    BY DEF MarkSafeStop, HasRow, Marked, HasFlag
  <1> QED
    BY <1>3, <1>4

\* A safe stop on record is marked wherever a later state could come from: the row, the
\* runtime state, and the state being written, which then is of no fill.
StopOnRecord ==
    /\ HasSavedState /\ Marked(db.tables.bot_state[Bot])
    /\ pc = "idle" => Marked(runtime)
    /\ pc = "writing" => Marked(work.state) /\ work.filled = None

StopInv ==
    /\ stopped_books \subseteq 0 .. book
    /\ HasFlag(runtime) /\ HasFlag(work.state)
    /\ HasSavedState => HasFlag(db.tables.bot_state[Bot])
    /\ book \in stopped_books => StopOnRecord
    /\ pc = "writing" /\ work.filled = None =>
          /\ work.calls = <<"save_bot_state", "save_event", "save_safe_stop_reason">> =>
                Marked(work.state)
          /\ work.calls = <<"save_event", "save_safe_stop_reason">> =>
                HasSavedState /\ Marked(db.tables.bot_state[Bot]) /\ Marked(work.state)

LEMMA CleanFlag == HasFlag(CleanState) /\ HasFlag(NoWork.state)
  BY DEF HasFlag, CleanState, NoWork

LEMMA InitStopInv == Init => StopInv
  BY CleanFlag DEF Init, StopInv, NoWork, HasSavedState, HasRow, NoTables, StopOnRecord

\* A restored state has the flag of its row; a new book has not been stopped.
LEMMA StartKeepsStop ==
    ASSUME IInv, StopInv, NEW policy \in StartPolicies, NewBook(policy),
           UNCHANGED <<db, stopped_books>>
    PROVE  /\ stopped_books' \subseteq 0 .. book'
           /\ HasFlag(InitialState(policy))
           /\ book' \in stopped_books' =>
                 /\ HasSavedState /\ Marked(db.tables.bot_state[Bot])
                 /\ Marked(InitialState(policy))
  <1>1. book \in Nat
    BY DEF IInv, TradesOK
  <1>2. stopped_books' \subseteq 0 .. book'
    BY <1>1 DEF StopInv, NewBook
  <1>3. HasSavedState => HasFlag(SavedState) /\
            SavedState.safe_stop_active = db.tables.bot_state[Bot].safe_stop_active
    BY TablesKeepStop DEF StopInv, HasSavedState, SavedState
  <1>4. HasFlag(InitialState(policy))
    BY <1>3, CleanFlag DEF InitialState
  <1>5. ASSUME book' \in stopped_books'
        PROVE  /\ HasSavedState /\ Marked(db.tables.bot_state[Bot])
               /\ Marked(InitialState(policy))
    <2>1. policy = "restore" /\ book' = book
      BY <1>1, <1>5, PolicyIs DEF StopInv, NewBook
    <2>2. HasSavedState /\ Marked(db.tables.bot_state[Bot])
      BY <1>5, <2>1 DEF StopInv, StopOnRecord
    <2> QED
      BY <1>3, <2>1, <2>2 DEF InitialState, Marked
  <1> QED
    BY <1>2, <1>4, <1>5

LEMMA StartStop ==
    ASSUME IInv, StopInv, NEW policy \in StartPolicies, NEW candle, NEW from,
           Start(policy, from, candle)
    PROVE  StopInv'
  <1> DEFINE state == [InitialState(policy) EXCEPT !.last_candle_time = candle.close_time]
  <1>1. /\ NewBook(policy) /\ UNCHANGED <<db, stopped_books>>
        /\ runtime' = state /\ pc' = "writing"
        /\ work' = [calls |-> <<"save_bot_state">>, state |-> state, filled |-> None,
                    bar |-> None]
    BY DEF Start, Begin
  <1>2. /\ stopped_books' \subseteq 0 .. book'
        /\ HasFlag(InitialState(policy))
        /\ book' \in stopped_books' =>
              /\ HasSavedState /\ Marked(db.tables.bot_state[Bot])
              /\ Marked(InitialState(policy))
    BY <1>1, StartKeepsStop
  <1>3. HasFlag(state) /\ (Marked(InitialState(policy)) => Marked(state))
    BY <1>2 DEF HasFlag, Marked
  <1> HIDE DEF state
  <1>4. HasSavedState' = HasSavedState
    BY <1>1 DEF HasSavedState
  <1>5. work'.state = state /\ work'.filled = None /\ work'.calls = <<"save_bot_state">>
    BY <1>1
  <1>6. /\ <<"save_bot_state">> # <<"save_bot_state", "save_event", "save_safe_stop_reason">>
        /\ <<"save_bot_state">> # <<"save_event", "save_safe_stop_reason">>
    OBVIOUS
  <1> QED
    BY <1>1, <1>2, <1>3, <1>4, <1>5, <1>6 DEF StopInv, StopOnRecord

LEMMA StartWithoutBackfillStop ==
    ASSUME IInv, StopInv, NEW policy \in StartPolicies, StartWithoutBackfill(policy)
    PROVE  StopInv'
  <1>1. /\ NewBook(policy) /\ UNCHANGED <<db, stopped_books, work>>
        /\ runtime' = InitialState(policy) /\ pc' = "idle"
    BY DEF StartWithoutBackfill
  <1>2. /\ stopped_books' \subseteq 0 .. book'
        /\ HasFlag(InitialState(policy))
        /\ book' \in stopped_books' =>
              /\ HasSavedState /\ Marked(db.tables.bot_state[Bot])
              /\ Marked(InitialState(policy))
    BY <1>1, StartKeepsStop
  <1> QED
    BY <1>1, <1>2 DEF StopInv, StopOnRecord, HasSavedState

\* The writes of a bar begin from a state with the flag, if its book has been stopped.
LEMMA BeginStop ==
    ASSUME StopInv, NEW u, Closes(u), NEW calls, NEW state, NEW filled, NEW bar,
           Begin(calls, state, filled, bar),
           HasFlag(state), HasFlag(runtime'),
           Marked(runtime) => Marked(state) /\ filled = None,
           filled = None =>
              /\ calls # <<"save_event", "save_safe_stop_reason">>
              /\ calls = <<"save_bot_state", "save_event", "save_safe_stop_reason">> =>
                    Marked(state)
    PROVE  StopInv'
  <1>1. /\ pc = "idle" /\ UNCHANGED <<db, book, stopped_books>>
        /\ pc' = "writing"
        /\ work'.calls = calls /\ work'.state = state /\ work'.filled = filled
    BY DEF Closes, Receive, Begin, history
  <1> QED
    BY <1>1 DEF StopInv, StopOnRecord, HasSavedState

LEMMA DecisionStop ==
    ASSUME StopInv, NEW u
    PROVE  DecidesWithStop(DecisionOn(ClosedBy(u)), runtime)
  BY EvaluateBarKeepsStop DEF DecisionOn, StopInv

LEMMA ClosedBarStop ==
    ASSUME StopInv, NEW u \in Candles,
           IInv, BufferUpdate(u) \/ StrategySafeStop(u) \/ NoIntent(u) \/ ExecuteIntent(u)
    PROVE  StopInv'
  <1> DEFINE bar == ClosedBy(u)
             state == DecisionOn(bar).updated_state
  <1>1. CASE BufferUpdate(u)
    <2>1. UNCHANGED <<pc, runtime, work, db, book, stopped_books>>
      BY <1>1 DEF BufferUpdate, history
    <2> QED
      BY <2>1 DEF StopInv, StopOnRecord, HasSavedState
  <1>2. CASE StrategySafeStop(u)
    <2>1. /\ Closes(u) /\ runtime' = state
          /\ Begin(<<"save_bot_state", "save_event", "save_safe_stop_reason">>, state, None,
                   bar.close_time)
          /\ DecisionOn(bar).safe_stop_required
      BY <1>2 DEF StrategySafeStop
    <2>2. HasFlag(state) /\ Marked(state)
      BY <2>1, DecisionStop DEF DecidesWithStop
    <2>3. <<"save_bot_state", "save_event", "save_safe_stop_reason">>
             # <<"save_event", "save_safe_stop_reason">>
      OBVIOUS
    <2> HIDE DEF bar, state
    <2> QED
      BY <2>1, <2>2, <2>3, BeginStop
  <1>3. CASE NoIntent(u)
    <2>1. /\ Closes(u) /\ runtime' = state
          /\ Begin(<<"save_bot_state">>, state, None, bar.close_time)
      BY <1>3 DEF NoIntent
    <2>2. HasFlag(state) /\ (Marked(runtime) => Marked(state))
      BY DecisionStop DEF DecidesWithStop, SameStop, Marked
    <2>3. /\ <<"save_bot_state">> # <<"save_event", "save_safe_stop_reason">>
          /\ <<"save_bot_state">>
                # <<"save_bot_state", "save_event", "save_safe_stop_reason">>
      OBVIOUS
    <2> HIDE DEF bar, state
    <2> QED
      BY <2>1, <2>2, <2>3, BeginStop
  <1>4. CASE ExecuteIntent(u)
    <2> DEFINE intent == DecisionOn(bar).intent
               result == execute_intent(intent, runtime, bar, {})
               filled == IF result.filled_qty > 0 THEN intent.intent_id ELSE None
               calls == IF result.filled_qty > 0 THEN FillCalls
                        ELSE IF result.safe_stop_required
                        THEN <<"save_bot_state", "save_safe_stop_reason">>
                        ELSE <<"save_bot_state">>
    <2>1. /\ Closes(u) /\ runtime' = runtime /\ intent # None
          /\ Begin(calls, result.updated_state, filled, bar.close_time)
      BY <1>4 DEF ExecuteIntent
    <2>2. HasFlag(runtime)
      BY DEF StopInv
    <2>3. /\ HasFlag(result.updated_state)
          /\ Marked(runtime) => result.updated_state = runtime /\ result.filled_qty = 0
      BY <2>2, ExecutorStops
    <2>4. Marked(runtime) => Marked(result.updated_state) /\ filled = None
      <3> HIDE DEF result
      <3> QED
        BY <2>3
    <2>5. intent.intent_id # None
      BY <2>1, DecisionIsAt, ClosedBarIsNew, NoneIsNoTrade DEF DecidedAt, TradeIds
    <2> HIDE DEF intent, result
    <2>6. filled = None => calls \in {<<"save_bot_state", "save_safe_stop_reason">>,
                                      <<"save_bot_state">>}
      BY <2>5
    <2>7. \A cs \in {<<"save_bot_state", "save_safe_stop_reason">>, <<"save_bot_state">>} :
             /\ cs # <<"save_event", "save_safe_stop_reason">>
             /\ cs # <<"save_bot_state", "save_event", "save_safe_stop_reason">>
      OBVIOUS
    <2> HIDE DEF bar, filled, calls
    <2> QED
      BY <2>1, <2>2, <2>3, <2>4, <2>6, <2>7, BeginStop
  <1> QED
    BY <1>1, <1>2, <1>3, <1>4

\* The calls of a safe stop, one by one.
LEMMA StopCallsShrink ==
    ASSUME NEW calls \in OtherCalls, calls # << >>
    PROVE  /\ Tail(calls) # <<"save_bot_state", "save_event", "save_safe_stop_reason">>
           /\ Head(calls) = "save_event" => calls = <<"save_event", "save_safe_stop_reason">>
           /\ Head(calls) # "save_bot_state" =>
                 Tail(calls) # <<"save_event", "save_safe_stop_reason">>
           /\ Tail(calls) = <<"save_event", "save_safe_stop_reason">> =>
                 calls = <<"save_bot_state", "save_event", "save_safe_stop_reason">>
  <1>1. CASE calls = <<"save_bot_state">>
    BY <1>1
  <1>2. CASE calls = <<"save_bot_state", "save_event", "save_safe_stop_reason">>
    BY <1>2
  <1>3. CASE calls = <<"save_event", "save_safe_stop_reason">>
    BY <1>3
  <1>4. CASE calls = <<"save_bot_state", "save_safe_stop_reason">>
    BY <1>4
  <1>5. CASE calls = <<"save_safe_stop_reason">>
    BY <1>5
  <1> QED
    BY <1>1, <1>2, <1>3, <1>4, <1>5 DEF OtherCalls

\* The state being written replaces the row, and brings its flag along.
LEMMA SaveBotStateStop ==
    ASSUME IInv, StopInv, SaveBotState
    PROVE  StopInv'
  <1>1. /\ Commit("save_bot_state") /\ UNCHANGED <<pc, process, book, stopped_books>>
        /\ db' = [db EXCEPT !.tables = save_bot_state(@, Bot, work.state)]
    BY DEF SaveBotState
  <1>2. db'.tables = save_bot_state(db.tables, Bot, work.state)
    BY <1>1 DEF IInv, SavedOK
  <1>3. /\ HasSavedState' /\ HasFlag(db'.tables.bot_state[Bot])
        /\ Marked(work.state) => Marked(db'.tables.bot_state[Bot])
    <2>1. HasSavedState'
      BY <1>2, SavedRow DEF HasSavedState, IInv, WorkOK
    <2>2. HasFlag(work.state)
      BY DEF StopInv
    <2>3. /\ HasFlag(db'.tables.bot_state[Bot])
          /\ db'.tables.bot_state[Bot].safe_stop_active = work.state.safe_stop_active
      <3>1. /\ HasFlag(save_bot_state(db.tables, Bot, work.state).bot_state[Bot])
            /\ save_bot_state(db.tables, Bot, work.state).bot_state[Bot].safe_stop_active
                  = work.state.safe_stop_active
        BY <2>2, RowKeepsStop
      <3> QED
        BY <1>2, <3>1
    <2> QED
      BY <2>1, <2>3 DEF Marked
  <1>4. /\ pc = "writing" /\ work.calls # << >>
        /\ work'.calls = Tail(work.calls) /\ work'.state = work.state
        /\ work'.filled = work.filled
    BY <1>1, CommitIs
  <1>5. work.filled = None =>
           /\ work'.calls # <<"save_bot_state", "save_event", "save_safe_stop_reason">>
           /\ work'.calls = <<"save_event", "save_safe_stop_reason">> => Marked(work.state)
    BY <1>4, StopCallsShrink DEF IInv, WorkOK, StopInv
  <1> QED
    BY <1>1, <1>3, <1>4, <1>5 DEF StopInv, StopOnRecord, process

LEMMA WriteStop ==
    ASSUME IInv, StopInv,
           SaveOrder \/ SaveFill \/ SaveEvent \/ SaveSafeStopReason
    PROVE  StopInv'
  <1>1. /\ \/ Commit("save_order") \/ Commit("save_fill") \/ Commit("save_event")
           \/ Commit("save_safe_stop_reason")
        /\ UNCHANGED <<pc, runtime, book>>
    BY DEF SaveOrder, SaveFill, SaveEvent, SaveSafeStopReason, history, process
  <1>2. /\ pc = "writing" /\ work.calls # << >> /\ Head(work.calls) # "save_bot_state"
        /\ work'.calls = Tail(work.calls) /\ work'.state = work.state
        /\ work'.filled = work.filled
    BY <1>1, CommitIs
  <1>3. work.filled = None =>
           /\ work'.calls # <<"save_bot_state", "save_event", "save_safe_stop_reason">>
           /\ work'.calls # <<"save_event", "save_safe_stop_reason">>
    BY <1>2, StopCallsShrink DEF IInv, WorkOK
  <1>4. CASE SaveOrder \/ SaveFill
    <2>1. db'.tables = db.tables /\ stopped_books' = stopped_books
      BY <1>4 DEF SaveOrder, SaveFill, history, IInv, SavedOK
    <2> QED
      BY <1>1, <1>2, <1>3, <2>1 DEF StopInv, StopOnRecord, HasSavedState
  <1>5. CASE SaveEvent
    <2>1. /\ db'.tables = db.tables /\ Commit("save_event")
          /\ stopped_books' = IF work.filled = None THEN stopped_books \cup {book}
                              ELSE stopped_books
      BY <1>5 DEF SaveEvent, IInv, SavedOK
    <2>2. book \in 0 .. book
      BY DEF IInv, TradesOK
    <2>3. work.filled = None => work.calls = <<"save_event", "save_safe_stop_reason">>
      BY <1>2, <2>1, CommitIs, StopCallsShrink DEF IInv, WorkOK
    <2>4. work.filled = None => StopOnRecord
      BY <1>2, <2>3 DEF StopInv, StopOnRecord
    <2>5. book \in stopped_books' => StopOnRecord
      BY <2>1, <2>4 DEF StopInv
    <2>6. StopOnRecord => StopOnRecord'
      BY <1>1, <1>2, <2>1 DEF StopOnRecord, HasSavedState
    <2> QED
      BY <1>1, <1>2, <1>3, <2>1, <2>2, <2>5, <2>6 DEF StopInv, HasSavedState
  <1>6. CASE SaveSafeStopReason
    <2>1. db'.tables = MarkSafeStop(db.tables, Bot) /\ stopped_books' = stopped_books
      BY <1>6 DEF SaveSafeStopReason, history, IInv, SavedOK
    <2>2. HasSavedState' = HasSavedState
      <3>1. HasRow(MarkSafeStop(db.tables, Bot), Bot) <=> HasRow(db.tables, Bot)
        BY MarkedRow DEF IInv, SavedOK, HasSavedState
      <3> QED
        BY <2>1, <3>1 DEF HasSavedState, HasRow
    <2>3. HasSavedState => Marked(db'.tables.bot_state[Bot])
      BY <2>1, TablesKeepStop DEF HasSavedState, IInv, SavedOK, StopInv
    <2> QED
      BY <1>1, <1>2, <1>3, <2>1, <2>2, <2>3 DEF StopInv, StopOnRecord, Marked
  <1> QED
    BY <1>4, <1>5, <1>6

LEMMA NextStopInv == IInv /\ StopInv /\ [Next]_vars => StopInv'
  <1> SUFFICES ASSUME IInv, StopInv, [Next]_vars PROVE StopInv'
    OBVIOUS
  <1>1. ASSUME NEW policy \in StartPolicies, StartWithoutBackfill(policy) PROVE StopInv'
    BY <1>1, StartWithoutBackfillStop
  <1>2. ASSUME NEW policy \in StartPolicies, NEW candle \in Candles,
               NEW from \in {candle.close_time - 1, candle.close_time} \cap Bars,
               Start(policy, from, candle)
        PROVE  StopInv'
    BY <1>2, StartStop
  <1>3. ASSUME NEW u \in Candles,
               BufferUpdate(u) \/ StrategySafeStop(u) \/ NoIntent(u) \/ ExecuteIntent(u)
        PROVE  StopInv'
    BY <1>3, ClosedBarStop
  <1>4. CASE SaveBotState
    BY <1>4, SaveBotStateStop
  <1>5. CASE SaveOrder \/ SaveFill \/ SaveEvent \/ SaveSafeStopReason
    BY <1>5, WriteStop
  <1>6. CASE Return
    <2>1. /\ pc = "writing" /\ pc' = "idle" /\ work' = NoWork /\ runtime' = work.state
          /\ UNCHANGED <<db, book, stopped_books>>
      BY <1>6 DEF Return, CommittedRuntime, history
    <2> QED
      BY <2>1, CleanFlag DEF StopInv, StopOnRecord, HasSavedState
  <1>7. CASE SaveOrderFails \/ Crash
    <2>1. /\ pc' = "down" /\ work' = NoWork /\ runtime' = CleanState
          /\ UNCHANGED <<db, book, stopped_books>>
      BY <1>7 DEF SaveOrderFails, IntegrityError, Crash, Die
    <2> QED
      BY <2>1, CleanFlag DEF StopInv, StopOnRecord, HasSavedState
  <1>8. CASE UNCHANGED vars
    <2>1. UNCHANGED <<pc, runtime, work, db, book, stopped_books>>
      BY <1>8 DEF vars, process, history
    <2> QED
      BY <2>1 DEF StopInv, StopOnRecord, HasSavedState
  <1> QED
    BY <1>1, <1>2, <1>3, <1>4, <1>5, <1>6, <1>7, <1>8 DEF Next, Write

-----------------------------------------------------------------------------
(* What a death costs *)

Unlogged == {i \in DOMAIN trades : trades[i].id \notin db.events}

\* The last trade is saved, and its event still to come.
Halfway == work.filled # None /\ work.calls \in CallsOfFill \ {FillCalls, << >>}

\* Every trade without its event, but for the one being written, was cut off by a death.
LossInv ==
    /\ deaths \in Nat
    /\ Halfway => trades # << >> /\ trades[Len(trades)].id = work.filled
    /\ Cardinality(IF Halfway THEN Unlogged \ {Len(trades)} ELSE Unlogged) <= deaths

LEMMA UnloggedIsFinite ==
    ASSUME IInv
    PROVE  /\ Len(trades) \in Nat /\ DOMAIN trades = 1 .. Len(trades)
           /\ IsFiniteSet(Unlogged) /\ Cardinality(Unlogged) \in Nat
           /\ IsFiniteSet(Unlogged \ {Len(trades)})
           /\ Cardinality(Unlogged \ {Len(trades)}) \in Nat
           /\ Cardinality(Unlogged) <= Cardinality(Unlogged \ {Len(trades)}) + 1
  <1>1. Len(trades) \in Nat /\ DOMAIN trades = 1 .. Len(trades)
    BY DEF IInv, TradesOK
  <1>2. IsFiniteSet(Unlogged)
    <2>1. IsFiniteSet(1 .. Len(trades))
      BY <1>1, FS_Interval
    <2>2. Unlogged \in SUBSET (1 .. Len(trades))
      BY <1>1 DEF Unlogged
    <2> QED
      BY <2>1, <2>2, FS_Subset
  <1>3. /\ IsFiniteSet(Unlogged \ {Len(trades)})
        /\ Cardinality(Unlogged \ {Len(trades)}) =
              IF Len(trades) \in Unlogged THEN Cardinality(Unlogged) - 1
              ELSE Cardinality(Unlogged)
    BY <1>2, FS_RemoveElement
  <1>4. Cardinality(Unlogged) \in Nat /\ Cardinality(Unlogged \ {Len(trades)}) \in Nat
    BY <1>2, <1>3, FS_CardinalityType
  <1> QED
    BY <1>1, <1>2, <1>3, <1>4

\* A step that neither trades nor logs, nor reaches or leaves the middle of a trade.
LEMMA LossKept ==
    ASSUME LossInv, UNCHANGED <<trades, deaths>>, db'.events = db.events,
           Halfway' <=> Halfway, Halfway => work'.filled = work.filled
    PROVE  LossInv'
  <1>1. Unlogged' = Unlogged
    BY DEF Unlogged
  <1> QED
    BY <1>1 DEF LossInv

LEMMA StartLoss ==
    ASSUME IInv, LossInv, pc # "writing", UNCHANGED <<trades, deaths>>,
           db'.events = db.events,
           work' = work \/ (work'.calls = FillCalls \/ work'.filled = None)
    PROVE  LossInv'
  <1>1. ~Halfway
    BY DEF Halfway, IInv, WorkOK, NoWork
  <1>2. ~Halfway'
    BY <1>1 DEF Halfway
  <1> QED
    BY <1>1, <1>2, LossKept

LEMMA DieLoss ==
    ASSUME IInv, LossInv, Die
    PROVE  LossInv'
  <1>1. /\ deaths' = deaths + 1 /\ UNCHANGED <<trades, db>> /\ work'.filled = None
    BY DEF Die, NoWork
  <1>2. ~Halfway' /\ Unlogged' = Unlogged
    BY <1>1 DEF Halfway, Unlogged
  <1>3. Cardinality(Unlogged) <= deaths + 1
    BY UnloggedIsFinite DEF LossInv
  <1> QED
    BY <1>1, <1>2, <1>3 DEF LossInv

LEMMA SaveBotStateLoss ==
    ASSUME IInv, LossInv, SaveBotState
    PROVE  LossInv'
  <1>1. /\ Commit("save_bot_state") /\ db'.events = db.events /\ deaths' = deaths
        /\ trades' = IF work.filled = None THEN trades
                     ELSE Append(trades, [id |-> work.filled, book |-> book])
    BY DEF SaveBotState, IInv, SavedOK
  <1>2. work'.filled = work.filled /\ work'.calls = Tail(work.calls)
    BY <1>1, CommitIs
  <1>3. CASE work.filled = None
    BY <1>1, <1>2, <1>3, LossKept DEF Halfway
  <1>4. CASE work.filled # None
    <2> DEFINE n == Len(trades) + 1
    <2>1. /\ trades' = Append(trades, [id |-> work.filled, book |-> book])
          /\ Len(trades) \in Nat /\ DOMAIN trades = 1 .. Len(trades)
      BY <1>1, <1>4, UnloggedIsFinite
    <2>2. /\ Len(trades') = n /\ trades' # << >> /\ trades'[n].id = work.filled
          /\ DOMAIN trades' = 1 .. n
          /\ \A i \in 1 .. Len(trades) : trades'[i] = trades[i]
      BY <2>1 DEF IInv, TradesOK
    <2>3. work.calls = FillCalls /\ Halfway'
      <3>1. /\ work.calls = FillCalls
            /\ Tail(work.calls) = <<"save_order", "save_fill", "save_event">>
            /\ Tail(work.calls) \in CallsOfFill /\ Tail(work.calls) # FillCalls
        BY <1>1, <1>4, CommitIs, FillCallsShrink
      <3>2. <<"save_order", "save_fill", "save_event">> # << >>
        OBVIOUS
      <3> QED
        BY <1>2, <1>4, <3>1, <3>2 DEF Halfway
    <2>4. Unlogged' \ {n} = Unlogged
      BY <1>1, <2>1, <2>2 DEF Unlogged
    <2>5. ~Halfway
      BY <2>3 DEF Halfway
    <2>6. (Unlogged \ {Len(trades)})' = Unlogged
      BY <2>2, <2>4
    <2> QED
      BY <1>1, <1>2, <2>2, <2>3, <2>5, <2>6 DEF LossInv
  <1> QED
    BY <1>3, <1>4

LEMMA SaveEventLoss ==
    ASSUME IInv, LossInv, SaveEvent
    PROVE  LossInv'
  <1> DEFINE event == IF work.filled = None THEN <<"SAFE_STOP", work.bar>> ELSE work.filled
  <1>1. /\ Commit("save_event") /\ db'.events = db.events \cup {event}
        /\ UNCHANGED <<trades, deaths>>
    BY DEF SaveEvent, IInv, SavedOK
  <1>2. work'.filled = work.filled /\ work'.calls = Tail(work.calls)
    BY <1>1, CommitIs
  <1>3. /\ Halfway <=> work.filled # None
        /\ ~Halfway'
    <2>1. work.filled # None => work.calls = <<"save_event">> /\ work'.calls = << >>
      BY <1>1, <1>2, CommitIs, FillCallsShrink
    <2>2. <<"save_event">> \in CallsOfFill \ {FillCalls, << >>}
      BY DEF CallsOfFill, FillCalls
    <2> QED
      BY <1>2, <2>1, <2>2 DEF Halfway
  <1>4. Unlogged' \subseteq (IF Halfway THEN Unlogged \ {Len(trades)} ELSE Unlogged)
    <2>1. CASE Halfway
      <3>1. Len(trades) \notin Unlogged'
        BY <1>1, <1>3, <2>1 DEF Unlogged, LossInv
      <3> QED
        BY <1>1, <2>1, <3>1 DEF Unlogged
    <2>2. CASE ~Halfway
      BY <1>1, <2>2 DEF Unlogged
    <2> QED
      BY <2>1, <2>2
  <1> DEFINE before == IF Halfway THEN Unlogged \ {Len(trades)} ELSE Unlogged
  <1>5. IsFiniteSet(before) /\ Cardinality(before) <= deaths /\ Cardinality(before) \in Nat
    BY UnloggedIsFinite DEF LossInv
  <1>6. Cardinality(Unlogged') <= Cardinality(before) /\ Cardinality(Unlogged') \in Nat
    BY <1>4, <1>5, FS_Subset, FS_CardinalityType
  <1> HIDE DEF before
  <1> QED
    BY <1>1, <1>3, <1>5, <1>6 DEF LossInv

LEMMA InitLoss == Init => LossInv
  <1> SUFFICES ASSUME Init PROVE LossInv
    OBVIOUS
  <1>1. Unlogged = {} /\ ~Halfway /\ deaths = 0
    BY DEF Init, Unlogged, Halfway, NoWork
  <1> QED
    BY <1>1, FS_EmptySet DEF LossInv

LEMMA NextLoss == IInv /\ LossInv /\ [Next]_vars => LossInv'
  <1> SUFFICES ASSUME IInv, LossInv, [Next]_vars PROVE LossInv'
    OBVIOUS
  <1>1. ASSUME NEW policy \in StartPolicies, StartWithoutBackfill(policy) PROVE LossInv'
    BY <1>1, StartLoss DEF StartWithoutBackfill
  <1>2. ASSUME NEW policy \in StartPolicies, NEW candle \in Candles,
               NEW from \in {candle.close_time - 1, candle.close_time} \cap Bars,
               Start(policy, from, candle)
        PROVE  LossInv'
    BY <1>2, StartLoss DEF Start, Begin
  <1>3. ASSUME NEW u \in Candles,
               BufferUpdate(u) \/ StrategySafeStop(u) \/ NoIntent(u) \/ ExecuteIntent(u)
        PROVE  LossInv'
    <2>1. pc # "writing" /\ UNCHANGED <<trades, deaths>> /\ db' = db
      BY <1>3 DEF BufferUpdate, StrategySafeStop, NoIntent, ExecuteIntent, Closes, Receive,
                  history
    <2>2. work' = work \/ work'.calls = FillCalls \/ work'.filled = None
      BY <1>3 DEF BufferUpdate, StrategySafeStop, NoIntent, ExecuteIntent, Begin
    <2> QED
      BY <2>1, <2>2, StartLoss
  <1>4. CASE SaveBotState
    BY <1>4, SaveBotStateLoss
  <1>5. CASE SaveOrder \/ SaveFill \/ SaveSafeStopReason
    <2>1. /\ Commit("save_order") \/ Commit("save_fill") \/ Commit("save_safe_stop_reason")
          /\ UNCHANGED <<trades, deaths>> /\ db'.events = db.events
      BY <1>5 DEF SaveOrder, SaveFill, SaveSafeStopReason, history, IInv, SavedOK
    <2>2. work'.filled = work.filled /\ work'.calls = Tail(work.calls)
      BY <2>1, CommitIs
    <2>3. work.filled # None =>
             /\ work.calls \in CallsOfFill \ {FillCalls, << >>}
             /\ work'.calls \in CallsOfFill \ {FillCalls, << >>}
      <3>1. Head(FillCalls) = "save_bot_state"
        BY DEF FillCalls
      <3>2. <<"save_fill", "save_event">> # << >> /\ <<"save_event">> # << >>
        OBVIOUS
      <3> QED
        BY <2>1, <2>2, <3>1, <3>2, CommitIs, FillCallsShrink
    <2> QED
      BY <2>1, <2>2, <2>3, LossKept DEF Halfway
  <1>6. CASE SaveEvent
    BY <1>6, SaveEventLoss
  <1>7. CASE Return
    <2>1. /\ work.calls = << >> /\ work' = NoWork /\ UNCHANGED <<trades, deaths, db>>
      BY <1>7 DEF Return, history
    <2> QED
      BY <2>1, LossKept DEF Halfway, NoWork
  <1>8. CASE SaveOrderFails \/ Crash
    BY <1>8, DieLoss DEF SaveOrderFails, IntegrityError, Crash
  <1>9. CASE UNCHANGED vars
    <2>1. UNCHANGED <<work, db, trades, deaths>>
      BY <1>9 DEF vars, history
    <2> QED
      BY <2>1, LossKept DEF Halfway
  <1> QED
    BY <1>1, <1>2, <1>3, <1>4, <1>5, <1>6, <1>7, <1>8, <1>9 DEF Next, Write

-----------------------------------------------------------------------------
(* The states: the runtime state, the one being written and the saved one *)

\* The bars that a state refers to: those of its lots and those of its rolling window.
Referred(st) ==
    {l.id[2] : l \in st.lots}
        \cup {st.orders_last_3min[i] : i \in DOMAIN st.orders_last_3min}

Before(st, time) == \A t \in Referred(st) : t < time

\* A state that the strategy accepts and the tables can give back; it is at least as new
\* as what it refers to.
Kept(st) ==
    /\ Booked(st, Keys) /\ Storable(st)
    /\ st.last_candle_time \in Optional(Bars)
    /\ \A t \in Referred(st) :
          t \in Int /\ st.last_candle_time \in Int /\ t <= st.last_candle_time

SavedAs(st) == HasSavedState /\ Bookkeeping(SavedState) = Bookkeeping(st)

ValuesOK ==
    /\ pc \in {"down", "idle", "writing"} /\ market \in Bars
    /\ buffer.current_candle \in Optional(Candles) /\ last_processed \in Optional(Bars)
    /\ work.bar \in Optional(Bars) /\ work.filled \in Optional(TradeKeys)
    /\ db.orders \subseteq TradeKeys

TablesOK ==
    /\ AreTables(db.tables)
    /\ HasSavedState =>
          Holds(db.tables, Bot, SavedState) /\ Kept(SavedState) /\ Before(SavedState, market)

\* Whatever the runtime state refers to is behind the stale guard or behind the buffer:
\* no bar still to come has the key of an open lot.
RuntimeOK ==
    /\ Kept(runtime)
    /\ pc = "idle" =>
          /\ Before(runtime, market)
          /\ \A t \in Referred(runtime) :
                \/ last_processed # None /\ t <= last_processed
                \/ buffer.current_candle # None /\ t < buffer.current_candle.close_time
          /\ last_processed # None => SavedAs(runtime)

WrittenOK ==
    /\ Kept(work.state)
    /\ pc = "writing" =>
          /\ Before(work.state, market)
          /\ buffer.current_candle # None
          /\ Before(work.state, buffer.current_candle.close_time)
          /\ work.calls = << >> \/ Head(work.calls) # "save_bot_state" => SavedAs(work.state)

StatesInv == ValuesOK /\ TablesOK /\ RuntimeOK /\ WrittenOK

LEMMA BarsAreTimes == Bars \subseteq Nat /\ Bars \subseteq Int /\ None \notin Bars
  BY BoundsAssumption, NoneAssumption DEF Bars

LEMMA CandleIsPriced ==
    ASSUME NEW c \in Candles
    PROVE  Priced(c) /\ c.close_time \in Bars /\ c.close_time \in Nat /\ c # None
  <1>1. PICK t \in Bars, s \in Shapes : c = CandleOf(t, s)
    BY DEF Candles
  <1>2. s \in [open : Nat, high : Nat, low : Nat, close : Nat]
    BY ShapesAssumption
  <1> QED
    BY <1>1, <1>2, BarsAreTimes, CandleAssumption DEF CandleOf, Priced

LEMMA CleanStateIsKept == Kept(CleanState) /\ Referred(CleanState) = {}
  <1>1. Referred(CleanState) = {}
    BY DEF Referred, CleanState
  <1>2. Storable(CleanState)
    BY DEF Storable, Chronological, CleanState
  <1>3. CleanState.last_candle_time \in Optional(Bars)
    BY DEF CleanState, Optional
  <1> QED
    BY <1>1, <1>2, <1>3, CleanStateIsBooked DEF Kept

\* A state that refers to no more than another does, at a time that is not before it.
LEMMA ReferredIsKept ==
    ASSUME NEW st, Kept(st), NEW s, Booked(s, Keys), Chronological(s.orders_last_3min),
           NEW time \in Bars, s.last_candle_time = time,
           \A t \in Referred(s) : t \in Referred(st) \/ t = time, Before(st, time)
    PROVE  /\ Kept(s)
           /\ \A later \in Int : time < later => Before(s, later)
  <1>1. time \in Int /\ time # None
    BY BarsAreTimes
  <1>2. \A t \in Referred(s) : t \in Int /\ t <= time
    BY <1>1 DEF Kept, Before
  <1>3. Storable(s)
    BY <1>1 DEF Storable
  <1>4. Kept(s)
    BY <1>1, <1>2, <1>3 DEF Kept, Optional
  <1>5. ASSUME NEW later \in Int, time < later PROVE Before(s, later)
    BY <1>1, <1>2, <1>5 DEF Before
  <1> QED
    BY <1>4, <1>5

LEMMA BeforeLater ==
    ASSUME NEW st, Kept(st), NEW a \in Int, NEW b \in Int, a <= b, Before(st, a)
    PROVE  Before(st, b)
  BY DEF Before, Kept

\* A bar that is not traded on.
LEMMA StandingIsKept ==
    ASSUME NEW st, Kept(st), NEW c \in Candles, Before(st, c.close_time),
           NEW s, Stands(s, st, Keys, c)
    PROVE  /\ Kept(s)
           /\ \A later \in Int : c.close_time < later => Before(s, later)
  <1>1. c.close_time \in Bars
    BY CandleIsPriced
  <1>2. Referred(s) = Referred(st)
    BY DEF Stands, Referred
  <1>3. Chronological(s.orders_last_3min)
    BY DEF Stands, Kept, Storable
  <1> QED
    BY <1>1, <1>2, <1>3, ReferredIsKept DEF Stands

LEMMA LaterIsChronological ==
    ASSUME NEW orders \in Seq(Nat), Chronological(orders), NEW time \in Nat,
           \A i \in DOMAIN orders : orders[i] <= time
    PROVE  Chronological(Append(orders, time))
  BY DEF Chronological

\* A bar that is.
LEMMA FilledIsKept ==
    ASSUME NEW st, Kept(st), NEW c \in Candles, Before(st, c.close_time),
           NEW intent, intent.intent_type \in OpenTypes \cup CoverTypes,
           intent.intent_id = IntentKey(intent.intent_type, c),
           NEW qty, NEW s, AfterFill(s, st, Keys, intent, qty, c)
    PROVE  /\ Kept(s)
           /\ \A later \in Int : c.close_time < later => Before(s, later)
  <1> DEFINE orders == st.orders_last_3min
             time == c.close_time
  <1>1. time \in Bars /\ time \in Nat
    BY CandleIsPriced
  <1>2. orders \in Seq(Nat) /\ Chronological(orders)
    BY DEF Kept, Booked, Bookable, BotState, Storable
  <1>3. /\ Booked(s, Keys) /\ s.orders_last_3min = Append(orders, time)
        /\ s.last_candle_time = time
    BY DEF AfterFill
  <1>4. \A i \in DOMAIN orders : orders[i] \in Referred(st)
    BY DEF Referred
  <1>5. \A i \in DOMAIN orders : orders[i] <= time
    BY <1>1, <1>2, <1>4 DEF Before
  <1>6. Chronological(s.orders_last_3min)
    BY <1>1, <1>2, <1>3, <1>5, LaterIsChronological
  <1>7. ASSUME NEW l \in s.lots PROVE l.id[2] \in Referred(st) \/ l.id[2] = time
    <2>1. ASSUME NEW k \in st.lots PROVE k.id[2] \in Referred(st)
      BY DEF Referred
    <2>2. CASE intent.intent_type \in OpenTypes
      <3>1. l \in st.lots \/ l.id = intent.intent_id
        BY <2>2 DEF AfterFill
      <3> QED
        BY <2>1, <3>1 DEF IntentKey
    <2>3. CASE intent.intent_type = "SUB_COVER"
      <3> DEFINE last == get_last_lot(st)
      <3>1. LotCovered(s.lots, st, qty)
        BY <2>3 DEF AfterFill
      <3>2. /\ last \in st.lots
            /\ l \in st.lots \/ l = [last EXCEPT !.qty = @ - qty]
        BY <3>1 DEF LotCovered
      <3>3. last \in Lot(Keys)
        BY <3>2 DEF Kept, Booked, Bookable, LotBook
      <3> HIDE DEF last
      <3>4. l \in st.lots \/ l.id = last.id
        BY <3>2, <3>3 DEF Lot
      <3> QED
        BY <2>1, <3>2, <3>4
    <2>4. CASE intent.intent_type \in Exits
      BY <2>4 DEF AfterFill
    <2> QED
      BY <2>2, <2>3, <2>4 DEF CoverTypes, Exits
  <1>8. ASSUME NEW i \in DOMAIN s.orders_last_3min
        PROVE  s.orders_last_3min[i] \in Referred(st) \/ s.orders_last_3min[i] = time
    BY <1>1, <1>2, <1>3, <1>4
  <1>9. \A t \in Referred(s) : t \in Referred(st) \/ t = time
    BY <1>7, <1>8 DEF Referred
  <1> QED
    BY <1>1, <1>3, <1>6, <1>9, ReferredIsKept

-----------------------------------------------------------------------------
(* The steps of a bar *)

LEMMA BarIsNew ==
    ASSUME IInv, StatesInv, NEW u \in Candles, Closes(u)
    PROVE  /\ ClosedBy(u) \in Candles /\ Before(runtime, ClosedBy(u).close_time)
           /\ ClosedBy(u).close_time \in Bars /\ ClosedBy(u).close_time \in Int
           /\ buffer'.current_candle \in Candles
           /\ ClosedBy(u).close_time < buffer'.current_candle.close_time
           /\ ClosedBy(u).close_time < market' /\ market' \in Bars /\ market <= market'
  <1> DEFINE bar == ClosedBy(u)
  <1>1. /\ Receive(u) /\ bar # None /\ ~AlreadyProcessed(bar.close_time) /\ pc = "idle"
    BY DEF Closes, Receive
  <1>2. /\ bar = buffer.current_candle
        /\ bar.close_time < buffer'.current_candle.close_time
        /\ bar.close_time < market' /\ market <= market'
    BY <1>1, ReceiveMovesOn
  <1>3. bar \in Candles /\ bar.close_time \in Bars /\ bar.close_time \in Int
    BY <1>1, <1>2, CandleIsPriced, BarsAreTimes DEF StatesInv, ValuesOK, Optional
  <1>4. market' \in Bars
    BY <1>1, CandleIsPriced DEF StatesInv, ValuesOK, Receive, HigherOf
  <1>5. buffer'.current_candle \in Candles
    BY <1>1, <1>2
    DEF Receive, process_update, Refresh, StatesInv, ValuesOK, IInv, ProcessOK, Optional
  <1>6. ASSUME NEW t \in Referred(runtime) PROVE t < bar.close_time
    <2>1. \/ last_processed # None /\ t <= last_processed
          \/ buffer.current_candle # None /\ t < buffer.current_candle.close_time
      BY <1>1, <1>6 DEF StatesInv, RuntimeOK
    <2>2. last_processed # None => last_processed \in Int /\ last_processed < bar.close_time
      <3>1. last_processed # None => last_processed \in Int
        BY BarsAreTimes DEF StatesInv, ValuesOK, Optional
      <3>2. last_processed # None => ~(bar.close_time <= last_processed)
        BY <1>1 DEF AlreadyProcessed
      <3> QED
        BY <1>3, <3>1, <3>2
    <2>3. t \in Int
      BY <1>6 DEF StatesInv, RuntimeOK, Kept
    <2> QED
      BY <1>2, <1>3, <2>1, <2>2, <2>3
  <1> QED
    BY <1>2, <1>3, <1>4, <1>5, <1>6 DEF Before

LEMMA TablesLater ==
    ASSUME StatesInv, UNCHANGED db, market' \in Bars, market <= market'
    PROVE  TablesOK'
  <1>1. market \in Int /\ market' \in Int
    BY BarsAreTimes DEF StatesInv, ValuesOK
  <1>2. UNCHANGED <<HasSavedState, SavedState>>
    BY DEF HasSavedState, SavedState
  <1>3. HasSavedState => Kept(SavedState) /\ Before(SavedState, market')
    BY <1>1, BeforeLater DEF StatesInv, TablesOK
  <1> QED
    BY <1>2, <1>3 DEF StatesInv, TablesOK

LEMMA BeginStates ==
    ASSUME IInv, StatesInv, NEW u \in Candles, Closes(u), Kept(runtime'),
           NEW calls, NEW state, NEW filled,
           Begin(calls, state, filled, ClosedBy(u).close_time),
           calls # << >>, Head(calls) = "save_bot_state", filled \in Optional(TradeKeys),
           Kept(state),
           \A later \in Int : ClosedBy(u).close_time < later => Before(state, later)
    PROVE  StatesInv'
  <1>1. /\ pc' = "writing" /\ UNCHANGED <<last_processed, db>>
        /\ work' = [calls |-> calls, state |-> state, filled |-> filled,
                    bar |-> ClosedBy(u).close_time]
    BY DEF Begin, Closes
  <1>2. /\ market' \in Bars /\ market' \in Int /\ market <= market'
        /\ buffer'.current_candle \in Candles
        /\ buffer'.current_candle.close_time \in Int /\ buffer'.current_candle # None
        /\ ClosedBy(u).close_time < market'
        /\ ClosedBy(u).close_time < buffer'.current_candle.close_time
        /\ ClosedBy(u).close_time \in Bars
    BY BarIsNew, BarsAreTimes, CandleIsPriced
  <1>3. /\ work'.calls = calls /\ work'.state = state /\ work'.filled = filled
        /\ work'.bar = ClosedBy(u).close_time
    BY <1>1
  <1>4. ValuesOK'
    BY <1>1, <1>2, <1>3 DEF StatesInv, ValuesOK, Optional
  <1>5. TablesOK'
    BY <1>1, <1>2, TablesLater
  <1>6. RuntimeOK'
    BY <1>1 DEF RuntimeOK
  <1>7. WrittenOK'
    BY <1>1, <1>2, <1>3 DEF WrittenOK
  <1> QED
    BY <1>4, <1>5, <1>6, <1>7 DEF StatesInv

LEMMA IntentIsNotNone ==
    ASSUME NEW st, Kept(st), NEW c \in Candles, NEW intent, IntentFor(intent, st, c)
    PROVE  /\ intent # None /\ intent.intent_type \in OpenTypes \cup CoverTypes
           /\ intent.intent_id = IntentKey(intent.intent_type, c) /\ intent.qty \in Nat
           /\ intent.intent_type = "SUB_COVER" =>
                 st.lots # {} /\ intent.qty = get_last_lot(st).qty
           /\ intent.intent_id \in TradeKeys
           /\ intent.intent_type \in OpenTypes => intent.intent_id \in Keys
  <1>1. PICK type \in OpenTypes \cup CoverTypes, qty \in Nat :
            /\ intent = Intent(type, c, qty)
            /\ type = "SUB_COVER" => st.lots # {} /\ qty = get_last_lot(st).qty
    BY DEF IntentFor
  <1>2. c.close_time \in Bars /\ c.close_time \in Int /\ c.close \in Nat
    BY CandleIsPriced, BarsAreTimes DEF Priced
  <1>3. intent \in [intent_id : (OpenTypes \cup CoverTypes) \X Int,
                    intent_type : OpenTypes \cup CoverTypes, qty : Int, price : Nat]
    BY <1>1, <1>2 DEF Intent, IntentKey
  <1> QED
    BY <1>1, <1>2, <1>3, IntentAssumption DEF Intent, IntentKey, TradeKeys, Keys

LEMMA DecisionIs ==
    ASSUME IInv, StatesInv, NEW u \in Candles, Closes(u)
    PROVE  LET c == ClosedBy(u)
               d == DecisionOn(c)
           IN  \/ /\ Stands(d.updated_state, runtime, Keys, c)
                  /\ d.safe_stop_required \/ d.intent = None
               \/ ~d.safe_stop_required /\ IntentFor(d.intent, runtime, c)
  <1>1. ClosedBy(u) \in Candles /\ Booked(runtime, Keys)
    BY BarIsNew DEF StatesInv, RuntimeOK, Kept
  <1> QED
    BY <1>1, CandleIsPriced, DecisionOnBooked DEF DecisionOn

\* Neither a safe stop nor a bar without an intent changes the lots.
LEMMA QuietStates ==
    ASSUME IInv, StatesInv, NEW u \in Candles, StrategySafeStop(u) \/ NoIntent(u)
    PROVE  StatesInv'
  <1> DEFINE c == ClosedBy(u)
             state == DecisionOn(c).updated_state
  <1>1. PICK calls : /\ Closes(u) /\ runtime' = state
                     /\ Begin(calls, state, None, c.close_time)
                     /\ calls # << >> /\ Head(calls) = "save_bot_state"
    BY DEF StrategySafeStop, NoIntent
  <1>2. /\ c \in Candles /\ Before(runtime, c.close_time) /\ Kept(runtime)
    BY <1>1, BarIsNew DEF StatesInv, RuntimeOK
  <1>3. DecisionOn(c).safe_stop_required \/ DecisionOn(c).intent = None
    BY DEF StrategySafeStop, NoIntent
  <1>4. Stands(state, runtime, Keys, c)
    BY <1>1, <1>2, <1>3, DecisionIs, IntentIsNotNone
  <1> HIDE DEF c, state
  <1>5. /\ Kept(state) /\ \A later \in Int : c.close_time < later => Before(state, later)
    BY <1>2, <1>4, StandingIsKept
  <1>6. None \in Optional(TradeKeys)
    BY DEF Optional
  <1> QED
    BY <1>1, <1>5, <1>6, BeginStates DEF c

\* What the strategy asks for, the book can take: the bar is newer than every lot, and a
\* sub-cover is of no more than the newest one.
LEMMA IntentIsFillable ==
    ASSUME NEW st, Kept(st), NEW c \in Candles, Before(st, c.close_time),
           NEW intent, IntentFor(intent, st, c),
           NEW qty, qty = FilledQty(intent), qty # 0
    PROVE  Fillable(st, Keys, intent, qty, c)
  <1>1. /\ intent.intent_type \in OpenTypes \cup CoverTypes
        /\ intent.intent_id = IntentKey(intent.intent_type, c) /\ intent.qty \in Nat
        /\ intent.intent_type = "SUB_COVER" =>
              st.lots # {} /\ intent.qty = get_last_lot(st).qty
        /\ intent.intent_type \in OpenTypes => intent.intent_id \in Keys
    BY IntentIsNotNone
  <1>2. qty \in Nat \ {0} /\ qty <= intent.qty
    BY <1>1, FilledQtyIs
  <1>3. \A l \in st.lots : l.id # intent.intent_id
    <2> SUFFICES ASSUME NEW l \in st.lots PROVE l.id[2] # c.close_time
      BY <1>1 DEF IntentKey
    <2>1. l.id[2] \in Referred(st)
      BY DEF Referred
    <2>2. l.id[2] \in Int /\ l.id[2] < c.close_time /\ c.close_time \in Int
      BY <2>1, CandleIsPriced DEF Kept, Before
    <2> QED
      BY <2>2
  <1>4. intent.intent_type = "SUB_COVER" => CanCloseLastLot(st, qty)
    BY <1>1, <1>2 DEF CanCloseLastLot
  <1>5. c.close \in Nat /\ c.close_time \in Nat
    BY CandleIsPriced DEF Priced
  <1> QED
    BY <1>1, <1>2, <1>3, <1>4, <1>5 DEF Fillable, Kept

\* A fill takes the state on to one that is kept.
LEMMA ExecuteIntentStates ==
    ASSUME IInv, StatesInv, NEW u \in Candles, ExecuteIntent(u)
    PROVE  StatesInv'
  <1> DEFINE c == ClosedBy(u)
             intent == DecisionOn(c).intent
             r == execute_intent(intent, runtime, c, {})
             state == r.updated_state
             filled == IF r.filled_qty > 0 THEN intent.intent_id ELSE None
  <1>1. PICK calls : /\ Closes(u) /\ runtime' = runtime
                     /\ Begin(calls, state, filled, c.close_time)
                     /\ calls # << >> /\ Head(calls) = "save_bot_state"
    BY DEF ExecuteIntent, FillCalls
  <1>2. /\ c \in Candles /\ Before(runtime, c.close_time) /\ Kept(runtime)
        /\ c.close_time \in Int
    BY <1>1, BarIsNew DEF StatesInv, RuntimeOK
  <1>3. IntentFor(intent, runtime, c)
    <2>1. ~DecisionOn(c).safe_stop_required /\ intent # None
      BY DEF ExecuteIntent
    <2> QED
      BY <1>1, <2>1, DecisionIs
  <1>4. \/ state = runtime /\ r.filled_qty = 0
        \/ /\ r.filled_qty = FilledQty(intent) /\ r.filled_qty # 0
           /\ state = ApplyFill(runtime, intent, r.filled_qty, c)
    BY RefusedOrFilled
  <1> HIDE DEF c, intent, r, state
  <1>5. /\ intent.intent_type \in OpenTypes \cup CoverTypes
        /\ intent.intent_id = IntentKey(intent.intent_type, c) /\ intent.qty \in Nat
        /\ intent.intent_type = "SUB_COVER" =>
              runtime.lots # {} /\ intent.qty = get_last_lot(runtime).qty
        /\ intent.intent_id \in TradeKeys
        /\ intent.intent_type \in OpenTypes => intent.intent_id \in Keys
    BY <1>2, <1>3, IntentIsNotNone
  <1>6. filled \in Optional(TradeKeys)
    BY <1>5 DEF Optional
  <1>7. /\ Kept(state) /\ \A later \in Int : c.close_time < later => Before(state, later)
    <2>1. CASE state = runtime
      <3>1. ASSUME NEW later \in Int, c.close_time < later PROVE Before(runtime, later)
        BY <1>2, <3>1, BeforeLater
      <3> QED
        BY <1>2, <2>1, <3>1
    <2>2. CASE /\ r.filled_qty = FilledQty(intent) /\ r.filled_qty # 0
               /\ state = ApplyFill(runtime, intent, r.filled_qty, c)
      <3> DEFINE qty == r.filled_qty
      <3>1. Fillable(runtime, Keys, intent, qty, c)
        BY <1>2, <1>3, <2>2, IntentIsFillable
      <3> HIDE DEF qty
      <3>2. AfterFill(state, runtime, Keys, intent, qty, c)
        BY <2>2, <3>1, AppliedFill DEF qty
      <3> QED
        BY <1>2, <1>5, <3>2, FilledIsKept
    <2> QED
      BY <1>4, <2>1, <2>2
  <1> HIDE DEF filled
  <1> QED
    BY <1>1, <1>2, <1>6, <1>7, BeginStates DEF c

LEMMA BufferUpdateStates ==
    ASSUME IInv, StatesInv, NEW u \in Candles, BufferUpdate(u)
    PROVE  StatesInv'
  <1>1. /\ Receive(u) /\ pc = "idle"
        /\ UNCHANGED <<pc, runtime, last_processed, work, db>>
    BY DEF BufferUpdate, Receive
  <1>2. /\ market' \in Int /\ market <= market' /\ market \in Int
        /\ buffer'.current_candle # None /\ buffer'.current_candle.close_time \in Int
        /\ buffer.current_candle # None =>
              /\ buffer.current_candle.close_time \in Int
              /\ buffer.current_candle.close_time <= buffer'.current_candle.close_time
    BY <1>1, ReceiveMovesOn DEF IInv, ProcessOK, TradesOK
  <1>3. market' \in Bars
    BY <1>1, CandleIsPriced DEF StatesInv, ValuesOK, Receive, HigherOf
  <1>4. buffer'.current_candle \in Optional(Candles)
    BY <1>1 DEF Receive, process_update, Refresh, StatesInv, ValuesOK, IInv, ProcessOK, Optional
  <1>5. ValuesOK'
    BY <1>1, <1>3, <1>4 DEF StatesInv, ValuesOK
  <1>6. TablesOK'
    BY <1>1, <1>2, <1>3, TablesLater
  <1>7. RuntimeOK'
    <2>1. Kept(runtime) /\ Before(runtime, market')
      BY <1>1, <1>2, BeforeLater DEF StatesInv, RuntimeOK
    <2>2. ASSUME NEW t \in Referred(runtime)
          PROVE  \/ last_processed # None /\ t <= last_processed
                 \/ t < buffer'.current_candle.close_time
      <3>1. t \in Int
        BY <2>1, <2>2 DEF Kept
      <3> QED
        BY <1>1, <1>2, <2>2, <3>1 DEF StatesInv, RuntimeOK
    <2>3. last_processed # None => SavedAs(runtime)
      BY <1>1 DEF StatesInv, RuntimeOK
    <2>4. SavedAs(runtime)' <=> SavedAs(runtime)
      BY <1>1 DEF SavedAs, HasSavedState, SavedState
    <2> QED
      BY <1>1, <1>2, <2>1, <2>2, <2>3, <2>4 DEF RuntimeOK
  <1>8. WrittenOK'
    BY <1>1 DEF StatesInv, WrittenOK
  <1> QED
    BY <1>5, <1>6, <1>7, <1>8 DEF StatesInv

-----------------------------------------------------------------------------
(* The steps of a start *)

LEMMA InitialIsKept ==
    ASSUME StatesInv, NEW policy
    PROVE  /\ Kept(InitialState(policy)) /\ Before(InitialState(policy), market)
           /\ InitialState(policy).last_candle_time # None => SavedAs(InitialState(policy))
  <1>1. CASE policy = "restore" /\ HasSavedState
    BY <1>1 DEF InitialState, StatesInv, TablesOK, SavedAs
  <1>2. CASE ~(policy = "restore" /\ HasSavedState)
    <2>1. InitialState(policy) = CleanState /\ CleanState.last_candle_time = None
      BY <1>2 DEF InitialState, CleanState
    <2> QED
      BY <2>1, CleanStateIsKept DEF Before
  <1> QED
    BY <1>1, <1>2

LEMMA StartStates ==
    ASSUME IInv, StatesInv, NEW policy, NEW candle \in Candles, NEW from \in Bars,
           from \in {candle.close_time - 1, candle.close_time},
           Start(policy, from, candle)
    PROVE  StatesInv'
  <1> DEFINE state == [InitialState(policy) EXCEPT !.last_candle_time = candle.close_time]
             first == InitialState(policy)
  <1>1. /\ market' = candle.close_time /\ market <= market'
        /\ UNCHANGED db /\ runtime' = state /\ pc' = "writing"
        /\ work' = [calls |-> <<"save_bot_state">>, state |-> state, filled |-> None,
                    bar |-> None]
        /\ buffer' = Warmed(from, candle)
        /\ last_processed' = Warmed(from, candle).last_emitted_close_time
    <2>1. market \in Int /\ candle.close_time \in Int
      BY CandleTimes DEF IInv, TradesOK
    <2> QED
      BY <2>1 DEF Start, Begin
  <1>2. /\ candle.close_time \in Bars /\ candle.close_time \in Int /\ candle # None
        /\ market \in Int
    BY CandleIsPriced, BarsAreTimes DEF StatesInv, ValuesOK
  <1>3. Kept(first) /\ Before(first, candle.close_time)
    BY <1>1, <1>2, InitialIsKept, BeforeLater
  <1>4. /\ Booked(state, Keys) /\ state.last_candle_time = candle.close_time
        /\ state.lots = first.lots /\ state.orders_last_3min = first.orders_last_3min
    <2>1. first \in BotState(Keys) /\ Booked(first, Keys)
      BY <1>3 DEF Kept, Booked, Bookable
    <2>2. candle.close_time \in Optional(Nat)
      BY <1>2, BarsAreTimes DEF Optional
    <2> HIDE DEF first
    <2>3. state = [first EXCEPT !.last_candle_time = candle.close_time]
      BY DEF first
    <2> HIDE DEF state
    <2>4. state \in BotState(Keys)
      BY <2>1, <2>2, <2>3 DEF BotState
    <2>5. /\ state.lots = first.lots /\ state.orders_last_3min = first.orders_last_3min
          /\ state.last_candle_time = candle.close_time
          /\ state.pos_size_abs = first.pos_size_abs
          /\ state.pos_proceeds_usdt = first.pos_proceeds_usdt
          /\ state.trailing_active = first.trailing_active
          /\ state.trailing_min = first.trailing_min
      BY <2>1, <2>3 DEF BotState
    <2>6. Booked(state, Keys)
      BY <2>1, <2>4, <2>5 DEF Booked, Bookable, TrailingHasMin
    <2> QED
      BY <2>5, <2>6
  <1> HIDE DEF state, first
  <1>5. Referred(state) = Referred(first)
    BY <1>4 DEF Referred
  <1>6. Kept(state) /\ Before(state, candle.close_time)
    <2>1. Chronological(state.orders_last_3min)
      BY <1>3, <1>4 DEF Kept, Storable
    <2>2. Kept(state)
      BY <1>2, <1>3, <1>4, <1>5, <2>1, ReferredIsKept
    <2> QED
      BY <1>3, <1>5, <2>2 DEF Before
  <1>7. /\ buffer'.current_candle = candle /\ last_processed' \in Optional(Bars)
    BY <1>1, <1>2 DEF Warmed, Optional
  <1>8. ValuesOK'
    BY <1>1, <1>2, <1>7 DEF StatesInv, ValuesOK, Optional
  <1>9. TablesOK'
    BY <1>1, <1>2, TablesLater
  <1>10. RuntimeOK'
    BY <1>1, <1>6 DEF RuntimeOK
  <1>11. WrittenOK'
    BY <1>1, <1>2, <1>6, <1>7 DEF WrittenOK
  <1> QED
    BY <1>8, <1>9, <1>10, <1>11 DEF StatesInv

LEMMA StartWithoutBackfillStates ==
    ASSUME IInv, StatesInv, NEW policy, StartWithoutBackfill(policy)
    PROVE  StatesInv'
  <1> DEFINE first == InitialState(policy)
  <1>1. /\ pc' = "idle" /\ buffer' = EmptyBuffer /\ runtime' = first
        /\ last_processed' = first.last_candle_time /\ UNCHANGED <<work, db, market>>
    BY DEF StartWithoutBackfill
  <1>2. /\ Kept(first) /\ Before(first, market)
        /\ first.last_candle_time # None => SavedAs(first)
    BY InitialIsKept
  <1> HIDE DEF first
  <1>3. ValuesOK'
    BY <1>1, <1>2 DEF StatesInv, ValuesOK, EmptyBuffer, Optional, Kept
  <1>4. market \in Int
    BY BarsAreTimes DEF StatesInv, ValuesOK
  <1>5. TablesOK'
    BY <1>1, <1>4, TablesLater DEF StatesInv, ValuesOK
  <1>6. last_processed' # None => SavedAs(runtime)'
    <2>1. UNCHANGED <<HasSavedState, SavedState>>
      BY <1>1 DEF HasSavedState, SavedState
    <2>2. first.last_candle_time # None =>
            HasSavedState /\ Bookkeeping(SavedState) = Bookkeeping(first)
      BY <1>2 DEF SavedAs
    <2>3. Bookkeeping(runtime)' = Bookkeeping(first)
      BY <1>1 DEF Bookkeeping
    <2> QED
      BY <1>1, <2>1, <2>2, <2>3 DEF SavedAs
  <1>7. RuntimeOK'
    BY <1>1, <1>2, <1>6, NoneIsNoTime DEF RuntimeOK, Kept
  <1>8. WrittenOK'
    BY <1>1 DEF StatesInv, WrittenOK
  <1> QED
    BY <1>3, <1>5, <1>7, <1>8 DEF StatesInv

-----------------------------------------------------------------------------
(* The steps of the storage calls *)

\* A call that leaves the tables alone.
LEMMA RecordStates ==
    ASSUME IInv, StatesInv, NEW call, Commit(call), call # "save_bot_state",
           UNCHANGED <<pc, process, market>>, db'.tables = db.tables,
           db'.orders \subseteq db.orders \cup {work.filled},
           db'.orders # db.orders => work.filled # None
    PROVE  StatesInv'
  <1>1. /\ pc = "writing" /\ Head(work.calls) = call /\ work'.state = work.state
        /\ work'.filled = work.filled /\ work'.bar = work.bar
    BY CommitIs
  <1>2. UNCHANGED <<buffer, runtime, last_processed, HasSavedState, SavedState>>
    BY DEF process, HasSavedState, SavedState
  <1>3. SavedAs(work.state)' <=> SavedAs(work.state)
    BY <1>1, <1>2 DEF SavedAs
  <1>4. SavedAs(work.state)
    BY <1>1 DEF StatesInv, WrittenOK
  <1>5. ValuesOK'
    BY <1>1, <1>2 DEF StatesInv, ValuesOK, Optional
  <1>6. TablesOK'
    BY <1>2 DEF StatesInv, TablesOK
  <1>7. RuntimeOK'
    BY <1>1, <1>2 DEF StatesInv, RuntimeOK
  <1>8. WrittenOK'
    BY <1>1, <1>2, <1>3, <1>4 DEF StatesInv, WrittenOK
  <1> QED
    BY <1>5, <1>6, <1>7, <1>8 DEF StatesInv

\* What a save writes is what a restart loads.
LEMMA WorkIsSaved ==
    ASSUME IInv, StatesInv, SaveBotState
    PROVE  /\ AreTables(db'.tables) /\ Holds(db'.tables, Bot, work.state)
           /\ HasSavedState' /\ SavedState' = work.state /\ db'.orders = db.orders
  <1> DEFINE st == work.state
  <1>1. /\ Commit("save_bot_state") /\ db' = [db EXCEPT !.tables = save_bot_state(@, Bot, st)]
    BY DEF SaveBotState
  <1>2. db'.tables = save_bot_state(db.tables, Bot, st) /\ db'.orders = db.orders
    BY <1>1 DEF IInv, SavedOK
  <1>3. StorableState(st, Keys)
    BY DEF StatesInv, WrittenOK, Kept, Booked, Bookable, StorableState
  <1> HIDE DEF st
  <1>4. AreTables(db'.tables) /\ Holds(db'.tables, Bot, st)
    BY <1>2, SavedIsHeld, BotAssumption DEF StatesInv, TablesOK
  <1>5. HasSavedState' /\ SavedState' = st
    BY <1>3, <1>4, HeldIsLoaded DEF Holds, HasSavedState, SavedState
  <1> QED
    BY <1>2, <1>4, <1>5 DEF st

LEMMA SaveBotStateStates ==
    ASSUME IInv, StatesInv, SaveBotState
    PROVE  StatesInv'
  <1> DEFINE st == work.state
  <1>1. Commit("save_bot_state") /\ UNCHANGED <<pc, process, market>>
    BY DEF SaveBotState
  <1>2. /\ pc = "writing" /\ work'.state = st
        /\ work'.filled = work.filled /\ work'.bar = work.bar
    BY <1>1, CommitIs
  <1>3. Kept(st) /\ Before(st, market)
    BY <1>2 DEF StatesInv, WrittenOK
  <1>4. /\ AreTables(db'.tables) /\ Holds(db'.tables, Bot, st)
        /\ HasSavedState' /\ SavedState' = st /\ db'.orders = db.orders
    BY WorkIsSaved
  <1> HIDE DEF st
  <1>5. UNCHANGED <<buffer, runtime, last_processed>>
    BY <1>1 DEF process
  <1>6. ValuesOK'
    BY <1>1, <1>2, <1>4, <1>5 DEF StatesInv, ValuesOK
  <1>7. TablesOK'
    BY <1>1, <1>3, <1>4 DEF TablesOK
  <1>8. RuntimeOK'
    BY <1>1, <1>2, <1>5 DEF StatesInv, RuntimeOK
  <1>9. SavedAs(work.state)'
    BY <1>2, <1>4 DEF SavedAs
  <1>10. WrittenOK'
    BY <1>1, <1>2, <1>5, <1>9 DEF StatesInv, WrittenOK, st
  <1> QED
    BY <1>6, <1>7, <1>8, <1>10 DEF StatesInv

\* The saved state is the same but for the flag that save_safe_stop_reason sets.
LEMMA StopIsMarked ==
    ASSUME IInv, StatesInv, SaveSafeStopReason
    PROVE  LET marked == [SavedState EXCEPT !.safe_stop_active = TRUE] IN
           /\ HasSavedState /\ SavedState \in BotState(Keys)
           /\ AreTables(db'.tables) /\ Holds(db'.tables, Bot, marked)
           /\ StorableState(marked, Keys)
           /\ HasSavedState' /\ SavedState' = marked /\ db'.orders = db.orders
  <1> DEFINE st == SavedState
             marked == [st EXCEPT !.safe_stop_active = TRUE]
  <1>1. /\ Commit("save_safe_stop_reason")
        /\ db' = [db EXCEPT !.safe_stops = @ \cup {work.bar},
                            !.tables = MarkSafeStop(@, Bot)]
    BY DEF SaveSafeStopReason
  <1>2. pc = "writing" /\ Head(work.calls) = "save_safe_stop_reason"
    BY <1>1, CommitIs
  <1>3. db'.tables = MarkSafeStop(db.tables, Bot) /\ db'.orders = db.orders
    BY <1>1 DEF IInv, SavedOK
  <1>4. /\ HasSavedState /\ Holds(db.tables, Bot, st) /\ Kept(st) /\ AreTables(db.tables)
    BY <1>2 DEF SavedAs, StatesInv, TablesOK, WrittenOK
  <1>5. st \in BotState(Keys) /\ StorableState(st, Keys)
    BY <1>4 DEF Kept, Booked, Bookable, StorableState
  <1> HIDE DEF st
  <1>6. AreTables(db'.tables) /\ Holds(db'.tables, Bot, marked) /\ StorableState(marked, Keys)
    BY <1>3, <1>4, <1>5, MarkIsHeld, BotAssumption
  <1> HIDE DEF marked
  <1>7. HasSavedState' /\ SavedState' = marked
    BY <1>6, HeldIsLoaded DEF Holds, HasSavedState, SavedState
  <1> QED
    BY <1>3, <1>4, <1>5, <1>6, <1>7 DEF st, marked

\* The flag that save_safe_stop_reason sets is the one field Bookkeeping leaves out.
LEMMA SaveSafeStopReasonStates ==
    ASSUME IInv, StatesInv, SaveSafeStopReason
    PROVE  StatesInv'
  <1> DEFINE st == SavedState
             marked == [st EXCEPT !.safe_stop_active = TRUE]
  <1>1. /\ Commit("save_safe_stop_reason") /\ UNCHANGED <<pc, process, market>>
        /\ db' = [db EXCEPT !.safe_stops = @ \cup {work.bar},
                            !.tables = MarkSafeStop(@, Bot)]
    BY DEF SaveSafeStopReason
  <1>2. /\ pc = "writing" /\ work'.state = work.state
        /\ Head(work.calls) = "save_safe_stop_reason"
        /\ work'.filled = work.filled /\ work'.bar = work.bar
    BY <1>1, CommitIs
  <1>3. db'.tables = MarkSafeStop(db.tables, Bot) /\ db'.orders = db.orders
    BY <1>1 DEF IInv, SavedOK
  <1>4. SavedAs(work.state)
    BY <1>2 DEF StatesInv, WrittenOK
  <1>5. /\ HasSavedState /\ Holds(db.tables, Bot, st) /\ Kept(st) /\ Before(st, market)
        /\ AreTables(db.tables)
    BY <1>4 DEF SavedAs, StatesInv, TablesOK
  <1>6. st \in BotState(Keys) /\ HasSavedState' /\ SavedState' = marked
    BY StopIsMarked
  <1>7. AreTables(db'.tables) /\ Holds(db'.tables, Bot, marked) /\ StorableState(marked, Keys)
    BY StopIsMarked
  <1> HIDE DEF st
  <1>8. /\ marked.lots = st.lots /\ marked.orders_last_3min = st.orders_last_3min
        /\ marked.last_candle_time = st.last_candle_time
        /\ marked.pos_size_abs = st.pos_size_abs
        /\ marked.pos_proceeds_usdt = st.pos_proceeds_usdt
        /\ marked.trailing_active = st.trailing_active
        /\ marked.trailing_min = st.trailing_min
        /\ Bookkeeping(marked) = Bookkeeping(st)
    BY <1>6 DEF BotState, Bookkeeping
  <1> HIDE DEF marked
  <1>9. Kept(marked) /\ Before(marked, market)
    <2>1. Booked(marked, Keys) /\ Storable(marked)
      BY <1>5, <1>7, <1>8 DEF Kept, Booked, Bookable, TrailingHasMin, StorableState
    <2>2. Referred(marked) = Referred(st)
      BY <1>8 DEF Referred
    <2> QED
      BY <1>5, <1>8, <2>1, <2>2 DEF Kept, Before
  <1>10. UNCHANGED <<buffer, runtime, last_processed>>
    BY <1>1 DEF process
  <1>11. ValuesOK'
    BY <1>1, <1>2, <1>3, <1>10 DEF StatesInv, ValuesOK
  <1>12. TablesOK'
    BY <1>1, <1>6, <1>7, <1>9 DEF TablesOK
  <1>13. RuntimeOK'
    BY <1>1, <1>2, <1>10 DEF StatesInv, RuntimeOK
  <1>14. SavedAs(work.state)'
    BY <1>2, <1>4, <1>6, <1>8 DEF SavedAs, Bookkeeping, st
  <1>15. WrittenOK'
    BY <1>1, <1>2, <1>10, <1>14 DEF StatesInv, WrittenOK
  <1> QED
    BY <1>11, <1>12, <1>13, <1>15 DEF StatesInv

LEMMA ReturnStates ==
    ASSUME IInv, StatesInv, Return
    PROVE  StatesInv'
  <1>1. /\ pc = "writing" /\ work.calls = << >> /\ pc' = "idle" /\ work' = NoWork
        /\ runtime' = work.state
        /\ last_processed' = IF work.bar = None THEN last_processed ELSE work.bar
        /\ UNCHANGED <<buffer, db, market>>
    BY DEF Return, CommittedRuntime
  <1>2. /\ Kept(work.state) /\ Before(work.state, market) /\ buffer.current_candle # None
        /\ Before(work.state, buffer.current_candle.close_time) /\ SavedAs(work.state)
    BY <1>1 DEF StatesInv, WrittenOK
  <1>3. SavedAs(runtime)'
    BY <1>1, <1>2 DEF SavedAs, HasSavedState, SavedState
  <1>4. ValuesOK'
    BY <1>1 DEF StatesInv, ValuesOK, NoWork, Optional
  <1>5. market \in Int
    BY BarsAreTimes DEF StatesInv, ValuesOK
  <1>6. TablesOK'
    BY <1>1, <1>5, TablesLater DEF StatesInv, ValuesOK
  <1>7. RuntimeOK'
    BY <1>1, <1>2, <1>3 DEF RuntimeOK, Before
  <1>8. WrittenOK'
    BY <1>1, CleanStateIsKept DEF WrittenOK, NoWork
  <1> QED
    BY <1>4, <1>6, <1>7, <1>8 DEF StatesInv

LEMMA DieStates ==
    ASSUME IInv, StatesInv, Die
    PROVE  StatesInv'
  <1>1. /\ pc' = "down" /\ work' = NoWork /\ buffer' = EmptyBuffer /\ runtime' = CleanState
        /\ last_processed' = None /\ UNCHANGED <<db, market>>
    BY DEF Die
  <1>2. ValuesOK'
    BY <1>1 DEF StatesInv, ValuesOK, NoWork, EmptyBuffer, Optional
  <1>3. market \in Int
    BY BarsAreTimes DEF StatesInv, ValuesOK
  <1>4. TablesOK'
    BY <1>1, <1>3, TablesLater DEF StatesInv, ValuesOK
  <1>5. RuntimeOK' /\ WrittenOK'
    BY <1>1, CleanStateIsKept DEF RuntimeOK, WrittenOK, NoWork
  <1> QED
    BY <1>2, <1>4, <1>5 DEF StatesInv

LEMMA InitStates == Init => StatesInv
  <1> SUFFICES ASSUME Init PROVE StatesInv
    OBVIOUS
  <1>1. /\ pc = "down" /\ buffer = EmptyBuffer /\ runtime = CleanState
        /\ last_processed = None /\ work = NoWork /\ db.tables = NoTables /\ db.orders = {}
        /\ market = 1
    BY DEF Init
  <1>2. 1 \in Bars
    BY BoundsAssumption DEF Bars
  <1>3. ValuesOK
    BY <1>1, <1>2 DEF ValuesOK, NoWork, EmptyBuffer, Optional
  <1>4. TablesOK
    BY <1>1, NoTablesAreTables DEF TablesOK, HasSavedState
  <1>5. RuntimeOK /\ WrittenOK
    BY <1>1, CleanStateIsKept DEF RuntimeOK, WrittenOK, NoWork
  <1> QED
    BY <1>3, <1>4, <1>5 DEF StatesInv

LEMMA NextStates == IInv /\ StatesInv /\ [Next]_vars => StatesInv'
  <1> SUFFICES ASSUME IInv, StatesInv, [Next]_vars PROVE StatesInv'
    OBVIOUS
  <1>1. ASSUME NEW policy \in StartPolicies, StartWithoutBackfill(policy) PROVE StatesInv'
    BY <1>1, StartWithoutBackfillStates
  <1>2. ASSUME NEW policy \in StartPolicies, NEW candle \in Candles,
               NEW from \in {candle.close_time - 1, candle.close_time} \cap Bars,
               Start(policy, from, candle)
        PROVE  StatesInv'
    BY <1>2, StartStates
  <1>3. ASSUME NEW u \in Candles,
               BufferUpdate(u) \/ StrategySafeStop(u) \/ NoIntent(u) \/ ExecuteIntent(u)
        PROVE  StatesInv'
    BY <1>3, BufferUpdateStates, QuietStates, ExecuteIntentStates
  <1>4. CASE SaveBotState
    BY <1>4, SaveBotStateStates
  <1>5. CASE SaveOrder
    <2>1. /\ Commit("save_order") /\ UNCHANGED <<pc, process, market>>
          /\ db'.tables = db.tables /\ db'.orders = db.orders \cup {work.filled}
      BY <1>5 DEF SaveOrder, IInv, SavedOK
    <2>2. work.filled # None
      BY <2>1, CommitIs, OtherCallsShrink
    <2> QED
      BY <2>1, <2>2, RecordStates
  <1>6. CASE SaveFill \/ SaveEvent
    <2>1. /\ Commit("save_fill") \/ Commit("save_event")
          /\ UNCHANGED <<pc, process, market>>
          /\ db'.tables = db.tables /\ db'.orders = db.orders
      BY <1>6 DEF SaveFill, SaveEvent, IInv, SavedOK
    <2> QED
      BY <2>1, RecordStates
  <1>7. CASE SaveSafeStopReason
    BY <1>7, SaveSafeStopReasonStates
  <1>8. CASE Return
    BY <1>8, ReturnStates
  <1>9. CASE SaveOrderFails \/ Crash
    BY <1>9, DieStates DEF SaveOrderFails, IntegrityError, Crash
  <1>10. CASE UNCHANGED vars
    <2>1. UNCHANGED <<pc, buffer, runtime, last_processed, work, db, market>>
      BY <1>10 DEF vars, process
    <2>2. ValuesOK'
      BY <2>1 DEF StatesInv, ValuesOK
    <2>3. TablesOK'
      BY <2>1 DEF StatesInv, TablesOK, HasSavedState, SavedState
    <2>4. RuntimeOK' /\ WrittenOK'
      BY <2>1 DEF StatesInv, RuntimeOK, WrittenOK, SavedAs, HasSavedState, SavedState
    <2> QED
      BY <2>2, <2>3, <2>4 DEF StatesInv
  <1> QED
    BY <1>1, <1>2, <1>3, <1>4, <1>5, <1>6, <1>7, <1>8, <1>9, <1>10 DEF Next, Write

-----------------------------------------------------------------------------
(* The backfill *)

\* A backfill leaves the buffer as Start has it: fed one candle of each bar in turn, from
\* an empty one, it has the last in progress, and has handed out the one before it, if
\* there is any (warmup_from_candles, CandleUpdateBuffer.process_update).
THEOREM BackfillIsReplay ==
    ASSUME NEW from \in Bars, NEW to \in Bars, from <= to,
           NEW rows, \A t \in from .. to : rows[t] \in Candles /\ rows[t].close_time = t,
           NEW buf, buf[from] = process_update(EmptyBuffer, rows[from]).buffer,
           \A t \in from + 1 .. to : buf[t] = process_update(buf[t - 1], rows[t]).buffer
    PROVE  buf[to] = Warmed(from, rows[to])
  <1> DEFINE Bad == {t \in from .. to : buf[t] # Warmed(from, rows[t])}
  <1>1. SUFFICES ASSUME Bad # {} PROVE FALSE
    BY BarsAreTimes
  <1>2. from \in Int /\ to \in Int
    BY BarsAreTimes
  <1>3. IsFiniteSet(Bad)
    <2>1. IsFiniteSet(from .. to)
      BY <1>2, FS_Interval
    <2> QED
      BY <2>1, FS_Subset
  <1>4. PICK t \in Bad : \A s \in Bad : t <= s
    <2>1. Bad \subseteq Int
      BY <1>2
    <2> HIDE DEF Bad
    <2> QED
      BY <1>1, <1>3, <2>1, MinIs
  <1>5. t \in from .. to /\ rows[t] \in Candles /\ rows[t].close_time = t /\ rows[t] # None
    BY CandleIsPriced
  <1>6. CASE t = from
    <2>1. buf[t] = [current_candle |-> rows[t], last_emitted_close_time |-> None]
      BY <1>6 DEF process_update, Starts, Refresh, EmptyBuffer
    <2> QED
      BY <1>5, <1>6, <2>1 DEF Warmed
  <1>7. CASE t # from
    <2>1. t - 1 \in from .. to /\ t \in from + 1 .. to
      BY <1>2, <1>5, <1>7
    <2>2. t - 1 \notin Bad
      BY <1>2, <1>4, <1>5
    <2>3. buf[t - 1] = Warmed(from, rows[t - 1])
      BY <2>1, <2>2
    <2>4. /\ rows[t - 1] \in Candles /\ rows[t - 1].close_time = t - 1
          /\ rows[t - 1] # None
      BY <2>1, CandleIsPriced
    <2>5. buf[t - 1].current_candle = rows[t - 1]
      BY <2>3 DEF Warmed
    <2>6. ~Starts(buf[t - 1], rows[t]) /\ ~OutOfOrder(buf[t - 1], rows[t])
      BY <1>2, <1>5, <2>4, <2>5 DEF Starts, OutOfOrder
    <2>7. buf[t] = [current_candle |-> rows[t], last_emitted_close_time |-> t - 1]
      BY <2>1, <2>4, <2>5, <2>6 DEF process_update
    <2> QED
      BY <1>5, <1>7, <2>7 DEF Warmed
  <1> QED
    BY <1>6, <1>7

-----------------------------------------------------------------------------
(* A cycle: one short, and its exit *)

ShortOrExit == {"FIRST_SHORT"} \cup Exits

\* A state without a level for a DCA, and with the sells of its lots, one at most.
OneLot(st) ==
    /\ st.next_level_price = None
    /\ st.num_sells \in {0, 1} /\ Cardinality(st.lots) = st.num_sells

CycleInv ==
    /\ OneLot(runtime) /\ OneLot(work.state)
    /\ HasSavedState => OneLot(SavedState)
    /\ work.filled # None => work.filled[1] \in ShortOrExit
    /\ \A i \in DOMAIN trades : trades[i].id[1] \in ShortOrExit

LEMMA CleanStateIsOneLot == OneLot(CleanState)
  BY FS_EmptySet DEF OneLot, CleanState

\* The strategy asks for a first short or an exit: a DCA has no level, and a sub-cover
\* takes more than five sells.
LEMMA DecisionOnOneLot ==
    ASSUME NEW st, Booked(st, Keys), OneLot(st), NEW c, Priced(c), c.close_time \in Nat,
           NEW even, NEW d, d = evaluate_bar(st, c, even)
    PROVE  \/ OneLot(d.updated_state) /\ (d.safe_stop_required \/ d.intent = None)
           \/ /\ ~d.safe_stop_required
              /\ \E type \in ShortOrExit, qty \in Nat :
                    /\ d.intent = Intent(type, c, qty)
                    /\ type = "FIRST_SHORT" => st.lots = {}
  <1> DEFINE Quiet == OneLot(d.updated_state) /\ (d.safe_stop_required \/ d.intent = None)
             Asks(type, qty) == /\ d.intent = Intent(type, c, qty)
                                /\ type = "FIRST_SHORT" => st.lots = {}
             Goal == \/ Quiet
                     \/ /\ ~d.safe_stop_required
                        /\ \E type \in ShortOrExit, qty \in Nat : Asks(type, qty)
             now == [st EXCEPT !.last_candle_time = c.close_time]
             tr == UpdateTrailing(now, c)
  <1> SUFFICES Goal
    OBVIOUS
  <1>1. /\ Booked(now, Keys) /\ now.lots = st.lots /\ OneLot(now)
        /\ now.pos_size_abs = st.pos_size_abs
    <2>1. c.close_time \in Optional(Nat) /\ st \in BotState(Keys)
      BY DEF Booked, Bookable, Optional
    <2>2. now \in BotState(Keys)
      BY <2>1 DEF BotState
    <2>3. /\ now.lots = st.lots /\ now.num_sells = st.num_sells
          /\ now.next_level_price = st.next_level_price
          /\ now.pos_size_abs = st.pos_size_abs /\ now.pos_proceeds_usdt = st.pos_proceeds_usdt
          /\ now.trailing_active = st.trailing_active /\ now.trailing_min = st.trailing_min
      BY <2>1 DEF BotState
    <2> HIDE DEF now
    <2> QED
      BY <2>2, <2>3 DEF Booked, Bookable, TrailingHasMin, OneLot
  <1>2. /\ st.pos_size_abs \in Nat /\ (st.pos_size_abs = 0 <=> st.lots = {})
        /\ BaseOrderQty(c.close) \in Nat
    BY BookedIsValid, BaseQtyIsNat DEF Booked, Bookable, BotState, Priced
  <1> HIDE DEF now
  <1>3. Booked(tr, Keys) /\ OneLot(tr)
    BY <1>1, TrailingIsBooked DEF SameBook, SameCycle, OneLot
  <1>4. ~SubcoverDue(tr, c) /\ ~DcaDue(tr, c)
    BY <1>3 DEF OneLot, SubcoverDue, DcaDue
  <1>5. \/ d = SafeStopDecision(now) \/ d = Decision(now, None) \/ d = Decision(tr, None)
        \/ d = FirstShort(now, c) /\ (now.pos_size_abs = 0 \/ now.lots = {})
        \/ d = Exit(now, now, c, "FULL_COVER") \/ d = Exit(now, tr, c, "TRAILING_TP")
    BY <1>4 DEF evaluate_bar, ManagePosition, now
  <1> HIDE DEF tr, Goal
  <1>6. ASSUME NEW t, t \in {now, tr}, d = Decision(t, None) PROVE Goal
    BY <1>1, <1>3, <1>6, Decided DEF Goal
  <1>7. ASSUME d = SafeStopDecision(now) PROVE Goal
    <2> DEFINE u == [now EXCEPT !.safe_stop_active = TRUE]
    <2>1. u.lots = now.lots /\ u.num_sells = now.num_sells
          /\ u.next_level_price = now.next_level_price
      BY <1>1 DEF Booked, Bookable, BotState
    <2>2. d.updated_state = u /\ d.safe_stop_required
      BY <1>7 DEF SafeStopDecision
    <2> HIDE DEF u
    <2> QED
      BY <1>1, <2>1, <2>2 DEF Goal, OneLot
  <1>8. ASSUME NEW s, NEW type \in ShortOrExit, NEW qty \in Nat,
               d = Decision(s, Intent(type, c, qty)), type = "FIRST_SHORT" => st.lots = {}
        PROVE  Goal
    BY <1>8, Decided DEF Goal
  <1>9. CASE d = FirstShort(now, c) /\ (now.pos_size_abs = 0 \/ now.lots = {})
    <2>1. st.lots = {} /\ "FIRST_SHORT" \in ShortOrExit
      BY <1>1, <1>2, <1>9 DEF ShortOrExit
    <2> QED
      BY <1>2, <1>7, <1>8, <1>9, <2>1 DEF FirstShort
  <1>10. ASSUME NEW t, NEW type \in Exits, d = Exit(now, t, c, type) PROVE Goal
    <2>1. type \in ShortOrExit /\ type # "FIRST_SHORT"
      BY DEF ShortOrExit, Exits
    <2> QED
      BY <1>1, <1>2, <1>8, <1>10, <2>1 DEF Exit
  <1> QED
    BY <1>5, <1>6, <1>7, <1>9, <1>10 DEF Exits

\* An exit leaves nothing of the cycle in the book.
LEMMA ResetClearsCycle ==
    ASSUME NEW st, Bookable(st, Keys), NEW p \in Nat
    PROVE  LET s == reset_cycle(close_all(st, p)) IN
           Booked(s, Keys) /\ s.lots = {} /\ s.next_level_price = None /\ s.num_sells = 0
  BY ResetIsBooked

\* The executor books the short without a level, and an exit clears the cycle.
LEMMA FillKeepsOneLot ==
    ASSUME NEW st, NEW intent, NEW qty, NEW c, Fillable(st, Keys, intent, qty, c),
           OneLot(st), intent.intent_type \in ShortOrExit,
           intent.intent_type = "FIRST_SHORT" => st.lots = {}
    PROVE  OneLot(ApplyFill(st, intent, qty, c))
  <1> DEFINE orders == Append(st.orders_last_3min, c.close_time)
             Stamp(s) == [s EXCEPT !.orders_last_3min = orders, !.last_candle_time = c.close_time]
             result == ApplyFill(st, intent, qty, c)
  <1>1. /\ qty \in Nat \ {0} /\ c.close \in Nat /\ Bookable(st, Keys) /\ None \in Optional(Nat)
        /\ intent.intent_type \in OpenTypes =>
              intent.intent_id \in Keys /\ \A l \in st.lots : l.id # intent.intent_id
    BY DEF Fillable, Booked, Optional
  <1>2. CASE intent.intent_type = "FIRST_SHORT"
    <2> DEFINE a == add_short_lot(st, intent.intent_id, qty, c.close, None)
               lot == [id |-> intent.intent_id, qty |-> qty, entry_price |-> c.close,
                       open_sequence |-> next_open_sequence(st.lots)]
    <2>0. intent.intent_id \in Keys /\ \A l \in st.lots : l.id # intent.intent_id
      BY <1>1, <1>2 DEF OpenTypes
    <2>1. /\ Booked(a, Keys) /\ LevelAfter(a, st, None)
          /\ a.lots = st.lots \cup {lot} /\ lot \notin st.lots
          /\ SameRest(a, st) /\ a.num_sells = st.num_sells + 1
      BY <1>1, <2>0, AddedLotIsBooked
    <2>2. result = [Stamp(a) EXCEPT !.fills_this_bar = st.fills_this_bar + 1,
                                    !.reset_cycle = FALSE]
      BY <1>2 DEF ApplyFill, OpenTypes
    <2> HIDE DEF a, lot, orders, result
    <2>3. a \in BotState(Keys)
      BY <2>1 DEF Booked, Bookable
    <2>4. /\ result.lots = a.lots /\ result.num_sells = a.num_sells
          /\ result.next_level_price = a.next_level_price
      BY <2>2, <2>3 DEF BotState
    <2>5. st.lots = {} /\ a.lots = {lot} /\ a.next_level_price = None
      BY <1>2, <2>1 DEF LevelAfter, OneLot
    <2>6. Cardinality(a.lots) = 1 /\ Cardinality(st.lots) = 0
      BY <2>5, FS_EmptySet, FS_Singleton
    <2> QED
      BY <2>1, <2>4, <2>5, <2>6 DEF OneLot, result
  <1>3. CASE intent.intent_type \in Exits
    <2> DEFINE a == reset_cycle(close_all(st, c.close))
    <2>1. Booked(a, Keys) /\ a.lots = {} /\ a.next_level_price = None /\ a.num_sells = 0
      BY <1>1, ResetClearsCycle
    <2>2. result = Stamp(a)
      BY <1>3 DEF ApplyFill, OpenTypes, Exits
    <2> HIDE DEF a, orders, result
    <2>3. a \in BotState(Keys)
      BY <2>1 DEF Booked, Bookable
    <2>4. /\ result.lots = a.lots /\ result.num_sells = a.num_sells
          /\ result.next_level_price = a.next_level_price
      BY <2>2, <2>3 DEF BotState
    <2> QED
      BY <2>1, <2>4, FS_EmptySet DEF OneLot, result
  <1> QED
    BY <1>2, <1>3 DEF ShortOrExit

LEMMA SameSavedState ==
    ASSUME UNCHANGED db
    PROVE  UNCHANGED <<HasSavedState, SavedState>>
  BY DEF HasSavedState, SavedState

\* The fields that OneLot is about are the same in both.
LEMMA AsManyLots ==
    ASSUME NEW st, OneLot(st), NEW s, s.lots = st.lots, s.num_sells = st.num_sells,
           s.next_level_price = st.next_level_price
    PROVE  OneLot(s)
  BY DEF OneLot

\* One step of each kind keeps the cycle: a start, a bar, the save of a state.
LEMMA StartCycle ==
    ASSUME IInv, StatesInv, CycleInv, NEW policy, NEW from, NEW candle,
           StartWithoutBackfill(policy) \/ Start(policy, from, candle)
    PROVE  CycleInv'
  <1> DEFINE first == InitialState(policy)
             state == [first EXCEPT !.last_candle_time = candle.close_time]
  <1>1. OneLot(first) /\ first \in BotState(Keys)
    <2>1. Kept(first)
      BY InitialIsKept
    <2> QED
      BY <2>1, CleanStateIsOneLot DEF CycleInv, InitialState, Kept, Booked, Bookable
  <1>2. OneLot(state)
    <2> HIDE DEF first
    <2>1. /\ state.lots = first.lots /\ state.num_sells = first.num_sells
          /\ state.next_level_price = first.next_level_price
      BY <1>1 DEF BotState
    <2> HIDE DEF state
    <2> QED
      BY <1>1, <2>1, AsManyLots
  <1>3. /\ UNCHANGED <<db, trades>>
        /\ \/ runtime' = first /\ UNCHANGED work
           \/ runtime' = state /\ work'.state = state /\ work'.filled = None
    BY DEF StartWithoutBackfill, Start, Begin
  <1> HIDE DEF first, state
  <1>4. UNCHANGED <<HasSavedState, SavedState>>
    BY <1>3, SameSavedState
  <1>5. OneLot(runtime)' /\ OneLot(work.state)'
    BY <1>1, <1>2, <1>3 DEF CycleInv, OneLot
  <1>6. (HasSavedState => OneLot(SavedState))'
    BY <1>4 DEF CycleInv, OneLot
  <1> QED
    BY <1>3, <1>5, <1>6 DEF CycleInv

LEMMA BarCycle ==
    ASSUME IInv, StatesInv, CycleInv, NEW u \in Candles,
           StrategySafeStop(u) \/ NoIntent(u) \/ ExecuteIntent(u)
    PROVE  CycleInv'
  <1> DEFINE c == ClosedBy(u)
             d == DecisionOn(c)
             r == execute_intent(d.intent, runtime, c, {})
  <1>1. Closes(u) /\ UNCHANGED <<db, trades>>
    BY DEF StrategySafeStop, NoIntent, ExecuteIntent, Closes, history
  <1>2. /\ c \in Candles /\ Kept(runtime) /\ Booked(runtime, Keys)
        /\ Before(runtime, c.close_time) /\ Priced(c) /\ c.close_time \in Nat
    BY <1>1, BarIsNew, CandleIsPriced DEF StatesInv, RuntimeOK, Kept
  <1>3. \/ OneLot(d.updated_state) /\ (d.safe_stop_required \/ d.intent = None)
        \/ /\ ~d.safe_stop_required
           /\ \E type \in ShortOrExit, qty \in Nat :
                 /\ d.intent = Intent(type, c, qty)
                 /\ type = "FIRST_SHORT" => runtime.lots = {}
    BY <1>2, DecisionOnOneLot DEF CycleInv, DecisionOn
  <1>4. ASSUME NEW type \in ShortOrExit, NEW qty \in Nat, d.intent = Intent(type, c, qty)
        PROVE  /\ IntentFor(d.intent, runtime, c) /\ d.intent # None
               /\ d.intent.intent_type = type /\ d.intent.intent_id[1] = type
    <2>1. type \in OpenTypes \cup CoverTypes /\ type # "SUB_COVER"
      BY DEF ShortOrExit, Exits, OpenTypes, CoverTypes
    <2>2. IntentFor(d.intent, runtime, c)
      BY <1>4, <2>1 DEF IntentFor
    <2>3. d.intent.intent_type = type /\ d.intent.intent_id = <<type, c.close_time>>
      BY <1>4 DEF Intent, IntentKey
    <2> QED
      BY <1>2, <2>2, <2>3, IntentIsNotNone
  <1> HIDE DEF c, d
  <1>5. CASE StrategySafeStop(u) \/ NoIntent(u)
    <2>1. /\ runtime' = d.updated_state /\ work'.state = d.updated_state /\ work'.filled = None
          /\ d.safe_stop_required \/ d.intent = None
      BY <1>5 DEF StrategySafeStop, NoIntent, Begin, c, d
    <2>2. OneLot(d.updated_state)
      BY <1>3, <1>4, <2>1
    <2>3. OneLot(runtime)' /\ OneLot(work.state)'
      BY <2>1, <2>2 DEF OneLot
    <2>4. (HasSavedState => OneLot(SavedState))'
      BY <1>1, SameSavedState DEF CycleInv, OneLot
    <2> QED
      BY <1>1, <2>1, <2>3, <2>4 DEF CycleInv
  <1>6. CASE ExecuteIntent(u)
    <2>1. /\ ~d.safe_stop_required /\ d.intent # None /\ runtime' = runtime
          /\ work'.state = r.updated_state
          /\ work'.filled = IF r.filled_qty > 0 THEN d.intent.intent_id ELSE None
      BY <1>6 DEF ExecuteIntent, Begin, c, d
    <2>2. PICK type \in ShortOrExit, want \in Nat :
              /\ d.intent = Intent(type, c, want)
              /\ type = "FIRST_SHORT" => runtime.lots = {}
      BY <1>3, <2>1
    <2>3. /\ IntentFor(d.intent, runtime, c) /\ d.intent.intent_type = type
          /\ d.intent.intent_id[1] = type
      BY <1>4, <2>2
    <2>4. \/ r.updated_state = runtime
          \/ /\ r.filled_qty = FilledQty(d.intent) /\ r.filled_qty # 0
             /\ r.updated_state = ApplyFill(runtime, d.intent, r.filled_qty, c)
      BY RefusedOrFilled
    <2> HIDE DEF r
    <2>5. OneLot(r.updated_state)
      <3>1. CASE r.updated_state = runtime
        BY <3>1 DEF CycleInv
      <3>2. CASE /\ r.filled_qty = FilledQty(d.intent) /\ r.filled_qty # 0
                 /\ r.updated_state = ApplyFill(runtime, d.intent, r.filled_qty, c)
        <4>1. Fillable(runtime, Keys, d.intent, r.filled_qty, c)
          BY <1>2, <2>3, <3>2, IntentIsFillable
        <4> QED
          BY <2>2, <2>3, <3>2, <4>1, FillKeepsOneLot DEF CycleInv
      <3> QED
        BY <2>4, <3>1, <3>2
    <2>6. OneLot(runtime)' /\ OneLot(work.state)'
      BY <2>1, <2>5 DEF CycleInv, OneLot
    <2>7. (HasSavedState => OneLot(SavedState))'
      BY <1>1, SameSavedState DEF CycleInv, OneLot
    <2>8. (work.filled # None => work.filled[1] \in ShortOrExit)'
      BY <2>1, <2>3
    <2> QED
      BY <1>1, <2>6, <2>7, <2>8 DEF CycleInv
  <1> QED
    BY <1>5, <1>6

LEMMA SaveBotStateCycle ==
    ASSUME IInv, StatesInv, CycleInv, SaveBotState
    PROVE  CycleInv'
  <1>1. /\ UNCHANGED runtime /\ work'.state = work.state /\ work'.filled = work.filled
        /\ trades' = IF work.filled = None THEN trades
                     ELSE Append(trades, [id |-> work.filled, book |-> book])
    BY CommitIs DEF SaveBotState, process
  <1>2. HasSavedState' /\ SavedState' = work.state
    BY WorkIsSaved
  <1>3. \A i \in DOMAIN trades' : trades'[i].id[1] \in ShortOrExit
    <2>1. trades \in Seq([id : TradeIds, book : Nat])
      BY DEF IInv, TradesOK
    <2> DEFINE trade == [id |-> work.filled, book |-> book]
    <2>2. trade.id = work.filled
      OBVIOUS
    <2> HIDE DEF trade
    <2>3. \A i \in DOMAIN Append(trades, trade) :
              \/ Append(trades, trade)[i] = trade
              \/ i \in DOMAIN trades /\ Append(trades, trade)[i] = trades[i]
      BY <2>1
    <2> QED
      BY <1>1, <2>2, <2>3 DEF CycleInv, trade
  <1>4. OneLot(runtime)' /\ OneLot(work.state)' /\ (HasSavedState => OneLot(SavedState))'
    BY <1>1, <1>2 DEF CycleInv, OneLot
  <1> QED
    BY <1>1, <1>3, <1>4 DEF CycleInv

LEMMA NextCycle == IInv /\ StatesInv /\ CycleInv /\ [Next]_vars => CycleInv'
  <1> SUFFICES ASSUME IInv, StatesInv, CycleInv, [Next]_vars PROVE CycleInv'
    OBVIOUS
  <1>1. ASSUME NEW policy, NEW from, NEW candle,
               StartWithoutBackfill(policy) \/ Start(policy, from, candle)
        PROVE  CycleInv'
    BY <1>1, StartCycle
  <1>2. ASSUME NEW u \in Candles, StrategySafeStop(u) \/ NoIntent(u) \/ ExecuteIntent(u)
        PROVE  CycleInv'
    BY <1>2, BarCycle
  <1>3. CASE SaveBotState
    BY <1>3, SaveBotStateCycle
  <1>4. CASE SaveSafeStopReason
    <2>1. /\ UNCHANGED <<runtime, trades>> /\ work'.state = work.state
          /\ work'.filled = work.filled
      BY <1>4, CommitIs DEF SaveSafeStopReason, process, history
    <2>2. /\ HasSavedState' /\ SavedState \in BotState(Keys)
          /\ HasSavedState /\ SavedState' = [SavedState EXCEPT !.safe_stop_active = TRUE]
      BY <1>4, StopIsMarked
    <2>3. /\ SavedState'.lots = SavedState.lots /\ SavedState'.num_sells = SavedState.num_sells
          /\ SavedState'.next_level_price = SavedState.next_level_price
      BY <2>2 DEF BotState
    <2>4. OneLot(SavedState')
      BY <2>2, <2>3, AsManyLots DEF CycleInv
    <2>5. OneLot(runtime)' /\ OneLot(work.state)' /\ OneLot(SavedState)'
      BY <2>1, <2>4 DEF CycleInv, OneLot
    <2> QED
      BY <2>1, <2>5 DEF CycleInv
  <1>5. ASSUME UNCHANGED <<db, trades>>,
               \/ UNCHANGED <<runtime, work>>
               \/ runtime' \in {CleanState, work.state} /\ work' = NoWork
        PROVE  CycleInv'
    <2>1. UNCHANGED <<HasSavedState, SavedState>>
      BY <1>5, SameSavedState
    <2>2. OneLot(runtime') /\ OneLot(work'.state)
      BY <1>5, CleanStateIsOneLot DEF CycleInv, NoWork
    <2>3. OneLot(runtime)' /\ OneLot(work.state)' /\ (HasSavedState => OneLot(SavedState))'
      BY <2>1, <2>2 DEF CycleInv, OneLot
    <2> QED
      BY <1>5, <2>3 DEF CycleInv, NoWork
  <1>6. CASE \/ Return \/ SaveOrderFails \/ Crash \/ UNCHANGED vars
             \/ \E u \in Candles : BufferUpdate(u)
    BY <1>5, <1>6 DEF Return, CommittedRuntime, SaveOrderFails, IntegrityError, Crash, Die,
                      BufferUpdate, vars, process, history
  <1>7. CASE SaveOrder \/ SaveFill \/ SaveEvent
    <2>1. /\ UNCHANGED <<runtime, trades>> /\ db'.tables = db.tables
          /\ work'.state = work.state /\ work'.filled = work.filled
      BY <1>7, CommitIs DEF SaveOrder, SaveFill, SaveEvent, process, history, IInv, SavedOK
    <2>2. UNCHANGED <<HasSavedState, SavedState>>
      BY <2>1 DEF HasSavedState, SavedState
    <2>3. OneLot(runtime)' /\ OneLot(work.state)' /\ (HasSavedState => OneLot(SavedState))'
      BY <2>1, <2>2 DEF CycleInv, OneLot
    <2> QED
      BY <2>1, <2>3 DEF CycleInv
  <1> QED
    BY <1>1, <1>2, <1>3, <1>4, <1>6, <1>7 DEF Next, Write

LEMMA InitCycle == Init => CycleInv
  <1> SUFFICES ASSUME Init PROVE CycleInv
    OBVIOUS
  <1>1. /\ runtime = CleanState /\ work = NoWork /\ db.tables = NoTables /\ trades = << >>
    BY DEF Init
  <1>2. ~HasSavedState
    BY <1>1, NoTablesAreTables DEF HasSavedState
  <1> QED
    BY <1>1, <1>2, CleanStateIsOneLot DEF CycleInv, NoWork

\* The trades, the state of the process and of the write, and the saved one.
OneShortPerCycle ==
    /\ \A i \in DOMAIN trades : trades[i].id[1] \in ShortOrExit
    /\ \A st \in {runtime, work.state} : Cardinality(st.lots) <= 1
    /\ HasSavedState => Cardinality(SavedState.lots) <= 1

\* Whatever the settings and the candles, and through every restart, the dry run trades
\* first shorts and exits alone, and never holds two lots: ApplyFill books a short without
\* a next level, so the level of a DCA is never there to touch, and a sub-cover waits
\* for more sells than one.
THEOREM NoDcaIsTraded == Spec => []OneShortPerCycle
  <1>1. OneLot(runtime) /\ OneLot(work.state)
           => \A st \in {runtime, work.state} : Cardinality(st.lots) <= 1
    BY DEF OneLot
  <1>2. CycleInv => OneShortPerCycle
    BY <1>1 DEF CycleInv, OneShortPerCycle, OneLot
  <1> QED
    BY <1>2, InitIInv, NextIInv, InitStates, NextStates, InitCycle, NextCycle, PTL DEF Spec

-----------------------------------------------------------------------------
(* The clock, and the bars that are traded *)

LEMMA DivMod ==
    ASSUME NEW x \in Int, NEW d \in Nat \ {0}
    PROVE  /\ x = (x \div d) * d + (x % d)
           /\ x \div d \in Int
           /\ x % d \in 0 .. d - 1
  OBVIOUS

LEMMA DivUnique ==
    ASSUME NEW x \in Int, NEW d \in Nat \ {0}, NEW q \in Int, NEW r \in 0 .. d - 1,
           x = q * d + r
    PROVE  x \div d = q /\ x % d = r
  OBVIOUS

LEMMA OneMore ==
    ASSUME NEW x \in Int, NEW d \in Nat \ {0}
    PROVE  (x + d) \div d = (x \div d) + 1
  OBVIOUS

LEMMA Distribute ==
    ASSUME NEW a \in Int, NEW b \in Int, NEW c \in Int
    PROVE  /\ (a + b) * c = a * c + b * c
           /\ a * (b * c) = (a * b) * c
  OBVIOUS

BarsADay == Day \div Timeframe

LEMMA WholeDay == /\ BarsADay \in Nat \ {0}
                  /\ Day = BarsADay * Timeframe
  <1>1. Timeframe \in Nat \ {0} /\ Day \in Nat \ {0} /\ Day % Timeframe = 0
    BY ClockAssumption
  <1>2. Day = BarsADay * Timeframe /\ BarsADay \in Int
    BY <1>1, DivMod DEF BarsADay
  <1>3. BarsADay > 0
    <2> SUFFICES ASSUME BarsADay <= 0 PROVE FALSE
      BY <1>2
    <2>1. BarsADay * Timeframe <= 0
      BY <1>1, <1>2
    <2> QED
      BY <1>1, <1>2, <2>1
  <1> QED
    BY <1>2, <1>3

\* The index of a bar counts on by one from each bar to the next.
LEMMA AnchorOnce ==
    ASSUME NEW t \in Int, AnchorMode # "utc_day_start"
    PROVE  bars_from_anchor(t) \in Int /\ bars_from_anchor(t + 1) = bars_from_anchor(t) + 1
  <1>1. Timeframe \in Nat \ {0} /\ AnchorTime \in Int
    BY ClockAssumption
  <1> DEFINE x == t * Timeframe - AnchorTime
  <1>2. x \in Int /\ (t + 1) * Timeframe - AnchorTime = x + Timeframe
    BY <1>1, Distribute
  <1>3. bars_from_anchor(t) = x \div Timeframe
    BY DEF bars_from_anchor, calculate_bars_from_anchor, anchor_time
  <1>4. bars_from_anchor(t + 1) = (x + Timeframe) \div Timeframe
    BY <1>2 DEF bars_from_anchor, calculate_bars_from_anchor, anchor_time
  <1> HIDE DEF x
  <1> QED
    BY <1>1, <1>2, <1>3, <1>4, OneMore, DivMod

\* With the anchor at midnight it is the position of the bar in its day.
LEMMA AnchorAtMidnight ==
    ASSUME NEW t \in Int, AnchorMode = "utc_day_start"
    PROVE  bars_from_anchor(t) = t % BarsADay
  <1>1. Timeframe \in Nat \ {0} /\ Day \in Nat \ {0}
    BY ClockAssumption
  <1> DEFINE q == t \div BarsADay
             r == t % BarsADay
  <1>2. t = q * BarsADay + r /\ q \in Int /\ r \in 0 .. BarsADay - 1
    BY WholeDay, DivMod
  <1>3. BarsADay \in Nat \ {0} /\ Day = BarsADay * Timeframe
    BY WholeDay
  <1> HIDE DEF q, r
  <1>4. q * BarsADay \in Int /\ r \in Int
    BY <1>2, <1>3
  <1>5. t * Timeframe = q * Day + r * Timeframe
    BY <1>1, <1>2, <1>3, <1>4, Distribute
  <1>6. r * Timeframe \in 0 .. Day - 1
    <2>1. (BarsADay - 1 - r) * Timeframe >= 0 /\ r * Timeframe >= 0
      BY <1>1, <1>2, <1>3
    <2>2. BarsADay * Timeframe = (BarsADay - 1 - r) * Timeframe + (r + 1) * Timeframe
      BY <1>1, <1>2, <1>3, Distribute
    <2>3. (r + 1) * Timeframe = r * Timeframe + Timeframe
      BY <1>1, <1>2, <1>3, Distribute
    <2>4. /\ r * Timeframe \in Int /\ (r + 1) * Timeframe \in Int
          /\ (BarsADay - 1 - r) * Timeframe \in Int
      BY <1>1, <1>2, <1>3
    <2> QED
      BY <1>1, <1>3, <2>1, <2>2, <2>3, <2>4
  <1>7. t * Timeframe \in Int /\ (t * Timeframe) % Day = r * Timeframe
    BY <1>1, <1>2, <1>5, <1>6, DivUnique
  <1>8. bars_from_anchor(t) = (r * Timeframe) \div Timeframe
    <2>1. t * Timeframe - (t * Timeframe - r * Timeframe) = r * Timeframe
      BY <1>6, <1>7
    <2> QED
      BY <1>7, <2>1 DEF bars_from_anchor, calculate_bars_from_anchor, anchor_time, utc_day_start
  <1>9. (r * Timeframe) \div Timeframe = r
    <2>1. r * Timeframe = r * Timeframe + 0 /\ r * Timeframe \in Int
      BY <1>1, <1>2, <1>6
    <2> QED
      BY <1>1, <1>2, <2>1, DivUnique
  <1> QED
    BY <1>8, <1>9 DEF r

\* From a bar to the next the position goes up by one, or from the last to the first.
LEMMA NextInDay ==
    ASSUME NEW t \in Int
    PROVE  /\ t % BarsADay \in 0 .. BarsADay - 1
           /\ (t + 1) % BarsADay = IF t % BarsADay = BarsADay - 1 THEN 0
                                   ELSE (t % BarsADay) + 1
  <1> DEFINE q == t \div BarsADay
             r == t % BarsADay
  <1>1. t = q * BarsADay + r /\ q \in Int /\ r \in 0 .. BarsADay - 1
    BY WholeDay, DivMod
  <1>2. BarsADay \in Nat \ {0}
    BY WholeDay
  <1> HIDE DEF q, r
  <1>3. q * BarsADay \in Int /\ (q + 1) * BarsADay = q * BarsADay + BarsADay
    BY <1>1, <1>2, Distribute
  <1>4. CASE r = BarsADay - 1
    <2>1. t + 1 = (q + 1) * BarsADay + 0
      BY <1>1, <1>2, <1>3, <1>4
    <2>2. (t + 1) % BarsADay = 0
      BY <1>1, <1>2, <2>1, DivUnique
    <2> QED
      BY <1>1, <1>4, <2>2 DEF r
  <1>5. CASE r # BarsADay - 1
    <2>1. t + 1 = q * BarsADay + (r + 1) /\ r + 1 \in 0 .. BarsADay - 1
      BY <1>1, <1>2, <1>3, <1>5
    <2>2. ASSUME NEW s \in 0 .. BarsADay - 1, t + 1 = q * BarsADay + s
          PROVE  (t + 1) % BarsADay = s
      BY <1>1, <1>2, <2>2, DivUnique
    <2>3. (t + 1) % BarsADay = r + 1
      BY <2>1, <2>2
    <2> QED
      BY <1>1, <1>5, <2>3 DEF r
  <1> QED
    BY <1>4, <1>5

\* The count restarts at midnight, if it does, after an even number of bars.
EvenDays == AnchorMode = "utc_day_start" => BarsADay % 2 = 0

\* The filter lets every other bar through, of any two adjacent bars exactly one: around
\* a fixed anchor always, and around midnight when the day has an even number of bars
\* (CandleClock.is_bar_allowed).
THEOREM EveryOtherBar ==
    ASSUME NEW t \in Int, EvenDays
    PROVE  is_bar_allowed(t) <=> ~is_bar_allowed(t + 1)
  <1>1. CASE AnchorMode # "utc_day_start"
    BY <1>1, AnchorOnce DEF is_bar_allowed
  <1>2. CASE AnchorMode = "utc_day_start"
    <2>1. BarsADay % 2 = 0 /\ BarsADay \in Nat \ {0}
      BY <1>2, WholeDay DEF EvenDays
    <2>2. /\ bars_from_anchor(t) = t % BarsADay
          /\ bars_from_anchor(t + 1) = (t + 1) % BarsADay
      BY <1>2, AnchorAtMidnight
    <2>3. ASSUME NEW n \in Nat \ {0}, NEW i \in 0 .. n - 1, n % 2 = 0
          PROVE  i % 2 = 0 <=> ~((IF i = n - 1 THEN 0 ELSE i + 1) % 2 = 0)
      BY <2>3
    <2>4. bars_from_anchor(t) % 2 = 0 <=> ~(bars_from_anchor(t + 1) % 2 = 0)
      <3>1. t % BarsADay \in 0 .. BarsADay - 1
        BY NextInDay
      <3>2. (t + 1) % BarsADay = IF t % BarsADay = BarsADay - 1 THEN 0
                                 ELSE (t % BarsADay) + 1
        BY NextInDay
      <3> HIDE DEF BarsADay
      <3> QED
        BY <2>1, <2>2, <2>3, <3>1, <3>2, ZenonT(30)
    <2> QED
      BY <2>4 DEF is_bar_allowed
  <1> QED
    BY <1>1, <1>2

\* With the anchor at midnight and an odd number of bars a day, the last bar of a day and
\* the first of the next are both let through (the anchor moves by Day between them).
THEOREM TwoBarsAroundMidnight ==
    ASSUME NEW t \in Int, AnchorMode = "utc_day_start", BarsADay % 2 = 1,
           t % BarsADay = BarsADay - 1
    PROVE  is_bar_allowed(t) /\ is_bar_allowed(t + 1)
  <1>1. BarsADay \in Nat \ {0}
    BY WholeDay
  <1>2. /\ bars_from_anchor(t) = BarsADay - 1
        /\ bars_from_anchor(t + 1) = 0
    BY AnchorAtMidnight, NextInDay
  <1> QED
    BY <1>1, <1>2 DEF is_bar_allowed

\* What is traded, or on its way to be, is of a bar that the filter lets through.
FilteredInv ==
    /\ \A i \in DOMAIN trades : is_bar_allowed(trades[i].id[2])
    /\ work.filled # None => is_bar_allowed(work.filled[2])

LEMMA TradeTimes ==
    ASSUME IInv, NEW i \in DOMAIN trades
    PROVE  trades[i].id[2] \in Int
  <1>1. ASSUME NEW S, NEW s \in Seq(S), NEW k \in DOMAIN s PROVE s[k] \in S
    BY <1>1
  <1>2. trades[i] \in [id : TradeIds, book : Nat]
    BY <1>1 DEF IInv, TradesOK
  <1> QED
    BY <1>2 DEF TradeIds

LEMMA IntentIsFiltered ==
    ASSUME NEW bar, DecisionOn(bar).intent # None
    PROVE  is_bar_allowed(bar.close_time)
  BY DEF DecisionOn, evaluate_bar, SafeStopDecision, Decision

LEMMA SaveBotStateFiltered ==
    ASSUME IInv, FilteredInv, SaveBotState
    PROVE  FilteredInv'
  <1>1. /\ Commit("save_bot_state")
        /\ trades' = IF work.filled = None THEN trades
                     ELSE Append(trades, [id |-> work.filled, book |-> book])
    BY DEF SaveBotState
  <1>2. work'.filled = work.filled
    BY <1>1, CommitIs
  <1>3. CASE work.filled = None
    BY <1>1, <1>2, <1>3 DEF FilteredInv
  <1>4. CASE work.filled # None
    <2>1. /\ DOMAIN trades' = DOMAIN trades \cup {Len(trades) + 1}
          /\ trades'[Len(trades) + 1].id = work.filled
          /\ \A i \in DOMAIN trades : trades'[i] = trades[i]
      BY <1>1, <1>4 DEF IInv, TradesOK
    <2>2. \A i \in DOMAIN trades : is_bar_allowed(trades'[i].id[2])
      BY <2>1 DEF FilteredInv
    <2>3. is_bar_allowed(trades'[Len(trades) + 1].id[2])
      BY <1>4, <2>1 DEF FilteredInv
    <2> QED
      BY <1>2, <2>1, <2>2, <2>3 DEF FilteredInv
  <1> QED
    BY <1>3, <1>4

LEMMA NextFiltered == IInv /\ FilteredInv /\ [Next]_vars => FilteredInv'
  <1> SUFFICES ASSUME IInv, FilteredInv, [Next]_vars PROVE FilteredInv'
    OBVIOUS
  <1>1. ASSUME UNCHANGED trades, work' = work \/ work'.filled \in {None, work.filled}
        PROVE  FilteredInv'
    BY <1>1 DEF FilteredInv
  <1>2. ASSUME NEW policy \in StartPolicies, StartWithoutBackfill(policy) PROVE FilteredInv'
    BY <1>1, <1>2 DEF StartWithoutBackfill
  <1>3. ASSUME NEW policy \in StartPolicies, NEW candle \in Candles,
               NEW from \in {candle.close_time - 1, candle.close_time} \cap Bars,
               Start(policy, from, candle)
        PROVE  FilteredInv'
    BY <1>1, <1>3 DEF Start, Begin
  <1>4. ASSUME NEW u \in Candles, BufferUpdate(u) \/ StrategySafeStop(u) \/ NoIntent(u)
        PROVE  FilteredInv'
    BY <1>1, <1>4 DEF BufferUpdate, StrategySafeStop, NoIntent, Closes, Begin, history
  <1>5. ASSUME NEW u \in Candles, ExecuteIntent(u) PROVE FilteredInv'
    <2> DEFINE bar == ClosedBy(u)
               intent == DecisionOn(bar).intent
    <2>1. /\ Closes(u) /\ intent # None /\ UNCHANGED trades
          /\ work'.filled \in {None, intent.intent_id}
      BY <1>5 DEF ExecuteIntent, Closes, Begin, history
    <2>2. is_bar_allowed(bar.close_time)
      BY <2>1, IntentIsFiltered
    <2>3. intent.intent_id[2] = bar.close_time
      BY <2>1, DecisionIsAt DEF DecidedAt
    <2> HIDE DEF bar, intent
    <2> QED
      BY <2>1, <2>2, <2>3 DEF FilteredInv
  <1>6. CASE SaveBotState
    BY <1>6, SaveBotStateFiltered
  <1>7. CASE SaveOrder \/ SaveFill \/ SaveEvent \/ SaveSafeStopReason
    <2>1. /\ UNCHANGED trades
          /\ \E call \in {"save_order", "save_fill", "save_event", "save_safe_stop_reason"} :
                Commit(call)
      BY <1>7 DEF SaveOrder, SaveFill, SaveEvent, SaveSafeStopReason, history
    <2> QED
      BY <1>1, <2>1, CommitIs
  <1>8. CASE Return \/ SaveOrderFails \/ Crash
    BY <1>1, <1>8 DEF Return, SaveOrderFails, IntegrityError, Crash, Die, NoWork, history
  <1>9. CASE UNCHANGED vars
    BY <1>1, <1>9 DEF vars, history
  <1> QED
    BY <1>2, <1>3, <1>4, <1>5, <1>6, <1>7, <1>8, <1>9 DEF Next, Write

\* When the days have an even number of bars, or the anchor is fixed, no two trades are on
\* adjacent bars, whatever dies, is late or is reset between them (process_candle_update
\* asks is_bar_allowed of the bar that closed, and evaluate_bar obeys it).
THEOREM TradesAreSpaced == ASSUME EvenDays PROVE Spec => []TradesSkipABar
  <1>1. Init => FilteredInv
    BY DEF Init, FilteredInv, NoWork
  <1>2. IInv /\ FilteredInv => TradesSkipABar
    <2> SUFFICES ASSUME IInv, FilteredInv, NEW i \in DOMAIN trades, NEW j \in DOMAIN trades,
                        trades[j].id[2] = trades[i].id[2] + 1
                 PROVE  FALSE
      BY DEF TradesSkipABar
    <2>1. trades[i].id[2] \in Int
      BY TradeTimes
    <2>2. is_bar_allowed(trades[i].id[2]) /\ is_bar_allowed(trades[i].id[2] + 1)
      BY DEF FilteredInv
    <2> QED
      BY <2>1, <2>2, EveryOtherBar
  <1> QED
    BY <1>1, <1>2, InitIInv, NextIInv, NextFiltered, PTL DEF Spec

-----------------------------------------------------------------------------
(* What it is for *)

\* Through every bar, death and restart, the runtime state, the state being written and
\* the saved one are states that the strategy and the risk manager accept: the next bar
\* is never refused for an inconsistent book (evaluate_bar, execute_intent, save_bot_state
\* and load_bot_state; process_candle_update hands the state from one to the next).
THEOREM StatesAreAccepted == Spec => []TypeOK
  <1>1. IInv /\ StopInv /\ StatesInv => TypeOK
    <2> SUFFICES ASSUME IInv, StopInv, StatesInv PROVE TypeOK
      OBVIOUS
    <2>1. ASSUME NEW st, Kept(st) PROVE st \in BotState(Keys) /\ ~InvalidState(st)
      BY <2>1, BookedIsValid DEF Kept, Booked, Bookable
    <2>2. FilledKeys \subseteq TradeKeys
      BY DEF IInv, RecordsOK, AuditChain, StatesInv, ValuesOK
    <2>3. Kept(runtime) /\ Kept(work.state) /\ (HasSavedState => Kept(SavedState))
      BY DEF StatesInv, RuntimeOK, WrittenOK, TablesOK
    <2>4. stopped_books \subseteq 0 .. book
      BY DEF StopInv
    <2> QED
      BY <2>1, <2>2, <2>3, <2>4 DEF TypeOK, StatesInv, ValuesOK
  <1> QED
    BY <1>1, InitIInv, NextIInv, InitStopInv, NextStopInv, InitStates, NextStates, PTL DEF Spec

\* Whenever the process waits for an update, a restart under `restore` would go on with
\* the very state it has in memory, the safe stop flag aside, unless it has not saved
\* anything yet (save_bot_state as the first call of process_candle_update, and the
\* assignment of runtime_state only after the last).
THEOREM RestartGoesOn == Spec => []IdleStateIsSaved
  <1>1. StatesInv => IdleStateIsSaved
    BY DEF StatesInv, RuntimeOK, SavedAs, IdleStateIsSaved
  <1> QED
    BY <1>1, InitIInv, NextIInv, InitStates, NextStates, PTL DEF Spec

\* However often the process dies and whatever updates are repeated or late, a book
\* never trades a bar twice, nor an earlier bar after a later one (the stale guard of
\* process_candle_update, the warmup and the restored last_candle_time together).
THEOREM BooksTradeForward == Spec => []TradesInOrder
  <1>1. IInv => TradesInOrder
    BY DEF IInv, TradesOK
  <1> QED
    BY <1>1, InitIInv, NextIInv, PTL DEF Spec

\* Wherever the writes of a bar are cut off, no event is without its fill, no fill without
\* its order, and no order without its trade (process_candle_update, the order of its
\* storage calls).
THEOREM AuditTrailIsClosed == Spec => []AuditChain
  <1>1. IInv => AuditChain
    BY DEF IInv, RecordsOK
  <1> QED
    BY <1>1, InitIInv, NextIInv, PTL DEF Spec

\* No fill is recorded twice, though the books of two resets may trade the same bar: the
\* second of them fails on its order (client_order_id is UNIQUE).
THEOREM FillsAreRecordedOnce == Spec => []FillsOnce
  <1>1. IInv => FillsOnce
    BY DEF IInv, RecordsOK
  <1> QED
    BY <1>1, InitIInv, NextIInv, PTL DEF Spec

\* A death costs the records of one trade at most, the one being written: of all others
\* the event is in the database (process_candle_update, whose last storage call it is).
THEOREM DeathCostsOneTrade == Spec => []DeathLosesOneTrade
  <1>1. IInv /\ LossInv => DeathLosesOneTrade
    <2> SUFFICES ASSUME IInv, LossInv PROVE DeathLosesOneTrade
      OBVIOUS
    <2>1. Halfway => pc = "writing"
      BY DEF Halfway, IInv, WorkOK, NoWork
    <2>2. Cardinality(Unlogged) <= deaths + (IF pc = "writing" THEN 1 ELSE 0)
      BY <2>1, UnloggedIsFinite DEF LossInv
    <2> QED
      BY <2>2 DEF DeathLosesOneTrade, Unlogged
  <1> QED
    BY <1>1, InitIInv, NextIInv, InitLoss, NextLoss, PTL DEF Spec

\* Once the strategy's safe stop is on record, the book is never traded again and the
\* database keeps the flag, whatever bars, deaths and restarts follow, until a reset
\* (process_candle_update, RiskManager.check_intent, serialize and deserialize).
THEOREM SafeStopIsKept == Spec => SafeStopHolds
  <1>1. ASSUME IInv, StopInv, Next, StopInv', book \in stopped_books, book' = book
        PROVE  trades' = trades /\ (SafeStopSaved => SafeStopSaved')
    <2>1. trades' = trades
      <3>1. CASE SaveBotState
        <4>1. pc = "writing"
          BY <3>1 DEF SaveBotState, Commit
        <4>2. work.filled = None
          BY <1>1, <4>1 DEF StopInv, StopOnRecord
        <4> QED
          BY <3>1, <4>2 DEF SaveBotState
      <3>2. CASE ~SaveBotState
        BY <1>1, <3>2 DEF Next, Write, StartWithoutBackfill, Start, BufferUpdate,
                          StrategySafeStop, NoIntent, ExecuteIntent, Closes, SaveOrder,
                          SaveOrderFails, IntegrityError, SaveFill, SaveEvent,
                          SaveSafeStopReason, Return, Crash, Die, history
      <3> QED
        BY <3>1, <3>2
    <2>2. book' \in stopped_books'
      BY <1>1 DEF Next, Write, StartWithoutBackfill, Start, BufferUpdate,
                  StrategySafeStop, NoIntent, ExecuteIntent, Closes, SaveBotState, SaveOrder,
                  SaveOrderFails, IntegrityError, SaveFill, SaveEvent,
                  SaveSafeStopReason, Return, Crash, Die, history
    <2>3. HasSavedState' /\ Marked(db'.tables.bot_state[Bot])
      BY <1>1, <2>2 DEF StopInv, StopOnRecord
    <2>4. SafeStopSaved'
      <3>1. HasRow(db'.tables, Bot)
        BY <2>3 DEF HasSavedState
      <3>2. load_bot_state(db'.tables, Bot).safe_stop_active = TRUE
        BY <2>3, <3>1, TablesKeepStop DEF Marked
      <3> QED
        BY <2>3, <3>2 DEF SafeStopSaved, SavedState
    <2> QED
      BY <2>1, <2>4
  <1>2. IInv /\ StopInv /\ StopInv' /\ [Next]_vars =>
            [ (book \in stopped_books /\ book' = book)
                  => trades' = trades /\ (SafeStopSaved => SafeStopSaved') ]_vars
    BY <1>1
  <1>3. Init => IInv /\ StopInv
    BY InitIInv, InitStopInv
  <1> QED
    BY <1>2, <1>3, NextIInv, NextStopInv, PTL DEF Spec, SafeStopHolds
=============================================================================
