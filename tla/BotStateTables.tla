--------------------------- MODULE BotStateTables ---------------------------
(***************************************************************************)
(* bot/storage/storage.py and schema.py: a BotState in the four tables of  *)
(* a SQLite database, which several bots share.  A bot is the (mode,       *)
(* symbol, timeframe) that its rows carry.                                 *)
(*                                                                         *)
(* save_bot_state is one transaction.  load_bot_state is four SELECTs with *)
(* no transaction around them, so each of them is an operator of its own.  *)
(***************************************************************************)
EXTENDS Position

CONSTANT Bots

ASSUME CountersAssumption == None \notin [fills_this_bar : Int, subcovers_this_bar : Int]

\* bot_state has rows of the bots that have saved, and of no others
NoTables ==
    [bot_state |-> [b \in {} |-> CleanState], lots |-> {},
     rolling_window_entries |-> [b \in Bots |-> <<>>],
     bar_counters |-> [b \in Bots |-> None]]

Scalars ==
    DOMAIN CleanState \ {"lots", "orders_last_3min", "fills_this_bar", "subcovers_this_bar"}

BotStateRow(st) == [f \in Scalars |-> st[f]]

\* A bot's counters have no row before its first bar.
Bug_NoCounters(st) == None
CountersRow(st) ==
    IF st.last_candle_time = None THEN None
    ELSE [fills_this_bar |-> st.fills_this_bar, subcovers_this_bar |-> st.subcovers_this_bar]

Bug_EveryLot(t, b) == {}
OtherLots(t, b) == {r \in t.lots : r.bot # b}

\* lot_id is the PRIMARY KEY of lots, for all bots together
LotIdsFree(t, b, st) == {l.id : l \in st.lots} \cap {r.lot.id : r \in OtherLots(t, b)} = {}

save_bot_state(t, b, st) ==
    [bot_state |-> [a \in DOMAIN t.bot_state \cup {b} |->
                       IF a = b THEN BotStateRow(st) ELSE t.bot_state[a]],
     lots |-> OtherLots(t, b) \cup {[bot |-> b, lot |-> l] : l \in st.lots},
     rolling_window_entries |-> [t.rolling_window_entries EXCEPT ![b] = st.orders_last_3min],
     bar_counters |-> [t.bar_counters EXCEPT ![b] = CountersRow(st)]]

HasRow(t, b) == b \in DOMAIN t.bot_state

\* the UPDATE of save_safe_stop_reason, which finds no row before the first save
MarkSafeStop(t, b) ==
    IF HasRow(t, b) THEN [t EXCEPT !.bot_state[b].safe_stop_active = TRUE] ELSE t

-----------------------------------------------------------------------------
Bug_AnyBotsLots(t, b) == {r.lot : r \in t.lots}
list_open_lots(t, b) == {r.lot : r \in {r \in t.lots : r.bot = b}}

\* ORDER BY created_at: the time in a place is one that enough others are not later
\* than, and not enough are earlier than
InOrder(times) ==
    LET Earlier(v) == {j \in DOMAIN times : times[j] < v}
        NotLater(v) == {j \in DOMAIN times : times[j] <= v}
    IN  [i \in DOMAIN times |->
            CHOOSE v \in {times[j] : j \in DOMAIN times} :
                i \in Cardinality(Earlier(v)) + 1 .. Cardinality(NotLater(v))]

RollingWindow(t, b) == InOrder(t.rolling_window_entries[b])

BarCounters(t, b) ==
    IF t.bar_counters[b] = None THEN [fills_this_bar |-> 0, subcovers_this_bar |-> 0]
    ELSE t.bar_counters[b]

deserialize_bot_state(row, lots, orders, counters) ==
    [f \in DOMAIN CleanState |->
        IF f \in Scalars THEN row[f]
        ELSE IF f = "lots" THEN lots
        ELSE IF f = "orders_last_3min" THEN orders
        ELSE counters[f]]

\* with nothing saved between its SELECTs
load_bot_state(t, b) ==
    IF HasRow(t, b)
    THEN deserialize_bot_state(t.bot_state[b], list_open_lots(t, b), RollingWindow(t, b),
                               BarCounters(t, b))
    ELSE None

-----------------------------------------------------------------------------
\* What the tables can give back: the order of the window comes from the times in it, and
\* before the first bar there is no row for the counters.
Chronological(times) == \A i, j \in DOMAIN times : i < j => times[i] <= times[j]

Storable(st) ==
    /\ Chronological(st.orders_last_3min)
    /\ st.last_candle_time = None => st.fills_this_bar = 0 /\ st.subcovers_this_bar = 0
=============================================================================
