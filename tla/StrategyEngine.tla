--------------------------- MODULE StrategyEngine ---------------------------
(***************************************************************************)
(* bot/engine/strategy_engine.py: evaluate_bar decides, from the state and *)
(* one closed bar, on at most one order intent, and returns the state that *)
(* would hold if that intent were filled at the close in full.  Pure.      *)
(*                                                                         *)
(* The percentages are tenths of a percent, so a comparison of floats in   *)
(* the code is a comparison of integers here.                              *)
(***************************************************************************)
EXTENDS Position

CONSTANT Settings   \* bot/config.py, Settings: the fields the strategy and the limits read

ASSUME SettingsAssumption ==
    Settings \in
        [first_sell_qty_coin : Nat, use_equity_pct_base : BOOLEAN,
         base_notional : Nat,         \* equity_for_sizing_usdt * base_order_pct_eq / 100
         tp_percent : Nat, callback_percent : Nat, sub_sell_tp_percent : Nat,
         margin_call_limit : Nat, block_dca_on_tp_touch : BOOLEAN,
         require_close_below_full_tp : BOOLEAN,
         touch_mode : {"wick", "body", "close"},
         subcover_confirm_mode : {"off", "breakeven", "subcover_tp"},
         max_orders_per_3min : Nat, max_dca_per_bar : Nat, max_subcover_per_bar : Nat,
         invalid_order_policy : {"adjust", "skip", "safe_stop"}]

OpenTypes == {"FIRST_SHORT", "DCA_SHORT"}
CoverTypes == {"FULL_COVER", "SUB_COVER", "TRAILING_TP"}

\* _make_intent.  The key of an intent is also the id of its lot, the client
\* order id of its order and the id of its event.
IntentKey(type, candle) == <<type, candle.close_time>>

Intent(type, candle, qty) ==
    [intent_id |-> IntentKey(type, candle), intent_type |-> type, qty |-> qty,
     price |-> candle.close]

\* StrategyDecision
Decision(st, intent) ==
    [updated_state |-> st, intent |-> intent, safe_stop_required |-> FALSE]

Bug_StopNotMarked(st) ==
    [updated_state |-> st, intent |-> None, safe_stop_required |-> TRUE]
SafeStopDecision(st) ==
    [updated_state |-> [st EXCEPT !.safe_stop_active = TRUE], intent |-> None,
     safe_stop_required |-> TRUE]

-----------------------------------------------------------------------------
(* Prices *)

LowerOf(a, b) == IF a <= b THEN a ELSE b
HigherOf(a, b) == IF a >= b THEN a ELSE b

DownsideReference(c) ==
    CASE Settings.touch_mode = "wick"  -> c.low
      [] Settings.touch_mode = "body"  -> LowerOf(c.open, c.close)
      [] Settings.touch_mode = "close" -> c.close

UpsideReference(c) ==
    CASE Settings.touch_mode = "wick"  -> c.high
      [] Settings.touch_mode = "body"  -> HigherOf(c.open, c.close)
      [] Settings.touch_mode = "close" -> c.close

\* price <= avg_price * (1 - tp_percent / 100)
BelowFullTp(st, price) ==
    price * st.pos_size_abs * PCT <= st.pos_proceeds_usdt * (PCT - Settings.tp_percent)

BelowSubcoverTp(lot, price) ==
    price * PCT <= lot.entry_price * (PCT - Settings.sub_sell_tp_percent)

\* the rise, in tenths of a percent, to the level of the n-th sell
RisePercent(n) == CASE n = 2 -> 3 [] n = 3 -> 4 [] n = 4 -> 6 [] OTHER -> 8

NextLevelPrice(last_fill, n) == last_fill * (PCT + RisePercent(n))

-----------------------------------------------------------------------------
(* Quantities, rounded down to the unit, but a positive one never to zero *)

BaseOrderQty(close) ==
    IF ~Settings.use_equity_pct_base THEN Settings.first_sell_qty_coin
    ELSE IF close <= 0 \/ Settings.base_notional = 0 THEN 0
    ELSE HigherOf(1, Settings.base_notional \div close)

\* twice the multiplier of the n-th sell
DcaMultiplier2(n) == CASE n = 2 -> 3 [] n = 4 -> 4 [] n = 5 -> 7 [] OTHER -> 2

DcaQty(st, close, n) ==
    LET base == IF st.cycle_base_qty > 0 THEN st.cycle_base_qty ELSE BaseOrderQty(close)
    IN  (base * DcaMultiplier2(n)) \div 2

-----------------------------------------------------------------------------
(* The rules, in the order evaluate_bar tries them *)

FirstShort(st, c) ==
    LET qty == BaseOrderQty(c.close) IN
    IF qty <= 0 THEN SafeStopDecision(st)
    ELSE Decision(add_short_lot(st, IntentKey("FIRST_SHORT", c), qty, c.close,
                                NextLevelPrice(c.close, 2)),
                  Intent("FIRST_SHORT", c, qty))

\* a full exit from the state tr, which may have a later trailing_min than st
Exit(st, tr, c, type) ==
    Decision(reset_cycle(close_all(tr, c.close)), Intent(type, c, st.pos_size_abs))

TpTouch(st, c) == BelowFullTp(st, DownsideReference(c))

Bug_TouchConfirms(st, c) == TpTouch(st, c)
TpConfirmed(st, c) ==
    TpTouch(st, c) /\ (Settings.require_close_below_full_tp => BelowFullTp(st, c.close))

BlockedByTpTouch(st, c) ==
    TpTouch(st, c) /\ Settings.block_dca_on_tp_touch /\ ~TpConfirmed(st, c)

ActivatesTrailing(st, c) ==
    TpTouch(st, c) /\ ~st.trailing_active /\ Settings.callback_percent > 0

Bug_TrailingFollowsPrice(st, c) ==
    IF TpTouch(st, c) \/ st.trailing_active
    THEN [st EXCEPT !.trailing_active = TRUE, !.trailing_min = DownsideReference(c)]
    ELSE st
UpdateTrailing(st, c) ==
    IF ActivatesTrailing(st, c)
    THEN [st EXCEPT !.trailing_active = TRUE, !.trailing_min = DownsideReference(c)]
    ELSE IF st.trailing_active
    THEN [st EXCEPT !.trailing_min = LowerOf(@, DownsideReference(c))]
    ELSE st

\* tr is the state after UpdateTrailing(st, c)
TrailingExit(st, tr, c) ==
    /\ tr.trailing_active
    /\ ~ActivatesTrailing(st, c)
    /\ c.close * PCT >= tr.trailing_min * (PCT + Settings.callback_percent)

SubcoverDue(st, c) ==
    /\ st.num_sells > 5
    /\ st.lots # {}
    /\ LET last == get_last_lot(st) IN
       /\ BelowSubcoverTp(last, DownsideReference(c))
       /\ Settings.subcover_confirm_mode = "breakeven" => c.close <= last.entry_price
       /\ Settings.subcover_confirm_mode = "subcover_tp" => BelowSubcoverTp(last, c.close)

Subcover(st, c) ==
    LET qty == get_last_lot(st).qty
    IN  Decision(close_last_lot(st, qty, c.close), Intent("SUB_COVER", c, qty))

Bug_NoCallLimit(st, c) ==
    st.next_level_price # None /\ UpsideReference(c) * PCT >= st.next_level_price
DcaDue(st, c) ==
    /\ st.num_sells < Settings.margin_call_limit
    /\ st.next_level_price # None
    /\ UpsideReference(c) * PCT >= st.next_level_price

Dca(st, c) ==
    LET n == st.num_sells + 1
        qty == DcaQty(st, c.close, n)
    IN  IF qty <= 0 THEN SafeStopDecision(st)
        ELSE Decision(add_short_lot(st, IntentKey("DCA_SHORT", c), qty, c.close,
                                    NextLevelPrice(c.close, n + 1)),
                      Intent("DCA_SHORT", c, qty))

ManagePosition(st, c) ==
    LET tr == UpdateTrailing(st, c) IN
    IF TpConfirmed(st, c) THEN Exit(st, st, c, "FULL_COVER")
    ELSE IF TrailingExit(st, tr, c) THEN Exit(st, tr, c, "TRAILING_TP")
    ELSE IF SubcoverDue(tr, c) THEN Subcover(tr, c)
    ELSE IF ~BlockedByTpTouch(st, c) /\ DcaDue(tr, c) THEN Dca(tr, c)
    ELSE Decision(tr, None)

evaluate_bar(state, c, even_bar_allowed) ==
    LET st == [state EXCEPT !.last_candle_time = c.close_time] IN
    IF InvalidState(st) THEN SafeStopDecision(st)
    ELSE IF ~even_bar_allowed THEN Decision(st, None)
    ELSE IF st.pos_size_abs = 0 \/ st.lots = {} THEN FirstShort(st, c)
    ELSE ManagePosition(st, c)
=============================================================================
