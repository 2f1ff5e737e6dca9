--------------------------- MODULE DryRunExecutor ---------------------------
(***************************************************************************)
(* One intent on its way to a virtual fill:                                *)
(*   bot/engine/risk_manager.py         check_intent, check_normalized_order *)
(*   bot/utils/rounding.py              OrderNormalizer                    *)
(*   bot/execution/dry_run_executor.py  execute_intent                     *)
(* Pure.  In dry_run the order manager takes the order from NEW to FILLED  *)
(* within execute_intent, and none of its refusals can occur on the way    *)
(* (OrderManagerProofs.tla, DryRunOrderIsFilled): only filled ones appear.  *)
(***************************************************************************)
EXTENDS StrategyEngine

CONSTANTS Constraints,      \* InstrumentConstraints
          WindowBars        \* three minutes, in bars of the timeframe

ASSUME ConstraintsAssumption ==
    Constraints \in [tick_size : Nat \ {0}, lot_step : Nat \ {0}, min_qty : Nat,
                     min_notional : Nat, price_quantum : Nat \ {0}, qty_quantum : Nat \ {0}]

ASSUME WindowAssumption == WindowBars \in Nat

-----------------------------------------------------------------------------
(* RiskManager.check_intent: the reason of the refusal, or "ok" *)

Bug_WindowExcludesEdge(st, now) ==
    LET orders == st.orders_last_3min
    IN  Cardinality({i \in DOMAIN orders : orders[i] > now - WindowBars})
RecentOrders(st, now) ==
    LET orders == st.orders_last_3min
    IN  Cardinality({i \in DOMAIN orders : orders[i] >= now - WindowBars})

Bug_StopIgnored(st) == FALSE
Stopped(st) == st.safe_stop_active

DuplicateIntent(intent, seen) == intent.intent_id \in seen

DcaCapReached(st, intent) ==
    intent.intent_type = "DCA_SHORT" /\ st.fills_this_bar >= Settings.max_dca_per_bar

Bug_SubcoverCapIgnored(st, intent) == FALSE
SubcoverCapReached(st, intent) ==
    intent.intent_type = "SUB_COVER" /\ st.subcovers_this_bar >= Settings.max_subcover_per_bar

check_intent(st, intent, now, seen) ==
    IF InvalidState(st) THEN "invalid_state"
    ELSE IF Stopped(st) THEN "safe_stop_active"
    ELSE IF DuplicateIntent(intent, seen) THEN "duplicate"
    ELSE IF RecentOrders(st, now) >= Settings.max_orders_per_3min THEN "rate_limit"
    ELSE IF DcaCapReached(st, intent) THEN "dca_limit"
    ELSE IF SubcoverCapReached(st, intent) THEN "subcover_limit"
    ELSE "ok"

-----------------------------------------------------------------------------
(* OrderNormalizer.normalize_order: never up *)

RoundDown(x, step) == x - (x % step)

\* _quantize_down: to the step, and then to the decimals of the precision
QuantizeDown(x, step, quantum) == RoundDown(RoundDown(x, step), quantum)

normalize_price_to_tick(price) ==
    QuantizeDown(price, Constraints.tick_size, Constraints.price_quantum)

normalize_qty_to_step(qty) == QuantizeDown(qty, Constraints.lot_step, Constraints.qty_quantum)

check_minimum_requirements(price, qty) ==
    IF qty <= 0 THEN "zero_qty"
    ELSE IF qty < Constraints.min_qty THEN "min_qty"
    ELSE IF price # None /\ price * qty < Constraints.min_notional THEN "min_notional"
    ELSE "ok"

\* covers are normalized without a price, and so without a notional
normalize_order(intent) ==
    LET qty == normalize_qty_to_step(intent.qty)
        price == IF intent.intent_type \in CoverTypes THEN None
                 ELSE normalize_price_to_tick(intent.price)
    IN  [qty |-> qty, price |-> price,
         reason |-> IF intent.intent_type \in OpenTypes /\ intent.price <= 0 THEN "price"
                    ELSE check_minimum_requirements(price, qty)]

\* _can_execute_local_open_below_min_notional
VirtualOpenAllowed(intent, normalized) ==
    /\ intent.intent_type \in OpenTypes
    /\ normalized.qty >= Constraints.min_qty
    /\ normalized.reason = "min_notional"

-----------------------------------------------------------------------------
(* DryRunExecutor *)

\* _apply_fill_to_state.  add_short_lot is called without a next level.
ApplyFill(st, intent, qty, candle) ==
    LET now == candle.close_time
        Stamp(s) == [s EXCEPT !.orders_last_3min = Append(st.orders_last_3min, now),
                              !.last_candle_time = now]
    IN  IF intent.intent_type \in OpenTypes
        THEN [Stamp(add_short_lot(st, intent.intent_id, qty, candle.close, None)) EXCEPT
                 !.fills_this_bar = st.fills_this_bar + 1, !.reset_cycle = FALSE]
        ELSE IF intent.intent_type = "SUB_COVER"
        THEN [Stamp(close_last_lot(st, qty, candle.close)) EXCEPT
                 !.subcovers_this_bar = st.subcovers_this_bar + 1]
        ELSE Stamp(reset_cycle(close_all(st, candle.close)))

\* ExecutionResult (base_executor.py).  A refusal, by the risk checks or by those of the
\* normalized order, hands back the state it was given.
Blocked(st, safe_stop, why) ==
    [updated_state |-> st, filled_qty |-> 0, safe_stop_required |-> safe_stop, reason |-> why]

Filled(st, qty) ==
    [updated_state |-> st, filled_qty |-> qty, safe_stop_required |-> FALSE, reason |-> "ok"]

\* the quantity of the fill, and the one the position is changed by
FilledQty(intent) == normalize_order(intent).qty
Bug_BooksRequested(intent) == intent.qty
BookedQty(intent) == FilledQty(intent)

execute_intent(intent, st, candle, seen) ==
    LET risk == check_intent(st, intent, candle.close_time, seen)
        normalized == normalize_order(intent)
    IN  IF risk # "ok" THEN Blocked(st, risk = "invalid_state", risk)
        ELSE IF normalized.reason # "ok" /\ ~VirtualOpenAllowed(intent, normalized)
        THEN Blocked(st, Settings.invalid_order_policy = "safe_stop", normalized.reason)
        ELSE Filled(ApplyFill(st, intent, BookedQty(intent), candle), FilledQty(intent))
=============================================================================
