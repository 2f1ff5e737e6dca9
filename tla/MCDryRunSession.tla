--------------------------- MODULE MCDryRunSession ---------------------------
(***************************************************************************)
(* Three bars and four fills, with limits low enough that each of them is  *)
(* met: three orders per window, two DCA and one sub-cover per bar.  A     *)
(* quantity of 3 is rounded to 2, one of 1 to nothing, an open of 2 at a   *)
(* close of 10 misses min_notional, and none opens at a close of 0.        *)
(***************************************************************************)
EXTENDS DryRunSession, TLC

CONSTANT Malformed

MCSettings ==
    [first_sell_qty_coin |-> 2, use_equity_pct_base |-> FALSE, base_notional |-> 0,
     tp_percent |-> 11, callback_percent |-> 2, sub_sell_tp_percent |-> 13,
     margin_call_limit |-> 6, block_dca_on_tp_touch |-> TRUE,
     require_close_below_full_tp |-> TRUE,
     touch_mode |-> "wick", subcover_confirm_mode |-> "subcover_tp",
     max_orders_per_3min |-> 3, max_dca_per_bar |-> 2, max_subcover_per_bar |-> 1,
     invalid_order_policy |-> "adjust"]

\* An entry without precisions, as a filter and under the older keys.
Entry ==
    [symbol |-> "BTC-USDT", fields |-> ("tickSize" :> 1 @@ "size" :> 2 @@ "tradeMinUSDT" :> 25),
     filters |-> <<[filterType |-> "LOT_SIZE", fields |-> ("stepSize" :> 4 @@ "minQty" :> 2)]>>]

Metadata(digits) == INSTANCE InstrumentMetadata WITH Digits <- digits

MCConstraints ==
    [tick_size |-> 1, lot_step |-> 2, min_qty |-> 2, min_notional |-> 25,
     price_quantum |-> 1, qty_quantum |-> 1]

\* Precisions that the exchange does not give follow from the step and the tick, so
\* rounding to them changes nothing; one that it gives, and that is coarser, wins.  A
\* tick that is not given follows from the price precision.  What is missing or malformed,
\* although a filter would have it, is an error.
With(key, value) == [Entry EXCEPT !.fields = (key :> value) @@ @]
Without(key) == [Entry EXCEPT !.fields = [k \in DOMAIN @ \ {key} |-> @[k]]]
ConstraintsOf(raw) == Metadata(2)!metadata_to_instrument_constraints(raw)

ASSUME MetadataFallbacks ==
    /\ Metadata(0)!fetch_instrument_constraints(<<Entry>>, "BTC-USDT") = MCConstraints
    /\ \A step \in 1 .. 100, x \in 0 .. 400 :
          LET quantum == ConstraintsOf(With("size", step)).qty_quantum IN
          quantum \in {1, 10, 100} /\ QuantizeDown(x, step, quantum) = RoundDown(x, step)
    /\ QuantizeDown(39, 5, ConstraintsOf(With("quantityPrecision", 1)).qty_quantum) = 30
    /\ LET raw == [Without("tickSize") EXCEPT !.fields = ("pricePrecision" :> 1) @@ @] IN
       ConstraintsOf(raw).tick_size = 10 /\ ConstraintsOf(raw).price_quantum = 10
    /\ ConstraintsOf(Without("size")).lot_step = 4
    /\ ConstraintsOf(Without("tickSize")) = None
    /\ ConstraintsOf(With("size", Malformed)) = None
    /\ Metadata(2)!fetch_instrument_constraints(<<Entry>>, "ETH-USDT") = None
=============================================================================
