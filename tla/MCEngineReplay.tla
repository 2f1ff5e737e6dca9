--------------------------- MODULE MCEngineReplay ---------------------------
(***************************************************************************)
(* The defaults of bot/config.py, with a call limit low enough to be met   *)
(* and high enough for sub-covers (num_sells > 5), and a SUB_SELL_TP below *)
(* the TP, so that sub-covers can take every lot of a cycle.  Bars are     *)
(* around 10000: the TP of a lot at 10000 is 9890, its sub-cover TP 9910,  *)
(* the second level 10030, the later ones at most 10080.                   *)
(***************************************************************************)
EXTENDS EngineReplay, TLC

MCSettings ==
    [first_sell_qty_coin |-> 2, use_equity_pct_base |-> FALSE, base_notional |-> 0,
     tp_percent |-> 11, callback_percent |-> 2, sub_sell_tp_percent |-> 9,
     margin_call_limit |-> 6, block_dca_on_tp_touch |-> TRUE,
     require_close_below_full_tp |-> TRUE,
     touch_mode |-> "wick", subcover_confirm_mode |-> "subcover_tp",
     max_orders_per_3min |-> 14, max_dca_per_bar |-> 6, max_subcover_per_bar |-> 10,
     invalid_order_policy |-> "adjust"]

Ohlc(o, h, l, c) == [open |-> o, high |-> h, low |-> l, close |-> c]

MCShapes ==
    {Ohlc(10000, 10120, 10000, 10000),   \* spike: touches every level, closes low
     Ohlc(10000, 10120, 10000, 10120),   \* rally: touches every level, closes high
     Ohlc(10000, 10000,  9885,  9900),   \* dip: touches the TP of 10000, closes above it
     Ohlc( 9895, 10120,  9895,  9900),   \* hover: no touch, no rebound, but a spike
     Ohlc(10000, 10000,  9850,  9850)}   \* drop: closes below the TP of 10000
=============================================================================
