--------------------------- MODULE MCOrchestrator ---------------------------
(***************************************************************************)
(* Percent-of-equity sizes: 4 units at a close of 10000; 2 at 20000, which *)
(* misses min_qty, so that the executor asks for a safe stop; and none at  *)
(* a close of 0, which the parser of the websocket lets through, so that   *)
(* the strategy does.  With a short open, a close of 0 is its TP.          *)
(***************************************************************************)
EXTENDS Orchestrator, SequencesExt

MCSettings ==
    [first_sell_qty_coin |-> 0, use_equity_pct_base |-> TRUE, base_notional |-> 40000,
     tp_percent |-> 11, callback_percent |-> 2, sub_sell_tp_percent |-> 13,
     margin_call_limit |-> 6, block_dca_on_tp_touch |-> TRUE,
     require_close_below_full_tp |-> TRUE,
     touch_mode |-> "wick", subcover_confirm_mode |-> "subcover_tp",
     max_orders_per_3min |-> 14, max_dca_per_bar |-> 6, max_subcover_per_bar |-> 10,
     invalid_order_policy |-> "safe_stop"]

MCConstraints ==
    [tick_size |-> 1, lot_step |-> 2, min_qty |-> 4, min_notional |-> 5,
     price_quantum |-> 1, qty_quantum |-> 1]

Flat(p) == [open |-> p, high |-> p, low |-> p, close |-> p]

MCShapes == {Flat(10000), Flat(20000), Flat(0)}

\* Warmed is what CandleUpdateBuffer makes of a backfill.
ASSUME WarmedIsReplay ==
    \A from, to \in Bars, s \in MCShapes :
        from <= to =>
            Warmed(from, CandleOf(to, s)) =
                FoldLeft(LAMBDA b, c : process_update(b, c).buffer, EmptyBuffer,
                         [k \in 1 .. to - from + 1 |-> CandleOf(from + k - 1, s)])
=============================================================================
