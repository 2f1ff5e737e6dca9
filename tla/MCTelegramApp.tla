---------------------------- MODULE MCTelegramApp ----------------------------
(***************************************************************************)
(* Two bots that may save a short opened on bar 1, or the same closed on   *)
(* bar 2: their lots have the same lot_id.  The environments: a .env file  *)
(* that restores; the same with LIVE_START_POLICY exported blank, which    *)
(* resets; no token; an anchor no launch can give; sync_only; a limit no   *)
(* launch takes; a timestamp that is not one, under the anchor that uses   *)
(* it, which no launch takes, and under the default one, which does not.   *)
(***************************************************************************)
EXTENDS TelegramApp

Executor == INSTANCE DryRunExecutor WITH
    Settings <- Defaults, WindowBars <- 3,
    Constraints <- [tick_size |-> 1, lot_step |-> 2, min_qty |-> 4, min_notional |-> 5,
                    price_quantum |-> 1, qty_quantum |-> 1]

Bar(t, p) == [close_time |-> t, open |-> p, high |-> p, low |-> p, close |-> p]

At(t, st) == [st EXCEPT !.last_candle_time = t]

Short ==
    At(1, Executor!ApplyFill(CleanState, Executor!Intent("FIRST_SHORT", Bar(1, 100), 4), 4,
                             Bar(1, 100)))

Covered ==
    At(2, Executor!ApplyFill(Short, Executor!Intent("FULL_COVER", Bar(2, 90), 4), 4, Bar(2, 90)))

MCStates == {Short, Covered}

MCLotIds == {<<"FIRST_SHORT", 1>>}

File == [Unset EXCEPT !["live_start_policy"] = "restore", !["telegram_bot_token"] = "token"]

MCEnvironments ==
    {[dotenv |-> File, environ |-> Unset],
     [dotenv |-> File, environ |-> [Unset EXCEPT !["live_start_policy"] = Blank]],
     [dotenv |-> File, environ |-> [Unset EXCEPT !["telegram_bot_token"] = Blank]],
     [dotenv |-> File, environ |-> [Unset EXCEPT !["even_bar_anchor_mode"] = "live_start"]],
     [dotenv |-> File, environ |-> [Unset EXCEPT !["live_start_policy"] = "sync_only"]],
     [dotenv |-> File, environ |-> [Unset EXCEPT !["max_dca_per_bar"] = -1]],
     [dotenv |-> File, environ |-> [Unset EXCEPT !["even_bar_fixed_timestamp"] = Malformed,
                                                 !["even_bar_anchor_mode"] = "fixed_timestamp"]],
     [dotenv |-> File, environ |-> [Unset EXCEPT !["even_bar_fixed_timestamp"] = Malformed]]}

=============================================================================
