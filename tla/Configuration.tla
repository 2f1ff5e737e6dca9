---------------------------- MODULE Configuration ----------------------------
(***************************************************************************)
(* bot/config.py: the settings from a .env file and the environment.       *)
(*                                                                         *)
(* A source gives each variable a value of its type, or Blank, or          *)
(* Malformed (text that is none of them: neither its parser nor, for the   *)
(* timestamp, fromisoformat can read it), or nothing (None).  The          *)
(* variables that are only handed on (keys, log file, API retries) are     *)
(* left out.  Percentages and quantities are integers.                     *)
(***************************************************************************)
EXTENDS Common

CONSTANTS Blank, Malformed

\* the defaults of Settings
Defaults ==
    [mode |-> "dry_run", startup_candles_backfill |-> 300,
     first_sell_qty_coin |-> 9, use_equity_pct_base |-> FALSE, base_order_pct_eq |-> 0,
     equity_for_sizing_usdt |-> 100,
     tp_percent |-> 11, callback_percent |-> 2, sub_sell_tp_percent |-> 13,
     margin_call_limit |-> 244, block_dca_on_tp_touch |-> TRUE,
     require_close_below_full_tp |-> TRUE,
     touch_mode |-> "wick", subcover_confirm_mode |-> "subcover_tp",
     even_bar_anchor_mode |-> "utc_day_start", even_bar_fixed_timestamp |-> None,
     max_orders_per_3min |-> 14, max_dca_per_bar |-> 6, max_subcover_per_bar |-> 10,
     live_start_policy |-> "reset", invalid_order_policy |-> "adjust",
     telegram_bot_token |-> None, telegram_enabled |-> TRUE,
     telegram_max_messages_per_second |-> 10]

Names == DOMAIN Defaults

\* a variable that no source gives
Unset == [n \in Names |-> None]

\* os.environ overrides the file, also with a blank value
Bug_FileFirst(dotenv, environ) ==
    [n \in Names |-> IF dotenv[n] # None THEN dotenv[n] ELSE environ[n]]
load_raw_values(dotenv, environ) ==
    [n \in Names |-> IF environ[n] # None THEN environ[n] ELSE dotenv[n]]

\* _parse_bool, _parse_int, _parse_float, _parse_optional_str, _parse_required_str
Parsed(n, value) == IF value \in {None, Blank} THEN Defaults[n] ELSE value

EnumMembers ==
    [mode |-> {"backtest", "dry_run", "live"},
     touch_mode |-> {"wick", "body", "close"},
     subcover_confirm_mode |-> {"off", "breakeven", "subcover_tp"},
     even_bar_anchor_mode |-> {"utc_day_start", "live_start", "fixed_timestamp"},
     live_start_policy |-> {"reset", "restore", "sync_only"},
     invalid_order_policy |-> {"adjust", "skip", "safe_stop"}]

\* _parse_optional_str takes any text
Texts == {"even_bar_fixed_timestamp", "telegram_bot_token"}

Unparsable(n, value) ==
    \/ value = Malformed /\ n \notin Texts
    \/ n \in DOMAIN EnumMembers /\ Parsed(n, value) \notin EnumMembers[n]

NonNegative ==
    {"startup_candles_backfill", "first_sell_qty_coin", "base_order_pct_eq",
     "equity_for_sizing_usdt", "tp_percent", "callback_percent", "sub_sell_tp_percent",
     "margin_call_limit", "max_orders_per_3min", "max_dca_per_bar", "max_subcover_per_bar",
     "telegram_max_messages_per_second"}

validate_settings(settings) ==
    /\ \A n \in NonNegative : settings[n] >= 0
    /\ settings.even_bar_anchor_mode = "fixed_timestamp"
           => settings.even_bar_fixed_timestamp \notin {None, Malformed}

SettingsFrom(raw) == [n \in Names |-> Parsed(n, raw[n])]

Bug_Unvalidated(dotenv, environ) == SettingsFrom(load_raw_values(dotenv, environ))
\* from_env: the settings, or None for the ValueError of the first bad variable
from_env(dotenv, environ) ==
    LET raw == load_raw_values(dotenv, environ) IN
    IF (\E n \in Names : Unparsable(n, raw[n])) \/ ~validate_settings(SettingsFrom(raw))
    THEN None ELSE SettingsFrom(raw)
=============================================================================
