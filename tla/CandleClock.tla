----------------------------- MODULE CandleClock -----------------------------
(***************************************************************************)
(* bot/data/candle_clock.py, CandleClock: the even-bar filter.             *)
(*                                                                         *)
(* Time is counted in minutes from a UTC midnight.  The bars of the        *)
(* exchange divide the day, so bar t closes at t * Timeframe.              *)
(***************************************************************************)
EXTENDS Common

CONSTANTS Timeframe,        \* minutes of a bar
          Day,              \* minutes of a day
          AnchorMode,       \* EVEN_BAR_ANCHOR_MODE
          AnchorTime        \* live_start_time or fixed_timestamp, if the mode has one

ASSUME ClockAssumption ==
    /\ Timeframe \in Nat \ {0}
    /\ Day \in Nat \ {0}
    /\ Day % Timeframe = 0
    /\ AnchorMode \in {"utc_day_start", "live_start", "fixed_timestamp"}
    /\ AnchorMode # "utc_day_start" => AnchorTime \in Int

utc_day_start(time) == time - (time % Day)

anchor_time(time) == IF AnchorMode = "utc_day_start" THEN utc_day_start(time) ELSE AnchorTime

\* from the open of the bar, and not below 0
Bug_CountsFromOpen(time, anchor) ==
    IF time = anchor THEN 0 ELSE (time - Timeframe - anchor) \div Timeframe
calculate_bars_from_anchor(time, anchor) == (time - anchor) \div Timeframe

bars_from_anchor(t) ==
    LET time == t * Timeframe IN calculate_bars_from_anchor(time, anchor_time(time))

is_bar_allowed(t) == bars_from_anchor(t) % 2 = 0
=============================================================================
