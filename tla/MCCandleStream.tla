--------------------------- MODULE MCCandleStream ---------------------------
(* Five bars with two possible contents each, arriving in any order.  The assumption *)
(* evaluates the even-bar filter, which is asked about each bar that comes out.       *)
EXTENDS CandleStream, TLC

MCUpdates == [close_time : 1 .. 5, close : {10, 11}]

\* Around midnight every other bar is allowed, for each timeframe but 1d of
\* SUPPORTED_TIMEFRAMES (minutes), for which every bar is.
Clock(tf) ==
    INSTANCE CandleClock WITH Timeframe <- tf, Day <- 1440, AnchorMode <- "utc_day_start",
                              AnchorTime <- None

ASSUME EveryOtherBar ==
    /\ \A tf \in {1, 3, 5, 15, 60, 240} : \A t \in -6 .. 1440 :
          Clock(tf)!is_bar_allowed(t) # Clock(tf)!is_bar_allowed(t + 1)
    /\ \A t \in 0 .. 6 : Clock(1440)!is_bar_allowed(t)
=============================================================================
