------------------------- MODULE CandleUpdateBuffer -------------------------
(***************************************************************************)
(* bot/data/market_stream.py, CandleUpdateBuffer: turns a stream of        *)
(* in-progress candle updates into closed bars.  A bar is closed only by   *)
(* the first update of a later bar, and then carries whatever the last     *)
(* update accepted for it said.                                            *)
(*                                                                         *)
(* Pure: process_update takes the buffer and an update and returns the     *)
(* buffer and the closed candle (None when the update closed nothing).     *)
(* Candles are records with a close_time; the other fields are carried.    *)
(*                                                                         *)
(* Bug_... definitions, here and in the other modules, are seeded faults:  *)
(* variants of the definition that follows them, used only to see that the *)
(* properties tell them from the code.                                     *)
(***************************************************************************)
EXTENDS Common

Bug_SentinelStart == [current_candle |-> None, last_emitted_close_time |-> -1]
EmptyBuffer == [current_candle |-> None, last_emitted_close_time |-> None]

Starts(buf, update) ==
    \/ buf.current_candle = None
    \/ update.close_time = buf.current_candle.close_time

Bug_OldUpdateCloses(buf, update) == FALSE
OutOfOrder(buf, update) ==
    /\ buf.current_candle # None
    /\ update.close_time < buf.current_candle.close_time

Bug_FirstUpdateWins(buf, update) ==
    IF buf.current_candle = None THEN [buf EXCEPT !.current_candle = update] ELSE buf
Refresh(buf, update) == [buf EXCEPT !.current_candle = update]

process_update(buf, update) ==
    IF Starts(buf, update)
    THEN [buffer |-> Refresh(buf, update), closed |-> None]
    ELSE IF OutOfOrder(buf, update)
    THEN [buffer |-> buf, closed |-> None]
    ELSE [buffer |-> [current_candle |-> update,
                      last_emitted_close_time |-> buf.current_candle.close_time],
          closed |-> buf.current_candle]
=============================================================================
