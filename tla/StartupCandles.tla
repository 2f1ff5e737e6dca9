--------------------------- MODULE StartupCandles ---------------------------
(***************************************************************************)
(* The backfill, from the rows of the exchange to candles:                 *)
(*   bot/exchange/bingx_client.py   fetch_historical_candles               *)
(*   bot/data/market_source.py      fetch_startup_candles                  *)
(*                                                                         *)
(* Times are counted in bars: a bar that opens at t closes at t + 1.  A    *)
(* row is a dict or a list with a version (its prices) and perhaps a       *)
(* close_time (None), or Malformed: a row that cannot be read.             *)
(***************************************************************************)
EXTENDS Common, SequencesExt

CONSTANT Malformed

\* _derive_close_time_ms.  A dict's close time of 0 counts as none given.
CloseTime(row) ==
    IF row.close_time = None \/ (row.shape = "dict" /\ row.close_time = 0)
    THEN row.open_time + 1 ELSE row.close_time

\* _parse_candle_row, _to_internal_candle
ParsedRow(row) == [close_time |-> CloseTime(row), version |-> row.version]

\* None when one row cannot be read
fetch_historical_candles(rows) ==
    IF Malformed \in ToSet(rows) THEN None ELSE [i \in DOMAIN rows |-> ParsedRow(rows[i])]

\* sorted by close_time, of which the last one given wins
Bug_FirstGivenWins(candles, t) ==
    Head(SelectSeq(candles, LAMBDA c : c.close_time = t))
LastGiven(candles, t) == Last(SelectSeq(candles, LAMBDA c : c.close_time = t))

Deduplicated(candles) ==
    LET times == SetToSortSeq({c.close_time : c \in ToSet(candles)}, LAMBDA s, t : s < t) IN
    [i \in DOMAIN times |-> LastGiven(candles, times[i])]

\* [-limit:], which for a limit of 0 is the whole list
Newest(candles, limit) ==
    IF limit = 0 \/ limit >= Len(candles) THEN candles
    ELSE SubSeq(candles, Len(candles) - limit + 1, Len(candles))

fetch_startup_candles(rows, limit) ==
    LET candles == fetch_historical_candles(rows) IN
    IF candles = None THEN None ELSE Newest(Deduplicated(candles), limit)
=============================================================================
