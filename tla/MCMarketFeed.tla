----------------------------- MODULE MCMarketFeed -----------------------------
(***************************************************************************)
(* Four bars of two versions; without limits, with one reconnect, with two *)
(* candles and with none.  The assumptions check what the feed takes for   *)
(* granted: a backfill, and a message that holds a candle.                 *)
(***************************************************************************)
EXTENDS MarketFeed

CONSTANTS Malformed, OutOfRange

MCAttempts == {None, 1}
MCCandles == {None, 0, 2}

-----------------------------------------------------------------------------
Startup == INSTANCE StartupCandles

Row(shape, close_time, t, v) ==
    [shape |-> shape, open_time |-> t - 1, close_time |-> close_time, version |-> v]

Rows == UNION {{Row("list", t, t, v), Row("dict", None, t, v)} : t \in 1 .. 3, v \in 1 .. 2}

\* the buffer after the warmup from rows
Replayed(rows, limit) ==
    FoldLeft(LAMBDA b, c : process_update(b, c).buffer, EmptyBuffer,
             Startup!fetch_startup_candles(rows, limit))

\* Rows in any order, with and without close times, and repeated, of all the bars up to
\* the n-th: what the buffer makes of them is Backfilled, of the last row given for the
\* newest bar.  A limit of 1 hides the bar before it, and 0 hides nothing.
ASSUME BackfillFromRows ==
    \A rows \in SeqOf(Rows, 3) \ {<<>>} : \A limit \in 0 .. 3 :
        LET times == {Startup!CloseTime(row) : row \in ToSet(rows)}
            newest == CHOOSE t \in times : \A s \in times : s <= t
            last == Startup!LastGiven(Startup!fetch_historical_candles(rows), newest)
        IN  times = 1 .. newest =>
                Replayed(rows, limit) = IF limit = 1 THEN Refresh(EmptyBuffer, last)
                                        ELSE Backfilled(last)

\* One row that cannot be read, and there is no backfill.
ASSUME OneBadRow ==
    Startup!fetch_startup_candles(<<Row("dict", 1, 1, 1), Malformed>>, 2) = None

-----------------------------------------------------------------------------
Ws == INSTANCE WsMessages

Dict(c) ==
    [type |-> "dict", K |-> None, k |-> None, looks |-> TRUE, candle |-> c, nested |-> <<>>]
Wrapper == [Dict(None) EXCEPT !.looks = FALSE]
List(items) == [type |-> "list", items |-> items]
Kline(data) == Ws!parse_ws_message([kind |-> "kline", data |-> data])

\* The payloads that parse_ws_message documents hold their candle, nested or not; a kline
\* without a whole candle holds none, and one with an impossible time makes it raise, be
\* it the first of a list.  Of a list it is the first item's, where the comment
\* speaks of the last, and a candle given as a list of numbers is never read.
ASSUME Payloads ==
    \A c, d \in Candles :
        /\ Kline(Dict(c)) = c /\ Kline(List(<<Dict(c)>>)) = c
        /\ Kline([Wrapper EXCEPT !.K = Dict(c), !.k = Dict(d)]) = c
        /\ Kline([Wrapper EXCEPT !.k = Dict(c), !.nested = <<Dict(d)>>]) = c
        /\ Kline([Wrapper EXCEPT !.nested = <<List(<<None, Dict(c)>>)>>]) = c
        /\ Kline(List(<<Dict(c), Dict(d)>>)) = c
        /\ Kline(List(<<Ws!Refused, Dict(c)>>)) = None
        /\ Kline(List(<<Dict(OutOfRange), Dict(c)>>)) = OutOfRange
        /\ Kline(List(<<>>)) = None /\ Kline(Wrapper) = None /\ Kline(Dict(None)) = None
        /\ Ws!parse_ws_message([kind |-> "ping", data |-> Dict(c)]) = None
=============================================================================
