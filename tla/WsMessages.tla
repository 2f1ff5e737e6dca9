----------------------------- MODULE WsMessages -----------------------------
(***************************************************************************)
(* bot/data/market_ws.py, parse_ws_message: which candle, if any, a        *)
(* message of the websocket holds.                                         *)
(*                                                                         *)
(* A JSON value is                                                         *)
(*   None                                      null                        *)
(*   [type |-> "scalar"]                       a number, string or boolean *)
(*   [type |-> "list", items |-> Seq(values)]                              *)
(*   [type |-> "dict", K |-> value, k |-> value, looks |-> BOOLEAN,        *)
(*    candle |-> candle, None or OutOfRange, nested |-> Seq(values)]       *)
(* where K and k are the values of these keys (None for a missing one),    *)
(* looks says that it has a key of a candle, candle is what                *)
(* _parse_candle_dict makes of it (None when a field is missing or         *)
(* malformed, OutOfRange when a time is infinite or beyond what a datetime *)
(* can hold), and nested are its values under data, item, items, result,   *)
(* candle and candles, in this order.                                      *)
(***************************************************************************)
EXTENDS Common, Sequences

CONSTANT OutOfRange     \* the outcome of a candle with such a time

NotNull(values) == SelectSeq(values, LAMBDA v : v # None)

IsDict(value) == value # None /\ value.type = "dict"

\* A value that _parse_candle_payload refuses; a MarketWSPayloadError comes to the same.
Refused == [type |-> "scalar"]

\* _extract_candle_candidate.  Of a list it is the candidate of the first item that has
\* one, and a number has one: itself.
RECURSIVE extract_candle_candidate(_)
FirstCandidate(values, default) ==
    LET candidates ==
            SelectSeq([i \in DOMAIN values |-> extract_candle_candidate(values[i])],
                      LAMBDA c : c # None)
    IN  IF candidates = <<>> THEN default ELSE Head(candidates)

extract_candle_candidate(data) ==
    IF data = None THEN None
    ELSE IF data.type = "scalar" THEN data
    ELSE IF data.type = "list"
    THEN IF data.items = <<>> THEN Refused ELSE FirstCandidate(data.items, Head(data.items))
    ELSE IF IsDict(data.K) THEN data.K
    ELSE IF IsDict(data.k) THEN data.k
    ELSE IF data.looks THEN data
    ELSE FirstCandidate(NotNull(data.nested), data)

\* _parse_candle_payload.  A candidate is a list only if it holds nothing but nulls, which
\* _parse_candle_list refuses.
parse_candle_payload(data) ==
    LET candidate == extract_candle_candidate(data) IN
    IF IsDict(candidate) THEN candidate.candle ELSE None

\* A message has a kind, the first test of parse_ws_message that it meets ("undecodable",
\* "ping", "ack", "no_channel", "other_channel" or "kline"), and the value under data.
\* The candle it holds, or None when it is ignored or refused, and the stream goes on to
\* the next message; for OutOfRange it raises an OverflowError or a ValueError, which
\* stream_candles does not take for a refusal, and the connection is given up
\* (MarketFeed's Drop).
parse_ws_message(message) ==
    IF message.kind = "kline" THEN parse_candle_payload(message.data) ELSE None
=============================================================================
