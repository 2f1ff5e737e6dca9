------------------------- MODULE InstrumentMetadata -------------------------
(***************************************************************************)
(* bot/exchange/metadata.py, and the search for the symbol's entry in      *)
(* bot/exchange/bingx_client.py: from what the exchange says of its        *)
(* contracts to InstrumentConstraints.                                     *)
(*                                                                         *)
(* An entry has a symbol, fields (a function on the keys that are there    *)
(* with a value) and filters.  A value is a number or Malformed, which no  *)
(* conversion accepts.  Numbers are in units of 10^-Digits; a precision p  *)
(* appears in the constraints as its quantum, 10^-p in these units.        *)
(***************************************************************************)
EXTENDS Common, Sequences

CONSTANTS Malformed,
          Digits        \* a natural number: no value has more decimals

FirstOf(fields, keys) ==
    LET given == SelectSeq(keys, LAMBDA k : k \in DOMAIN fields) IN
    IF given = <<>> THEN None ELSE fields[Head(given)]

\* _find_filter and a look into it
FilterField(raw, filter_type, keys) ==
    LET filters == SelectSeq(raw.filters, LAMBDA f : f.filterType = filter_type) IN
    IF filters = <<>> THEN None ELSE FirstOf(Head(filters).fields, keys)

\* _optional_float: what the entry itself says comes first, Malformed or not
Field(raw, direct_keys, filter_type, filter_keys) ==
    LET direct == FirstOf(raw.fields, direct_keys) IN
    IF direct # None THEN direct ELSE FilterField(raw, filter_type, filter_keys)

Quantum(precision) == IF precision \in Nat THEN 10 ^ (Digits - precision) ELSE precision

\* _precision_from_step, as a quantum: the decimals of the step, and no fewer than none
StepQuantum(step) ==
    IF step \notin Nat THEN step
    ELSE LET fits == {p \in 0 .. Digits : step % Quantum(p) = 0} IN
         Quantum(CHOOSE p \in fits : \A q \in fits : p <= q)

Or(value, default) == IF value # None THEN value ELSE default

\* None for what is missing
TickSize(raw) == Field(raw, <<"tickSize", "priceTick">>, "PRICE_FILTER", <<"tickSize">>)

PricePrecision(raw) == FirstOf(raw.fields, <<"pricePrecision">>)

extract_tick_size(raw) == Or(TickSize(raw), Quantum(PricePrecision(raw)))

extract_lot_step(raw) ==
    Field(raw, <<"stepSize", "lotStep", "quantityStep", "size">>, "LOT_SIZE", <<"stepSize">>)

extract_min_qty(raw) ==
    Field(raw, <<"minQty", "quantityMin", "tradeMinQuantity">>, "LOT_SIZE", <<"minQty">>)

extract_min_notional(raw) ==
    Field(raw, <<"minNotional", "notional", "minOrderValue", "tradeMinUSDT">>,
          "MIN_NOTIONAL", <<"minNotional", "notional">>)

extract_price_precision(raw) == Or(Quantum(PricePrecision(raw)), StepQuantum(TickSize(raw)))

extract_qty_precision(raw) ==
    Or(Quantum(FirstOf(raw.fields, <<"quantityPrecision", "qtyPrecision">>)),
       StepQuantum(extract_lot_step(raw)))

\* None for a BingXMetadataError
metadata_to_instrument_constraints(raw) ==
    LET constraints ==
            [tick_size |-> extract_tick_size(raw), lot_step |-> extract_lot_step(raw),
             min_qty |-> extract_min_qty(raw), min_notional |-> extract_min_notional(raw),
             price_quantum |-> extract_price_precision(raw),
             qty_quantum |-> extract_qty_precision(raw)]
    IN  IF \E f \in DOMAIN constraints : constraints[f] \in {None, Malformed}
        THEN None ELSE constraints

\* The response is an entry, a list of them, or an object with lists of them: in the
\* order in which the code looks, or None for a response it does not support.
fetch_instrument_constraints(entries, symbol) ==
    LET matches == SelectSeq(entries, LAMBDA e : e.symbol = symbol) IN
    IF matches = <<>> THEN None ELSE metadata_to_instrument_constraints(Head(matches))
=============================================================================
