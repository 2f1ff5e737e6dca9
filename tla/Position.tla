------------------------------ MODULE Position ------------------------------
(***************************************************************************)
(* bot/storage/models.py (BotState, Lot) and                               *)
(* bot/engine/position_manager.py: the bot's state for one symbol and the  *)
(* operations on its LIFO book of open short lots.  Every operation is     *)
(* pure: it returns an updated copy, as the deepcopy in the code does.     *)
(*                                                                         *)
(* Quantities and prices are integers (units of qty, ticks of price).      *)
(* next_level_price is kept in PCT-ths of a tick, so that a level at       *)
(* +0.3 % is exact.  avg_price is not kept: it is                          *)
(* pos_proceeds_usdt / pos_size_abs wherever the code reads it.  The lot   *)
(* book is a set: its order in the code is that of open_sequence.          *)
(***************************************************************************)
EXTENDS Common, Sequences, FiniteSets, FiniteSetsExt

PCT == 1000         \* 100 %, in tenths of a percent

\* lots opened by the intents Ids
Lot(Ids) == [id : Ids, qty : Nat \ {0}, entry_price : Nat, open_sequence : Nat]

BotState(Ids) ==
    [lots : SUBSET Lot(Ids), pos_size_abs : Nat, pos_proceeds_usdt : Nat, num_sells : Nat,
     last_fill_price : Optional(Nat), next_level_price : Optional(Nat),
     trailing_active : BOOLEAN, trailing_min : Optional(Nat),
     cycle_base_qty : Nat, reset_cycle : BOOLEAN,
     orders_last_3min : Seq(Nat), fills_this_bar : Nat, subcovers_this_bar : Nat,
     last_candle_time : Optional(Nat), safe_stop_active : BOOLEAN]

CleanState ==
    [lots |-> {}, pos_size_abs |-> 0, pos_proceeds_usdt |-> 0, num_sells |-> 0,
     last_fill_price |-> None, next_level_price |-> None,
     trailing_active |-> FALSE, trailing_min |-> None,
     cycle_base_qty |-> 0, reset_cycle |-> FALSE,
     orders_last_3min |-> <<>>, fills_this_bar |-> 0, subcovers_this_bar |-> 0,
     last_candle_time |-> None, safe_stop_active |-> FALSE]

Quantity(lots) == MapThenSumSet(LAMBDA l : l.qty, lots)
Proceeds(lots) == MapThenSumSet(LAMBDA l : l.qty * l.entry_price, lots)

next_open_sequence(lots) ==
    IF lots = {} THEN 0 ELSE Max({l.open_sequence : l \in lots}) + 1

Bug_NoRecalculation(st, last_fill, next_level) == [st EXCEPT !.last_fill_price = last_fill]
Bug_LevelOnlyIfPassed(st, last_fill, next_level) ==
    [st EXCEPT
        !.pos_size_abs = Quantity(st.lots),
        !.pos_proceeds_usdt = Proceeds(st.lots),
        !.last_fill_price = last_fill,
        !.next_level_price = next_level]
\* next_level is None when the caller passes no new level
recalculate_position_fields(st, last_fill, next_level) ==
    [st EXCEPT
        !.pos_size_abs = Quantity(st.lots),
        !.pos_proceeds_usdt = Proceeds(st.lots),
        !.last_fill_price = last_fill,
        !.next_level_price = IF Quantity(st.lots) = 0 THEN None
                             ELSE IF next_level # None THEN next_level ELSE @]

BookLot(st, lot) ==
    [st EXCEPT !.lots = @ \cup {lot},
               !.num_sells = @ + 1,
               !.cycle_base_qty = IF @ = 0 THEN lot.qty ELSE @]

add_short_lot(st, id, qty, price, next_level) ==
    LET lot == [id |-> id, qty |-> qty, entry_price |-> price,
                open_sequence |-> next_open_sequence(st.lots)]
    IN  recalculate_position_fields(BookLot(st, lot), price, next_level)

Bug_OldestLot(st) ==
    CHOOSE l \in st.lots : \A k \in st.lots : k.open_sequence >= l.open_sequence
\* defined for a non-empty book
get_last_lot(st) ==
    CHOOSE l \in st.lots : \A k \in st.lots : k.open_sequence <= l.open_sequence

\* close_last_lot raises ValueError, and changes nothing, unless this holds
CanCloseLastLot(st, close_qty) ==
    close_qty > 0 /\ st.lots # {} /\ close_qty <= get_last_lot(st).qty

close_last_lot(st, close_qty, price) ==
    LET last == get_last_lot(st)
        others == {l \in st.lots : l.id # last.id}
        rest == IF close_qty = last.qty THEN {} ELSE {[last EXCEPT !.qty = @ - close_qty]}
    IN  recalculate_position_fields([st EXCEPT !.lots = others \cup rest], price, None)

close_all(st, price) == recalculate_position_fields([st EXCEPT !.lots = {}], price, None)

Bug_CycleGoesOn(st) ==
    [st EXCEPT !.lots = {}, !.pos_size_abs = 0, !.pos_proceeds_usdt = 0,
               !.last_fill_price = None, !.next_level_price = None,
               !.fills_this_bar = 0, !.subcovers_this_bar = 0]
reset_cycle(st) ==
    [st EXCEPT !.lots = {}, !.pos_size_abs = 0, !.pos_proceeds_usdt = 0, !.num_sells = 0,
               !.last_fill_price = None, !.next_level_price = None,
               !.trailing_active = FALSE, !.trailing_min = None,
               !.cycle_base_qty = 0, !.reset_cycle = TRUE,
               !.fills_this_bar = 0, !.subcovers_this_bar = 0]

\* the lots in order of open_sequence, as the code keeps them
Book(lots) ==
    [i \in 1 .. Cardinality(lots) |->
        LET l == CHOOSE l \in lots :
                    Cardinality({k \in lots : k.open_sequence < l.open_sequence}) = i - 1
        IN  [qty |-> l.qty, entry_price |-> l.entry_price]]

\* _invalid_state_reason, of the strategy engine and of the risk manager.  Its
\* checks for negative values cannot fail on natural quantities.
InvalidState(st) ==
    \/ st.pos_size_abs = 0 /\ st.lots # {}
    \/ st.pos_size_abs > 0 /\ st.lots = {}
    \/ st.lots # {} /\ Quantity(st.lots) # st.pos_size_abs
    \/ st.trailing_active /\ st.trailing_min = None
=============================================================================
