---------------------------- MODULE EngineReplay ----------------------------
(***************************************************************************)
(* What the strategy engine promises by itself: evaluate_bar applied to    *)
(* bar after bar, each time to the state its previous decision returned    *)
(* (StrategyDecision.updated_state, the state if every intent is filled at *)
(* the close in full).  This is the ideal run the pipeline is measured     *)
(* against: Orchestrator.tla shows what the code makes of it.              *)
(*                                                                         *)
(* Only the freshness of a close_time matters to the engine (it names a    *)
(* lot), so times are taken from 1 .. MaxSells + 1 and reused once no open *)
(* lot has them.                                                           *)
(***************************************************************************)
EXTENDS StrategyEngine

CONSTANTS Shapes,       \* the OHLC contents of a bar
          MaxSells      \* bound: no bar is replayed that would exceed num_sells

ASSUME MaxSellsAssumption == MaxSells \in Nat

ASSUME ShapesAssumption == Shapes \subseteq [open : Nat, high : Nat, low : Nat, close : Nat]

VARIABLES state,        \* the engine's BotState
          bar           \* what the last bar led to, and its close

vars == <<state, bar>>

Times == 1 .. MaxSells + 1
Keys == OpenTypes \X Times

FreshTime == Min(Times \ {l.id[2] : l \in state.lots})

CandleOf(s) ==
    [close_time |-> FreshTime, open |-> s.open, high |-> s.high, low |-> s.low,
     close |-> s.close]

Init == state = CleanState /\ bar = [type |-> "none", close |-> 0]

\* One bar of shape s, on which evaluate_bar decides for an intent of this type
\* ("none": no intent).
Bar(s, even, type) ==
    LET d == evaluate_bar(state, CandleOf(s), even) IN
    /\ ~d.safe_stop_required
    /\ type = (IF d.intent = None THEN "none" ELSE d.intent.intent_type)
    /\ d.updated_state.num_sells <= MaxSells
    /\ state' = d.updated_state
    /\ bar' = [type |-> type, close |-> s.close]

QuietBar(s, even) == Bar(s, even, "none")
FirstShortBar(s, even) == Bar(s, even, "FIRST_SHORT")
DcaBar(s, even) == Bar(s, even, "DCA_SHORT")
SubcoverBar(s, even) == Bar(s, even, "SUB_COVER")
FullCoverBar(s, even) == Bar(s, even, "FULL_COVER")
TrailingBar(s, even) == Bar(s, even, "TRAILING_TP")

Next ==
    \E s \in Shapes, even \in BOOLEAN :
        \/ QuietBar(s, even) \/ FirstShortBar(s, even) \/ DcaBar(s, even)
        \/ SubcoverBar(s, even) \/ FullCoverBar(s, even) \/ TrailingBar(s, even)

Spec == Init /\ [][Next]_vars
-----------------------------------------------------------------------------
\* Types, and a state that the engine itself accepts on the next bar: playing
\* its own decisions never drives it into safe stop (_invalid_state_reason).
TypeOK ==
    /\ state \in BotState(Keys)
    /\ ~InvalidState(state)
    /\ state.lots = {} => state.pos_proceeds_usdt = 0

\* A position always has a DCA level and no level outlives its position: what
\* add_short_lot is passed and recalculate_position_fields clears agree through
\* opens, sub-covers and exits (strategy_engine.py, position_manager.py).
LevelIffPosition == (state.next_level_price # None) <=> (state.lots # {})

\* Sub-covers take lots but not sells, so num_sells, which indexes the DCA tables and
\* opens sub-covers, may exceed the lots, and a cycle may be emptied without an end: then
\* its sells, its base quantity and its trailing stop go into a flat position, for the
\* next first short to go on with.  That takes more than five sells (SubcoverDue); any
\* other flat position has nothing left of a cycle, and each sell of a cycle its lot.
SellsCoverLots ==
    /\ Cardinality(state.lots) <= state.num_sells
    /\ Cardinality(state.lots) < state.num_sells => state.num_sells > 5
    /\ IF state.num_sells = 0 THEN state.cycle_base_qty = 0 /\ ~state.trailing_active
       ELSE state.cycle_base_qty > 0

\* While a position is open an armed trailing stop stays armed, and its minimum
\* only goes down, whatever else the bar does (UpdateTrailing, and the states
\* that sub-cover and DCA hand on).
TrailingRatchets ==
    [][ state.trailing_active /\ state'.lots # {} =>
            /\ state'.trailing_active
            /\ state'.trailing_min <= state.trailing_min ]_vars

\* With REQUIRE_CLOSE_BELOW_FULL_TP a full take-profit realises one: the close it
\* is filled at is below the average price of the position, however the bar
\* touched the level.
FullCoverIsProfit ==
    [][ state.lots # {} /\ bar'.type = "FULL_COVER" =>
            bar'.close * state.pos_size_abs < state.pos_proceeds_usdt ]_vars

\* The number of sells in a cycle respects MARGIN_CALL_LIMIT as long as the cycle
\* was not emptied by sub-covers: only a first short can exceed it.
DcaRespectsLimit ==
    [][ Cardinality(state'.lots) > Cardinality(state.lots) /\ state.lots # {} =>
            state'.num_sells <= Settings.margin_call_limit ]_vars

\* The book is LIFO: through any sequence of opens, sub-covers and exits the lots,
\* in order of open_sequence, behave as a stack.
Lots == INSTANCE LotStack WITH stack <- Book(state.lots)

LifoBook == Lots!Spec

\* TZ_rewritten.txt:218: with BLOCK_DCA_ON_TP_TOUCH no DCA opens between a touch
\* of the take-profit and its confirmation.  The touch arms the trailing stop,
\* which stays armed until an exit.
NoDcaAfterTpTouch ==
    [][ state.trailing_active /\ Settings.block_dca_on_tp_touch =>
            ~(state'.num_sells > state.num_sells /\ state.lots # {}) ]_vars
=============================================================================
