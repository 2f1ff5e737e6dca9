---------------------------- MODULE DryRunSession ----------------------------
(***************************************************************************)
(* The dry-run executor over several bars.  Within a bar it may be given   *)
(* several intents, each with the state the previous one returned and the  *)
(* set of keys already seen on this bar, as the loop of                    *)
(* DryRunOrchestrator.process_candle_update gives them; an intent may be   *)
(* repeated.  As from the engine, a first short comes to a flat position   *)
(* and a DCA or a cover to an open one; a sub-cover may be partial, which  *)
(* PositionManager.close_last_lot provides for.                            *)
(***************************************************************************)
EXTENDS DryRunExecutor

CONSTANTS Prices,       \* the closes of the bars
          Qtys,         \* the quantities opens and sub-covers may ask for
          MaxBar,       \* bound on the bars
          MaxFills      \* bound on the fills

ASSUME SessionAssumption ==
    Prices \subseteq Nat /\ Qtys \subseteq Nat /\ MaxBar \in Nat \ {0}

VARIABLES state, candle, seen,
          fills         \* history: every fill, in order

vars == <<state, candle, seen, fills>>

Keys == OpenTypes \X (1 .. MaxBar) \X (1 .. 2)

Fill(intent, qty) ==
    [id |-> intent.intent_id, type |-> intent.intent_type, time |-> candle.close_time,
     price |-> candle.close, qty |-> qty]

Init ==
    /\ state = CleanState
    /\ candle \in [close_time : {1}, close : Prices]
    /\ seen = {}
    /\ fills = <<>>

NextBar(gap, close) ==
    /\ candle.close_time + gap <= MaxBar
    /\ candle' = [close_time |-> candle.close_time + gap, close |-> close]
    /\ seen' = {}
    /\ UNCHANGED <<state, fills>>

\* the k-th intent of its type on this bar
NewIntent(type, k, qty) ==
    [intent_id |-> <<type, candle.close_time, k>>, intent_type |-> type, qty |-> qty,
     price |-> candle.close]

Submit(intent) ==
    LET r == execute_intent(intent, state, candle, seen) IN
    /\ Len(fills) < MaxFills
    /\ state' = r.updated_state
    /\ seen' = seen \cup {intent.intent_id}
    /\ fills' = IF r.filled_qty = 0 THEN fills ELSE Append(fills, Fill(intent, r.filled_qty))
    /\ UNCHANGED candle

OpenFirst ==
    /\ state.lots = {}
    /\ \E qty \in Qtys : Submit(NewIntent("FIRST_SHORT", 1, qty))

OpenDca(k) ==
    /\ state.lots # {}
    /\ \E qty \in Qtys : Submit(NewIntent("DCA_SHORT", k, qty))

CoverLast(k) ==
    /\ state.lots # {}
    /\ \E qty \in Qtys \cup {get_last_lot(state).qty} :
          /\ CanCloseLastLot(state, qty)
          /\ Submit(NewIntent("SUB_COVER", k, qty))

CoverAll ==
    /\ state.lots # {}
    /\ \E type \in {"FULL_COVER", "TRAILING_TP"} :
          Submit(NewIntent(type, 1, state.pos_size_abs))

Next ==
    \/ \E gap \in 1 .. 2, close \in Prices : NextBar(gap, close)
    \/ OpenFirst \/ CoverAll
    \/ \E k \in 1 .. 2 : OpenDca(k) \/ CoverLast(k)

Spec == Init /\ [][Next]_vars
-----------------------------------------------------------------------------
FillsOn(t, types) == {i \in DOMAIN fills : fills[i].time = t /\ fills[i].type \in types}

\* Types, and a state the next call accepts: no sequence of fills makes the
\* executor's own state invalid (RiskManager._invalid_state_reason).
TypeOK ==
    /\ state \in BotState(Keys)
    /\ ~InvalidState(state)
    /\ candle \in [close_time : 1 .. MaxBar, close : Prices]
    /\ \A i \in DOMAIN fills : fills[i].qty \in Nat \ {0}

\* The limit is on every window, not on those that end at some tick: no three
\* minutes of a session hold more than MAX_ORDERS_PER_3MIN fills, both ends
\* included (RiskManager.check_intent).
RateLimit ==
    \A t \in 1 .. MaxBar :
        Cardinality({i \in DOMAIN fills : fills[i].time \in t - WindowBars .. t})
            <= Settings.max_orders_per_3min

\* The position is the net of the fills: what was sold less what was covered, over
\* any mix of opens, partial covers and exits, after rounding to the lot step
\* (DryRunExecutor._apply_fill_to_state, PositionManager).
PositionIsNetOfFills ==
    LET Sum(types) ==
            MapThenSumSet(LAMBDA i : fills[i].qty,
                          {i \in DOMAIN fills : fills[i].type \in types})
    IN  state.pos_size_abs = Sum(OpenTypes) - Sum(CoverTypes)

\* A bar never sees more DCA fills than MAX_DCA_PER_BAR, nor more sub-covers than
\* MAX_SUBCOVER_PER_BAR, as long as no exit on the same bar resets the counters.
PerBarCaps ==
    \A t \in 1 .. MaxBar :
        FillsOn(t, {"FULL_COVER", "TRAILING_TP"}) = {} =>
            /\ Cardinality(FillsOn(t, {"DCA_SHORT"})) <= Settings.max_dca_per_bar
            /\ Cardinality(FillsOn(t, {"SUB_COVER"})) <= Settings.max_subcover_per_bar

\* The book is LIFO with partial covers too: they come off the newest lot.
Lots == INSTANCE LotStack WITH stack <- Book(state.lots)

LifoBook == Lots!Spec

\* TZ_rewritten.txt:356: MAX_DCA_PER_BAR is a limit per bar.  So a DCA is refused
\* for it only on a bar that already has that many fills.
CapRefusesFullBarOnly ==
    check_intent(state, NewIntent("DCA_SHORT", 1, 1), candle.close_time, {}) = "dca_limit" =>
        Cardinality(FillsOn(candle.close_time, OpenTypes)) >= Settings.max_dca_per_bar
=============================================================================
