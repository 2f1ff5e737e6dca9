------------------------- MODULE DryRunSessionProofs -------------------------
(***************************************************************************)
(* What the executor promises of its fills and of its state, for any       *)
(* settings, constraints, prices, quantities and number of bars.           *)
(***************************************************************************)
EXTENDS DryRunSession, BotStateProofs

-----------------------------------------------------------------------------
(* The executor *)

Counting(st) ==
    /\ {"fills_this_bar", "subcovers_this_bar"} \subseteq DOMAIN st
    /\ st.fills_this_bar \in Nat /\ st.subcovers_this_bar \in Nat

SameCounters(s, st) ==
    Counting(st) =>
        /\ Counting(s)
        /\ s.fills_this_bar = st.fills_this_bar
        /\ s.subcovers_this_bar = st.subcovers_this_bar

\* The operations on the lots do not count.
LEMMA PositionKeepsCounters ==
    ASSUME NEW st, NEW a, NEW b, NEW p, NEW lvl
    PROVE  /\ SameCounters(add_short_lot(st, a, b, p, lvl), st)
           /\ SameCounters(close_last_lot(st, b, p), st)
           /\ SameCounters(close_all(st, p), st)
  <1>1. ASSUME NEW s, NEW q, NEW l
        PROVE  SameCounters(recalculate_position_fields(s, q, l), s)
    BY DEF SameCounters, Counting, recalculate_position_fields
  <1>2. ASSUME NEW s, NEW lot PROVE SameCounters(BookLot(s, lot), s)
    BY DEF SameCounters, Counting, BookLot
  <1>3. ASSUME NEW s, NEW lots PROVE SameCounters([s EXCEPT !.lots = lots], s)
    BY DEF SameCounters, Counting
  <1>4. ASSUME NEW r, NEW s, NEW t, SameCounters(r, s), SameCounters(s, t)
        PROVE  SameCounters(r, t)
    BY <1>4 DEF SameCounters
  <1>5. SameCounters(add_short_lot(st, a, b, p, lvl), st)
    BY <1>1, <1>2, <1>4 DEF add_short_lot
  <1>6. SameCounters(close_last_lot(st, b, p), st)
    BY <1>1, <1>3, <1>4 DEF close_last_lot
  <1>7. SameCounters(close_all(st, p), st)
    BY <1>1, <1>3, <1>4 DEF close_all
  <1> QED
    BY <1>5, <1>6, <1>7

\* A fill counts as an open or as a sub-cover, and an exit starts both counts anew.
Counted(s, st, type) ==
    /\ Counting(s)
    /\ type \in OpenTypes => /\ s.fills_this_bar = st.fills_this_bar + 1
                             /\ s.subcovers_this_bar = st.subcovers_this_bar
    /\ type = "SUB_COVER" => /\ s.fills_this_bar = st.fills_this_bar
                             /\ s.subcovers_this_bar = st.subcovers_this_bar + 1

LEMMA FillIsCounted ==
    ASSUME NEW st, Counting(st), NEW intent, NEW qty, NEW c
    PROVE  Counted(ApplyFill(st, intent, qty, c), st, intent.intent_type)
  <1> DEFINE Stamp(s) == [s EXCEPT !.orders_last_3min = Append(st.orders_last_3min, c.close_time),
                                   !.last_candle_time = c.close_time]
  <1>1. ASSUME NEW s, SameCounters(s, st) PROVE SameCounters(Stamp(s), st)
    BY <1>1 DEF SameCounters, Counting
  <1>2. OpenTypes = {"FIRST_SHORT", "DCA_SHORT"}
    BY DEF OpenTypes
  <1>3. CASE intent.intent_type \in OpenTypes
    <2> DEFINE s == Stamp(add_short_lot(st, intent.intent_id, qty, c.close, None))
    <2>1. SameCounters(s, st)
      BY <1>1, PositionKeepsCounters
    <2>2. ApplyFill(st, intent, qty, c) =
              [s EXCEPT !.fills_this_bar = st.fills_this_bar + 1, !.reset_cycle = FALSE]
      BY <1>3 DEF ApplyFill
    <2> HIDE DEF s
    <2> QED
      BY <1>2, <1>3, <2>1, <2>2 DEF SameCounters, Counting, Counted
  <1>4. CASE intent.intent_type \notin OpenTypes /\ intent.intent_type = "SUB_COVER"
    <2> DEFINE s == Stamp(close_last_lot(st, qty, c.close))
    <2>1. SameCounters(s, st)
      BY <1>1, PositionKeepsCounters
    <2>2. ApplyFill(st, intent, qty, c) =
              [s EXCEPT !.subcovers_this_bar = st.subcovers_this_bar + 1]
      BY <1>4 DEF ApplyFill
    <2> HIDE DEF s
    <2> QED
      BY <1>2, <1>4, <2>1, <2>2 DEF SameCounters, Counting, Counted
  <1>5. CASE intent.intent_type \notin OpenTypes /\ intent.intent_type # "SUB_COVER"
    <2> DEFINE s == close_all(st, c.close)
    <2>1. SameCounters(s, st)
      BY PositionKeepsCounters
    <2>2. ApplyFill(st, intent, qty, c) = Stamp(reset_cycle(s))
      BY <1>5 DEF ApplyFill
    <2> HIDE DEF s
    <2>3. Counting(reset_cycle(s))
      BY <2>1 DEF SameCounters, Counting, reset_cycle
    <2>4. ASSUME NEW r, Counting(r) PROVE Counting(Stamp(r))
      BY <2>4 DEF Counting
    <2> QED
      BY <1>5, <2>2, <2>3, <2>4 DEF Counted
  <1> QED
    BY <1>3, <1>4, <1>5

-----------------------------------------------------------------------------
(* The inductive invariant *)

\* The fills are of this bar and of earlier ones, and this bar's have been seen.
FillsOK ==
    /\ candle.close_time \in Int
    /\ \E S : fills \in Seq(S)
    /\ \A i \in DOMAIN fills :
          /\ fills[i].time \in Int /\ fills[i].time <= candle.close_time
          /\ fills[i].id[2] = fills[i].time
          /\ fills[i].time = candle.close_time => fills[i].id \in seen

\* Unless an exit has reset them, the counters count at least the bar's own fills.
CountersOK ==
    /\ Counting(state)
    /\ FillsOn(candle.close_time, Exits) = {} =>
          /\ Cardinality(FillsOn(candle.close_time, {"DCA_SHORT"})) <= state.fills_this_bar
          /\ Cardinality(FillsOn(candle.close_time, {"SUB_COVER"}))
                <= state.subcovers_this_bar
    /\ PerBarCaps

DInv == FillsOK /\ CountersOK

LEMMA InitDInv == Init => DInv
  <1> SUFFICES ASSUME Init PROVE DInv
    OBVIOUS
  <1>1. /\ fills = << >> /\ DOMAIN fills = {} /\ state = CleanState
        /\ candle.close_time = 1
    BY DEF Init
  <1>2. fills \in Seq({})
    BY <1>1
  <1>3. FillsOK
    BY <1>1, <1>2 DEF FillsOK
  <1>4. \A t, types : FillsOn(t, types) = {}
    BY <1>1 DEF FillsOn
  <1>5. Settings.max_dca_per_bar \in Nat /\ Settings.max_subcover_per_bar \in Nat
    BY SettingsAssumption
  <1>6. Counting(state)
    BY <1>1 DEF Counting, CleanState
  <1>7. \A t, types : Cardinality(FillsOn(t, types)) = 0
    BY <1>4, FS_EmptySet
  <1>8. PerBarCaps
    BY <1>5, <1>7 DEF PerBarCaps
  <1>9. CountersOK
    BY <1>6, <1>7, <1>8 DEF CountersOK, Counting
  <1> QED
    BY <1>3, <1>9 DEF DInv

LEMMA FillsAreFinite ==
    ASSUME FillsOK, NEW t, NEW types
    PROVE  /\ IsFiniteSet(FillsOn(t, types)) /\ Cardinality(FillsOn(t, types)) \in Nat
           /\ FillsOn(t, types) \subseteq DOMAIN fills
           /\ DOMAIN fills = 1 .. Len(fills) /\ Len(fills) \in Nat
  <1>1. PICK S : fills \in Seq(S)
    BY DEF FillsOK
  <1>2. DOMAIN fills = 1 .. Len(fills) /\ Len(fills) \in Nat
    BY <1>1
  <1>3. IsFiniteSet(1 .. Len(fills))
    BY <1>2, FS_Interval
  <1>4. FillsOn(t, types) \subseteq DOMAIN fills
    BY DEF FillsOn
  <1> QED
    BY <1>2, <1>3, <1>4, FS_Subset, FS_CardinalityType

\* One fill more, on its bar and of its type.
LEMMA OneMoreFill ==
    ASSUME FillsOK, NEW f, fills' = Append(fills, f)
    PROVE  LET n == Len(fills) + 1 IN
           /\ \E S : fills' \in Seq(S)
           /\ DOMAIN fills' = DOMAIN fills \cup {n} /\ n \notin DOMAIN fills
           /\ fills'[n] = f /\ \A i \in DOMAIN fills : fills'[i] = fills[i]
           /\ \A t, types : FillsOn(t, types)' =
                 IF f.time = t /\ f.type \in types THEN FillsOn(t, types) \cup {n}
                 ELSE FillsOn(t, types)
           /\ \A t, types : Cardinality(FillsOn(t, types)') =
                 IF f.time = t /\ f.type \in types THEN Cardinality(FillsOn(t, types)) + 1
                 ELSE Cardinality(FillsOn(t, types))
  <1> DEFINE n == Len(fills) + 1
  <1>1. PICK S : fills \in Seq(S)
    BY DEF FillsOK
  <1>2. fills \in Seq(S \cup {f}) /\ f \in S \cup {f}
    BY <1>1
  <1>3. /\ fills' \in Seq(S \cup {f})
        /\ DOMAIN fills' = DOMAIN fills \cup {n} /\ n \notin DOMAIN fills
        /\ fills'[n] = f /\ \A i \in DOMAIN fills : fills'[i] = fills[i]
    BY <1>2
  <1> HIDE DEF n
  <1>4. ASSUME NEW t, NEW types
        PROVE  FillsOn(t, types)' =
                  IF f.time = t /\ f.type \in types THEN FillsOn(t, types) \cup {n}
                  ELSE FillsOn(t, types)
    BY <1>3 DEF FillsOn
  <1>5. ASSUME NEW t, NEW types
        PROVE  Cardinality(FillsOn(t, types)') =
                  IF f.time = t /\ f.type \in types THEN Cardinality(FillsOn(t, types)) + 1
                  ELSE Cardinality(FillsOn(t, types))
    <2>1. IsFiniteSet(FillsOn(t, types)) /\ n \notin FillsOn(t, types)
      BY <1>3, FillsAreFinite
    <2>2. Cardinality(FillsOn(t, types) \cup {n}) = Cardinality(FillsOn(t, types)) + 1
      BY <2>1, FS_AddElement
    <2> QED
      BY <1>4, <2>2
  <1> QED
    BY <1>3, <1>4, <1>5 DEF n

\* A fill is of its own bar, and its key has been seen.
LEMMA SubmitKeepsFills ==
    ASSUME FillsOK, NEW intent, Submit(intent), intent.intent_id[2] = candle.close_time
    PROVE  FillsOK'
  <1> DEFINE r == execute_intent(intent, state, candle, seen)
             f == Fill(intent, r.filled_qty)
             n == Len(fills) + 1
  <1>1. /\ seen' = seen \cup {intent.intent_id} /\ candle' = candle
        /\ fills' = IF r.filled_qty = 0 THEN fills ELSE Append(fills, f)
    BY DEF Submit
  <1>2. f.id = intent.intent_id /\ f.time = candle.close_time
    BY DEF Fill
  <1> HIDE DEF r, f
  <1>3. CASE fills' = fills
    BY <1>1, <1>3 DEF FillsOK
  <1>4. CASE r.filled_qty # 0
    <2>1. fills' = Append(fills, f)
      BY <1>1, <1>4
    <2>2. /\ \E S : fills' \in Seq(S)
          /\ DOMAIN fills' = DOMAIN fills \cup {n} /\ n \notin DOMAIN fills
          /\ fills'[n] = f /\ \A i \in DOMAIN fills : fills'[i] = fills[i]
      BY <2>1, OneMoreFill
    <2> HIDE DEF n
    <2>3. candle.close_time \in Int
      BY DEF FillsOK
    <2> QED
      BY <1>1, <1>2, <2>2, <2>3 DEF FillsOK
  <1> QED
    BY <1>1, <1>3, <1>4

\* A DCA or a sub-cover is filled only below its cap, and counted.
LEMMA SubmitKeepsCounters ==
    ASSUME DInv, NEW intent, Submit(intent),
           intent.intent_type \in OpenTypes \cup CoverTypes
    PROVE  CountersOK'
  <1> DEFINE r == execute_intent(intent, state, candle, seen)
             f == Fill(intent, r.filled_qty)
             n == Len(fills) + 1
             now == candle.close_time
             type == intent.intent_type
             dca(t) == Cardinality(FillsOn(t, {"DCA_SHORT"}))
             sub(t) == Cardinality(FillsOn(t, {"SUB_COVER"}))
  <1>1. /\ candle' = candle /\ state' = r.updated_state
        /\ fills' = IF r.filled_qty = 0 THEN fills ELSE Append(fills, f)
    BY DEF Submit
  <1>2. \/ r.updated_state = state /\ r.filled_qty = 0
        \/ /\ r.filled_qty # 0
           /\ ~DcaCapReached(state, intent) /\ ~SubcoverCapReached(state, intent)
           /\ \E qty : r.updated_state = ApplyFill(state, intent, qty, candle)
    BY RefusedOrFilled
  <1>3. f.type = type /\ f.time = now
    BY DEF Fill
  <1> HIDE DEF r, f
  <1>4. CASE r.updated_state = state /\ r.filled_qty = 0
    BY <1>1, <1>4 DEF DInv, CountersOK, PerBarCaps, FillsOn
  <1>5. CASE /\ r.filled_qty # 0
             /\ ~DcaCapReached(state, intent) /\ ~SubcoverCapReached(state, intent)
             /\ \E qty : r.updated_state = ApplyFill(state, intent, qty, candle)
    <2>1. /\ n \notin DOMAIN fills
          /\ \A t, types : FillsOn(t, types)' =
                IF now = t /\ type \in types THEN FillsOn(t, types) \cup {n}
                ELSE FillsOn(t, types)
          /\ \A t, types : Cardinality(FillsOn(t, types)') =
                IF now = t /\ type \in types THEN Cardinality(FillsOn(t, types)) + 1
                ELSE Cardinality(FillsOn(t, types))
      <3>1. fills' = Append(fills, f)
        BY <1>1, <1>5
      <3> QED
        BY <1>3, <3>1, OneMoreFill DEF DInv
    <2>2. Counting(state) /\ Counted(state', state, type)
      BY <1>1, <1>5, FillIsCounted DEF DInv, CountersOK
    <2>3. /\ type = "DCA_SHORT" => state.fills_this_bar < Settings.max_dca_per_bar
          /\ type = "SUB_COVER" => state.subcovers_this_bar < Settings.max_subcover_per_bar
          /\ Settings.max_dca_per_bar \in Nat /\ Settings.max_subcover_per_bar \in Nat
      BY <1>5, <2>2, SettingsAssumption DEF DcaCapReached, SubcoverCapReached, Counting
    <2>4. \A t : dca(t) \in Nat /\ sub(t) \in Nat
      BY FillsAreFinite DEF DInv
    <2>5. type \in {"FIRST_SHORT", "DCA_SHORT", "SUB_COVER"} \cup Exits
      BY DEF OpenTypes, CoverTypes, Exits
    <2>6. OpenTypes = {"FIRST_SHORT", "DCA_SHORT"} /\ Exits = {"FULL_COVER", "TRAILING_TP"}
      BY DEF OpenTypes, Exits
    <2> HIDE DEF n, now, type
    <2>8. ASSUME NEW t, t = now, FillsOn(t, Exits)' = {}
          PROVE  /\ Cardinality(FillsOn(t, {"DCA_SHORT"})') <= state'.fills_this_bar
                 /\ Cardinality(FillsOn(t, {"SUB_COVER"})') <= state'.subcovers_this_bar
      <3>0. FillsOn(t, Exits) = {} /\ type \notin Exits
        BY <2>1, <2>8
      <3>1. /\ type \in {"FIRST_SHORT", "DCA_SHORT", "SUB_COVER"}
            /\ dca(t) <= state.fills_this_bar /\ sub(t) <= state.subcovers_this_bar
        BY <2>5, <2>8, <3>0 DEF DInv, CountersOK, now
      <3>2. /\ Cardinality(FillsOn(t, {"DCA_SHORT"})')
                  = IF type = "DCA_SHORT" THEN dca(t) + 1 ELSE dca(t)
            /\ Cardinality(FillsOn(t, {"SUB_COVER"})')
                  = IF type = "SUB_COVER" THEN sub(t) + 1 ELSE sub(t)
        BY <2>1, <2>8
      <3>3. dca(t) \in Nat /\ sub(t) \in Nat
        BY <2>4
      <3> HIDE DEF dca, sub
      <3> QED
        BY <2>2, <2>6, <3>1, <3>2, <3>3 DEF Counted, Counting
    <2>9. PerBarCaps'
      <3> SUFFICES ASSUME NEW t \in 1 .. MaxBar, FillsOn(t, Exits)' = {}
                   PROVE  /\ Cardinality(FillsOn(t, {"DCA_SHORT"})')
                                <= Settings.max_dca_per_bar
                          /\ Cardinality(FillsOn(t, {"SUB_COVER"})')
                                <= Settings.max_subcover_per_bar
        BY <2>6 DEF PerBarCaps
      <3>1. FillsOn(t, Exits) = {}
        BY <2>1
      <3>2. dca(t) <= Settings.max_dca_per_bar /\ sub(t) <= Settings.max_subcover_per_bar
        BY <2>6, <3>1 DEF DInv, CountersOK, PerBarCaps
      <3>3. /\ Cardinality(FillsOn(t, {"DCA_SHORT"})')
                  = IF now = t /\ type = "DCA_SHORT" THEN dca(t) + 1 ELSE dca(t)
            /\ Cardinality(FillsOn(t, {"SUB_COVER"})')
                  = IF now = t /\ type = "SUB_COVER" THEN sub(t) + 1 ELSE sub(t)
        BY <2>1
      <3>4. t = now => dca(t) <= state.fills_this_bar /\ sub(t) <= state.subcovers_this_bar
        BY <3>1 DEF DInv, CountersOK, now
      <3>5. dca(t) \in Nat /\ sub(t) \in Nat
        BY <2>4
      <3> HIDE DEF dca, sub
      <3> QED
        BY <2>2, <2>3, <3>2, <3>3, <3>4, <3>5 DEF Counting
    <2>10. Counting(state')
      BY <2>2 DEF Counted
    <2> QED
      BY <1>1, <2>8, <2>9, <2>10 DEF CountersOK, now
  <1> QED
    BY <1>2, <1>4, <1>5

LEMMA NextBarStep ==
    ASSUME DInv, NEW gap \in 1 .. 2, NEW close \in Prices, NextBar(gap, close)
    PROVE  DInv'
  <1>1. /\ candle'.close_time = candle.close_time + gap /\ seen' = {}
        /\ UNCHANGED <<state, fills>> /\ candle.close_time \in Int /\ gap > 0 /\ gap \in Int
    BY DEF NextBar, DInv, FillsOK
  <1>2. /\ candle'.close_time \in Int
        /\ \A i \in DOMAIN fills : fills[i].time \in Int
                                  /\ fills[i].time < candle'.close_time
    BY <1>1 DEF DInv, FillsOK
  <1>3. FillsOK'
    BY <1>1, <1>2 DEF DInv, FillsOK
  <1>4. \A types : FillsOn(candle'.close_time, types) = {}
    BY <1>2 DEF FillsOn
  <1>5. \A types : Cardinality(FillsOn(candle'.close_time, types)) = 0
    BY <1>4, FS_EmptySet
  <1>6. \A t, types : FillsOn(t, types)' = FillsOn(t, types)
    BY <1>1 DEF FillsOn
  <1>7. PerBarCaps'
    BY <1>6 DEF DInv, CountersOK, PerBarCaps
  <1>8. CountersOK'
    BY <1>1, <1>5, <1>6, <1>7 DEF DInv, CountersOK, Counting
  <1> QED
    BY <1>3, <1>8 DEF DInv

LEMMA NextDInv == DInv /\ [Next]_vars => DInv'
  <1> SUFFICES ASSUME DInv, [Next]_vars PROVE DInv'
    OBVIOUS
  <1>1. ASSUME NEW gap \in 1 .. 2, NEW close \in Prices, NextBar(gap, close) PROVE DInv'
    BY <1>1, NextBarStep
  <1>2. ASSUME NEW type \in OpenTypes \cup CoverTypes, NEW k, NEW qty,
               Submit(NewIntent(type, k, qty))
        PROVE  DInv'
    <2>1. /\ NewIntent(type, k, qty).intent_id[2] = candle.close_time
          /\ NewIntent(type, k, qty).intent_type = type
      BY DEF NewIntent
    <2> QED
      BY <1>2, <2>1, SubmitKeepsFills, SubmitKeepsCounters DEF DInv
  <1>3. ASSUME OpenFirst \/ CoverAll \/ \E k \in 1 .. 2 : OpenDca(k) \/ CoverLast(k)
        PROVE  \E type \in OpenTypes \cup CoverTypes : \E k, qty :
                   Submit(NewIntent(type, k, qty))
    BY <1>3 DEF OpenFirst, CoverAll, OpenDca, CoverLast, OpenTypes, CoverTypes
  <1>4. CASE UNCHANGED vars
    <2>1. FillsOK'
      BY <1>4 DEF vars, DInv, FillsOK
    <2>2. CountersOK'
      BY <1>4 DEF vars, DInv, CountersOK, PerBarCaps, FillsOn
    <2> QED
      BY <2>1, <2>2 DEF DInv
  <1> QED
    BY <1>1, <1>2, <1>3, <1>4 DEF Next

-----------------------------------------------------------------------------
(* The invariants of the state *)

\* The book accounts for the state, and its lots come from fills.
StateOK ==
    /\ Booked(state, Keys)
    /\ candle \in [close_time : 1 .. MaxBar, close : Prices]
    /\ \A l \in state.lots : \E i \in DOMAIN fills : fills[i].id = l.id
    /\ \A i \in DOMAIN fills : fills[i].qty \in Nat \ {0}

\* The state remembers the time of every fill, and they keep the limit.
WindowOK ==
    /\ DOMAIN state.orders_last_3min = DOMAIN fills
    /\ \A i \in DOMAIN fills : state.orders_last_3min[i] = fills[i].time
    /\ RateLimit

Inv == DInv /\ StateOK /\ WindowOK

\* An intent as the actions submit it.
Legal(intent) ==
    /\ intent.intent_type \in OpenTypes \cup CoverTypes
    /\ intent.qty \in Nat
    /\ intent.intent_id[2] = candle.close_time
    /\ intent.intent_type \in OpenTypes => intent.intent_id \in Keys
    /\ intent.intent_type = "SUB_COVER" => CanCloseLastLot(state, intent.qty)
    /\ intent.intent_type \in Exits => intent.qty = state.pos_size_abs

LEMMA NextIsSubmit ==
    ASSUME Inv, Next
    PROVE  \/ \E gap \in 1 .. 2, close \in Prices : NextBar(gap, close)
           \/ \E intent : Legal(intent) /\ Submit(intent)
  <1>1. /\ candle.close_time \in 1 .. MaxBar /\ MaxBar \in Nat /\ Qtys \subseteq Nat
        /\ state.pos_size_abs \in Nat
    BY SessionAssumption DEF Inv, StateOK, Booked, Bookable, BotState
  <1>2. ASSUME NEW type \in OpenTypes \cup CoverTypes, NEW k \in 1 .. 2, NEW qty \in Nat,
               type = "SUB_COVER" => CanCloseLastLot(state, qty),
               type \in Exits => qty = state.pos_size_abs
        PROVE  Legal(NewIntent(type, k, qty))
    BY <1>1, <1>2 DEF Legal, NewIntent, Keys
  <1>3. ASSUME OpenFirst PROVE \E intent : Legal(intent) /\ Submit(intent)
    <2>1. PICK qty \in Qtys : Submit(NewIntent("FIRST_SHORT", 1, qty))
      BY <1>3 DEF OpenFirst
    <2>2. Legal(NewIntent("FIRST_SHORT", 1, qty))
      BY <1>1, <1>2 DEF OpenTypes, CoverTypes, Exits
    <2> QED
      BY <2>1, <2>2
  <1>4. ASSUME NEW k \in 1 .. 2, OpenDca(k) PROVE \E intent : Legal(intent) /\ Submit(intent)
    <2>1. PICK qty \in Qtys : Submit(NewIntent("DCA_SHORT", k, qty))
      BY <1>4 DEF OpenDca
    <2>2. Legal(NewIntent("DCA_SHORT", k, qty))
      BY <1>1, <1>2 DEF OpenTypes, CoverTypes, Exits
    <2> QED
      BY <2>1, <2>2
  <1>5. ASSUME NEW k \in 1 .. 2, CoverLast(k)
        PROVE  \E intent : Legal(intent) /\ Submit(intent)
    <2>1. PICK qty \in Qtys \cup {get_last_lot(state).qty} :
              CanCloseLastLot(state, qty) /\ Submit(NewIntent("SUB_COVER", k, qty))
      BY <1>5 DEF CoverLast
    <2>2. qty \in Nat
      <3>1. state.lots # {} /\ LotBook(state.lots, Keys)
        BY <2>1 DEF CanCloseLastLot, Inv, StateOK, Booked, Bookable
      <3>2. get_last_lot(state) \in state.lots
        BY <3>1, LastLotIs
      <3> QED
        BY <1>1, <3>1, <3>2 DEF LotBook, Lot
    <2>3. Legal(NewIntent("SUB_COVER", k, qty))
      BY <1>2, <2>1, <2>2 DEF OpenTypes, CoverTypes, Exits
    <2> QED
      BY <2>1, <2>3
  <1>6. ASSUME CoverAll PROVE \E intent : Legal(intent) /\ Submit(intent)
    <2>1. PICK type \in {"FULL_COVER", "TRAILING_TP"} :
              Submit(NewIntent(type, 1, state.pos_size_abs))
      BY <1>6 DEF CoverAll
    <2>2. Legal(NewIntent(type, 1, state.pos_size_abs))
      BY <1>1, <1>2 DEF OpenTypes, CoverTypes, Exits
    <2> QED
      BY <2>1, <2>2
  <1> QED
    BY <1>3, <1>4, <1>5, <1>6 DEF Next

\* The fill of a legal intent of a quantity no higher than asked for.
FillOf(intent, f) ==
    /\ fills' = Append(fills, f)
    /\ f.id = intent.intent_id /\ f.type = intent.intent_type
    /\ f.time = candle.close_time
    /\ f.qty = FilledQty(intent) /\ f.qty \in 1 .. intent.qty
    /\ RecentOrders(state, candle.close_time) < Settings.max_orders_per_3min
    /\ AfterFill(state', state, Keys, intent, f.qty, candle)

LEMMA SubmitOutcome ==
    ASSUME Inv, NEW intent, Legal(intent), Submit(intent)
    PROVE  /\ candle' = candle
           /\ \/ state' = state /\ fills' = fills
              \/ \E f : FillOf(intent, f)
  <1> DEFINE r == execute_intent(intent, state, candle, seen)
             f == Fill(intent, r.filled_qty)
             now == candle.close_time
             n == RecentOrders(state, now)
  <1>1. /\ candle' = candle /\ state' = r.updated_state
        /\ fills' = IF r.filled_qty = 0 THEN fills ELSE Append(fills, f)
    BY DEF Submit
  <1>2. \/ r.updated_state = state /\ r.filled_qty = 0
        \/ /\ r.filled_qty # 0 /\ intent.intent_id \notin seen
           /\ ~(n >= Settings.max_orders_per_3min)
           /\ r.filled_qty = FilledQty(intent) /\ ~(r.filled_qty <= 0)
           /\ r.updated_state = ApplyFill(state, intent, r.filled_qty, candle)
    BY RefusedOrFilled
  <1>3. /\ f.id = intent.intent_id /\ f.type = intent.intent_type
        /\ f.time = now /\ f.qty = r.filled_qty
    BY DEF Fill
  <1> HIDE DEF r, f, n
  <1>4. CASE r.updated_state = state /\ r.filled_qty = 0
    BY <1>1, <1>4
  <1>5. CASE /\ r.filled_qty # 0 /\ intent.intent_id \notin seen
             /\ ~(n >= Settings.max_orders_per_3min)
             /\ r.filled_qty = FilledQty(intent) /\ ~(r.filled_qty <= 0)
             /\ r.updated_state = ApplyFill(state, intent, r.filled_qty, candle)
    <2> DEFINE qty == r.filled_qty
    <2>1. qty \in Nat \ {0} /\ qty \in 1 .. intent.qty /\ qty = FilledQty(intent)
      BY <1>5, FilledQtyIs DEF Legal
    <2>2. /\ candle.close_time \in Nat /\ candle.close \in Nat /\ Booked(state, Keys)
      <3>1. candle \in [close_time : 1 .. MaxBar, close : Prices] /\ Booked(state, Keys)
        BY DEF Inv, StateOK
      <3>2. Prices \subseteq Nat /\ 1 .. MaxBar \subseteq Nat
        BY SessionAssumption
      <3>3. candle.close_time \in 1 .. MaxBar /\ candle.close \in Prices
        BY <3>1
      <3> QED
        BY <3>1, <3>2, <3>3
    <2>3. intent.intent_type \in OpenTypes =>
              /\ intent.intent_id \in Keys
              /\ \A l \in state.lots : l.id # intent.intent_id
      <3>1. \A i \in DOMAIN fills : fills[i].id # intent.intent_id
        BY <1>5 DEF Inv, DInv, FillsOK, Legal
      <3> QED
        BY <3>1 DEF Inv, StateOK, Legal
    <2>4. intent.intent_type = "SUB_COVER" => CanCloseLastLot(state, qty)
      <3> SUFFICES ASSUME CanCloseLastLot(state, intent.qty), state.lots # {}
                   PROVE  CanCloseLastLot(state, qty)
        BY DEF Legal, CanCloseLastLot
      <3>1. get_last_lot(state).qty \in Nat
        <4>1. LotBook(state.lots, Keys)
          BY <2>2 DEF Booked, Bookable
        <4>2. get_last_lot(state) \in state.lots
          BY <4>1, LastLotIs
        <4> QED
          BY <4>1, <4>2 DEF LotBook, Lot
      <3> QED
        BY <2>1, <3>1 DEF CanCloseLastLot, Legal
    <2> HIDE DEF qty
    <2>5. AfterFill(ApplyFill(state, intent, qty, candle), state, Keys, intent, qty, candle)
      <3>1. Fillable(state, Keys, intent, qty, candle)
        BY <2>1, <2>2, <2>3, <2>4 DEF Fillable, Legal
      <3> QED
        BY <3>1, AppliedFill
    <2>6. n < Settings.max_orders_per_3min
      <3>1. Settings.max_orders_per_3min \in Nat
        BY SettingsAssumption
      <3>2. n \in Nat
        <4> DEFINE orders == state.orders_last_3min
                   recent == {i \in DOMAIN orders : orders[i] >= now - WindowBars}
        <4>1. orders \in Seq(Nat)
          BY <2>2 DEF Booked, Bookable, BotState
        <4>2. IsFiniteSet(DOMAIN orders)
          <5>1. DOMAIN orders = 1 .. Len(orders) /\ Len(orders) \in Nat
            BY <4>1, LenProperties
          <5> QED
            BY <5>1, FS_Interval
        <4>3. recent \subseteq DOMAIN orders
          OBVIOUS
        <4>4. Cardinality(recent) = n
          BY DEF n, RecentOrders
        <4> HIDE DEF recent
        <4> QED
          BY <4>2, <4>3, <4>4, FS_Subset, FS_CardinalityType
      <3> QED
        BY <1>5, <3>1, <3>2
    <2>7. fills' = Append(fills, f) /\ state' = ApplyFill(state, intent, qty, candle)
      BY <1>1, <1>5 DEF qty
    <2>8. FillOf(intent, f)
      BY <1>3, <2>1, <2>5, <2>6, <2>7 DEF FillOf, n, qty
    <2> QED
      BY <1>1, <2>8
  <1> QED
    BY <1>2, <1>4, <1>5

\* A state keeps the fills its lots come from.
LEMMA SubmitKeepsState ==
    ASSUME Inv, NEW intent, Legal(intent), Submit(intent)
    PROVE  StateOK'
  <1>1. candle' = candle /\ ((state' = state /\ fills' = fills) \/ \E f : FillOf(intent, f))
    BY SubmitOutcome
  <1>2. CASE state' = state /\ fills' = fills
    BY <1>1, <1>2 DEF Inv, StateOK
  <1>3. ASSUME NEW f, FillOf(intent, f) PROVE StateOK'
    <2> DEFINE n == Len(fills) + 1
    <2>1. /\ fills' = Append(fills, f) /\ f.id = intent.intent_id
          /\ f.qty \in 1 .. intent.qty /\ intent.qty \in Nat
          /\ AfterFill(state', state, Keys, intent, f.qty, candle)
          /\ intent.intent_type \in OpenTypes \/ intent.intent_type = "SUB_COVER"
                \/ intent.intent_type \in Exits
      BY <1>3 DEF FillOf, Legal, CoverTypes, Exits
    <2>2. /\ DOMAIN fills' = DOMAIN fills \cup {n} /\ fills'[n] = f
          /\ \A i \in DOMAIN fills : fills'[i] = fills[i]
      BY <2>1, OneMoreFill DEF Inv, DInv
    <2> HIDE DEF n
    <2>3. ASSUME NEW l \in state'.lots
          PROVE  l.id = f.id \/ \E k \in state.lots : k.id = l.id
      <3>1. CASE intent.intent_type \in OpenTypes
        BY <2>1, <3>1 DEF AfterFill
      <3>2. CASE intent.intent_type = "SUB_COVER"
        <4> DEFINE last == get_last_lot(state)
                   left == [last EXCEPT !.qty = @ - f.qty]
        <4>1. LotCovered(state'.lots, state, f.qty)
          BY <2>1, <3>2 DEF AfterFill
        <4>2. last \in state.lots /\ (l \in state.lots \/ l = left)
          BY <4>1 DEF LotCovered
        <4>3. last \in Lot(Keys)
          BY <4>2 DEF Inv, StateOK, Booked, Bookable, LotBook
        <4> HIDE DEF last
        <4>4. left.id = last.id
          BY <4>3 DEF Lot
        <4> HIDE DEF left
        <4> QED
          BY <4>2, <4>4
      <3>3. CASE intent.intent_type \in Exits
        BY <2>1, <3>3 DEF AfterFill
      <3> QED
        BY <2>1, <3>1, <3>2, <3>3
    <2>4. \A l \in state'.lots : \E i \in DOMAIN fills' : fills'[i].id = l.id
      <3>1. \A k \in state.lots : \E i \in DOMAIN fills : fills[i].id = k.id
        BY DEF Inv, StateOK
      <3> QED
        BY <2>2, <2>3, <3>1
    <2>5. \A i \in DOMAIN fills' : fills'[i].qty \in Nat \ {0}
      <3>1. \A i \in DOMAIN fills : fills[i].qty \in Nat \ {0}
        BY DEF Inv, StateOK
      <3>2. f.qty \in Nat \ {0}
        BY <2>1
      <3> QED
        BY <2>2, <3>1, <3>2
    <2>6. Booked(state', Keys)
      BY <2>1 DEF AfterFill
    <2>7. candle' \in [close_time : 1 .. MaxBar, close : Prices]
      BY <1>1 DEF Inv, StateOK
    <2> QED
      BY <2>4, <2>5, <2>6, <2>7 DEF StateOK
  <1> QED
    BY <1>1, <1>2, <1>3

InWindow(t) == {i \in DOMAIN fills : fills[i].time \in t - WindowBars .. t}

\* A fill is of this bar, and the fills that a window with this bar in it holds so far
\* are among those that the risk manager has counted.
LEMMA SubmitKeepsWindow ==
    ASSUME Inv, NEW intent, Legal(intent), Submit(intent)
    PROVE  WindowOK'
  <1>1. (state' = state /\ fills' = fills) \/ \E f : FillOf(intent, f)
    BY SubmitOutcome
  <1>2. CASE state' = state /\ fills' = fills
    BY <1>2 DEF Inv, WindowOK, RateLimit
  <1>3. ASSUME NEW f, FillOf(intent, f) PROVE WindowOK'
    <2> DEFINE n == Len(fills) + 1
               now == candle.close_time
               orders == state.orders_last_3min
               recent == {i \in DOMAIN orders : orders[i] >= now - WindowBars}
               max == Settings.max_orders_per_3min
    <2>1. /\ fills' = Append(fills, f) /\ f.time = now
          /\ Cardinality(recent) < max
          /\ state'.orders_last_3min = Append(orders, now)
      BY <1>3 DEF FillOf, AfterFill, RecentOrders
    <2>2. /\ DOMAIN fills' = DOMAIN fills \cup {n} /\ n \notin DOMAIN fills /\ fills'[n] = f
          /\ \A i \in DOMAIN fills : fills'[i] = fills[i]
      BY <2>1, OneMoreFill DEF Inv, DInv
    <2>3. /\ orders \in Seq(Nat) /\ now \in 1 .. MaxBar
          /\ DOMAIN orders = DOMAIN fills
          /\ \A i \in DOMAIN fills : orders[i] = fills[i].time
      BY DEF Inv, StateOK, WindowOK, Booked, Bookable, BotState
    <2>4. now \in Nat /\ WindowBars \in Nat /\ MaxBar \in Nat /\ max \in Nat
      BY <2>3, SessionAssumption, WindowAssumption, SettingsAssumption
    <2>5. /\ DOMAIN fills = 1 .. Len(fills) /\ Len(fills) \in Nat
          /\ IsFiniteSet(DOMAIN fills)
      BY FillsAreFinite, FS_Interval DEF Inv, DInv
    <2>6. Len(orders) = Len(fills)
      BY <2>3, <2>5, LenProperties
    <2>7. /\ DOMAIN Append(orders, now) = DOMAIN fills'
          /\ \A i \in DOMAIN fills' : Append(orders, now)[i] = fills'[i].time
      <3>1. /\ DOMAIN Append(orders, now) = 1 .. Len(orders) + 1
            /\ Append(orders, now)[Len(orders) + 1] = now
            /\ \A i \in 1 .. Len(orders) : Append(orders, now)[i] = orders[i]
        BY <2>3, <2>4
      <3>2. 1 .. Len(fills) + 1 = 1 .. Len(fills) \cup {Len(fills) + 1}
        BY <2>5
      <3> QED
        BY <2>1, <2>2, <2>3, <2>5, <2>6, <3>1, <3>2
    <2> HIDE DEF n, now, max
    <2>8. ASSUME NEW t \in 1 .. MaxBar PROVE Cardinality(InWindow(t)') <= max
      <3>0. Cardinality(InWindow(t)) <= max
        BY DEF Inv, WindowOK, RateLimit, InWindow, max
      <3>1. t \in Nat
        BY <2>4
      <3>2. InWindow(t)' = IF now \in t - WindowBars .. t THEN InWindow(t) \cup {n}
                           ELSE InWindow(t)
        <4>1. \A i \in DOMAIN fills' : i \in InWindow(t)' <=>
                 IF i = n THEN now \in t - WindowBars .. t ELSE i \in InWindow(t)
          BY <2>1, <2>2 DEF InWindow
        <4> QED
          BY <2>2, <4>1 DEF InWindow
      <3>3. CASE now \notin t - WindowBars .. t
        BY <3>0, <3>2, <3>3
      <3>4. CASE now \in t - WindowBars .. t
        <4>1. InWindow(t) \subseteq recent
          <5>1. now <= t /\ now \in Int
            BY <2>4, <3>1, <3>4
          <5>2. ASSUME NEW i \in InWindow(t) PROVE i \in recent
            <6>1. i \in DOMAIN orders /\ orders[i] \in t - WindowBars .. t
              BY <2>3 DEF InWindow
            <6>2. orders[i] >= now - WindowBars
              <7> DEFINE time == orders[i]
              <7>1. time \in t - WindowBars .. t
                BY <6>1
              <7> HIDE DEF time
              <7>2. time >= now - WindowBars
                BY <2>4, <3>1, <5>1, <7>1
              <7> QED
                BY <7>2 DEF time
            <6> QED
              BY <6>1, <6>2
          <5> QED
            BY <5>2
        <4>2. IsFiniteSet(recent)
          <5>1. recent \subseteq DOMAIN fills
            BY <2>3
          <5> HIDE DEF recent
          <5> QED
            BY <2>5, <5>1, FS_Subset
        <4> DEFINE w == InWindow(t)
        <4>3. /\ w \subseteq recent /\ n \notin w
              /\ Cardinality(InWindow(t)') = Cardinality(w \cup {n})
          BY <2>2, <3>2, <3>4, <4>1 DEF InWindow
        <4> HIDE DEF w, recent
        <4>4. IsFiniteSet(w) /\ Cardinality(w) <= Cardinality(recent)
          BY <4>2, <4>3, FS_Subset
        <4>5. Cardinality(w \cup {n}) = Cardinality(w) + 1
          BY <4>3, <4>4, FS_AddElement
        <4>6. Cardinality(w) \in Nat /\ Cardinality(recent) \in Nat
          BY <4>2, <4>4, FS_CardinalityType
        <4>7. Cardinality(recent) < max
          BY <2>1 DEF recent, max, now
        <4> QED
          BY <2>4, <4>3, <4>4, <4>5, <4>6, <4>7
      <3> QED
        BY <3>3, <3>4
    <2>9. RateLimit'
      BY <2>8 DEF RateLimit, InWindow, max
    <2> QED
      BY <2>1, <2>7, <2>9 DEF WindowOK, now
  <1> QED
    BY <1>1, <1>2, <1>3

LEMMA NextBarKeeps ==
    ASSUME Inv, NEW gap \in 1 .. 2, NEW close \in Prices, NextBar(gap, close)
    PROVE  Inv'
  <1>1. DInv'
    BY NextBarStep DEF Inv
  <1>2. state' = state /\ fills' = fills
        /\ candle' = [close_time |-> candle.close_time + gap, close |-> close]
        /\ candle.close_time + gap <= MaxBar
    BY DEF NextBar
  <1>3. candle.close_time + gap \in 1 .. MaxBar
    <2>1. candle.close_time \in 1 .. MaxBar /\ MaxBar \in Nat
      BY SessionAssumption DEF Inv, StateOK
    <2> QED
      BY <1>2, <2>1
  <1>4. StateOK'
    BY <1>2, <1>3 DEF Inv, StateOK
  <1>5. WindowOK'
    BY <1>2 DEF Inv, WindowOK, RateLimit
  <1> QED
    BY <1>1, <1>4, <1>5 DEF Inv

LEMMA SubmitKeeps ==
    ASSUME Inv, NEW intent, Legal(intent), Submit(intent)
    PROVE  Inv'
  <1>1. FillsOK'
    BY SubmitKeepsFills DEF Inv, DInv, Legal
  <1>2. CountersOK'
    BY SubmitKeepsCounters DEF Inv, Legal
  <1> QED
    BY <1>1, <1>2, SubmitKeepsState, SubmitKeepsWindow DEF Inv, DInv

LEMMA InitInv == Init => Inv
  <1> SUFFICES ASSUME Init PROVE Inv
    OBVIOUS
  <1>1. /\ fills = << >> /\ DOMAIN fills = {} /\ state = CleanState
        /\ candle \in [close_time : {1}, close : Prices]
    BY DEF Init
  <1>2. Booked(state, Keys)
    BY <1>1, CleanStateIsBooked
  <1>3. candle \in [close_time : 1 .. MaxBar, close : Prices]
    BY <1>1, SessionAssumption
  <1>4. state.lots = {} /\ state.orders_last_3min = << >>
    BY <1>1 DEF CleanState
  <1>5. StateOK
    BY <1>1, <1>2, <1>3, <1>4 DEF StateOK
  <1>6. RateLimit
    <2>1. \A t : {i \in DOMAIN fills : fills[i].time \in t - WindowBars .. t} = {}
      BY <1>1
    <2>2. Cardinality({}) <= Settings.max_orders_per_3min
      BY FS_EmptySet, SettingsAssumption
    <2> QED
      BY <2>1, <2>2 DEF RateLimit
  <1>7. WindowOK
    BY <1>1, <1>4, <1>6 DEF WindowOK
  <1> QED
    BY <1>5, <1>7, InitDInv DEF Inv

LEMMA NextInv == Inv /\ [Next]_vars => Inv'
  <1> SUFFICES ASSUME Inv, [Next]_vars PROVE Inv'
    OBVIOUS
  <1>1. CASE UNCHANGED vars
    <2>1. DInv'
      BY <1>1, NextDInv DEF Inv
    <2>2. StateOK' /\ WindowOK'
      BY <1>1 DEF vars, Inv, StateOK, WindowOK, RateLimit
    <2> QED
      BY <2>1, <2>2 DEF Inv
  <1>2. CASE Next
    BY <1>2, NextIsSubmit, NextBarKeeps, SubmitKeeps
  <1> QED
    BY <1>1, <1>2

LEMMA SpecInv == Spec => []Inv
  BY InitInv, NextInv, PTL DEF Spec

-----------------------------------------------------------------------------
(* The position and the fills *)

Multiple(x, step) == \E k \in Nat : x = step * k

LEMMA MultipleIs ==
    ASSUME NEW x \in Nat, NEW step \in Nat \ {0}
    PROVE  /\ Multiple(RoundDown(x, step), step)
           /\ Multiple(x, step) => RoundDown(x, step) = x
  <1>1. x % step \in 0 .. step - 1 /\ x = step * (x \div step) + (x % step)
    OBVIOUS
  <1>2. x \div step \in Nat /\ step * (x \div step) \in Nat
    OBVIOUS
  <1>3. ASSUME NEW k \in Nat, x = step * k PROVE x % step = 0
    BY <1>3
  <1> DEFINE r == x % step
             d == x \div step
             m == step * d
  <1>4. m \in Nat /\ r \in Nat /\ d \in Nat /\ x = m + r
    BY <1>1, <1>2
  <1>5. RoundDown(x, step) = x - r
    BY DEF RoundDown
  <1>6. Multiple(x, step) => r = 0
    BY <1>3 DEF Multiple
  <1> HIDE DEF r
  <1>7. RoundDown(x, step) = m
    <2> HIDE DEF m
    <2> QED
      BY <1>4, <1>5
  <1>8. m = step * d
    OBVIOUS
  <1>9. Multiple(x, step) => RoundDown(x, step) = x
    BY <1>4, <1>5, <1>6
  <1> HIDE DEF m, d
  <1>10. Multiple(RoundDown(x, step), step)
    BY <1>4, <1>7, <1>8 DEF Multiple
  <1> QED
    BY <1>9, <1>10

LEMMA MultiplesAdd ==
    ASSUME NEW step \in Nat \ {0}, NEW x \in Nat, NEW y \in Nat,
           Multiple(x, step), Multiple(y, step)
    PROVE  Multiple(x + y, step) /\ (y <= x => Multiple(x - y, step))
  <1>1. PICK k \in Nat : x = step * k
    BY DEF Multiple
  <1>2. PICK l \in Nat : y = step * l
    BY DEF Multiple
  <1>3. x + y = step * (k + l) /\ k + l \in Nat
    BY <1>1, <1>2
  <1>4. ASSUME y <= x PROVE Multiple(x - y, step)
    <2>1. l <= k
      BY <1>1, <1>2, <1>4
    <2>2. k - l \in Nat /\ x - y = step * (k - l)
      BY <1>1, <1>2, <2>1
    <2> QED
      BY <2>2 DEF Multiple
  <1> QED
    BY <1>3, <1>4 DEF Multiple

LEMMA MultipleOfMultiple ==
    ASSUME NEW a \in Nat, NEW b \in Nat, NEW x, Multiple(x, a), Multiple(a, b)
    PROVE  Multiple(x, b)
  <1>1. PICK k \in Nat : x = a * k
    BY DEF Multiple
  <1>2. PICK l \in Nat : a = b * l
    BY DEF Multiple
  <1>3. x = b * (l * k) /\ l * k \in Nat
    BY <1>1, <1>2
  <1> QED
    BY <1>3 DEF Multiple

\* One of the lot step and the quantum of the precision is a multiple of the other.
StepsFit ==
    \/ Multiple(Constraints.lot_step, Constraints.qty_quantum)
    \/ Multiple(Constraints.qty_quantum, Constraints.lot_step)

\* the coarser one
Grain == IF Multiple(Constraints.lot_step, Constraints.qty_quantum)
         THEN Constraints.lot_step ELSE Constraints.qty_quantum

\* A filled quantity is in whole grains, and one that is in whole grains is filled as it is.
LEMMA FilledInGrains ==
    ASSUME StepsFit, NEW intent, intent.qty \in Nat
    PROVE  /\ Grain \in Nat \ {0}
           /\ Multiple(FilledQty(intent), Grain)
           /\ Multiple(intent.qty, Grain) => FilledQty(intent) = intent.qty
  <1> DEFINE step == Constraints.lot_step
             quantum == Constraints.qty_quantum
             x == intent.qty
             r == RoundDown(x, step)
             f == RoundDown(r, quantum)
  <1>1. step \in Nat \ {0} /\ quantum \in Nat \ {0}
    BY ConstraintsAssumption
  <1>2. FilledQty(intent) = f
    BY DEF FilledQty, normalize_order, normalize_qty_to_step, QuantizeDown
  <1>3. r \in Nat /\ Multiple(r, step) /\ (Multiple(x, step) => r = x)
    <2>1. r \in 0 .. x
      BY <1>1, RoundsDown
    <2>2. Multiple(r, step) /\ (Multiple(x, step) => r = x)
      <3> HIDE DEF step
      <3> QED
        BY <1>1, MultipleIs
    <2> QED
      BY <2>1, <2>2
  <1>4. Multiple(f, quantum) /\ (Multiple(r, quantum) => f = r)
    <2> HIDE DEF r, quantum
    <2> QED
      BY <1>1, <1>3, MultipleIs
  <1> DEFINE g == Grain
  <1>5. Grain = IF Multiple(step, quantum) THEN step ELSE quantum
    BY DEF Grain
  <1>6. Multiple(step, quantum) \/ Multiple(quantum, step)
    BY DEF StepsFit
  <1> HIDE DEF f, r, step, quantum
  <1>7. CASE Multiple(step, quantum)
    <2>1. Multiple(r, quantum)
      BY <1>1, <1>3, <1>7, MultipleOfMultiple
    <2> QED
      BY <1>1, <1>2, <1>3, <1>4, <1>5, <1>7, <2>1
  <1>8. CASE ~Multiple(step, quantum) /\ Multiple(quantum, step)
    <2>1. Multiple(x, quantum) => Multiple(x, step)
      BY <1>1, <1>8, MultipleOfMultiple
    <2> QED
      BY <1>1, <1>2, <1>3, <1>4, <1>5, <1>8, <2>1
  <1> QED
    BY <1>6, <1>7, <1>8

\* the sum of some types of fills
FillsOf(h, types) == {i \in DOMAIN h : h[i].type \in types}
SumOf(h, types) == MapThenSumSet(LAMBDA i : h[i].qty, FillsOf(h, types))

LEMMA SumIsTotal ==
    ASSUME NEW h, NEW X, IsFiniteSet(X)
    PROVE  MapThenSumSet(LAMBDA i : h[i].qty, X) = Total([i \in X |-> h[i].qty], X)
  <1> DEFINE Eq(it) == it = [s \in SUBSET X |->
                                IF s = {} THEN 0
                                ELSE h[CHOOSE x \in s : TRUE].qty
                                        + it[s \ {CHOOSE x \in s : TRUE}]]
             q == CHOOSE it : Eq(it)
             F == [i \in X |-> h[i].qty]
  <1>1. MapThenSumSet(LAMBDA i : h[i].qty, X) = q[X]
    BY DEF MapThenSumSet, MapThenFoldSet
  <1>2. \A it : Eq(it) <=> IsSum(it, F, X)
    <2> SUFFICES ASSUME NEW it PROVE Eq(it) <=> IsSum(it, F, X)
      OBVIOUS
    <2> DEFINE f(s) == IF s = {} THEN 0 ELSE h[OneOf(s)].qty + it[s \ {OneOf(s)}]
               g(s) == IF s = {} THEN 0 ELSE F[OneOf(s)] + it[s \ {OneOf(s)}]
    <2>1. \A s \in SUBSET X : f(s) = g(s)
      BY OneOfIsIn
    <2>2. Eq(it) <=> it = [s \in SUBSET X |-> f(s)]
      BY DEF OneOf
    <2>3. IsSum(it, F, X) <=> it = [s \in SUBSET X |-> g(s)]
      BY DEF IsSum
    <2> HIDE DEF f, g, Eq, F
    <2>4. [s \in SUBSET X |-> f(s)] = [s \in SUBSET X |-> g(s)]
      BY <2>1
    <2> QED
      BY <2>2, <2>3, <2>4
  <1>3. PICK it : IsSum(it, F, X)
    BY SumExists
  <1> HIDE DEF Eq, F
  <1>4. IsSum(q, F, X)
    BY <1>2, <1>3
  <1>5. PICK jt : IsSum(jt, F, X) /\ Total(F, X) = jt[X]
    BY TotalIs
  <1> HIDE DEF q
  <1>6. q[X] = jt[X]
    BY <1>4, <1>5, SumIsUnique DEF Agree
  <1> QED
    BY <1>1, <1>5, <1>6 DEF F

Summable(h) == IsFiniteSet(DOMAIN h) /\ \A i \in DOMAIN h : h[i].qty \in Nat

LEMMA SumOfFills ==
    ASSUME NEW h, Summable(h), NEW types
    PROVE  /\ IsFiniteSet(FillsOf(h, types)) /\ FillsOf(h, types) \subseteq DOMAIN h
           /\ SumOf(h, types) = Total([i \in FillsOf(h, types) |-> h[i].qty], FillsOf(h, types))
           /\ SumOf(h, types) \in Nat
  <1> DEFINE X == FillsOf(h, types)
             F == [i \in X |-> h[i].qty]
  <1>1. X \subseteq DOMAIN h
    BY DEF FillsOf
  <1>2. IsFiniteSet(DOMAIN h)
    BY DEF Summable
  <1>3. \A i \in X : F[i] = h[i].qty /\ h[i].qty \in Nat
    BY <1>1 DEF Summable
  <1>4. SumOf(h, types) = MapThenSumSet(LAMBDA i : h[i].qty, X)
    BY DEF SumOf
  <1> HIDE DEF X
  <1>5. IsFiniteSet(X)
    BY <1>1, <1>2, FS_Subset
  <1>6. MapThenSumSet(LAMBDA i : h[i].qty, X) = Total(F, X)
    BY <1>5, SumIsTotal
  <1>7. Total(F, X) \in Nat
    <2>1. \A i \in X : F[i] \in Nat
      BY <1>3
    <2> HIDE DEF F
    <2> QED
      BY <1>5, <2>1, TotalIsNat
  <1>8. /\ IsFiniteSet(X) /\ X \subseteq DOMAIN h
        /\ SumOf(h, types) = Total(F, X) /\ SumOf(h, types) \in Nat
    BY <1>1, <1>4, <1>5, <1>6, <1>7
  <1> QED
    BY <1>8 DEF X

\* One fill more, and the sum of its type is higher by its quantity.
LEMMA SumOfOneMore ==
    ASSUME NEW h, Summable(h), NEW k, Summable(k), NEW n, n \notin DOMAIN h,
           DOMAIN k = DOMAIN h \cup {n}, \A i \in DOMAIN h : k[i] = h[i], NEW types
    PROVE  SumOf(k, types) = SumOf(h, types) + (IF k[n].type \in types THEN k[n].qty ELSE 0)
  <1> DEFINE X == FillsOf(h, types)
             Y == FillsOf(k, types)
             G == [i \in X |-> h[i].qty]
             F == [i \in Y |-> k[i].qty]
             old == Total(G, X)
             new == Total(F, Y)
  <1>1. /\ IsFiniteSet(X) /\ SumOf(h, types) = old /\ SumOf(h, types) \in Nat
        /\ X \subseteq DOMAIN h
    BY SumOfFills
  <1>2. /\ IsFiniteSet(Y) /\ SumOf(k, types) = new /\ SumOf(k, types) \in Nat
        /\ Y \subseteq DOMAIN k
    BY SumOfFills
  <1>3. Y = IF k[n].type \in types THEN X \cup {n} ELSE X
    BY DEF FillsOf
  <1>4. \A i \in X : G[i] = h[i].qty /\ (i \in Y => F[i] = h[i].qty)
    BY <1>1
  <1>5. \A i \in Y : F[i] = k[i].qty /\ k[i].qty \in Nat
    BY <1>2 DEF Summable
  <1> HIDE DEF X, Y, G, F, old, new
  <1>6. CASE k[n].type \notin types
    <2>1. Y = X
      BY <1>3, <1>6
    <2>2. Agree(G, F, X)
      BY <1>4, <2>1 DEF Agree
    <2>3. Total(G, X) = Total(F, X)
      BY <1>1, <2>2, TotalsAgree
    <2>4. new = old
      BY <2>1, <2>3 DEF old, new
    <2> QED
      BY <1>1, <1>2, <1>6, <2>4
  <1>7. CASE k[n].type \in types
    <2>1. n \in Y /\ Y \ {n} = X
      BY <1>1, <1>3, <1>7
    <2>2. Agree(G, F, X)
      BY <1>4, <2>1 DEF Agree
    <2>3. \A i \in Y : F[i] \in Int
      BY <1>5
    <2>4. Total(F, Y) = F[n] + Total(G, X)
      <3>1. Grown(F, Y, G, X, n)
        BY <1>2, <2>1, <2>2, <2>3 DEF Grown, Agree
      <3> QED
        BY <3>1, TotalGrows
    <2>5. new = k[n].qty + old /\ k[n].qty \in Nat
      BY <1>5, <2>1, <2>4 DEF old, new
    <2> QED
      BY <1>1, <1>2, <1>7, <2>5
  <1> QED
    BY <1>6, <1>7

NetOK == Inv /\ PositionIsNetOfFills /\ Multiple(state.pos_size_abs, Grain)

Net == state.pos_size_abs = SumOf(fills, OpenTypes) - SumOf(fills, CoverTypes)

LEMMA NetIs == PositionIsNetOfFills <=> Net
  BY DEF PositionIsNetOfFills, Net, SumOf, FillsOf

LEMMA NetAfter ==
    PositionIsNetOfFills' <=>
        state'.pos_size_abs = SumOf(fills', OpenTypes) - SumOf(fills', CoverTypes)
  <1>1. PositionIsNetOfFills' <=> Net'
    BY NetIs, PTL
  <1> QED
    BY <1>1 DEF Net

LEMMA NetStays ==
    ASSUME state' = state, fills' = fills
    PROVE  PositionIsNetOfFills' <=> PositionIsNetOfFills
  BY NetIs, NetAfter DEF Net

\* The position goes up by what is sold and down by what is covered; an exit covers the
\* whole position, which is in whole grains and so filled as it is.
LEMMA PositionAfterFill ==
    ASSUME StepsFit, NetOK, NEW intent, Legal(intent), NEW f, FillOf(intent, f)
    PROVE  /\ f.type \in OpenTypes => state'.pos_size_abs = state.pos_size_abs + f.qty
           /\ f.type \in CoverTypes =>
                 /\ f.qty <= state.pos_size_abs
                 /\ state'.pos_size_abs = state.pos_size_abs - f.qty
  <1> DEFINE lots == state.lots
             pos == state.pos_size_abs
             new == state'.lots
             after == state'.pos_size_abs
  <1>1. /\ f.type = intent.intent_type /\ f.qty = FilledQty(intent) /\ f.qty \in Nat \ {0}
        /\ f.qty \in 1 .. intent.qty /\ intent.qty \in Nat
        /\ AfterFill(state', state, Keys, intent, f.qty, candle)
    BY DEF FillOf, Legal
  <1>2. /\ pos = Quantity(lots) /\ LotBook(lots, Keys) /\ pos \in Nat
        /\ after = Quantity(new) /\ LotBook(new, Keys)
    BY <1>1 DEF NetOK, Inv, StateOK, AfterFill, Booked, Bookable, BotState
  <1>3. /\ \A l \in lots : l.qty \in Nat /\ Quantity(lots) = l.qty + Quantity(lots \ {l})
        /\ \A l \in new : l.qty \in Nat /\ Quantity(new) = l.qty + Quantity(new \ {l})
        /\ Quantity({}) = 0
        /\ \A s : s \subseteq lots => Quantity(s) \in Nat
    <2>1. ASSUME NEW s, Amounts(s)
          PROVE  /\ \A l \in s : l.qty \in Nat /\ Quantity(s) = l.qty + Quantity(s \ {l})
                 /\ Quantity(s) \in Nat
      BY <2>1, QuantitySplits DEF Amounts
    <2>2. Amounts(lots) /\ Amounts(new)
      BY <1>2, BookHasAmounts
    <2>3. Amounts({}) /\ Quantity({}) = 0
      BY FS_EmptySet, QuantitySplits DEF Amounts
    <2>4. ASSUME NEW s, s \subseteq lots PROVE Amounts(s)
      BY <2>2, <2>4, FS_Subset DEF Amounts
    <2> HIDE DEF lots, new
    <2>5. \A s : s \subseteq lots => Quantity(s) \in Nat
      BY <2>1, <2>4
    <2>6. \A l \in lots : l.qty \in Nat /\ Quantity(lots) = l.qty + Quantity(lots \ {l})
      BY <2>1, <2>2
    <2>7. \A l \in new : l.qty \in Nat /\ Quantity(new) = l.qty + Quantity(new \ {l})
      BY <2>1, <2>2
    <2> QED
      BY <2>3, <2>5, <2>6, <2>7
  <1>4. CASE f.type \in OpenTypes
    <2>1. LotOpened(new, state, Keys, f.qty, candle.close)
      BY <1>1, <1>4 DEF AfterFill
    <2>2. PICK lot : /\ lot.qty = f.qty /\ lot \notin lots /\ new = lots \cup {lot}
      BY <2>1 DEF LotOpened
    <2>3. lot \in new /\ new \ {lot} = lots
      BY <2>2
    <2>4. Quantity(new) = f.qty + Quantity(lots)
      BY <1>3, <2>2, <2>3
    <2>5. after = pos + f.qty
      <3> HIDE DEF lots, pos, new, after
      <3> QED
        BY <1>1, <1>2, <2>4
    <2> QED
      BY <1>4, <2>5 DEF OpenTypes, CoverTypes
  <1>5. CASE f.type = "SUB_COVER"
    <2> DEFINE last == get_last_lot(state)
               rest == lots \ {last}
               left == [last EXCEPT !.qty = @ - f.qty]
    <2>1. /\ last \in lots /\ f.qty \in 1 .. last.qty
          /\ new = rest \cup (IF f.qty = last.qty THEN {} ELSE {left})
      BY <1>1, <1>5 DEF AfterFill, LotCovered
    <2>2. /\ last.qty \in Nat /\ Quantity(lots) = last.qty + Quantity(rest)
          /\ Quantity(rest) \in Nat
      BY <1>3, <2>1
    <2>3. Quantity(new) = Quantity(lots) - f.qty
      <3>1. CASE f.qty = last.qty
        <4>1. new = rest
          BY <2>1, <3>1
        <4> HIDE DEF rest, last, new, lots
        <4> QED
          BY <2>2, <3>1, <4>1
      <3>2. CASE f.qty # last.qty
        <4>1. new = rest \cup {left}
          BY <2>1, <3>2
        <4>2. last \in Lot(Keys) /\ Distinct(lots)
          BY <1>2, <2>1 DEF LotBook
        <4>3. left.qty = last.qty - f.qty /\ left.id = last.id
          BY <4>2 DEF Lot
        <4>4. left \notin rest
          <5>1. \A l \in rest : l.id # last.id
            BY <2>1, <4>2 DEF Distinct
          <5> QED
            BY <4>3, <5>1
        <4>5. left \in new /\ new \ {left} = rest
          BY <4>1, <4>4
        <4>6. Quantity(new) = left.qty + Quantity(rest)
          BY <1>3, <4>5
        <4> HIDE DEF rest, last, left, new, lots
        <4> QED
          BY <1>1, <2>2, <4>3, <4>6
      <3> QED
        BY <3>1, <3>2
    <2>4. f.qty <= Quantity(lots)
      <3>1. f.qty \in Nat /\ f.qty <= last.qty
        BY <2>1
      <3> HIDE DEF last, rest, lots
      <3> QED
        BY <2>2, <3>1
    <2>5. after = pos - f.qty /\ f.qty <= pos
      BY <1>2, <2>3, <2>4
    <2> QED
      BY <1>5, <2>5 DEF OpenTypes, CoverTypes
  <1>6. CASE f.type \in Exits
    <2>1. new = {}
      BY <1>1, <1>6 DEF AfterFill
    <2>2. intent.qty = pos
      BY <1>1, <1>6 DEF Legal
    <2>3. FilledQty(intent) = pos
      BY <1>1, <2>2, FilledInGrains DEF NetOK
    <2>4. after = pos - f.qty /\ f.qty <= pos
      BY <1>1, <1>2, <1>3, <2>1, <2>3
    <2> QED
      BY <1>6, <2>4 DEF OpenTypes, CoverTypes, Exits
  <1>7. f.type \in OpenTypes \/ f.type = "SUB_COVER" \/ f.type \in Exits
    BY <1>1 DEF Legal, CoverTypes, Exits
  <1> QED
    BY <1>4, <1>5, <1>6, <1>7

LEMMA FillsAreSummable == Inv => Summable(fills)
  <1> SUFFICES ASSUME Inv PROVE Summable(fills)
    OBVIOUS
  <1>1. DOMAIN fills = 1 .. Len(fills) /\ Len(fills) \in Nat
    BY FillsAreFinite DEF Inv, DInv
  <1>2. IsFiniteSet(DOMAIN fills)
    BY <1>1, FS_Interval
  <1> QED
    BY <1>2 DEF Inv, StateOK, Summable

LEMMA SubmitKeepsNet ==
    ASSUME StepsFit, NetOK, NEW intent, Legal(intent), Submit(intent), Inv'
    PROVE  NetOK'
  <1>1. (state' = state /\ fills' = fills) \/ \E f : FillOf(intent, f)
    BY SubmitOutcome DEF NetOK
  <1>2. CASE state' = state /\ fills' = fills
    BY <1>2, NetStays DEF NetOK
  <1>3. ASSUME NEW f, FillOf(intent, f) PROVE NetOK'
    <2> DEFINE n == Len(fills) + 1
               opens == SumOf(fills, OpenTypes)
               covers == SumOf(fills, CoverTypes)
               pos == state.pos_size_abs
    <2>1. /\ fills' = Append(fills, f) /\ f.type \in OpenTypes \cup CoverTypes
          /\ f.qty \in Nat /\ f.qty = FilledQty(intent) /\ intent.qty \in Nat
      BY <1>3 DEF FillOf, Legal
    <2>2. /\ DOMAIN fills' = DOMAIN fills \cup {n} /\ n \notin DOMAIN fills
          /\ fills'[n] = f /\ \A i \in DOMAIN fills : fills'[i] = fills[i]
      BY <2>1, OneMoreFill DEF NetOK, Inv, DInv
    <2>3. Summable(fills)
      BY FillsAreSummable DEF NetOK
    <2>4. Summable(fills')
      <3>1. IsFiniteSet(DOMAIN fills \cup {n})
        BY <2>3, FS_AddElement DEF Summable
      <3> QED
        BY <2>1, <2>2, <2>3, <3>1 DEF Summable
    <2> HIDE DEF n
    <2>5. ASSUME NEW types
          PROVE  SumOf(fills', types) =
                     SumOf(fills, types) + (IF f.type \in types THEN f.qty ELSE 0)
      BY <2>2, <2>3, <2>4, SumOfOneMore
    <2>6. /\ SumOf(fills', OpenTypes) = opens + (IF f.type \in OpenTypes THEN f.qty ELSE 0)
          /\ SumOf(fills', CoverTypes) = covers + (IF f.type \in CoverTypes THEN f.qty ELSE 0)
          /\ opens \in Nat /\ covers \in Nat /\ pos = opens - covers /\ pos \in Nat
      <3>1. pos \in Nat
        BY DEF NetOK, Inv, StateOK, Booked, Bookable, BotState
      <3> QED
        BY <2>3, <2>5, <3>1, SumOfFills, NetIs DEF NetOK, Net
    <2>7. OpenTypes \cap CoverTypes = {}
      BY DEF OpenTypes, CoverTypes
    <2>8. /\ f.type \in OpenTypes => state'.pos_size_abs = pos + f.qty
          /\ f.type \in CoverTypes => f.qty <= pos /\ state'.pos_size_abs = pos - f.qty
      BY <1>3, PositionAfterFill
    <2>9. Multiple(f.qty, Grain) /\ Grain \in Nat \ {0} /\ Multiple(pos, Grain)
      BY <2>1, FilledInGrains DEF NetOK
    <2> HIDE DEF opens, covers, pos
    <2>10. state'.pos_size_abs = SumOf(fills', OpenTypes) - SumOf(fills', CoverTypes)
      BY <2>1, <2>6, <2>7, <2>8
    <2>11. Multiple(state'.pos_size_abs, Grain)
      BY <2>1, <2>6, <2>8, <2>9, MultiplesAdd
    <2>12. PositionIsNetOfFills'
      BY <2>10, NetAfter
    <2> QED
      BY <2>11, <2>12 DEF NetOK
  <1> QED
    BY <1>1, <1>2, <1>3

LEMMA InitNet == ASSUME StepsFit PROVE Init => NetOK
  <1> SUFFICES ASSUME Init PROVE NetOK
    OBVIOUS
  <1>1. Inv /\ fills = << >> /\ state.pos_size_abs = 0
    BY InitInv DEF Init, CleanState
  <1>2. \A types : SumOf(fills, types) = 0
    <2> SUFFICES ASSUME NEW types PROVE SumOf(fills, types) = 0
      OBVIOUS
    <2>1. FillsOf(fills, types) = {}
      BY <1>1 DEF FillsOf
    <2>2. Total([i \in {} |-> fills[i].qty], {}) = 0
      BY TotalOfNone
    <2> QED
      BY <1>1, <2>1, <2>2, FillsAreSummable, SumOfFills
  <1>3. Multiple(0, Grain)
    <2>1. Grain \in Nat
      BY ConstraintsAssumption DEF Grain
    <2>2. 0 = Grain * 0
      BY <2>1
    <2> QED
      BY <2>2 DEF Multiple
  <1> QED
    BY <1>1, <1>2, <1>3, NetIs DEF NetOK, Net

LEMMA NextNet == ASSUME StepsFit PROVE NetOK /\ [Next]_vars => NetOK'
  <1> SUFFICES ASSUME NetOK, [Next]_vars PROVE NetOK'
    OBVIOUS
  <1>1. Inv'
    BY NextInv DEF NetOK
  <1>2. ASSUME state' = state, fills' = fills PROVE NetOK'
    BY <1>1, <1>2, NetStays DEF NetOK
  <1>3. CASE UNCHANGED vars
    BY <1>2, <1>3 DEF vars
  <1>4. CASE Next
    <2>1. \/ \E gap \in 1 .. 2, close \in Prices : NextBar(gap, close)
          \/ \E intent : Legal(intent) /\ Submit(intent)
      BY <1>4, NextIsSubmit DEF NetOK
    <2>2. ASSUME NEW gap \in 1 .. 2, NEW close \in Prices, NextBar(gap, close) PROVE NetOK'
      BY <1>2, <2>2 DEF NextBar
    <2> QED
      BY <1>1, <2>1, <2>2, SubmitKeepsNet
  <1> QED
    BY <1>3, <1>4

-----------------------------------------------------------------------------
(* What it is for *)

\* No sequence of fills makes the executor's own state one that the risk manager refuses:
\* position size and book agree, and every fill is of some quantity
\* (_apply_fill_to_state, _invalid_state_reason).
THEOREM OwnFillsAreAccepted == Spec => []TypeOK
  <1>1. Inv => TypeOK
    BY BookedIsValid DEF Inv, StateOK, TypeOK, Booked, Bookable
  <1> QED
    BY <1>1, SpecInv, PTL

\* No three minutes of a session hold more than MAX_ORDERS_PER_3MIN fills, whatever bar
\* they end at: every fill is in orders_last_3min when the next one is counted
\* (RiskManager.check_intent, _apply_fill_to_state).
THEOREM WindowKeepsLimit == Spec => []RateLimit
  <1>1. Inv => RateLimit
    BY DEF Inv, WindowOK
  <1> QED
    BY <1>1, SpecInv, PTL

\* The position is what was sold less what was covered, if the lot step and the quantum
\* of the quantity precision fit into each other, as steps that are powers of ten do: an
\* exit is then filled for the whole position that it closes (OrderNormalizer, close_all).
THEOREM FillsMakePosition == ASSUME StepsFit PROVE Spec => []PositionIsNetOfFills
  <1>1. NetOK => PositionIsNetOfFills
    BY DEF NetOK
  <1> QED
    BY <1>1, InitNet, NextNet, PTL DEF Spec

\* A bar without an exit has at most MAX_DCA_PER_BAR fills of DCAs and at most
\* MAX_SUBCOVER_PER_BAR of sub-covers (fills_this_bar and subcovers_this_bar, which are
\* never less than the bar's own).
THEOREM CapsHoldPerBar == Spec => []PerBarCaps
  <1>1. DInv => PerBarCaps
    BY DEF DInv, CountersOK
  <1> QED
    BY <1>1, InitDInv, NextDInv, PTL DEF Spec

\* The lots in their order are a stack with partial covers too: an open goes on top, a
\* cover takes the top lot or a part of it (add_short_lot, close_last_lot, close_all).
THEOREM FillsImplementStack == Spec => LifoBook
  <1>1. Init => Lots!Init
    BY EmptyBook DEF Init, CleanState, Lots!Init
  <1>2. ASSUME Inv, NEW intent, Legal(intent), Submit(intent)
        PROVE  Lots!Next \/ Book(state'.lots) = Book(state.lots)
    <2> DEFINE b == Book(state.lots)
    <2>1. state' = state \/ \E f : FillOf(intent, f)
      BY <1>2, SubmitOutcome
    <2>2. CASE state' = state
      BY <2>2
    <2>3. ASSUME NEW f, FillOf(intent, f) PROVE Lots!Next
      <3>1. /\ AfterFill(state', state, Keys, intent, f.qty, candle) /\ LotBook(state.lots, Keys)
            /\ intent.intent_type \in OpenTypes \/ intent.intent_type = "SUB_COVER"
                  \/ intent.intent_type \in Exits
        BY <1>2, <2>3
        DEF FillOf, Legal, CoverTypes, Exits, Inv, StateOK, Booked, Bookable
      <3>2. CASE intent.intent_type \in Exits
        BY <3>1, <3>2, EmptyBook DEF AfterFill, Lots!Next, Lots!CloseAll
      <3>3. CASE intent.intent_type \in OpenTypes
        <4>1. PICK lot \in Lot(Keys) :
                  /\ lot \notin state.lots
                  /\ \A l \in state.lots : l.open_sequence < lot.open_sequence
                  /\ state'.lots = state.lots \cup {lot}
          BY <3>1, <3>3 DEF AfterFill, LotOpened
        <4>2. /\ lot.open_sequence \in Nat
              /\ Amount(lot) \in [qty : Nat \ {0}, entry_price : Nat]
          BY DEF Lot, Amount
        <4> DEFINE c == Book(state.lots \cup {lot})
        <4>3. /\ Len(c) = Len(b) + 1 /\ SubSeq(c, 1, Len(b)) = b /\ c[Len(c)] = Amount(lot)
          BY <3>1, <4>1, <4>2, BookWithOneMore
        <4> QED
          BY <4>1, <4>2, <4>3 DEF Lots!Next, Lots!Open
      <3>4. CASE intent.intent_type = "SUB_COVER"
        <4> DEFINE last == get_last_lot(state)
                   left == [last EXCEPT !.qty = @ - f.qty]
                   q == last.qty - f.qty
                   under == SubSeq(b, 1, Len(b) - 1)
        <4>1. /\ f.qty \in 1 .. last.qty
              /\ state'.lots = (state.lots \ {last}) \cup
                                   (IF f.qty = last.qty THEN {} ELSE {left})
              /\ last \in state.lots
          BY <3>1, <3>4 DEF AfterFill, LotCovered
        <4>2. \A k \in state.lots \ {last} : k.open_sequence < last.open_sequence
          BY <3>1, <4>1, LastLotIs
        <4>3. last \in Lot(Keys)
          BY <3>1, <4>1 DEF LotBook
        <4>4. left = [last EXCEPT !.qty = q] /\ last.qty \in Nat \ {0}
          BY <4>3 DEF Lot
        <4> HIDE DEF last, left, q
        <4>5. /\ b # <<>> /\ b[Len(b)] = Amount(last) /\ Book(state.lots \ {last}) = under
              /\ Book((state.lots \ {last}) \cup {[last EXCEPT !.qty = q]})
                    = Append(under, [Amount(last) EXCEPT !.qty = q])
          <5>1. LotBook(state.lots, Keys) /\ last \in state.lots
            BY <3>1, <4>1
          <5> QED
            BY <4>2, <5>1, BookWithoutTop
        <4>6. CASE f.qty = last.qty
          <5>1. state'.lots = state.lots \ {last}
            BY <4>1, <4>6
          <5> QED
            BY <4>5, <5>1 DEF Lots!Next, Lots!CloseTop, Lots!Below
        <4>7. CASE f.qty # last.qty
          <5>1. state'.lots = (state.lots \ {last}) \cup {[last EXCEPT !.qty = q]}
            BY <4>1, <4>4, <4>7
          <5>2. q \in 1 .. last.qty - 1
            BY <4>1, <4>4, <4>7 DEF q
          <5>3. Amount(last).qty = last.qty
            BY DEF Amount
          <5>4. Lots!ReduceTop
            BY <4>5, <5>1, <5>2, <5>3 DEF Lots!ReduceTop, Lots!Below
          <5> QED
            BY <5>4 DEF Lots!Next
        <4> QED
          BY <4>6, <4>7
      <3> QED
        BY <3>1, <3>2, <3>3, <3>4
    <2> QED
      BY <2>1, <2>2, <2>3
  <1>3. Inv /\ [Next]_vars => [Lots!Next]_(Book(state.lots))
    <2> SUFFICES ASSUME Inv, [Next]_vars
                 PROVE  Lots!Next \/ Book(state'.lots) = Book(state.lots)
      OBVIOUS
    <2>1. CASE UNCHANGED vars
      BY <2>1 DEF vars
    <2>2. CASE Next
      <3>1. \/ \E gap \in 1 .. 2, close \in Prices : NextBar(gap, close)
            \/ \E intent : Legal(intent) /\ Submit(intent)
        BY <2>2, NextIsSubmit
      <3>2. ASSUME NEW gap \in 1 .. 2, NEW close \in Prices, NextBar(gap, close)
            PROVE  Book(state'.lots) = Book(state.lots)
        BY <3>2 DEF NextBar
      <3> QED
        BY <1>2, <3>1, <3>2
    <2> QED
      BY <2>1, <2>2
  <1> QED
    BY <1>1, <1>3, SpecInv, PTL DEF Spec, LifoBook, Lots!Spec
=============================================================================
