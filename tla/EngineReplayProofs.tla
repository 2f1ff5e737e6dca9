-------------------------- MODULE EngineReplayProofs --------------------------
(***************************************************************************)
(* What the strategy promises of its own run, for any settings, any prices *)
(* and any number of sells.                                                *)
(***************************************************************************)
EXTENDS EngineReplay, BotStateProofs

-----------------------------------------------------------------------------
(* The invariant of the state, and what the operations do to it *)

\* SellsCoverLots, of any state.
Sells(st) ==
    /\ Cardinality(st.lots) <= st.num_sells
    /\ Cardinality(st.lots) < st.num_sells => st.num_sells > 5
    /\ IF st.num_sells = 0 THEN st.cycle_base_qty = 0 /\ ~st.trailing_active
       ELSE st.cycle_base_qty > 0

\* The book accounts for the state; sub-covers take lots but no sells; a position has its
\* next level.
Sound(st) ==
    /\ Booked(st, Keys)
    /\ Sells(st)
    /\ (st.next_level_price # None) <=> (st.lots # {})

Inv == Sound(state) /\ state.num_sells <= MaxSells

\* Where a step may leave the book: as it was, empty, without its newest lot, or with one
\* lot more, opened at this price, and within the limit if there are others.
Opened(s, st, price) ==
    /\ s.num_sells = st.num_sells + 1
    /\ \E lot \in Lot(Keys) :
          /\ lot.entry_price = price /\ lot \notin st.lots
          /\ \A l \in st.lots : l.open_sequence < lot.open_sequence
          /\ s.lots = st.lots \cup {lot}

BookStep(s, st, price) ==
    \/ s.lots = st.lots /\ s.num_sells = st.num_sells
    \/ s.lots = {}
    \/ /\ st.lots # {} /\ s.num_sells = st.num_sells
       /\ s.lots = st.lots \ {get_last_lot(st)}
    \/ /\ Opened(s, st, price)
       /\ st.lots # {} => st.num_sells < Settings.margin_call_limit

SameTrailing(s, st) ==
    s.trailing_active = st.trailing_active /\ s.trailing_min = st.trailing_min

LEMMA SoundIs ==
    ASSUME NEW st, Sound(st)
    PROVE  /\ st \in BotState(Keys) /\ Bookable(st, Keys)
           /\ LotBook(st.lots, Keys) /\ IsFiniteSet(st.lots)
           /\ Cardinality(st.lots) \in Nat /\ st.num_sells \in Nat /\ st.cycle_base_qty \in Nat
           /\ st.trailing_active \in BOOLEAN
           /\ st.trailing_active => st.trailing_min \in Nat
           /\ st.lots # {} => st.num_sells > 0
  <1>1. Bookable(st, Keys) /\ st \in BotState(Keys) /\ LotBook(st.lots, Keys)
    BY DEF Sound, Booked, Bookable
  <1>2. IsFiniteSet(st.lots) /\ Cardinality(st.lots) \in Nat
    BY <1>1, FS_CardinalityType DEF LotBook
  <1>3. /\ st.num_sells \in Nat /\ st.cycle_base_qty \in Nat /\ st.trailing_active \in BOOLEAN
        /\ st.trailing_active => st.trailing_min \in Nat
    BY <1>1 DEF BotState, Bookable, TrailingHasMin, Optional
  <1>4. st.lots # {} => Cardinality(st.lots) # 0
    BY <1>2, FS_EmptySet
  <1> QED
    BY <1>1, <1>2, <1>3, <1>4 DEF Sound, Sells

LEMMA LotAdded ==
    ASSUME NEW st, Sound(st), NEW id \in Keys, \A l \in st.lots : l.id # id,
           NEW qty \in Nat \ {0}, NEW p \in Nat, NEW lvl \in Nat
    PROVE  LET s == add_short_lot(st, id, qty, p, lvl) IN
           Sound(s) /\ Opened(s, st, p) /\ SameTrailing(s, st)
  <1> DEFINE s == add_short_lot(st, id, qty, p, lvl)
             lot == [id |-> id, qty |-> qty, entry_price |-> p,
                     open_sequence |-> next_open_sequence(st.lots)]
  <1>1. lvl \in Optional(Nat) /\ lvl # None
    BY NoneAssumption DEF Optional
  <1>2. /\ Booked(s, Keys) /\ LevelAfter(s, st, lvl)
        /\ s.lots = st.lots \cup {lot} /\ lot \notin st.lots
        /\ SameRest(s, st) /\ s.num_sells = st.num_sells + 1
    BY <1>1, SoundIs, AddedLotIsBooked
  <1>3. s.cycle_base_qty > 0
    <2> DEFINE b == BookLot(st, lot)
    <2>1. b.cycle_base_qty > 0 /\ s = recalculate_position_fields(b, p, lvl)
      BY SoundIs DEF BookLot, BotState, add_short_lot
    <2> HIDE DEF b
    <2> QED
      BY <2>1 DEF recalculate_position_fields
  <1>4. Sells(s)
    <2>1. Cardinality(st.lots \cup {lot}) = Cardinality(st.lots) + 1
      BY <1>2, SoundIs, FS_AddElement
    <2> HIDE DEF lot, s
    <2>2. Sells(st) /\ st.num_sells \in Nat /\ Cardinality(st.lots) \in Nat
      BY SoundIs DEF Sound
    <2> QED
      BY <1>2, <1>3, <2>1, <2>2 DEF Sells
  <1>5. /\ lot \in Lot(Keys) /\ lot.entry_price = p
        /\ \A l \in st.lots : l.open_sequence < lot.open_sequence
    BY SoundIs, NextSequenceIsNew DEF Lot
  <1> HIDE DEF lot, s
  <1>6. Sound(s)
    BY <1>1, <1>2, <1>4 DEF Sound, LevelAfter
  <1> QED
    BY <1>2, <1>5, <1>6 DEF Opened, SameTrailing, SameRest, s

LEMMA LastLotClosed ==
    ASSUME NEW st, Sound(st), st.lots # {}, st.num_sells > 5, NEW p \in Nat
    PROVE  LET s == close_last_lot(st, get_last_lot(st).qty, p) IN
           /\ Sound(s) /\ SameTrailing(s, st) /\ s.num_sells = st.num_sells
           /\ s.lots = st.lots \ {get_last_lot(st)}
  <1> DEFINE last == get_last_lot(st)
             s == close_last_lot(st, last.qty, p)
  <1>1. last \in st.lots /\ last.qty \in Nat /\ last.qty > 0
    <2>1. last \in st.lots
      BY SoundIs, LastLotIs
    <2>2. \A l \in st.lots : l.qty \in Nat /\ l.qty > 0
      BY SoundIs DEF LotBook, Lot
    <2> QED
      BY <2>1, <2>2
  <1>2. CanCloseLastLot(st, last.qty)
    BY <1>1 DEF CanCloseLastLot
  <1> HIDE DEF last
  <1>3. /\ Booked(s, Keys) /\ LevelAfter(s, st, None)
        /\ SameRest(s, st) /\ SameCycle(s, st)
        /\ s.lots = (st.lots \ {last}) \cup {}
    BY <1>1, <1>2, SoundIs, ClosedLotIsBooked DEF last
  <1> HIDE DEF s
  <1>4. Cardinality(s.lots) <= Cardinality(st.lots) /\ Cardinality(s.lots) \in Nat
    BY <1>3, SoundIs, FS_Subset, FS_CardinalityType
  <1>5. Sound(s)
    <2>1. Sells(s)
      BY <1>3, <1>4, SoundIs DEF Sound, Sells, SameCycle
    <2> QED
      BY <1>1, <1>3, <2>1 DEF Sound, LevelAfter
  <1> QED
    BY <1>3, <1>5 DEF SameTrailing, SameRest, SameCycle, s, last

LEMMA CycleReset ==
    ASSUME NEW st, Sound(st), NEW p \in Nat
    PROVE  LET s == reset_cycle(close_all(st, p)) IN
           Sound(s) /\ s.lots = {} /\ s.num_sells = 0
  <1> DEFINE s == reset_cycle(close_all(st, p))
  <1>1. /\ Booked(s, Keys) /\ s.lots = {} /\ s.next_level_price = None /\ s.num_sells = 0
        /\ s.cycle_base_qty = 0 /\ s.trailing_active = FALSE
    BY SoundIs, ResetIsBooked
  <1>2. Cardinality({}) = 0
    BY FS_EmptySet
  <1> HIDE DEF s
  <1>3. Sound(s)
    BY <1>1, <1>2 DEF Sound, Sells
  <1> QED
    BY <1>1, <1>3 DEF s

-----------------------------------------------------------------------------
(* A bar *)

LEMMA TrailingUpdated ==
    ASSUME NEW st, Sound(st), NEW c, Priced(c)
    PROVE  LET tr == UpdateTrailing(st, c) IN
           /\ st.lots # {} => Sound(tr)
           /\ SameBook(tr, st)
           /\ st.trailing_active => tr.trailing_active /\ tr.trailing_min <= st.trailing_min
  <1> DEFINE tr == UpdateTrailing(st, c)
  <1>1. /\ Booked(tr, Keys) /\ SameBook(tr, st)
        /\ st.trailing_active => tr.trailing_active /\ tr.trailing_min <= st.trailing_min
    BY TrailingIsBooked DEF Sound
  <1> HIDE DEF tr
  <1>2. ASSUME st.lots # {} PROVE Sound(tr)
    BY <1>1, <1>2, SoundIs DEF Sound, Sells, SameBook, SameCycle
  <1> QED
    BY <1>1, <1>2 DEF tr

LEMMA BarOutcome ==
    ASSUME NEW st, Sound(st), NEW c, Priced(c), c.close_time \in Times,
           \A l \in st.lots : l.id[2] # c.close_time,
           NEW even, NEW d, d = evaluate_bar(st, c, even), ~d.safe_stop_required
    PROVE  LET s == d.updated_state IN
           /\ Sound(s)
           /\ st.trailing_active /\ s.lots # {} =>
                 s.trailing_active /\ s.trailing_min <= st.trailing_min
           /\ BookStep(s, st, c.close)
  <1> DEFINE Goal(s) ==
                /\ Sound(s)
                /\ st.trailing_active /\ s.lots # {} =>
                      s.trailing_active /\ s.trailing_min <= st.trailing_min
                /\ BookStep(s, st, c.close)
             now == [st EXCEPT !.last_candle_time = c.close_time]
             tr == UpdateTrailing(now, c)
  <1> SUFFICES Goal(d.updated_state)
    OBVIOUS
  <1>1. /\ Sound(now) /\ SameBook(now, st) /\ SameTrailing(now, st)
        /\ st.trailing_active => st.trailing_min \in Nat
    <2>1. c.close_time \in Optional(Nat) /\ st \in BotState(Keys)
      BY SoundIs DEF Times, Optional
    <2>2. now \in BotState(Keys)
      BY <2>1 DEF BotState
    <2>3. SameBook(now, st) /\ SameTrailing(now, st)
      BY <2>1 DEF BotState, SameBook, SameCycle, SameTrailing
    <2> HIDE DEF now
    <2>4. Sound(now)
      BY <2>2, <2>3
      DEF Sound, Sells, Booked, Bookable, TrailingHasMin, SameBook, SameCycle, SameTrailing
    <2> QED
      BY <2>3, <2>4, SoundIs
  <1> HIDE DEF now
  <1>2. /\ st.lots # {} => Sound(tr)
        /\ SameBook(tr, st)
        /\ st.trailing_active => tr.trailing_active /\ tr.trailing_min <= st.trailing_min
    BY <1>1, TrailingUpdated DEF SameBook, SameCycle, SameTrailing
  <1> HIDE DEF tr
  <1>3. ASSUME NEW t, t = now \/ (t = tr /\ st.lots # {})
        PROVE  /\ Sound(t) /\ t.lots = st.lots /\ t.num_sells = st.num_sells
               /\ st.trailing_active => t.trailing_active /\ t.trailing_min <= st.trailing_min
    BY <1>1, <1>2, <1>3 DEF SameBook, SameCycle, SameTrailing
  <1>4. /\ c.close \in Nat /\ IntentKey("FIRST_SHORT", c) \in Keys
        /\ IntentKey("DCA_SHORT", c) \in Keys
        /\ \A type : \A l \in st.lots : l.id # IntentKey(type, c)
    BY DEF Priced, IntentKey, Keys, OpenTypes
  <1>5. ASSUME NEW t, t = now \/ (t = tr /\ st.lots # {}), d = Decision(t, None)
        PROVE  Goal(d.updated_state)
    BY <1>3, <1>5, Decided DEF BookStep
  <1>6. CASE d = FirstShort(now, c) /\ (now.pos_size_abs = 0 \/ now.lots = {})
    <2> DEFINE qty == BaseOrderQty(c.close)
               s == add_short_lot(now, IntentKey("FIRST_SHORT", c), qty, c.close,
                                  NextLevelPrice(c.close, 2))
    <2>1. qty \in Nat /\ NextLevelPrice(c.close, 2) \in Nat
      BY <1>4, BaseQtyIsNat, LevelIsNat
    <2>2. qty # 0 /\ d.updated_state = s
      BY <1>6, <2>1, Decided DEF FirstShort
    <2>3. Sound(s) /\ Opened(s, now, c.close) /\ SameTrailing(s, now)
      BY <1>1, <1>4, <2>1, <2>2, LotAdded DEF SameBook
    <2>4. st.lots = {}
      BY <1>1, <1>6, BookedIsValid DEF Sound, SameBook
    <2> HIDE DEF s, qty
    <2> QED
      BY <1>3, <2>2, <2>3, <2>4 DEF Opened, BookStep, SameTrailing
  <1>7. ASSUME NEW t, t = now \/ (t = tr /\ st.lots # {}), NEW type, d = Exit(now, t, c, type)
        PROVE  Goal(d.updated_state)
    <2> DEFINE s == reset_cycle(close_all(t, c.close))
    <2>1. Sound(s) /\ s.lots = {}
      BY <1>3, <1>4, <1>7, CycleReset
    <2>2. d.updated_state = s
      BY <1>7, Decided DEF Exit
    <2> HIDE DEF s
    <2> QED
      BY <2>1, <2>2 DEF BookStep
  <1>8. CASE st.lots # {} /\ d = Subcover(tr, c) /\ SubcoverDue(tr, c)
    <2> DEFINE s == close_last_lot(tr, get_last_lot(tr).qty, c.close)
    <2>1. tr.lots # {} /\ tr.num_sells > 5 /\ get_last_lot(tr) = get_last_lot(st)
      BY <1>3, <1>8 DEF SubcoverDue, get_last_lot
    <2>2. /\ Sound(s) /\ SameTrailing(s, tr) /\ s.num_sells = tr.num_sells
          /\ s.lots = tr.lots \ {get_last_lot(st)}
      BY <1>3, <1>4, <1>8, <2>1, LastLotClosed
    <2>3. d.updated_state = s
      BY <1>8, Decided DEF Subcover
    <2> HIDE DEF s
    <2>4. Sound(s) /\ BookStep(s, st, c.close) /\ s.lots \subseteq st.lots
      BY <1>3, <1>8, <2>1, <2>2 DEF BookStep
    <2> QED
      BY <1>3, <1>8, <2>2, <2>3, <2>4 DEF SameTrailing
  <1>9. CASE st.lots # {} /\ d = Dca(tr, c) /\ DcaDue(tr, c)
    <2> DEFINE n == tr.num_sells + 1
               qty == DcaQty(tr, c.close, n)
               lvl == NextLevelPrice(c.close, n + 1)
               s == add_short_lot(tr, IntentKey("DCA_SHORT", c), qty, c.close, lvl)
    <2>1. qty \in Int /\ lvl \in Nat
      BY <1>3, <1>4, <1>9, SoundIs, DcaQtyIsInt, LevelIsNat
    <2>2. qty > 0 /\ d.updated_state = s
      BY <1>9, <2>1, Decided DEF Dca
    <2>3. Sound(s) /\ SameTrailing(s, tr) /\ Opened(s, tr, c.close)
      <3>1. Sound(tr) /\ tr.lots = st.lots
        BY <1>3, <1>9
      <3>2. qty \in Nat \ {0}
        BY <2>1, <2>2
      <3>3. \A l \in tr.lots : l.id # IntentKey("DCA_SHORT", c)
        BY <1>4, <3>1
      <3> HIDE DEF qty, lvl
      <3> QED
        BY <1>4, <2>1, <3>1, <3>2, <3>3, LotAdded
    <2>4. tr.num_sells < Settings.margin_call_limit
      BY <1>9 DEF DcaDue
    <2> HIDE DEF s
    <2> QED
      BY <1>3, <1>9, <2>2, <2>3, <2>4 DEF SameTrailing, Opened, BookStep
  <1>10. \/ d = Decision(now, None)
         \/ d = FirstShort(now, c) /\ (now.pos_size_abs = 0 \/ now.lots = {})
         \/ /\ st.lots # {}
            /\ \/ d = Exit(now, now, c, "FULL_COVER")
               \/ d = Exit(now, tr, c, "TRAILING_TP")
               \/ d = Subcover(tr, c) /\ SubcoverDue(tr, c)
               \/ d = Dca(tr, c) /\ DcaDue(tr, c)
               \/ d = Decision(tr, None)
    <2>1. now.lots = st.lots
      BY <1>1 DEF SameBook
    <2> QED
      BY <2>1, BarDecision DEF now, tr
  <1> HIDE DEF Goal
  <1> QED
    BY <1>5, <1>6, <1>7, <1>8, <1>9, <1>10

\* There is always a close_time that names no open lot.
LEMMA TimeIsFresh ==
    ASSUME Inv
    PROVE  FreshTime \in Times /\ \A l \in state.lots : l.id[2] # FreshTime
  <1> DEFINE F == [l \in state.lots |-> l.id[2]]
             used == {F[l] : l \in state.lots}
             free == Times \ used
  <1>1. /\ IsFiniteSet(state.lots) /\ Cardinality(state.lots) \in Nat
        /\ state.num_sells \in Nat /\ Cardinality(state.lots) <= MaxSells /\ MaxSells \in Nat
    BY SoundIs, MaxSellsAssumption DEF Inv, Sound, Sells
  <1>2. used = {l.id[2] : l \in state.lots}
    OBVIOUS
  <1>3. IsFiniteSet(used) /\ Cardinality(used) <= Cardinality(state.lots)
    <2> HIDE DEF F
    <2> QED
      BY <1>1, ImageIsFinite
  <1>4. IsFiniteSet(Times) /\ Cardinality(Times) = MaxSells + 1 /\ Times \subseteq Nat
    <2>1. /\ IsFiniteSet(1 .. MaxSells + 1)
          /\ Cardinality(1 .. MaxSells + 1) = IF 1 > MaxSells + 1 THEN 0
                                               ELSE (MaxSells + 1) - 1 + 1
      BY <1>1, FS_Interval
    <2> QED
      BY <1>1, <2>1 DEF Times
  <1>5. \A l \in state.lots : l.id[2] \in used
    OBVIOUS
  <1> HIDE DEF used
  <1>6. free # {}
    <2> SUFFICES ASSUME Times \subseteq used PROVE FALSE
      OBVIOUS
    <2>1. Cardinality(Times) <= Cardinality(used) /\ Cardinality(used) \in Nat
      BY <1>3, FS_Subset, FS_CardinalityType
    <2> QED
      BY <1>1, <1>3, <1>4, <2>1
  <1>7. IsFiniteSet(free) /\ free \subseteq Int
    <2>1. free \in SUBSET Times
      OBVIOUS
    <2>2. IsFiniteSet(Times) /\ Times \subseteq Nat
      BY <1>4
    <2> HIDE DEF free
    <2>3. IsFiniteSet(free)
      BY <2>1, <2>2, FS_Subset
    <2> QED
      BY <2>1, <2>2, <2>3
  <1>8. FreshTime = Min(free)
    BY <1>2 DEF FreshTime
  <1> HIDE DEF free
  <1>9. FreshTime \in free
    BY <1>6, <1>7, <1>8, MinIs
  <1> QED
    BY <1>5, <1>9 DEF free

\* A bar is evaluate_bar on a candle of one of the shapes, whatever it comes to.
LEMMA BarIs ==
    ASSUME NEW s \in Shapes, NEW even \in BOOLEAN,
           \/ QuietBar(s, even) \/ FirstShortBar(s, even) \/ DcaBar(s, even)
           \/ SubcoverBar(s, even) \/ FullCoverBar(s, even) \/ TrailingBar(s, even)
    PROVE  \E d : /\ d = evaluate_bar(state, CandleOf(s), even) /\ ~d.safe_stop_required
                  /\ state' = d.updated_state /\ state'.num_sells <= MaxSells
                  /\ bar'.close = s.close
                  /\ bar'.type = IF d.intent = None THEN "none" ELSE d.intent.intent_type
  <1>1. PICK type : Bar(s, even, type)
    BY DEF QuietBar, FirstShortBar, DcaBar, SubcoverBar, FullCoverBar, TrailingBar
  <1> QED
    BY <1>1 DEF Bar

LEMMA NextOutcome ==
    ASSUME Inv, Next
    PROVE  /\ Inv'
           /\ state.trailing_active /\ state'.lots # {} =>
                 state'.trailing_active /\ state'.trailing_min <= state.trailing_min
           /\ BookStep(state', state, bar'.close) /\ bar'.close \in {s.close : s \in Shapes}
  <1>1. PICK s \in Shapes, even \in BOOLEAN :
            \/ QuietBar(s, even) \/ FirstShortBar(s, even) \/ DcaBar(s, even)
            \/ SubcoverBar(s, even) \/ FullCoverBar(s, even) \/ TrailingBar(s, even)
    BY DEF Next
  <1>2. PICK d : /\ d = evaluate_bar(state, CandleOf(s), even) /\ ~d.safe_stop_required
                 /\ state' = d.updated_state /\ state'.num_sells <= MaxSells
                 /\ bar'.close = s.close
    BY <1>1, BarIs
  <1> DEFINE c == CandleOf(s)
  <1>3. /\ Priced(c) /\ c.close = s.close
        /\ c.close_time \in Times /\ \A l \in state.lots : l.id[2] # c.close_time
    BY TimeIsFresh, ShapesAssumption DEF Priced, CandleOf
  <1> HIDE DEF c
  <1>4. /\ Sound(state')
        /\ state.trailing_active /\ state'.lots # {} =>
              state'.trailing_active /\ state'.trailing_min <= state.trailing_min
        /\ BookStep(state', state, c.close)
    BY <1>2, <1>3, BarOutcome DEF Inv, c
  <1> QED
    BY <1>2, <1>3, <1>4 DEF Inv

LEMMA InitInv == Init => Inv
  <1>1. Cardinality({}) = 0
    BY FS_EmptySet
  <1>2. /\ CleanState.lots = {} /\ CleanState.num_sells = 0
        /\ CleanState.next_level_price = None /\ CleanState.cycle_base_qty = 0
        /\ CleanState.trailing_active = FALSE
    BY DEF CleanState
  <1>3. Booked(CleanState, Keys) /\ 0 <= MaxSells
    BY CleanStateIsBooked, MaxSellsAssumption
  <1> QED
    BY <1>1, <1>2, <1>3 DEF Init, Inv, Sound, Sells

LEMMA NextInv == Inv /\ [Next]_vars => Inv'
  BY NextOutcome DEF vars, Inv, Sound

-----------------------------------------------------------------------------
(* What it is for *)

\* The engine never drives its own state into safe stop: through any bars the state keeps
\* its types, and position size, proceeds and book agree (_invalid_state_reason,
\* recalculate_position_fields).
THEOREM OwnStateIsAccepted == Spec => []TypeOK
  <1>1. Inv => TypeOK
    BY SoundIs, BookedIsValid DEF Inv, Sound, TypeOK
  <1> QED
    BY <1>1, InitInv, NextInv, PTL DEF Spec

\* Through any bars a position has a next DCA level, and a level has its position.
THEOREM LevelsFollowPosition == Spec => []LevelIffPosition
  <1>1. Inv => LevelIffPosition
    BY DEF Inv, Sound, LevelIffPosition
  <1> QED
    BY <1>1, InitInv, NextInv, PTL DEF Spec

\* Through any bars num_sells is not less than the open lots, a cycle has the base quantity
\* its DCAs refer to, and sells without lots, which a flat position then keeps, are those
\* of a cycle of more than five (add_short_lot, close_last_lot, reset_cycle).
THEOREM SellsCoverTheLots == Spec => []SellsCoverLots
  <1>1. Inv => SellsCoverLots
    BY DEF Inv, Sound, Sells, SellsCoverLots
  <1> QED
    BY <1>1, InitInv, NextInv, PTL DEF Spec

\* Through any bars, the armed trailing stop of a position stays armed and its minimum
\* only falls (_update_trailing; sub-covers and DCAs hand it on).
THEOREM TrailingOnlyFalls == Spec => TrailingRatchets
  <1>1. Inv /\ [Next]_vars =>
            [ state.trailing_active /\ state'.lots # {} =>
                  state'.trailing_active /\ state'.trailing_min <= state.trailing_min ]_vars
    BY NextOutcome
  <1> QED
    BY <1>1, InitInv, NextInv, PTL DEF Spec, TrailingRatchets

\* Through any bars, a lot is added to a position only within MARGIN_CALL_LIMIT sells of
\* its cycle (_dca_due).
THEOREM DcasKeepLimit == Spec => DcaRespectsLimit
  <1>1. Inv /\ [Next]_vars =>
            [ Cardinality(state'.lots) > Cardinality(state.lots) /\ state.lots # {} =>
                  state'.num_sells <= Settings.margin_call_limit ]_vars
    <2> SUFFICES ASSUME Inv, Next,
                        Cardinality(state'.lots) > Cardinality(state.lots), state.lots # {}
                 PROVE  state'.num_sells <= Settings.margin_call_limit
      OBVIOUS
    <2>1. BookStep(state', state, bar'.close)
      BY NextOutcome
    <2>2. ~(state'.lots \subseteq state.lots)
      <3> SUFFICES ASSUME state'.lots \subseteq state.lots PROVE FALSE
        OBVIOUS
      <3>1. /\ Cardinality(state'.lots) <= Cardinality(state.lots)
            /\ Cardinality(state'.lots) \in Nat /\ Cardinality(state.lots) \in Nat
        BY SoundIs, FS_Subset, FS_CardinalityType DEF Inv
      <3> QED
        BY <3>1
    <2>3. /\ state'.num_sells = state.num_sells + 1
          /\ state.num_sells < Settings.margin_call_limit
      BY <2>1, <2>2 DEF BookStep, Opened
    <2>4. state.num_sells \in Nat /\ Settings.margin_call_limit \in Nat
      BY SoundIs, SettingsAssumption DEF Inv
    <2> QED
      BY <2>3, <2>4
  <1> QED
    BY <1>1, InitInv, NextInv, PTL DEF Spec, DcaRespectsLimit

\* Through any bars the lots in their order are a stack: LotStack is what add_short_lot,
\* close_last_lot and close_all implement between them, as the engine calls them.
THEOREM BookImplementsStack == Spec => LifoBook
  <1>1. Init => Lots!Init
    BY EmptyBook DEF Init, CleanState, Lots!Init
  <1>2. Inv /\ [Next]_vars => [Lots!Next]_(Book(state.lots))
    <2>1. ASSUME Inv, Next PROVE Lots!Next \/ Book(state'.lots) = Book(state.lots)
      <3>1. BookStep(state', state, bar'.close) /\ LotBook(state.lots, Keys)
        BY <2>1, NextOutcome, SoundIs DEF Inv
      <3>2. CASE state'.lots = state.lots
        BY <3>2
      <3>3. CASE state'.lots = {}
        BY <3>3, EmptyBook DEF Lots!Next, Lots!CloseAll
      <3>4. CASE state.lots # {} /\ state'.lots = state.lots \ {get_last_lot(state)}
        <4> DEFINE last == get_last_lot(state)
        <4>1. /\ last \in state.lots
              /\ \A k \in state.lots \ {last} : k.open_sequence < last.open_sequence
          BY <3>1, <3>4, LastLotIs
        <4>2. /\ Book(state.lots) # <<>>
              /\ Book(state.lots \ {last}) = SubSeq(Book(state.lots), 1, Len(Book(state.lots)) - 1)
          <5> HIDE DEF last
          <5> QED
            BY <3>1, <4>1, BookWithoutTop
        <4> QED
          BY <3>4, <4>2 DEF Lots!Next, Lots!CloseTop, Lots!Below
      <3>5. CASE Opened(state', state, bar'.close)
        <4>1. PICK lot \in Lot(Keys) :
                  /\ lot \notin state.lots
                  /\ \A l \in state.lots : l.open_sequence < lot.open_sequence
                  /\ state'.lots = state.lots \cup {lot}
          BY <3>5 DEF Opened
        <4>2. /\ lot.open_sequence \in Nat
              /\ Amount(lot) \in [qty : Nat \ {0}, entry_price : Nat]
          BY DEF Lot, Amount
        <4> DEFINE b == Book(state.lots \cup {lot})
        <4>3. /\ Len(b) = Len(Book(state.lots)) + 1
              /\ SubSeq(b, 1, Len(Book(state.lots))) = Book(state.lots)
              /\ b[Len(b)] = Amount(lot)
          BY <3>1, <4>1, <4>2, BookWithOneMore
        <4> QED
          BY <4>1, <4>2, <4>3 DEF Lots!Next, Lots!Open
      <3> QED
        BY <3>1, <3>2, <3>3, <3>4, <3>5 DEF BookStep
    <2> QED
      BY <2>1 DEF vars
  <1> QED
    BY <1>1, <1>2, InitInv, NextInv, PTL DEF Spec, LifoBook, Lots!Spec

-----------------------------------------------------------------------------
(* A full take-profit, when it waits for its close *)

BookIsPriced == \A l \in state.lots : l.entry_price > 0

\* A close below the full TP is below the average price.
LEMMA BelowTpIsBelowAverage ==
    ASSUME NEW price \in Nat, NEW size \in Nat, NEW proceeds \in Nat \ {0},
           NEW tp \in Nat \ {0}, price * size * PCT <= proceeds * (PCT - tp)
    PROVE  price * size < proceeds
  <1>1. proceeds * tp > 0
    OBVIOUS
  <1>2. proceeds * (PCT - tp) = proceeds * PCT - proceeds * tp
    BY DEF PCT
  <1> DEFINE p == price * size
  <1>3. p \in Nat
    OBVIOUS
  <1>4. proceeds * tp \in Nat
    OBVIOUS
  <1> DEFINE q == proceeds * tp
  <1> HIDE DEF p, q
  <1>5. p * PCT <= proceeds * PCT - q /\ q > 0 /\ q \in Nat
    BY <1>1, <1>2, <1>4 DEF p, q
  <1>6. p < proceeds
    BY <1>3, <1>5 DEF PCT
  <1> QED
    BY <1>6 DEF p

\* Of the intents only that of a confirmed take-profit is a full cover.
LEMMA FullCoverIsConfirmed ==
    ASSUME NEW st, Sound(st), NEW c, NEW even, NEW d, d = evaluate_bar(st, c, even),
           ~d.safe_stop_required, d.intent # None, d.intent.intent_type = "FULL_COVER",
           Settings.require_close_below_full_tp
    PROVE  BelowFullTp(st, c.close)
  <1> DEFINE now == [st EXCEPT !.last_candle_time = c.close_time]
             tr == UpdateTrailing(now, c)
  <1>1. now.pos_size_abs = st.pos_size_abs /\ now.pos_proceeds_usdt = st.pos_proceeds_usdt
    BY SoundIs DEF BotState
  <1> HIDE DEF now, tr
  <1>2. \A type, qty : Intent(type, c, qty).intent_type = type
    BY DEF Intent
  <1>3. \/ d = Decision(now, None)
        \/ d = FirstShort(now, c)
        \/ d = Exit(now, now, c, "FULL_COVER") /\ TpConfirmed(now, c)
        \/ d = Exit(now, tr, c, "TRAILING_TP")
        \/ d = Subcover(tr, c)
        \/ d = Dca(tr, c)
        \/ d = Decision(tr, None)
    BY BarDecision DEF now, tr
  <1>4. d # Decision(now, None) /\ d # Decision(tr, None)
    BY Decided
  <1>5. d # FirstShort(now, c)
    BY <1>2, Decided DEF FirstShort
  <1>6. d # Exit(now, tr, c, "TRAILING_TP") /\ d # Subcover(tr, c)
    BY <1>2, Decided DEF Exit, Subcover
  <1>7. d # Dca(tr, c)
    BY <1>2, Decided DEF Dca
  <1>8. TpConfirmed(now, c)
    BY <1>3, <1>4, <1>5, <1>6, <1>7
  <1> QED
    BY <1>1, <1>8 DEF TpConfirmed, BelowFullTp

LEMMA NextIsPriced ==
    ASSUME Inv, [Next]_vars, \A s \in Shapes : s.close > 0, BookIsPriced
    PROVE  BookIsPriced'
  <1>1. CASE Next
    <2>1. BookStep(state', state, bar'.close) /\ bar'.close > 0
      BY <1>1, NextOutcome
    <2> QED
      BY <2>1 DEF BookStep, Opened, BookIsPriced
  <1>2. CASE UNCHANGED vars
    BY <1>2 DEF vars, BookIsPriced
  <1> QED
    BY <1>1, <1>2

\* With REQUIRE_CLOSE_BELOW_FULL_TP, a TP above zero and prices above zero, the close of
\* a full take-profit is below the average price: it is never a loss, however the bar
\* touched the level (_tp_confirmed).
THEOREM FullCoverGains ==
    ASSUME Settings.require_close_below_full_tp, Settings.tp_percent > 0,
           \A s \in Shapes : s.close > 0
    PROVE  Spec => FullCoverIsProfit
  <1>1. Inv /\ BookIsPriced /\ [Next]_vars =>
            [ state.lots # {} /\ bar'.type = "FULL_COVER" =>
                  bar'.close * state.pos_size_abs < state.pos_proceeds_usdt ]_vars
    <2> SUFFICES ASSUME Inv, BookIsPriced, Next, state.lots # {}, bar'.type = "FULL_COVER"
                 PROVE  bar'.close * state.pos_size_abs < state.pos_proceeds_usdt
      OBVIOUS
    <2>1. PICK s \in Shapes, even \in BOOLEAN :
              \/ QuietBar(s, even) \/ FirstShortBar(s, even) \/ DcaBar(s, even)
              \/ SubcoverBar(s, even) \/ FullCoverBar(s, even) \/ TrailingBar(s, even)
      BY DEF Next
    <2>2. PICK d : /\ d = evaluate_bar(state, CandleOf(s), even) /\ ~d.safe_stop_required
                   /\ bar'.close = s.close
                   /\ bar'.type = IF d.intent = None THEN "none" ELSE d.intent.intent_type
      BY <2>1, BarIs
    <2>3. d.intent # None /\ d.intent.intent_type = "FULL_COVER"
      BY <2>2
    <2>4. CandleOf(s).close = s.close /\ s.close \in Nat
      BY ShapesAssumption DEF CandleOf
    <2>5. BelowFullTp(state, s.close)
      BY <2>2, <2>3, <2>4, FullCoverIsConfirmed DEF Inv
    <2>6. state.pos_proceeds_usdt \in Nat \ {0} /\ state.pos_size_abs \in Nat
      <3>1. Amounts(state.lots) /\ state \in BotState(Keys)
        BY SoundIs, BookHasAmounts DEF Inv
      <3>2. PICK l \in state.lots : TRUE
        OBVIOUS
      <3>3. l.qty \in Nat /\ l.qty > 0 /\ l.entry_price \in Nat /\ l.entry_price > 0
        BY <3>1 DEF Amounts, BookIsPriced
      <3>4. l.qty * l.entry_price \in Nat /\ l.qty * l.entry_price > 0
        BY <3>3
      <3>5. Proceeds(state.lots) = l.qty * l.entry_price + Proceeds(state.lots \ {l})
        BY <3>1, ProceedsSplits
      <3>6. Amounts(state.lots \ {l})
        BY <3>1, FS_RemoveElement DEF Amounts
      <3>7. Proceeds(state.lots \ {l}) \in Nat /\ Proceeds(state.lots) \in Nat
        BY <3>1, <3>6, ProceedsSplits
      <3> QED
        BY <3>1, <3>4, <3>5, <3>7 DEF Inv, Sound, Booked, BotState
    <2> QED
      BY <2>2, <2>4, <2>5, <2>6, SettingsAssumption, BelowTpIsBelowAverage DEF BelowFullTp
  <1>2. Init => BookIsPriced
    BY DEF Init, CleanState, BookIsPriced
  <1>3. Inv /\ BookIsPriced /\ [Next]_vars => BookIsPriced'
    BY NextIsPriced
  <1> QED
    BY <1>1, <1>2, <1>3, InitInv, NextInv, PTL DEF Spec, FullCoverIsProfit
=============================================================================
