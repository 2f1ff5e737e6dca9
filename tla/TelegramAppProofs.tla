-------------------------- MODULE TelegramAppProofs --------------------------
(***************************************************************************)
(* What the application promises, for any bots, chats and interval: of the *)
(* messages of a broadcast, whoever subscribes or leaves and whatever      *)
(* Telegram answers; and of the states in the database, whoever saves them *)
(* and whenever they are read.                                             *)
(***************************************************************************)
EXTENDS TelegramApp, BotStateProofs

-----------------------------------------------------------------------------
(* The notifier, by its own specification *)

\* Where each chat of the list stands: still to come, waiting for its turn, or tried.
ListInv ==
    /\ sending = "idle" => remaining = {}
    /\ \A c \in remaining : tried[c] = 0
    /\ sending = "sleeping" => chat \notin remaining /\ tried[chat] = 0
    /\ \A c \in Chats : tried[c] \in {0, 1}
    /\ \A c \in steady \ remaining : tried[c] = 1 \/ (sending = "sleeping" /\ chat = c)

\* The sleep that is left reaches to the end of the interval.
SleepInv == sending = "sleeping" /\ elapsed # None => elapsed + sleep >= Interval

NotifierInv == NotifierTypeOK /\ ListInv /\ SleepInv

LEMMA TimeTypes ==
    ASSUME NotifierTypeOK
    PROVE  /\ Interval \in Nat /\ sleep \in Int
           /\ elapsed = None \/ elapsed \in 0 .. Interval
           /\ elapsed # None <=> elapsed \in Int
  BY IntervalAssumption, NoneAssumption DEF NotifierTypeOK, Optional

LEMMA NotifierInitInv == NotifierInit => NotifierInv
  BY IntervalAssumption
  DEF NotifierInit, NotifierInv, NotifierTypeOK, ListInv, SleepInv, Optional

\* A sleep is never longer than the interval, and never too short.
LEMMA SleepTimeFits ==
    ASSUME NotifierTypeOK
    PROVE  /\ SleepTime \in 0 .. Interval
           /\ elapsed # None => elapsed + SleepTime >= Interval
  BY TimeTypes DEF SleepTime

LEMMA NotifierNextInv == NotifierInv /\ [NotifierNext]_notifierVars => NotifierInv'
  <1> SUFFICES ASSUME NotifierInv, [NotifierNext]_notifierVars PROVE NotifierInv'
    OBVIOUS
  <1> USE DEF NotifierInv
  <1>1. ASSUME NEW c \in Chats, add_subscriber(c) PROVE NotifierInv'
    BY <1>1 DEF add_subscriber, NotifierTypeOK, ListInv, SleepInv
  <1>2. ASSUME NEW c \in Chats, deactivate_subscriber(c) PROVE NotifierInv'
    BY <1>2 DEF deactivate_subscriber, NotifierTypeOK, ListInv, SleepInv
  <1>3. CASE Broadcast
    <2>1. NotifierTypeOK'
      BY <1>3 DEF Broadcast, list_active_subscribers, NotifierTypeOK
    <2>2. ListInv'
      BY <1>3 DEF Broadcast, list_active_subscribers, NotifierTypeOK, ListInv
    <2>3. SleepInv'
      BY <1>3 DEF Broadcast, SleepInv
    <2> QED
      BY <2>1, <2>2, <2>3
  <1>4. ASSUME NEW c \in Chats, Throttle(c) PROVE NotifierInv'
    <2>1. NotifierTypeOK'
      BY <1>4, SleepTimeFits DEF Throttle, NotifierTypeOK
    <2>2. ListInv'
      BY <1>4 DEF Throttle, NotifierTypeOK, ListInv
    <2>3. SleepInv'
      BY <1>4, SleepTimeFits DEF Throttle, SleepInv
    <2> QED
      BY <2>1, <2>2, <2>3
  <1>5. CASE Send
    <2>1. NotifierTypeOK'
      BY <1>5 DEF Send, NotifierTypeOK
    <2>2. ListInv'
      BY <1>5 DEF Send, NotifierTypeOK, ListInv
    <2>3. SleepInv'
      BY <1>5 DEF Send, SleepInv
    <2> QED
      BY <2>1, <2>2, <2>3
  <1>6. CASE Accepted
    BY <1>6, TimeTypes
    DEF Accepted, GoOn, NotifierTypeOK, ListInv, SleepInv, Optional
  <1>7. CASE SendFails
    BY <1>7 DEF SendFails, AfterFailure, GoOn, NotifierTypeOK, ListInv, SleepInv
  <1>8. CASE Tick
    <2>1. NotifierTypeOK'
      BY <1>8, TimeTypes DEF Tick, NotifierTypeOK, Optional
    <2>2. ListInv'
      BY <1>8 DEF Tick, ListInv
    <2>3. SleepInv'
      BY <1>8, TimeTypes DEF Tick, NotifierTypeOK, SleepInv
    <2> QED
      BY <2>1, <2>2, <2>3
  <1>9. CASE UNCHANGED notifierVars
    BY <1>9 DEF notifierVars, NotifierTypeOK, ListInv, SleepInv
  <1> QED
    BY <1>1, <1>2, <1>3, <1>4, <1>5, <1>6, <1>7, <1>8, <1>9 DEF NotifierNext, BroadcastStep

\* The notifier's variables keep their types; no sleep of _throttle is negative or longer
\* than the interval between messages.
THEOREM NotifierTypes == NotifierSpec => []NotifierTypeOK
  <1>1. NotifierInv => NotifierTypeOK
    BY DEF NotifierInv
  <1> QED
    BY <1>1, NotifierInitInv, NotifierNextInv, PTL DEF NotifierSpec

\* Whoever is subscribed throughout a broadcast is tried exactly once in it, and nobody
\* is tried twice, whatever fails (TelegramNotifier.broadcast).
THEOREM NobodyIsLeftOut == NotifierSpec => []SteadySubscriberIsTriedOnce
  <1>1. NotifierInv => SteadySubscriberIsTriedOnce
    BY DEF NotifierInv, NotifierTypeOK, ListInv, SteadySubscriberIsTriedOnce
  <1> QED
    BY <1>1, NotifierInitInv, NotifierNextInv, PTL DEF NotifierSpec

\* However long a request takes, the next message does not leave before the interval since
\* the last accepted one is over (TelegramNotifier._throttle).
THEOREM SendsAreSpaced == NotifierSpec => SpacedSends
  <1>1. NotifierInv /\ [NotifierNext]_notifierVars
            => [sending = "sleeping" /\ sending' = "sending"
                    => elapsed \in {None, Interval}]_notifierVars
    <2> SUFFICES ASSUME NotifierInv, NotifierNext, sending = "sleeping", sending' = "sending"
                 PROVE  elapsed \in {None, Interval}
      OBVIOUS
    <2>1. Send
      BY DEF NotifierNext, BroadcastStep, add_subscriber, deactivate_subscriber, Broadcast,
             Throttle, Accepted, SendFails, GoOn, Tick
    <2> QED
      BY <2>1, TimeTypes DEF Send, NotifierInv, SleepInv
  <1> QED
    BY <1>1, NotifierInitInv, NotifierNextInv, PTL DEF NotifierSpec, SpacedSends

-----------------------------------------------------------------------------
(* Between the app, its commands and the trading processes the notifier keeps its
   promises: to it they are nothing but people who subscribe and leave, and events to
   broadcast. *)

LEMMA AppNextIsNotifierNext == [Next]_vars => [NotifierNext]_notifierVars
  <1> SUFFICES ASSUME [Next]_vars PROVE [NotifierNext]_notifierVars
    OBVIOUS
  <1>1. CASE AppNext /\ UNCHANGED notifierVars
    BY <1>1
  <1>2. CASE NotifierSteps
    BY <1>2 DEF NotifierSteps, Subscribe, Unsubscribe, NotifyEvent, NotifierNext
  <1>3. CASE BroadcastStep \/ Tick
    BY <1>3 DEF NotifierNext
  <1>4. CASE UNCHANGED vars
    BY <1>4 DEF vars
  <1> QED
    BY <1>1, <1>2, <1>3, <1>4 DEF Next

\* The processes together run the notifier as its own specification says: whatever is
\* proved of that holds of it between launches, commands and saves too.
THEOREM AppRunsNotifier == Spec => NotifierSpec
  BY AppNextIsNotifierNext, PTL DEF Spec, Init, NotifierSpec

\* So no launch, command or save makes a broadcast miss a steady subscriber, try anybody
\* twice, or send too soon.
THEOREM AppKeepsNotifierPromises == Spec => []SteadySubscriberIsTriedOnce /\ SpacedSends
  BY AppRunsNotifier, NobodyIsLeftOut, SendsAreSpaced, PTL

-----------------------------------------------------------------------------
(* The app: what it knows, and what the database does *)

\* The tables hold of each bot what it last saved.
TablesInv ==
    /\ AreTables(tables)
    /\ saved \in [Bots -> Optional(BotState(LotIds))]
    /\ \A b \in Bots :
          /\ saved[b] = None => ~HasRow(tables, b)
          /\ saved[b] # None => StorableState(saved[b], LotIds) /\ Holds(tables, b, saved[b])

WithoutTime(st) == [st EXCEPT !.last_candle_time = None]

\* A launch in progress may save what it has, and if it restores, that is what it read.
LaunchInv ==
    /\ app = [pc |-> app.pc, mode |-> app.mode, settings |-> app.settings,
              runtime |-> app.runtime]
    /\ app.pc \in {"down", "restoring", "fetching", "saving", "composing", "polling"}
    /\ app.settings # None => validate_settings(app.settings)
    /\ app.runtime # None => StorableState(app.runtime, LotIds)
    /\ app.pc \in {"restoring", "fetching", "saving"} => HasStack(app.mode)
    /\ app.pc \in {"fetching", "saving"} =>
          /\ app.runtime # None
          /\ app.settings.live_start_policy = "restore" => WithoutTime(app.runtime) = SavedBook

\* What a query has read before each of its steps.
FieldsBefore ==
    [lots |-> Scalars,
     orders |-> Scalars \cup {"lots"},
     counters |-> Scalars \cup {"lots", "orders_last_3min"},
     answer |-> DOMAIN CleanState]

\* Each field is of a state that was current, those of the row of bot_state of one such
\* state; and if no other state was current, all of them.
ReadSoFar(state, fields, seen) ==
    /\ state = [f \in fields |-> state[f]]
    /\ \A f \in fields : \E st \in seen : state[f] = st[f]
    /\ \E st \in seen : \A f \in Scalars : state[f] = st[f]
    /\ \A st : seen = {st} => \A f \in fields : state[f] = st[f]

QueryInv ==
    query # None =>
        /\ query = [command |-> query.command, reads |-> query.reads,
                    state |-> query.state, seen |-> query.seen]
        /\ app.pc = "polling"
        /\ query.command \in DOMAIN Shown
        /\ query.reads \in {"row", "lots", "orders", "counters", "answer"}
        /\ IsFiniteSet(query.seen) /\ \A st \in query.seen : StorableState(st, LotIds)
        /\ Current \in query.seen
        /\ query.reads # "answer" => app.runtime = None
        /\ query.reads \in {"lots", "orders", "counters"} => saved[Bot] # None
        /\ query.reads # "row" => ReadSoFar(query.state, FieldsBefore[query.reads], query.seen)

AppInv == TablesInv /\ LaunchInv /\ QueryInv /\ events \in 0 .. MaxEvents

LEMMA LoadedIsSaved ==
    ASSUME TablesInv, NEW b \in Bots
    PROVE  SavedState(b) = saved[b]
  <1>1. CASE saved[b] = None
    BY <1>1 DEF TablesInv, SavedState, load_bot_state
  <1>2. CASE saved[b] # None
    BY <1>2, HeldIsLoaded DEF TablesInv, SavedState
  <1> QED
    BY <1>1, <1>2

LEMMA InitialIsStorable ==
    /\ StorableState(CleanState, LotIds)
    /\ TablesInv => StorableState(StateOrInitial(saved[Bot]), LotIds)
  <1>1. StorableState(CleanState, LotIds)
    <2>1. CleanState \in BotState(LotIds)
      BY CleanStateIsBooked DEF Booked, Bookable
    <2> QED
      BY <2>1 DEF StorableState, Storable, Chronological, CleanState
  <1> QED
    BY <1>1, BotAssumption DEF TablesInv, StateOrInitial

\* A save of the bot b, or what marks its safe stop.
StateSaved(b, st) ==
    /\ saved' = [saved EXCEPT ![b] = st]
    /\ StorableState(st, LotIds)
    /\ AreTables(tables') /\ Holds(tables', b, st)
    /\ \A a \in Bots \ {b} : SameRows(tables', tables, a)

LEMMA StateSavedInv ==
    ASSUME TablesInv, NEW b \in Bots, NEW st, StateSaved(b, st)
    PROVE  /\ TablesInv'
           /\ \A a \in Bots \ {b} : SavedState(a)' = SavedState(a)
           /\ SavedState(b)' = st
  <1>1. st \in BotState(LotIds) /\ st # None
    BY StatesAssumption DEF StateSaved, StorableState
  <1>2. saved' \in [Bots -> Optional(BotState(LotIds))]
    BY <1>1 DEF TablesInv, StateSaved, Optional
  <1>3. ASSUME NEW a \in Bots
        PROVE  /\ saved'[a] = None => ~HasRow(tables', a)
               /\ saved'[a] # None =>
                     StorableState(saved'[a], LotIds) /\ Holds(tables', a, saved'[a])
    <2>1. CASE a = b
      BY <2>1, <1>1 DEF TablesInv, StateSaved
    <2>2. CASE a # b
      <3>1. saved'[a] = saved[a] /\ SameRows(tables', tables, a)
        BY <2>2 DEF TablesInv, StateSaved
      <3> QED
        BY <3>1, SameRowsHold DEF TablesInv, SameRows
    <2> QED
      BY <2>1, <2>2
  <1>4. TablesInv'
    BY <1>2, <1>3 DEF TablesInv, StateSaved
  <1>5. SavedState(b)' = st
    BY HeldIsLoaded DEF StateSaved, SavedState
  <1> QED
    BY <1>4, <1>5, SameRowsHold DEF StateSaved, SavedState

LEMMA SaveIsStateSaved ==
    ASSUME TablesInv, NEW b \in Bots, NEW st, StorableState(st, LotIds),
           tables' = save_bot_state(tables, b, st), saved' = [saved EXCEPT ![b] = st]
    PROVE  StateSaved(b, st)
  BY SavedIsHeld DEF TablesInv, StateSaved

LEMMA MarkIsStateSaved ==
    ASSUME TablesInv, NEW b \in Bots, SaveSafeStopReason(b)
    PROVE  StateSaved(b, [saved[b] EXCEPT !.safe_stop_active = TRUE])
  BY MarkIsHeld DEF TablesInv, StateSaved, SaveSafeStopReason


LEMMA LaunchKept ==
    ASSUME LaunchInv, UNCHANGED app, SavedState(Bot)' = SavedState(Bot) \/ ~StackIsUp
    PROVE  LaunchInv'
  BY DEF LaunchInv, StackIsUp, SavedBook

LEMMA NewestStateSeen ==
    ASSUME TablesInv, QueryInv, NEW b \in Bots, NEW st, StateSaved(b, st),
           query' = Seen(b, st), UNCHANGED app
    PROVE  QueryInv'
  <1> SUFFICES ASSUME query' # None PROVE QueryInv'
    BY DEF QueryInv
  <1>1. query # None
    BY DEF Seen
  <1>2. CASE b # Bot
    <2>1. UNCHANGED query /\ saved'[Bot] = saved[Bot]
      BY <1>1, <1>2, BotAssumption DEF Seen, StateSaved, TablesInv
    <2> QED
      BY <2>1 DEF QueryInv, Current
  <1>3. CASE b = Bot
    <2>1. query' = [query EXCEPT !.seen = @ \cup {st}]
      BY <1>1, <1>3 DEF Seen
    <2>2. /\ query' = [command |-> query.command, reads |-> query.reads,
                       state |-> query.state, seen |-> query.seen \cup {st}]
          /\ query'.command = query.command /\ query'.reads = query.reads
          /\ query'.state = query.state /\ query'.seen = query.seen \cup {st}
      BY <1>1, <2>1 DEF QueryInv
    <2>3. st # None /\ saved'[Bot] = st /\ StorableState(st, LotIds)
      BY <1>3, StatesAssumption DEF StateSaved, TablesInv, StorableState
    <2>4. IsFiniteSet(query.seen \cup {st})
      BY <1>1, FS_AddElement DEF QueryInv
    <2>5. Current' \in query'.seen
      BY <1>1, <2>2, <2>3 DEF Current, QueryInv, StateOrInitial
    <2>6. query.reads # "row" =>
              ReadSoFar(query'.state, FieldsBefore[query.reads], query'.seen)
      <3>1. \A s : query.seen \cup {st} = {s} => query.seen = {s}
        BY <1>1 DEF QueryInv
      <3> QED
        BY <1>1, <2>2, <3>1 DEF QueryInv, ReadSoFar
    <2> QED
      BY <1>1, <2>2, <2>3, <2>4, <2>5, <2>6 DEF QueryInv
  <1> QED
    BY <1>2, <1>3

\* A SELECT reads what was saved last.
LEMMA ColumnsRead ==
    ASSUME NEW state, NEW fields, NEW seen, ReadSoFar(state, fields, seen),
           Scalars \subseteq fields,
           NEW st \in seen, NEW more, more \cap Scalars = {},
           NEW columns, columns = [f \in more |-> st[f]]
    PROVE  ReadSoFar(WithColumns(state, columns), fields \cup more, seen)
  <1> DEFINE next == WithColumns(state, columns)
  <1>1. /\ DOMAIN state = fields /\ DOMAIN columns = more
        /\ next = [f \in fields \cup more |-> IF f \in more THEN columns[f] ELSE state[f]]
    BY DEF ReadSoFar, WithColumns
  <1>2. \A f \in fields \cup more : next[f] = IF f \in more THEN st[f] ELSE state[f]
    BY <1>1
  <1> HIDE DEF next
  <1>3. next = [f \in fields \cup more |-> next[f]]
    BY <1>1
  <1>4. \A f \in fields \cup more : \E s \in seen : next[f] = s[f]
    BY <1>2 DEF ReadSoFar
  <1>5. \A f \in Scalars : f \in fields \cup more /\ next[f] = state[f]
    BY <1>2
  <1>6. \E s \in seen : \A f \in Scalars : next[f] = s[f]
    BY <1>5 DEF ReadSoFar
  <1>7. ASSUME NEW s, seen = {s} PROVE \A f \in fields \cup more : next[f] = s[f]
    BY <1>2, <1>7 DEF ReadSoFar
  <1> QED
    BY <1>3, <1>4, <1>6, <1>7 DEF ReadSoFar, next

\* A state that was current has been read.
LEMMA StateRead ==
    ASSUME NEW st, NEW seen, st \in seen, NEW fields, Scalars \subseteq fields, NEW state,
           state = [f \in fields |-> st[f]]
    PROVE  ReadSoFar(state, fields, seen)
  BY DEF ReadSoFar

LEMMA StorableIsFunction ==
    ASSUME NEW st, StorableState(st, LotIds)
    PROVE  st = [f \in DOMAIN CleanState |-> st[f]] /\ Scalars \subseteq DOMAIN CleanState
  BY DEF StorableState, BotState, CleanState, Scalars

LEMMA CommandInv ==
    ASSUME TablesInv, LaunchInv, NEW command \in DOMAIN Shown, Command(command)
    PROVE  QueryInv'
  <1>1. /\ query' = [command |-> command,
                     reads |-> IF app.runtime = None THEN "row" ELSE "answer",
                     state |-> app.runtime, seen |-> {Current}]
        /\ app.pc = "polling" /\ UNCHANGED <<tables, saved, app>>
    BY DEF Command
  <1>2. IsFiniteSet({Current}) /\ StorableState(Current, LotIds)
    BY FS_Singleton, InitialIsStorable DEF Current, LaunchInv
  <1>3. Current' = Current
    BY <1>1 DEF Current
  <1>4. app.runtime # None => ReadSoFar(app.runtime, DOMAIN CleanState, {Current})
    BY StorableIsFunction, StateRead DEF LaunchInv, Current
  <1> QED
    BY <1>1, <1>2, <1>3, <1>4 DEF QueryInv, FieldsBefore

\* What a step of a query comes to.
Advances(this, next, state) ==
    /\ query' = [command |-> query.command, reads |-> next, state |-> state,
                 seen |-> query.seen]
    /\ query.reads = this /\ query # None
    /\ UNCHANGED <<tables, saved, app, events>>

LEMMA ReadAdvances ==
    ASSUME QueryInv, NEW this, NEW next, NEW state, Read(this, next, state)
    PROVE  Advances(this, next, state)
  BY DEF QueryInv, Read, Advances

LEMMA AdvancedInv ==
    ASSUME QueryInv, NEW this, NEW next \in {"lots", "orders", "counters", "answer"}, NEW state,
           Advances(this, next, state), ReadSoFar(state, FieldsBefore[next], query.seen),
           next # "answer" => app.runtime = None /\ saved[Bot] # None
    PROVE  QueryInv'
  <1>1. /\ query'.command = query.command /\ query'.reads = next
        /\ query'.state = state /\ query'.seen = query.seen
    BY DEF Advances
  <1>2. Current' = Current
    BY DEF Advances, Current
  <1> QED
    BY <1>1, <1>2 DEF QueryInv, Advances

LEMMA QueryStepInv ==
    ASSUME TablesInv, LaunchInv, QueryInv, QueryStep
    PROVE  QueryInv'
  <1>1. ASSUME query.reads = "row", query # None
        PROVE  /\ Current = StateOrInitial(saved[Bot]) /\ Current \in query.seen
               /\ StorableState(Current, LotIds) /\ app.runtime = None
    BY <1>1, InitialIsStorable DEF QueryInv, Current
  <1>2. ASSUME query.reads \in {"lots", "orders", "counters"}, query # None
        PROVE  /\ saved[Bot] \in query.seen /\ saved[Bot] # None /\ app.runtime = None
               /\ StorableState(saved[Bot], LotIds)
               /\ Holds(tables, Bot, saved[Bot])
               /\ ReadSoFar(query.state, FieldsBefore[query.reads], query.seen)
               /\ Scalars \subseteq FieldsBefore[query.reads]
    BY <1>2, BotAssumption, StorableIsFunction
    DEF QueryInv, Current, StateOrInitial, TablesInv, FieldsBefore
  <1>3. CASE ReadRow
    <2>1. CASE HasRow(tables, Bot)
      <3>1. Advances("row", "lots", tables.bot_state[Bot])
        BY <1>3, <2>1, ReadAdvances DEF ReadRow
      <3>2. saved[Bot] # None /\ Current = saved[Bot] /\ Holds(tables, Bot, saved[Bot])
        BY <1>1, <2>1, <3>1, BotAssumption DEF TablesInv, StateOrInitial, Advances
      <3>3. tables.bot_state[Bot] = [f \in Scalars |-> Current[f]]
        BY <3>2 DEF Holds, BotStateRow
      <3>4. ReadSoFar(tables.bot_state[Bot], Scalars, query.seen)
        BY <1>1, <3>1, <3>3, StateRead DEF Advances
      <3> QED
        BY <1>1, <3>1, <3>2, <3>4, AdvancedInv DEF FieldsBefore, Advances
    <2>2. CASE ~HasRow(tables, Bot)
      <3>1. Advances("row", "answer", CleanState)
        BY <1>3, <2>2, ReadAdvances DEF ReadRow
      <3>2. Current = CleanState
        BY <1>1, <2>2, <3>1, BotAssumption DEF TablesInv, StateOrInitial, Advances, Holds
      <3>3. ReadSoFar(CleanState, DOMAIN CleanState, query.seen)
        BY <1>1, <3>1, <3>2, StorableIsFunction, StateRead DEF Advances
      <3> QED
        BY <3>1, <3>3, AdvancedInv DEF FieldsBefore
    <2> QED
      BY <2>1, <2>2
  <1>4. CASE ReadLots
    <2> DEFINE columns == [lots |-> list_open_lots(tables, Bot)]
               state == WithColumns(query.state, columns)
    <2>1. Advances("lots", "orders", state)
      BY <1>4, ReadAdvances DEF ReadLots
    <2>2. query.reads = "lots" /\ query # None
      BY <2>1 DEF Advances
    <2>3. columns = [f \in {"lots"} |-> saved[Bot][f]]
      BY <1>2, <2>2 DEF Holds
    <2>4. {"lots"} \cap Scalars = {}
      BY DEF Scalars
    <2> HIDE DEF columns
    <2>5. ReadSoFar(state, FieldsBefore["lots"] \cup {"lots"}, query.seen)
      BY <1>2, <2>2, <2>3, <2>4, ColumnsRead
    <2>6. FieldsBefore["lots"] \cup {"lots"} = FieldsBefore["orders"]
      BY DEF FieldsBefore
    <2> HIDE DEF state
    <2> QED
      BY <1>2, <2>1, <2>2, <2>5, <2>6, AdvancedInv
  <1>5. CASE ReadOrders
    <2> DEFINE columns == [orders_last_3min |-> RollingWindow(tables, Bot)]
               state == WithColumns(query.state, columns)
    <2>1. Advances("orders", "counters", state)
      BY <1>5, ReadAdvances DEF ReadOrders
    <2>2. query.reads = "orders" /\ query # None
      BY <2>1 DEF Advances
    <2>3. columns = [f \in {"orders_last_3min"} |-> saved[Bot][f]]
      BY <1>2, <2>2, HeldIsLoaded
    <2>4. {"orders_last_3min"} \cap Scalars = {}
      BY DEF Scalars
    <2> HIDE DEF columns
    <2>5. ReadSoFar(state, FieldsBefore["orders"] \cup {"orders_last_3min"}, query.seen)
      BY <1>2, <2>2, <2>3, <2>4, ColumnsRead
    <2>6. FieldsBefore["orders"] \cup {"orders_last_3min"} = FieldsBefore["counters"]
      BY DEF FieldsBefore
    <2> HIDE DEF state
    <2> QED
      BY <1>2, <2>1, <2>2, <2>5, <2>6, AdvancedInv
  <1>6. CASE ReadCounters
    <2> DEFINE columns == BarCounters(tables, Bot)
               counters == {"fills_this_bar", "subcovers_this_bar"}
               state == WithColumns(query.state, columns)
    <2>1. Advances("counters", "answer", state)
      BY <1>6, ReadAdvances DEF ReadCounters
    <2>2. query.reads = "counters" /\ query # None
      BY <2>1 DEF Advances
    <2>3. columns = [f \in counters |-> saved[Bot][f]]
      <3>1. columns = [fills_this_bar |-> saved[Bot].fills_this_bar,
                       subcovers_this_bar |-> saved[Bot].subcovers_this_bar]
        BY <1>2, <2>2, HeldIsLoaded
      <3> HIDE DEF columns
      <3> QED
        BY <3>1
    <2>4. counters \cap Scalars = {}
      BY DEF Scalars
    <2> HIDE DEF columns
    <2>5. ReadSoFar(state, FieldsBefore["counters"] \cup counters, query.seen)
      BY <1>2, <2>2, <2>3, <2>4, ColumnsRead
    <2>6. FieldsBefore["counters"] \cup counters = FieldsBefore["answer"]
      BY DEF FieldsBefore, Scalars, CleanState
    <2> HIDE DEF state
    <2> QED
      BY <2>1, <2>5, <2>6, AdvancedInv
  <1>7. CASE Answer \/ CommandFails
    BY <1>7 DEF Answer, CommandFails, QueryInv
  <1> QED
    BY <1>3, <1>4, <1>5, <1>6, <1>7 DEF QueryStep

LEMMA InitAppInv == Init => AppInv
  <1> SUFFICES ASSUME Init PROVE AppInv
    OBVIOUS
  <1>1. TablesInv
    BY NoTablesAreTables DEF Init, TablesInv, Optional
  <1>2. LaunchInv
    BY DEF Init, LaunchInv, AppDown
  <1>3. QueryInv
    BY DEF Init, QueryInv
  <1> QED
    BY <1>1, <1>2, <1>3, EventsAssumption DEF AppInv, Init

\* No query is worked on before the app polls.
LEMMA NoQueryYet == QueryInv /\ app.pc # "polling" => query = None
  BY DEF QueryInv

LEMMA RestoredFits ==
    ASSUME TablesInv, LaunchInv, Restore
    PROVE  LaunchInv'
  <1> DEFINE runtime == IF app.settings.live_start_policy = "restore"
                        THEN StateOrInitial(SavedState(Bot)) ELSE CleanState
  <1>1. /\ app' = [app EXCEPT !.pc = "fetching", !.runtime = runtime]
        /\ UNCHANGED <<tables, saved>> /\ app.pc = "restoring"
    BY DEF Restore, Restored
  <1>2. StorableState(runtime, LotIds) /\ runtime # None
    <2>1. SavedState(Bot) = saved[Bot]
      BY LoadedIsSaved, BotAssumption
    <2>2. StorableState(runtime, LotIds)
      BY <2>1, InitialIsStorable
    <2> QED
      BY <2>2, StatesAssumption DEF StorableState
  <1>3. app.settings.live_start_policy = "restore" => WithoutTime(runtime) = SavedBook
    BY DEF WithoutTime, SavedBook
  <1> HIDE DEF runtime
  <1>4. /\ app'.pc = "fetching" /\ app'.mode = app.mode /\ app'.settings = app.settings
        /\ app'.runtime = runtime
        /\ app' = [pc |-> app'.pc, mode |-> app'.mode, settings |-> app'.settings,
                   runtime |-> app'.runtime]
    BY <1>1 DEF LaunchInv
  <1>5. SavedBook' = SavedBook
    BY <1>1 DEF SavedBook, SavedState
  <1> QED
    BY <1>1, <1>2, <1>3, <1>4, <1>5 DEF LaunchInv

LEMMA FetchedFits ==
    ASSUME LaunchInv, NEW t \in CloseTimes, FetchSnapshot(t)
    PROVE  LaunchInv'
  <1>1. /\ app' = [app EXCEPT !.pc = "saving", !.runtime = Fetched(t)]
        /\ UNCHANGED <<tables, saved>> /\ app.pc = "fetching"
    BY DEF FetchSnapshot
  <1>2. Fetched(t) = [app.runtime EXCEPT !.last_candle_time = t]
    BY DEF Fetched
  <1>3. app.runtime \in BotState(LotIds) /\ Chronological(app.runtime.orders_last_3min)
    BY <1>1 DEF LaunchInv, StorableState, Storable
  <1>4. t \in Nat /\ t # None
    BY TimesAssumption, NoneAssumption
  <1>5. Fetched(t) \in BotState(LotIds)
    BY <1>2, <1>3, <1>4 DEF BotState, Optional
  <1>6. /\ Fetched(t).last_candle_time = t
        /\ Fetched(t).orders_last_3min = app.runtime.orders_last_3min
        /\ WithoutTime(Fetched(t)) = WithoutTime(app.runtime)
    BY <1>2, <1>3 DEF BotState, WithoutTime
  <1>7. StorableState(Fetched(t), LotIds) /\ Fetched(t) # None
    BY <1>3, <1>4, <1>5, <1>6, StatesAssumption DEF StorableState, Storable
  <1> HIDE DEF Fetched
  <1>8. /\ app'.pc = "saving" /\ app'.mode = app.mode /\ app'.settings = app.settings
        /\ app'.runtime = Fetched(t)
        /\ app' = [pc |-> app'.pc, mode |-> app'.mode, settings |-> app'.settings,
                   runtime |-> app'.runtime]
    BY <1>1 DEF LaunchInv
  <1>9. SavedBook' = SavedBook
    BY <1>1 DEF SavedBook, SavedState
  <1> QED
    BY <1>1, <1>6, <1>7, <1>8, <1>9 DEF LaunchInv

LEMMA BuiltFits ==
    ASSUME LaunchInv, app' = StackIsBuilt
    PROVE  LaunchInv' /\ app'.pc # "polling"
  BY DEF LaunchInv, StackIsBuilt, AppDown

LEMMA AppStepInv ==
    ASSUME AppInv, AppStep
    PROVE  AppInv'
  <1> USE DEF AppInv
  <1>1. CASE Restore
    BY <1>1, RestoredFits, NoQueryYet
    DEF Restore, TablesInv, QueryInv
  <1>2. ASSUME NEW t \in CloseTimes, FetchSnapshot(t) PROVE AppInv'
    BY <1>2, FetchedFits, NoQueryYet DEF FetchSnapshot, TablesInv, QueryInv
  <1>3. CASE FetchNoCandles
    BY <1>3, BuiltFits, NoQueryYet DEF FetchNoCandles, TablesInv, QueryInv
  <1>4. CASE SaveWarmup
    <2>1. StateSaved(Bot, app.runtime)
      BY <1>4, SaveIsStateSaved, BotAssumption DEF SaveWarmup, LaunchInv
    <2>2. TablesInv'
      BY <2>1, StateSavedInv, BotAssumption
    <2>3. LaunchInv'
      BY <1>4, BuiltFits DEF SaveWarmup
    <2>4. QueryInv'
      BY <1>4, NoQueryYet DEF SaveWarmup, QueryInv
    <2> QED
      BY <1>4, <2>2, <2>3, <2>4 DEF SaveWarmup
  <1>5. CASE Poll
    <2>1. LaunchInv'
      BY <1>5 DEF Poll, LaunchInv
    <2> QED
      BY <1>5, <2>1, NoQueryYet DEF Poll, TablesInv, QueryInv
  <1>6. CASE LaunchFails
    <2>1. query = None
      BY <1>6, NoQueryYet DEF LaunchFails
    <2>2. LaunchInv'
      BY <1>6 DEF LaunchFails, LaunchInv, AppDown
    <2> QED
      BY <1>6, <2>1, <2>2 DEF LaunchFails, TablesInv, QueryInv
  <1> QED
    BY <1>1, <1>2, <1>3, <1>4, <1>5, <1>6 DEF AppStep

LEMMA FromOutsideCounts ==
    ASSUME events \in 0 .. MaxEvents, FromOutside
    PROVE  events' \in 0 .. MaxEvents
  BY EventsAssumption DEF FromOutside

LEMMA LaunchStarts ==
    ASSUME AppInv, NEW mode \in RuntimeModes, NEW env \in Environments, Launch(mode, env)
    PROVE  AppInv'
  <1>1. from_env(env.dotenv, env.environ) # None
            => validate_settings(from_env(env.dotenv, env.environ))
    BY DEF from_env
  <1>2. LaunchInv'
    <2>1. /\ app'.pc = IF HasStack(mode) THEN "restoring" ELSE "composing"
          /\ app'.mode = mode /\ app'.runtime = None
          /\ app'.settings = from_env(env.dotenv, env.environ)
          /\ app' = [pc |-> app'.pc, mode |-> app'.mode, settings |-> app'.settings,
                     runtime |-> app'.runtime]
      BY DEF Launch
    <2> QED
      BY <1>1, <2>1 DEF LaunchInv
  <1>3. query' = None
    BY NoQueryYet DEF AppInv, Launch
  <1> QED
    BY <1>2, <1>3, FromOutsideCounts DEF AppInv, Launch, TablesInv, QueryInv

LEMMA SaveBotStateInv ==
    ASSUME AppInv, NEW b \in Bots, NEW st \in States, SaveBotState(b, st)
    PROVE  AppInv'
  <1>1. CASE LotIdsFree(tables, b, st)
    <2>1. StateSaved(b, st)
      <3>1. StorableState(st, LotIds)
        BY StatesAssumption DEF StorableState
      <3> QED
        BY <1>1, <3>1, SaveIsStateSaved DEF SaveBotState, AppInv
    <2>2. TablesInv' /\ (SavedState(Bot)' = SavedState(Bot) \/ ~StackIsUp)
      BY <2>1, StateSavedInv, BotAssumption DEF AppInv, SaveBotState, Trades
    <2>3. LaunchInv'
      BY <2>2, LaunchKept DEF AppInv, SaveBotState
    <2>4. QueryInv'
      BY <1>1, <2>1, NewestStateSeen DEF AppInv, SaveBotState
    <2> QED
      BY <2>2, <2>3, <2>4, FromOutsideCounts DEF AppInv, SaveBotState
  <1>2. CASE ~LotIdsFree(tables, b, st)
    BY <1>2, FromOutsideCounts
    DEF AppInv, SaveBotState, RolledBack, TablesInv, LaunchInv, QueryInv, SavedBook, SavedState,
        Current
  <1> QED
    BY <1>1, <1>2

LEMMA SaveSafeStopReasonInv ==
    ASSUME AppInv, NEW b \in Bots, SaveSafeStopReason(b)
    PROVE  AppInv'
  <1> DEFINE st == [saved[b] EXCEPT !.safe_stop_active = TRUE]
  <1>1. StateSaved(b, st) /\ query' = Seen(b, st)
    BY MarkIsStateSaved DEF AppInv, SaveSafeStopReason
  <1> HIDE DEF st
  <1>2. TablesInv' /\ (SavedState(Bot)' = SavedState(Bot) \/ ~StackIsUp)
    BY <1>1, StateSavedInv, BotAssumption DEF AppInv, SaveSafeStopReason, Trades
  <1>3. LaunchInv'
    BY <1>2, LaunchKept DEF AppInv, SaveSafeStopReason
  <1>4. QueryInv'
    BY <1>1, NewestStateSeen DEF AppInv, SaveSafeStopReason
  <1> QED
    BY <1>2, <1>3, <1>4, FromOutsideCounts DEF AppInv, SaveSafeStopReason

LEMMA NextAppInv == AppInv /\ [Next]_vars => AppInv'
  <1> SUFFICES ASSUME AppInv, [Next]_vars PROVE AppInv'
    OBVIOUS
  <1>1. ASSUME NEW mode \in RuntimeModes, NEW env \in Environments, Launch(mode, env)
        PROVE  AppInv'
    BY <1>1, LaunchStarts
  <1>2. CASE AppStep
    BY <1>2, AppStepInv
  <1>3. CASE AppEnds
    <2>1. LaunchInv'
      BY <1>3 DEF AppEnds, LaunchInv, AppDown
    <2> QED
      BY <1>3, <2>1, FromOutsideCounts DEF AppInv, AppEnds, TablesInv, QueryInv
  <1>4. ASSUME NEW b \in Bots, NEW st \in States, SaveBotState(b, st) PROVE AppInv'
    BY <1>4, SaveBotStateInv
  <1>5. ASSUME NEW b \in Bots, SaveSafeStopReason(b) PROVE AppInv'
    BY <1>5, SaveSafeStopReasonInv
  <1>6. ASSUME NEW command \in DOMAIN Shown, Command(command) PROVE AppInv'
    <2>1. QueryInv'
      BY <1>6, CommandInv DEF AppInv
    <2> QED
      BY <1>6, <2>1, FromOutsideCounts
      DEF AppInv, Command, TablesInv, LaunchInv, SavedBook, SavedState
  <1>7. CASE QueryStep
    <2>1. QueryInv'
      BY <1>7, QueryStepInv DEF AppInv
    <2>2. UNCHANGED <<tables, saved, app, events>>
      BY <1>7
      DEF QueryStep, ReadRow, ReadLots, ReadOrders, ReadCounters, Read, Answer, CommandFails
    <2> QED
      BY <2>1, <2>2 DEF AppInv, TablesInv, LaunchInv, SavedBook, SavedState
  <1>8. ASSUME UNCHANGED <<tables, saved, app, query>>, UNCHANGED events \/ FromOutside
        PROVE  AppInv'
    <2>1. TablesInv' /\ LaunchInv' /\ QueryInv'
      BY <1>8 DEF AppInv, TablesInv, LaunchInv, QueryInv, SavedBook, SavedState, Current
    <2> QED
      BY <1>8, <2>1, FromOutsideCounts DEF AppInv
  <1>9. CASE AppNext
    BY <1>1, <1>2, <1>3, <1>4, <1>5, <1>6, <1>7, <1>9 DEF AppNext
  <1>10. CASE NotifierSteps /\ UNCHANGED <<tables, saved, app, query>>
    BY <1>8, <1>10 DEF NotifierSteps, Subscribe, Unsubscribe, NotifyEvent
  <1>11. CASE UNCHANGED appVars
    BY <1>8, <1>11 DEF appVars
  <1> QED
    BY <1>9, <1>10, <1>11 DEF Next, vars

LEMMA AppInvHolds == Spec => []AppInv
  BY InitAppInv, NextAppInv, PTL DEF Spec

LEMMA ReadStateIsTyped ==
    ASSUME NEW state, NEW seen, ReadSoFar(state, DOMAIN CleanState, seen),
           \A st \in seen : StorableState(st, LotIds)
    PROVE  state \in BotState(LotIds)
  <1>1. ASSUME NEW f \in DOMAIN CleanState
        PROVE  \E st \in BotState(LotIds) : state[f] = st[f]
    BY DEF ReadSoFar, StorableState
  <1>2. state = [f \in DOMAIN CleanState |-> state[f]]
    BY DEF ReadSoFar
  <1> QED
    BY <1>1, <1>2 DEF BotState, CleanState

\* The runtime state of the app, the saved states and what is read of them are states of a
\* bot; the settings of a launch were validated; the notifier's variables keep their types.
THEOREM AppTypes == Spec => []TypeOK
  <1>1. AppInv /\ NotifierTypeOK => TypeOK
    <2> SUFFICES ASSUME AppInv, NotifierTypeOK PROVE TypeOK
      OBVIOUS
    <2>1. query # None =>
              /\ query.command \in DOMAIN Shown
              /\ query.reads = "answer" => query.state \in BotState(LotIds)
      BY ReadStateIsTyped DEF AppInv, QueryInv, FieldsBefore
    <2>2. app.runtime \in Optional(BotState(LotIds))
      BY DEF AppInv, LaunchInv, StorableState, Optional
    <2> QED
      BY <2>1, <2>2 DEF AppInv, TablesInv, LaunchInv, TypeOK
  <1> QED
    BY <1>1, AppInvHolds, AppRunsNotifier, NotifierTypes, PTL

\* Bots that share a database do not see each other: what is loaded for one is what it
\* last saved (save_bot_state, load_bot_state, save_safe_stop_reason).
THEOREM BotsStayApart == Spec => []BotsDoNotMix
  <1>1. AppInv => BotsDoNotMix
    BY LoadedIsSaved DEF AppInv, BotsDoNotMix
  <1> QED
    BY <1>1, AppInvHolds, PTL

\* What a command shows is of one state that was current while it was worked on, although
\* the four SELECTs of load_bot_state may read of different ones; and with nothing saved
\* meanwhile that state was loaded whole.
THEOREM CommandsShowOneState == Spec => []RepliesAreOneState
  <1>1. AppInv => RepliesAreOneState
    <2> SUFFICES ASSUME AppInv, query # None, query.reads = "answer"
                 PROVE  /\ Reply(query.command, query.state)
                               \in {Reply(query.command, st) : st \in query.seen}
                        /\ Cardinality(query.seen) = 1 => query.state \in query.seen
      BY DEF RepliesAreOneState
    <2>1. /\ ReadSoFar(query.state, DOMAIN CleanState, query.seen)
          /\ query.command \in DOMAIN Shown /\ IsFiniteSet(query.seen)
          /\ \A st \in query.seen : StorableState(st, LotIds)
      BY DEF AppInv, QueryInv, FieldsBefore
    <2>2. PICK st \in query.seen : \A f \in Scalars : query.state[f] = st[f]
      BY <2>1 DEF ReadSoFar
    <2>3. Shown[query.command] \subseteq Scalars
      BY <2>1 DEF Shown, Scalars, CleanState
    <2>4. Reply(query.command, query.state) = Reply(query.command, st)
      BY <2>2, <2>3 DEF Reply
    <2>5. ASSUME Cardinality(query.seen) = 1 PROVE query.state \in query.seen
      <3>1. PICK s : query.seen = {s}
        BY <2>1, <2>5, FS_Singleton
      <3>2. /\ query.state = [f \in DOMAIN CleanState |-> query.state[f]]
            /\ \A f \in DOMAIN CleanState : query.state[f] = s[f]
        BY <2>1, <3>1 DEF ReadSoFar
      <3>3. s = [f \in DOMAIN CleanState |-> s[f]]
        BY <2>1, <3>1, StorableIsFunction
      <3> QED
        BY <3>1, <3>2, <3>3
    <2> QED
      BY <2>4, <2>5
  <1> QED
    BY <1>1, AppInvHolds, PTL

\* However late a launch that restores writes the state back, and wherever it fails, it
\* writes what it read: the other bots have not touched it, and its own has no process up
\* (restore_or_initialize_state, warmup_from_candles).
THEOREM LaunchKeepsBook == Spec => RestoringLaunchKeepsBook
  <1>1. AppInv /\ [Next]_vars
            => [StackIsUp /\ app.settings.live_start_policy = "restore"
                    => SavedBook' = SavedBook]_vars
    <2> SUFFICES ASSUME AppInv, [Next]_vars, StackIsUp,
                        app.settings.live_start_policy = "restore"
                 PROVE  SavedBook' = SavedBook
      OBVIOUS
    <2>1. ASSUME SavedState(Bot)' = SavedState(Bot) PROVE SavedBook' = SavedBook
      BY <2>1 DEF SavedBook
    <2>2. ASSUME NEW b \in Bots, NEW st \in States, SaveBotState(b, st)
          PROVE  SavedBook' = SavedBook
      <3>1. b # Bot
        BY <2>2 DEF SaveBotState, Trades
      <3>2. CASE LotIdsFree(tables, b, st)
        <4>1. StateSaved(b, st)
          <5>1. StorableState(st, LotIds)
            BY StatesAssumption DEF StorableState
          <5> QED
            BY <2>2, <3>2, <5>1, SaveIsStateSaved DEF SaveBotState, AppInv
        <4> QED
          BY <2>1, <3>1, <4>1, StateSavedInv, BotAssumption DEF AppInv
      <3>3. CASE ~LotIdsFree(tables, b, st)
        BY <2>1, <2>2, <3>3 DEF SaveBotState, RolledBack, SavedState
      <3> QED
        BY <3>2, <3>3
    <2>3. ASSUME NEW b \in Bots, SaveSafeStopReason(b)
          PROVE  SavedBook' = SavedBook
      <3>1. b # Bot
        BY <2>3 DEF SaveSafeStopReason, Trades
      <3>2. StateSaved(b, [saved[b] EXCEPT !.safe_stop_active = TRUE])
        BY <2>3, MarkIsStateSaved DEF AppInv
      <3> QED
        BY <2>1, <3>1, <3>2, StateSavedInv, BotAssumption DEF AppInv
    <2>4. CASE SaveWarmup
      <3>1. /\ app.runtime # None /\ StorableState(app.runtime, LotIds)
            /\ WithoutTime(app.runtime) = SavedBook
        BY <2>4 DEF AppInv, LaunchInv, SaveWarmup
      <3>2. SavedState(Bot)' = app.runtime
        BY <2>4, <3>1, SaveIsStateSaved, StateSavedInv, BotAssumption DEF AppInv, SaveWarmup
      <3> QED
        BY <3>1, <3>2 DEF SavedBook, WithoutTime, StateOrInitial
    <2>5. ASSUME UNCHANGED tables PROVE SavedBook' = SavedBook
      BY <2>5 DEF SavedBook, SavedState
    <2>6. CASE AppStep
      BY <2>4, <2>5, <2>6
      DEF AppStep, Restore, FetchSnapshot, FetchNoCandles, Poll, LaunchFails
    <2>7. CASE QueryStep
      BY <2>5, <2>7
      DEF QueryStep, ReadRow, ReadLots, ReadOrders, ReadCounters, Read, Answer, CommandFails
    <2>8. CASE AppNext
      BY <2>2, <2>3, <2>5, <2>6, <2>7, <2>8 DEF AppNext, Launch, AppEnds, Command
    <2> QED
      BY <2>5, <2>8 DEF Next, vars, appVars
  <1> QED
    BY <1>1, AppInvHolds, PTL DEF Spec, RestoringLaunchKeepsBook
=============================================================================
