---------------------------- MODULE CandleProofs ----------------------------
(***************************************************************************)
(* Which bars come out of the buffer, for any set of updates and any order *)
(* of their arrival.                                                       *)
(***************************************************************************)
EXTENDS CandleStream, SequenceTheorems, TLAPS

-----------------------------------------------------------------------------
(* The buffer *)

(* The bar in progress, once there is one. *)
Current == buffer.current_candle

(* What a step does to the buffer: an update is taken for the bar in progress, or
   dropped, or it closes that bar. *)
Refreshed(u) ==
    /\ Current = None \/ u.close_time = Current.close_time
    /\ buffer' = [buffer EXCEPT !.current_candle = u]
    /\ emitted' = emitted
    /\ latest' = Accepted(u)

Closed(u) ==
    /\ Current # None /\ Current.close_time < u.close_time
    /\ buffer' = [current_candle |-> u, last_emitted_close_time |-> Current.close_time]
    /\ emitted' = Append(emitted, Current)
    /\ latest' = Accepted(u)

(* Between two updates: nothing was accepted yet, or every bar handed out is older
   than the bar in progress, whose content is the last update accepted for it. *)
InProgress ==
    \/ Current = None /\ emitted = <<>> /\ DOMAIN latest = {}
    \/ /\ Current # None
       /\ \A i \in DOMAIN emitted : emitted[i].close_time < Current.close_time
       /\ Current.close_time \in DOMAIN latest
       /\ latest[Current.close_time] = Current

(* The inductive invariant.  EmittedInOrder needs InProgress (the bar about to be
   handed out is newer than all before), and so does EmittedIsLatest (an update
   of the bar in progress touches no bar that was handed out). *)
IInv == TypeOK /\ InProgress /\ EmittedInOrder /\ EmittedIsLatest

LEMMA UpdateType == \A u \in Updates : u # None /\ u.close_time \in Nat
BY UpdatesAssumption

LEMMA StepCases ==
    ASSUME TypeOK, NEW u \in Updates, BufferUpdate(u) \/ CloseBar(u)
    PROVE  Refreshed(u) \/ UNCHANGED vars \/ Closed(u)
<1> DEFINE r == process_update(buffer, u)
<1>1. Current \in Optional(Updates) /\ u.close_time \in Nat /\ u # None
  BY UpdateType DEF TypeOK, Current
<1>2. CASE Starts(buffer, u)
  <2>1. r = [buffer |-> Refresh(buffer, u), closed |-> None]
    BY <1>2 DEF process_update
  <2>2. ~OutOfOrder(buffer, u)
    BY <1>1, <1>2, UpdateType DEF Starts, OutOfOrder, Optional, Current
  <2> QED
    BY <1>2, <2>1, <2>2 DEF BufferUpdate, CloseBar, Refreshed, Starts, Refresh, Current
<1>3. CASE OutOfOrder(buffer, u)
  <2>1. ~Starts(buffer, u)
    BY <1>1, <1>3, UpdateType DEF Starts, OutOfOrder, Optional, Current
  <2>2. r = [buffer |-> buffer, closed |-> None]
    BY <1>3, <2>1 DEF process_update
  <2> QED
    BY <1>3, <2>2 DEF BufferUpdate, CloseBar, vars
<1>4. CASE ~Starts(buffer, u) /\ ~OutOfOrder(buffer, u)
  <2>1. Current # None /\ Current \in Updates /\ Current.close_time < u.close_time
    BY <1>1, <1>4, UpdateType DEF Starts, OutOfOrder, Optional, Current
  <2>2. r = [buffer |-> [current_candle |-> u,
                         last_emitted_close_time |-> Current.close_time],
             closed |-> Current]
    BY <1>4 DEF process_update, Current
  <2>3. CloseBar(u)
    BY <2>1, <2>2 DEF BufferUpdate
  <2> QED
    BY <2>1, <2>2, <2>3 DEF CloseBar, Closed
<1> QED
  BY <1>2, <1>3, <1>4

(* Accepting an update keeps latest well typed, and changes it for no other bar. *)
LEMMA AcceptedUpdate ==
    ASSUME TypeOK, NEW u \in Updates, latest' = Accepted(u)
    PROVE  /\ DOMAIN latest' = DOMAIN latest \cup {u.close_time}
           /\ latest'[u.close_time] = u
           /\ \A t \in DOMAIN latest : t # u.close_time => latest'[t] = latest[t]
           /\ DOMAIN latest' \subseteq Nat
           /\ \A t \in DOMAIN latest' : latest'[t] \in Updates /\ latest'[t].close_time = t
BY UpdateType DEF Accepted, TypeOK

LEMMA RefreshedPreserves ==
    ASSUME IInv, NEW u \in Updates, Refreshed(u)
    PROVE  IInv'
<1>1. /\ Current' = u /\ u # None /\ u.close_time \in Nat
      /\ emitted' = emitted /\ latest' = Accepted(u)
  BY UpdateType DEF Refreshed, Current, IInv, TypeOK
<1>2. TypeOK'
  BY <1>1, AcceptedUpdate DEF IInv, TypeOK, Refreshed, Optional
<1>3. \A i \in DOMAIN emitted : emitted[i].close_time < u.close_time
  BY DEF IInv, InProgress, Refreshed
<1>4. InProgress'
  BY <1>1, <1>3, AcceptedUpdate DEF IInv, InProgress
<1>5. EmittedInOrder'
  BY <1>1 DEF IInv, EmittedInOrder
<1>6. EmittedIsLatest'
  <2>1. \A i \in DOMAIN emitted : emitted[i] \in Updates
    BY ElementOfSeq DEF IInv, TypeOK
  <2>2. ASSUME NEW i \in DOMAIN emitted
        PROVE  /\ emitted[i].close_time \in DOMAIN latest'
               /\ emitted[i] = latest'[emitted[i].close_time]
    <3>1. emitted[i].close_time # u.close_time
      BY <1>1, <1>3, <2>1, UpdateType
    <3> QED
      BY <1>1, <3>1, AcceptedUpdate DEF IInv, EmittedIsLatest
  <2>3. ASSUME NEW t \in DOMAIN latest'
        PROVE  t = u.close_time \/ \E i \in DOMAIN emitted : emitted[i].close_time = t
    <3>1. t \in DOMAIN latest \/ t = u.close_time
      <4>1. DOMAIN latest' = DOMAIN latest \cup {u.close_time}
        BY <1>1, AcceptedUpdate DEF IInv
      <4> QED
        BY <4>1
    <3>2. t \in DOMAIN latest => Current # None /\ Current.close_time = u.close_time
      BY DEF IInv, InProgress, Refreshed
    <3> QED
      BY <3>1, <3>2 DEF IInv, EmittedIsLatest, Current
  <2> QED
    BY <1>1, <2>2, <2>3 DEF EmittedIsLatest, Current
<1> QED
  BY <1>2, <1>4, <1>5, <1>6 DEF IInv

LEMMA ClosedPreserves ==
    ASSUME IInv, NEW u \in Updates, Closed(u)
    PROVE  IInv'
<1>1. /\ Current' = u /\ u # None /\ u.close_time \in Nat
      /\ Current \in Updates /\ Current.close_time \in Nat
      /\ Current.close_time < u.close_time
      /\ latest' = Accepted(u)
  BY UpdateType DEF Closed, Current, IInv, TypeOK, Optional
<1>2. /\ emitted \in Seq(Updates) /\ emitted' \in Seq(Updates)
      /\ DOMAIN emitted = 1 .. Len(emitted) /\ DOMAIN emitted' = 1 .. (Len(emitted) + 1)
      /\ Len(emitted) \in Nat
      /\ \A i \in 1 .. Len(emitted) : emitted'[i] = emitted[i] /\ emitted[i] \in Updates
      /\ emitted'[Len(emitted) + 1] = Current
  <2>1. emitted \in Seq(Updates) /\ emitted' = Append(emitted, Current)
    BY DEF IInv, TypeOK, Closed
  <2> QED
    BY <1>1, <2>1, AppendProperties, ElementOfSeq, LenProperties
<1>3. /\ \A i \in 1 .. Len(emitted) :
            emitted[i].close_time \in Nat /\ emitted[i].close_time < Current.close_time
      /\ Current.close_time \in DOMAIN latest
      /\ latest[Current.close_time] = Current
  BY <1>1, <1>2, UpdateType DEF IInv, InProgress
<1>4. TypeOK'
  BY <1>1, <1>2, AcceptedUpdate DEF IInv, TypeOK, Closed, Optional
<1>5. \A i \in DOMAIN emitted' : emitted'[i].close_time < u.close_time
  BY <1>1, <1>2, <1>3
<1>6. InProgress'
  BY <1>1, <1>5, AcceptedUpdate DEF IInv, InProgress
<1>7. EmittedInOrder'
  <2> SUFFICES ASSUME NEW i \in 1 .. (Len(emitted) + 1), NEW j \in 1 .. (Len(emitted) + 1),
                      i < j
               PROVE  emitted'[i].close_time < emitted'[j].close_time
    BY <1>2 DEF EmittedInOrder
  <2>1. i \in 1 .. Len(emitted)
    BY <1>2
  <2>2. CASE j \in 1 .. Len(emitted)
    BY <1>2, <2>1, <2>2 DEF IInv, EmittedInOrder
  <2>3. CASE j = Len(emitted) + 1
    BY <1>2, <1>3, <2>1, <2>3
  <2> QED
    BY <1>2, <2>2, <2>3
<1>8. EmittedIsLatest'
  <2>1. ASSUME NEW i \in DOMAIN emitted'
        PROVE  /\ emitted'[i].close_time \in DOMAIN latest'
               /\ emitted'[i] = latest'[emitted'[i].close_time]
    <3>1. emitted'[i].close_time # u.close_time
      BY <1>1, <1>2, <1>3
    <3>2. /\ emitted'[i].close_time \in DOMAIN latest
          /\ emitted'[i] = latest[emitted'[i].close_time]
      BY <1>2, <1>3 DEF IInv, EmittedIsLatest
    <3> QED
      BY <1>1, <3>1, <3>2, AcceptedUpdate DEF IInv
  <2>2. ASSUME NEW t \in DOMAIN latest'
        PROVE  t = u.close_time \/ \E i \in DOMAIN emitted' : emitted'[i].close_time = t
    <3>1. CASE t \in DOMAIN latest
      <4>1. t = Current.close_time \/ \E i \in DOMAIN emitted : emitted[i].close_time = t
        BY <3>1 DEF IInv, EmittedIsLatest, Current
      <4> QED
        BY <1>2, <4>1
    <3>2. CASE t = u.close_time
      BY <3>2
    <3>3. t \in DOMAIN latest \/ t = u.close_time
      <4>1. DOMAIN latest' = DOMAIN latest \cup {u.close_time}
        BY <1>1, AcceptedUpdate DEF IInv
      <4> QED
        BY <4>1
    <3> QED
      BY <3>1, <3>2, <3>3
  <2> QED
    BY <1>1, <2>1, <2>2 DEF EmittedIsLatest, Current
<1> QED
  BY <1>4, <1>6, <1>7, <1>8 DEF IInv

LEMMA Inductive == Spec => []IInv
<1>1. Init => IInv
  BY UpdatesAssumption, EmptySeq
  DEF Init, EmptyBuffer, IInv, TypeOK, InProgress, EmittedInOrder, EmittedIsLatest,
      Current, Optional
<1>2. IInv /\ [Next]_vars => IInv'
  <2> SUFFICES ASSUME IInv, [Next]_vars PROVE IInv'
    OBVIOUS
  <2>1. CASE UNCHANGED vars
    BY <2>1 DEF vars, IInv, TypeOK, InProgress, EmittedInOrder, EmittedIsLatest, Current
  <2>2. CASE Next
    <3>1. PICK u \in Updates : BufferUpdate(u) \/ CloseBar(u)
      BY <2>2 DEF Next
    <3> QED
      BY <2>1, <3>1, StepCases, RefreshedPreserves, ClosedPreserves DEF IInv
  <2> QED
    BY <2>1, <2>2
<1> QED
  BY <1>1, <1>2, PTL DEF Spec

(* The buffer, the bars handed out and the record of accepted updates keep their
   types, whatever updates arrive. *)
THEOREM TypeCorrect == Spec => []TypeOK
BY Inductive, PTL DEF IInv

(* No order of arrival makes the buffer hand out a bar twice or after a later bar. *)
THEOREM BarsInOrder == Spec => []EmittedInOrder
BY Inductive, PTL DEF IInv

(* No order of arrival loses a bar that was accepted or hands it out stale. *)
THEOREM BarsUpToDate == Spec => []EmittedIsLatest
BY Inductive, PTL DEF IInv
=============================================================================
