---------------------------- MODULE CandleStream ----------------------------
(***************************************************************************)
(* A CandleUpdateBuffer fed by a market stream that may repeat, skip,      *)
(* delay and reorder updates: BingX resends the in-progress bar on every   *)
(* trade, a reconnect loses updates, and a REST backfill overlaps the      *)
(* websocket.  Nothing is assumed of the order in which updates arrive.    *)
(*                                                                         *)
(* emitted and latest are history variables: the closed candles handed to  *)
(* the consumer, and the last update accepted for each bar.                *)
(***************************************************************************)
EXTENDS CandleUpdateBuffer, Sequences

CONSTANT Updates    \* the candle updates that may arrive

ASSUME UpdatesAssumption ==
    /\ None \notin Updates
    /\ \A u \in Updates : u.close_time \in Nat

VARIABLES buffer, emitted, latest

vars == <<buffer, emitted, latest>>

Init ==
    /\ buffer = EmptyBuffer
    /\ emitted = <<>>
    /\ latest = [t \in {} |-> None]

\* the last accepted update of each bar, once u is accepted
Accepted(u) ==
    [t \in DOMAIN latest \cup {u.close_time} |->
        IF t = u.close_time THEN u ELSE latest[t]]

\* An update of the current bar, or of a bar that is already over.
BufferUpdate(u) ==
    LET r == process_update(buffer, u) IN
    /\ r.closed = None
    /\ buffer' = r.buffer
    /\ latest' = IF OutOfOrder(buffer, u) THEN latest ELSE Accepted(u)
    /\ UNCHANGED emitted

\* The first update of a later bar closes the current one.
CloseBar(u) ==
    LET r == process_update(buffer, u) IN
    /\ r.closed # None
    /\ buffer' = r.buffer
    /\ emitted' = Append(emitted, r.closed)
    /\ latest' = Accepted(u)

Next == \E u \in Updates : BufferUpdate(u) \/ CloseBar(u)

Spec == Init /\ [][Next]_vars
-----------------------------------------------------------------------------
TypeOK ==
    /\ buffer \in [current_candle : Optional(Updates),
                   last_emitted_close_time : Optional(Nat)]
    /\ emitted \in Seq(Updates)
    /\ DOMAIN latest \subseteq Nat
    /\ \A t \in DOMAIN latest : latest[t] \in Updates /\ latest[t].close_time = t

\* However updates are repeated or reordered, the buffer hands out each bar at
\* most once, and bars in increasing close_time: the consumer never sees time
\* go back (CandleUpdateBuffer.process_update).
EmittedInOrder ==
    \A i, j \in DOMAIN emitted :
        i < j => emitted[i].close_time < emitted[j].close_time

\* No accepted bar is lost and no stale data is handed out: a bar for which an
\* update was accepted is either the one in progress or was emitted, and it was
\* emitted with the last update accepted for it, which nothing alters later.
EmittedIsLatest ==
    /\ \A i \in DOMAIN emitted :
          /\ emitted[i].close_time \in DOMAIN latest
          /\ emitted[i] = latest[emitted[i].close_time]
    /\ \A t \in DOMAIN latest :
          \/ t = buffer.current_candle.close_time
          \/ \E i \in DOMAIN emitted : emitted[i].close_time = t
=============================================================================
