------------------------------ MODULE MarketFeed ------------------------------
(***************************************************************************)
(* How candle updates reach the buffer:                                    *)
(*   bot/data/market_ws.py       stream_candles, with its reconnects       *)
(*   bot/data/market_source.py   fetch_startup_candles, before it          *)
(*   scripts/run_dry_run_ws.py   the loop that feeds the buffer            *)
(*                                                                         *)
(* The exchange publishes each bar in several versions, the last of them   *)
(* final, and sends them over the connection, if one is open.  Whatever it *)
(* publishes between the snapshot and the subscription, or while the       *)
(* stream is reconnecting, is lost: nothing is backfilled later.           *)
(*                                                                         *)
(* published and wire are the exchange and the network.  emitted, lost and *)
(* consumed are history: the closed bars handed on, the updates that never *)
(* reached the stream, and how many candles it yielded.                    *)
(***************************************************************************)
EXTENDS CandleUpdateBuffer, Sequences, SequencesExt

CONSTANTS MaxBar, MaxVersion,   \* bounds on the bars and on the versions of one
          MaxWire,              \* bound on the messages in flight
          MaxFailures,          \* failures is not counted beyond this
          AttemptLimits,        \* values of reconnect_attempts
          CandleLimits          \* values of max_candles

ASSUME FeedBounds ==
    /\ {MaxBar, MaxVersion, MaxWire, MaxFailures} \subseteq Nat \ {0}
    /\ \A n \in AttemptLimits \ {None} : n \in 0 .. MaxFailures - 1
    /\ CandleLimits \ {None} \subseteq Nat

VARIABLES
    pc,             \* "connecting", "open", "sleeping", "raised", "returned"
    limits,         \* the arguments reconnect_attempts and max_candles
    failures, delivered, buffer,
    published,      \* the last version the exchange published of each bar, or 0
    wire,           \* the messages on the open connection, in order
    emitted, lost, consumed

stream == <<pc, failures, delivered>>
vars == <<stream, limits, buffer, published, wire, emitted, lost, consumed>>

Bars == 1 .. MaxBar
Candle(t, v) == [close_time |-> t, version |-> v]
Candles == {Candle(t, v) : t \in Bars, v \in 1 .. MaxVersion}

\* A message of the websocket: a candle, or None for any that holds none (ping, which
\* is answered, acknowledgement, other channel) or cannot be read.
Messages == Optional(Candles)

ASSUME CandleAssumption == None \notin Candles

\* fetch_startup_candles and warmup: the bars up to c, c still in progress
Backfilled(c) ==
    [current_candle |-> c,
     last_emitted_close_time |-> IF c.close_time = 1 THEN None ELSE c.close_time - 1]

Known(p) == {c \in Candles : c.version <= p[c.close_time]}

\* The snapshot may lag behind the exchange, or be empty.
Init ==
    /\ pc = "connecting"
    /\ limits \in [reconnect_attempts : AttemptLimits, max_candles : CandleLimits]
    /\ failures = 0
    /\ delivered = 0
    /\ \E newest \in Candles :
          published = [t \in Bars |-> IF t < newest.close_time THEN MaxVersion
                                      ELSE IF t = newest.close_time THEN newest.version
                                      ELSE 0]
    /\ \/ buffer = EmptyBuffer
       \/ \E c \in Known(published) : buffer = Backfilled(c)
    /\ wire = <<>>
    /\ emitted = <<>>
    /\ lost = Known(published) \ {buffer.current_candle}
    /\ consumed = 0

-----------------------------------------------------------------------------
(* The exchange and the network *)

\* the newer version of the newest bar, or the first version of the next
IsNext(c) ==
    /\ published[c.close_time] = c.version - 1
    /\ c.close_time > 1 => published[c.close_time - 1] > 0
    /\ \A t \in Bars : t > c.close_time => published[t] = 0

Send(m) ==
    /\ pc = "open"
    /\ Len(wire) < MaxWire
    /\ wire' = Append(wire, m)

Publish(c) ==
    /\ IsNext(c)
    /\ published' = [published EXCEPT ![c.close_time] = c.version]
    /\ \/ Send(c) /\ UNCHANGED lost
       \/ pc # "open" /\ lost' = lost \cup {c} /\ UNCHANGED wire
    /\ UNCHANGED <<stream, limits, buffer, emitted, consumed>>

SendOther ==
    /\ Send(None)
    /\ UNCHANGED <<stream, limits, buffer, published, emitted, lost, consumed>>

-----------------------------------------------------------------------------
(* stream_candles *)

Bug_NoneIsZero(n) ==
    n > (IF limits.reconnect_attempts = None THEN 0 ELSE limits.reconnect_attempts)
GivesUp(n) == limits.reconnect_attempts # None /\ n > limits.reconnect_attempts

Bug_EnoughOffByOne(n) == limits.max_candles # None /\ n > limits.max_candles
Enough(n) == limits.max_candles # None /\ n >= limits.max_candles

Bug_KeepFailures == failures
FailuresOnConnect == 0

\* the end of the except clause
Fail ==
    LET n == failures + 1 IN
    /\ failures' = IF n > MaxFailures THEN MaxFailures ELSE n
    /\ pc' = IF GivesUp(n) THEN "raised" ELSE "sleeping"
    /\ UNCHANGED delivered

Connect ==
    /\ pc = "connecting"
    /\ pc' = "open"
    /\ failures' = FailuresOnConnect
    /\ UNCHANGED <<delivered, limits, buffer, published, wire, emitted, lost, consumed>>

ConnectFails ==
    /\ pc = "connecting"
    /\ Fail
    /\ UNCHANGED <<limits, buffer, published, wire, emitted, lost, consumed>>

\* A send or the iteration raises, or the parsing of a candle whose time no datetime
\* holds, which is no MarketWSPayloadError; what is still in flight is gone.
Drop ==
    /\ pc = "open"
    /\ Fail
    /\ wire' = <<>>
    /\ lost' = lost \cup (ToSet(wire) \ {None})
    /\ UNCHANGED <<limits, buffer, published, emitted, consumed>>

\* The peer closes in good order: the iteration ends, and the loop connects again
\* without a delay or a failure.
PeerCloses ==
    /\ pc = "open"
    /\ wire = <<>>
    /\ pc' = "connecting"
    /\ UNCHANGED <<failures, delivered, limits, buffer, published, wire, emitted, lost,
                   consumed>>

Wake ==
    /\ pc = "sleeping"
    /\ pc' = "connecting"
    /\ UNCHANGED <<failures, delivered, limits, buffer, published, wire, emitted, lost,
                   consumed>>

\* A message without a candle: `continue`.
Ignore ==
    /\ pc = "open"
    /\ wire # <<>>
    /\ Head(wire) = None
    /\ wire' = Tail(wire)
    /\ UNCHANGED <<stream, limits, buffer, published, emitted, lost, consumed>>

Bug_HandsOnNothing(closed) == Append(emitted, closed)
HandOn(closed) == IF closed = None THEN emitted ELSE Append(emitted, closed)

\* A candle is yielded, and the loop of the script puts it into the buffer.
Yield ==
    /\ pc = "open"
    /\ wire # <<>>
    /\ Head(wire) # None
    /\ LET r == process_update(buffer, Head(wire)) IN
          /\ buffer' = r.buffer
          /\ emitted' = HandOn(r.closed)
    /\ delivered' = delivered + 1
    /\ consumed' = consumed + 1
    /\ \/ ~Enough(delivered') /\ wire' = Tail(wire) /\ UNCHANGED pc
       \/ Enough(delivered') /\ wire' = <<>> /\ pc' = "returned"
    /\ UNCHANGED <<failures, limits, published, lost>>

Next ==
    \/ \E c \in Candles : Publish(c)
    \/ SendOther \/ Connect \/ ConnectFails \/ Drop \/ PeerCloses
    \/ Wake \/ Ignore \/ Yield

\* asyncio.sleep ends, and an exchange that is tried again and again lets the stream in
\* at last.
Fairness == WF_vars(Wake) /\ SF_vars(Connect)

Spec == Init /\ [][Next]_vars /\ Fairness

-----------------------------------------------------------------------------
TypeOK ==
    /\ pc \in {"connecting", "open", "sleeping", "raised", "returned"}
    /\ limits \in [reconnect_attempts : AttemptLimits, max_candles : CandleLimits]
    /\ failures \in 0 .. MaxFailures
    /\ delivered \in Nat
    /\ buffer \in [current_candle : Messages, last_emitted_close_time : Optional(Bars)]
    /\ published \in [Bars -> 0 .. MaxVersion]
    /\ wire \in Seq(Messages)
    /\ emitted \in Seq(Candles)
    /\ lost \subseteq Candles
    /\ consumed \in Nat

Final(t) == Candle(t, published[t])

\* Only an outage damages the bars the strategy sees: a bar that is over, and whose
\* final update reached the stream, is handed on with its final content; and a bar
\* handed on with any other content is one whose final update was lost, in the gap
\* after the snapshot or while the websocket was down (stream_candles does not
\* reorder, drop or repeat what it reads, and the buffer waits for the next bar).
BarsWholeUnlessLost ==
    /\ \A t \in Bars :
          /\ published[t] > 0 /\ Final(t) \notin lost
          /\ buffer.current_candle # None
          /\ t < buffer.current_candle.close_time
          => \E i \in DOMAIN emitted : emitted[i] = Final(t)
    /\ \A i \in DOMAIN emitted :
          emitted[i] # Final(emitted[i].close_time) => Final(emitted[i].close_time) \in lost

\* However many outages there were before, losing an established connection is never
\* by itself the end of the stream when at least one attempt is allowed: the failures
\* counted are those since the last connection (failures = 0 after the connect).
DropIsRetried ==
    [][pc = "open" /\ limits.reconnect_attempts # 0 => pc' # "raised"]_vars

\* Whether there are enough is asked after a candle was yielded: asked for none, the
\* stream yields one.
AtLeastOne(n) == IF n = 0 THEN 1 ELSE n

\* max_candles bounds what the stream yields over all its connections together, and
\* the stream stops at exactly that many (delivered is set up outside the loop), a
\* first candle apart, which is yielded even when none was asked for.
NeverMoreThanAsked ==
    limits.max_candles # None =>
        /\ consumed <= AtLeastOne(limits.max_candles)
        /\ consumed = AtLeastOne(limits.max_candles) <=> pc = "returned"

\* The dry run's own call, without limits, never comes to an end: whatever the failures
\* and however often the peer closes, the stream is connected again and again.
StreamGoesOn ==
    limits = [reconnect_attempts |-> None, max_candles |-> None] => []<>(pc = "open")
=============================================================================
