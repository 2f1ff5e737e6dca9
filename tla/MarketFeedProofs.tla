--------------------------- MODULE MarketFeedProofs ---------------------------
(***************************************************************************)
(* What stream_candles promises of its two limits, and of the bars it      *)
(* hands on, for any bars, versions, limits and failures.                  *)
(***************************************************************************)
EXTENDS MarketFeed, TLAPS

-----------------------------------------------------------------------------
(* The limits *)

\* The limits keep the values they were called with.
LimitsOK ==
    /\ limits \in [reconnect_attempts : AttemptLimits, max_candles : CandleLimits]
    /\ failures \in Nat

\* delivered counts every candle the stream yielded, over all connections, and the
\* stream has stopped as soon as there were enough of them, and one.
Counted ==
    /\ delivered \in Nat
    /\ consumed = delivered
    /\ limits.max_candles # None => delivered <= AtLeastOne(limits.max_candles)
    /\ delivered > 0 /\ Enough(delivered) <=> pc = "returned"

\* An established connection starts from no failures and has had none.
NoFailureWhileOpen == pc = "open" => failures = 0

IInv == LimitsOK /\ Counted /\ NoFailureWhileOpen

\* A limit is None or a number.
LEMMA LimitTypes ==
    ASSUME LimitsOK
    PROVE  /\ limits.max_candles # None => limits.max_candles \in Nat
           /\ limits.reconnect_attempts # None => limits.reconnect_attempts \in Nat
  <1>1. /\ limits.reconnect_attempts \in AttemptLimits
        /\ limits.max_candles \in CandleLimits
    BY DEF LimitsOK
  <1>2. MaxFailures \in Nat
    BY FeedBounds
  <1> QED
    BY <1>1, <1>2, FeedBounds

\* Before the first candle the stream has not stopped, whatever max_candles is.
LEMMA InitIInv == Init => IInv
  <1> SUFFICES ASSUME Init PROVE IInv
    OBVIOUS
  <1>1. LimitsOK
    BY DEF Init, LimitsOK
  <1>2. limits.max_candles # None => limits.max_candles \in Nat
    BY <1>1, LimitTypes
  <1> QED
    BY <1>1, <1>2 DEF Init, IInv, Counted, NoFailureWhileOpen, Enough, AtLeastOne

\* The steps that yield no candle and do not stop the stream.
LEMMA OtherSteps ==
    ASSUME IInv, UNCHANGED <<limits, delivered, consumed>>, failures' \in Nat,
           pc' = "returned" <=> pc = "returned",
           pc' = "open" => failures' = 0
    PROVE  IInv'
  BY DEF IInv, LimitsOK, Counted, NoFailureWhileOpen, Enough

\* A failure is counted, and never passes for the end of a stream that had enough.
LEMMA FailStep ==
    ASSUME IInv, Fail, pc # "returned"
    PROVE  /\ failures' \in Nat /\ UNCHANGED delivered
           /\ pc' # "returned" /\ pc' # "open"
  <1>1. MaxFailures \in Nat /\ failures \in Nat
    BY FeedBounds DEF IInv, LimitsOK
  <1> QED
    BY <1>1 DEF Fail

\* A candle is yielded only while more are wanted, so one more is not too many.
LEMMA YieldStep ==
    ASSUME IInv, Yield
    PROVE  IInv'
  <1>1. /\ delivered \in Nat /\ consumed = delivered /\ pc = "open"
        /\ delivered = 0 \/ ~ Enough(delivered)
        /\ UNCHANGED <<limits, failures>>
        /\ delivered' = delivered + 1 /\ consumed' = consumed + 1
    BY DEF IInv, Counted, Yield
  <1>2. limits.max_candles # None => limits.max_candles \in Nat
    BY LimitTypes DEF IInv
  <1>3. LimitsOK'
    BY <1>1 DEF IInv, LimitsOK
  <1>4. limits.max_candles # None => delivered + 1 <= AtLeastOne(limits.max_candles)
    BY <1>1, <1>2 DEF Enough, AtLeastOne
  <1>5. Enough(delivered') <=> pc' = "returned"
    BY <1>1 DEF Yield
  <1>6. Enough(delivered)' <=> Enough(delivered')
    BY <1>1 DEF Enough
  <1>7. NoFailureWhileOpen'
    BY <1>1 DEF IInv, NoFailureWhileOpen
  <1> QED
    BY <1>1, <1>3, <1>4, <1>5, <1>6, <1>7 DEF IInv, Counted

LEMMA NextIInv == IInv /\ [Next]_vars => IInv'
  <1> SUFFICES ASSUME IInv, [Next]_vars PROVE IInv'
    OBVIOUS
  <1>0. failures \in Nat /\ (pc = "open" => failures = 0)
    BY DEF IInv, LimitsOK, NoFailureWhileOpen
  <1>1. ASSUME NEW c \in Candles, Publish(c) PROVE IInv'
    BY <1>0, <1>1, OtherSteps DEF Publish, stream
  <1>2. CASE SendOther
    BY <1>0, <1>2, OtherSteps DEF SendOther, stream
  <1>3. CASE Connect
    BY <1>0, <1>3, OtherSteps DEF Connect, FailuresOnConnect
  <1>4. CASE ConnectFails
    BY <1>4, FailStep, OtherSteps DEF ConnectFails
  <1>5. CASE Drop
    BY <1>5, FailStep, OtherSteps DEF Drop
  <1>6. CASE PeerCloses
    BY <1>0, <1>6, OtherSteps DEF PeerCloses
  <1>7. CASE Wake
    BY <1>0, <1>7, OtherSteps DEF Wake
  <1>8. CASE Ignore
    BY <1>0, <1>8, OtherSteps DEF Ignore, stream
  <1>9. CASE Yield
    BY <1>9, YieldStep
  <1>10. CASE UNCHANGED vars
    BY <1>0, <1>10, OtherSteps DEF vars, stream
  <1> QED
    BY <1>1, <1>2, <1>3, <1>4, <1>5, <1>6, <1>7, <1>8, <1>9, <1>10 DEF Next

\* stream_candles yields max_candles candles over all its connections, or one when that
\* is none, stops there, and stops nowhere else but by giving up.
THEOREM AsManyAsAsked == Spec => []NeverMoreThanAsked
  <1>1. IInv => NeverMoreThanAsked
    <2> SUFFICES ASSUME IInv, limits.max_candles # None
                 PROVE  /\ consumed <= AtLeastOne(limits.max_candles)
                        /\ consumed = AtLeastOne(limits.max_candles) <=> pc = "returned"
      BY DEF NeverMoreThanAsked
    <2>1. limits.max_candles \in Nat
      BY LimitTypes DEF IInv
    <2> QED
      BY <2>1 DEF IInv, Counted, Enough, AtLeastOne
  <1> QED
    BY <1>1, InitIInv, NextIInv, PTL DEF Spec

\* When a reconnect is allowed at all, no number of earlier outages makes the loss of an
\* established connection the end of the stream.
THEOREM LostConnectionIsRetried == Spec => DropIsRetried
  <1>1. ASSUME IInv, Next, pc = "open", limits.reconnect_attempts # 0
        PROVE  pc' # "raised"
    <2>1. CASE Drop
      <3>1. failures = 0
        BY <1>1 DEF IInv, NoFailureWhileOpen
      <3>2. limits.reconnect_attempts # None => limits.reconnect_attempts \in Nat
        BY <1>1, LimitTypes DEF IInv
      <3>3. ~ GivesUp(failures + 1)
        BY <1>1, <3>1, <3>2 DEF GivesUp
      <3> QED
        BY <2>1, <3>3 DEF Drop, Fail
    <2>2. CASE ~ Drop
      BY <1>1, <2>2 DEF Next, Publish, SendOther, Connect, ConnectFails, PeerCloses, Wake,
                        Ignore, Yield, stream
    <2> QED
      BY <2>1, <2>2
  <1>2. IInv /\ [Next]_vars => [pc = "open" /\ limits.reconnect_attempts # 0
                                   => pc' # "raised"]_vars
    BY <1>1
  <1> QED
    BY <1>2, InitIInv, NextIInv, PTL DEF Spec, DropIsRetried

-----------------------------------------------------------------------------
(* The bars *)

Earlier(a, b) ==
    \/ a.close_time < b.close_time
    \/ a.close_time = b.close_time /\ a.version < b.version

Published(c) == c.version <= published[c.close_time]
OnWire(c) == \E i \in DOMAIN wire : wire[i] = c
Current == buffer.current_candle

\* What is on the wire has been published, in the order it has there, and is later than
\* what the buffer has.
WireInOrder ==
    /\ \A i, j \in DOMAIN wire :
          i < j /\ wire[i] # None /\ wire[j] # None => Earlier(wire[i], wire[j])
    /\ \A i \in DOMAIN wire : wire[i] # None =>
          Published(wire[i]) /\ (Current # None => Earlier(Current, wire[i]))

\* An update that was published and not lost is on the wire, or the buffer is past it.
NothingSlips ==
    pc # "returned" =>
        \A c \in Candles : Published(c) =>
            \/ c \in lost \/ OnWire(c)
            \/ Current # None /\ (c = Current \/ Earlier(c, Current))

\* The buffer is past every bar it has handed on.
EmittedIsPast ==
    /\ Current # None => Published(Current)
    /\ \A i \in DOMAIN emitted :
          Current # None /\ emitted[i].close_time < Current.close_time

FeedInv == TypeOK /\ WireInOrder /\ NothingSlips /\ EmittedIsPast /\ BarsWholeUnlessLost

LEMMA CandleParts ==
    /\ \A c \in Candles : /\ c.close_time \in Bars /\ c.version \in 1 .. MaxVersion
                          /\ c.close_time \in Int /\ c.version \in Int
                          /\ c = Candle(c.close_time, c.version) /\ c # None
    /\ \A t \in Bars : \A v \in 1 .. MaxVersion :
          /\ Candle(t, v) \in Candles
          /\ Candle(t, v).close_time = t /\ Candle(t, v).version = v
  <1>1. MaxBar \in Nat /\ MaxVersion \in Nat
    BY FeedBounds
  <1>2. ASSUME NEW c \in Candles
        PROVE  /\ c.close_time \in Bars /\ c.version \in 1 .. MaxVersion
               /\ c = Candle(c.close_time, c.version)
    BY DEF Candles, Candle
  <1>3. ASSUME NEW t \in Bars, NEW v \in 1 .. MaxVersion
        PROVE  /\ Candle(t, v) \in Candles
               /\ Candle(t, v).close_time = t /\ Candle(t, v).version = v
    BY DEF Candles, Candle
  <1> QED
    BY <1>1, <1>2, <1>3, CandleAssumption DEF Bars

LEMMA InitFeedInv == Init => FeedInv
  <1> SUFFICES ASSUME Init PROVE FeedInv
    OBVIOUS
  <1>1. MaxBar \in Nat \ {0} /\ MaxVersion \in Nat \ {0} /\ MaxFailures \in Nat
    BY FeedBounds
  <1>2. published \in [Bars -> 0 .. MaxVersion]
    <2>1. PICK newest \in Candles :
              published = [t \in Bars |-> IF t < newest.close_time THEN MaxVersion
                                          ELSE IF t = newest.close_time THEN newest.version
                                          ELSE 0]
      BY DEF Init
    <2> QED
      BY <1>1, <2>1, CandleParts
  <1>3. /\ wire = << >> /\ emitted = << >> /\ lost = Known(published) \ {Current}
        /\ buffer = EmptyBuffer \/ \E c \in Known(published) : buffer = Backfilled(c)
    BY DEF Init, Current
  <1>4. /\ buffer \in [current_candle : Messages, last_emitted_close_time : Optional(Bars)]
        /\ Current # None => Current \in Candles /\ Published(Current)
    <2>1. CASE buffer = EmptyBuffer
      BY <2>1 DEF EmptyBuffer, Current, Messages, Optional
    <2>2. ASSUME NEW c \in Known(published), buffer = Backfilled(c)
          PROVE  /\ buffer \in [current_candle : Messages,
                                last_emitted_close_time : Optional(Bars)]
                 /\ Current \in Candles /\ Published(Current)
      <3>1. c \in Candles /\ Published(c)
        BY DEF Known, Published
      <3>2. c.close_time # 1 => c.close_time - 1 \in Bars
        BY <1>1, <3>1, CandleParts DEF Bars
      <3> QED
        BY <2>2, <3>1, <3>2 DEF Backfilled, Current, Messages, Optional
    <2> QED
      BY <1>3, <2>1, <2>2
  <1>5. TypeOK
    BY <1>1, <1>2, <1>3, <1>4 DEF Init, TypeOK, Known
  <1>6. NothingSlips
    <2> SUFFICES ASSUME NEW c \in Candles, Published(c), c \notin lost
                 PROVE  Current # None /\ c = Current
      BY DEF NothingSlips
    <2>1. c \in Known(published)
      BY DEF Known, Published
    <2> QED
      BY <1>3, <2>1, CandleParts
  <1>7. WireInOrder /\ EmittedIsPast
    BY <1>3, <1>4 DEF WireInOrder, EmittedIsPast
  <1>8. BarsWholeUnlessLost
    <2> SUFFICES ASSUME NEW t \in Bars, published[t] > 0, Final(t) \notin lost,
                        Current # None, t < Current.close_time
                 PROVE  FALSE
      BY <1>3 DEF BarsWholeUnlessLost, Current
    <2>1. published[t] \in 1 .. MaxVersion
      BY <1>1, <1>2
    <2>2. Final(t) \in Candles /\ Published(Final(t)) /\ Final(t).close_time = t
      BY <2>1, CandleParts DEF Final, Published
    <2>3. Final(t) # Current
      BY <1>4, <2>2, CandleParts
    <2> QED
      BY <1>3, <2>2, <2>3 DEF Known, Published
  <1> QED
    BY <1>5, <1>6, <1>7, <1>8 DEF FeedInv

\* What the messages of the wire are, without the first and with one more.
LEMMA WireParts ==
    ASSUME TypeOK
    PROVE  /\ \A i \in DOMAIN wire : i \in Nat /\ (wire[i] # None => wire[i] \in Candles)
           /\ \A m \in Messages :
                 /\ Append(wire, m) \in Seq(Messages)
                 /\ DOMAIN Append(wire, m) = 1 .. Len(wire) + 1
                 /\ DOMAIN wire = 1 .. Len(wire) /\ Len(wire) \in Nat
                 /\ \A i \in DOMAIN wire : Append(wire, m)[i] = wire[i]
                 /\ Append(wire, m)[Len(wire) + 1] = m
           /\ wire # << >> =>
                 /\ Tail(wire) \in Seq(Messages)
                 /\ 1 \in DOMAIN wire /\ Head(wire) = wire[1]
                 /\ \A i \in DOMAIN Tail(wire) :
                       i + 1 \in DOMAIN wire /\ Tail(wire)[i] = wire[i + 1] /\ i + 1 > 1
                 /\ \A i \in DOMAIN wire :
                       i = 1 \/ (i - 1 \in DOMAIN Tail(wire) /\ Tail(wire)[i - 1] = wire[i])
  <1>1. wire \in Seq(Messages) /\ \A m \in Messages : m # None => m \in Candles
    BY DEF TypeOK, Messages, Optional
  <1> QED
    BY <1>1

\* The steps that hand nothing on and publish nothing only have to keep the wire.
LEMMA NothingHandedOn ==
    ASSUME FeedInv, UNCHANGED <<buffer, published, emitted>>, lost \subseteq lost',
           TypeOK', WireInOrder', NothingSlips'
    PROVE  FeedInv'
  <1>1. EmittedIsPast'
    BY DEF FeedInv, EmittedIsPast, Current, Published
  <1>2. BarsWholeUnlessLost'
    BY DEF FeedInv, BarsWholeUnlessLost, Final
  <1> QED
    BY <1>1, <1>2 DEF FeedInv

\* What is published is earlier than what comes next.
LEMMA NextIsLater ==
    ASSUME TypeOK, NEW c \in Candles, IsNext(c)
    PROVE  /\ \A d \in Candles : Published(d) => Earlier(d, c)
           /\ published' = [published EXCEPT ![c.close_time] = c.version] =>
                 /\ Published(c)'
                 /\ \A d \in Candles : Published(d)' <=> Published(d) \/ d = c
  <1>1. published \in [Bars -> 0 .. MaxVersion] /\ MaxVersion \in Nat
    BY FeedBounds DEF TypeOK
  <1>2. /\ c.close_time \in Bars /\ c.version \in 1 .. MaxVersion
        /\ c.close_time \in Int
    BY CandleParts
  <1>3. ASSUME NEW d \in Candles, Published(d) PROVE Earlier(d, c)
    <2>1. /\ d.close_time \in Bars /\ d.version \in 1 .. MaxVersion
          /\ d.close_time \in Int
      BY CandleParts
    <2>2. published[d.close_time] # 0 /\ published[d.close_time] \in Int
      BY <1>1, <1>3, <2>1 DEF Published
    <2>3. ~ (d.close_time > c.close_time)
      BY <2>1, <2>2 DEF IsNext
    <2>4. d.close_time = c.close_time => d.version < c.version
      BY <1>1, <1>2, <1>3, <2>1 DEF Published, IsNext
    <2> QED
      BY <1>2, <2>1, <2>3, <2>4 DEF Earlier
  <1>4. ASSUME published' = [published EXCEPT ![c.close_time] = c.version],
               NEW d \in Candles
        PROVE  Published(d)' <=> Published(d) \/ d = c
    <2>1. /\ d.close_time \in Bars /\ d.version \in 1 .. MaxVersion
          /\ d = Candle(d.close_time, d.version)
          /\ c = Candle(c.close_time, c.version)
      BY CandleParts
    <2>2. CASE d.close_time # c.close_time
      BY <1>1, <1>2, <1>4, <2>1, <2>2 DEF Published
    <2>3. CASE d.close_time = c.close_time
      <3>1. published'[d.close_time] = c.version
        BY <1>1, <1>2, <1>4, <2>3
      <3>2. published[d.close_time] = c.version - 1
        BY <2>3 DEF IsNext
      <3> QED
        BY <1>2, <2>1, <2>3, <3>1, <3>2 DEF Published
    <2> QED
      BY <2>2, <2>3
  <1> QED
    BY <1>3, <1>4 DEF Published

\* The exchange publishes: what it adds is later than all the stream has seen, and
\* belongs to no bar that was handed on.
LEMMA PublishFeed ==
    ASSUME FeedInv, NEW c \in Candles, Publish(c)
    PROVE  FeedInv'
  <1> USE DEF FeedInv
  <1>1. /\ IsNext(c) /\ UNCHANGED <<pc, limits, failures, delivered, buffer, emitted, consumed>>
        /\ published' = [published EXCEPT ![c.close_time] = c.version]
        /\ \/ pc = "open" /\ wire' = Append(wire, c) /\ lost' = lost
           \/ pc # "open" /\ lost' = lost \cup {c} /\ wire' = wire
    BY DEF Publish, Send, stream
  <1>2. /\ \A d \in Candles : Published(d) => Earlier(d, c)
        /\ Published(c)'
        /\ \A d \in Candles : Published(d)' <=> Published(d) \/ d = c
    BY <1>1, NextIsLater
  <1>3. /\ c.close_time \in Bars /\ c.version \in 0 .. MaxVersion /\ c \in Messages
        /\ c # None
    <2>1. MaxVersion \in Nat
      BY FeedBounds
    <2> QED
      BY <2>1, CandleParts DEF Messages, Optional
  <1>4. /\ Current = None \/ Current \in Candles
        /\ Current' = Current
        /\ \A i \in DOMAIN emitted : emitted[i] \in Candles
    BY <1>1 DEF TypeOK, Current, Messages, Optional
  <1>5. TypeOK'
    <2>1. published' \in [Bars -> 0 .. MaxVersion]
      BY <1>1, <1>3 DEF TypeOK
    <2>2. wire' \in Seq(Messages)
      BY <1>1, <1>3, WireParts DEF TypeOK
    <2>3. lost' \subseteq Candles
      BY <1>1 DEF TypeOK
    <2> QED
      BY <1>1, <2>1, <2>2, <2>3 DEF TypeOK
  <1>6. WireInOrder'
    <2>1. CASE wire' = wire
      BY <1>1, <1>2, <1>4, <2>1, WireParts DEF WireInOrder
    <2>2. CASE wire' = Append(wire, c)
      <3>1. /\ DOMAIN wire' = 1 .. Len(wire) + 1 /\ DOMAIN wire = 1 .. Len(wire)
            /\ Len(wire) \in Nat /\ wire'[Len(wire) + 1] = c
            /\ \A i \in DOMAIN wire : wire'[i] = wire[i]
                                    /\ (wire[i] # None => wire[i] \in Candles)
        BY <1>3, <2>2, WireParts
      <3>2. \A i \in DOMAIN wire : wire[i] # None => Earlier(wire[i], c)
        BY <1>2, <3>1 DEF WireInOrder
      <3>3. Current # None => Earlier(Current, c)
        BY <1>2, <1>4 DEF EmittedIsPast
      <3>4. \A i \in DOMAIN wire' : i \in DOMAIN wire \/ i = Len(wire) + 1
        BY <3>1
      <3>5. ASSUME NEW i \in DOMAIN wire', NEW j \in DOMAIN wire',
                   i < j, wire'[i] # None, wire'[j] # None
            PROVE  Earlier(wire'[i], wire'[j])
        BY <3>1, <3>2, <3>4, <3>5 DEF WireInOrder
      <3>6. ASSUME NEW i \in DOMAIN wire', wire'[i] # None
            PROVE  /\ wire'[i].version <= published'[wire'[i].close_time]
                   /\ Current # None => Earlier(Current, wire'[i])
        <4>1. ASSUME NEW d \in Candles, Published(d) \/ d = c
              PROVE  d.version <= published'[d.close_time]
          BY <1>2, <4>1 DEF Published
        <4> QED
          BY <3>1, <3>3, <3>4, <3>6, <4>1 DEF WireInOrder
      <3> QED
        BY <1>4, <3>5, <3>6 DEF WireInOrder, Published
    <2> QED
      BY <1>1, <2>1, <2>2
  <1>7. NothingSlips'
    <2>1. \A d \in Candles : OnWire(d) => OnWire(d)'
      BY <1>1, <1>3, WireParts DEF OnWire
    <2>2. OnWire(c)' \/ c \in lost'
      BY <1>1, <1>3, WireParts DEF OnWire
    <2> QED
      BY <1>1, <1>2, <1>4, <2>1, <2>2 DEF NothingSlips
  <1>8. EmittedIsPast'
    BY <1>1, <1>2, <1>4 DEF EmittedIsPast
  <1>9. /\ Current # None => Current.close_time <= c.close_time /\ Current.close_time \in Int
        /\ \A t \in Bars : Current # None /\ t < Current.close_time => t # c.close_time
        /\ \A i \in DOMAIN emitted : emitted[i].close_time \in Bars \ {c.close_time}
    <2>1. Current # None => Earlier(Current, c)
      BY <1>2, <1>4 DEF EmittedIsPast
    <2>2. Bars \subseteq Int
      BY DEF Bars
    <2> QED
      BY <1>3, <1>4, <2>1, <2>2, CandleParts DEF Earlier, EmittedIsPast
  <1>10. BarsWholeUnlessLost'
    <2>1. \A t \in Bars : t # c.close_time =>
              published'[t] = published[t] /\ Final(t)' = Final(t)
      BY <1>1, <1>3 DEF TypeOK, Final
    <2>2. lost \subseteq lost'
      BY <1>1
    <2>3. \A i \in DOMAIN emitted : Final(emitted[i].close_time)' = Final(emitted[i].close_time)
      BY <1>9, <1>1, <2>1 DEF Final
    <2> QED
      BY <1>1, <1>4, <1>9, <2>1, <2>2, <2>3 DEF BarsWholeUnlessLost, Current
  <1> QED
    BY <1>5, <1>6, <1>7, <1>8, <1>10

\* A candle the stream may yield is later than the buffer's.
LEMMA YieldedIsLater ==
    ASSUME FeedInv, Yield
    PROVE  LET m == Head(wire) IN
           /\ m \in Candles /\ Published(m)
           /\ Current # None => Earlier(Current, m)
           /\ \A i \in DOMAIN wire : i > 1 /\ wire[i] # None => Earlier(m, wire[i])
           /\ Current' = m
           /\ \/ /\ Current = None \/ Current.close_time = m.close_time
                 /\ emitted' = emitted
              \/ /\ Current # None /\ Current.close_time < m.close_time
                 /\ emitted' = Append(emitted, Current)
           /\ buffer' \in [current_candle : Messages, last_emitted_close_time : Optional(Bars)]
           /\ UNCHANGED <<limits, failures, published, lost>>
  <1> DEFINE m == Head(wire)
  <1>1. m # None /\ m = wire[1] /\ 1 \in DOMAIN wire /\ m \in Candles
    BY WireParts DEF FeedInv, Yield
  <1>2. /\ Published(m) /\ (Current # None => Earlier(Current, m))
        /\ \A i \in DOMAIN wire : i > 1 /\ wire[i] # None => Earlier(m, wire[i])
    BY <1>1 DEF FeedInv, WireInOrder
  <1>3. /\ buffer \in [current_candle : Messages, last_emitted_close_time : Optional(Bars)]
        /\ Current = None \/ Current \in Candles
        /\ m \in Messages
    BY <1>1 DEF FeedInv, TypeOK, Current, Messages, Optional
  <1>4. UNCHANGED <<limits, failures, published, lost>>
    BY DEF Yield
  <1> HIDE DEF m
  <1>5. CASE Starts(buffer, m)
    <2>1. process_update(buffer, m) = [buffer |-> Refresh(buffer, m), closed |-> None]
      BY <1>5 DEF process_update
    <2>2. buffer' = Refresh(buffer, m) /\ emitted' = emitted
      BY <2>1 DEF Yield, HandOn, m
    <2> QED
      BY <1>1, <1>2, <1>3, <1>4, <1>5, <2>2 DEF Refresh, Starts, Current, m
  <1>6. CASE ~ Starts(buffer, m)
    <2>1. Current # None /\ Current.close_time < m.close_time
      BY <1>2, <1>6 DEF Starts, Earlier, Current
    <2>2. ~ OutOfOrder(buffer, m) /\ Current.close_time \in Bars
      BY <1>1, <1>3, <2>1, CandleParts DEF OutOfOrder, Current
    <2>3. process_update(buffer, m) =
              [buffer |-> [current_candle |-> m,
                           last_emitted_close_time |-> Current.close_time],
               closed |-> Current]
      BY <1>6, <2>2 DEF process_update, Current
    <2>4. /\ buffer' = [current_candle |-> m,
                        last_emitted_close_time |-> Current.close_time]
          /\ emitted' = Append(emitted, Current)
      BY <2>1, <2>3 DEF Yield, HandOn, m
    <2> QED
      BY <1>1, <1>2, <1>3, <1>4, <2>1, <2>2, <2>4 DEF Current, Optional, m
  <1> QED
    BY <1>5, <1>6

\* The final update of a bar that is over when m arrives has been read before m, unless
\* it was lost.
LEMMA FinalWasRead ==
    ASSUME FeedInv, Yield, NEW t \in Bars,
           published[t] > 0, Final(t) \notin lost, t < Head(wire).close_time
    PROVE  Current # None /\ (Final(t) = Current \/ t < Current.close_time)
  <1> DEFINE m == Head(wire)
  <1>1. /\ Final(t) \in Candles /\ Published(Final(t))
        /\ Final(t).close_time = t /\ Final(t).version = published[t]
        /\ published[t] \in Int
    <2>1. published[t] \in 1 .. MaxVersion
      BY FeedBounds DEF FeedInv, TypeOK
    <2> QED
      BY <2>1, CandleParts DEF Final, Published
  <1>2. /\ m \in Candles /\ m = wire[1] /\ m.close_time \in Int /\ t \in Int
        /\ \A i \in DOMAIN wire : i > 1 /\ wire[i] # None => Earlier(m, wire[i])
        /\ \A i \in DOMAIN wire : i = 1 \/ i > 1
    BY YieldedIsLater, CandleParts, WireParts DEF FeedInv, Yield, Bars
  <1> HIDE DEF m
  <1>3. ~ OnWire(Final(t))
    <2> SUFFICES ASSUME NEW i \in DOMAIN wire, wire[i] = Final(t)
                 PROVE  FALSE
      BY DEF OnWire
    <2>1. i = 1 \/ Earlier(m, Final(t))
      BY <1>1, <1>2, CandleParts
    <2> QED
      BY <1>1, <1>2, <2>1 DEF Earlier, m
  <1>4. pc = "open"
    BY DEF Yield
  <1>5. Current # None /\ (Final(t) = Current \/ Earlier(Final(t), Current))
    BY <1>1, <1>3, <1>4 DEF FeedInv, NothingSlips
  <1>6. Current \in Candles /\ Published(Current)
    BY <1>5 DEF FeedInv, TypeOK, EmittedIsPast, Current, Messages, Optional
  <1>7. Current.close_time = t => ~ (Final(t).version < Current.version)
    BY <1>1, <1>6, CandleParts DEF Published
  <1> QED
    BY <1>1, <1>5, <1>7 DEF Earlier

LEMMA YieldFeed ==
    ASSUME FeedInv, Yield
    PROVE  FeedInv'
  <1> USE DEF FeedInv
  <1> DEFINE m == Head(wire)
  <1>1. /\ m \in Candles /\ Published(m)
        /\ Current # None => Earlier(Current, m)
        /\ \A i \in DOMAIN wire : i > 1 /\ wire[i] # None => Earlier(m, wire[i])
        /\ Current' = m
        /\ \/ /\ Current = None \/ Current.close_time = m.close_time
              /\ emitted' = emitted
           \/ /\ Current # None /\ Current.close_time < m.close_time
              /\ emitted' = Append(emitted, Current)
        /\ buffer' \in [current_candle : Messages, last_emitted_close_time : Optional(Bars)]
        /\ UNCHANGED <<limits, failures, published, lost>>
    BY YieldedIsLater
  <1>2. /\ wire # << >> /\ m = wire[1] /\ pc = "open"
        /\ delivered' = delivered + 1 /\ consumed' = consumed + 1
        /\ \/ wire' = Tail(wire) /\ pc' = pc
           \/ wire' = << >> /\ pc' = "returned"
    BY WireParts DEF Yield
  <1>3. \A t \in Bars : published[t] > 0 /\ Final(t) \notin lost /\ t < m.close_time
            => Current # None /\ (Final(t) = Current \/ t < Current.close_time)
    BY FinalWasRead DEF FeedInv
  <1>4. /\ m # None /\ m.close_time \in Int
        /\ \/ Current = None
           \/ /\ Current \in Candles /\ Published(Current)
              /\ Current.close_time \in Bars
              /\ Current.close_time <= m.close_time
    <2>1. Current = None \/ (Current \in Candles /\ Published(Current))
      BY DEF TypeOK, Current, Messages, Optional, EmittedIsPast
    <2> QED
      BY <1>1, <2>1, CandleParts DEF Earlier
  <1> HIDE DEF m
  <1>5. /\ emitted \in Seq(Candles) /\ emitted' \in Seq(Candles)
        /\ \A i \in DOMAIN emitted : i \in DOMAIN emitted' /\ emitted'[i] = emitted[i]
        /\ \A i \in DOMAIN emitted' :
              \/ i \in DOMAIN emitted /\ emitted'[i] = emitted[i]
              \/ /\ Current # None /\ Current.close_time < m.close_time
                 /\ emitted'[i] = Current
        /\ Current # None /\ Current.close_time < m.close_time =>
              \E i \in DOMAIN emitted' : emitted'[i] = Current
    <2>1. emitted \in Seq(Candles)
      BY DEF TypeOK
    <2>2. CASE emitted' = emitted
      BY <1>1, <2>1, <2>2, <1>4
    <2>3. CASE /\ Current # None /\ Current.close_time < m.close_time
               /\ emitted' = Append(emitted, Current)
      <3>1. Current \in Candles
        BY <1>4, <2>3
      <3>2. /\ emitted' \in Seq(Candles) /\ Len(emitted) \in Nat
            /\ DOMAIN emitted = 1 .. Len(emitted) /\ DOMAIN emitted' = 1 .. Len(emitted) + 1
            /\ \A i \in DOMAIN emitted : emitted'[i] = emitted[i]
            /\ emitted'[Len(emitted) + 1] = Current
        BY <2>1, <2>3, <3>1
      <3> QED
        BY <2>1, <2>3, <3>2
    <2> QED
      BY <1>1, <2>2, <2>3
  <1>6. TypeOK'
    <2>1. wire' \in Seq(Messages)
      <3>1. Tail(wire) \in Seq(Messages) /\ << >> \in Seq(Messages)
        BY <1>2, WireParts
      <3> QED
        BY <1>2, <3>1
    <2> QED
      BY <1>1, <1>2, <1>5, <2>1 DEF TypeOK
  <1>7. WireInOrder'
    <2>1. CASE wire' = << >>
      BY <2>1 DEF WireInOrder
    <2>2. CASE wire' = Tail(wire)
      <3>1. \A i \in DOMAIN wire' :
                /\ i \in Nat /\ i + 1 \in DOMAIN wire /\ i + 1 > 1
                /\ wire'[i] = wire[i + 1]
        BY <1>2, <1>6, <2>2, WireParts DEF TypeOK
      <3>2. ASSUME NEW i \in DOMAIN wire', NEW j \in DOMAIN wire',
                   i < j, wire'[i] # None, wire'[j] # None
            PROVE  Earlier(wire'[i], wire'[j])
        BY <3>1, <3>2 DEF WireInOrder
      <3>3. ASSUME NEW i \in DOMAIN wire', wire'[i] # None
            PROVE  /\ wire'[i].version <= published'[wire'[i].close_time]
                   /\ Earlier(m, wire'[i])
        BY <1>1, <3>1, <3>3 DEF WireInOrder, Published
      <3> QED
        BY <1>1, <3>2, <3>3 DEF WireInOrder, Published
    <2> QED
      BY <1>2, <2>1, <2>2
  <1>8. NothingSlips'
    <2> SUFFICES ASSUME pc' # "returned", NEW c \in Candles, Published(c), c \notin lost
                 PROVE  OnWire(c)' \/ c = m \/ Earlier(c, m)
      BY <1>1, <1>4 DEF NothingSlips, Published
    <2>1. CASE OnWire(c)
      <3>1. PICK i \in DOMAIN wire : wire[i] = c
        BY <2>1 DEF OnWire
      <3>2. i = 1 \/ (i - 1 \in DOMAIN Tail(wire) /\ Tail(wire)[i - 1] = c)
        BY <1>2, <3>1, WireParts
      <3>3. wire' = Tail(wire)
        BY <1>2
      <3>4. i = 1 \/ OnWire(c)'
        BY <3>2, <3>3 DEF OnWire
      <3> QED
        BY <1>2, <3>1, <3>4
    <2>2. CASE Current # None /\ (c = Current \/ Earlier(c, Current))
      BY <1>1, <1>4, <2>2, CandleParts DEF Earlier
    <2> QED
      BY <1>2, <2>1, <2>2 DEF NothingSlips
  <1>9. EmittedIsPast'
    <2>1. \A i \in DOMAIN emitted : emitted[i].close_time < m.close_time
      <3>1. \A i \in DOMAIN emitted : emitted[i].close_time \in Int
        BY <1>5, CandleParts
      <3> QED
        BY <1>4, <3>1, CandleParts DEF EmittedIsPast
    <2> QED
      BY <1>1, <1>4, <1>5, <2>1 DEF EmittedIsPast, Published
  <1>10. BarsWholeUnlessLost'
    <2>1. ASSUME NEW t \in Bars, published[t] > 0, Final(t) \notin lost, t < m.close_time
          PROVE  \E i \in DOMAIN emitted' : emitted'[i] = Final(t)
      <3>1. Current # None /\ (Final(t) = Current \/ t < Current.close_time)
        BY <1>3, <2>1
      <3>2. CASE t < Current.close_time
        BY <1>5, <2>1, <3>1, <3>2 DEF BarsWholeUnlessLost, Current
      <3>3. CASE Final(t) = Current
        <4>1. Current.close_time = t
          BY <3>3 DEF Final, Candle
        <4> QED
          BY <1>5, <2>1, <3>1, <3>3, <4>1
      <3> QED
        BY <3>1, <3>2, <3>3
    <2>2. ASSUME Current # None, Current.close_time < m.close_time,
                 Current # Final(Current.close_time)
          PROVE  Final(Current.close_time) \in lost
      <3>1. Current.close_time \in Bars /\ published[Current.close_time] > 0
        <4>1. published \in [Bars -> 0 .. MaxVersion] /\ MaxVersion \in Nat
          BY FeedBounds DEF TypeOK
        <4> QED
          BY <1>4, <2>2, <4>1, CandleParts DEF Published
      <3>2. Current.close_time \in Int
        BY <3>1 DEF Bars
      <3> QED
        BY <1>3, <2>2, <3>1, <3>2
    <2>3. ASSUME NEW i \in DOMAIN emitted', emitted'[i] # Final(emitted'[i].close_time)
          PROVE  Final(emitted'[i].close_time) \in lost
      BY <1>5, <2>2, <2>3 DEF BarsWholeUnlessLost
    <2>4. buffer'.current_candle = m
      BY <1>1 DEF Current
    <2> QED
      BY <1>1, <2>1, <2>3, <2>4 DEF BarsWholeUnlessLost, Final
  <1> QED
    BY <1>6, <1>7, <1>8, <1>9, <1>10

LEMMA NextFeedInv == FeedInv /\ [Next]_vars => FeedInv'
  <1> SUFFICES ASSUME FeedInv, [Next]_vars PROVE FeedInv'
    OBVIOUS
  <1>0. TypeOK /\ WireInOrder /\ NothingSlips /\ failures \in 0 .. MaxFailures
        /\ MaxFailures \in Nat \ {0}
    BY FeedBounds DEF FeedInv, TypeOK
  <1>1. ASSUME NEW c \in Candles, Publish(c) PROVE FeedInv'
    BY <1>1, PublishFeed
  <1>2. CASE SendOther
    <2>1. wire' = Append(wire, None) /\ None \in Messages
          /\ UNCHANGED <<pc, limits, failures, delivered, buffer, published, emitted, lost,
                         consumed>>
      BY <1>2 DEF SendOther, Send, stream, Messages, Optional
    <2>2. TypeOK'
      BY <1>0, <2>1, WireParts DEF TypeOK
    <2>3. WireInOrder'
      BY <1>0, <2>1, WireParts DEF WireInOrder, Current, Published
    <2>4. NothingSlips'
      BY <1>0, <2>1, WireParts DEF NothingSlips, Current, Published, OnWire
    <2> QED
      BY <2>1, <2>2, <2>3, <2>4, NothingHandedOn
  <1>3. ASSUME Connect \/ Wake \/ PeerCloses \/ ConnectFails \/ UNCHANGED vars
        PROVE  FeedInv'
    <2>1. /\ UNCHANGED <<limits, delivered, buffer, published, wire, emitted, lost, consumed>>
          /\ failures' \in 0 .. MaxFailures
          /\ pc' \in {"connecting", "open", "sleeping", "raised", "returned"}
          /\ pc' = "returned" <=> pc = "returned"
      BY <1>0, <1>3 DEF Connect, Wake, PeerCloses, ConnectFails, Fail, FailuresOnConnect,
                       vars, stream, TypeOK
    <2>2. TypeOK'
      BY <1>0, <2>1 DEF TypeOK
    <2>3. WireInOrder' /\ NothingSlips'
      BY <1>0, <2>1 DEF WireInOrder, NothingSlips, Current, Published, OnWire
    <2> QED
      BY <2>1, <2>2, <2>3, NothingHandedOn
  <1>4. CASE Drop
    <2>1. /\ UNCHANGED <<limits, delivered, buffer, published, emitted, consumed>>
          /\ wire' = << >> /\ lost' = lost \cup (ToSet(wire) \ {None})
          /\ failures' \in 0 .. MaxFailures
          /\ pc = "open" /\ pc' \in {"sleeping", "raised"}
      BY <1>0, <1>4 DEF Drop, Fail
    <2>2. ToSet(wire) \ {None} \subseteq Candles
      BY <1>0, WireParts DEF ToSet
    <2>3. TypeOK'
      BY <1>0, <2>1, <2>2 DEF TypeOK
    <2>4. WireInOrder'
      BY <2>1 DEF WireInOrder
    <2>5. NothingSlips'
      <3>1. \A c \in Candles : OnWire(c) => c \in lost'
        BY <2>1, CandleParts DEF OnWire, ToSet
      <3> QED
        BY <1>0, <2>1, <3>1 DEF NothingSlips, Current, Published
    <2> QED
      BY <2>1, <2>3, <2>4, <2>5, NothingHandedOn
  <1>5. CASE Ignore
    <2>1. /\ UNCHANGED <<pc, limits, failures, delivered, buffer, published, emitted, lost,
                         consumed>>
          /\ wire # << >> /\ wire[1] = None /\ wire' = Tail(wire)
      BY <1>0, <1>5, WireParts DEF Ignore, stream
    <2>2. TypeOK'
      BY <1>0, <2>1, WireParts DEF TypeOK
    <2>3. \A i \in DOMAIN wire' : /\ i \in Nat /\ i + 1 \in DOMAIN wire
                                  /\ wire'[i] = wire[i + 1]
      BY <1>0, <2>1, <2>2, WireParts DEF TypeOK
    <2>4. WireInOrder'
      BY <1>0, <2>1, <2>3 DEF WireInOrder, Current, Published
    <2>5. \A c \in Candles : OnWire(c) => OnWire(c)'
      <3> SUFFICES ASSUME NEW c \in Candles, NEW i \in DOMAIN wire, wire[i] = c
                   PROVE  OnWire(c)'
        BY DEF OnWire
      <3>1. i - 1 \in DOMAIN Tail(wire) /\ Tail(wire)[i - 1] = c
        BY <1>0, <2>1, WireParts, CandleParts
      <3> QED
        BY <2>1, <3>1 DEF OnWire
    <2>6. NothingSlips'
      BY <1>0, <2>1, <2>5 DEF NothingSlips, Current, Published
    <2> QED
      BY <2>1, <2>2, <2>4, <2>6, NothingHandedOn
  <1>6. CASE Yield
    BY <1>6, YieldFeed
  <1> QED
    BY <1>1, <1>2, <1>3, <1>4, <1>5, <1>6 DEF Next

\* The state of the stream and of the buffer stays within its types.
THEOREM FeedTypes == Spec => []TypeOK
  <1>1. FeedInv => TypeOK
    BY DEF FeedInv
  <1> QED
    BY <1>1, InitFeedInv, NextFeedInv, PTL DEF Spec

\* Whatever is sent and whenever the connection breaks, the bars handed to the strategy
\* are whole but for those whose final update was lost (stream_candles and
\* CandleUpdateBuffer.process_update together).
THEOREM BarsAreWhole == Spec => []BarsWholeUnlessLost
  <1>1. FeedInv => BarsWholeUnlessLost
    BY DEF FeedInv
  <1> QED
    BY <1>1, InitFeedInv, NextFeedInv, PTL DEF Spec
=============================================================================
