------------------------------- MODULE Notifier -------------------------------
(***************************************************************************)
(* bot/telegram/telegram_notifier.py, TelegramNotifier, with the table of  *)
(* subscribers it reads (bot/storage/storage.py).                          *)
(*                                                                         *)
(* The bot awaits broadcast_event for each event (_notify_event of the     *)
(* orchestrator): one broadcast at a time, which reads the list of active  *)
(* subscribers once and then sends to one after the other.  Subscribers    *)
(* come and go meanwhile, in Telegram's process.                           *)
(*                                                                         *)
(* Time is counted in ticks, of which Interval are the minimum interval    *)
(* between messages, 1 / max_messages_per_second (0 when that is 0 and     *)
(* nothing is throttled).  The notifier is enabled: a disabled one does    *)
(* nothing.  The list is sent to in any order.                             *)
(*                                                                         *)
(* steady and tried are not in the program: who has been active ever since *)
(* the broadcast began, and how often it tried each chat (up to twice).    *)
(***************************************************************************)
EXTENDS Common, FiniteSets

CONSTANTS Chats, Interval

ASSUME IntervalAssumption == Interval \in Nat

VARIABLES
    subscribers,        \* of each chat: "unknown" (no row), "active" or "inactive"
    sending,            \* "idle", "next", "sleeping" or "sending"
    chat,               \* the chat a message is sent to
    remaining,          \* the chats of the list that come after it
    sleep,              \* ticks left of the sleep of _throttle
    elapsed,            \* since _last_sent_at, None before the first message, no
                        \* further than Interval
    steady, tried

notifierVars == <<subscribers, sending, chat, remaining, sleep, elapsed, steady, tried>>

-----------------------------------------------------------------------------
(* The subscribers *)

add_subscriber(c) ==
    /\ subscribers' = [subscribers EXCEPT ![c] = "active"]
    /\ UNCHANGED <<sending, chat, remaining, sleep, elapsed, steady, tried>>

deactivate_subscriber(c) ==
    /\ subscribers' = [subscribers EXCEPT ![c] = IF @ = "unknown" THEN @ ELSE "inactive"]
    /\ steady' = steady \ {c}
    /\ UNCHANGED <<sending, chat, remaining, sleep, elapsed, tried>>

list_active_subscribers == {c \in Chats : subscribers[c] = "active"}

-----------------------------------------------------------------------------
(* broadcast *)

\* With nobody to send to, broadcast returns at once.
Broadcast ==
    /\ sending = "idle"
    /\ list_active_subscribers # {}
    /\ sending' = "next"
    /\ remaining' = list_active_subscribers
    /\ steady' = list_active_subscribers
    /\ tried' = [c \in Chats |-> 0]
    /\ UNCHANGED <<subscribers, chat, sleep, elapsed>>

Bug_SleepsElapsed == IF elapsed = None THEN 0 ELSE elapsed
SleepTime == IF elapsed = None THEN 0 ELSE Interval - elapsed

\* send_message, up to the sleep of _throttle
Throttle(c) ==
    /\ sending = "next"
    /\ c \in remaining
    /\ sending' = "sleeping"
    /\ chat' = c
    /\ remaining' = remaining \ {c}
    /\ sleep' = SleepTime
    /\ UNCHANGED <<subscribers, elapsed, steady, tried>>

\* the request leaves
Send ==
    /\ sending = "sleeping"
    /\ sleep = 0
    /\ sending' = "sending"
    /\ tried' = [tried EXCEPT ![chat] = IF @ = 0 THEN 1 ELSE 2]
    /\ UNCHANGED <<subscribers, chat, remaining, sleep, elapsed, steady>>

Bug_GivesUp == {}
Bug_TriesAgain == remaining \cup {chat}
\* the loop goes on after a failure
AfterFailure == remaining

\* whose last message was answered
GoOn(rest) ==
    /\ sending' = IF rest = {} THEN "idle" ELSE "next"
    /\ remaining' = rest
    /\ UNCHANGED <<subscribers, chat, sleep, steady, tried>>

Accepted ==
    /\ sending = "sending"
    /\ elapsed' = 0
    /\ GoOn(remaining)

\* an error of Telegram or of the network, or the timeout of ten seconds
SendFails ==
    /\ sending = "sending"
    /\ UNCHANGED elapsed
    /\ GoOn(AfterFailure)

Tick ==
    /\ sleep > 0 \/ elapsed \in 0 .. Interval - 1
    /\ sleep' = IF sleep > 0 THEN sleep - 1 ELSE 0
    /\ elapsed' = IF elapsed \in 0 .. Interval - 1 THEN elapsed + 1 ELSE elapsed
    /\ UNCHANGED <<subscribers, sending, chat, remaining, steady, tried>>

-----------------------------------------------------------------------------
NotifierInit ==
    /\ subscribers \in [Chats -> {"unknown", "active", "inactive"}]
    /\ sending = "idle"
    /\ chat = None
    /\ remaining = {}
    /\ sleep = 0
    /\ elapsed = None
    /\ steady = {}
    /\ tried = [c \in Chats |-> 0]

BroadcastStep == (\E c \in Chats : Throttle(c)) \/ Send \/ Accepted \/ SendFails

NotifierNext ==
    \/ \E c \in Chats : add_subscriber(c) \/ deactivate_subscriber(c)
    \/ Broadcast \/ BroadcastStep \/ Tick

NotifierSpec == NotifierInit /\ [][NotifierNext]_notifierVars

\* A request is answered or times out, and a sleep ends.
NotifierFairness == WF_notifierVars(BroadcastStep) /\ WF_notifierVars(Tick)
-----------------------------------------------------------------------------
NotifierTypeOK ==
    /\ subscribers \in [Chats -> {"unknown", "active", "inactive"}]
    /\ sending \in {"idle", "next", "sleeping", "sending"}
    /\ sending \in {"sleeping", "sending"} => chat \in Chats
    /\ remaining \subseteq Chats
    /\ sleep \in 0 .. Interval
    /\ elapsed \in Optional(0 .. Interval)
    /\ steady \subseteq Chats
    /\ tried \in [Chats -> 0 .. 2]

\* A broadcast tries everybody who is subscribed from its beginning to its end exactly
\* once, whoever comes and goes meanwhile and whichever messages fail; and it tries
\* nobody twice (broadcast, send_message).
SteadySubscriberIsTriedOnce ==
    /\ sending = "idle" => \A c \in steady : tried[c] = 1
    /\ \A c \in Chats : tried[c] <= 1

\* No message leaves before the interval since the last accepted one is over
\* (_throttle, which measures before it sleeps and not after).
SpacedSends ==
    [][ sending = "sleeping" /\ sending' = "sending" => elapsed \in {None, Interval} ]_notifierVars

\* A broadcast comes to an end, and with it the bot's handler that awaits it.
BroadcastEnds == sending # "idle" ~> sending = "idle"
=============================================================================
