------------------------------- MODULE RealTime -------------------------------
(***************************************************************************)
(* The quote feed, its fan-out to clients and the stop-loss risk manager   *)
(* (backend/app/services/kis/ws_client.py, ws/quotes.py,                   *)
(* services/kis/risk_manager.py and the wiring in main.py).                *)
(*                                                                         *)
(* One socket to the broker serves every client and the risk manager.  Its *)
(* messages are handled one at a time: a tick goes to the clients that     *)
(* watch the code, then to the risk manager, which refreshes its positions *)
(* if they are stale and sells a position that is past the stop.  Whatever *)
(* this handler raises closes the socket; run_forever connects again and   *)
(* subscribes to every code anew.  Beside it a task refreshes the          *)
(* positions, subscribes to new ones and lets go of old ones, and clients  *)
(* come and go.  What a subscription sends goes out code by code, one      *)
(* sender after the other; a socket that closes fails those under way.     *)
(***************************************************************************)
EXTENDS Integers, FiniteSets, Sequences, SequencesExt

CONSTANTS
    Stocks,          \* domestic codes
    Clients,         \* downstream websockets
    IsMock,          \* RISK_MANAGER_IS_MOCK
    Shares,          \* the size of a position
    MaxDrops, MaxErrors, MaxTrades, MaxWatches   \* bounds: socket losses, failed
                     \* or lost answers, trades, subscribe and unsubscribe calls

ASSUME RealTimeAssumption ==
    /\ Stocks # {} /\ IsFiniteSet(Stocks)
    /\ IsMock \in BOOLEAN
    /\ Shares \in Nat \ {0}
    /\ MaxDrops \in Nat /\ MaxErrors \in Nat /\ MaxTrades \in Nat /\ MaxWatches \in Nat

VARIABLES
    defaults,        \* settings.kis_ws_default_codes
    holding,         \* what the account holds of a stock (external)
    fallen,          \* stocks that trade below the stop of their position (external)
    blocked,         \* the kill switch, or another refusal of assert_order_allowed
    tracked,         \* _positions: the quantity last seen
    triggered,       \* _triggered_codes
    stale,           \* _last_refresh_at is too long ago
    link,            \* the socket: "down", "up"
    subscribed,      \* _subscribed_codes
    sends,           \* requests to the broker not sent yet, in the order of _send_lock
    live,            \* codes the broker sends on this connection (external)
    watch,           \* _subscriptions: the codes of a connected client
    online,          \* the clients in _subscriptions
    tick,            \* the tick being handled
    stage,           \* where its handler stands
    seen,            \* the balance a refresh has read
    reconciling,     \* where the reconciliation stands
    reconciled,      \* risk_subscribed_codes
    drops, errors, trades, watches,     \* what the bounds count
    sales,           \* history: accepted stop-loss orders of a stock
    lapsed,          \* history: those of them that the handler failed after
    released         \* history: codes the reconciliation let go

worldVars == <<defaults, holding, fallen, blocked>>
linkVars == <<link, subscribed, sends, live>>
riskVars == <<tracked, triggered, stale>>
clientVars == <<watch, online>>
handlerVars == <<tick, stage>>
taskVars == <<reconciling, reconciled>>
boundVars == <<drops, errors, trades, watches>>
historyVars == <<sales, lapsed, released>>
realTimeVars == <<worldVars, linkVars, riskVars, clientVars,
                  handlerVars, seen, taskVars, boundVars, historyVars>>

\* What tick stands for while no tick is handled.
NoStock == CHOOSE s \in Stocks : TRUE
Readers == {"tick", "task"}
Nothing == [s \in Stocks |-> 0]
HeldIn(balance) == {s \in Stocks : balance[s] > 0}

RealTimeTypeOK ==
    /\ defaults \subseteq Stocks
    /\ holding \in [Stocks -> {0, Shares}] /\ tracked \in [Stocks -> {0, Shares}]
    /\ fallen \subseteq Stocks /\ triggered \subseteq Stocks
    /\ blocked \in BOOLEAN /\ stale \in BOOLEAN
    /\ link \in {"down", "up"} /\ subscribed \subseteq Stocks /\ live \subseteq Stocks
    /\ sends \in Seq([by : Clients \cup {"feed", "task"}, code : Stocks, on : BOOLEAN])
    /\ watch \in [Clients -> SUBSET Stocks] /\ online \subseteq Clients
    /\ tick \in Stocks
    /\ stage \in {"idle", "broadcast", "stale", "read", "order", "sold"}
    /\ seen \in [Readers -> [Stocks -> {0, Shares}]]
    /\ reconciling \in {"sleep", "read", "subscribing", "letting go"}
    /\ reconciled \subseteq Stocks
    /\ sales \in [Stocks -> Nat] /\ lapsed \in [Stocks -> Nat] /\ released \subseteq Stocks
    /\ drops \in 0..MaxDrops /\ errors \in 0..MaxErrors
    /\ trades \in 0..MaxTrades /\ watches \in 0..MaxWatches
-----------------------------------------------------------------------------
(* The socket.                                                             *)

SendsOf(who, codes, on) ==
    LET order == SetToSeq(codes)
    IN [i \in DOMAIN order |-> [by |-> who, code |-> order[i], on |-> on]]
Senders == {sends[i].by : i \in DOMAIN sends}

\* run_forever: connect, then subscribe to every code.
Connect ==
    /\ link = "down"
    /\ link' = "up" /\ sends' = SendsOf("feed", subscribed, TRUE)
    /\ UNCHANGED <<worldVars, subscribed, live, riskVars, clientVars,
                   handlerVars, seen, taskVars, boundVars, historyVars>>

\* _send_subscriptions: the next request goes out.
Send ==
    /\ sends # <<>>
    /\ sends' = Tail(sends)
    /\ live' = IF Head(sends).on THEN live \cup {Head(sends).code} ELSE live \ {Head(sends).code}
    /\ UNCHANGED <<worldVars, link, subscribed, riskVars, clientVars,
                   handlerVars, seen, taskVars, boundVars, historyVars>>

\* The socket closes.  Who was sending fails: a client is let go, the
\* reconciliation gives up before it notes what it has done.
Closed ==
    /\ link' = "down" /\ live' = {} /\ sends' = <<>> /\ UNCHANGED subscribed
    /\ online' = online \ Senders
    /\ watch' = [c \in Clients |-> IF c \in Senders THEN {} ELSE watch[c]]
    /\ reconciling' = IF "task" \in Senders THEN "sleep" ELSE reconciling
    /\ UNCHANGED reconciled

\* ... with an exception of its handler.
HandlerRaises == Closed /\ tick' = NoStock /\ stage' = "idle"

Drop ==
    /\ link = "up" /\ stage = "idle" /\ drops < MaxDrops
    /\ Closed /\ drops' = drops + 1
    /\ UNCHANGED <<worldVars, riskVars, handlerVars, seen, errors, trades,
                   watches, historyVars>>

\* Mutant of SubscribeUpstream: codes asked for while the socket is down are forgotten.
SubscribeWhenUp(who, codes) ==
    /\ subscribed' = IF link = "up" THEN subscribed \cup codes ELSE subscribed
    /\ sends' = IF link = "up" THEN sends \o SendsOf(who, codes \ subscribed, TRUE) ELSE sends
    /\ UNCHANGED <<link, live>>

\* KISWebSocketClient.subscribe and unsubscribe: noted at once, and what is new
\* is sent, after what others are sending.
SubscribeUpstream(who, codes) ==
    /\ subscribed' = subscribed \cup codes
    /\ sends' = IF link = "up" THEN sends \o SendsOf(who, codes \ subscribed, TRUE) ELSE sends
    /\ UNCHANGED <<link, live>>

UnsubscribeUpstream(who, codes) ==
    /\ subscribed' = subscribed \ codes
    /\ sends' = IF link = "up" THEN sends \o SendsOf(who, codes \cap subscribed, FALSE) ELSE sends
    /\ UNCHANGED <<link, live>>
-----------------------------------------------------------------------------
(* Clients.                                                                *)

\* A client's messages are handled one by one.
Idle(c) == c \in online /\ c \notin Senders

Join(c) ==
    /\ c \notin online /\ c \notin Senders
    /\ online' = online \cup {c} /\ watch' = [watch EXCEPT ![c] = {}]
    /\ UNCHANGED <<worldVars, linkVars, riskVars, handlerVars, seen,
                   taskVars, boundVars, historyVars>>

Watch(c, codes) ==
    /\ Idle(c) /\ watches < MaxWatches
    /\ watches' = watches + 1
    /\ watch' = [watch EXCEPT ![c] = @ \cup codes]
    /\ SubscribeUpstream(c, codes)
    /\ released' = released \ codes
    /\ UNCHANGED <<worldVars, riskVars, online, handlerVars, seen,
                   taskVars, drops, errors, trades, sales, lapsed>>

\* The upstream subscription stays.
Unwatch(c, codes) ==
    /\ Idle(c) /\ watches < MaxWatches
    /\ watches' = watches + 1
    /\ watch' = [watch EXCEPT ![c] = @ \ codes]
    /\ UNCHANGED <<worldVars, linkVars, riskVars, online, handlerVars,
                   seen, taskVars, drops, errors, trades, historyVars>>

\* A client goes, or its snapshot cannot be sent.
Disconnect(c) ==
    /\ Idle(c)
    /\ online' = online \ {c} /\ watch' = [watch EXCEPT ![c] = {}]
    /\ UNCHANGED <<worldVars, linkVars, riskVars, handlerVars, seen,
                   taskVars, boundVars, historyVars>>
-----------------------------------------------------------------------------
(* One tick.                                                               *)

\* Messages are read once every code has been subscribed to; of a tick only
\* the code matters here.
Tick(s) ==
    /\ link = "up" /\ "feed" \notin Senders /\ stage = "idle" /\ s \in live
    /\ tick' = s /\ stage' = "broadcast"
    /\ UNCHANGED <<worldVars, linkVars, riskVars, clientVars, seen,
                   taskVars, boundVars, historyVars>>

\* Those who hear of a tick: no codes at all means every tick.
Audience(s) == {c \in online : watch[c] = {} \/ s \in watch[c]}

\* Mutant of Breached: a code may trigger again.
BreachedAgain(s, positions) == positions[s] > 0 /\ s \in fallen

Breached(s, positions) == positions[s] > 0 /\ s \in fallen /\ s \notin triggered

\* handle_tick, as far as it does not wait: a code below its stop is triggered
\* before anything is sent.
Inspect(positions) ==
    IF Breached(tick, positions)
    THEN triggered' = triggered \cup {tick} /\ stage' = "order" /\ UNCHANGED tick
    ELSE stage' = "idle" /\ tick' = NoStock /\ UNCHANGED triggered

\* broadcast_tick, then handle_tick: a send that raises RuntimeError removes its
\* client.
Broadcast(gone) ==
    /\ stage = "broadcast" /\ gone \subseteq Audience(tick)
    /\ online' = online \ gone
    /\ watch' = [c \in Clients |-> IF c \in gone THEN {} ELSE watch[c]]
    /\ IF stale THEN stage' = "stale" /\ UNCHANGED <<tick, triggered>> ELSE Inspect(tracked)
    /\ UNCHANGED <<worldVars, linkVars, tracked, stale, seen, taskVars,
                   boundVars, historyVars>>

\* A send that raises anything else ends the handler before the risk manager.
BroadcastRaises ==
    /\ stage = "broadcast" /\ Audience(tick) # {} /\ errors < MaxErrors
    /\ errors' = errors + 1
    /\ HandlerRaises
    /\ UNCHANGED <<worldVars, riskVars, seen, trades, drops, watches, historyVars>>

\* refresh_positions reads the balance ...
ReadBalance(r) ==
    /\ \/ r = "tick" /\ stage = "stale" /\ stage' = "read" /\ UNCHANGED reconciling
       \/ r = "task" /\ reconciling = "sleep" /\ reconciling' = "read" /\ UNCHANGED stage
    /\ seen' = [seen EXCEPT ![r] = holding]
    /\ UNCHANGED <<worldVars, linkVars, riskVars, clientVars, tick,
                   reconciled, boundVars, historyVars>>

\* ... and replaces the positions, also newer ones that another has stored since.
Refreshed ==
    /\ stage = "read"
    /\ tracked' = seen["tick"] /\ stale' = FALSE /\ Inspect(seen["tick"])
    /\ seen' = [seen EXCEPT !["tick"] = Nothing]
    /\ UNCHANGED <<worldVars, linkVars, clientVars, taskVars, boundVars,
                   historyVars>>

RefreshRaises ==
    /\ stage \in {"stale", "read"} /\ errors < MaxErrors
    /\ errors' = errors + 1
    /\ HandlerRaises /\ seen' = [seen EXCEPT !["tick"] = Nothing]
    /\ UNCHANGED <<worldVars, riskVars, drops, trades, watches, historyVars>>

\* Mutant of Untriggered: the trigger stays after a failure.
TriggerStays == UNCHANGED triggered

\* The except clause: the code is taken out again and the exception goes on.
Untriggered == triggered' = triggered \ {tick}

\* assert_order_allowed refuses.
StopBlocked ==
    /\ stage = "order" /\ ~IsMock /\ blocked
    /\ Untriggered /\ HandlerRaises
    /\ UNCHANGED <<worldVars, tracked, stale, seen, boundVars, historyVars>>

\* The market order for the quantity that was tracked at the tick: the broker
\* takes it if that much is still held ...
BrokerSells ==
    /\ stage = "order" /\ ~IsMock /\ ~blocked /\ holding[tick] = Shares
    /\ holding' = [holding EXCEPT ![tick] = 0]
    /\ sales' = [sales EXCEPT ![tick] = @ + 1]
    /\ stage' = "sold"
    /\ UNCHANGED <<defaults, fallen, blocked, linkVars, riskVars, clientVars, tick, seen, taskVars,
                   boundVars, lapsed, released>>

\* ... refuses it if not, or does not answer in time.
StopRefused ==
    /\ stage = "order" /\ ~IsMock /\ ~blocked
    /\ \/ holding[tick] < Shares /\ UNCHANGED errors
       \/ errors < MaxErrors /\ errors' = errors + 1
    /\ Untriggered /\ HandlerRaises
    /\ UNCHANGED <<worldVars, tracked, stale, seen, drops, trades, watches,
                   historyVars>>

\* The broker has answered, or a mock has been logged: the sale is notified.
Notifies == stage = "sold" \/ (stage = "order" /\ IsMock)

\* Telegram takes the message, or refuses it with an error that is caught.
StopDone ==
    /\ Notifies
    /\ stage' = "idle" /\ tick' = NoStock
    /\ UNCHANGED <<worldVars, linkVars, riskVars, clientVars, seen, taskVars,
                   boundVars, historyVars>>

\* _notify_stop_loss catches TelegramSendError alone.  Anything else, such as a
\* body that is not JSON or a certificate that cannot be read, looks like a failed
\* order.
NotifyRaises ==
    /\ Notifies /\ errors < MaxErrors
    /\ errors' = errors + 1
    /\ lapsed' = IF stage = "sold" THEN [lapsed EXCEPT ![tick] = @ + 1] ELSE lapsed
    /\ Untriggered /\ HandlerRaises
    /\ UNCHANGED <<worldVars, tracked, stale, seen, drops, trades, watches,
                   sales, released>>

\* An answer that is lost looks like a refusal.
StopUnheard ==
    /\ stage = "sold" /\ errors < MaxErrors
    /\ errors' = errors + 1
    /\ lapsed' = [lapsed EXCEPT ![tick] = @ + 1]
    /\ Untriggered /\ HandlerRaises
    /\ UNCHANGED <<worldVars, tracked, stale, seen, drops, trades, watches,
                   sales, released>>
-----------------------------------------------------------------------------
(* _reconcile_risk_subscriptions; it starts with ReadBalance("task").       *)

Latest == HeldIn(seen["task"])

\* Stores the positions and subscribes to new ones.
SubscribeNew ==
    /\ reconciling = "read" /\ reconciling' = "subscribing"
    /\ tracked' = seen["task"] /\ stale' = FALSE
    /\ SubscribeUpstream("task", Latest \ reconciled)
    /\ released' = released \ (Latest \ reconciled)
    /\ UNCHANGED <<worldVars, triggered, clientVars, handlerVars, seen,
                   reconciled, boundVars, sales, lapsed>>

\* Mutant of Unneeded: the default codes are let go too.
UnneededAll == reconciled \ Latest

Unneeded == (reconciled \ Latest) \ defaults

\* Lets go of the old ones, whoever else watches them.
UnsubscribeOld ==
    /\ reconciling = "subscribing" /\ "task" \notin Senders /\ reconciling' = "letting go"
    /\ UnsubscribeUpstream("task", Unneeded)
    /\ released' = released \cup Unneeded
    /\ UNCHANGED <<worldVars, riskVars, clientVars, handlerVars, seen,
                   reconciled, boundVars, sales, lapsed>>

\* Only now it notes what it has reconciled.
Reconciled ==
    /\ reconciling = "letting go" /\ "task" \notin Senders
    /\ reconciled' = Latest /\ reconciling' = "sleep"
    /\ seen' = [seen EXCEPT !["task"] = Nothing]
    /\ UNCHANGED <<worldVars, linkVars, riskVars, clientVars, handlerVars,
                   boundVars, historyVars>>

\* The balance cannot be read: the next turn tries again.
ReconcileRaises ==
    /\ reconciling = "read" /\ errors < MaxErrors
    /\ errors' = errors + 1
    /\ reconciling' = "sleep" /\ seen' = [seen EXCEPT !["task"] = Nothing]
    /\ UNCHANGED <<worldVars, linkVars, riskVars, clientVars, handlerVars,
                   reconciled, drops, trades, watches, historyVars>>
-----------------------------------------------------------------------------
(* The rest of the world.                                                  *)

Elapse ==
    /\ ~stale /\ stale' = TRUE
    /\ UNCHANGED <<worldVars, linkVars, tracked, triggered, clientVars,
                   handlerVars, seen, taskVars, boundVars, historyVars>>

\* The user trades by another way.
Trade(s) ==
    /\ trades < MaxTrades /\ trades' = trades + 1
    /\ holding' = [holding EXCEPT ![s] = Shares - @]
    /\ UNCHANGED <<defaults, fallen, blocked, linkVars, riskVars, clientVars, handlerVars, seen,
                   taskVars, drops, errors, watches, historyVars>>

Fall(s) ==
    /\ s \notin fallen /\ fallen' = fallen \cup {s}
    /\ UNCHANGED <<defaults, holding, blocked, linkVars, riskVars, clientVars, handlerVars, seen,
                   taskVars, boundVars, historyVars>>

Switch ==
    /\ blocked' = ~blocked
    /\ UNCHANGED <<defaults, holding, fallen, linkVars, riskVars, clientVars, handlerVars, seen,
                   taskVars, boundVars, historyVars>>
-----------------------------------------------------------------------------
\* Start-up: the positions are read, then the codes are subscribed to.
RealTimeInit ==
    /\ defaults \in SUBSET Stocks
    /\ holding \in [Stocks -> {0, Shares}] /\ fallen = {} /\ blocked \in BOOLEAN
    /\ tracked = holding /\ triggered = {} /\ stale = FALSE
    /\ link = "down" /\ sends = <<>> /\ live = {}
    /\ subscribed = defaults \cup HeldIn(holding)
    /\ watch = [c \in Clients |-> {}] /\ online = {}
    /\ tick = NoStock /\ stage = "idle"
    /\ seen = [r \in Readers |-> Nothing]
    /\ reconciling = "sleep" /\ reconciled = HeldIn(holding)
    /\ drops = 0 /\ errors = 0 /\ trades = 0 /\ watches = 0
    /\ sales = Nothing /\ lapsed = Nothing /\ released = {}

Handler == \/ \E gone \in SUBSET Clients : Broadcast(gone)
           \/ ReadBalance("tick") \/ Refreshed
           \/ StopBlocked \/ BrokerSells \/ StopRefused \/ StopDone

Task == ReadBalance("task") \/ SubscribeNew \/ UnsubscribeOld \/ Reconciled

Errors == \/ BroadcastRaises \/ RefreshRaises \/ StopUnheard \/ NotifyRaises
          \/ ReconcileRaises \/ Drop

Users == \/ \E c \in Clients : Join(c) \/ Disconnect(c)
         \/ \E c \in Clients, codes \in SUBSET Stocks : Watch(c, codes) \/ Unwatch(c, codes)
         \/ \E s \in Stocks : Trade(s) \/ Fall(s)
         \/ Switch

RealTimeNext == \/ Connect \/ Send \/ Handler \/ Task \/ Errors \/ Users \/ Elapse
                \/ \E s \in Stocks : Tick(s)

RealTimeSpec == RealTimeInit /\ [][RealTimeNext]_realTimeVars

\* The event loop runs what is ready and a broken socket is connected again; a
\* stock that goes on trading is heard of again and again.
RealTimeFairness ==
    /\ WF_realTimeVars(Connect) /\ WF_realTimeVars(Send)
    /\ WF_realTimeVars(Handler) /\ WF_realTimeVars(Task)
    /\ \A s \in Stocks : SF_realTimeVars(Tick(s))

RealTimeFairSpec == RealTimeSpec /\ RealTimeFairness
-----------------------------------------------------------------------------
(* Properties.                                                             *)

\* In one life of the process a stock is sold once by the stop-loss, and once more
\* for each time that the handler failed after a sale (its answer was lost, or the
\* notification raised): not again by later ticks, by positions that were read
\* before the sale or by a socket that was closed on the way.
StopSellsOnce == \A s \in Stocks : sales[s] <= lapsed[s] + 1

\* On an open socket with nothing left to send the broker sends exactly the
\* codes in _subscribed_codes, in whatever order clients, reconciliation and
\* reconnection asked for them; and these hold the default codes, the codes of
\* every connected client and those of the positions, but for codes that the
\* reconciliation let go.
WatchedIsFed ==
    /\ (link = "up" /\ sends = <<>>) => live = subscribed
    /\ defaults \subseteq subscribed
    /\ \A c \in online : watch[c] \subseteq subscribed \cup released
    /\ reconciled \subseteq subscribed \cup released

\* A position that stays below its stop, with orders allowed, is ordered to be
\* sold in the end, whatever was out of date or failed on the way; but not if
\* letting go of its code was broken off (see released).
StopIsReached ==
    \A s \in Stocks : ~<>[](/\ holding[s] > 0 /\ s \in fallen /\ ~blocked
                            /\ sales[s] = 0 /\ s \notin released)
=============================================================================
