----------------------------- MODULE MarketFeed -----------------------------
(***************************************************************************)
(* Market-data subscriptions: the four sets of SinopacDataClient (data.py),*)
(* the emit flags and the command channel of the Rust client, the set the  *)
(* feed handler re-subscribes from (handler.rs), and what the gateway      *)
(* streams on the present connection.                                      *)
(*                                                                         *)
(* Each command is an asyncio task; the WebSocket call it awaits runs on a *)
(* tokio thread, so calls awaited by two tasks may reach the channel in    *)
(* either order.                                                           *)
(***************************************************************************)
EXTENDS Integers, Sequences, FiniteSets

CONSTANTS
  Instruments,
  InOrder,       \* do the awaited calls reach the channel in the order they were made?
  MaxCommands,   \* bound: subscribe and unsubscribe commands
  MaxDrops       \* bound: drops of the connection

ASSUME FeedAssumption ==
  /\ InOrder \in BOOLEAN
  /\ MaxCommands \in Nat
  /\ MaxDrops \in Nat

BookKinds == {"quotes", "depth", "deltas"}
Kinds     == BookKinds \cup {"trades"}
Topics    == {"tick", "bidask"} \X Instruments
Actions   == {"subscribe", "unsubscribe"}
Command   == [action : Actions, topic : Topics]
Call      == [action : Actions, topic : Topics, sent : BOOLEAN]

VARIABLES
  subscribed,  \* the sets _subscribed_trades, _quotes, _book_depth, _book_deltas
  outputs,     \* bidask_emit_flags: what is emitted for each instrument
  calls,       \* WebSocket calls that some task awaits, oldest first
  channel,     \* commands on their way to the handler
  tracked,     \* FeedHandler.subscriptions
  streamed,    \* what the gateway streams on the present connection
  link,        \* is the connection up?
  sentinel,    \* is the reconnection signal waiting for the handler?
  used         \* commands and drops spent

vars == <<subscribed, outputs, calls, channel, tracked, streamed, link, sentinel, used>>

TypeOK ==
  /\ subscribed \in [Kinds -> SUBSET Instruments]
  /\ outputs \in [Instruments -> SUBSET BookKinds]
  /\ calls \in Seq(Call)
  /\ channel \in Seq(Command)
  /\ tracked \in SUBSET Topics
  /\ streamed \in SUBSET Topics
  /\ link \in BOOLEAN
  /\ sentinel \in BOOLEAN
  /\ used \in [{"commands", "drops"} -> Nat]

-----------------------------------------------------------------------------
Topic(k, i) == IF k = "trades" THEN <<"tick", i>> ELSE <<"bidask", i>>

\* _has_bidask_subscription
HasBidAsk(subs, i) == \E k \in BookKinds : i \in subs[k]

\* Mutant: trades count as a book type.
OutputsFor_Trades(subs, i) == {k \in Kinds : i \in subs[k]}

\* Mutant: the flags of an instrument are kept until its stream is closed.
OutputsFor_Sticky(subs, i) ==
  IF HasBidAsk(subs, i) THEN outputs[i] \cup {k \in BookKinds : i \in subs[k]} ELSE {}

\* _update_bidask_outputs_for
OutputsFor(subs, i) == {k \in BookKinds : i \in subs[k]}

Update(subs, i) == outputs' = [outputs EXCEPT ![i] = OutputsFor(subs, i)]

Await(action, topic) == calls' = Append(calls, [action |-> action, topic |-> topic, sent |-> FALSE])

Spend(k) == used' = [used EXCEPT ![k] = @ + 1]

\* _subscribe_trade_ticks, _subscribe_quote_ticks, _subscribe_order_book_depth and
\* _subscribe_order_book_deltas, up to the await or to the end without one.
Subscribe(k, i) ==
  /\ used["commands"] < MaxCommands /\ Spend("commands")
  /\ i \notin subscribed[k]
  /\ subscribed' = [subscribed EXCEPT ![k] = @ \cup {i}]
  /\ \/ /\ k = "trades" \/ ~HasBidAsk(subscribed, i)
        /\ Await("subscribe", Topic(k, i))
        /\ UNCHANGED outputs
     \/ /\ k # "trades" /\ HasBidAsk(subscribed, i)
        /\ Update(subscribed', i)
        /\ UNCHANGED calls
  /\ UNCHANGED <<channel, tracked, streamed, link, sentinel>>

\* The unsubscribe handlers: the flags change before the await.
Unsubscribe(k, i) ==
  /\ used["commands"] < MaxCommands /\ Spend("commands")
  /\ i \in subscribed[k]
  /\ subscribed' = [subscribed EXCEPT ![k] = @ \ {i}]
  /\ IF k = "trades" THEN UNCHANGED outputs ELSE Update(subscribed', i)
  /\ IF k = "trades" \/ ~HasBidAsk(subscribed', i)
     THEN Await("unsubscribe", Topic(k, i)) ELSE UNCHANGED calls
  /\ UNCHANGED <<channel, tracked, streamed, link, sentinel>>

\* subscribe and unsubscribe of the Rust client: one send on the channel.
SendCall(n) ==
  /\ ~calls[n].sent
  /\ InOrder => \A m \in 1 .. n - 1 : calls[m].sent
  /\ calls' = [calls EXCEPT ![n].sent = TRUE]
  /\ channel' = Append(channel, [action |-> calls[n].action, topic |-> calls[n].topic])
  /\ UNCHANGED <<subscribed, outputs, tracked, streamed, link, sentinel, used>>

\* The task goes on: a book subscription sets the flags as the sets are now.
Resume(n) ==
  /\ calls[n].sent
  /\ calls' = SubSeq(calls, 1, n - 1) \o SubSeq(calls, n + 1, Len(calls))
  /\ IF calls[n].action = "subscribe" /\ calls[n].topic[1] = "bidask"
     THEN Update(subscribed, calls[n].topic[2]) ELSE UNCHANGED outputs
  /\ UNCHANGED <<subscribed, channel, tracked, streamed, link, sentinel, used>>

-----------------------------------------------------------------------------
(* The feed handler. *)

\* Mutant: only what could be sent is tracked.
Tracked_IfSent(cmd) == IF cmd.action = "unsubscribe" THEN tracked \ {cmd.topic}
                       ELSE IF link THEN tracked \cup {cmd.topic} ELSE tracked

\* The subscription is tracked whether or not the send succeeded.
Tracked(cmd) == IF cmd.action = "subscribe" THEN tracked \cup {cmd.topic} ELSE tracked \ {cmd.topic}

\* The gateway (external) obeys what reaches it.
Streamed(cmd) ==
  IF ~link THEN streamed
  ELSE IF cmd.action = "subscribe" THEN streamed \cup {cmd.topic} ELSE streamed \ {cmd.topic}

HandleCommand ==
  /\ channel # <<>>
  /\ channel' = Tail(channel)
  /\ tracked' = Tracked(Head(channel))
  /\ streamed' = Streamed(Head(channel))
  /\ UNCHANGED <<subscribed, outputs, calls, link, sentinel, used>>

\* Mutant: nothing is sent again.
ResubscribeAll_Nothing == UNCHANGED streamed

\* resubscribe_all: a send over a connection that dropped again is only logged.
ResubscribeAll == streamed' = IF link THEN streamed \cup tracked ELSE streamed

HandleReconnected ==
  /\ sentinel
  /\ sentinel' = FALSE
  /\ ResubscribeAll
  /\ UNCHANGED <<subscribed, outputs, calls, channel, tracked, link, used>>

\* The gateway forgets the subscriptions of a connection (external).
Drop ==
  /\ link
  /\ used["drops"] < MaxDrops /\ Spend("drops")
  /\ link' = FALSE
  /\ streamed' = {}
  /\ UNCHANGED <<subscribed, outputs, calls, channel, tracked, sentinel>>

\* nautilus_network reconnects and says so on the raw channel (external).
Reconnect ==
  /\ ~link
  /\ link' = TRUE
  /\ sentinel' = TRUE
  /\ UNCHANGED <<subscribed, outputs, calls, channel, tracked, streamed, used>>

-----------------------------------------------------------------------------
Init ==
  /\ subscribed = [k \in Kinds |-> {}]
  /\ outputs = [i \in Instruments |-> {}]
  /\ calls = <<>> /\ channel = <<>>
  /\ tracked = {} /\ streamed = {}
  /\ link = TRUE /\ sentinel = FALSE
  /\ used = [k \in {"commands", "drops"} |-> 0]

Commands == \E k \in Kinds, i \in Instruments : Subscribe(k, i) \/ Unsubscribe(k, i)
Tasks    == \E n \in 1 .. Len(calls) : SendCall(n) \/ Resume(n)

Next == Commands \/ Tasks \/ HandleCommand \/ HandleReconnected \/ Drop \/ Reconnect

Spec == Init /\ [][Next]_vars

\* Loop and tokio run their tasks; reconnection is tried without limit.
FairSpec == Spec /\ WF_vars(Tasks) /\ WF_vars(HandleCommand) /\ WF_vars(HandleReconnected)
                 /\ WF_vars(Reconnect)

-----------------------------------------------------------------------------
(* Properties. *)

Wanted == UNION {{Topic(k, i) : i \in subscribed[k]} : k \in Kinds}

\* No command, call or reconnection is under way.
Quiet == calls = <<>> /\ channel = <<>> /\ link /\ ~sentinel

\* "The adapter only parses and delivers the data types with active
\* subscriptions": at no moment, and in no order of the awaited calls, is a
\* data type emitted that nobody subscribes to.
OnlySubscribed == \A i \in Instruments : \A k \in outputs[i] : i \in subscribed[k]

\* When nothing is under way, the gateway streams what is subscribed and no
\* more, the handler would re-subscribe exactly that, and each book message is
\* emitted as every type asked for, through drops at any moment.
Agreed ==
  Quiet => /\ streamed = Wanted
           /\ tracked = Wanted
           /\ \A i \in Instruments : outputs[i] = {k \in BookKinds : i \in subscribed[k]}

\* A subscription is eventually streamed unless it is given up.
Delivered ==
  \A k \in Kinds, i \in Instruments :
    i \in subscribed[k] ~> Topic(k, i) \in streamed \/ i \notin subscribed[k]
=============================================================================
