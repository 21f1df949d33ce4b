----------------------------- MODULE MarketData ------------------------------
(* The callback loop of src/src/python/websocket.rs: what the feed handler   *)
(* passes on becomes trades, quotes, depth snapshots, book deltas and order  *)
(* events, which the clients hand to NautilusTrader; and the historical      *)
(* requests of data.py over HTTP. Which types are emitted is decided by the  *)
(* flags of MarketFeed; here they change at any moment. Every piece carries  *)
(* the number of the frame it was made of.                                   *)
EXTENDS MarketMessages

CONSTANTS
  Precisions,   \* the decimals of each instrument known when the socket connected
  Frames,       \* the frames the gateway may send, a sequence
  Replies,      \* the replies to a request for bars or ticks, a sequence
  MaxInputs     \* bound: frames, changes of the flags and requests together

\* Decimals are those of the tick tables. The socket has one instrument here:
\* the engine keeps a book of each, and the frames of two share nothing else.
ASSUME MarketAssumption ==
  /\ DepthLen \in Nat \ {0}
  /\ \E code \in DOMAIN Precisions : DOMAIN Precisions = {code}
  /\ \A code \in DOMAIN Precisions : Precisions[code] \in 0 .. 2
  /\ MaxInputs \in Nat

\* A book that decodes has lists of numbers, the best level first: its position
\* is what makes a level the top of the book (parse.rs 70-112).
ASSUME FrameAssumption ==
  \A f \in DOMAIN Frames :
    LET data == Frames[f].data
    IN Frames[f].type = "bidask" /\ Decodes(data, WsBidAskData) =>
         /\ \A column \in WsBidAskData \ {"timestamp"} : data[column] \in Seq(Int)
         /\ \A i, j \in Kept(data.bid_price, data.bid_volume) :
              i <= j => data.bid_price[j] <= data.bid_price[i]
         /\ \A i, j \in Kept(data.ask_price, data.ask_volume) :
              i <= j => data.ask_price[i] <= data.ask_price[j]

\* The body of a reply is one object; its columns are lists of numbers.
ASSUME ReplyAssumption ==
  \A r \in DOMAIN Replies :
    \E object \in Replies[r].body :
      /\ Replies[r].body = {object}
      /\ \A column \in DOMAIN object \cap (KBarsResponse \cup TicksResponse) :
           column # "code" => object[column] \in Seq(Int)

Outputs == {"quote", "depth", "deltas"}
Deals   == {"stock_deal", "futures_deal"}
NoBook  == [side \in {"Buy", "Sell"} |-> {}]

\* Err is no quote, before or after it is passed on.
QuoteTick == [kind : {"quote"}, bid : Int \X Int, ask : Int \X Int]

ASSUME QuoteAssumption ==
  Err \notin QuoteTick \cup [piece : QuoteTick, frame : Nat, with : SUBSET Outputs]

VARIABLES
  sent,      \* the frames the gateway has sent, as members of DOMAIN Frames
  running,   \* does the callback loop still run?
  emit,      \* the emit flags of the instrument
  out,       \* pieces on their way to the engines
  latest,    \* what the engine has last seen of each kind
  book,      \* the order book it keeps
  deals,     \* the TradeIds it was given
  orders,    \* the order events it was given
  answer,    \* the answer to the latest request for bars or ticks
  inputs     \* inputs so far

consumed == <<latest, book, deals, orders>>
vars     == <<sent, running, emit, out, consumed, answer, inputs>>

-----------------------------------------------------------------------------
(* One frame                                                                 *)

\* serde_json::from_str::<WsIncomingMsg> in the handler.
IncomingDecodes(frame) ==
  CASE frame.type = "tick"         -> Decodes(frame.data, WsTickData)
    [] frame.type = "bidask"       -> Decodes(frame.data, WsBidAskData)
    [] frame.type = "order_update" -> TRUE   \* its data is kept as it is
    [] frame.type \in {"subscribed", "unsubscribed", "error"} -> TRUE
    [] OTHER                       -> FALSE

\* The result of a parser in the list of what is sent on.
Some(result) == IF result = Err THEN <<>> ELSE <<result>>

Emitted(output, data, precision) ==
  CASE output = "quote"  -> Some(parse_ws_bidask_to_quote_tick(data, precision))
    [] output = "depth"  -> Some(parse_ws_bidask_to_order_book_depth10(data, precision))
    [] output = "deltas" -> Some(parse_ws_bidask_to_order_book_deltas(data, precision))

\* Known and dated: otherwise the message is dropped with a log line.
Usable(frame) ==
  frame.code \in DOMAIN Precisions /\ parse_taiwan_timestamp(frame.data.timestamp) # Err

\* An order event the loop can decode, and what it calls back with for one.
OrderEvent(frame) == frame.type = "order_update" /\ parse_event(frame.event, frame.data)
EventOf(frame)    == [kind |-> "event", dict |-> order_event_to_pydict(frame.event, frame.data)]

\* An event that was made is no panic.
ASSUME EventAssumption ==
  \A f \in DOMAIN Frames : OrderEvent(Frames[f]) => <<EventOf(Frames[f])>> # Panic

\* The deals of a trade: one ordno, one sequence number or none, and the other
\* way round; and no sequence number is also an ordno. order_parse.rs 76-87 says
\* that the numbers are unique and that exchange_seq "may be absent, e.g.
\* simulation / pre-confirmation"; this says more, that a deal is never reported once with and
\* once without it, as it would then have two TradeIds.
Sequence(data) ==
  LET seq == Field(data, "exchange_seq", Err) IN IF seq = "" THEN Err ELSE seq

ASSUME NumberingAssumption ==
  \A f, g \in {d \in DOMAIN Frames : /\ OrderEvent(Frames[d])
                                    /\ EventOf(Frames[d]).dict.event_type \in Deals} :
    LET x == Frames[f].data
        y == Frames[g].data
    IN x.trade_id = y.trade_id =>
         /\ x.ordno = y.ordno => Sequence(x) = Sequence(y)
         /\ Sequence(x) # Err =>
              Sequence(x) # y.ordno /\ (Sequence(x) = Sequence(y) => x.ordno = y.ordno)

\* What the loop makes of a message; the flags are read once.
Pieces(frame) ==
  CASE frame.type = "tick" /\ Usable(frame) ->
         LET trade == parse_ws_tick_to_trade_tick(frame.code, frame.data,
                                                  Precisions[frame.code])
         IN IF trade = Panic THEN Panic ELSE Some(trade)
    [] frame.type = "bidask" /\ Usable(frame) ->
         LET Part(output) == IF output \in emit
                               THEN Emitted(output, frame.data, Precisions[frame.code])
                               ELSE <<>>
         IN Part("quote") \o Part("depth") \o Part("deltas")
    [] OrderEvent(frame) -> <<EventOf(frame)>>
    [] OTHER -> <<>>

-----------------------------------------------------------------------------
(* Actions                                                                   *)

Input == inputs < MaxInputs /\ inputs' = inputs + 1

\* set_bidask_outputs, called by a task of the data client.
SetOutputs(flags) ==
  /\ Input
  /\ emit' = flags
  /\ UNCHANGED <<sent, running, out, consumed, answer>>

\* Mutant: no catch_unwind around a message.
Survives_Not(pieces) == pieces # Panic

\* Does the loop go on after this outcome? catch_unwind: after any.
Survives(pieces) == TRUE

(* The gateway sends a frame (external); the handler decodes it, the loop     *)
(* turns it into pieces and calls back with each, or has ended. A panic loses *)
(* the message and nothing else. Frames are handled in the order sent, and    *)
(* nothing but the flags is read then.                                        *)
HandleFrame(f) ==
  /\ Input
  /\ sent' = Append(sent, f)
  /\ LET pieces == IF IncomingDecodes(Frames[f]) THEN Pieces(Frames[f]) ELSE <<>>
     IN IF ~running
          THEN UNCHANGED <<running, out>>
          ELSE /\ running' = Survives(pieces)
               /\ out' = IF pieces = Panic THEN out
                         ELSE out \o [i \in DOMAIN pieces |->
                                        [piece |-> pieces[i], frame |-> Len(sent'),
                                         with |-> emit]]
  /\ UNCHANGED <<emit, consumed, answer>>

(* What a list of deltas makes of a book (external: the library's OrderBook): *)
(* the levels added after the last CLEAR are there. Two levels of one side    *)
(* that a frame lists at one price stay apart here; the library keeps one.    *)
Applied(old, deltas) ==
  LET cleared     == {i \in DOMAIN deltas : deltas[i].action = "Clear"}
      added(side) == {i \in DOMAIN deltas : deltas[i].action = "Add" /\ deltas[i].side = side}
  IN [side \in DOMAIN old |->
        (IF cleared = {} THEN old[side] ELSE {})
          \cup {deltas[i].level : i \in {j \in added(side) : \A c \in cleared : c < j}}]

(* The data engine takes market data, the execution client order events, in   *)
(* the order of the callbacks; a deal becomes a fill with a TradeId.          *)
Deliver ==
  /\ out # <<>>
  /\ out' = Tail(out)
  /\ LET piece == Head(out).piece
         n     == Head(out).frame
     IN /\ latest' = IF piece.kind \in DOMAIN latest
                       THEN [latest EXCEPT ![piece.kind] = Head(out)] ELSE latest
        /\ book' = IF piece.kind = "deltas"
                     THEN Applied(book, piece.deltas) ELSE book
        /\ orders' = IF piece.kind = "event" THEN Append(orders, n) ELSE orders
        /\ deals' = IF piece.kind = "event"
                       /\ piece.dict.event_type \in Deals
                      THEN deals \cup {<<n, DealTradeId(piece.dict)>>} ELSE deals
  /\ UNCHANGED <<sent, running, emit, answer, inputs>>

(* _request_bars and _request_trade_ticks: a reply that does not decode or   *)
(* does not parse is logged, and the request is never answered.               *)
Request(kind, r, rows) ==
  /\ Input
  /\ answer' = [kind |-> kind, reply |-> r, rows |-> rows]
  /\ UNCHANGED <<sent, running, emit, out, consumed>>

RequestBars(code, r) ==
  LET body == Answer(Replies[r], KBarsResponse)
  IN Request("bars", r, IF body = Err THEN Err
                        ELSE parse_kbars_response(CHOOSE b \in body : TRUE, Precisions[code]))

RequestTradeTicks(code, r) ==
  LET body == Answer(Replies[r], TicksResponse)
  IN Request("ticks", r, IF body = Err THEN Err
                         ELSE parse_ticks_response(CHOOSE b \in body : TRUE, Precisions[code]))

-----------------------------------------------------------------------------
Init ==
  /\ sent = <<>> /\ running = TRUE
  /\ emit \in SUBSET Outputs  \* as the subscriptions made so far have left them
  /\ out = <<>>
  /\ latest = [kind \in Outputs \cup {"trade"} |-> Err]
  /\ book = NoBook
  /\ deals = {} /\ orders = <<>>
  /\ answer = Err /\ inputs = 0

Next ==
  \/ \E f \in DOMAIN Frames : HandleFrame(f)
  \/ \E flags \in SUBSET Outputs : SetOutputs(flags)
  \/ Deliver
  \/ \E code \in DOMAIN Precisions, r \in DOMAIN Replies :
       RequestBars(code, r) \/ RequestTradeTicks(code, r)

Spec == Init /\ [][Next]_vars

\* The engines work off their queues.
FairSpec == Spec /\ WF_vars(Deliver)

-----------------------------------------------------------------------------
(* Properties                                                                *)

TypeOK ==
  /\ sent \in Seq(DOMAIN Frames) /\ running \in BOOLEAN
  /\ emit \subseteq Outputs /\ inputs \in 0 .. MaxInputs
  /\ \A i \in DOMAIN out :
       /\ out[i].piece.kind \in Outputs \cup {"trade", "event"}
       /\ out[i].frame \in DOMAIN sent
       /\ out[i].with \subseteq Outputs
  /\ DOMAIN latest = Outputs \cup {"trade"} /\ DOMAIN book = {"Buy", "Sell"}
  /\ \A kind \in DOMAIN latest :
       latest[kind] # Err => latest[kind].piece.kind = kind /\ latest[kind].frame \in DOMAIN sent
  /\ \A side \in DOMAIN book : \A level \in book[side] : level[1] \in Int /\ level[2] > 0
  /\ \A d \in deals : d[1] \in DOMAIN sent
  /\ orders \in Seq(DOMAIN sent)

\* The levels of one side that have a volume, by position; positions beyond
\* the shorter of the two lists name no level.
Standing(data, prices, volumes) ==
  {i \in DOMAIN data[prices] \cap DOMAIN data[volumes] : data[volumes][i] > 0}

LevelsOf(n, prices, volumes) ==
  LET frame == Frames[sent[n]]
  IN {<<Rounded(frame.data[prices][i], Precisions[frame.code]), frame.data[volumes][i]>> :
        i \in Standing(frame.data, prices, volumes)}

BidsOf(n) == LevelsOf(n, "bid_price", "bid_volume")
AsksOf(n) == LevelsOf(n, "ask_price", "ask_volume")

(* The book is never a mixture: it holds the standing levels of the one       *)
(* frame the last deltas were made of, whatever was dropped, refused or       *)
(* switched off in between (parse.rs 187-246).                                *)
BookIsOneFrame ==
  latest["deltas"] # Err =>
    LET n == latest["deltas"].frame
    IN book = [side \in {"Buy", "Sell"} |-> IF side = "Buy" THEN BidsOf(n) ELSE AsksOf(n)]

(* The three views of one frame agree: quote and first depth level are the    *)
(* best standing level of each side, and no depth level is missing from the   *)
(* book or is passed over for a worse one (parse.rs 76-246).                  *)
ViewsAgree ==
  LET quote == latest["quote"]
      depth == latest["depth"]
      Best(level, side) == level \in side /\ \A l \in side : l[1] <= level[1]
      Cheapest(level, side) == level \in side /\ \A l \in side : l[1] >= level[1]
  IN /\ quote # Err =>
          /\ Best(quote.piece.bid, BidsOf(quote.frame))
          /\ Cheapest(quote.piece.ask, AsksOf(quote.frame))
     /\ depth # Err =>
          LET bids == BidsOf(depth.frame)
              asks == AsksOf(depth.frame)
              Top(shown, side) ==
                /\ Range(shown) \subseteq side
                /\ Len(shown) < Cardinality(side) => Len(shown) = DepthLen
          IN /\ Top(depth.piece.bids, bids) /\ Top(depth.piece.asks, asks)
             /\ bids # {} => Best(depth.piece.bids[1], bids)
             /\ asks # {} => Cheapest(depth.piece.asks[1], asks)

(* The quote falls behind the book only if one side of the newer frame shows  *)
(* no standing best level: then there is no two-sided quote to give           *)
(* (parse.rs 99-101, websocket.rs 206-262).                                   *)
QuoteKeepsUp ==
  [][latest'["deltas"] # latest["deltas"] =>
       LET new == latest'["deltas"]
       IN \/ "quote" \notin new.with
          \/ latest["quote"] # Err /\ latest["quote"].frame = new.frame
          \/ 1 \notin Standing(Frames[sent[new.frame]].data, "bid_price", "bid_volume")
          \/ 1 \notin Standing(Frames[sent[new.frame]].data, "ask_price", "ask_volume")]_vars

(* Two fills have one TradeId exactly when they are one deal, even if only    *)
(* some deals of an order carry the exchange's sequence number; ordno is what *)
(* tells deals apart (order_parse.rs 76-93, execution.py 783-827).            *)
DealsToldApart ==
  \A d, e \in deals :
    d[2] = e[2] <=> LET x == Frames[sent[d[1]]].data
                        y == Frames[sent[e[1]]].data
                    IN x.trade_id = y.trade_id /\ x.ordno = y.ordno

(* No order event that decodes is lost, made up, repeated or overtaken: what  *)
(* was handed on is, in the order sent, what has come but for the events that *)
(* wait, and those are the later ones, whatever frames the gateway put in     *)
(* between (websocket.rs 146-151, 263-290).                                   *)
IsEvent(n) == OrderEvent(Frames[sent[n]])

EventsInOrder ==
  LET waiting == {out[i].frame : i \in {j \in DOMAIN out : out[j].piece.kind = "event"}}
  IN /\ \A i, j \in DOMAIN orders : i < j => orders[i] < orders[j]
     /\ {n \in DOMAIN sent : IsEvent(n)} = Range(orders) \cup waiting
     /\ \A w \in waiting, i \in DOMAIN orders : orders[i] < w

(* And every one reaches the execution client: no malformed, unknown or       *)
(* poisoned frame before it stops the loop (websocket.rs 146-151, 316-318).   *)
EventsDelivered ==
  \A n \in 1 .. MaxInputs :
    (Len(sent) >= n /\ IsEvent(n)) ~>
      \E i \in DOMAIN orders :
        /\ orders[i] = n
        /\ {orders[j] : j \in 1 .. i - 1} = {m \in 1 .. n - 1 : IsEvent(m)}

(* An answer to a request has one row for every row of the reply, whatever    *)
(* the column, and no bar outside its own range; otherwise there is none      *)
(* (parse.rs 85-169).                                                         *)
HistoryWhole ==
  answer # Err /\ answer.rows # Err =>
    \A body \in Replies[answer.reply].body :
      /\ \A i \in DOMAIN answer.rows : answer.rows[i].ts = body.ts[i]
      /\ answer.kind = "ticks" =>
           /\ \A f \in {"ts", "close", "volume", "tick_type"} : Len(body[f]) = Len(answer.rows)
           /\ \A i \in DOMAIN answer.rows : answer.rows[i].size > 0
      /\ answer.kind = "bars" =>
           /\ \A f \in KBarsResponse \ {"code"} : Len(body[f]) = Len(answer.rows)
           /\ \A i \in DOMAIN answer.rows :
                LET bar == answer.rows[i]
                IN bar.low <= bar.open /\ bar.open <= bar.high
                     /\ bar.low <= bar.close /\ bar.close <= bar.high
=============================================================================
