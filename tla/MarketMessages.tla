--------------------------- MODULE MarketMessages ---------------------------
(* What the gateway sends and what becomes of it: the frames of              *)
(* src/src/websocket/messages.rs, the parsers of websocket/parse.rs, the     *)
(* order-event dictionaries of websocket/order_parse.rs and the historical   *)
(* replies of http/parse.rs. A JSON object is a function from the names of   *)
(* its fields, as in Instruments. An operator X_Y is a mutant of X.          *)
EXTENDS GatewayHttp, Sequences, FiniteSets, Functions

CONSTANTS
  Stamps,    \* the timestamps chrono parses
  LongIds,   \* code and timestamp that make a TradeId longer than the library holds
  DepthLen,  \* DEPTH10_LEN
  Panic      \* the outcome of an operation that panics

-----------------------------------------------------------------------------
(* Ticks and books                                                           *)

WsTickData   == {"close", "volume", "total_volume", "open", "high", "low",
                 "bid_side_total_vol", "ask_side_total_vol", "timestamp"}
WsBidAskData == {"bid_price", "bid_volume", "ask_price", "ask_volume", "timestamp"}

parse_taiwan_timestamp(ts) == IF ts \in Stamps THEN ts ELSE Err

AggressorSide(type) ==
  CASE type = 1 -> "Buyer" [] type = 2 -> "Seller" [] OTHER -> "NoAggressor"

parse_ws_tick_to_trade_tick(code, data, precision) ==
  LET price == try_price(data.close, precision)
      size  == try_qty(data.volume)
  IN IF Err \in {price, size} THEN Err
     ELSE IF <<code, data.timestamp>> \in LongIds THEN Panic  \* TradeId::new
     ELSE IF size = 0 THEN Err                       \* TradeTick::new_checked
     ELSE [kind |-> "trade", price |-> price, size |-> size,
           side |-> AggressorSide(Field(data, "tick_type", 0)),
           id |-> <<code, data.timestamp>>]

\* Mutant: a placeholder without volume is taken for the best level.
NoTop_NoPrice(data) == data.bid_price[1] = 0 \/ data.ask_price[1] = 0

\* Mutant: every level must have a volume.
NoTop_AnyLevel(data) ==
  \E f \in {"bid_volume", "ask_volume"} : \E i \in DOMAIN data[f] : data[f][i] <= 0

NoTop(data) == data.bid_volume[1] <= 0 \/ data.ask_volume[1] <= 0

parse_ws_bidask_to_quote_tick(data, precision) ==
  IF \/ \E f \in WsBidAskData \ {"timestamp"} : data[f] = <<>>
     \/ NoTop(data)
    THEN Err
    ELSE LET bid == <<try_price(data.bid_price[1], precision), try_qty(data.bid_volume[1])>>
             ask == <<try_price(data.ask_price[1], precision), try_qty(data.ask_volume[1])>>
         IN IF Err \in {bid[1], bid[2], ask[1], ask[2]} THEN Err
            ELSE [kind |-> "quote", bid |-> bid, ask |-> ask]

\* Mutant: levels without volume are kept.
Levels_Placeholders(prices, volumes) ==
  [i \in 1 .. IF Len(prices) < Len(volumes) THEN Len(prices) ELSE Len(volumes)
     |-> <<prices[i], volumes[i]>>]

\* iter().zip(): the shorter array decides. Levels without volume are skipped,
\* the k-th of the others is at the position with k - 1 of them before it.
Kept(prices, volumes) == {i \in DOMAIN prices \cap DOMAIN volumes : volumes[i] > 0}

Position(kept, k) == CHOOSE i \in kept : Cardinality({j \in kept : j <= i}) = k

Levels(prices, volumes) ==
  LET kept == Kept(prices, volumes)
  IN [k \in 1 .. Cardinality(kept) |-> <<prices[Position(kept, k)],
                                         volumes[Position(kept, k)]>>]

\* The levels as the library holds them, Err if one does not fit.
Checked(levels, precision) ==
  LET held == [i \in DOMAIN levels |-> <<try_price(levels[i][1], precision),
                                         try_qty(levels[i][2])>>]
  IN IF \E i \in DOMAIN held : held[i][1] = Err \/ held[i][2] = Err THEN Err ELSE held

FirstLevels(levels) ==
  SubSeq(levels, 1, IF Len(levels) < DepthLen THEN Len(levels) ELSE DepthLen)

parse_ws_bidask_to_order_book_depth10(data, precision) ==
  LET bids == Checked(FirstLevels(Levels(data.bid_price, data.bid_volume)), precision)
      asks == Checked(FirstLevels(Levels(data.ask_price, data.ask_volume)), precision)
  IN IF \/ data.bid_price = <<>> \/ data.ask_price = <<>>
        \/ bids = Err \/ asks = Err
        \/ bids = <<>> /\ asks = <<>>
       THEN Err
       ELSE [kind |-> "depth", bids |-> bids, asks |-> asks]

Clear == [action |-> "Clear", side |-> "None", level |-> <<0, 0>>]

Adds(side, levels) ==
  [i \in DOMAIN levels |-> [action |-> "Add", side |-> side, level |-> levels[i]]]

\* Mutant: no CLEAR in front.
Deltas_NoClear(bids, asks) == Adds("Buy", bids) \o Adds("Sell", asks)

Deltas(bids, asks) == <<Clear>> \o Adds("Buy", bids) \o Adds("Sell", asks)

parse_ws_bidask_to_order_book_deltas(data, precision) ==
  LET bids == Checked(Levels(data.bid_price, data.bid_volume), precision)
      asks == Checked(Levels(data.ask_price, data.ask_volume), precision)
  IN IF \/ data.bid_price = <<>> \/ data.ask_price = <<>>
        \/ bids = Err \/ asks = Err
       THEN Err
       ELSE [kind |-> "deltas", deltas |-> Deltas(bids, asks)]

-----------------------------------------------------------------------------
(* Order events                                                              *)

OperationInfo       == {"op_type", "op_code", "op_msg"}
OrderStatusInfo     == {"id", "exchange_ts", "modified_price", "cancel_quantity",
                        "order_quantity"}
StockContractInfo   == {"security_type", "exchange", "code", "symbol", "name"}
FuturesContractInfo == {"security_type", "code", "exchange"}
OrderInfo           == {"id", "seqno", "ordno", "action", "price", "quantity",
                        "order_type", "price_type"}  \* the same for both markets
StockDealEventData  == {"trade_id", "seqno", "ordno", "broker_id", "account_id",
                        "action", "code", "price", "quantity", "ts"}
FuturesDealEventData == StockDealEventData

OrderEventDecodes(data, contract) ==
  /\ Decodes(data, {"operation", "order", "status", "contract"})
  /\ Decodes(data.operation, OperationInfo)
  /\ Decodes(data.order, OrderInfo)
  /\ Decodes(data.status, OrderStatusInfo)
  /\ Decodes(data.contract, contract)

\* WsOrderUpdateMsg::parse_event.
parse_event(event, data) ==
  \/ event = "OrderState.StockOrder"   /\ OrderEventDecodes(data, StockContractInfo)
  \/ event = "OrderState.FuturesOrder" /\ OrderEventDecodes(data, FuturesContractInfo)
  \/ event = "OrderState.StockDeal"   /\ Decodes(data, StockDealEventData)
  \/ event = "OrderState.FuturesDeal" /\ Decodes(data, FuturesDealEventData)

EventType(event) ==
  CASE event = "OrderState.StockOrder"   -> "stock_order"
    [] event = "OrderState.StockDeal"    -> "stock_deal"
    [] event = "OrderState.FuturesOrder" -> "futures_order"
    [] event = "OrderState.FuturesDeal"  -> "futures_deal"

\* set_order_fields: the token of the order is echoed, null when it has none.
OrderDict(event, data) ==
  [event_type |-> EventType(event), op_type |-> data.operation.op_type,
   op_code |-> data.operation.op_code, order_id |-> data.order.id,
   code |-> data.contract.code, order_quantity |-> data.status.order_quantity,
   modified_price |-> data.status.modified_price,
   custom_field |-> Field(data.order, "custom_field", Err)]

\* set_deal_fields: no token; the exchange's sequence number may be missing.
DealDict(event, data) ==
  [event_type |-> EventType(event), trade_id |-> data.trade_id, ordno |-> data.ordno,
   seqno |-> data.seqno, exchange_seq |-> Field(data, "exchange_seq", Err),
   code |-> data.code, price |-> data.price, quantity |-> data.quantity]

order_event_to_pydict(event, data) ==
  IF event \in {"OrderState.StockOrder", "OrderState.FuturesOrder"}
    THEN OrderDict(event, data) ELSE DealDict(event, data)

\* Mutant: the order's sequence number instead of the deal's.
DealTradeId_Seqno(dict) ==
  <<dict.trade_id, IF dict.exchange_seq \in {Err, ""} THEN dict.seqno ELSE dict.exchange_seq>>

\* The NautilusTrader TradeId the execution client makes of a deal.
DealTradeId(dict) ==
  <<dict.trade_id, IF dict.exchange_seq \in {Err, ""} THEN dict.ordno ELSE dict.exchange_seq>>

-----------------------------------------------------------------------------
(* History                                                                   *)

TicksResponse == {"code", "ts", "close", "volume", "bid_price", "ask_price", "tick_type"}
KBarsResponse == {"code", "ts", "open", "high", "low", "close", "volume"}

Aligned(reply, columns) == \A f \in columns : Len(reply[f]) = Len(reply.ts)

parse_ticks_response(reply, precision) ==
  LET trade(i) == [price |-> try_price(reply.close[i], precision),
                   size |-> try_qty(reply.volume[i]),
                   side |-> AggressorSide(reply.tick_type[i]), ts |-> reply.ts[i],
                   id |-> <<reply.code, reply.ts[i]>>]
  IN IF \/ ~Aligned(reply, {"close", "volume", "tick_type"})
        \/ \E i \in DOMAIN reply.ts : trade(i).price = Err \/ trade(i).size \in {Err, 0}
       THEN Err
       ELSE [i \in DOMAIN reply.ts |-> trade(i)]

\* Mutant: rows as far as the closing prices go.
parse_kbars_response_Zip(reply, precision) ==
  [i \in DOMAIN reply.close |->
     [ts |-> reply.ts[i], open |-> reply.close[i], high |-> reply.close[i], low |-> reply.close[i],
      close |-> reply.close[i], volume |-> 0]]

parse_kbars_response(reply, precision) ==
  LET px(f, i) == try_price(reply[f][i], precision)
      bar(i)   == [ts |-> reply.ts[i], open |-> px("open", i), high |-> px("high", i),
                   low |-> px("low", i), close |-> px("close", i),
                   volume |-> try_qty(reply.volume[i])]
      sound(b) == /\ \A f \in DOMAIN b \ {"ts"} : b[f] # Err
                  /\ b.high >= b.open /\ b.high >= b.low /\ b.high >= b.close
                  /\ b.low <= b.open /\ b.low <= b.close
  IN IF \/ ~Aligned(reply, {"open", "high", "low", "close", "volume"})
        \/ \E i \in DOMAIN reply.ts : ~sound(bar(i))
       THEN Err
       ELSE [i \in DOMAIN reply.ts |-> bar(i)]
=============================================================================
