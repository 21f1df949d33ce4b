---------------------------- MODULE MCMarketData -----------------------------
(* Instances of MarketData for TLC: one instrument with two decimals, frames  *)
(* as the gateway sends them and as it should not.                            *)
EXTENDS MarketData, TLC

MCPrecisions == "stock" :> 2

\* "late" is a date no format fits; "long" one with which the code makes a TradeId too long.
MCStamps  == {"t1", "long"}
MCLongIds == {<<"stock", "long">>}

Fields(required, values) == values @@ [f \in required |-> 0]

Tick(code, price, volume, stamp) ==
  [type |-> "tick", code |-> code,
   data |-> Fields(WsTickData, [close |-> price, volume |-> volume, timestamp |-> stamp])]

BidAsk(bids, bidVolumes, asks, askVolumes) ==
  [type |-> "bidask", code |-> "stock",
   data |-> [bid_price |-> bids, bid_volume |-> bidVolumes,
             ask_price |-> asks, ask_volume |-> askVolumes, timestamp |-> "t1"]]

\* Two full books, a locked market, a best level without volume, a closed
\* market, missing volumes, no bids at all, a price no Price holds.
Books ==
  <<BidAsk(<<4995, 4990, 4985>>, <<3, 0, 2>>, <<5000, 5005>>, <<1, 4>>),
   BidAsk(<<4990>>, <<5>>, <<4995, 5000, 5005>>, <<2, 2, 2>>),
   BidAsk(<<5480>>, <<9>>, <<0>>, <<0>>),
   BidAsk(<<4995, 4990>>, <<0, 2>>, <<5000>>, <<3>>),
   BidAsk(<<0>>, <<0>>, <<0>>, <<0>>),
   BidAsk(<<4995, 4990>>, <<3>>, <<5000>>, <<1>>),
   BidAsk(<<>>, <<>>, <<5000>>, <<1>>),
   BidAsk(<<ValueMax + 1>>, <<1>>, <<5000>>, <<1>>)>>

Ticks ==
  <<Tick("stock", 4995, 1, "t1"), Tick("stock", 4995, 0, "t1"),
   Tick("stock", 4995, 1, "long"), Tick("stock", 4995, 1, "late"),
   Tick("other", 4995, 1, "t1"),
   [type |-> "tick", code |-> "stock", data |-> [close |-> 4995]]>>

Deal(ordno, sequence) ==
  [type |-> "order_update", event |-> "OrderState.StockDeal",
   data |-> Fields(StockDealEventData,
              [trade_id |-> "T", ordno |-> ordno, seqno |-> "S"] @@
              (IF sequence = Err THEN <<>> ELSE [exchange_seq |-> sequence]))]

StatusEvent ==
  [type |-> "order_update", event |-> "OrderState.FuturesOrder",
   data |-> [operation |-> Fields(OperationInfo, <<>>), order |-> Fields(OrderInfo, <<>>),
             status |-> Fields(OrderStatusInfo, <<>>),
             contract |-> Fields(FuturesContractInfo, <<>>)]]

Events ==
  <<Deal("N001", Err), Deal("N002", Err), Deal("N003", "X3"), StatusEvent,
   [StatusEvent EXCEPT !.event = "OrderState.StockOrder"],
   [StatusEvent EXCEPT !.event = "OrderState.Unknown"]>>

MCFrames == Books \o Ticks \o Events \o <<[type |-> "heartbeat"]>>

\* Replies to a request for bars: two rows, a column too short, a high below
\* the low, no answer, an error status; and to one for ticks, with two rows,
\* with a size of zero, with a column too short.
Bars(high, volume) ==
  [arrived |-> TRUE, status |-> 200,
   body |-> {[code |-> "stock", ts |-> <<1, 2>>, open |-> <<4990, 4995>>,
              high |-> high, low |-> <<4985, 4990>>, close |-> <<4990, 5000>>,
              volume |-> volume]}]

Trades(volume, types) ==
  [arrived |-> TRUE, status |-> 200,
   body |-> {[code |-> "stock", ts |-> <<1, 2>>, close |-> <<4990, 4995>>,
              volume |-> volume, bid_price |-> <<>>, ask_price |-> <<>>,
              tick_type |-> types]}]

MCReplies ==
  <<Bars(<<4995, 5005>>, <<10, 0>>), Bars(<<4995, 5005>>, <<10>>),
   Bars(<<4980, 5005>>, <<10, 0>>), Bars(<<4995, 5005>>, <<10, -1>>),
   [Bars(<<4995, 5005>>, <<10, 0>>) EXCEPT !.arrived = FALSE],
   [Bars(<<4995, 5005>>, <<10, 0>>) EXCEPT !.status = 500],
   [arrived |-> TRUE, status |-> 200, body |-> {[code |-> "stock"]}],
   Trades(<<1, 2>>, <<1, 2>>), Trades(<<1, 0>>, <<1, 2>>), Trades(<<1, 2>>, <<1>>)>>
=============================================================================
