----------------------------- MODULE MCOrderDesk -----------------------------
(* Instances of OrderDesk for TLC: a stock, an ETF, a future on a stock, on   *)
(* a sector index and on a metal, and an option, listed on either side of a  *)
(* band boundary.                                                            *)
EXTENDS OrderDesk, TLC

MCCodes  == {"stock", "etf", "future", "sector", "metal", "option"}
MCMarket == [c \in MCCodes |-> CASE c \in {"stock", "etf"} -> "stock"
                                 [] c \in {"future", "sector", "metal"} -> "futures"
                                 [] c = "option" -> "options"]
MCDates  == {"2026/06/17"}

\* A row: what the parsers read, the other required fields empty.
Row(required, values) == values @@ [f \in required |-> ""]

Stock(category, reference, down, up) ==
  Row(StockContract, [category |-> category, reference |-> reference,
                      limit_down |-> down, limit_up |-> up])

Future(kind, category, reference, down, up) ==
  Row(FuturesContract, [underlying_kind |-> kind, category |-> category,
                        delivery_date |-> "2026/06/17", reference |-> reference,
                        limit_down |-> down, limit_up |-> up])

Option(right, strike, reference, date) ==
  Row(OptionsContract, [underlying_kind |-> "I", category |-> "TXO",
                        option_right |-> right, strike_price |-> strike,
                        delivery_date |-> date, reference |-> reference,
                        limit_down |-> 10, limit_up |-> 3000])

\* References of 49.90, 50.50 and 505 TWD; an ETF at the same boundary; futures
\* on a stock, a sector index and a metal; options on either side of a
\* premium of 10 points. Of the rows that fail: an ETF with a limit no price
\* holds, an option without a right, one without a field.
MCListings ==
  [c \in MCCodes |->
    CASE c = "stock"  -> {Stock("24", 4990, 4495, 5480), Stock("24", 5050, 4545, 5550),
                          Stock("24", 50500, 45450, 55500)}
      [] c = "etf"    -> {Stock("00", 4990, 4491, 5485), Stock("00", 4990, 4491, ValueMax + 1)}
      [] c = "future" -> {Future("S", "CDF", 4990, 4495, 5480)}
      [] c = "sector" -> {Future("I", "ZEF", 50000, 45000, 55000)}
      [] c = "metal"  -> {Future("C", "GDF", 5000, 4500, 5500)}
      [] c = "option" -> {Option("C", 2000000, 990, "2026/06/17"),
                          Option("P", 6750, 1010, "2026/06/17"),
                          Option("X", 6750, 990, "2026/06/17"),
                          [f \in OptionsContract \ {"option_right"} |-> ""]}]

Plain == [order_lot |-> "Common", order_cond |-> "Cash", daytrade_short |-> FALSE,
          octype |-> "Auto"]

Order(code, type, tif, quantity, price, tags) ==
  [code |-> code, side |-> "Buy", type |-> type, tif |-> tif, quantity |-> quantity,
   price |-> price, tags |-> tags]

\* Every price with the plain tags, and every other parameter at one price.
PriceAsks ==
  {Order(c, "LIMIT", "DAY", 1000, p, Plain) :
     c \in MCCodes, p \in {4993, 4995, 5000, 5003, 5005, 1015, 50050}}

\* Every combination of lawful values, and one tag with each unlawful one.
Tags == [order_lot : {"Common", "IntradayOdd"}, order_cond : {"Cash", "MarginTrading"},
         daytrade_short : BOOLEAN, octype : {"Auto", "Cover"}]
  \cup {[Plain EXCEPT !.order_lot = "Odd"], [Plain EXCEPT !.order_cond = "?"],
        [Plain EXCEPT !.octype = "?"], Err}

RuleAsks ==
  {Order(c, type, tif, q, IF type = "LIMIT" THEN 5000 ELSE Err, tags) :
     c \in {"stock", "future"}, type \in {"LIMIT", "MARKET", "MARKET_TO_LIMIT"},
     tif \in {"DAY", "GTC", "IOC", "GTD"}, q \in {999, 1000}, tags \in Tags}

Conditional ==
  {Order("stock", "STOP_MARKET", "DAY", 1000, Err, Plain)}

MCFirst ==
  [c \in MCCodes |->
    CASE c = "stock"  -> Stock("24", 4990, 4495, 5480)
      [] c = "etf"    -> Stock("00", 4990, 4491, 5485)
      [] c = "future" -> Future("S", "CDF", 4990, 4495, 5480)
      [] c = "sector" -> Future("I", "ZEF", 50000, 45000, 55000)
      [] c = "metal"  -> Future("C", "GDF", 5000, 4500, 5500)
      [] c = "option" -> Option("C", 2000000, 990, "2026/06/17")]

MCAsks == PriceAsks \cup RuleAsks \cup Conditional

MCAmendments ==
  [price : {5000, 5003, 5010}, quantity : {Err}] \cup {[price |-> Err, quantity |-> 1000]}
=============================================================================
