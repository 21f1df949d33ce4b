-------------------------- MODULE OrderDesk_proofs ---------------------------
(* Theorems about OrderDesk for any contracts, listings, orders and number of *)
(* days: what goes out is lawful and on the cached grid, what is denied is    *)
(* unlawful, and no price of the day is rounded away.                        *)
EXTENDS OrderDesk, TLAPS

-----------------------------------------------------------------------------
(* The grids and the arithmetic on them                                      *)

EquityGrids == {Grid(1, 2), Grid(5, 2), Grid(10, 2), Grid(50, 2), Grid(100, 1), Grid(500, 1)}
OptionGrids == {Grid(10, 1), Grid(100, 0)}
IndexGrids  == {Grid(100, 0), Grid(5, 2), Grid(20, 1)}
Grids       == EquityGrids \cup OptionGrids \cup IndexGrids

\* Every table answers with a grid of its own, whatever the price.
LEMMA TableGrids ==
  ASSUME NEW price \in Int
  PROVE  /\ twse_stock_tick_size(price) \in EquityGrids
         /\ twse_etf_tick_size(price) \in EquityGrids
         /\ single_stock_futures_tick_size(price) \in EquityGrids
         /\ options_tick_size(price) \in OptionGrids
<1>1. twse_etf_tick_size(price) \in EquityGrids
  BY DEF twse_etf_tick_size, EquityGrids
<1>2. options_tick_size(price) \in OptionGrids
  BY DEF options_tick_size, OptionGrids
<1>3. \/ price < 1000 \/ Between(price, 1000, 5000) \/ Between(price, 5000, 10000)
      \/ Between(price, 10000, 50000) \/ Between(price, 50000, 100000)
      \/ price >= 100000
  BY DEF Between
<1>4. twse_stock_tick_size(price) \in EquityGrids
  BY <1>3 DEF twse_stock_tick_size, EquityGrids, Between
<1>5. single_stock_futures_tick_size(price) \in EquityGrids
  BY <1>3 DEF single_stock_futures_tick_size, EquityGrids, Between
<1>. QED  BY <1>1, <1>2, <1>4, <1>5

\* The second copy of the stock table is a copy.
LEMMA SameTable ==
  ASSUME NEW price \in Int
  PROVE  single_stock_futures_tick_size(price) = twse_stock_tick_size(price)
  BY DEF single_stock_futures_tick_size, twse_stock_tick_size

\* The products no equity table prices.
LEMMA ProductGrids ==
  ASSUME NEW row, row.underlying_kind \notin {"S", "E"}
  PROVE  futures_tick_for_contract(row) \in IndexGrids
<1>1. futures_tick_for_contract(row)
        = IF row.underlying_kind = "I" THEN index_futures_tick_size(row.category)
                                       ELSE DefaultGrid
  BY DEF futures_tick_for_contract
<1>2. index_futures_tick_size(row.category) \in IndexGrids
  BY DEF index_futures_tick_size, IndexGrids, DefaultGrid
<1>. QED  BY <1>1, <1>2 DEF DefaultGrid, IndexGrids

\* A tick is positive and a multiple of the unit prices are kept in.
LEMMA GridFields ==
  ASSUME NEW g \in Grids
  PROVE  /\ g.tick \in {1, 5, 10, 20, 50, 100, 500} /\ g.precision \in 0 .. 2
         /\ Unit(g.precision) \in {1, 10, 100}
         /\ g.tick % Unit(g.precision) = 0
  BY DEF Grids, EquityGrids, OptionGrids, IndexGrids, Grid, Unit

\* Snapping answers with a multiple of the tick no further away than half of it.
Nearest(snapped, price, tick) ==
  /\ snapped \in Nat /\ snapped % tick = 0
  /\ 2 * (snapped - price) <= tick /\ 2 * (price - snapped) <= tick

LEMMA SnapNearest ==
  ASSUME NEW price \in Nat, NEW tick \in {1, 5, 10, 20, 50, 100, 500}
  PROVE  Nearest(_snap_price_to_grid(price, tick), price, tick)
<1>1. CASE tick = 1   BY <1>1 DEF _snap_price_to_grid, NearestEven, Nearest
<1>2. CASE tick = 5   BY <1>2 DEF _snap_price_to_grid, NearestEven, Nearest
<1>3. CASE tick = 10  BY <1>3 DEF _snap_price_to_grid, NearestEven, Nearest
<1>4. CASE tick = 20  BY <1>4 DEF _snap_price_to_grid, NearestEven, Nearest
<1>5. CASE tick = 50  BY <1>5 DEF _snap_price_to_grid, NearestEven, Nearest
<1>6. CASE tick = 100 BY <1>6 DEF _snap_price_to_grid, NearestEven, Nearest
<1>7. CASE tick = 500 BY <1>7 DEF _snap_price_to_grid, NearestEven, Nearest
<1>. QED  BY <1>1, <1>2, <1>3, <1>4, <1>5, <1>6, <1>7

\* Rounding changes nothing that is a multiple of the unit.
LEMMA RoundedExact ==
  ASSUME NEW price \in Nat, NEW precision \in 0 .. 2, price % Unit(precision) = 0
  PROVE  Rounded(price, precision) = price
<1>1. CASE precision = 0  BY <1>1 DEF Rounded, Unit
<1>2. CASE precision = 1  BY <1>2 DEF Rounded, Unit
<1>3. CASE precision = 2  BY <1>3 DEF Rounded, Unit
<1>. QED  BY <1>1, <1>2, <1>3

\* What is on a grid has no more decimals than the grid keeps.
LEMMA GridExact ==
  ASSUME NEW g \in Grids, NEW price \in Nat, price % g.tick = 0
  PROVE  Rounded(price, g.precision) = price
<1>1. price % Unit(g.precision) = 0
  BY DEF Grids, EquityGrids, OptionGrids, IndexGrids, Grid, Unit
<1>. QED  BY <1>1, GridFields, RoundedExact

\* The ticks of one family form a chain: each divides the coarser ones.
LEMMA TickChain ==
  ASSUME NEW g \in EquityGrids \cup OptionGrids, NEW h \in EquityGrids \cup OptionGrids,
         NEW price \in Nat, price % g.tick = 0, h.tick <= g.tick
  PROVE  price % h.tick = 0
  BY DEF EquityGrids, OptionGrids, Grid

-----------------------------------------------------------------------------
(* What the provider caches                                                  *)

\* The instrument a contract becomes, and the grid of its kind of contract. A
\* future no equity table prices has the tick of its product on every day.
Class(market) ==
  CASE market = "stock"   -> "Equity"
    [] market = "futures" -> "FuturesContract"
    [] market = "options" -> "OptionContract"

Priced(c, row, g) ==
  CASE Market[c] = "stock"   -> g \in EquityGrids
    [] Market[c] = "options" -> g \in OptionGrids
    [] Market[c] = "futures" ->
         IF row.underlying_kind \in {"S", "E"} THEN g \in EquityGrids
                                               ELSE g = futures_tick_for_contract(row)

GoodInstrument(c, i) ==
  /\ i.class = Class(Market[c])
  /\ \A row \in Listings[c] : Priced(c, row, Grid(i.increment, i.precision))

\* Class and grid of a future or an option are those the builder was called with.
LEMMA DerivativeFields ==
  ASSUME NEW row, NEW class, NEW g, NEW times,
         Derivative(row, class, g, times) # Err
  PROVE  LET i == Derivative(row, class, g, times)
         IN /\ i.class = class /\ i.increment = g.tick /\ i.precision = g.precision
            /\ {"class", "increment", "precision"} \subseteq DOMAIN i
  BY DEF Derivative

\* The grid the builders give a contract of each list.
GridOf(market, row) ==
  CASE market = "stock"   -> (IF row.category = "00" THEN twse_etf_tick_size(row.reference)
                                                    ELSE twse_stock_tick_size(row.reference))
    [] market = "futures" -> futures_tick_for_contract(row)
    [] market = "options" -> options_tick_size(row.reference)

LEMMA InstrumentFields ==
  ASSUME NEW market \in SinopacMarket, NEW row, Instrument(market, row) # Err
  PROVE  LET i == Instrument(market, row)
         IN /\ i.class = Class(market)
            /\ i.increment = GridOf(market, row).tick
            /\ i.precision = GridOf(market, row).precision
<1>1. CASE market = "stock"
  BY <1>1 DEF Instrument, Class, GridOf, parse_stock_to_equity
<1>2. CASE market = "futures"
  <2>1. Instrument(market, row)
          = Derivative(row, "FuturesContract", GridOf(market, row),
                       multiplier(row, futures_multiplier(row.category)))
    BY <1>2 DEF Instrument, GridOf, parse_futures_to_contract
  <2>. QED  BY <1>2, <2>1, DerivativeFields DEF Class
<1>3. CASE market = "options"
  <2>. DEFINE common == Derivative(row, "OptionContract", GridOf(market, row),
                                   multiplier(row, options_multiplier(row.category)))
              strike == try_price(row.strike_price, strike_precision(row.strike_price))
  <2>1. Instrument(market, row)
          = IF row.option_right \notin {"C", "P"} \/ common = Err \/ strike = Err
              THEN Err
              ELSE [f \in DOMAIN common \cup {"kind", "strike"} |->
                      CASE f = "kind" -> row.option_right
                        [] f = "strike" -> strike
                        [] OTHER -> common[f]]
    BY <1>3 DEF Instrument, GridOf, parse_options_to_contract
  <2>2. common # Err
    BY <2>1
  <2>3. /\ common.class = "OptionContract"
        /\ common.increment = GridOf(market, row).tick
        /\ common.precision = GridOf(market, row).precision
        /\ {"class", "increment", "precision"} \subseteq DOMAIN common
    BY <2>2, DerivativeFields
  <2>. HIDE DEF common, strike
  <2>4. \A f \in {"class", "increment", "precision"} :
          Instrument(market, row)[f] = common[f]
    BY <2>1, <2>3
  <2>. QED  BY <1>3, <2>3, <2>4 DEF Class
<1>. QED  BY <1>1, <1>2, <1>3 DEF SinopacMarket

\* A row that decodes and parses becomes an instrument of its list, on a grid of
\* its kind, whichever row of the contract is asked.
LEMMA GoodParse ==
  ASSUME NEW c \in Codes, NEW row \in Listings[c],
         Decodes(row, Required(Market[c])), Instrument(Market[c], row) # Err
  PROVE  GoodInstrument(c, Instrument(Market[c], row))
<1>. DEFINE i == Instrument(Market[c], row)
            g == GridOf(Market[c], row)
<1>1. Market[c] \in SinopacMarket
  BY DeskAssumption
<1>2. row.reference \in Int
  BY ListingAssumption
<1>3. i.class = Class(Market[c]) /\ i.increment = g.tick /\ i.precision = g.precision
  BY <1>1, InstrumentFields
<1>4. g \in Grids /\ Grid(g.tick, g.precision) = g
  <2>1. CASE Market[c] = "stock"
    BY <1>2, <2>1, TableGrids DEF GridOf, EquityGrids, Grids, Grid
  <2>2. CASE Market[c] = "options"
    BY <1>2, <2>2, TableGrids DEF GridOf, OptionGrids, Grids, Grid
  <2>3. CASE Market[c] = "futures"
    <3>1. CASE row.underlying_kind \in {"S", "E"}
      BY <1>2, <2>3, <3>1, TableGrids
         DEF GridOf, futures_tick_for_contract, EquityGrids, Grids, Grid
    <3>2. CASE row.underlying_kind \notin {"S", "E"}
      BY <2>3, <3>2, ProductGrids DEF GridOf, IndexGrids, Grids, Grid
    <3>. QED  BY <3>1, <3>2
  <2>. QED  BY <1>1, <2>1, <2>2, <2>3 DEF SinopacMarket
<1>5. ASSUME NEW other \in Listings[c]
      PROVE  Priced(c, other, g)
  <2>1. CASE Market[c] = "stock"
    BY <1>2, <2>1, TableGrids DEF GridOf, Priced
  <2>2. CASE Market[c] = "options"
    BY <1>2, <2>2, TableGrids DEF GridOf, Priced
  <2>3. CASE Market[c] = "futures"
    <3>1. row.underlying_kind = other.underlying_kind /\ row.category = other.category
      BY <2>3, ListingAssumption
    <3>2. CASE row.underlying_kind \in {"S", "E"}
      BY <1>2, <2>3, <3>1, <3>2, TableGrids DEF GridOf, Priced, futures_tick_for_contract
    <3>3. CASE row.underlying_kind \notin {"S", "E"}
      BY <2>3, <3>1, <3>3 DEF GridOf, Priced, futures_tick_for_contract
    <3>. QED  BY <3>2, <3>3
  <2>. QED  BY <1>1, <2>1, <2>2, <2>3 DEF SinopacMarket
<1>. QED
  <2>1. Grid(i.increment, i.precision) = g
    BY <1>3, <1>4
  <2>. QED  BY <1>3, <1>5, <2>1 DEF GoodInstrument

\* A good instrument is on some grid.
LEMMA GoodGrid ==
  ASSUME NEW c \in Codes, NEW row \in Listings[c], NEW i, GoodInstrument(c, i)
  PROVE  Grid(i.increment, i.precision) \in Grids
<1>1. Priced(c, row, Grid(i.increment, i.precision)) /\ Market[c] \in SinopacMarket
  BY DeskAssumption DEF GoodInstrument
<1>2. row.underlying_kind \notin {"S", "E"} => futures_tick_for_contract(row) \in Grids
  BY ProductGrids DEF Grids
<1>. QED  BY <1>1, <1>2 DEF Priced, Grids, SinopacMarket

-----------------------------------------------------------------------------
(* Tickets                                                                   *)

\* The market of a ticket is the list its contract came from.
LEMMA MarketOf ==
  ASSUME NEW order \in Asks, cache[order.code] # None,
         GoodInstrument(order.code, cache[order.code])
  PROVE  MarketFor(order) = Market[order.code]
<1>1. order.code \in Codes
  BY OrderAssumption
<1>2. /\ Market[order.code] \in SinopacMarket
      /\ cache[order.code].class = Class(Market[order.code])
  BY <1>1, DeskAssumption DEF GoodInstrument
<1>. QED  BY <1>2 DEF MarketFor, _determine_market, Class, SinopacMarket

LEMMA PriceTypes ==
  ASSUME NEW type \in {"LIMIT"} \cup _MARKETABLE_ORDER_TYPES
  PROVE  /\ _NT_TO_SINOPAC_PRICE_TYPE(type) \in SinopacPriceType
         /\ _NT_TO_SINOPAC_PRICE_TYPE(type) = "LMT" <=> type = "LIMIT"
  BY DEF _NT_TO_SINOPAC_PRICE_TYPE, _MARKETABLE_ORDER_TYPES, SinopacPriceType

LEMMA OrderTypes ==
  ASSUME NEW type, NEW tif, _resolve_order_type(type, tif) # Err
  PROVE  /\ _resolve_order_type(type, tif) \in SinopacOrderType
         /\ type \in _MARKETABLE_ORDER_TYPES => _resolve_order_type(type, tif) \in {"IOC", "FOK"}
         /\ type \notin _MARKETABLE_ORDER_TYPES /\ tif \notin {"IOC", "FOK"} =>
              _resolve_order_type(type, tif) = "ROD"
  BY DEF _resolve_order_type, SinopacOrderType

LEMMA TicketLawful ==
  ASSUME NEW order \in Asks, cache[order.code] # None,
         GoodInstrument(order.code, cache[order.code]), ~Refuses(order)
  PROVE  Lawful(Ticket(order))
<1>. DEFINE t == Ticket(order)
<1>1. /\ order.type \in {"LIMIT"} \cup _MARKETABLE_ORDER_TYPES
      /\ t.code = order.code /\ t.market = Market[order.code] /\ t.quantity = order.quantity
      /\ t.price_type = _NT_TO_SINOPAC_PRICE_TYPE(order.type)
      /\ t.order_type = _resolve_order_type(order.type, order.tif) /\ t.order_type # Err
      /\ t.order_cond = order.tags.order_cond /\ t.order_lot = order.tags.order_lot
      /\ t.daytrade_short = order.tags.daytrade_short
      /\ t.market = "stock" => t.octype = "Auto"
      /\ _validate_and_map_tags(order.tags, t.market, t.price_type, t.order_type, t.quantity)
  BY OrderAssumption, MarketOf DEF Ticket, Refuses
<1>2. t.quantity \in Nat
  BY <1>1, OrderAssumption
<1>3. t.price_type # "LMT" => t.order_type \in {"IOC", "FOK"}
  BY <1>1, PriceTypes, OrderTypes
<1>4. t.market = Market[t.code] /\ t.order_lot \in {"Common", "IntradayOdd"}
  BY <1>1 DEF _validate_and_map_tags, _resolve_tag_enums
<1>5. ASSUME t.market = "stock"
      PROVE  /\ t.price_type # "MKP" /\ t.octype = "Auto"
             /\ t.daytrade_short => t.order_cond = "Cash"
             /\ t.order_lot = "Common" => t.quantity % 1000 = 0
             /\ t.order_lot = "IntradayOdd" =>
                  /\ t.price_type = "LMT" /\ t.order_type = "ROD" /\ t.order_cond = "Cash"
                  /\ t.quantity > 0 /\ t.quantity < 1000
  <2>1. /\ t.price_type # "MKP" /\ t.octype = "Auto"
        /\ _validate_stock_lot_rules(order.tags, t.price_type, t.order_type, t.quantity)
    BY <1>1, <1>5 DEF _validate_and_map_tags
  <2>2. /\ t.daytrade_short => t.order_cond = "Cash"
        /\ t.order_lot = "Common" => t.quantity % 1000 = 0
        /\ t.order_lot = "IntradayOdd" =>
             /\ t.price_type = "LMT" /\ t.order_type = "ROD" /\ t.order_cond = "Cash"
             /\ t.quantity \in 1 .. 999
    BY <1>1, <2>1 DEF _validate_stock_lot_rules
  <2>3. t.quantity \in 1 .. 999 => t.quantity > 0 /\ t.quantity < 1000
    BY <1>2
  <2>. QED  BY <2>1, <2>2, <2>3
<1>. HIDE DEF t
<1>. QED  BY <1>3, <1>4, <1>5 DEF Lawful, t

\* The price of a ticket with a limit: the nearest on the cached grid, and the
\* rounding to the instrument's decimals that follows changes nothing.
LEMMA TicketPrice ==
  ASSUME NEW order \in Asks, cache[order.code] # None, NEW row \in Listings[order.code],
         GoodInstrument(order.code, cache[order.code]), ~Refuses(order)
  PROVE  /\ Ticket(order).price \in Nat
         /\ Ticket(order).price_type = "LMT" =>
              /\ order.price \in Nat
              /\ Nearest(Ticket(order).price, order.price, cache[order.code].increment)
<1>. DEFINE i == cache[order.code]
            g == Grid(i.increment, i.precision)
            snapped == _snap_price_to_grid(order.price, i.increment)
<1>1. /\ order.code \in Codes /\ order.price \in Nat \cup {Err}
      /\ order.type \in {"LIMIT"} \cup _MARKETABLE_ORDER_TYPES
      /\ order.type = "LIMIT" => order.price # Err
  BY OrderAssumption DEF Refuses
<1>2. g \in Grids /\ g.tick = i.increment /\ g.precision = i.precision /\ i # None
  BY <1>1, GoodGrid DEF Grid
<1>3. i.increment \in {1, 5, 10, 20, 50, 100, 500}
  BY <1>2, GridFields
<1>4. /\ Ticket(order).price = _resolve_send_price(order, i)
      /\ Ticket(order).price_type = _NT_TO_SINOPAC_PRICE_TYPE(order.type)
  BY DEF Ticket
<1>5. Ticket(order).price_type = "LMT" => order.price # Err
  BY <1>1, <1>4, PriceTypes
<1>. HIDE DEF i, g
<1>6. CASE order.price = Err
  <2>1. Ticket(order).price = 0
    BY <1>4, <1>6 DEF _resolve_send_price
  <2>. QED  BY <1>5, <1>6, <2>1
<1>7. CASE order.price # Err
  <2>1. order.price \in Nat
    BY <1>1, <1>7
  <2>2. Nearest(snapped, order.price, i.increment)
    BY <1>3, <2>1, SnapNearest
  <2>. HIDE DEF snapped
  <2>3. snapped \in Nat /\ snapped % g.tick = 0
    BY <1>2, <2>2 DEF Nearest
  <2>4. Rounded(snapped, g.precision) = snapped
    BY <1>2, <2>3, GridExact
  <2>5. ~(i = None \/ i.increment <= 0)
    BY <1>2, <1>3
  <2>6. Ticket(order).price = snapped
    BY <1>2, <1>4, <1>7, <2>4, <2>5 DEF _resolve_send_price, snapped
  <2>. QED  BY <2>1, <2>2, <2>3, <2>6 DEF i
<1>. QED  BY <1>6, <1>7

LEMMA TicketTyped ==
  ASSUME NEW order \in Asks, cache[order.code] # None, NEW row \in Listings[order.code],
         GoodInstrument(order.code, cache[order.code]), ~Refuses(order)
  PROVE  Ticket(order) \in PlaceOrderRequest(Codes)
<1>1. /\ order.type \in {"LIMIT"} \cup _MARKETABLE_ORDER_TYPES
      /\ _resolve_order_type(order.type, order.tif) # Err
      /\ MarketFor(order) = Market[order.code]
      /\ _validate_and_map_tags(order.tags, MarketFor(order),
                                _NT_TO_SINOPAC_PRICE_TYPE(order.type),
                                _resolve_order_type(order.type, order.tif), order.quantity)
  BY OrderAssumption, MarketOf DEF Refuses
<1>2. order.code \in Codes /\ order.side \in SinopacAction /\ order.quantity \in Nat
      /\ (order.tags # Err => order.tags.daytrade_short \in BOOLEAN)
      /\ Market[order.code] \in SinopacMarket
  BY OrderAssumption, DeskAssumption
<1>3. _resolve_send_price(order, cache[order.code]) \in Int
  BY <1>1, TicketPrice DEF Ticket
<1>4. _NT_TO_SINOPAC_PRICE_TYPE(order.type) \in SinopacPriceType
  BY <1>1, PriceTypes
<1>5. _resolve_order_type(order.type, order.tif) \in SinopacOrderType
  BY <1>1, OrderTypes
<1>6. /\ order.tags # Err /\ order.tags.order_lot \in SinopacOrderLot
      /\ order.tags.order_cond \in SinopacOrderCond
      /\ order.tags.octype \in SinopacOCType /\ "Auto" \in SinopacOCType
  BY <1>1 DEF _validate_and_map_tags, _resolve_tag_enums, SinopacOrderLot, SinopacOCType
<1>. QED  BY <1>1, <1>2, <1>3, <1>4, <1>5, <1>6 DEF PlaceOrderRequest, Ticket

\* What is refused has broken a rule of its own.
LEMMA DeniedUnlawful ==
  ASSUME NEW order \in Asks, cache[order.code] # None,
         GoodInstrument(order.code, cache[order.code]), Refuses(order),
         order.tags # Err, order.type \notin _CONDITIONAL_ORDER_TYPES,
         order.tif \in {"DAY", "GTC", "IOC", "FOK"}, Documented(order.tags),
         NEW t, t.code = order.code, t.quantity = order.quantity,
         t.price_type = _NT_TO_SINOPAC_PRICE_TYPE(order.type), t.market = Market[order.code],
         t.order_cond = order.tags.order_cond, t.order_lot = order.tags.order_lot,
         t.daytrade_short = order.tags.daytrade_short,
         order.tif \in {"IOC", "FOK"} => t.order_type = order.tif
  PROVE  ~Lawful(t)
<1>. DEFINE price_type == _NT_TO_SINOPAC_PRICE_TYPE(order.type)
            order_type == _resolve_order_type(order.type, order.tif)
<1>1. /\ order.code \in Codes /\ order.quantity \in Nat
      /\ order.type \in {"LIMIT"} \cup _MARKETABLE_ORDER_TYPES
  BY OrderAssumption
<1>2. order_type # Err /\ (order.tif \in {"IOC", "FOK"} => order_type = order.tif)
      /\ (order.type = "LIMIT" /\ order.tif \notin {"IOC", "FOK"} => order_type = "ROD")
  BY DeskAssumption DEF _resolve_order_type, _MARKETABLE_ORDER_TYPES, SinopacOrderType
<1>3. ~_validate_and_map_tags(order.tags, Market[order.code], price_type, order_type,
                              order.quantity)
  BY <1>1, <1>2, MarketOf DEF Refuses
<1>4. _resolve_tag_enums(order.tags)
  BY DEF Documented, _resolve_tag_enums, SinopacOrderCond, SinopacOCType
<1>5. /\ Market[order.code] = "stock"
      /\ \/ price_type = "MKP"
         \/ ~_validate_stock_lot_rules(order.tags, price_type, order_type, order.quantity)
  BY <1>3, <1>4 DEF _validate_and_map_tags
<1>6. SUFFICES ASSUME Lawful(t) PROVE FALSE
  OBVIOUS
<1>7. /\ t.price_type # "MKP"
      /\ t.daytrade_short => t.order_cond = "Cash"
      /\ t.order_lot = "Common" => t.quantity % 1000 = 0
      /\ t.order_lot = "IntradayOdd" =>
           /\ t.price_type = "LMT" /\ t.order_type = "ROD" /\ t.order_cond = "Cash"
           /\ t.quantity > 0 /\ t.quantity < 1000
  BY <1>5, <1>6 DEF Lawful
<1>8. price_type = "LMT" => order.type = "LIMIT"
  BY <1>1, PriceTypes
<1>9. ASSUME order.tags.order_lot = "IntradayOdd"
      PROVE  /\ price_type = "LMT" /\ order_type = "ROD" /\ order.tags.order_cond = "Cash"
             /\ order.quantity \in 1 .. 999
  <2>1. /\ price_type = "LMT" /\ t.order_type = "ROD" /\ order.tags.order_cond = "Cash"
        /\ order.quantity > 0 /\ order.quantity < 1000
    BY <1>7, <1>9
  <2>2. order_type = "ROD"
    BY <1>2, <1>8, <2>1
  <2>3. order.quantity \in 1 .. 999
    <3>1. \A n \in Nat : n > 0 /\ n < 1000 => n \in 1 .. 999
      OBVIOUS
    <3>. QED  BY <1>1, <2>1, <3>1
  <2>. QED  BY <2>1, <2>2, <2>3
<1>10. _validate_stock_lot_rules(order.tags, price_type, order_type, order.quantity)
  BY <1>7, <1>9 DEF _validate_stock_lot_rules
<1>. QED  BY <1>5, <1>7, <1>10

-----------------------------------------------------------------------------
(* The invariant: what is cached is good, and the order followed was judged  *)
(* by the cache that is still there.                                         *)

Basics ==
  /\ listing \in [Codes -> UNION {Listings[c] : c \in Codes}]
  /\ \A c \in Codes : listing[c] \in Listings[c]
  /\ day \in 0 .. MaxDays /\ outage \subseteq SinopacMarket /\ loaded \in BOOLEAN
  /\ status \in {"idle", "denied", "placing", "open", "rejected"}
  /\ asked = None \/ asked \in Asks
  /\ sent \in Int \cup {None}
  /\ call \in {None, "place", "update"}

CacheGood == \A c \in Codes : cache[c] # None => GoodInstrument(c, cache[c])

Judged ==
  /\ status # "idle" => loaded /\ asked \in Asks /\ cache[asked.code] # None
  /\ status = "denied" => Refuses(asked)
  /\ call # None => status # "idle"
  /\ ticket # None => status # "idle" /\ ~Refuses(asked) /\ ticket = Ticket(asked)

DeskInv == Basics /\ CacheGood /\ Judged

\* Neither verdict nor ticket changes while order and cache stay.
LEMMA VerdictStays ==
  ASSUME NEW order, asked' = order, cache' = cache
  PROVE  Refuses(asked)' = Refuses(order) /\ Ticket(asked)' = Ticket(order)
  BY DEF Refuses, Ticket, MarketFor

LEMMA DeskInit == Init => DeskInv
<1>. SUFFICES ASSUME Init PROVE DeskInv
  OBVIOUS
<1>1. Basics
  <2>1. listing \in [Codes -> UNION {Listings[c] : c \in Codes}]
        /\ \A c \in Codes : listing[c] \in Listings[c]
    BY DeskAssumption DEF Init
  <2>2. day \in 0 .. MaxDays
    BY DeskAssumption DEF Init
  <2>. QED  BY <2>1, <2>2 DEF Init, Basics
<1>2. CacheGood
  BY DEF Init, CacheGood
<1>3. Judged
  BY DEF Init, Judged
<1>. QED  BY <1>1, <1>2, <1>3 DEF DeskInv

\* A load caches what decodes and parses of today's listing.
LEMMA LoadGood ==
  ASSUME Basics, LoadAll
  PROVE  CacheGood'
<1>. SUFFICES ASSUME NEW c \in Codes, cache'[c] # None
              PROVE  GoodInstrument(c, cache'[c])
  BY DEF CacheGood
<1>. DEFINE m   == Market[c]
            got == [k \in SinopacMarket |-> request_instruments(k, ListReply(k))]
<1>1. m \in SinopacMarket /\ listing[c] \in Listings[c]
  BY DeskAssumption DEF Basics
<1>2. cache' = [x \in Codes |-> IF x \in LoadedBy(got) THEN Instrument(Market[x], listing[x])
                                                     ELSE None]
  BY DEF LoadAll
<1>3. c \in LoadedBy(got) /\ cache'[c] = Instrument(m, listing[c])
  BY <1>2
<1>4. got[m] # Err /\ c \in got[m]
  BY <1>3 DEF LoadedBy
<1>5. got[m] = request_instruments(m, ListReply(m))
  BY <1>1
<1>6. Answer(ListReply(m), Required(m)) # Err /\ Instrument(m, listing[c]) # Err
  <2>. HIDE DEF got
  <2>. QED  BY <1>4, <1>5 DEF request_instruments
<1>7. Decodes(listing[c], Required(m))
  <2>1. ListReply(m).body = {listing[x] : x \in {y \in Codes : Market[y] = m}}
    BY DEF ListReply
  <2>2. \A row \in ListReply(m).body : Decodes(row, Required(m))
    BY <1>6 DEF Answer
  <2>. QED  BY <2>1, <2>2
<1>. QED  BY <1>1, <1>3, <1>6, <1>7, GoodParse

LEMMA DeskStep == DeskInv /\ [Next]_vars => DeskInv'
<1>. SUFFICES ASSUME DeskInv, [Next]_vars PROVE DeskInv'
  OBVIOUS
<1>. USE DEF DeskInv
<1>1. CASE LoadAll
  <2>1. Basics'
    BY <1>1 DEF LoadAll, Basics, orderVars
  <2>2. Judged'
    BY <1>1 DEF LoadAll, Judged, orderVars
  <2>. QED  BY <1>1, <2>1, <2>2, LoadGood
<1>2. ASSUME NEW c \in Codes, NEW row \in Listings[c], Relist(c, row)
      PROVE  DeskInv'
  <2>1. Basics'
    BY <1>2, DeskAssumption DEF Relist, Basics, orderVars
  <2>2. CacheGood'
    BY <1>2 DEF Relist, CacheGood
  <2>3. Judged'
    BY <1>2, VerdictStays DEF Relist, Judged, orderVars
  <2>. QED  BY <2>1, <2>2, <2>3
<1>3. CASE Restart
  <2>1. Basics'
    BY <1>3 DEF Restart, Basics
  <2>2. CacheGood'
    BY <1>3 DEF Restart, CacheGood
  <2>3. Judged'
    BY <1>3 DEF Restart, Judged
  <2>. QED  BY <2>1, <2>2, <2>3
<1>4. ASSUME NEW order \in Asks, Submit(order)
      PROVE  DeskInv'
  <2>1. order.code \in Codes /\ cache[order.code] # None /\ asked' = order /\ cache' = cache
    BY <1>4, OrderAssumption DEF Submit, RiskEngineAdmits
  <2>2. CacheGood'
    BY <2>1 DEF CacheGood
  <2>3. Judged'
    BY <1>4, <2>1, VerdictStays DEF Submit, Judged
  <2>4. ~Refuses(order) => Ticket(order).price \in Int
    <3>1. listing[order.code] \in Listings[order.code]
          /\ GoodInstrument(order.code, cache[order.code])
      BY <2>1 DEF Basics, CacheGood
    <3>. QED  BY <2>1, <3>1, TicketPrice
  <2>5. Basics'
    BY <1>4, <2>4 DEF Submit, Basics
  <2>. QED  BY <2>2, <2>3, <2>5
<1>5. CASE PlaceReturns
  <2>1. /\ UNCHANGED <<listing, day, outage, loaded, cache, asked, ticket, sent>>
        /\ status' \in {"rejected", "open"} /\ call = "place" /\ call' = None
    <3>1. ASSUME NEW arrived, NEW code, NEW fields, NEW answer
          PROVE  PlacedAs(arrived, code, fields, answer) \in {"rejected", "open"}
      BY Zenon DEF PlacedAs
    <3>2. PICK arrived \in BOOLEAN, code \in {200, 422}, answer \in {"Submitted", "Failed"},
               fields \in {PlaceOrderResponse, PlaceOrderResponse \ {"trade_id"}} :
            status' = PlacedAs(arrived, code, fields, answer)
      BY <1>5, Zenon DEF PlaceReturns
    <3>3. status' \in {"rejected", "open"}
      BY <3>1, <3>2
    <3>4. /\ UNCHANGED <<listing, day, outage, loaded, cache, asked, ticket, sent>>
          /\ call = "place" /\ call' = None
      BY <1>5, Zenon DEF PlaceReturns
    <3>. QED  BY <3>3, <3>4
  <2>2. Basics'
    BY <2>1 DEF Basics
  <2>3. CacheGood'
    BY <2>1 DEF CacheGood
  <2>4. Judged'
    BY <2>1, VerdictStays, DeskAssumption DEF Judged
  <2>. QED  BY <2>2, <2>3, <2>4
<1>6. ASSUME NEW change \in Amendments, ModifyOrder(change)
      PROVE  DeskInv'
  <2>1. /\ UNCHANGED <<listing, day, outage, loaded, cache, status, asked, ticket>>
        /\ status = "open" /\ call' = "update"
        /\ sent' = IF change.price # Err THEN change.price ELSE sent
    BY <1>6 DEF ModifyOrder
  <2>2. Basics'
    BY <2>1, OrderAssumption DEF Basics
  <2>3. CacheGood'
    BY <2>1 DEF CacheGood
  <2>4. Judged'
    BY <2>1, VerdictStays DEF Judged
  <2>. QED  BY <2>2, <2>3, <2>4
<1>7. CASE UpdateReturns
  <2>1. UNCHANGED <<listing, day, outage, loaded, cache, status, asked, ticket, sent>>
        /\ call' = None
    BY <1>7 DEF UpdateReturns
  <2>2. Basics'
    BY <2>1 DEF Basics
  <2>3. CacheGood'
    BY <2>1 DEF CacheGood
  <2>4. Judged'
    BY <2>1, VerdictStays DEF Judged
  <2>. QED  BY <2>2, <2>3, <2>4
<1>8. CASE OrderEnds
  <2>1. UNCHANGED <<listing, day, outage, loaded, cache, call>> /\ call = None
        /\ status' = "idle" /\ asked' = None /\ ticket' = None /\ sent' = None
    BY <1>8 DEF OrderEnds
  <2>2. Basics'
    BY <2>1 DEF Basics
  <2>3. CacheGood'
    BY <2>1 DEF CacheGood
  <2>4. Judged'
    BY <2>1 DEF Judged
  <2>. QED  BY <2>2, <2>3, <2>4
<1>9. CASE UNCHANGED vars
  <2>1. Basics'
    BY <1>9 DEF Basics, vars
  <2>2. CacheGood'
    BY <1>9 DEF CacheGood, vars
  <2>3. Judged'
    BY <1>9, VerdictStays DEF Judged, vars
  <2>. QED  BY <2>1, <2>2, <2>3
<1>. QED
  BY <1>1, <1>2, <1>3, <1>4, <1>5, <1>6, <1>7, <1>8, <1>9 DEF Next

LEMMA DeskInvariant == Spec => []DeskInv
  BY DeskInit, DeskStep, PTL DEF Spec

-----------------------------------------------------------------------------
(* The theorems                                                              *)

(* Every state of the desk is typed: what is cached lies on a grid whose tick *)
(* its decimals can express, and what is sent is a well-formed request.       *)
THEOREM TypeCorrect == Spec => []TypeOK
<1>1. DeskInv => TypeOK
  <2>. SUFFICES ASSUME DeskInv PROVE TypeOK
    OBVIOUS
  <2>1. Basics /\ CacheGood /\ Judged
    BY DEF DeskInv
  <2>2. ASSUME NEW c \in Codes, cache[c] # None
        PROVE  /\ cache[c].increment \in Int /\ cache[c].increment > 0
               /\ cache[c].precision \in 0 .. 2
               /\ cache[c].increment % Unit(cache[c].precision) = 0
    <3>. DEFINE g == Grid(cache[c].increment, cache[c].precision)
    <3>1. g.tick = cache[c].increment /\ g.precision = cache[c].precision
      BY DEF Grid
    <3>2. g \in Grids
      BY <2>1, <2>2, GoodGrid DEF Basics, CacheGood
    <3>. HIDE DEF g
    <3>3. /\ g.tick \in {1, 5, 10, 20, 50, 100, 500} /\ g.precision \in 0 .. 2
          /\ g.tick % Unit(g.precision) = 0
      BY <3>2, GridFields
    <3>. QED  BY <3>1, <3>3
  <2>3. ticket = None \/ ticket \in PlaceOrderRequest(Codes)
    <3>. SUFFICES ASSUME ticket # None PROVE ticket \in PlaceOrderRequest(Codes)
      OBVIOUS
    <3>1. /\ asked \in Asks /\ asked.code \in Codes /\ cache[asked.code] # None
          /\ ~Refuses(asked) /\ ticket = Ticket(asked)
      BY <2>1, OrderAssumption DEF Judged
    <3>2. /\ listing[asked.code] \in Listings[asked.code]
          /\ GoodInstrument(asked.code, cache[asked.code])
      BY <2>1, <3>1 DEF Basics, CacheGood
    <3>. QED  BY <3>1, <3>2, TicketTyped
  <2>. QED  BY <2>1, <2>2, <2>3 DEF Basics, TypeOK
<1>. QED  BY <1>1, DeskInvariant, PTL

(* A ticket that goes out is lawful, whatever was ordered: no combination of  *)
(* type, time in force, tags and quantity slips through the rules of          *)
(* _submit_order, and it goes to the market its contract is listed on.        *)
THEOREM LawfulCorrect == Spec => []SentIsLawful
<1>1. DeskInv => SentIsLawful
  <2>. SUFFICES ASSUME DeskInv, ticket # None PROVE Lawful(ticket)
    BY DEF SentIsLawful
  <2>1. /\ asked \in Asks /\ asked.code \in Codes /\ cache[asked.code] # None
        /\ ~Refuses(asked) /\ ticket = Ticket(asked)
    BY OrderAssumption DEF DeskInv, Judged
  <2>2. GoodInstrument(asked.code, cache[asked.code])
    BY <2>1 DEF DeskInv, CacheGood
  <2>. QED  BY <2>1, <2>2, TicketLawful
<1>. QED  BY <1>1, DeskInvariant, PTL

(* An order that is denied locally would be unlawful however the client sent  *)
(* it: the local rules are no stricter than the venue's.                      *)
THEOREM DeniedCorrect == Spec => []OnlyUnlawfulDenied
<1>1. DeskInv => OnlyUnlawfulDenied
  <2>. SUFFICES ASSUME DeskInv, status = "denied", asked.tags # Err,
                       asked.type \notin _CONDITIONAL_ORDER_TYPES,
                       asked.tif \in {"DAY", "GTC", "IOC", "FOK"}, Documented(asked.tags),
                       NEW tif, NEW octype,
                       asked.tif \in {"IOC", "FOK"} => tif = asked.tif
                PROVE  ~Lawful([code |-> asked.code, action |-> asked.side, price |-> 0,
                                quantity |-> asked.quantity, order_type |-> tif,
                                octype |-> octype,
                                price_type |-> _NT_TO_SINOPAC_PRICE_TYPE(asked.type),
                                order_cond |-> asked.tags.order_cond,
                                order_lot |-> asked.tags.order_lot,
                                daytrade_short |-> asked.tags.daytrade_short,
                                market |-> Market[asked.code]])
    BY DEF OnlyUnlawfulDenied
  <2>1. /\ asked \in Asks /\ asked.code \in Codes /\ cache[asked.code] # None
        /\ Refuses(asked)
    BY OrderAssumption DEF DeskInv, Judged
  <2>2. GoodInstrument(asked.code, cache[asked.code])
    BY <2>1 DEF DeskInv, CacheGood
  <2>. QED  BY <2>1, <2>2, DeniedUnlawful
<1>. QED  BY <1>1, DeskInvariant, PTL

(* The limit price that is sent is the nearest on the cached grid, and on the *)
(* venue's grid wherever that is no coarser.                                  *)
THEOREM SnappedCorrect == Spec => []SentIsSnapped
<1>1. DeskInv => SentIsSnapped
  <2>. SUFFICES ASSUME DeskInv, ticket # None, ticket.price_type = "LMT"
                PROVE  LET tick == cache[ticket.code].increment
                       IN /\ 2 * (ticket.price - asked.price) <= tick
                          /\ 2 * (asked.price - ticket.price) <= tick
                          /\ VenueTick(ticket.code, ticket.price) <= tick =>
                               OnVenueGrid(ticket.code, ticket.price)
    BY DEF SentIsSnapped
  <2>. DEFINE c     == asked.code
              row   == listing[c]
              price == ticket.price
              g     == Grid(cache[c].increment, cache[c].precision)
  <2>1. /\ asked \in Asks /\ c \in Codes /\ cache[c] # None /\ ~Refuses(asked)
        /\ ticket = Ticket(asked)
    BY OrderAssumption DEF DeskInv, Judged
  <2>2. row \in Listings[c] /\ GoodInstrument(c, cache[c]) /\ Market[c] \in SinopacMarket
    BY <2>1, DeskAssumption DEF DeskInv, Basics, CacheGood
  <2>3. price \in Nat /\ Nearest(price, asked.price, cache[c].increment)
    BY <2>1, <2>2, TicketPrice
  <2>4. ticket.code = c
    BY <2>1 DEF Ticket
  <2>5. Priced(c, row, g) /\ g.tick = cache[c].increment
    BY <2>2 DEF GoodInstrument, Grid
  <2>6. price % g.tick = 0
    BY <2>3, <2>5 DEF Nearest
  <2>. HIDE DEF price, g
  <2>7. VenueTick(c, price) <= g.tick => price % VenueTick(c, price) = 0
    <3>1. CASE Market[c] = "stock"
      <4>1. PICK h \in EquityGrids : VenueTick(c, price) = h.tick
        BY <2>3, <3>1, TableGrids DEF VenueTick
      <4>2. g \in EquityGrids
        BY <2>5, <3>1 DEF Priced
      <4>. QED  BY <2>3, <2>6, <4>1, <4>2, TickChain
    <3>2. CASE Market[c] = "options"
      <4>1. PICK h \in OptionGrids : VenueTick(c, price) = h.tick
        BY <2>3, <3>2, TableGrids DEF VenueTick
      <4>2. g \in OptionGrids
        BY <2>5, <3>2 DEF Priced
      <4>. QED  BY <2>3, <2>6, <4>1, <4>2, TickChain
    <3>3. CASE Market[c] = "futures" /\ row.underlying_kind \in {"S", "E"}
      <4>1. PICK h \in EquityGrids : VenueTick(c, price) = h.tick
        BY <2>3, <3>3, TableGrids DEF VenueTick
      <4>2. g \in EquityGrids
        BY <2>5, <3>3 DEF Priced
      <4>. QED  BY <2>3, <2>6, <4>1, <4>2, TickChain
    <3>4. CASE Market[c] = "futures" /\ row.underlying_kind \notin {"S", "E"}
      <4>1. g = futures_tick_for_contract(row)
        BY <2>5, <3>4 DEF Priced
      <4>2. VenueTick(c, price) = g.tick
        BY <3>4, <4>1 DEF VenueTick
      <4>. QED  BY <2>6, <4>2
    <3>. QED  BY <2>2, <3>1, <3>2, <3>3, <3>4 DEF SinopacMarket
  <2>. QED  BY <2>3, <2>4, <2>5, <2>7 DEF OnVenueGrid, Nearest, price
<1>. QED  BY <1>1, DeskInvariant, PTL

\* A price on its own band's grid, at least a fifth of the reference, keeps its
\* value in the decimals of the reference's band.
LEMMA BandExact ==
  ASSUME NEW reference \in Nat, NEW price \in Nat, 5 * price >= reference,
         price % twse_stock_tick_size(price).tick = 0
  PROVE  Rounded(price, twse_stock_tick_size(reference).precision) = price
<1>1. CASE reference < 50000
  <2>1. twse_stock_tick_size(reference).precision = 2
    <3>1. \/ reference < 1000 \/ Between(reference, 1000, 5000)
          \/ Between(reference, 5000, 10000) \/ Between(reference, 10000, 50000)
      BY <1>1 DEF Between
    <3>. QED  BY <3>1 DEF twse_stock_tick_size, Between, Grid
  <2>2. price % Unit(2) = 0
    BY DEF Unit
  <2>. QED  BY <2>1, <2>2, RoundedExact
<1>2. CASE reference >= 50000
  <2>1. twse_stock_tick_size(reference).precision = 1
    <3>1. Between(reference, 50000, 100000) \/ reference >= 100000
      BY <1>2 DEF Between
    <3>. QED  BY <3>1 DEF twse_stock_tick_size, Between, Grid
  <2>2. twse_stock_tick_size(price).tick \in {50, 100, 500}
    <3>1. \/ Between(price, 10000, 50000) \/ Between(price, 50000, 100000)
          \/ price >= 100000
      BY <1>2 DEF Between
    <3>. QED  BY <3>1 DEF twse_stock_tick_size, Between, Grid
  <2>3. price % Unit(1) = 0
    <3>1. price % 50 = 0 \/ price % 100 = 0 \/ price % 500 = 0
      BY <2>2
    <3>. QED  BY <3>1 DEF Unit
  <2>. QED  BY <2>1, <2>3, RoundedExact
<1>. QED  BY <1>1, <1>2

(* No price of the day is rounded away: the decimals come from the reference  *)
(* price's band, and every price on the venue's grid within the limits fits.  *)
THEOREM ExactCorrect == Spec => []PricesExact
<1>1. DeskInv => PricesExact
  <2>. SUFFICES ASSUME DeskInv PROVE PricesExact
    OBVIOUS
  <2>. SUFFICES ASSUME NEW c \in Codes, EquityPriced(c), NEW p \in Nat,
                       p >= listing[c].limit_down, OnVenueGrid(c, p)
                PROVE  Rounded(p, Instrument(Market[c], listing[c]).precision) = p
    <3>1. \A a \in Amendments : a.price \in Nat \cup {Err}
      BY OrderAssumption
    <3>2. \A c \in Codes : EquityPriced(c) =>
            listing[c].limit_up \in Nat /\ listing[c].limit_down \in Nat
      BY ListingAssumption DEF DeskInv, Basics, EquityPriced
    <3>. QED  BY <3>1, <3>2 DEF PricesExact
  <2>. DEFINE row == listing[c]
              m   == Market[c]
  <2>1. /\ row \in Listings[c] /\ m \in SinopacMarket /\ m # "options"
        /\ Decodes(row, Required(m)) /\ Instrument(m, row) # Err
        /\ m = "futures" => row.underlying_kind \in {"S", "E"}
    BY DeskAssumption DEF DeskInv, Basics, EquityPriced
  <2>2. row.reference \in Nat /\ row.limit_down \in Nat /\ 5 * row.limit_down >= row.reference
    BY <2>1, ListingAssumption
  <2>3. Instrument(m, row).precision = GridOf(m, row).precision
    BY <2>1, InstrumentFields
  <2>4. 5 * p >= row.reference
    BY <2>2
  <2>5. CASE twse_etf_tick_size(row.reference) = GridOf(m, row)
    <3>1. GridOf(m, row).precision = 2
      BY <2>5 DEF twse_etf_tick_size, Grid
    <3>2. p % Unit(2) = 0
      BY DEF Unit
    <3>. QED  BY <2>3, <3>1, <3>2, RoundedExact
  <2>6. CASE /\ GridOf(m, row) = twse_stock_tick_size(row.reference)
             /\ VenueTick(c, p) = twse_stock_tick_size(p).tick
    BY <2>2, <2>3, <2>4, <2>6, BandExact DEF OnVenueGrid
  <2>7. CASE m = "stock"
    BY <2>5, <2>6, <2>7 DEF GridOf, VenueTick
  <2>8. CASE m = "futures" /\ row.underlying_kind = "E"
    BY <2>5, <2>8 DEF GridOf, futures_tick_for_contract
  <2>9. CASE m = "futures" /\ row.underlying_kind = "S"
    <3>1. GridOf(m, row) = twse_stock_tick_size(row.reference)
      BY <2>2, <2>9, SameTable DEF GridOf, futures_tick_for_contract
    <3>2. VenueTick(c, p) = twse_stock_tick_size(p).tick
      BY <2>9, SameTable DEF VenueTick
    <3>. QED  BY <2>6, <3>1, <3>2
  <2>. QED  BY <2>1, <2>7, <2>8, <2>9 DEF SinopacMarket
<1>. QED  BY <1>1, DeskInvariant, PTL

(* A load leaves a contract out only if its own list fails or it does not     *)
(* parse: the three lists are asked for at once and a failure of one does not *)
(* take the others with it (providers.py 60-80), and a contract that does not *)
(* parse is skipped, not raised (python/http.rs 104-180).                     *)
THEOREM ListedCorrect == Spec => ListedIsCached
<1>1. DeskInv /\ [Next]_vars =>
        (LoadAll =>
           \A c \in Codes : cache'[c] = None =>
             \/ Market[c] \in outage
             \/ \E x \in Codes : /\ Market[x] = Market[c]
                                /\ ~Decodes(listing[x], Required(Market[x]))
             \/ Instrument(Market[c], listing[c]) = Err)
  <2>. SUFFICES ASSUME DeskInv, LoadAll, NEW c \in Codes, Market[c] \notin outage,
                       \A x \in Codes : Market[x] = Market[c] =>
                         Decodes(listing[x], Required(Market[x])),
                       Instrument(Market[c], listing[c]) # Err
                PROVE  cache'[c] # None
    OBVIOUS
  <2>. DEFINE m     == Market[c]
              reply == ListReply(m)
              got   == [k \in SinopacMarket |-> request_instruments(k, ListReply(k))]
  <2>1. m \in SinopacMarket /\ \A x \in Codes : listing[x] \in Listings[x]
    BY DeskAssumption DEF DeskInv, Basics
  <2>2. reply.arrived /\ reply.status = 200
        /\ reply.body = {listing[x] : x \in {y \in Codes : Market[y] = m}}
    BY DEF ListReply
  <2>3. \A row \in reply.body : Decodes(row, Required(m))
    BY <2>2
  <2>. HIDE DEF reply
  <2>4. Answer(reply, Required(m)) = reply.body
    BY <2>2, <2>3 DEF Answer
  <2>5. reply.body # Err
    <3>1. reply.body \in SUBSET UNION {Listings[x] : x \in {y \in Codes : Market[y] = m}}
      BY <2>1, <2>2
    <3>. QED  BY <2>1, <3>1, SentinelAssumption
  <2>. DEFINE listed == {x \in Codes : Market[x] = m /\ Instrument(m, listing[x]) # Err}
  <2>6. request_instruments(m, ListReply(m)) = listed
    BY <2>4, <2>5 DEF request_instruments, reply
  <2>7. got[m] # Err /\ c \in got[m]
    <3>1. got[m] = listed
      BY <2>1, <2>6
    <3>2. listed \in SUBSET Codes /\ c \in listed
      OBVIOUS
    <3>. HIDE DEF got, listed
    <3>. QED  BY <3>1, <3>2, SentinelAssumption
  <2>8. c \in LoadedBy(got)
    BY <2>7 DEF LoadedBy
  <2>9. cache' = [x \in Codes |-> IF x \in LoadedBy(got)
                                    THEN Instrument(Market[x], listing[x]) ELSE None]
    BY DEF LoadAll
  <2>. HIDE DEF got
  <2>10. cache'[c] = Instrument(Market[c], listing[c])
    BY <2>8, <2>9
  <2>11. Decodes(listing[c], Required(Market[c]))
    OBVIOUS
  <2>. QED  BY <2>1, <2>10, <2>11, SentinelAssumption
<1>. QED  BY <1>1, DeskInvariant, PTL DEF Spec, ListedIsCached
=============================================================================
