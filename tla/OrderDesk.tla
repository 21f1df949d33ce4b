----------------------------- MODULE OrderDesk ------------------------------
(* How an order ticket comes about, and what its price and parameters are    *)
(* worth at the venue: the instrument provider (providers.py), the order     *)
(* rules of execution.py 154-455 and tags.py, submit and modify of           *)
(* execution.py, over the HTTP exchanges of GatewayHttp. One order is followed *)
(* from the strategy to the venue; how its life goes on, and what races with *)
(* it, is ExecOrders. An operator X_Y is a mutant of the operator X.         *)
EXTENDS GatewayHttp, FiniteSets

CONSTANTS
  Codes,      \* contract codes
  Market,     \* the list each code is on: "stock", "futures" or "options"
  Listings,   \* the rows the gateway may list for each code
  First,      \* the rows it lists on the first day
  Asks,       \* the orders strategies submit
  Amendments, \* the changes they ask for: [price, quantity], Err where absent
  None,       \* no instrument, no ticket
  MaxDays     \* bound: listings replaced

ASSUME DeskAssumption ==
  /\ Market \in [Codes -> SinopacMarket]
  /\ First \in [Codes -> UNION {Listings[c] : c \in Codes}]
  /\ \A c \in Codes : First[c] \in Listings[c]
  /\ None \notin Int /\ None \notin {"place", "update"}
  /\ Err \notin SinopacOrderType /\ MaxDays \in Nat

VARIABLES
  listing,  \* the gateway's contract table today
  day,      \* listings replaced so far
  outage,   \* the contract lists the gateway fails to answer
  loaded,   \* has the provider loaded?
  cache,    \* the instrument cached for each code
  status,   \* the order followed
  asked,    \* as the strategy submitted it
  ticket,   \* as it was sent
  sent,     \* the price the latest request carried
  call      \* the HTTP exchange under way

vars == <<listing, day, outage, loaded, cache, status, asked, ticket, sent, call>>

orderVars == <<status, asked, ticket, sent, call>>

-----------------------------------------------------------------------------
(* Contracts and instruments                                                 *)

Required(market) ==
  CASE market = "stock"   -> StockContract
    [] market = "futures" -> FuturesContract
    [] market = "options" -> OptionsContract

Instrument(market, row) ==
  CASE market = "stock"   -> parse_stock_to_equity(row)
    [] market = "futures" -> parse_futures_to_contract(row)
    [] market = "options" -> parse_options_to_contract(row)

\* What the exchange lists: a price is not negative, a lower limit is no less
\* than a fifth of the reference, and a future stays the product it is.
ASSUME ListingAssumption ==
  \A c \in Codes : \A row \in Listings[c] :
    /\ Decodes(row, Required(Market[c])) =>
         /\ row.reference \in Nat /\ row.limit_up \in Nat /\ row.limit_down \in Nat
         /\ Market[c] # "options" => 5 * row.limit_down >= row.reference
    /\ Market[c] = "futures" =>
         \A other \in Listings[c] :
           /\ row.underlying_kind = other.underlying_kind
           /\ row.category = other.category

\* A failed request is told from a list, no instrument from an instrument.
ASSUME SentinelAssumption ==
  /\ \A codes \in SUBSET Codes : codes # Err
  /\ \A m \in SinopacMarket :
       \A rows \in SUBSET UNION {Listings[c] : c \in {x \in Codes : Market[x] = m}} : rows # Err
  /\ \A c \in Codes : \A row \in Listings[c] :
       Decodes(row, Required(Market[c])) => Instrument(Market[c], row) # None

\* request_*_instruments: one list; a contract that does not parse is left out
\* without a word, one that does not decode fails the list.
request_instruments(market, reply) ==
  LET rows == Answer(reply, Required(market))
  IN IF rows = Err THEN Err
     ELSE {c \in Codes : Market[c] = market /\ Instrument(market, listing[c]) # Err}

ListReply(market) ==
  [arrived |-> market \notin outage, status |-> 200,
   body |-> {listing[c] : c \in {x \in Codes : Market[x] = market}}]

\* Mutant: no list when one fails (gather without return_exceptions).
LoadedBy_All(got) ==
  {c \in Codes : (\A m \in SinopacMarket : got[m] # Err) /\ c \in got[Market[c]]}

\* What _fetch_all_instruments keeps of the three lists.
LoadedBy(got) == {c \in Codes : got[Market[c]] # Err /\ c \in got[Market[c]]}

(* load_all_async: three requests at once; a list that fails is logged and   *)
(* its instruments are missing from then on, for initialize() loads once.    *)
LoadAll ==
  /\ ~loaded /\ loaded' = TRUE
  /\ LET got == [m \in SinopacMarket |-> request_instruments(m, ListReply(m))]
     IN cache' = [c \in Codes |-> IF c \in LoadedBy(got)
                                    THEN Instrument(Market[c], listing[c]) ELSE None]
  /\ UNCHANGED <<listing, day, outage, orderVars>>

\* The exchange lists a contract anew, at another reference price, every day
\* (external); the client keeps the instruments it loaded.
Relist(c, row) ==
  /\ day < MaxDays
  /\ day' = day + 1
  /\ listing' = [listing EXCEPT ![c] = row]
  /\ UNCHANGED <<outage, loaded, cache, orderVars>>

\* The process ends; the next one follows an order of its own.
Restart ==
  /\ loaded /\ loaded' = FALSE
  /\ outage' \in SUBSET SinopacMarket
  /\ cache' = [c \in Codes |-> None]
  /\ status' = "idle"
  /\ asked' = None
  /\ ticket' = None
  /\ sent' = None
  /\ call' = None
  /\ UNCHANGED <<listing, day>>

-----------------------------------------------------------------------------
(* The order rules                                                           *)

_MARKETABLE_ORDER_TYPES == {"MARKET", "MARKET_TO_LIMIT"}
_CONDITIONAL_ORDER_TYPES ==
  {"STOP_MARKET", "STOP_LIMIT", "MARKET_IF_TOUCHED", "LIMIT_IF_TOUCHED",
   "TRAILING_STOP_MARKET", "TRAILING_STOP_LIMIT"}

\* The orders and amendments of NautilusTrader.
ASSUME OrderAssumption ==
  /\ \A order \in Asks :
       /\ order.code \in Codes /\ order.side \in SinopacAction
       /\ order.type \in {"LIMIT"} \cup _MARKETABLE_ORDER_TYPES \cup _CONDITIONAL_ORDER_TYPES
       /\ order.quantity \in Nat /\ order.price \in Nat \cup {Err}
       /\ order.type = "LIMIT" => order.price # Err
       /\ order.tags # Err => order.tags.daytrade_short \in BOOLEAN
  /\ \A change \in Amendments : change.price \in Nat \cup {Err}

_NT_TO_SINOPAC_PRICE_TYPE(type) ==
  CASE type = "LIMIT"           -> "LMT"
    [] type = "MARKET"          -> "MKT"
    [] type = "MARKET_TO_LIMIT" -> "MKP"

\* Mutant: market orders keep DAY and GTC.
_resolve_order_type_Uncoerced(type, tif) ==
  CASE tif \in {"IOC", "FOK"} -> tif
    [] tif \in {"DAY", "GTC"} -> "ROD"
    [] OTHER                  -> Err

_resolve_order_type(type, tif) ==
  CASE tif \in {"IOC", "FOK"} -> tif
    [] tif \in {"DAY", "GTC"} -> IF type \in _MARKETABLE_ORDER_TYPES THEN "IOC" ELSE "ROD"
    [] OTHER                  -> Err

\* Post-market odd lots and fixing are values of the enumeration, not of the map.
_resolve_tag_enums(tags) ==
  /\ tags.order_lot  \in {"Common", "IntradayOdd"}
  /\ tags.order_cond \in SinopacOrderCond
  /\ tags.octype     \in SinopacOCType

\* Mutant: 999 shares are not an odd lot.
_validate_stock_lot_rules_OffByOne(tags, price_type, order_type, quantity) ==
  /\ tags.order_lot = "IntradayOdd" =>
       /\ price_type = "LMT" /\ order_type = "ROD"
       /\ quantity \in 1 .. 998
       /\ tags.order_cond = "Cash"
  /\ tags.order_lot = "Common" => quantity % 1000 = 0
  /\ tags.daytrade_short => tags.order_cond = "Cash"

_validate_stock_lot_rules(tags, price_type, order_type, quantity) ==
  /\ tags.order_lot = "IntradayOdd" =>
       /\ price_type = "LMT" /\ order_type = "ROD"
       /\ quantity \in 1 .. 999
       /\ tags.order_cond = "Cash"
  /\ tags.order_lot = "Common" => quantity % 1000 = 0
  /\ tags.daytrade_short => tags.order_cond = "Cash"

_validate_and_map_tags(tags, market, price_type, order_type, quantity) ==
  /\ tags # Err
  /\ _resolve_tag_enums(tags)
  /\ market = "stock" =>
       /\ price_type # "MKP"
       /\ _validate_stock_lot_rules(tags, price_type, order_type, quantity)

_determine_market(instrument) ==
  IF instrument = None THEN "stock"
  ELSE CASE instrument.class = "Equity"          -> "stock"
         [] instrument.class = "FuturesContract" -> "futures"
         [] instrument.class = "OptionContract"  -> "options"

\* Mutant: rounded to the instrument's decimals only.
_resolve_send_price_Decimals(order, instrument) ==
  IF order.price = Err THEN 0 ELSE Rounded(order.price, instrument.precision)

_resolve_send_price(order, instrument) ==
  IF order.price = Err THEN 0
  ELSE IF instrument = None \/ instrument.increment <= 0 THEN order.price
  ELSE Rounded(_snap_price_to_grid(order.price, instrument.increment),
               instrument.precision)

MarketFor(order) == _determine_market(cache[order.code])

\* Does _submit_order reject the order without sending it?
Refuses(order) ==
  \/ order.type \in _CONDITIONAL_ORDER_TYPES
  \/ _resolve_order_type(order.type, order.tif) = Err
  \/ ~_validate_and_map_tags(order.tags, MarketFor(order),
                             _NT_TO_SINOPAC_PRICE_TYPE(order.type),
                             _resolve_order_type(order.type, order.tif), order.quantity)

\* What it sends otherwise.
Ticket(order) ==
  [code |-> order.code, action |-> order.side, quantity |-> order.quantity,
   price |-> _resolve_send_price(order, cache[order.code]),
   price_type |-> _NT_TO_SINOPAC_PRICE_TYPE(order.type),
   order_type |-> _resolve_order_type(order.type, order.tif),
   order_cond |-> order.tags.order_cond, order_lot |-> order.tags.order_lot,
   octype |-> IF MarketFor(order) = "stock" THEN "Auto" ELSE order.tags.octype,
   daytrade_short |-> order.tags.daytrade_short, market |-> MarketFor(order)]

-----------------------------------------------------------------------------
(* The order                                                                 *)

\* The engine's risk checks (external): an order is for a cached instrument
\* and its price has no more decimals than the instrument's.
RiskEngineAdmits(code, price) ==
  /\ cache[code] # None
  /\ price # Err => price % Unit(cache[code].precision) = 0

Submit(order) ==
  /\ loaded /\ status = "idle"
  /\ RiskEngineAdmits(order.code, order.price)
  /\ asked' = order
  /\ IF Refuses(order)
       THEN /\ status' = "denied"
            /\ UNCHANGED <<ticket, sent, call>>
       ELSE /\ status' = "placing"
            /\ ticket' = Ticket(order)
            /\ sent' = Ticket(order).price
            /\ call' = "place"
  /\ UNCHANGED <<listing, day, outage, loaded, cache>>

\* The order after an exchange: any error rejects it, even if the venue has it,
\* and so does a reply that reports a failure.
PlacedAs(arrived, code, fields, answer) ==
  LET body == [f \in fields |-> IF f = "status" THEN answer ELSE ""]
  IN IF \/ answer = "Failed"
        \/ Answer([arrived |-> arrived, status |-> code, body |-> {body}],
                  PlaceOrderResponse) = Err
       THEN "rejected" ELSE "open"

PlaceReturns ==
  /\ call = "place"
  /\ call' = None
  /\ \E arrived \in BOOLEAN, code \in {200, 422}, answer \in {"Submitted", "Failed"},
        fields \in {PlaceOrderResponse, PlaceOrderResponse \ {"trade_id"}} :
       status' = PlacedAs(arrived, code, fields, answer)
  /\ UNCHANGED <<listing, day, outage, loaded, cache, asked, ticket, sent>>

\* _modify_order: the price goes out as the strategy gave it.
ModifyOrder(change) ==
  /\ status = "open" /\ call = None
  /\ change.price # Err => RiskEngineAdmits(asked.code, change.price)
  /\ ~(change.price # Err /\ asked.tags.order_lot = "IntradayOdd")
  /\ sent' = IF change.price # Err THEN change.price ELSE sent
  /\ call' = "update"
  /\ UNCHANGED <<listing, day, outage, loaded, cache, status, asked, ticket>>

\* update_order returns: a success changes nothing, the confirmation comes as
\* an event; an error is a modify rejection.
UpdateReturns ==
  /\ call = "update"
  /\ call' = None
  /\ UNCHANGED <<listing, day, outage, loaded, cache, status, asked, ticket, sent>>

\* The venue ends the order; the strategy's next one is followed.
OrderEnds ==
  /\ status \in {"denied", "rejected", "open"} /\ call = None
  /\ status' = "idle"
  /\ asked' = None
  /\ ticket' = None
  /\ sent' = None
  /\ UNCHANGED <<listing, day, outage, loaded, cache, call>>

-----------------------------------------------------------------------------
Init ==
  /\ listing = First
  /\ day = 0
  /\ outage \in SUBSET SinopacMarket /\ loaded = FALSE
  /\ cache = [c \in Codes |-> None]
  /\ status = "idle"
  /\ asked = None /\ ticket = None /\ sent = None /\ call = None

Next ==
  \/ LoadAll
  \/ \E c \in Codes : \E row \in Listings[c] : Relist(c, row)
  \/ Restart
  \/ \E order \in Asks : Submit(order)
  \/ PlaceReturns
  \/ \E change \in Amendments : ModifyOrder(change)
  \/ UpdateReturns
  \/ OrderEnds

Spec == Init /\ [][Next]_vars

-----------------------------------------------------------------------------
(* What the venue asks of a ticket (external: docs/sinopac.md 199-290)       *)

\* The tick of a price depends on the band of that very price. For a future
\* whose kind or root is in no table it is the default the code falls back to, for
\* want of another source: OnVenueGrid says nothing about those (http/parse.rs
\* 281-286).
VenueTick(c, price) ==
  LET row == listing[c]
  IN CASE Market[c] = "stock"   -> (IF row.category = "00" THEN twse_etf_tick_size(price)
                                                         ELSE twse_stock_tick_size(price)).tick
       [] Market[c] = "options" -> options_tick_size(price).tick
       [] Market[c] = "futures" ->
            (CASE row.underlying_kind = "S" -> single_stock_futures_tick_size(price)
               [] row.underlying_kind = "E" -> twse_etf_tick_size(price)
               [] OTHER                     -> futures_tick_for_contract(row)).tick

OnVenueGrid(c, price) == price % VenueTick(c, price) = 0

Lawful(t) ==
  /\ t.market = Market[t.code]
  /\ t.order_lot \in {"Common", "IntradayOdd"}
  /\ t.price_type # "LMT" => t.order_type \in {"IOC", "FOK"}
  /\ t.market = "stock" =>
       /\ t.price_type # "MKP"
       /\ t.octype = "Auto"
       /\ t.daytrade_short => t.order_cond = "Cash"
       /\ t.order_lot = "Common" => t.quantity % 1000 = 0
       /\ t.order_lot = "IntradayOdd" =>
            /\ <<t.price_type, t.order_type, t.order_cond>> = <<"LMT", "ROD", "Cash">>
            /\ t.quantity > 0 /\ t.quantity < 1000

-----------------------------------------------------------------------------
(* Properties                                                                *)

TypeOK ==
  /\ \A c \in Codes : listing[c] \in Listings[c]
  /\ day \in 0 .. MaxDays
  /\ outage \subseteq SinopacMarket /\ loaded \in BOOLEAN
  /\ \A c \in Codes : cache[c] # None =>
       /\ cache[c].increment \in Int /\ cache[c].increment > 0
       /\ cache[c].precision \in 0 .. 2
       /\ cache[c].increment % Unit(cache[c].precision) = 0
  /\ status \in {"idle", "denied", "placing", "open", "rejected"}
  /\ asked = None \/ asked \in Asks
  /\ ticket = None \/ ticket \in PlaceOrderRequest(Codes)
  /\ sent \in Int \cup {None}
  /\ call \in {None, "place", "update"}

(* Whatever the type, the time in force, the tags and the quantity of an     *)
(* order are, a ticket that goes out is one the venue's rules allow, on the  *)
(* market its contract is listed on (execution.py 203-455, 1237-1244).       *)
SentIsLawful == ticket # None => Lawful(ticket)

\* The values docs/sinopac.md:267-272 lists for the tags.
Documented(tags) ==
  tags \in [order_lot : {"Common", "IntradayOdd"}, daytrade_short : BOOLEAN,
            order_cond : {"Cash", "MarginTrading", "ShortSelling"},
            octype : {"Auto", "New", "Cover", "DayTrade"}]

(* An order is denied locally only if no ticket that means the same would be *)
(* lawful: the local rules are no stricter than the venue's, which the       *)
(* gateway enforces anyway (execution.py 371-376).                           *)
OnlyUnlawfulDenied ==
  status = "denied" =>
    \/ asked.tags = Err
    \/ asked.type \in _CONDITIONAL_ORDER_TYPES
    \/ asked.tif \notin {"DAY", "GTC", "IOC", "FOK"}
    \/ ~Documented(asked.tags)
    \/ \A tif \in {"IOC", "FOK", "ROD"}, octype \in {"Auto", asked.tags.octype} :
         (asked.tif \in {"IOC", "FOK"} => tif = asked.tif) =>
         ~Lawful([code |-> asked.code, action |-> asked.side, price |-> 0,
                  quantity |-> asked.quantity, order_type |-> tif, octype |-> octype,
                  price_type |-> _NT_TO_SINOPAC_PRICE_TYPE(asked.type),
                  order_cond |-> asked.tags.order_cond,
                  order_lot |-> asked.tags.order_lot,
                  daytrade_short |-> asked.tags.daytrade_short,
                  market |-> Market[asked.code]])

(* The limit price a submission sends is the nearest on the cached grid, and *)
(* it is on the venue's grid unless it lies in a band coarser than the one   *)
(* the instrument was loaded in: snapping works on the instrument's tick,    *)
(* the venue on the tick of the price (execution.py 134-153, 931-957).       *)
SentIsSnapped ==
  ticket # None /\ ticket.price_type = "LMT" =>
    LET tick == cache[ticket.code].increment
    IN /\ 2 * (ticket.price - asked.price) <= tick
       /\ 2 * (asked.price - ticket.price) <= tick
       /\ VenueTick(ticket.code, ticket.price) <= tick =>
            OnVenueGrid(ticket.code, ticket.price)

(* Every price that is sent is on the venue's grid, as docs/sinopac.md:206   *)
(* and execution.py:931-935 have it. It is not: the tick is that of the      *)
(* reference price's band, on the day of the load, and an amended price is   *)
(* not snapped at all.                                                       *)
SentOnVenueGrid ==
  sent # None /\ ticket.price_type = "LMT" => OnVenueGrid(ticket.code, sent)

EquityPriced(c) ==
  /\ Decodes(listing[c], Required(Market[c]))
  /\ Instrument(Market[c], listing[c]) # Err
  /\ Market[c] = "futures" => listing[c].underlying_kind \in {"S", "E"}
  /\ Market[c] # "options"

(* The decimals come from the band of the reference price, but serve every   *)
(* price of the day: of a contract priced by the equity tables none that is  *)
(* on the venue's grid within the limits is rounded away (tick_size.rs,      *)
(* parse.rs 202, 306).                                                       *)
PricesExact ==
  \A c \in {x \in Codes : EquityPriced(x)} :
    LET row == listing[c]
    IN \A p \in ({row.limit_up, row.limit_down} \cup {a.price : a \in Amendments}) \ {Err} :
         p >= row.limit_down /\ p <= row.limit_up /\ OnVenueGrid(c, p) =>
           Rounded(p, Instrument(Market[c], row).precision) = p

(* A contract is missing only on its own account: it does not parse, or its  *)
(* own list fails, because the gateway does not answer or because a row of   *)
(* it does not decode (python/http.rs 104-180, providers.py 60-80).          *)
ListedIsCached ==
  [][LoadAll =>
       \A c \in Codes : cache'[c] = None =>
         \/ Market[c] \in outage
         \/ \E x \in Codes : /\ Market[x] = Market[c]
                            /\ ~Decodes(listing[x], Required(Market[x]))
         \/ Instrument(Market[c], listing[c]) = Err]_vars
=============================================================================
