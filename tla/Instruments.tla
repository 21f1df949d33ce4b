---------------------------- MODULE Instruments -----------------------------
(* From a contract the gateway lists to the instrument the client trades:    *)
(* src/src/http/models.rs (the rows), src/src/http/parse.rs (the builders)   *)
(* and the three request_*_instruments bindings of src/src/python/http.rs.   *)
(*                                                                           *)
(* A row is a JSON object: a function from the names of its fields. Prices   *)
(* and the tables are those of TickGrid. What the checked constructors of    *)
(* the library refuse is a value above ValueMax: JSON carries no NaN and no  *)
(* infinity, so a float that is too large is the malformed number there is.  *)
EXTENDS TickGrid

CONSTANTS
  ValueMax,   \* the largest price and quantity the library represents
  Dates,      \* the dates NaiveDate parses
  Err         \* a fallible function's Err(_)

ASSUME ErrAssumption == Err \notin Int /\ ValueMax \in Nat

-----------------------------------------------------------------------------
(* Rows: the fields serde requires; the others have a serde default          *)

StockContract ==
  {"code", "symbol", "name", "exchange", "category", "limit_up", "limit_down",
   "reference", "update_date", "day_trade"}

FuturesContract ==
  {"code", "symbol", "name", "category", "delivery_month", "delivery_date",
   "underlying_kind", "limit_up", "limit_down", "reference", "update_date"}

OptionsContract == FuturesContract \cup {"strike_price", "option_right"}

Decodes(row, required) == required \subseteq DOMAIN row

\* A field with #[serde(default)]: unit and multiplier 0, the strings "".
Field(row, name, default) == IF name \in DOMAIN row THEN row[name] ELSE default

-----------------------------------------------------------------------------
(* Checked values                                                            *)

try_price(value, precision) ==
  IF value > ValueMax THEN Err ELSE Rounded(value, precision)

\* Quantities have no decimals; the models only carry whole ones.
try_qty(value) == IF value < 0 \/ value > ValueMax THEN Err ELSE value

parse_date_to_nanos(date) == IF date \in Dates THEN date ELSE Err

lot_size(row, default) ==
  LET unit == Field(row, "unit", 0) IN try_qty(IF unit > 0 THEN unit ELSE default)

STOCK_LOT_SIZE    == 1000
CONTRACT_LOT_SIZE == 1

\* Any ISO code is taken; one stands for all the foreign ones.
parse_currency_or_twd(row) ==
  IF Field(row, "currency", "") = "USD" THEN "USD" ELSE "TWD"

-----------------------------------------------------------------------------
(* Builders                                                                  *)

parse_stock_to_equity(c) ==
  LET grid == IF c.category = "00" THEN twse_etf_tick_size(c.reference)
                                   ELSE twse_stock_tick_size(c.reference)
      lot  == lot_size(c, STOCK_LOT_SIZE)
      max  == try_price(c.limit_up, grid.precision)
      min  == try_price(c.limit_down, grid.precision)
  IN IF Err \in {lot, max, min}
       THEN Err
       ELSE [class |-> "Equity", increment |-> grid.tick, precision |-> grid.precision,
             lot |-> lot, max |-> max, min |-> min, reference |-> c.reference,
             currency |-> parse_currency_or_twd(c)]

futures_tick_for_contract(c) ==
  CASE c.underlying_kind = "I" -> index_futures_tick_size(c.category)
    [] c.underlying_kind = "S" -> single_stock_futures_tick_size(c.reference)
    [] c.underlying_kind = "E" -> twse_etf_tick_size(c.reference)
    [] OTHER                   -> DefaultGrid

multiplier(row, default) ==
  LET given == Field(row, "multiplier", 0) IN try_qty(IF given > 0 THEN given ELSE default)

underlying(row) ==
  IF Field(row, "underlying_code", "") = "" THEN row.category ELSE row.underlying_code

\* What a futures and an options contract have in common.
Derivative(c, class, grid, times) ==
  LET lot == lot_size(c, CONTRACT_LOT_SIZE)
      max == try_price(c.limit_up, grid.precision)
      min == try_price(c.limit_down, grid.precision)
      expiration == parse_date_to_nanos(c.delivery_date)
      activation == parse_date_to_nanos(c.update_date)
  IN IF Err \in {times, lot, max, min} \/ expiration = Err
       THEN Err
       ELSE [class |-> class, increment |-> grid.tick, precision |-> grid.precision,
             lot |-> lot, max |-> max, min |-> min, reference |-> c.reference,
             currency |-> parse_currency_or_twd(c), multiplier |-> times,
             underlying |-> underlying(c), expiration |-> expiration,
             activation |-> IF activation = Err THEN "epoch" ELSE activation,
             asset |-> IF c.underlying_kind = "I" THEN "Index" ELSE "Equity"]

parse_futures_to_contract(c) ==
  Derivative(c, "FuturesContract", futures_tick_for_contract(c),
             multiplier(c, futures_multiplier(c.category)))

parse_options_to_contract(c) ==
  LET common == Derivative(c, "OptionContract", options_tick_size(c.reference),
                           multiplier(c, options_multiplier(c.category)))
      strike == try_price(c.strike_price, strike_precision(c.strike_price))
  IN IF c.option_right \notin {"C", "P"} \/ common = Err \/ strike = Err
       THEN Err
       ELSE [f \in DOMAIN common \cup {"kind", "strike"} |->
               CASE f = "kind" -> c.option_right
                 [] f = "strike" -> strike
                 [] OTHER -> common[f]]
=============================================================================
