------------------------------ MODULE TickGrid ------------------------------
(* The price grids of the Taiwan venues and the arithmetic on them: the tick *)
(* tables of src/src/common/tick_size.rs, the multiplier tables of           *)
(* src/src/common/instrument.rs, and the snapping and rounding of prices.    *)
(*                                                                           *)
(* A price is an integer number of hundredths of a TWD (or of a point), the  *)
(* finest unit any table uses, so that every tick is an integer too.         *)
(* A grid is a tick together with the decimals prices are kept with.         *)
(*                                                                           *)
(* An operator X_Y is a mutant of the operator X that follows it: a change   *)
(* that a property of OrderDesk notices.                                     *)
EXTENDS Integers

Grid(tick, precision) == [tick |-> tick, precision |-> precision]

Between(price, low, next) == low <= price /\ price < next

-----------------------------------------------------------------------------
(* Tick tables                                                               *)

\* Mutant: no decimals where the tick is a whole TWD.
twse_stock_tick_size_Whole(reference) ==
  CASE reference < 1000                  -> Grid(1, 2)
    [] Between(reference, 1000, 5000)    -> Grid(5, 2)
    [] Between(reference, 5000, 10000)   -> Grid(10, 2)
    [] Between(reference, 10000, 50000)  -> Grid(50, 2)
    [] Between(reference, 50000, 100000) -> Grid(100, 0)
    [] reference >= 100000               -> Grid(500, 0)

twse_stock_tick_size(reference) ==
  CASE reference < 1000                  -> Grid(1, 2)
    [] Between(reference, 1000, 5000)    -> Grid(5, 2)
    [] Between(reference, 5000, 10000)   -> Grid(10, 2)
    [] Between(reference, 10000, 50000)  -> Grid(50, 2)
    [] Between(reference, 50000, 100000) -> Grid(100, 1)
    [] reference >= 100000               -> Grid(500, 1)

twse_etf_tick_size(reference) ==
  IF reference < 5000 THEN Grid(1, 2) ELSE Grid(5, 2)

\* The code keeps a second copy of the stock table for single-stock futures.
single_stock_futures_tick_size(reference) ==
  CASE reference < 1000                  -> Grid(1, 2)
    [] Between(reference, 1000, 5000)    -> Grid(5, 2)
    [] Between(reference, 5000, 10000)   -> Grid(10, 2)
    [] Between(reference, 10000, 50000)  -> Grid(50, 2)
    [] Between(reference, 50000, 100000) -> Grid(100, 1)
    [] reference >= 100000               -> Grid(500, 1)

options_tick_size(reference) ==
  IF reference < 1000 THEN Grid(10, 1) ELSE Grid(100, 0)

\* The fallback of futures_tick_for_contract for a product no table lists.
DefaultGrid == Grid(100, 0)

\* Mutant: one decimal for every sector index.
index_futures_tick_size_OneDecimal(root) ==
  CASE root \in {"TXF", "MXF", "T5F", "XIF"} -> Grid(100, 0)
    [] root = "ZEF" -> Grid(5, 1)
    [] root = "ZFF" -> Grid(20, 1)
    [] OTHER        -> DefaultGrid

index_futures_tick_size(root) ==
  CASE root \in {"TXF", "MXF", "T5F", "XIF"} -> Grid(100, 0)
    [] root = "ZEF" -> Grid(5, 2)
    [] root = "ZFF" -> Grid(20, 1)
    [] OTHER        -> DefaultGrid

-----------------------------------------------------------------------------
(* Multiplier tables: TWD per index point                                    *)

DEFAULT_CONTRACT_MULTIPLIER == 2000

futures_multiplier(root) ==
  CASE root = "TXF"            -> 200
    [] root = "MXF"            -> 50
    [] root \in {"T5F", "XIF"} -> 100
    [] root = "ZEF"            -> 500
    [] root = "ZFF"            -> 250
    [] OTHER                   -> DEFAULT_CONTRACT_MULTIPLIER

options_multiplier(root) ==
  IF root = "TXO" THEN 50 ELSE DEFAULT_CONTRACT_MULTIPLIER

-----------------------------------------------------------------------------
(* Arithmetic on a grid                                                      *)

\* The multiple of unit nearest to price: an exact tie goes to the even one.
NearestEven(price, unit) ==
  LET steps == price \div unit
      rest  == price % unit
  IN IF 2 * rest < unit \/ (2 * rest = unit /\ steps % 2 = 0)
       THEN unit * steps
       ELSE unit * (steps + 1)

_snap_price_to_grid(price, increment) == NearestEven(price, increment)

\* The library's Price and Quantity constructors keep `precision` decimals;
\* an exact tie goes away from zero (prices here are not negative).
Unit(precision) == CASE precision = 0 -> 100 [] precision = 1 -> 10 [] precision = 2 -> 1

Rounded(value, precision) ==
  LET unit == Unit(precision) IN unit * ((2 * value + unit) \div (2 * unit))

\* The decimals of an option's strike: half-point strikes need one.
strike_precision(strike) == IF strike % 100 = 0 THEN 0 ELSE 1
=============================================================================
