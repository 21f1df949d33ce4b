------------------------------ MODULE ExecState ------------------------------
(***************************************************************************)
(* Vocabulary of the order path of SinopacExecutionClient (execution.py):  *)
(* parameters, state and helpers shared by the client (ExecOrders) and by  *)
(* what surrounds it, the gateway, the exchange and the NautilusTrader     *)
(* execution engine (ExecEnvironment).                                     *)
(*                                                                         *)
(* A trade is named by the order that created it, so the trade_id of the   *)
(* order o is o itself; Foreign holds the trades of other sessions on the  *)
(* same account.                                                           *)
(***************************************************************************)
EXTENDS Integers, Sequences, FiniteSets

CONSTANTS
  Orders,          \* the client orders of this process
  Foreign,         \* trades of other sessions on the same account
  None,            \* no order, no trade
  Token,           \* the custom_field of each trade
  NoToken,         \* the empty custom_field
  Qty,             \* shares of an order when it is submitted
  OddLot,          \* the orders tagged IntradayOdd
  TransportFaults, \* may an HTTP exchange fail after the request was sent?
  ListMayFail,     \* may list_trades fail, or return a row that raises?
  MaxCancels,      \* bound: cancel commands
  MaxModifies,     \* bound: modify commands
  MaxSweeps,       \* bound: cancel_all commands
  MaxDrops,        \* bound: WebSocket drops
  MaxRestarts      \* bound: process restarts

Trades == Orders \cup Foreign

(* execution.py:857-860 takes collisions of the six-character token to be   *)
(* negligible: distinct orders have distinct tokens, and no trade of        *)
(* another session carries a token of ours.                                 *)
ASSUME TokenAssumption ==
  /\ Orders \cap Foreign = {}
  /\ None \notin Trades
  /\ \A o \in Orders : Token[o] # NoToken
  /\ \A o \in Orders, t \in Trades : Token[t] = Token[o] => t = o

ASSUME ParameterAssumption ==
  /\ Qty \in Nat \ {0}
  /\ OddLot \subseteq Orders
  /\ TransportFaults \in BOOLEAN
  /\ ListMayFail \in BOOLEAN
  /\ MaxCancels \in Nat
  /\ MaxModifies \in Nat
  /\ MaxSweeps \in Nat
  /\ MaxDrops \in Nat
  /\ MaxRestarts \in Nat

VARIABLES
  \* the execution client
  map,       \* _trade_id_to_client_order_id
  place,     \* place_order of each order: the state of the awaiting task
  cancel,    \* cancel_order of each caller and order
  modify,    \* update_order of each order
  sweep,     \* the orders _cancel_all_orders has still to visit
  recheck,   \* the trade whose fill the callback just emitted and will re-read
  recon,     \* the mass-status reconciliations: how far each has come
  rows,      \* the trades each one has read or reported
  seen,      \* the exchange as list_trades answered each one
  who,       \* the order each one resolved a trade to
  \* the engine's ledger
  events,    \* order events waiting to be applied
  status,    \* OrderStatus in the cache
  known,     \* does the cached order have a venue_order_id?
  qty,       \* order quantity
  fills,     \* the TradeIds applied to the order
  inferred,  \* shares adopted from a status report, without a TradeId
  \* the gateway and the exchange
  venue,     \* state of each trade
  size,      \* quantity of each trade
  traded,    \* shares executed so far: deals 1 .. traded[t]
  \* the WebSocket
  link,      \* "up", "down" (reconnecting) or "off" (process not connected)
  feed,      \* messages on their way to the callback
  \* bounds
  used       \* commands and faults spent so far

taskVars   == <<place, cancel, modify, sweep>>
reconVars  == <<recon, rows, seen, who>>
clientVars == <<map, taskVars, recheck, reconVars>>
ledgerVars == <<status, known, qty, fills, inferred>>
venueVars  == <<venue, size, traded>>
vars == <<clientVars, events, ledgerVars, venueVars, link, feed, used>>

-----------------------------------------------------------------------------
Callers   == {"cancel", "sweep"}
Counters  == {"cancels", "modifies", "sweeps", "drops", "restarts"}
Legs      == {"idle", "request", "ok", "error"}
PlaceLegs == {"new", "request", "ok", "failed", "error", "cut", "done", "lost"}
Venue     == {"none", "enroute", "pending", "working", "filled", "cancelled", "failed"}
Statuses  == {"INITIALIZED", "SUBMITTED", "ACCEPTED", "PARTIALLY_FILLED",
              "FILLED", "CANCELED", "REJECTED"}
ClosedStatuses == {"FILLED", "CANCELED", "REJECTED"}
Ops       == {"New", "Cancel", "Update", "Deal", "Reconnected"}
EventTypes == {"submitted", "accepted", "rejected", "canceled", "updated", "filled",
               "cancel_rejected", "modify_rejected"}

TradeIds == Trades \X Nat
Message  == [op : Ops \ {"Reconnected"}, trade : Trades, ok : BOOLEAN, n : Nat]
       \cup [op : {"Reconnected"}, trade : {None}, ok : BOOLEAN, n : Nat]
Event    == [type : EventTypes \ {"filled"}, order : Orders, id : {None}, n : Nat]
       \cup [type : {"filled"}, order : Orders, id : TradeIds, n : Nat]
ReconPcs == {"idle", "asked", "listed", "reported", "done"}
View     == [state : [Trades -> Venue], size : [Trades -> Nat], traded : [Trades -> Nat]]
Slots    == 1 .. MaxDrops + MaxRestarts

TypeOK ==
  /\ map \in [Trades -> Orders \cup {None}]
  /\ place \in [Orders -> PlaceLegs]
  /\ cancel \in [Callers -> [Orders -> Legs]]
  /\ modify \in [Orders -> Legs]
  /\ sweep \in SUBSET Orders
  /\ recheck \in Trades \cup {None}
  /\ recon \in [Slots -> ReconPcs]
  /\ rows \in [Slots -> SUBSET Trades]
  /\ seen \in [Slots -> View]
  /\ who \in [Slots -> [Trades -> Orders \cup {None}]]
  /\ events \in Seq(Event)
  /\ status \in [Orders -> Statuses]
  /\ known \in [Orders -> BOOLEAN]
  /\ qty \in [Orders -> Nat]
  /\ fills \in [Orders -> SUBSET TradeIds]
  /\ \A o \in Orders : IsFiniteSet(fills[o])
  /\ inferred \in [Orders -> Nat]
  /\ venue \in [Trades -> Venue]
  /\ size \in [Trades -> Nat]
  /\ traded \in [Trades -> Nat]
  /\ link \in {"up", "down", "off"}
  /\ feed \in Seq(Message)
  /\ used \in [Counters -> Nat]

-----------------------------------------------------------------------------
(* Helpers. *)

Closed(o) == status[o] \in ClosedStatuses

\* Shares the ledger holds for o: one per deal, plus what reports contributed.
Filled(o) == Cardinality(fills[o]) + inferred[o]

Spend(k) == used' = [used EXCEPT ![k] = @ + 1]

\* The transport failed after the request of o was sent; "lost" is the "done"
\* of such an order, kept apart as history.
Cut(o) == place[o] \in {"cut", "lost"}

\* cancel_order of caller c for order o moves to another leg.
WithLeg(c, o, leg) == [cancel EXCEPT ![c] = [cancel[c] EXCEPT ![o] = leg]]

Larger(a, b) == IF a > b THEN a ELSE b

\* A queued order event: what, for which order, which deal, which quantity.
Ev(type, o)        == [type |-> type, order |-> o, id |-> None, n |-> 0]
FillEv(o, id)      == [type |-> "filled", order |-> o, id |-> id, n |-> 1]
UpdateEv(o, n)     == [type |-> "updated", order |-> o, id |-> None, n |-> n]
Generate(es)       == events' = events \o es

\* A message of the gateway reaches only a client that is connected.
Msg(op, t, ok, n)  == [op |-> op, trade |-> t, ok |-> ok, n |-> n]
Emit(m)            == feed' = IF link = "up" THEN Append(feed, m) ELSE feed
=============================================================================
