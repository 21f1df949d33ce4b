# Verification of sinopac-nt

TLA+ models of the SinoPac adapter for NautilusTrader, checked with TLC, and
theorems about them, checked with TLAPS. The adapter turns NautilusTrader
commands into HTTP requests and WebSocket subscriptions of a SinoPac gateway,
and the gateway's contracts, replies, order events and market data back into
NautilusTrader instruments and events. Paths below are relative to the
repository's root; `execution.py`, `data.py`, `factories.py`, `providers.py` and
`tags.py` are in `src/python/sinopac_nt/`, all Rust files in `src/src/`, where
`websocket/parse.rs` and `http/parse.rs` are named with their directory.

    tlc -workers 2 -config MC_<run>.cfg <module of the run>      (section 3)
    tlapm <module>_proofs.tla                                    (section 5)

`PROJECT.json` lists every run with its properties, the source lines each
definition models, the mutant that shows each property can fail, the hazards of
the code and the findings.

## 1. Inventory

| Component | State | Operations | Modelled in |
|---|---|---|---|
| Execution client, `execution.py` 495-1422 | `_trade_id_to_client_order_id`, tasks awaiting HTTP | submit, modify, cancel, cancel-all, submit list, batch cancel, WebSocket handlers, reconnect reconciliation, reports | `ExecState`, `ExecOrders`; what a ticket says: `OrderDesk` |
| Order rules, `execution.py` 110-495, `tags.py` | none (pure) | order type, time in force, tag, lot and price-grid rules | `OrderDesk` |
| Instrument provider, `providers.py` | loaded instruments | load_all | `OrderDesk` |
| Tick and multiplier tables, `common/tick_size.rs`, `common/instrument.rs` | none | lookup | `TickGrid` |
| Instrument building, `http/models.rs`, `http/parse.rs` 171-423 | none | row to equity, future, option | `Instruments` |
| HTTP client and binding, `http/`, `python/http.rs` | session | place, update, cancel, list_trades, contracts, history | `GatewayHttp` (the exchange), `ExecEnvironment` (outcomes) |
| Market data parsing, `websocket/messages.rs`, `websocket/parse.rs`, history in `http/parse.rs` | none | frame to trade, quote, depth, deltas; history to bars, ticks | `MarketMessages` |
| Order event parsing, `websocket/order_parse.rs`, `messages.rs` | none | event to dictionary | `MarketMessages`; its meaning: `ExecOrders` |
| Callback loop, `python/websocket.rs` | emit flags, precisions | py_connect, wait_until_active, set_bidask_outputs, one message at a time | `MarketData`, `SharedSocket`, `MarketFeed` |
| Dispatcher, `factories.py` 116-187 | `_handlers`, `_refcount` | register, unregister, ensure_connected, release, dispatch | `SharedSocket` |
| Data client, `data.py` | four subscription sets | connect, disconnect, subscribe, unsubscribe, historical requests | `SharedSocket`, `MarketFeed`, `MarketData` |
| WebSocket client, `websocket/client.rs` | connection mode, `cmd_tx`, `out_rx`, stop signal, task handle | connect, disconnect, subscribe, unsubscribe, take_msg_rx | `SharedSocket`, `MarketFeed` |
| Feed handler, `websocket/handler.rs` | owned client, command and raw channels, tracked subscriptions | the `select!` loop, resubscribe_all | `SharedSocket`, `MarketFeed`, `ExecOrders` |
| Config, constants, enums, URLs, package surface | none | | the enums on the wire: `GatewayHttp` |
| Gateway, exchange, NautilusTrader, nautilus_network | external | | `ExecEnvironment`; actions marked external |

**How they interact.** One process holds one HTTP client, one WebSocket client
and one dispatcher, shared by the data and the execution client. The provider
loads the instruments once, before the clients connect; execution snaps prices by
them and names markets by their class, the callback loop takes their decimals.
Commands run as tasks of the asyncio loop; every HTTP request and WebSocket call
is awaited there and executes on tokio threads. A handler task per connection
reads frames and commands; it passes messages in order to a callback loop, which
calls the dispatcher on a tokio thread, *not* on the asyncio loop. Order events
the client generates are queued for the execution engine, which applies them
later; the client reads the engine's cache to decide what an event means.

**What is hard.**

- An order has two channels back: the HTTP reply and the WebSocket. Nothing
  orders them. Events about a trade arrive before the mapping for it exists;
  deal events do not even carry the token that order events echo.
- What the client reads of an order is behind what it has generated about it.
- A dropped connection loses events; `list_trades` is polled afterwards, and its
  snapshot is older than the events that overtake it. A restart loses the
  mapping altogether.
- A request that fails after it was sent may or may not have been executed.
- Two clients share a socket whose connect has several awaits, a refcount, a
  stop signal *and* a stop command, and a reconnection beneath it.
- Subscription sets, emit flags, handler set and gateway are four copies of one
  fact, changed at different moments by interleaving tasks.
- The tick of a price depends on the price, but an instrument has one tick and
  one number of decimals, those of its reference price on the day of the load.
- The order rules read values that earlier rules defaulted or coerced.
- Three views of one book are made of a frame, each with early returns of its
  own; a malformed frame must not take the order events down with it.

**What makes each component correct.**

- *Order path*: an event is attributed to the order it is about (`MapSound`); no
  fill is invented or double-keyed (`FillsGenuine`), none lost (`NoDealLost`);
  an order shown as rejected or cancelled cannot trade (`RejectedIsDead`,
  `CanceledIsGone`), or in the one case where the code breaks this, its request was
  cut off (`HiddenOnlyIfCut`); a closed order agrees with the exchange (`ClosedSettled`),
  and every order does when nothing is on its way (`QuietAgrees`);
  the whole is an implementation of a two-sided ledger (`LedgerKept`); requests
  are answered, ends are noticed, also after drops and restarts (liveness).
- *Order desk*: a ticket is lawful (`SentIsLawful`), a local denial is never
  stricter than the venue (`OnlyUnlawfulDenied`), a limit price goes to the nearest
  point of the grid (`SentIsSnapped`), decimals lose nothing (`PricesExact`), a
  contract is missing only for a reason (`ListedIsCached`).
- *Shared socket*: one stream feeds the dispatcher (`OneStream`, `SoleStream`);
  no client is cut off by the other (`NeverSevered`); the last one out stops the
  handler (`Silenced`), and its stop goes to the right one (`StopReaches`).
- *Subscriptions*: nothing is emitted that nobody wants (`OnlySubscribed`); the
  four copies agree when nothing is under way (`Agreed`); what is subscribed is
  streamed (`Delivered`).
- *Market data*: the book is one frame, never a mixture (`BookIsOneFrame`); quote,
  depth and deltas of a frame agree (`ViewsAgree`), the quote keeps up
  (`QuoteKeepsUp`); TradeIds tell deals apart (`DealsToldApart`); history is whole
  (`HistoryWhole`); no frame stops the order events (`EventsDelivered`), and none is
  lost, repeated or overtaken (`EventsInOrder`).

## 2. The models

### ExecState, ExecEnvironment, ExecOrders: the order path

`ExecState` declares parameters, state and helpers. `ExecEnvironment` holds what
the repository does not: the engine (events applied one by one, illegal
transitions dropped), the gateway and the exchange; it leaves open every choice
the client's code cannot rule out. `ExecOrders` is the client; its `Next`
composes both.

| Code | Model |
|---|---|
| `_submit_order` up to the await | `Submit`: unsupported type, invalid order, or request sent |
| the rest of `_submit_order` | `PlaceReturns`: ok (`PlaceOk`), status Failed (`PlaceFailed`), an exception (`PlaceError`) |
| `_cancel_order`, `_cancel_all_orders` | `CancelOrder`; `CancelAllOrders` reads the list, `SweepNext` awaits one request at a time; `CancelReturns` |
| `_modify_order` | `ModifyOrder`, `ModifyReturns` |
| `_handle_order_status_event` and `_handle_order_op_failure` | `HandleNew`, `HandleCancel`, `HandleUpdate` |
| `_handle_deal_event` | `HandleDeal`, then `RecheckDeal`: the order is read again after the fill was queued, and the engine may run in between |
| `_resolve_client_order_id` | `Resolve`, `Backfilled` |
| the reconnected event, `_reconcile_after_reconnect` | `HandleReconnected`, `GatewayList`, `ReconReports`, `ReconSend` |
| start, crash | `StartUp`, `Restart` (cache and exchange survive, the rest does not) |
| drop and reconnection beneath the client | `DropLink` (what was on the wire is lost), `Reconnect` (sentinel in order) |

A trade is named by the order that created it, so "the mapping leads to the
right order" is `map[t] = t`. Trades of other sessions on the account are
`Foreign`. A deal is the pair of trade and number, which stands for its TradeId;
that the TradeId does tell deals apart is `DealsToldApart` of `MarketData`.

A request that a transport fault hits after it was sent is `cut`, and `lost` once
its handler has run; the exchange may execute it all the same. The bindings raise
RuntimeError for it as for any failure (`python/http.rs` 315-318), so the handler
takes its generic branch and rejects the order; the branch for TimeoutError and
OSError (`execution.py` 1082) is never taken and is no action. `WrittenOff` names
the orders this leaves rejected: `RejectedIsDead` fails for them
(`hidden_exposure`), `HiddenOnlyIfCut` says that it fails for no others, and
`NoDealLost`, `ClosedSettled` and `QuietAgrees` speak of every order but these, the
ones cut off and not rejected included.

Assumptions, each a named `ASSUME` or a bound:

- `TokenAssumption`: tokens of different orders differ and no other session
  uses one of ours. `execution.py` 857-860 makes the same assumption.
- The feed is FIFO and the callback handles one message at a time
  (`python/websocket.rs` 144-323). The engine's queue is FIFO and runs at any
  moment.
- The instrument of an order or a row is in the cache, and a row has a status the
  gateway documents: the guards at `execution.py` 712, 798-801 and 1263-1265 and the
  default DENIED at 1270-1275 are not modelled.
- Which rules reject an order is left open: `Submit` may take either rejection.
  The rules themselves are `OrderDesk`.
- Pending states of the engine (PENDING_CANCEL, PENDING_UPDATE) are not kept: no
  branch of `execution.py` reads one.
- A deal that arrives between the snapshot of a startup reconciliation and its
  processing finds no mapping and is dropped; so does the code. That is why
  `NoDealLost` speaks of behaviours without gap (`NoGap`).

### OrderLedger: what the order path promises

The abstract specification has, of each order, where it stands at the exchange,
its executions, those the ledger has booked, and what the ledger closed it as.
The two sides move on their own; the ledger may lag for ever, but it books only
what was executed, once, and closes an order only after the exchange is done with
it. `ExecOrders!Ledger` is the refinement mapping: `venue` and `place` map to
`standing` (an order that was sent and is not at the exchange, now or later, is
refused; one that was not sent is away), `traded` to `deals`, the TradeIds in
`fills` to `booked`, the engine's status to `verdict`. Replies, messages, the
mapping, reconciliations, drops and restarts have no counterpart: they are
stutters until they move the ledger. `LedgerKept` is the abstract specification
as a property of the detailed one.

### TickGrid, Instruments, GatewayHttp, OrderDesk: from a contract to a ticket

`TickGrid` has the tables and the arithmetic, in hundredths of a TWD, the finest
unit any table uses; `Rounded` is what the library's Price does with more
decimals than it keeps. `Instruments` builds an instrument of a row: which fields
serde requires and defaults, each `?` and each early return. `GatewayHttp` is one
HTTP exchange: an answer, or one RuntimeError whatever went wrong. `OrderDesk`
follows one order from the strategy to the venue:

| Code | Model |
|---|---|
| `load_all_async`, `_fetch_all_instruments`, `request_*_instruments` | `LoadAll`: three lists, each answered or not, decoded or not |
| `_submit_order` up to the await | `Submit`: `Refuses` (order type, tags, lot and time-in-force rules in the code's order) or `Ticket` |
| `_determine_market`, `_resolve_order_type`, `_resolve_send_price`, `_snap_price_to_grid`, `_validate_and_map_tags`, `_validate_stock_lot_rules`, `_resolve_tag_enums` | operators of these names |
| the reply of `place_order` | `PlaceReturns`, `PlacedAs`: any error rejects |
| `_modify_order` | `ModifyOrder`, `UpdateReturns`: the amended price goes out as it is |

External, and left as free as the code leaves it: `RiskEngineAdmits` (the engine
denies an order for an unknown instrument, or a price with more decimals than it),
`Relist` (the exchange lists a contract anew each day, the client does not look),
`OrderEnds`, and the venue: `VenueTick` takes the same tables at the price itself
(for a root in no table the code's own default, so that the properties on the
grid say nothing about those),
`Lawful` states the venue's rules as `docs/sinopac.md` 199-290 has them.
`DeskAssumption` says what is listed: prices are not negative, a stock's lower
limit is at least a fifth of its reference, a future stays the product it is.
`OrderAssumption` says what a NautilusTrader order is: a limit order has a price, a
quantity is not negative.

Loading is one action although the three requests run concurrently: nothing reads
the provider meanwhile, and no request changes the gateway.

### SharedSocket: one connection for two clients

A socket is one `nautilus_network::WebSocketClient` with the channels and the
handler task that `connect()` makes for it. Each action runs from one await to
the next: `Connect` (register, test), `OpenBegin` (test again, reset the stop
signal), `OpenHandshake`, `OpenChannels`, `OpenSpawn`, `TakeRx`, `WaitActive`;
`Release`, `StopSignal`, `StopSend`, `StopDone`; and for each handler `LoopTop` (the signal is
looked at once per round), `OnCommand`, `OnFrame`, `OnClosed`. `cmd_tx`, `out_rx`
and the signal are shared, so a second `connect()` overwrites them under the
first, and a send to a handler that has ended fails and `connect()` with it
(`OpenSpawn`). `disconnect()` is two steps: it raises the signal
(`StopSignal`), awaits the lock on `cmd_tx` and then sends `Disconnect` (`StopSend`);
in between the handler may exit on the signal or wait in `select!` with nothing
in its queue. The history variable `overlapped` records that two `connect()` calls were
open at once. Left open, because it is nautilus_network's business: whether
dropping a WebSocketClient closes its connection. A Close frame that ends the
handler while its connection lives on (`handler.rs` 163-166) is left out:
nautilus_network is taken to act on Close frames itself and to hand none on.

Each client connects once per process, and the node disconnects its clients only
after every one has finished connecting: `Connect` and `Release` say so. A client
whose `_connect` fails before `register` is not modelled.

### MarketFeed: subscriptions

`Subscribe` and `Unsubscribe` run the Python handlers up to their await;
`SendCall` is the Rust call putting the command on the channel; `Resume` the rest
of the handler, which writes the emit flags from the sets *as they are then*.
`HandleCommand` and `HandleReconnected` are the feed handler; `Drop` and
`Reconnect` are external. `InOrder` says whether awaited calls reach the channel
in the order they were made. A command repeated for a member of the set only
logs, and is left out. A call to a handler that has ended, which raises after the
set has changed, is not modelled.

### MarketMessages, MarketData: from a frame to the engines

A JSON object is a function from the names of its fields. `MarketMessages` has
what serde requires of each frame and the parsers with every early return: `Err`
where the code returns Err or None, `Panic` where a constructor of the library
panics (a TradeId that is too long). `Levels` is the zip of prices and volumes:
the shorter list decides, and levels without volume are skipped (`Kept`; the k-th
of the others is at `Position`). `MarketData` is the loop: `HandleFrame` decodes a frame,
makes of it what the emit flags ask for, in the code's order, and calls back;
`Survives` is the `catch_unwind` around it. `SetOutputs` changes the flags at any
moment (when the data client does is `MarketFeed`). `Deliver` is the engine: the
latest piece of each kind, the order book a list of deltas leaves (`Applied`,
external: what was added after the last CLEAR, on top of the old book only if
there was none; two levels of a side at one price stay apart, where the library
keeps one), the TradeIds and the order events. `RequestBars` and `RequestTradeTicks` are the
historical requests over `GatewayHttp`. A timestamp is a member of a set, parsed or
not; only its presence and its uniqueness matter here. There is one instrument
(`MarketAssumption`): the engine keeps a book of each, and the frames of two share
the loop and nothing else. A book that decodes lists the best level first
(`FrameAssumption`): the code calls the first one "top-of-book"
(`websocket/parse.rs` 70-112) and never compares prices, so it rests on this, and
`ViewsAgree` with it; `BookIsOneFrame` and `QuoteKeepsUp` say what does not.

## 3. The runs

| Run (module) | Bounds | Shows |
|---|---|---|
| `exec_core` (`MCExecOrders`) | 1 order of 2 shares (odd lot), 1 foreign trade, 1 cancel, 1 modify, transport faults | `TypeOK MapSound FillsGenuine NoDealLost HiddenOnlyIfCut ClosedSettled QuietAgrees` on an unbroken connection |
| `exec_sweep` (`MCExecOrders`) | 2 orders, 1 cancel_all | `ClosedSettled QuietAgrees` while the sweep works through a stale list |
| `exec_reconnect` (`MCExecOrders`) | 1 order of 2 shares, 1 cancel, 1 drop, 1 restart, failing lists | `RejectedIsDead CanceledIsGone`, and `LedgerKept`: the refinement of `OrderLedger` |
| `exec_live` (`MCExecOrders`) | 1 order, 1 cancel, 1 drop, 1 restart, fairness | `SubmitResolves CancelAnswered ClosureReflected EndRecovered AdoptedAfterRestart` |
| `socket` (`MCSharedSocket`) | 2 clients, 3 sockets, 2 drops, fairness | `TypeOK SoleStream NeverSevered StopReaches Silenced` |
| `feed` (`MCMarketFeed`) | 1 instrument, 5 commands, 2 drops, calls in order, fairness | `TypeOK OnlySubscribed Agreed Delivered` |
| `desk` (`MCOrderDesk`) | 6 contracts, 12 listings, 1 relisting, 1003 orders, 4 amendments; deadlock checked | `TypeOK SentIsLawful OnlyUnlawfulDenied SentIsSnapped PricesExact ListedIsCached` |
| `market` (`MCMarketData`) | 3 inputs among 21 frames, 8 settings of the flags and 10 replies, fairness | `TypeOK BookIsOneFrame ViewsAgree QuoteKeepsUp DealsToldApart EventsInOrder HistoryWhole EventsDelivered` |
| `hidden_exposure`, `double_count`, `double_connect`, `off_grid` | as small as the violation allows | the findings below |

**Why the bounds are enough.** Orders interact only through the mapping, the
token search and the sweep, so two of them (or one and a foreign trade) meet in
every way; two shares give partial fills, a cancel after a fill and two deals
under one trade. One drop and one restart give a reconciliation that overlaps
the other (`Slots` is their number). Three sockets are one for each client and
one more; two drops meet a connect, a reconnect and a release. Instruments do not
interact in `MarketFeed`; five commands subscribe, unsubscribe and resubscribe
two kinds that share a topic. In `desk` the contracts are a stock, an ETF, and a
future on a stock, on a sector index and on a metal, and an option: one for each
branch of the tables; the rows lie on either side of a band boundary, and there
is one for each way to fail; the orders are all prices with plain tags and all
combinations of the other parameters at one price, with a quantity on either
side of the odd-lot limit. One relisting is a tick that is stale, and orders do
not interact. In `market` the frames are two full books and one for each early
return, ticks likewise, deals with and without the exchange's sequence number;
every property relates at most two frames and a change of the flags between
them, or a poisoned frame and the events on its two sides. The theorems carry
most of the safety properties to any bounds (section 5).

`exec_core` has transport faults as the bindings raise them, and says of the orders
they hit what the code still keeps; `exec_sweep`, `exec_reconnect` and `exec_live`
have none, so that their properties speak of every order. Deadlock is not checked except in `desk`: once commands, faults and inputs are
spent, the other systems may rightly stop.

**Fairness.** Weak fairness of: the engine, the callback loop and the
continuation of an answered await (the loop and tokio run their tasks); the
gateway answering a request and the exchange deciding on an order (without it
nothing can be promised); reconnection (`reconnect_max_attempts: None`,
`client.rs` 141) and the start of a restarted process; the steps of `connect()`
and `disconnect()` and of the handler; in `market`, the engines working off what
the loop called back with. Never of commands, deals, cancels by the exchange,
frames, drops or faults.

**Mutants.** An operator `X_Y` above an operator `X` is a mistake a programmer
could make in `X`; no action uses it. Each property of a passing run fails when
its mutant takes the place of the original.

## 4. Findings

Each of the first four is a run that ends in a violation.

1. `hidden_exposure`: a timeout after `place_order` was sent reaches Python as
   RuntimeError (`python/http.rs` 315-318), so `except Exception` rejects an
   order that may be working. The branch written for it (`execution.py` 1082)
   is never taken. `HiddenOnlyIfCut` bounds the damage: no other order is ever
   rejected and alive.
2. `double_count`: the engine infers fills from a report's `filled_qty` under its
   own identifier; the deal event of the same share counts again. This rests on
   the engine's handling of a mass status without fill reports, as `ReconSend`
   states it.
3. `double_connect`: both clients find the socket inactive and open one each;
   both feed the dispatcher. With other interleavings `SetClient` goes to the
   wrong handler, or a running handler loses its receiver; that is why
   `NeverSevered` excludes overlapping calls.
4. `off_grid`: a limit price is snapped to the tick of the reference price's
   band, and the venue's tick is that of the price; above the next boundary the
   two differ. A modified price is not snapped at all. `SentIsSnapped` is what
   the snapping does achieve.

Observed while modelling, without a run of their own:

5. A New failure may arrive before the HTTP reply, so the order need not be
   ACCEPTED by then as the comment at `execution.py` 745-746 has it. The late
   reply then maps and accepts the rejected order; the engine refuses to reopen
   it.
6. A deal that overtakes the report of a reconciliation hides one lost in the
   gap, since the report's quantity is then no longer above the ledger's. The
   reconciliation "to converge the ledger" (`execution.py` 624-625) does not.
7. Unsubscribe and a later subscribe of one instrument run as separate tasks
   (`data.py` 314); if they reach the channel in the other order, the
   subscription is held and never streamed, and a reconnection does not bring it
   back, contrary to "all active subscriptions are resubscribed"
   (`docs/sinopac.md` 343-344).
8. Comments that differ from the code: `common/tick_size.rs` 48 calls the ETF
   schedule "coarser-below-50 / finer-above", the table is the reverse;
   `docs/sinopac.md` 362 has over-precision values return errors, they are
   rounded; `docs/sinopac.md` 365 has length-mismatched bid and ask arrays
   rejected, `websocket/parse.rs` 133, 149, 200 and 222 zip them to the shorter;
   `http/models.rs` 234-262 calls timestamps milliseconds that
   `http/parse.rs` 77, 115 and 161 take as nanoseconds.
9. A trade's identifier is contract code and timestamp (`websocket/parse.rs` 64).
   For an option like `TXO20000C6` with the microseconds of the fixtures
   (`test_data/ws_tick_futures.json` 14) that is 37 characters; if the library's
   TradeId holds 36, as we recall (its source is not in the repository), every
   option tick panics and is lost with a log line. `LongIds` has such a pair, and
   the runs show that nothing else is lost with it.
10. A deal reported once without and once with its `exchange_seq`
   ("may be absent, e.g. simulation / pre-confirmation", `order_parse.rs` 85) would
   be booked twice, under two TradeIds. `NumberingAssumption` excludes it.

## 5. The proofs

| Theorem | Says | Module |
|---|---|---|
| `TypeCorrect`, `MapCorrect` | `TypeOK`, `MapSound` | `ExecOrders_proofs` |
| `FillsCorrect` | `FillsGenuine` | `ExecOrders_proofs` |
| `RejectedCorrect` | `HiddenOnlyIfCut` | `ExecOrders_proofs` |
| `DealsCorrect` | `NoDealLost` | `ExecDelivery_proofs` |
| `SettledCorrect` | `ClosedSettled` | `ExecDelivery_proofs` |
| `AgreementCorrect` | `QuietAgrees` | `ExecDelivery_proofs` |
| `CanceledCorrect` | `CanceledIsGone` | `LedgerRefinement_proofs` |
| `LedgerRefined` | `Spec => LedgerKept`, without transport faults | `LedgerRefinement_proofs` |
| `FaithfulCorrect`, `ClosedCorrect` | `Faithful`, `ClosedForGood` of the abstract ledger | `OrderLedger_proofs` |
| `TypeCorrect`, `SoleCorrect`, `SeveredCorrect`, `StopCorrect` | `TypeOK`, `SoleStream`, `NeverSevered`, `StopReaches` | `SharedSocket_proofs` |
| `TypeCorrect`, `EmitCorrect` | `TypeOK`, `OnlySubscribed` | `MarketFeed_proofs` |
| `AgreedCorrect` | `Agreed`, if `InOrder` | `MarketFeed_proofs` |
| `TypeCorrect`, `LawfulCorrect`, `DeniedCorrect`, `SnappedCorrect`, `ExactCorrect`, `ListedCorrect` | `TypeOK`, `SentIsLawful`, `OnlyUnlawfulDenied`, `SentIsSnapped`, `PricesExact`, `ListedIsCached` | `OrderDesk_proofs` |
| `TypeCorrect`, `BookCorrect`, `ViewsCorrect`, `QuoteCorrect`, `HistoryCorrect` | `TypeOK`, `BookIsOneFrame`, `ViewsAgree`, `QuoteKeepsUp`, `HistoryWhole` | `MarketData_proofs` |
| `EventsCorrect` | `EventsInOrder` | `MarketData_proofs` |
| `ApartCorrect` | `DealsToldApart` | `MarketData_proofs` |

They hold for every value of the constants that the named assumptions
(`TokenAssumption`, `ParameterAssumption`, `SocketAssumption`, `FeedAssumption`,
`ErrAssumption`, `DeskAssumption`, `ListingAssumption`, `SentinelAssumption`,
`OrderAssumption`, `MarketAssumption`, `FrameAssumption`, `ReplyAssumption`,
`QuoteAssumption`, `EventAssumption`, `NumberingAssumption`) admit.
`SentinelAssumption`, `QuoteAssumption` and `EventAssumption` only say that `Err`,
`None` and `Panic` are none of the values they stand beside.

- `MapCorrect`: `MapSound` is not inductive. A reconciliation resolves its rows
  in one step and reports them in another, so `MapInv` adds that whatever a
  reconciliation has resolved (`who`) is sound as well. The step that matters is
  `ResolveSound`: from a sound mapping, a trade's token leads to its own order or
  to none, by `TokenAssumption`.
- `FillsCorrect`: `DealInv` follows a deal along its way: every Deal message in
  the feed names a share that was executed, so does every queued fill (via
  `MapSound`, the order is the trade's), so does every TradeId in the ledger.
  `DealStep` is what a step may do: shares executed never shrink, and every new
  message, event and TradeId has its cause in the state before.
- `RejectedCorrect`: `RejInv` says where a rejection can come from. An HTTP
  error or status Failed is only seen when the gateway holds no trade or a failed
  one, or when the request was cut off, which `Cut` never forgets; a failed New message in the feed, and a failed row of a reconciliation,
  name a trade the exchange refused; "none" after a submit and "failed" are
  final. The theorem holds with transport faults; what they break is in its
  statement, and `hidden_exposure` shows that it is broken.
- `CanceledCorrect`: the same for cancellations, by `CanInv`: a cancellation is at
  the exchange before its message, row or reply is sent, before its event is
  queued, before it is applied. `FreshInv` (an order is not at the exchange before
  it is submitted) excludes that the state is left again.
- `LedgerRefined`: every step of the order path is of one side only (`OneSide`):
  it moves the exchange, where each order makes a move of the abstract exchange or
  none, or the ledger, where `DealInv`, `RejInv` and `CanInv` give the cause the
  abstract action asks for. The abstract ledger closes no order that the exchange
  may execute, so the theorem assumes that there are no transport faults
  (`hidden_exposure`). `FaithfulCorrect` and `ClosedCorrect` are then what
  the order path inherits.
- `DealsCorrect`, `SettledCorrect`: deal events carry no token, so a deal is lost
  unless the mapping leads to its order when it arrives. `DeliveryInv` follows each
  order up to the first gap. `Attributed`: as long as it works or a deal of it has
  not been passed on, the mapping exists or the New event that will make it is in
  the feed, in front of the deals (`Ordered`). `Delivered`: every share executed is
  a deal in the feed, a queued fill or a fill in the ledger. The engine refuses
  none, since its queue tells the story in order and an order is full only with
  as many fills as shares (`Full`, which rests on quantities that only shrink,
  `Agreed`). Behind a cancel nothing comes (`NothingLate`), so what is closed is
  settled. An order that is written off is not resolved by its token any more, and
  its deals are dropped: `DeliveryInv` lets go of an order when, and only when, the
  ledger rejects it for a cut request, and it never comes back (`WrittenOffStays`).
- `AgreementCorrect`: `DeliveryInv` accounts for the deals; `QuietInv` does for the
  rest. What the ledger lacks of an order is in the feed or in the queue: its
  cancel (`EndHeard`), the exchange's quantity (`SizeHeard`), its refusal or its
  acceptance (`Answered`). Presence is not enough where a later word can be
  overwritten: the exchange's quantity comes behind those it replaced, and with it
  in the ledger none of them is left (`Shrinking`); the deal that fills an order
  comes behind every change of it (`LastComes`), so the ledger compares its fills
  with the final quantity and closes the order (`FillHeard`). The engine drops a
  new quantity unless the order is accepted and open, which `Asked` (only an order
  with a venue_order_id is changed) and `Shown` give. An order whose request was
  cut off is rejected by its handler, or was taken by then through a deal, and a
  written-off one is excepted (`GivenUp`).
- `SharedSocket_proofs`: `CountInv` (the refcount is the number of registered
  clients) gives `OverInv`: the stop signal and the stop command exist only when
  every client has left. `MakeInv`: unless two `connect()` calls overlap, one
  client at most is setting a socket up. `LiveInv`: from its handshake on, a
  socket has a maker about to spawn its handler or a running handler with at most
  its own `SetClient` to read, which is why nobody is cut off. `SoleInv`: while
  nothing drops, only the current socket is active.
- `StopCorrect`: `ReachInv` says that a connect in progress works on the current
  connection, and that `cmd_tx` leads to its handler or the client that has
  shaken hands is about to make it so. When the signal is raised, every client
  has left (`OverInv`), so no connect is in progress: between the signal and the
  command a handler may wait in `select!` with nothing queued, but the `Disconnect`
  that follows goes to its channel; then it stays in the queue until that handler
  takes it, and taking it ends the handler. A second connect that overlaps the
  first can have moved `cmd_tx`, and the theorem excludes that as `StopReaches` does.
- `EmitCorrect`: `EmitInv` is `OnlySubscribed` with the types. Every handler that
  shrinks a set rewrites the flags before it awaits, and `Resume` writes them from
  the sets of the moment. No assumption on the order of calls is needed.
- `AgreedCorrect`: `WordInv` says that the latest word on a topic is what is
  wanted, wherever it is: in the last call not sent, else in the last command
  queued, else in what the handler tracks. `SendCall` keeps it only because it
  sends the oldest call, which is where `InOrder` is needed (finding 7).
  `StreamInv` ties the gateway to the handler, also across drops; `FlagInv` ties
  the flags to the sets, or to a call whose return will write them.
- `OrderDesk_proofs`: `DeskInv` says that every cached instrument was built from a
  row on a grid of the tables (`CacheGood`), and that a ticket and a denial are
  those of an order that was asked for (`Judged`). `SnapNearest`, `GridExact` and
  `TickChain` are the arithmetic: the nearest multiple is within half a tick, a
  tick is a multiple of the unit of its own decimals, and each tick of the table
  is a multiple of the next finer one, which is why a coarser snap stays on a
  finer grid. `ExactCorrect` needs the daily limits: a price of the day is at
  least a fifth of the reference, and five times a price never reaches a band
  with too few decimals.
- `ListedCorrect`: a list that arrives and decodes is not `Err`, whatever became of
  the two others, and what parses is in it.
- `MarketData_proofs`: first the parsers, for columns of any length. `Positions`
  is what `Position` promises: a finite set of numbers has a first, a second and
  so on, and each once; from it the kept levels are those with a volume, in their
  order. `RoundedMonotone` keeps the best level the best one after rounding.
  `DeltasApplied`: CLEAR comes first and once, so whatever the book was, it is what
  the deltas add. `Fair` is what the loop makes of one frame: pieces that show it
  (`Right`), the quote before the deltas. `MarketInv` carries that through the
  queue: what waits or was taken is a view of a frame that was sent (`Queued`,
  `Seen`), the book is that of the last deltas (`Mirrored`). `QuoteKeepsUp` needs
  two conjuncts more: pieces wait in the order of their frames (`InOrder`), and
  deltas have their quote in front of them or it was the last one taken (`Led`);
  without the order, a newer quote could have replaced it. TLC cannot evaluate
  `MarketInv` (it speaks of any book there could have been before); the runs check
  what follows from it.
- `EventsCorrect`: `EventInv` splits what has come into two stretches, what was
  handed on and what waits behind it, each in the order sent and each frame once.
  A frame that is no event, is malformed or makes a constructor panic adds
  nothing to either (`Survives` keeps the loop alive), an event adds its own
  piece at the end, and the engine takes from the front.
- `ApartCorrect`: each fill's TradeId is made of the fields of the frame the deal
  came in, so two are equal exactly when the frames agree in trade, sequence
  number and, without one, ordno. `NumberingAssumption` is the rest: of one
  trade, the deals of one `ordno` have one sequence number or all none, one
  sequence number belongs to one `ordno`, and no sequence number is also an
  `ordno`, which is more than `order_parse.rs` 76-87 says (finding 10). It speaks
  of the exchange's numbers only; that the code picks the one that tells deals
  apart, and takes an empty one for none, is what is proved.

Only model-checked:

- `SubmitResolves`, `CancelAnswered`, `ClosureReflected`, `EndRecovered`,
  `AdoptedAfterRestart`, `Silenced`, `Delivered`, `EventsDelivered`: liveness, which
  rests on fairness and ENABLED, beyond the prover.

## 6. Not modelled

- `_submit_order_list` and `_batch_cancel_orders`: loops that await modelled
  operations one after the other, so what they do is among the behaviours of
  `Submit` and `CancelOrder`. Login, status, balance, margin, snapshot and
  position requests: read-only, passed through.
- The asyncio side of calling `create_task` from the callback thread
  (`execution.py` 631): the reconciliation is taken to start.
- A request in flight when the process dies is never answered; `EndRecovered`
  excludes restarts, since nothing in the repository looks for it.
- A socket that is reconnecting while the last client leaves
  (`factories.py` 166) stays open: `Release` does that, and no property speaks of
  it, since the code promises nothing about it.
- Names, exchanges, formatting and the date formats; NaN and infinity, which JSON
  does not carry; the configuration and the factories' caches.

## 7. Plan

Done: the order path with its refinement and proofs, the shared socket and the
subscriptions with theirs, tickets and tables with theirs, frames to engines with
theirs; every safety property of the runs is a theorem. Open:

1. Composition of `SharedSocket` with the feed of `ExecOrders`: a second stream
   delivers each event twice; which properties survive duplicates.
2. Account state and position reports of `execution.py` against
   `ExecEnvironment`'s engine; snapshots.
