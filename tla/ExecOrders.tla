----------------------------- MODULE ExecOrders -----------------------------
(***************************************************************************)
(* The order path of SinopacExecutionClient (execution.py): how an order   *)
(* travels from _submit_order over HTTP to the gateway, how the gateway's  *)
(* order and deal events come back over the shared WebSocket, and how both *)
(* meet in the ledger of the execution engine.                             *)
(*                                                                         *)
(* Three threads of control interleave freely: the asyncio loop (one task  *)
(* per command, one per reconciliation), the tokio thread that runs the    *)
(* WebSocket callback, and the engine that applies queued order events.    *)
(*                                                                         *)
(* An operator X_Y is a mutant of the operator X that follows it: what a   *)
(* plausible mistake would make of it. No action uses one.                 *)
(***************************************************************************)
EXTENDS ExecEnvironment

-----------------------------------------------------------------------------
(* Resolving an event to an order. *)

\* Order events echo custom_field; deal events have no such field.
TokenOf(m) == IF m.op = "Deal" THEN NoToken ELSE Token[m.trade]

\* Mutant: any open order will do.
Candidates_IgnoreToken(tok) == {o \in Orders : ~Closed(o)}

\* Mutant: only an order the venue has acknowledged is looked for.
Candidates_AcceptedOnly(tok) == {o \in Orders : status[o] = "ACCEPTED" /\ Token[o] = tok}

\* The open orders whose recomputed token equals tok.
Candidates(tok) == {o \in Orders : ~Closed(o) /\ Token[o] = tok}

\* Mutant: an event without mapping and token goes to some open order.
Resolve_Guess(t, tok) ==
  LET open == {o \in Orders : ~Closed(o) /\ (tok = NoToken \/ Token[o] = tok)}
  IN IF map[t] # None \/ open = {} THEN map[t] ELSE CHOOSE o \in open : TRUE

\* _resolve_client_order_id: the mapping first, then the token.
Resolve(t, tok) ==
  IF map[t] # None \/ tok = NoToken \/ Candidates(tok) = {}
  THEN map[t]
  ELSE CHOOSE o \in Candidates(tok) : TRUE

\* Mutant: the token match is not remembered.
Backfilled_Forget(t, tok) == map

\* Mutant: what is remembered is the token, not the order.
Backfilled_Token(t, tok) == IF Resolve(t, tok) = map[t] THEN map ELSE [map EXCEPT ![t] = <<tok>>]

\* The mapping after resolving: the slow path backfills it.
Backfilled(t, tok) == [map EXCEPT ![t] = Resolve(t, tok)]

Popped(f, t) == [f EXCEPT ![t] = None]

\* Mutant: keyed on the order-level seqno, which all deals of an order share.
DealId_Seqno(m) == <<m.trade, 1>>

\* The TradeId of a deal: exchange_seq is unique per deal, seqno is not.
DealId(m) == <<m.trade, m.n>>

-----------------------------------------------------------------------------
(* _submit_order. *)

\* The order type has no SinoPac price type: rejected before it is submitted.
SubmitUnsupported(o) ==
  /\ Generate(<<Ev("rejected", o)>>)
  /\ place' = [place EXCEPT ![o] = "done"]
  /\ UNCHANGED venue

\* Unsupported time in force, malformed or inconsistent SinopacOrderTags.
SubmitInvalid(o) ==
  /\ Generate(<<Ev("submitted", o), Ev("rejected", o)>>)
  /\ place' = [place EXCEPT ![o] = "done"]
  /\ UNCHANGED venue

SubmitValid(o) ==
  /\ Generate(<<Ev("submitted", o)>>)
  /\ place' = [place EXCEPT ![o] = "request"]
  /\ venue' = [venue EXCEPT ![o] = "enroute"]

Submit(o) ==
  /\ place[o] = "new"
  /\ link # "off"
  /\ SubmitUnsupported(o) \/ SubmitInvalid(o) \/ SubmitValid(o)
  /\ UNCHANGED <<map, cancel, modify, sweep, recheck, reconVars, ledgerVars,
                 size, traded, link, feed, used>>

\* The reply carries a trade_id and a status other than Failed.
PlaceOk(o) ==
  /\ place[o] = "ok"
  /\ map' = [map EXCEPT ![o] = o]
  /\ Generate(<<Ev("accepted", o)>>)

\* HTTP 200 with status Failed: no mapping for a trade that is not working.
PlaceFailed(o) ==
  /\ place[o] = "failed"
  /\ Generate(<<Ev("rejected", o)>>)
  /\ UNCHANGED map

\* Mutant: every exception leaves the order SUBMITTED.
PlaceError_Silent(o) ==
  /\ place[o] \in {"error", "cut"}
  /\ UNCHANGED <<events, map>>

\* except Exception: a refusal of the gateway, and every failure of the transport
\* as well, since the bindings raise RuntimeError for all of them; the branch for
\* TimeoutError and OSError above it is never taken.
PlaceError(o) ==
  /\ place[o] \in {"error", "cut"}
  /\ Generate(<<Ev("rejected", o)>>)
  /\ UNCHANGED map

PlaceReturns(o) ==
  /\ PlaceOk(o) \/ PlaceFailed(o) \/ PlaceError(o)
  /\ place' = [place EXCEPT ![o] = IF Cut(o) THEN "lost" ELSE "done"]
  /\ UNCHANGED <<cancel, modify, sweep, recheck, reconVars, ledgerVars, venueVars,
                 link, feed, used>>

-----------------------------------------------------------------------------
(* _cancel_order, _cancel_all_orders and _modify_order. *)

\* A closed order, or one without a venue_order_id, is only logged.
Addressable(o) == ~Closed(o) /\ known[o]

CancelOrder(o) ==
  /\ place[o] # "new" /\ link # "off"
  /\ cancel["cancel"][o] = "idle"
  /\ used["cancels"] < MaxCancels
  /\ Spend("cancels")
  /\ cancel' = IF Addressable(o) THEN WithLeg("cancel", o, "request") ELSE cancel
  /\ UNCHANGED <<map, place, modify, sweep, recheck, reconVars, events, ledgerVars,
                 venueVars, link, feed>>

Sweeping == sweep # {} \/ \E o \in Orders : cancel["sweep"][o] # "idle"

CancelAllOrders ==
  /\ ~Sweeping /\ link # "off"
  /\ used["sweeps"] < MaxSweeps
  /\ Spend("sweeps")
  /\ sweep' = {o \in Orders : status[o] \in {"ACCEPTED", "PARTIALLY_FILLED"}}
  /\ UNCHANGED <<map, place, cancel, modify, recheck, reconVars, events, ledgerVars,
                 venueVars, link, feed>>

\* The list was read once; an order may have closed since.
SweepNext(o) ==
  /\ o \in sweep
  /\ \A p \in Orders : cancel["sweep"][p] = "idle"
  /\ sweep' = sweep \ {o}
  /\ cancel' = IF known[o] THEN WithLeg("sweep", o, "request") ELSE cancel
  /\ UNCHANGED <<map, place, modify, recheck, reconVars, events, ledgerVars, venueVars,
                 link, feed, used>>

\* Mutant: the HTTP reply already confirms the cancel.
CancelReply_Confirms(c, o) ==
  IF cancel[c][o] = "ok" THEN <<Ev("canceled", o)>> ELSE <<>>

\* Mutant: a failed cancel is only logged.
CancelReply_Silent(c, o) == <<>>

\* Success is confirmed over the WebSocket. An exception is reported by
\* _cancel_order and only logged by _cancel_all_orders.
CancelReply(c, o) ==
  IF c = "cancel" /\ cancel[c][o] = "error" THEN <<Ev("cancel_rejected", o)>> ELSE <<>>

CancelReturns(c, o) ==
  /\ cancel[c][o] \in {"ok", "error"}
  /\ cancel' = WithLeg(c, o, "idle")
  /\ Generate(CancelReply(c, o))
  /\ UNCHANGED <<map, place, modify, sweep, recheck, reconVars, ledgerVars, venueVars,
                 link, feed, used>>

\* An intraday odd-lot order may not change its price.
ModifyOrder(o, what) ==
  /\ place[o] # "new" /\ link # "off"
  /\ modify[o] = "idle"
  /\ used["modifies"] < MaxModifies
  /\ Spend("modifies")
  /\ LET local == what = "price" /\ o \in OddLot
     IN /\ modify' = IF Addressable(o) /\ ~local THEN [modify EXCEPT ![o] = "request"] ELSE modify
        /\ Generate(IF Addressable(o) /\ local THEN <<Ev("modify_rejected", o)>> ELSE <<>>)
  /\ UNCHANGED <<map, place, cancel, sweep, recheck, reconVars, ledgerVars, venueVars, link, feed>>

ModifyReturns(o) ==
  /\ modify[o] \in {"ok", "error"}
  /\ modify' = [modify EXCEPT ![o] = "idle"]
  /\ Generate(IF modify[o] = "error" THEN <<Ev("modify_rejected", o)>> ELSE <<>>)
  /\ UNCHANGED <<map, place, cancel, sweep, recheck, reconVars, ledgerVars, venueVars,
                 link, feed, used>>

-----------------------------------------------------------------------------
(* _handle_msg, on the thread of the WebSocket callback. *)

NextMessage(op) ==
  /\ recheck = None
  /\ feed # <<>>
  /\ Head(feed).op = op
  /\ feed' = Tail(feed)
  /\ UNCHANGED <<taskVars, ledgerVars, venueVars, link, used>>

\* Whose order the next message is about, and the mapping it leaves behind.
Addressee == Resolve(Head(feed).trade, TokenOf(Head(feed)))
Learnt    == Backfilled(Head(feed).trade, TokenOf(Head(feed)))

\* Mutant: an asynchronous refusal is ignored once the order is accepted.
RejectsNew_SubmittedOnly(m, o) == ~m.ok /\ o # None /\ status[o] = "SUBMITTED"

\* A failed "New" rejects the order unless it is (partly) filled.
RejectsNew(m, o) == ~m.ok /\ o # None /\ status[o] \notin {"PARTIALLY_FILLED", "FILLED"}

\* "New" with op_code "00" generates nothing: the reply accepts the order.
HandleNew ==
  /\ NextMessage("New")
  /\ LET m == Head(feed)
         o == Addressee
     IN /\ Generate(IF RejectsNew(m, o) THEN <<Ev("rejected", o)>> ELSE <<>>)
        /\ map' = IF RejectsNew(m, o) THEN Popped(Learnt, m.trade) ELSE Learnt
  /\ UNCHANGED <<recheck, reconVars>>

\* Mutant: a refused operation rejects the order, whatever the operation was.
CancelEvent_Rejects(m) == IF m.ok THEN "canceled" ELSE "rejected"

\* Mutant: op_code is not looked at.
CancelEvent_IgnoreCode(m) == "canceled"

CancelEvent(m) == IF m.ok THEN "canceled" ELSE "cancel_rejected"

HandleCancel ==
  /\ NextMessage("Cancel")
  /\ LET m == Head(feed)
         o == Addressee
     IN /\ Generate(IF o = None THEN <<>> ELSE <<Ev(CancelEvent(m), o)>>)
        /\ map' = IF o # None /\ m.ok THEN Popped(Learnt, m.trade) ELSE Learnt
  /\ UNCHANGED <<recheck, reconVars>>

\* Mutant: the quantity is the cached order's, as the price may be.
HandleUpdate_OldQty ==
  /\ NextMessage("Update")
  /\ LET m == Head(feed)
         o == Addressee
     IN /\ Generate(IF o = None THEN <<>>
                    ELSE <<IF m.ok THEN UpdateEv(o, qty[o]) ELSE Ev("modify_rejected", o)>>)
        /\ map' = Learnt
  /\ UNCHANGED <<recheck, reconVars>>

HandleUpdate ==
  /\ NextMessage("Update")
  /\ LET m == Head(feed)
         o == Addressee
     IN /\ Generate(IF o = None THEN <<>>
                    ELSE <<IF m.ok THEN UpdateEv(o, m.n) ELSE Ev("modify_rejected", o)>>)
        /\ map' = Learnt
  /\ UNCHANGED <<recheck, reconVars>>

\* A deal nobody can attribute is logged as external and forgotten. Its instrument
\* is in the cache here, as that of every order is; execution.py 798-801 drops it
\* otherwise, and 712-713 an update.
HandleDeal ==
  /\ NextMessage("Deal")
  /\ LET m == Head(feed)
         o == Addressee
     IN /\ Generate(IF o = None THEN <<>> ELSE <<FillEv(o, DealId(m))>>)
        /\ recheck' = IF o = None THEN None ELSE m.trade
        /\ map' = Learnt
  /\ UNCHANGED reconVars

\* Is the order of the deal closed when it is read again?
MappingDone(t) == map[t] # None /\ Closed(map[t])

\* After generating the fill the handler reads the order again, and drops the
\* mapping if the engine has closed it by then.
RecheckDeal ==
  /\ recheck # None
  /\ map' = IF MappingDone(recheck) THEN Popped(map, recheck) ELSE map
  /\ recheck' = None
  /\ UNCHANGED <<taskVars, reconVars, events, ledgerVars, venueVars,
                 link, feed, used>>

FreeSlot(i) == recon[i] = "idle" /\ \A j \in Slots : j < i => recon[j] # "idle"

StartRecon ==
  /\ \E i \in Slots : FreeSlot(i) /\ recon' = [recon EXCEPT ![i] = "asked"]
  /\ UNCHANGED <<rows, seen, who>>

\* Mutant: the sentinel is dropped like any other unknown message.
HandleReconnected_Ignored ==
  /\ NextMessage("Reconnected")
  /\ UNCHANGED <<map, recheck, events, reconVars>>

HandleReconnected ==
  /\ NextMessage("Reconnected")
  /\ StartRecon
  /\ UNCHANGED <<map, recheck, events>>

Callback == HandleNew \/ HandleCancel \/ HandleUpdate \/ HandleDeal \/ RecheckDeal
            \/ HandleReconnected

-----------------------------------------------------------------------------
(* The connection, restarts, and mass-status reconciliation. *)

\* What was on the wire is lost; what the client had received is not, nor is
\* the sentinel of an earlier reconnection, which the client made itself.
DropLink ==
  /\ link = "up"
  /\ used["drops"] < MaxDrops
  /\ Spend("drops")
  /\ link' = "down"
  /\ \E k \in 0 .. Len(feed) :
       /\ \A j \in k + 1 .. Len(feed) : feed[j].op # "Reconnected"
       /\ feed' = SubSeq(feed, 1, k)
  /\ UNCHANGED <<clientVars, events, ledgerVars, venueVars>>

Reconnect ==
  /\ link = "down"
  /\ link' = "up"
  /\ feed' = Append(feed, Msg("Reconnected", None, TRUE, 0))
  /\ UNCHANGED <<clientVars, events, ledgerVars, venueVars, used>>

NoView == [state |-> [t \in Trades |-> "none"], size |-> [t \in Trades |-> 0],
           traded |-> [t \in Trades |-> 0]]
Nobody == [t \in Trades |-> None]

\* The process dies: only the cached orders and the exchange survive it.
Restart ==
  /\ link # "off"
  /\ used["restarts"] < MaxRestarts
  /\ Spend("restarts")
  /\ link' = "off"
  /\ feed' = <<>> /\ events' = <<>>
  /\ map' = Nobody
  /\ place' = [o \in Orders |-> CASE place[o] = "new" -> "new"
                                  [] Cut(o)           -> "lost"
                                  [] OTHER            -> "done"]
  /\ cancel' = [c \in Callers |-> [o \in Orders |-> "idle"]]
  /\ modify' = [o \in Orders |-> "idle"]
  /\ sweep' = {} /\ recheck' = None
  /\ recon' = [i \in Slots |-> "idle"] /\ rows' = [i \in Slots |-> {}]
  /\ seen' = [i \in Slots |-> NoView] /\ who' = [i \in Slots |-> Nobody]
  /\ UNCHANGED <<ledgerVars, venueVars>>

\* _connect, then the engine's startup reconciliation.
StartUp ==
  /\ link = "off"
  /\ link' = "up"
  /\ StartRecon
  /\ UNCHANGED <<map, taskVars, recheck, events, ledgerVars,
                 venueVars, feed, used>>

\* list_trades: the gateway answers with its view at some moment.
GatewayList(i) ==
  /\ recon[i] = "asked"
  /\ recon' = [recon EXCEPT ![i] = "listed"]
  /\ rows' = [rows EXCEPT ![i] = {t \in Trades : venue[t] \notin {"none", "enroute"}}]
  /\ seen' = [seen EXCEPT ![i] = [state |-> venue, size |-> size, traded |-> traded]]
  /\ UNCHANGED <<map, taskVars, recheck, who, events, ledgerVars, venueVars, link, feed, used>>

\* generate_order_status_reports: an exception anywhere in the loop ends it
\* with the rows done so far, none of them if the request itself failed.
ReconReports(i) ==
  /\ recon[i] = "listed"
  /\ recon' = [recon EXCEPT ![i] = "reported"]
  /\ \E done \in SUBSET rows[i] :
       /\ ListMayFail \/ done = rows[i]
       /\ rows' = [rows EXCEPT ![i] = done]
       /\ map' = [t \in Trades |-> IF t \in done THEN Resolve(t, Token[t]) ELSE map[t]]
       /\ who' = [who EXCEPT ![i] = [t \in Trades |-> IF t \in done THEN Resolve(t, Token[t]) ELSE None]]
  /\ UNCHANGED <<taskVars, recheck, seen, events, ledgerVars, venueVars, link, feed, used>>

\* Mutant: an order the exchange still works is taken for a rejected one.
ReportStatus_Denied(o, state, total) == IF state = "filled" THEN "FILLED" ELSE "REJECTED"

\* The status a report moves an open order to. Rows have an instrument in the
\* cache and a status the gateway documents; execution.py 1263-1265 skips a row
\* without the one, 1270-1275 reports DENIED for want of the other.
ReportStatus(o, state, total) ==
  CASE state = "failed"    -> "REJECTED"
    [] state = "cancelled" -> "CANCELED"
    [] state = "filled"    -> "FILLED"
    [] OTHER               -> IF total > 0 THEN "PARTIALLY_FILLED" ELSE "ACCEPTED"

\* The engine (external) adopts the report of an open order, unless the report
\* says the exchange has yet to decide, inferring a fill
\* for the shares the cached order lacks; generate_fill_reports has none.
ReconSend(i) ==
  /\ recon[i] = "reported"
  /\ LET Adopts(o) == ~Closed(o) /\ \E t \in rows[i] : who[i][t] = o /\ seen[i].state[t] # "pending"
         RowOf(o) == CHOOSE t \in rows[i] : who[i][t] = o /\ seen[i].state[t] # "pending"
         Total(o) == Larger(Filled(o), seen[i].traded[RowOf(o)])
     IN /\ status' = [o \in Orders |->
              IF Adopts(o) THEN ReportStatus(o, seen[i].state[RowOf(o)], Total(o)) ELSE status[o]]
        /\ inferred' = [o \in Orders |->
              IF Adopts(o) THEN inferred[o] + Total(o) - Filled(o) ELSE inferred[o]]
        /\ qty' = [o \in Orders |-> IF Adopts(o) THEN seen[i].size[RowOf(o)] ELSE qty[o]]
        /\ known' = [o \in Orders |-> known[o] \/ Adopts(o)]
  /\ recon' = [recon EXCEPT ![i] = "done"]
  /\ rows' = [rows EXCEPT ![i] = {}]
  /\ seen' = [seen EXCEPT ![i] = NoView]
  /\ who' = [who EXCEPT ![i] = Nobody]
  /\ UNCHANGED <<map, taskVars, recheck, events, fills, venueVars, link, feed, used>>

-----------------------------------------------------------------------------
Init ==
  /\ map = Nobody
  /\ place = [o \in Orders |-> "new"]
  /\ cancel = [c \in Callers |-> [o \in Orders |-> "idle"]]
  /\ modify = [o \in Orders |-> "idle"]
  /\ sweep = {} /\ recheck = None
  /\ recon = [i \in Slots |-> "idle"] /\ rows = [i \in Slots |-> {}]
  /\ seen = [i \in Slots |-> NoView] /\ who = [i \in Slots |-> Nobody]
  /\ events = <<>>
  /\ status = [o \in Orders |-> "INITIALIZED"]
  /\ known = [o \in Orders |-> FALSE]
  /\ qty = [o \in Orders |-> Qty]
  /\ fills = [o \in Orders |-> {}]
  /\ inferred = [o \in Orders |-> 0]
  /\ venue = [t \in Trades |-> "none"]
  /\ size = [t \in Trades |-> Qty]
  /\ traded = [t \in Trades |-> 0]
  /\ link = "up" /\ feed = <<>>
  /\ used = [k \in Counters |-> 0]

Commands(o) == Submit(o) \/ CancelOrder(o) \/ SweepNext(o)
               \/ \E what \in {"price", "qty"} : ModifyOrder(o, what)

Replies(o) == PlaceReturns(o) \/ ModifyReturns(o) \/ \E c \in Callers : CancelReturns(c, o)

Exchange(t) == ForeignPlace(t) \/ VenueDecides(t) \/ VenueDeal(t) \/ VenueCancel(t)

Faults(o) == PlaceFault(o) \/ ModifyFault(o) \/ \E c \in Callers : CancelFault(c, o)

Reconcile(i) == GatewayList(i) \/ ReconReports(i) \/ ReconSend(i)

Next ==
  \/ Engine
  \/ Callback
  \/ CancelAllOrders
  \/ \E o \in Orders : Commands(o) \/ Replies(o) \/ Gateway(o) \/ GatewayModify(o) \/ Faults(o)
  \/ \E c \in Callers, o \in Orders : GatewayCancel(c, o)
  \/ \E t \in Trades : Exchange(t)
  \/ DropLink \/ Reconnect \/ Restart \/ StartUp
  \/ \E i \in Slots : Reconcile(i)

Spec == Init /\ [][Next]_vars

(* The loop, the callback thread and the engine keep running; the gateway   *)
(* answers each request, the exchange decides on each order, the client     *)
(* reconnects without limit and a restarted process connects. Nothing makes *)
(* an order trade, a strategy act or a fault happen.                        *)
Fairness ==
  /\ WF_vars(Engine)
  /\ WF_vars(Callback)
  /\ WF_vars(Reconnect)
  /\ WF_vars(StartUp)
  /\ \A o \in Orders : WF_vars(Replies(o)) /\ WF_vars(Gateway(o)) /\ WF_vars(GatewayModify(o))
                       /\ WF_vars(SweepNext(o))
  /\ \A c \in Callers, o \in Orders : WF_vars(GatewayCancel(c, o))
  /\ \A t \in Trades : WF_vars(VenueDecides(t))
  /\ \A i \in Slots : WF_vars(Reconcile(i))

FairSpec == Spec /\ Fairness

-----------------------------------------------------------------------------
(* Properties. *)

\* No message and no queued event has been lost to a drop or a restart.
NoGap == used["drops"] = 0 /\ used["restarts"] = 0

InFeed(o, n)   == \E i \in 1 .. Len(feed) : feed[i].op = "Deal" /\ feed[i].trade = o /\ feed[i].n = n
InEvents(o, n) == \E i \in 1 .. Len(events) : events[i].type = "filled" /\ events[i].order = o
                                              /\ events[i].id = <<o, n>>
Queued(type, o) == \E i \in 1 .. Len(events) : events[i].type = type /\ events[i].order = o

\* The mapping only ever leads from a trade to the order that created it: no
\* event of another session, and no token match, attaches a foreign trade to
\* an order of ours (_resolve_client_order_id).
MapSound == \A t \in Trades : map[t] # None => map[t] = t

\* The ledger holds only deals the exchange executed for that very order, and
\* so does the queue in front of it (DealId keys each deal once).
FillsGenuine ==
  \A o \in Orders :
    /\ fills[o] \subseteq {<<o, n>> : n \in 1 .. traded[o]}
    /\ \A i \in 1 .. Len(events) :
         events[i].type = "filled" /\ events[i].order = o => events[i].id \in {<<o, n>> : n \in 1 .. traded[o]}

\* Rejected because its request was cut off, wherever the exchange has it: the
\* hidden exposure of the code (see RejectedIsDead).
WrittenOff(o) == Cut(o) /\ status[o] = "REJECTED"

\* While the connection holds, every executed deal is on its way or in the
\* ledger: deal events carry no token, so each must find its mapping, whatever
\* the order of the place_order reply, the New event, the deals, the cancel
\* and the engine's queue (_handle_deal_event). Of the orders whose request the
\* transport cut off, only those the ledger has rejected for it are left out.
NoDealLost ==
  NoGap => \A o \in Orders : WrittenOff(o) \/ \A n \in 1 .. traded[o] :
             InFeed(o, n) \/ InEvents(o, n) \/ <<o, n>> \in fills[o]

\* An order reported REJECTED, or about to be, is not at the exchange and
\* never will be: "Rejecting here would create hidden exposure".
RejectedIsDead ==
  \A o \in Orders :
    status[o] = "REJECTED" \/ Queued("rejected", o) => venue[o] \in {"none", "failed"}

\* That much the code keeps, over drops, restarts and faults of the other
\* requests: a refused cancel or change, a late New event or a stale report never
\* reports REJECTED what the exchange has or will have. Only an order whose own
\* place_order the transport cut off can be rejected and alive.
HiddenOnlyIfCut ==
  \A o \in Orders :
    status[o] = "REJECTED" \/ Queued("rejected", o) => Cut(o) \/ venue[o] \in {"none", "failed"}

\* While the connection holds, a CANCELED order is cancelled at the exchange
\* with every deal in the ledger, and a FILLED order is filled there, at the
\* quantity both sides agree on, also if a transport fault hid the answer to its
\* place_order.
ClosedSettled ==
  NoGap => \A o \in Orders :
    /\ status[o] = "CANCELED" => venue[o] = "cancelled"
    /\ status[o] = "FILLED" => venue[o] = "filled" /\ qty[o] = size[o]
    /\ Closed(o) /\ ~WrittenOff(o) => \A n \in 1 .. traded[o] : <<o, n>> \in fills[o]

\* While the connection holds, the ledger and the exchange agree on every order
\* that is not written off, whenever nothing is on its way between them: state,
\* shares and quantity, and, once place_order is over, whether the order was
\* taken or refused. So no interleaving of the reply, the order events and the
\* deals leaves the strategy with a lasting error.
QuietAgrees ==
  NoGap /\ feed = <<>> /\ events = <<>> => \A o \in Orders : WrittenOff(o) \/
    /\ venue[o] = "cancelled" => status[o] = "CANCELED"
    /\ venue[o] = "filled" => status[o] = "FILLED"
    /\ venue[o] = "working" => Cardinality(fills[o]) = traded[o] /\ qty[o] = size[o]
    /\ venue[o] = "working" /\ traded[o] > 0 => status[o] = "PARTIALLY_FILLED"
    /\ place[o] \in {"done", "lost"} =>
         /\ venue[o] \in {"none", "failed"} => status[o] = "REJECTED"
         /\ venue[o] \in {"pending", "working"} => status[o] \in {"ACCEPTED", "PARTIALLY_FILLED"}

\* Across drops, restarts and reconciliations too, an order the ledger shows as
\* CANCELED is cancelled at the exchange: no stale report and no failed cancel
\* takes it out of the strategy's sight while it can still trade.
CanceledIsGone == \A o \in Orders : status[o] = "CANCELED" => venue[o] = "cancelled"

\* The ledger never holds more shares of an order than were executed.
LedgerNotAhead == \A o \in Orders : Filled(o) <= traded[o]

\* Without transport faults and gaps every order sent to the gateway leaves
\* SUBMITTED.
SubmitResolves ==
  \A o \in Orders :
    place[o] = "request" ~> status[o] \notin {"INITIALIZED", "SUBMITTED"} \/ ~NoGap

\* A cancel that reached the gateway is answered: the order closes, or the
\* strategy is told that the cancel failed.
CancelAnswered ==
  \A o \in Orders :
    cancel["cancel"][o] = "request" ~> Closed(o) \/ Queued("cancel_rejected", o) \/ ~NoGap

\* What the exchange has closed, the ledger eventually closes.
ClosureReflected ==
  \A o \in Orders : venue[o] \in {"cancelled", "filled", "failed"} ~> Closed(o) \/ ~NoGap

\* An order that ended without its full quantity is closed in the ledger even
\* if the message about it was lost with the connection: the reconciliation
\* after the reconnect makes up for it (_reconcile_after_reconnect). A process
\* that dies with a request on its way never learns the answer.
EndRecovered ==
  \A o \in Orders :
    venue[o] \in {"cancelled", "failed"} ~> Closed(o) \/ used["restarts"] > 0

\* An order the exchange holds when the process is down is adopted after the
\* restart: list_trades returns its token, the ledger learns its
\* venue_order_id and the strategy can cancel it.
AdoptedAfterRestart ==
  \A o \in Orders :
    link = "off" /\ venue[o] = "working" ~> known[o] \/ Closed(o)

-----------------------------------------------------------------------------
(* Refinement. *)

\* Where the order stands: refused if it was sent and is not at the exchange
\* now or later, be it that no request ever went out.
Standing(o) ==
  CASE venue[o] = "working" -> "open"
    [] venue[o] \in {"cancelled", "filled"} -> "ended"
    [] venue[o] = "failed" \/ (venue[o] = "none" /\ place[o] # "new") -> "refused"
    [] OTHER -> "away"

\* The TradeIds of an order are its deals; FILLED orders are left open.
Ledger == INSTANCE OrderLedger WITH
  standing <- [o \in Orders |-> Standing(o)],
  deals    <- [o \in Orders |-> traded[o]],
  booked   <- [o \in Orders |-> {id[2] : id \in fills[o]}],
  verdict  <- [o \in Orders |-> CASE status[o] = "REJECTED" -> "rejected"
                                  [] status[o] = "CANCELED" -> "canceled"
                                  [] OTHER -> "none"]

\* The order path keeps the promise of OrderLedger: the ledger books only what
\* the exchange executed, each deal once, and closes an order as rejected or
\* cancelled only after the exchange is done with it, in every step.
LedgerKept == Ledger!Spec
=============================================================================
