----------------------- MODULE LedgerRefinement_proofs -----------------------
(***************************************************************************)
(* The order path implements OrderLedger. First CanceledIsGone, by the     *)
(* argument of RejectedIsDead: a cancellation is at the exchange before    *)
(* its message is sent, the message is there before its event is queued,   *)
(* the event before it is applied, and no snapshot is ahead of the         *)
(* exchange. With FillsGenuine and RejectedIsDead it gives the ledger's    *)
(* side of every step; the exchange's side needs no invariant but that an  *)
(* order is not at the exchange before it is submitted.                    *)
(***************************************************************************)
EXTENDS ExecOrders_proofs

-----------------------------------------------------------------------------
(* An order is not at the exchange before it is submitted. *)

FreshInv == \A o \in Orders : place[o] = "new" => venue[o] = "none"

LEMMA InitFresh == Init => FreshInv
  BY DEF Init, FreshInv, Trades

LEMMA FreshMove ==
  ASSUME FreshInv,
         \A o \in Orders : place'[o] = "new" => place[o] = "new" /\ venue'[o] = venue[o]
  PROVE  FreshInv'
  BY DEF FreshInv

\* One order that was submitted before the step, or is now.
LEMMA FreshOne ==
  ASSUME TypeOK, FreshInv, NEW o \in Orders, NEW leg, leg # "new", NEW v,
         place' = [place EXCEPT ![o] = leg],
         venue' \in {venue, [venue EXCEPT ![o] = v]}
  PROVE  FreshInv'
<1>1. \A p \in Orders : p # o => place'[p] = place[p] /\ venue'[p] = venue[p]
  BY DEF TypeOK, Trades
<1>2. place'[o] # "new"
  BY DEF TypeOK
<1>3. QED
  BY <1>1, <1>2, FreshMove

\* The exchange moves a trade it already has.
LEMMA FreshTrade ==
  ASSUME TypeOK, FreshInv, NEW t \in Trades, UNCHANGED place, NEW v,
         venue[t] # "none" \/ t \notin Orders,
         venue' \in {venue, [venue EXCEPT ![t] = v]}
  PROVE  FreshInv'
<1>1. \A o \in Orders : place[o] = "new" => venue'[o] = venue[o]
  BY DEF FreshInv, TypeOK, Trades
<1>2. QED
  BY <1>1, FreshMove

LEMMA NextFresh ==
  ASSUME TypeOK, FreshInv, [Next]_vars
  PROVE  FreshInv'
<1>1. CASE UNCHANGED <<place, venue>>
  BY <1>1 DEF FreshInv
<1>2. ASSUME NEW o \in Orders, Commands(o) \/ Replies(o) \/ Faults(o)
      PROVE  FreshInv'
  <2>1. CASE Submit(o)
    <3>1. venue' \in {venue, [venue EXCEPT ![o] = "enroute"]}
      BY <2>1 DEF Submit, SubmitUnsupported, SubmitInvalid, SubmitValid
    <3>2. PICK leg \in {"done", "request"} : place' = [place EXCEPT ![o] = leg]
      BY <2>1 DEF Submit, SubmitUnsupported, SubmitInvalid, SubmitValid
    <3>3. QED
      BY <3>1, <3>2, FreshOne
  <2>2. CASE PlaceReturns(o)
    <3>1. PICK leg \in {"done", "lost"} : place' = [place EXCEPT ![o] = leg]
      BY <2>2 DEF PlaceReturns
    <3>2. QED
      BY <2>2, <3>1, FreshOne DEF PlaceReturns, venueVars
  <2>3. CASE PlaceFault(o)
    BY <2>3, FreshOne DEF PlaceFault, venueVars
  <2>4. QED
    BY <1>1, <1>2, <2>1, <2>2, <2>3 DEF Commands, Replies, Faults, CancelOrder, SweepNext,
       ModifyOrder, ModifyReturns, CancelReturns, CancelFault, ModifyFault, venueVars
<1>3. ASSUME NEW o \in Orders, Gateway(o)
      PROVE  FreshInv'
  <2>1. venue[o] = "enroute" /\ place[o] # "new"
    BY <1>3 DEF Gateway, FreshInv
  <2>2. \A p \in Orders : p # o => place'[p] = place[p] /\ venue'[p] = venue[p]
    BY <1>3 DEF Gateway, GatewayRefuse, GatewayFail, GatewayPlace, ReplyTo, TypeOK, Trades
  <2>3. place'[o] # "new"
    BY <1>3, <2>1 DEF Gateway, GatewayRefuse, GatewayFail, GatewayPlace, ReplyTo, TypeOK
  <2>4. QED
    BY <2>2, <2>3, FreshMove
<1>4. ASSUME NEW c \in Callers, NEW o \in Orders, GatewayModify(o) \/ GatewayCancel(c, o)
      PROVE  FreshInv'
  BY <1>1, <1>4, FreshTrade DEF GatewayModify, GatewayCancel, Trades
<1>5. ASSUME NEW t \in Trades, Exchange(t)
      PROVE  FreshInv'
  <2>1. UNCHANGED place
    BY <1>5 DEF Exchange, ForeignPlace, VenueDecides, VenueDeal, VenueCancel, clientVars, taskVars
  <2>2. venue[t] # "none" \/ t \notin Orders
    BY <1>5, TokenAssumption DEF Exchange, ForeignPlace, VenueDecides, VenueDeal, VenueCancel
  <2>3. QED
    BY <1>5, <2>1, <2>2, FreshTrade DEF Exchange, ForeignPlace, VenueDecides, VenueDeal, VenueCancel
<1>6. CASE Restart
  <2>1. \A o \in Orders : place'[o] = "new" => place[o] = "new"
    BY <1>6 DEF Restart, Cut
  <2>2. QED
    BY <1>6, <2>1, FreshMove DEF Restart, venueVars
<1>7. ASSUME NEW i \in Slots, Reconcile(i)
      PROVE  FreshInv'
  BY <1>1, <1>7 DEF Reconcile, GatewayList, ReconReports, ReconSend, taskVars, venueVars
<1>8. CASE Engine \/ Callback
  BY <1>1, <1>8 DEF Engine, EngineMove, EngineFill, EngineUpdate, EngineNote, NextEvent, Callback,
     HandleNew, HandleCancel, HandleUpdate, HandleDeal, RecheckDeal, HandleReconnected, NextMessage,
     clientVars, taskVars, venueVars
<1>9. CASE CancelAllOrders \/ DropLink \/ Reconnect \/ StartUp \/ UNCHANGED vars
  BY <1>1, <1>9 DEF CancelAllOrders, DropLink, Reconnect, StartUp, vars, clientVars, taskVars,
     venueVars
<1>10. QED
  BY <1>2, <1>3, <1>4, <1>5, <1>6, <1>7, <1>8, <1>9 DEF Next, Callers

-----------------------------------------------------------------------------
(* CanceledIsGone *)

Gone(o) == venue[o] = "cancelled"

\* A "Cancel" message that says the order was cancelled.
Cancellation(m) == m.op = "Cancel" /\ m.ok

CanInv ==
  /\ \A m \in Elems(feed) : Cancellation(m) => Gone(m.trade)
  /\ \A e \in Elems(events) : e.type = "canceled" => Gone(e.order)
  /\ \A o \in Orders : status[o] = "CANCELED" => Gone(o)
  /\ \A i \in Slots, t \in Trades : seen[i].state[t] = "cancelled" => Gone(t)

LEMMA InitCan == Init => CanInv
<1> SUFFICES ASSUME Init PROVE CanInv
  OBVIOUS
<1>1. Elems(feed) = {} /\ Elems(events) = {}
  BY ElemsEmpty DEF Init
<1>2. \A o \in Orders : status[o] = "INITIALIZED"
  BY DEF Init
<1>3. \A i \in Slots, t \in Trades : seen[i].state[t] = "none"
  BY DEF Init, NoView
<1>4. QED
  BY <1>1, <1>2, <1>3 DEF CanInv

(* What a step may do to each part of the invariant.                        *)

VenueKeeps  == \A t \in Trades : Gone(t) => Gone(t)'
FeedKeeps   == \A m \in Elems(feed') : Cancellation(m) => m \in Elems(feed) \/ Gone(m.trade)'
EventKeeps  == \A e \in Elems(events') : e.type = "canceled" => e \in Elems(events) \/ Gone(e.order)
StatusKeeps == \A o \in Orders : status'[o] = "CANCELED" => status[o] = "CANCELED" \/ Gone(o)
SeenKeeps   ==
  \A i \in Slots, t \in Trades :
    seen'[i].state[t] = "cancelled" => seen[i].state[t] = "cancelled" \/ Gone(t)

CanStep == VenueKeeps /\ FeedKeeps /\ EventKeeps /\ StatusKeeps /\ SeenKeeps

\* The trade of a "Cancel" message, and the order of an event.
LEMMA CancelTrade ==
  ASSUME TypeOK, NEW m \in Elems(feed), m.op = "Cancel"
  PROVE  m.trade \in Trades
<1>1. feed \in Seq(Message)
  BY DEF TypeOK
<1>2. m \in Message
  BY <1>1 DEF Elems
<1>3. QED
  BY <1>2 DEF Message

LEMMA NextEventOrder ==
  ASSUME TypeOK', NEW e \in Elems(events')
  PROVE  e.order \in Orders
<1>1. events' \in Seq(Event)
  BY DEF TypeOK
<1>2. e \in Event
  BY <1>1 DEF Elems
<1>3. QED
  BY <1>2 DEF Event

LEMMA NextCanInv ==
  ASSUME TypeOK, TypeOK', CanInv, CanStep
  PROVE  CanInv'
<1>1. \A m \in Elems(feed) : Cancellation(m) => m.trade \in Trades
  BY CancelTrade DEF Cancellation
<1>2. \A m \in Elems(feed') : Cancellation(m) => Gone(m.trade)'
  BY <1>1 DEF CanInv, CanStep, VenueKeeps, FeedKeeps
<1>3. \A e \in Elems(events') : e.type = "canceled" => Gone(e.order)'
  BY NextEventOrder DEF CanInv, CanStep, VenueKeeps, EventKeeps, Trades
<1>4. \A o \in Orders : status'[o] = "CANCELED" => Gone(o)'
  BY DEF CanInv, CanStep, VenueKeeps, StatusKeeps, Trades
<1>5. \A i \in Slots, t \in Trades : seen'[i].state[t] = "cancelled" => Gone(t)'
  BY DEF CanInv, CanStep, VenueKeeps, SeenKeeps
<1>6. QED
  BY <1>2, <1>3, <1>4, <1>5 DEF CanInv, Cancellation

\* A part nobody touches.
LEMMA Unmoved ==
  /\ UNCHANGED venue => VenueKeeps
  /\ (UNCHANGED feed \/ Elems(feed') \subseteq Elems(feed)) => FeedKeeps
  /\ (UNCHANGED events \/ Elems(events') \subseteq Elems(events)) => EventKeeps
  /\ UNCHANGED status => StatusKeeps
  /\ UNCHANGED seen => SeenKeeps
  BY DEF VenueKeeps, FeedKeeps, EventKeeps, StatusKeeps, SeenKeeps, Gone

LEMMA EngineCan ==
  ASSUME TypeOK, CanInv, Engine
  PROVE  CanStep
<1>1. /\ events # <<>> /\ events' = Tail(events) /\ UNCHANGED <<venue, feed, seen>>
  BY DEF Engine, EngineMove, EngineFill, EngineUpdate, EngineNote, NextEvent, venueVars,
         clientVars, reconVars
<1>2. Elems(events') \subseteq Elems(events) /\ Head(events) \in Elems(events)
  BY <1>1, HeadEvent
<1>3. StatusKeeps
  <2>1. CASE EngineMove
    <3>1. \A o \in Orders : status'[o] = status[o]
             \/ (o = Head(events).order /\ status'[o] = TargetStatus[Head(events).type])
      BY <2>1 DEF EngineMove, TypeOK
    <3>2. Head(events).type \in DOMAIN TargetStatus
      BY <2>1 DEF EngineMove, NextEvent
    <3>3. TargetStatus[Head(events).type] = "CANCELED" => Head(events).type = "canceled"
      BY <3>2 DEF TargetStatus
    <3>4. Head(events).type = "canceled" => Gone(Head(events).order)
      BY <1>2 DEF CanInv
    <3>5. QED
      BY <3>1, <3>3, <3>4 DEF StatusKeeps
  <2>2. CASE EngineFill
    <3>1. \A o \in Orders : status'[o] \in {status[o], "FILLED", "PARTIALLY_FILLED"}
      BY <2>2 DEF EngineFill, TypeOK
    <3>2. QED
      BY <3>1 DEF StatusKeeps
  <2>3. CASE EngineUpdate \/ EngineNote
    BY <2>3, Unmoved DEF EngineUpdate, EngineNote
  <2>4. QED
    BY <2>1, <2>2, <2>3 DEF Engine
<1>4. QED
  BY <1>1, <1>2, <1>3, Unmoved DEF CanStep

\* Commands and replies queue no cancellation: the HTTP reply confirms nothing.
LEMMA CommandCan ==
  ASSUME TypeOK, NEW o \in Orders, Commands(o) \/ Replies(o)
  PROVE  EventKeeps /\ UNCHANGED <<feed, status, seen>>
<1>1. ASSUME NEW es \in Seq(Event), Generate(es), \A e \in Elems(es) : e.type # "canceled"
      PROVE  EventKeeps
  BY <1>1, ElemsGenerate DEF EventKeeps
<1>2. /\ <<>> \in Seq(Event) /\ Elems(<<>>) = {}
      /\ \A type \in EventTypes \ {"filled", "canceled"} :
            /\ <<Ev(type, o)>> \in Seq(Event)
            /\ \A e \in Elems(<<Ev(type, o)>>) : e.type # "canceled"
  BY EvType, EvIsNoFill, ElemsEmpty, ElemsOne
<1>3. \A type, type2 \in EventTypes \ {"filled", "canceled"} :
        /\ <<Ev(type, o), Ev(type2, o)>> \in Seq(Event)
        /\ \A e \in Elems(<<Ev(type, o), Ev(type2, o)>>) : e.type # "canceled"
  BY EvType, EvIsNoFill, ElemsPair
<1>4. {"submitted", "accepted", "rejected", "cancel_rejected", "modify_rejected"}
        \subseteq EventTypes \ {"filled", "canceled"}
  BY DEF EventTypes
<1>5. CASE Submit(o)
  BY <1>1, <1>2, <1>3, <1>4, <1>5
     DEF Submit, SubmitUnsupported, SubmitInvalid, SubmitValid, ledgerVars, reconVars
<1>6. CASE CancelOrder(o) \/ SweepNext(o)
  BY <1>6, Unmoved DEF CancelOrder, SweepNext, ledgerVars, reconVars
<1>7. ASSUME NEW what \in {"price", "qty"}, ModifyOrder(o, what)
      PROVE  EventKeeps /\ UNCHANGED <<feed, status, seen>>
  <2>1. Generate(<<>>) \/ Generate(<<Ev("modify_rejected", o)>>)
    BY <1>7 DEF ModifyOrder
  <2>2. QED
    BY <1>1, <1>2, <1>4, <1>7, <2>1 DEF ModifyOrder, ledgerVars, reconVars
<1>8. CASE PlaceReturns(o)
  <2>1. UNCHANGED <<feed, status, seen>>
    BY <1>8 DEF PlaceReturns, ledgerVars, reconVars
  <2>2. UNCHANGED events \/ Generate(<<Ev("accepted", o)>>) \/ Generate(<<Ev("rejected", o)>>)
    BY <1>8 DEF PlaceReturns, PlaceOk, PlaceFailed, PlaceError
  <2>3. QED
    BY <1>1, <1>2, <1>4, <2>1, <2>2, Unmoved
<1>9. CASE ModifyReturns(o)
  <2>1. Generate(<<>>) \/ Generate(<<Ev("modify_rejected", o)>>)
    BY <1>9 DEF ModifyReturns
  <2>2. QED
    BY <1>1, <1>2, <1>4, <1>9, <2>1 DEF ModifyReturns, ledgerVars, reconVars
<1>10. ASSUME NEW c \in Callers, CancelReturns(c, o)
       PROVE  EventKeeps /\ UNCHANGED <<feed, status, seen>>
  <2>1. Generate(<<>>) \/ Generate(<<Ev("cancel_rejected", o)>>)
    BY <1>10 DEF CancelReturns, CancelReply
  <2>2. QED
    BY <1>1, <1>2, <1>4, <1>10, <2>1 DEF CancelReturns, ledgerVars, reconVars
<1>11. QED
  BY <1>5, <1>6, <1>7, <1>8, <1>9, <1>10 DEF Commands, Replies

\* One message joins the feed; only a cancellation says that the order is gone.
LEMMA EmitCan ==
  ASSUME TypeOK, NEW op \in Ops \ {"Reconnected"}, NEW t \in Trades, NEW ok \in BOOLEAN,
         NEW n \in Nat, Emit(Msg(op, t, ok, n)),
         op = "Cancel" /\ ok => Gone(t)'
  PROVE  FeedKeeps
<1>1. Elems(feed') \subseteq Elems(feed) \cup {Msg(op, t, ok, n)}
  BY ElemsEmit
<1>2. PICK m : m = Msg(op, t, ok, n)
  OBVIOUS
<1>3. m.trade = t /\ m.op = op /\ m.ok = ok
  BY <1>2 DEF Msg
<1>4. QED
  BY <1>1, <1>2, <1>3 DEF FeedKeeps, Cancellation

\* Once submitted, a trade the exchange holds moves on; "cancelled" is final.
LEMMA VenueCan ==
  ASSUME TypeOK, NEW t \in Trades, ~Gone(t), NEW v, venue' = [venue EXCEPT ![t] = v]
  PROVE  VenueKeeps
<1>1. \A u \in Trades : u # t => venue'[u] = venue[u]
  BY DEF TypeOK
<1>2. QED
  BY <1>1 DEF VenueKeeps, Gone

LEMMA CommandVenue ==
  ASSUME TypeOK, FreshInv, NEW o \in Orders, Commands(o) \/ Replies(o)
  PROVE  VenueKeeps
<1>1. CASE SubmitValid(o) /\ place[o] = "new"
  BY <1>1, VenueCan DEF SubmitValid, FreshInv, Gone, Trades
<1>2. CASE UNCHANGED venue
  BY <1>2, Unmoved
<1>3. QED
  BY <1>1, <1>2 DEF Commands, Replies, Submit, SubmitUnsupported, SubmitInvalid, CancelOrder,
     SweepNext, ModifyOrder, PlaceReturns, ModifyReturns, CancelReturns, venueVars

LEMMA GatewayCan ==
  ASSUME TypeOK, NEW o \in Orders, Gateway(o)
  PROVE  CanStep
<1>0. o \in Trades /\ venue[o] = "enroute" /\ UNCHANGED <<events, status, seen>>
  BY DEF Gateway, Trades, ledgerVars, reconVars
<1>1. VenueKeeps
  BY <1>0, VenueCan DEF Gateway, GatewayRefuse, GatewayFail, GatewayPlace, Gone
<1>2. FeedKeeps
  BY <1>0, EmitCan, Unmoved DEF Gateway, GatewayRefuse, GatewayFail, GatewayPlace, Ops
<1>3. QED
  BY <1>0, <1>1, <1>2, Unmoved DEF CanStep

LEMMA GatewayOtherCan ==
  ASSUME TypeOK, NEW o \in Orders, NEW c \in Callers,
         GatewayModify(o) \/ Faults(o) \/ GatewayCancel(c, o)
  PROVE  CanStep
<1>0. o \in Trades /\ UNCHANGED <<events, status, seen>>
  BY DEF GatewayModify, Faults, PlaceFault, CancelFault, ModifyFault, GatewayCancel,
         ledgerVars, venueVars, reconVars, Trades
<1>1. CASE GatewayModify(o)
  <2>1. \/ \E n \in traded[o] + 1 .. size[o] : Emit(Msg("Update", o, TRUE, n))
        \/ Emit(Msg("Update", o, FALSE, 0))
        \/ UNCHANGED feed
    BY <1>1 DEF GatewayModify
  <2>2. traded[o] + 1 .. size[o] \subseteq Nat
    BY <1>0 DEF TypeOK
  <2>3. FeedKeeps
    BY <1>0, <2>1, <2>2, EmitCan, Unmoved DEF Ops
  <2>4. QED
    BY <1>0, <1>1, <2>3, Unmoved DEF CanStep, GatewayModify
<1>2. CASE GatewayCancel(c, o)
  <2>1. CASE venue[o] = "working" /\ venue' = [venue EXCEPT ![o] = "cancelled"]
             /\ Emit(Msg("Cancel", o, TRUE, 0))
    <3>1. VenueKeeps /\ Gone(o)'
      BY <1>0, <2>1, VenueCan DEF Gone, TypeOK
    <3>2. FeedKeeps
      BY <1>0, <2>1, <3>1, EmitCan DEF Ops
    <3>3. QED
      BY <1>0, <3>1, <3>2, Unmoved DEF CanStep
  <2>2. CASE UNCHANGED venue /\ (Emit(Msg("Cancel", o, FALSE, 0)) \/ UNCHANGED feed)
    <3>1. FeedKeeps
      BY <1>0, <2>2, EmitCan, Unmoved DEF Ops
    <3>2. QED
      BY <1>0, <2>2, <3>1, Unmoved DEF CanStep
  <2>3. QED
    BY <1>2, <2>1, <2>2 DEF GatewayCancel
<1>3. CASE Faults(o)
  BY <1>0, <1>3, Unmoved DEF Faults, PlaceFault, CancelFault, ModifyFault, CanStep, venueVars
<1>4. QED
  BY <1>1, <1>2, <1>3

LEMMA ExchangeCan ==
  ASSUME TypeOK, NEW t \in Trades, Exchange(t)
  PROVE  CanStep
<1>0. UNCHANGED <<status, events, seen>>
  BY DEF Exchange, ForeignPlace, VenueDecides, VenueDeal, VenueCancel, ledgerVars, clientVars,
         taskVars, reconVars
<1>1. VenueKeeps
  BY VenueCan, Unmoved DEF Exchange, ForeignPlace, VenueDecides, VenueDeal, VenueCancel, Gone
<1>2. FeedKeeps
  <2>1. CASE ForeignPlace(t)
    BY <2>1, Unmoved DEF ForeignPlace
  <2>2. CASE VenueDecides(t)
    <3>1. PICK ok \in BOOLEAN : Emit(Msg("New", t, ok, 0))
      BY <2>2 DEF VenueDecides
    <3>2. QED
      BY <3>1, EmitCan DEF Ops
  <2>3. CASE VenueDeal(t)
    <3>1. traded[t] + 1 \in Nat
      BY DEF TypeOK
    <3>2. Emit(Msg("Deal", t, TRUE, traded[t] + 1))
      BY <2>3 DEF VenueDeal
    <3>3. "Deal" \in Ops \ {"Reconnected"} /\ TRUE \in BOOLEAN
      BY DEF Ops
    <3>4. QED
      BY <3>1, <3>2, <3>3, EmitCan
  <2>4. CASE VenueCancel(t)
    <3>1. Gone(t)'
      BY <2>4 DEF VenueCancel, Gone, TypeOK
    <3>2. QED
      BY <2>4, <3>1, EmitCan DEF VenueCancel, Ops
  <2>5. QED
    BY <2>1, <2>2, <2>3, <2>4 DEF Exchange
<1>3. QED
  BY <1>0, <1>1, <1>2, Unmoved DEF CanStep

\* A "canceled" event is queued for the trade of a cancellation, by HandleCancel.
LEMMA CallbackCan ==
  ASSUME TypeOK, MapInv, CanInv, Callback
  PROVE  CanStep
<1>1. UNCHANGED <<venue, status, seen>>
  BY DEF Callback, HandleNew, HandleCancel, HandleUpdate, HandleDeal, RecheckDeal, HandleReconnected,
         NextMessage, StartRecon, taskVars, ledgerVars, venueVars, reconVars
<1>2. FeedKeeps
  BY CallbackEvents, Unmoved
<1>3. EventKeeps
  <2>1. CASE RecheckDeal \/ HandleReconnected
    BY <2>1, Unmoved DEF RecheckDeal, HandleReconnected
  <2>2. ASSUME NEW op \in {"New", "Cancel", "Update", "Deal"}, NextMessage(op)
        PROVE  /\ Head(feed).trade \in Trades /\ Head(feed).n \in Nat
               /\ Addressee \in Orders \cup {None}
    <3>1. Head(feed) \in Message
      BY <2>2 DEF NextMessage, TypeOK
    <3>2. Head(feed).trade \in Trades /\ Head(feed).n \in Nat
      BY <2>2, <3>1 DEF NextMessage, Message
    <3>3. QED
      BY <3>2, ResolveType DEF Addressee
  <2>3. ASSUME NEW e \in Event, Generate(<<>>) \/ Generate(<<e>>),
               e.type = "canceled" => Gone(e.order)
        PROVE  EventKeeps
    <3>1. <<>> \in Seq(Event) /\ <<e>> \in Seq(Event)
      OBVIOUS
    <3>2. Elems(events') \subseteq Elems(events) \cup {e}
      BY <2>3, <3>1, ElemsGenerate, ElemsEmpty, ElemsOne
    <3>3. QED
      BY <2>3, <3>2 DEF EventKeeps
  <2>4. ASSUME Generate(<<>>) PROVE EventKeeps
    <3>1. <<>> \in Seq(Event)
      OBVIOUS
    <3>2. Elems(events') = Elems(events)
      BY <2>4, <3>1, ElemsGenerate, ElemsEmpty
    <3>3. QED
      BY <3>2, Unmoved
  <2>5. CASE HandleNew
    <3>1. NextMessage("New") /\ (RejectsNew(Head(feed), Addressee) => Addressee # None)
      BY <2>5 DEF HandleNew, RejectsNew
    <3>2. RejectsNew(Head(feed), Addressee) => Ev("rejected", Addressee) \in Event
      BY <2>2, <3>1, EvType DEF EventTypes
    <3>3. QED
      BY <2>3, <2>4, <2>5, <3>2, EvIsNoFill DEF HandleNew
  <2>6. CASE HandleCancel
    <3>1. NextMessage("Cancel")
      BY <2>6 DEF HandleCancel
    <3>2. CASE Addressee = None
      BY <2>4, <2>6, <3>2 DEF HandleCancel
    <3>3. CASE Addressee # None
      <4>1. Addressee = Head(feed).trade /\ Head(feed) \in Elems(feed) /\ Head(feed).op = "Cancel"
        BY <3>1, <3>3, AddresseeSound
      <4>2. CancelEvent(Head(feed)) = "canceled" => Cancellation(Head(feed))
        BY <4>1 DEF CancelEvent, Cancellation
      <4>3. CancelEvent(Head(feed)) = "canceled" => Gone(Addressee)
        BY <4>1, <4>2 DEF CanInv
      <4>4. CancelEvent(Head(feed)) \in {"canceled", "cancel_rejected"}
        BY DEF CancelEvent
      <4>5. Ev(CancelEvent(Head(feed)), Addressee) \in Event
        BY <2>2, <3>1, <3>3, <4>4, EvType DEF EventTypes
      <4>6. Generate(<<Ev(CancelEvent(Head(feed)), Addressee)>>)
        BY <2>6, <3>3 DEF HandleCancel
      <4>7. QED
        BY <2>3, <4>3, <4>5, <4>6, EvIsNoFill
    <3>4. QED
      BY <3>2, <3>3
  <2>7. CASE HandleUpdate
    <3>1. NextMessage("Update")
      BY <2>7 DEF HandleUpdate
    <3>2. CASE Addressee = None
      BY <2>4, <2>7, <3>2 DEF HandleUpdate
    <3>3. CASE Addressee # None
      <4>1. PICK e : /\ e = IF Head(feed).ok THEN UpdateEv(Addressee, Head(feed).n)
                            ELSE Ev("modify_rejected", Addressee)
                     /\ Generate(<<e>>)
        BY <2>7, <3>3 DEF HandleUpdate
      <4>2. UpdateEv(Addressee, Head(feed).n) \in Event /\ Ev("modify_rejected", Addressee) \in Event
        BY <2>2, <3>1, <3>3, EvType DEF EventTypes
      <4>3. QED
        BY <2>3, <4>1, <4>2, EvIsNoFill
    <3>4. QED
      BY <3>2, <3>3
  <2>8. CASE HandleDeal
    <3>1. NextMessage("Deal")
      BY <2>8 DEF HandleDeal
    <3>2. CASE Addressee = None
      BY <2>4, <2>8, <3>2 DEF HandleDeal
    <3>3. CASE Addressee # None
      <4>1. DealId(Head(feed)) \in TradeIds
        BY <2>2, <3>1 DEF DealId, TradeIds
      <4>2. FillEv(Addressee, DealId(Head(feed))) \in Event
        BY <2>2, <3>1, <3>3, <4>1, EvType
      <4>3. Generate(<<FillEv(Addressee, DealId(Head(feed)))>>)
        BY <2>8, <3>3 DEF HandleDeal
      <4>4. QED
        BY <2>3, <4>2, <4>3, EvIsNoFill
    <3>4. QED
      BY <3>2, <3>3
  <2>9. QED
    BY <2>1, <2>5, <2>6, <2>7, <2>8 DEF Callback
<1>4. QED
  BY <1>1, <1>2, <1>3, Unmoved DEF CanStep

LEMMA ConnectionCan ==
  ASSUME TypeOK, DropLink \/ Reconnect \/ Restart \/ StartUp
  PROVE  CanStep
<1>1. UNCHANGED <<venue, status>>
  BY DEF DropLink, Reconnect, Restart, StartUp, ledgerVars, venueVars
<1>2. EventKeeps
  BY Unmoved, ElemsEmpty DEF DropLink, Reconnect, Restart, StartUp
<1>3. FeedKeeps
  <2>1. CASE DropLink
    BY <2>1, ElemsSubSeq, Unmoved DEF DropLink, TypeOK
  <2>2. CASE Reconnect
    <3>1. PICK x : x = Msg("Reconnected", None, TRUE, 0)
      OBVIOUS
    <3>2. x \in Message /\ x.op # "Cancel"
      BY <3>1 DEF Msg, Message, Ops
    <3>3. feed' = Append(feed, x)
      BY <2>2, <3>1 DEF Reconnect
    <3>4. Elems(feed') = Elems(feed) \cup {x}
      BY <3>2, <3>3, ElemsAppend DEF TypeOK
    <3>5. QED
      BY <3>2, <3>4 DEF FeedKeeps, Cancellation
  <2>3. CASE Restart \/ StartUp
    BY <2>3, ElemsEmpty, Unmoved DEF Restart, StartUp
  <2>4. QED
    BY <2>1, <2>2, <2>3
<1>4. SeenKeeps
  <2>1. CASE Restart
    <3>1. \A i \in Slots, t \in Trades : seen'[i].state[t] = "none"
      BY <2>1 DEF Restart, NoView
    <3>2. QED
      BY <3>1 DEF SeenKeeps
  <2>2. CASE UNCHANGED seen
    BY <2>2, Unmoved
  <2>3. QED
    BY <2>1, <2>2 DEF DropLink, Reconnect, StartUp, StartRecon, clientVars, reconVars
<1>5. QED
  BY <1>1, <1>2, <1>3, <1>4, Unmoved DEF CanStep

\* A report moves an order to CANCELED only if the exchange listed it as cancelled.
LEMMA ReconcileCan ==
  ASSUME TypeOK, MapInv, CanInv, NEW i \in Slots, Reconcile(i)
  PROVE  CanStep
<1>1. UNCHANGED <<venue, feed, events>>
  BY DEF Reconcile, GatewayList, ReconReports, ReconSend, venueVars
<1>2. CASE GatewayList(i)
  <2>1. \A j \in Slots, t \in Trades :
          seen'[j].state[t] = IF j = i THEN venue[t] ELSE seen[j].state[t]
    BY <1>2 DEF GatewayList, TypeOK
  <2>2. SeenKeeps
    BY <2>1 DEF SeenKeeps, Gone
  <2>3. QED
    BY <1>1, <1>2, <2>2, Unmoved DEF CanStep, GatewayList, ledgerVars
<1>3. CASE ReconReports(i)
  BY <1>1, <1>3, Unmoved DEF CanStep, ReconReports, ledgerVars
<1>4. CASE ReconSend(i)
  <2> DEFINE RowOf(o) == CHOOSE t \in rows[i] : who[i][t] = o /\ seen[i].state[t] # "pending"
             Adopts(o) == ~Closed(o) /\ \E t \in rows[i] : who[i][t] = o /\ seen[i].state[t] # "pending"
             Total(o) == Larger(Filled(o), seen[i].traded[RowOf(o)])
  <2>1. \A o \in Orders : status'[o] =
           IF Adopts(o) THEN ReportStatus(o, seen[i].state[RowOf(o)], Total(o)) ELSE status[o]
    BY <1>4 DEF ReconSend
  <2>2. ASSUME NEW o \in Orders, Adopts(o)
        PROVE  RowOf(o) = o
    <3>1. RowOf(o) \in rows[i] /\ who[i][RowOf(o)] = o
      BY <2>2
    <3>2. rows[i] \subseteq Trades
      BY DEF TypeOK
    <3>3. o # None
      BY TokenAssumption DEF Trades
    <3>4. QED
      BY <3>1, <3>2, <3>3 DEF MapInv
  <2>3. \A o, s, n : ReportStatus(o, s, n) = "CANCELED" => s = "cancelled"
    BY DEF ReportStatus
  <2>4. ASSUME NEW o \in Orders, status'[o] = "CANCELED", status[o] # "CANCELED"
        PROVE  Gone(o)
    <3>1. Adopts(o)
      BY <2>1, <2>4
    <3>2. seen[i].state[o] = "cancelled"
      <4>1. ReportStatus(o, seen[i].state[RowOf(o)], Total(o)) = "CANCELED"
        BY <2>1, <2>4, <3>1
      <4>2. RowOf(o) = o
        BY <2>2, <3>1
      <4> HIDE DEF RowOf, Total
      <4>3. QED
        BY <2>3, <4>1, <4>2
    <3>3. QED
      BY <3>2 DEF CanInv, Trades
  <2>5. StatusKeeps
    BY <2>4 DEF StatusKeeps
  <2>6. \A j \in Slots, t \in Trades : seen'[j].state[t] \in {seen[j].state[t], "none"}
    BY <1>4 DEF ReconSend, NoView, TypeOK
  <2>7. SeenKeeps
    BY <2>6 DEF SeenKeeps
  <2>8. QED
    BY <1>1, <2>5, <2>7, Unmoved DEF CanStep
<1>5. QED
  BY <1>2, <1>3, <1>4 DEF Reconcile

LEMMA NextCan ==
  ASSUME TypeOK, TypeOK', MapInv, FreshInv, CanInv, [Next]_vars
  PROVE  CanInv'
<1> SUFFICES CanStep
  BY NextCanInv
<1>1. CASE UNCHANGED vars
  BY <1>1, Unmoved DEF CanStep, vars, clientVars, reconVars, ledgerVars, venueVars
<1>2. CASE Engine
  BY <1>2, EngineCan
<1>3. CASE Callback
  BY <1>3, CallbackCan
<1>4. CASE CancelAllOrders
  BY <1>4, Unmoved DEF CanStep, CancelAllOrders, ledgerVars, venueVars, reconVars
<1>5. ASSUME NEW o \in Orders, Commands(o) \/ Replies(o)
      PROVE  CanStep
  BY <1>5, CommandCan, CommandVenue, Unmoved DEF CanStep
<1>6. ASSUME NEW o \in Orders, Gateway(o) \/ GatewayModify(o) \/ Faults(o)
      PROVE  CanStep
  BY <1>6, GatewayCan, GatewayOtherCan DEF Callers
<1>7. ASSUME NEW c \in Callers, NEW o \in Orders, GatewayCancel(c, o)
      PROVE  CanStep
  BY <1>7, GatewayOtherCan
<1>8. ASSUME NEW t \in Trades, Exchange(t)
      PROVE  CanStep
  BY <1>8, ExchangeCan
<1>9. CASE DropLink \/ Reconnect \/ Restart \/ StartUp
  BY <1>9, ConnectionCan
<1>10. ASSUME NEW i \in Slots, Reconcile(i)
       PROVE  CanStep
  BY <1>10, ReconcileCan
<1>11. QED
  BY <1>1, <1>2, <1>3, <1>4, <1>5, <1>6, <1>7, <1>8, <1>9, <1>10 DEF Next

LEMMA CanInvGone == CanInv => CanceledIsGone
  BY DEF CanInv, CanceledIsGone, Gone

\* Whatever the interleaving, the faults, the drops and the restarts, an order
\* the ledger shows as CANCELED is cancelled at the exchange.
THEOREM CanceledCorrect == Spec => []CanceledIsGone
<1>1. Init => CanInv /\ FreshInv /\ MapInv
  BY InitCan, InitFresh, InitMap
<1>2. TypeOK /\ TypeOK' /\ MapInv /\ FreshInv /\ CanInv /\ [Next]_vars => CanInv'
  BY NextCan
<1>3. TypeOK /\ FreshInv /\ [Next]_vars => FreshInv'
  BY NextFresh
<1>4. TypeOK /\ MapInv /\ [Next]_vars => MapInv'
  BY NextMap
<1>5. QED
  BY <1>1, <1>2, <1>3, <1>4, CanInvGone, TypeCorrect, PTL DEF Spec

-----------------------------------------------------------------------------
(* LedgerKept: each order moves at the exchange or in the ledger, or stays. *)

Booked(o) == {id[2] : id \in fills[o]}
Verdict(o) == CASE status[o] = "REJECTED" -> "rejected"
                [] status[o] = "CANCELED" -> "canceled"
                [] OTHER -> "none"

AtExchange(o) ==
  \/ Standing(o)' = Standing(o) /\ traded'[o] = traded[o]
  \/ Standing(o) = "away" /\ Standing(o)' \in {"open", "refused"} /\ traded'[o] = traded[o]
  \/ Standing(o) = "open" /\ Standing(o)' \in {"open", "ended"} /\ traded'[o] = traded[o] + 1
  \/ Standing(o) = "open" /\ Standing(o)' = "ended" /\ traded'[o] = traded[o]

InLedger(o) ==
  \/ Booked(o)' = Booked(o) /\ Verdict(o)' = Verdict(o)
  \/ /\ Verdict(o) # "rejected" /\ Verdict(o)' = "none"
     /\ \E n \in 1 .. traded[o] : n \notin Booked(o) /\ Booked(o)' = Booked(o) \cup {n}
  \/ /\ Booked(o)' = Booked(o) /\ Verdict(o) = "none"
     /\ \/ Standing(o) = "refused" /\ Verdict(o)' = "rejected"
        \/ Standing(o) = "ended" /\ Verdict(o)' = "canceled"

\* A step is one of the exchange's or one of the ledger's.
OneSide ==
  \/ UNCHANGED <<status, fills>> /\ \A o \in Orders : AtExchange(o)
  \/ UNCHANGED <<place, venue, traded>> /\ \A o \in Orders : InLedger(o)

LEMMA Idle ==
  ASSUME UNCHANGED <<place, venue, traded, status, fills>>
  PROVE  OneSide
  BY DEF OneSide, AtExchange, Standing

\* The orders a step does not touch stay where they are.
LEMMA StayThere ==
  ASSUME NEW o, place'[o] = place[o] \/ (place[o] # "new" /\ place'[o] # "new"),
         venue'[o] = venue[o], traded'[o] = traded[o]
  PROVE  AtExchange(o)
  BY DEF AtExchange, Standing

\* A trade moves on at the exchange, after the order was submitted.
LEMMA MoveThere ==
  ASSUME TypeOK, FreshInv, NEW t \in Trades, NEW v \in Venue, UNCHANGED place,
         venue' = [venue EXCEPT ![t] = v],
         \/ UNCHANGED traded /\ venue[t] = "pending" /\ v \in {"working", "failed"}
         \/ UNCHANGED traded /\ venue[t] = "working" /\ v = "cancelled"
         \/ /\ traded' = [traded EXCEPT ![t] = @ + 1]
            /\ venue[t] = "working" /\ v \in {"working", "filled"}
  PROVE  \A o \in Orders : AtExchange(o)
<1> SUFFICES ASSUME NEW o \in Orders PROVE AtExchange(o)
  OBVIOUS
<1>1. CASE o # t
  <2>1. venue'[o] = venue[o] /\ traded'[o] = traded[o]
    BY <1>1 DEF TypeOK, Trades
  <2>2. QED
    BY <2>1, StayThere
<1>2. CASE o = t
  <2>1. place[o] # "new" /\ place'[o] = place[o] /\ venue'[o] = v
    BY <1>2 DEF FreshInv, TypeOK
  <2>2. traded'[o] = traded[o] \/ traded'[o] = traded[o] + 1
    BY <1>2 DEF TypeOK
  <2>3. QED
    BY <1>2, <2>1, <2>2 DEF AtExchange, Standing, TypeOK
<1>3. QED
  BY <1>1, <1>2

LEMMA ExchangeOneSide ==
  ASSUME TypeOK, FreshInv, NEW t \in Trades, Exchange(t)
  PROVE  OneSide
<1>0. UNCHANGED <<place, status, fills>>
  BY DEF Exchange, ForeignPlace, VenueDecides, VenueDeal, VenueCancel, ledgerVars, clientVars,
         taskVars
<1>1. {"working", "failed", "cancelled", "filled"} \subseteq Venue
  BY DEF Venue
<1>2. CASE ForeignPlace(t)
  <2>1. \A o \in Orders : o # t /\ venue'[o] = venue[o] /\ traded'[o] = traded[o]
    BY <1>2, TokenAssumption DEF ForeignPlace, TypeOK, Trades
  <2>2. QED
    BY <1>0, <2>1, StayThere DEF OneSide
<1>3. CASE VenueDecides(t)
  <2>1. PICK v \in {"working", "failed"} : venue' = [venue EXCEPT ![t] = v]
    BY <1>3 DEF VenueDecides
  <2>2. UNCHANGED traded /\ venue[t] = "pending"
    BY <1>3 DEF VenueDecides
  <2>3. QED
    BY <1>0, <1>1, <2>1, <2>2, MoveThere DEF OneSide
<1>4. CASE VenueDeal(t)
  <2>1. venue[t] = "working" /\ traded' = [traded EXCEPT ![t] = @ + 1]
    BY <1>4 DEF VenueDeal
  <2>2. venue = [venue EXCEPT ![t] = venue[t]]
    BY DEF TypeOK
  <2>3. PICK v \in {"working", "filled"} : venue' = [venue EXCEPT ![t] = v]
    BY <1>4, <2>1, <2>2 DEF VenueDeal
  <2>4. QED
    BY <1>0, <1>1, <2>1, <2>3, MoveThere DEF OneSide
<1>5. CASE VenueCancel(t)
  BY <1>0, <1>1, <1>5, MoveThere DEF VenueCancel, OneSide
<1>6. QED
  BY <1>2, <1>3, <1>4, <1>5 DEF Exchange

\* The client's requests and the gateway's answers.
LEMMA RequestOneSide ==
  ASSUME TypeOK, FreshInv, NEW o \in Orders,
         Commands(o) \/ Replies(o) \/ Gateway(o) \/ GatewayModify(o) \/ Faults(o)
  PROVE  OneSide
<1>0. UNCHANGED <<traded, status, fills>>
  BY DEF Commands, Replies, Submit, CancelOrder, SweepNext, ModifyOrder, PlaceReturns, ModifyReturns,
     CancelReturns, Gateway, GatewayModify, Faults, PlaceFault, CancelFault, ModifyFault,
     ledgerVars, venueVars
<1>1. ASSUME AtExchange(o), \A p \in Orders : p # o => place'[p] = place[p] /\ venue'[p] = venue[p]
      PROVE  OneSide
  BY <1>0, <1>1, StayThere DEF OneSide
<1>2. CASE Submit(o)
  <2>1. \A p \in Orders : p # o => place'[p] = place[p] /\ venue'[p] = venue[p]
    BY <1>2 DEF Submit, SubmitUnsupported, SubmitInvalid, SubmitValid, TypeOK, Trades
  <2>2. place[o] = "new" /\ venue[o] = "none" /\ place'[o] # "new"
    BY <1>2 DEF Submit, SubmitUnsupported, SubmitInvalid, SubmitValid, FreshInv, TypeOK
  <2>3. venue'[o] \in {"none", "enroute"}
    BY <1>2, <2>2 DEF Submit, SubmitUnsupported, SubmitInvalid, SubmitValid, TypeOK, Trades
  <2>4. AtExchange(o)
    BY <1>0, <2>2, <2>3 DEF AtExchange, Standing
  <2>5. QED
    BY <1>1, <2>1, <2>4
<1>3. CASE PlaceReturns(o) \/ PlaceFault(o)
  <2>1. place[o] # "new" /\ UNCHANGED venue
    BY <1>3 DEF PlaceReturns, PlaceOk, PlaceFailed, PlaceError, PlaceFault, venueVars
  <2>2. PICK leg \in {"done", "lost", "cut"} : place' = [place EXCEPT ![o] = leg]
    BY <1>3 DEF PlaceReturns, PlaceFault
  <2>3. place'[o] # "new" /\ \A p \in Orders : p # o => place'[p] = place[p]
    BY <2>2 DEF TypeOK
  <2>4. QED
    BY <1>0, <1>1, <2>1, <2>3, StayThere
<1>4. CASE Gateway(o)
  <2>1. \A p \in Orders : p # o => place'[p] = place[p] /\ venue'[p] = venue[p]
    BY <1>4 DEF Gateway, GatewayRefuse, GatewayFail, GatewayPlace, ReplyTo, TypeOK, Trades
  <2>2. venue[o] = "enroute" /\ place[o] # "new"
    BY <1>4 DEF Gateway, FreshInv
  <2>3. place'[o] # "new"
    BY <1>4, <2>2 DEF Gateway, GatewayRefuse, GatewayFail, GatewayPlace, ReplyTo, TypeOK
  <2>4. venue'[o] \in {"none", "failed", "pending"}
    BY <1>4 DEF Gateway, GatewayRefuse, GatewayFail, GatewayPlace, TypeOK, Trades
  <2>5. AtExchange(o)
    BY <1>0, <2>2, <2>3, <2>4 DEF AtExchange, Standing
  <2>6. QED
    BY <1>1, <2>1, <2>5
<1>5. CASE GatewayModify(o)
  BY <1>0, <1>5, Idle DEF GatewayModify
<1>6. CASE UNCHANGED <<place, venue>>
  BY <1>0, <1>6, Idle
<1>7. QED
  BY <1>2, <1>3, <1>4, <1>5, <1>6 DEF Commands, Replies, Faults, CancelOrder, SweepNext, ModifyOrder,
     ModifyReturns, CancelReturns, CancelFault, ModifyFault, venueVars

LEMMA GatewayCancelOneSide ==
  ASSUME TypeOK, FreshInv, NEW c \in Callers, NEW o \in Orders, GatewayCancel(c, o)
  PROVE  OneSide
<1>0. UNCHANGED <<place, traded, status, fills>>
  BY DEF GatewayCancel, ledgerVars
<1>1. CASE venue[o] = "working" /\ venue' = [venue EXCEPT ![o] = "cancelled"]
  <2>1. o \in Trades /\ "cancelled" \in Venue
    BY DEF Trades, Venue
  <2>2. QED
    BY <1>0, <1>1, <2>1, MoveThere DEF OneSide
<1>2. CASE UNCHANGED venue
  BY <1>0, <1>2, Idle
<1>3. QED
  BY <1>1, <1>2 DEF GatewayCancel

LEMMA ConnectionOneSide ==
  ASSUME DropLink \/ Reconnect \/ Restart \/ StartUp
  PROVE  OneSide
<1>0. UNCHANGED <<venue, traded, status, fills>>
  BY DEF DropLink, Reconnect, Restart, StartUp, ledgerVars, venueVars
<1>1. \A o \in Orders : place'[o] = place[o] \/ (place[o] # "new" /\ place'[o] # "new")
  <2>1. CASE Restart
    <3>1. \A o \in Orders : place'[o] = CASE place[o] = "new" -> "new" [] Cut(o) -> "lost" [] OTHER -> "done"
      BY <2>1 DEF Restart
    <3>2. QED
      BY <3>1 DEF Cut
  <2>2. CASE UNCHANGED place
    BY <2>2
  <2>3. QED
    BY <2>1, <2>2 DEF DropLink, Reconnect, StartUp, clientVars, taskVars
<1>2. QED
  BY <1>0, <1>1, StayThere DEF OneSide

(* The ledger's side. *)

\* What the invariants say of an order the ledger closes.
LEMMA ClosedThere ==
  /\ \A o : Dead(o) => Standing(o) = "refused"
  /\ \A o : Gone(o) => Standing(o) = "ended"
  BY DEF Dead, Gone, Standing

LEMMA VerdictOf ==
  ASSUME TypeOK, NEW o \in Orders
  PROVE  /\ Verdict(o) = "none" <=> status[o] \notin {"REJECTED", "CANCELED"}
         /\ Verdict(o) = "rejected" <=> status[o] = "REJECTED"
         /\ Verdict(o) = "canceled" <=> status[o] = "CANCELED"
         /\ Verdict(o)' = "none" <=> status'[o] \notin {"REJECTED", "CANCELED"}
         /\ Verdict(o)' = "rejected" <=> status'[o] = "REJECTED"
         /\ Verdict(o)' = "canceled" <=> status'[o] = "CANCELED"
         /\ status'[o] = status[o] => Verdict(o)' = Verdict(o)
  BY DEF Verdict

\* A new fill is a deal the ledger did not have: its TradeId tells which.
LEMMA FillBooks ==
  ASSUME TypeOK, DealInv, NEW o \in Orders, NEW id, id \notin fills[o], Executed(o, id),
         fills'[o] = fills[o] \cup {id}
  PROVE  \E n \in 1 .. traded[o] : n \notin Booked(o) /\ Booked(o)' = Booked(o) \cup {n}
<1>1. PICK n \in 1 .. traded[o] : id = <<o, n>>
  BY DEF Executed
<1>2. ASSUME n \in Booked(o)
      PROVE  FALSE
  <2>1. PICK old \in fills[o] : old[2] = n
    BY <1>2 DEF Booked
  <2>2. PICK m \in 1 .. traded[o] : old = <<o, m>>
    BY <2>1 DEF DealInv, Executed
  <2>3. old = id
    BY <1>1, <2>1, <2>2
  <2>4. QED
    BY <2>1, <2>3
<1>3. id[2] = n
  BY <1>1
<1>4. Booked(o)' = Booked(o) \cup {id[2]}
  BY DEF Booked
<1>5. QED
  BY <1>2, <1>3, <1>4

LEMMA EngineOneSide ==
  ASSUME TypeOK, DealInv, RejInv, CanInv, Engine, ~TransportFaults
  PROVE  OneSide
<1>0. /\ events # <<>>
      /\ UNCHANGED <<place, venue, traded>>
  BY DEF Engine, EngineMove, EngineFill, EngineUpdate, EngineNote, NextEvent, clientVars, taskVars,
         venueVars
<1>1. Head(events) \in Elems(events) /\ Head(events).order \in Orders
  BY <1>0, HeadEvent, EventOrder
<1> DEFINE e == Head(events)
<1>2. ASSUME NEW o \in Orders, status'[o] = status[o], fills'[o] = fills[o]
      PROVE  InLedger(o)
  BY <1>2, VerdictOf DEF InLedger, Booked
<1>3. CASE EngineMove
  <2>1. e.type \in DOMAIN TargetStatus /\ UNCHANGED fills
    BY <1>3 DEF EngineMove, NextEvent
  <2>2. \A o \in Orders :
          \/ status'[o] = status[o]
          \/ /\ o = e.order /\ status'[o] = TargetStatus[e.type]
             /\ <<status[o], TargetStatus[e.type]>> \in Legal
    BY <1>1, <1>3 DEF EngineMove, TypeOK
  <2>3. ASSUME NEW o \in Orders, status'[o] # status[o]
        PROVE  InLedger(o)
    <3>1. o = e.order /\ status'[o] = TargetStatus[e.type]
      BY <2>2, <2>3
    <3>2. <<status[o], TargetStatus[e.type]>> \in Legal
      BY <2>2, <2>3
    <3>3. TargetStatus[e.type] \in {"SUBMITTED", "ACCEPTED", "REJECTED", "CANCELED"}
      BY <2>1 DEF TargetStatus
    <3>4. status[o] \notin {"REJECTED", "CANCELED"}
      BY <3>2, <3>3 DEF Legal
    <3>5. Verdict(o) = "none" /\ Booked(o)' = Booked(o)
      BY <2>1, <3>4, VerdictOf DEF Booked
    <3>6. CASE e.type = "rejected"
      <4>1. Standing(o) = "refused"
        BY <1>1, <3>1, <3>6, ClosedThere DEF RejInv, Rejectable
      <4>2. Verdict(o)' = "rejected"
        BY <3>1, <3>6, VerdictOf DEF TargetStatus
      <4>3. QED
        BY <3>5, <4>1, <4>2 DEF InLedger
    <3>7. CASE e.type = "canceled"
      <4>1. Standing(o) = "ended"
        BY <1>1, <3>1, <3>7, ClosedThere DEF CanInv
      <4>2. Verdict(o)' = "canceled"
        BY <3>1, <3>7, VerdictOf DEF TargetStatus
      <4>3. QED
        BY <3>5, <4>1, <4>2 DEF InLedger
    <3>8. CASE e.type \notin {"rejected", "canceled"}
      <4>1. TargetStatus[e.type] \in {"SUBMITTED", "ACCEPTED"}
        BY <2>1, <3>8 DEF TargetStatus
      <4>2. Verdict(o)' = "none"
        BY <3>1, <4>1, VerdictOf
      <4>3. QED
        BY <3>5, <4>2 DEF InLedger
    <3>9. QED
      BY <3>6, <3>7, <3>8
  <2>4. QED
    BY <1>0, <1>2, <2>1, <2>3 DEF OneSide
<1>4. CASE EngineFill
  <2> DEFINE target == IF Filled(e.order) + 1 >= qty[e.order] THEN "FILLED" ELSE "PARTIALLY_FILLED"
  <2>1. e.type = "filled"
    BY <1>4 DEF EngineFill, NextEvent
  <2>2. \A o \in Orders :
          \/ status'[o] = status[o] /\ fills'[o] = fills[o]
          \/ /\ o = e.order /\ <<status[o], target>> \in Legal /\ e.id \notin fills[o]
             /\ status'[o] = target /\ fills'[o] = fills[o] \cup {e.id}
    BY <1>1, <1>4 DEF EngineFill, TypeOK
  <2>3. target \in {"FILLED", "PARTIALLY_FILLED"}
    OBVIOUS
  <2> HIDE DEF target
  <2>4. ASSUME NEW o \in Orders, o = e.order, <<status[o], target>> \in Legal, e.id \notin fills[o],
               status'[o] = target, fills'[o] = fills[o] \cup {e.id}
        PROVE  InLedger(o)
    <3>1. Executed(o, e.id)
      BY <1>1, <2>1, <2>4 DEF DealInv
    <3>2. \E n \in 1 .. traded[o] : n \notin Booked(o) /\ Booked(o)' = Booked(o) \cup {n}
      BY <2>4, <3>1, FillBooks
    <3>3. status[o] # "REJECTED"
      BY <2>3, <2>4 DEF Legal
    <3>4. Verdict(o) # "rejected" /\ Verdict(o)' = "none"
      BY <2>3, <2>4, <3>3, VerdictOf
    <3>5. QED
      BY <3>2, <3>4 DEF InLedger
  <2>5. QED
    BY <1>0, <1>2, <2>2, <2>4 DEF OneSide
<1>5. CASE EngineUpdate \/ EngineNote
  BY <1>0, <1>5, Idle DEF EngineUpdate, EngineNote
<1>6. QED
  BY <1>3, <1>4, <1>5 DEF Engine

LEMMA ReconcileOneSide ==
  ASSUME TypeOK, MapInv, RejInv, CanInv, NEW i \in Slots, Reconcile(i)
  PROVE  OneSide
<1>0. UNCHANGED <<place, venue, traded, fills>>
  BY DEF Reconcile, GatewayList, ReconReports, ReconSend, taskVars, ledgerVars, venueVars
<1>1. CASE UNCHANGED status
  BY <1>0, <1>1, Idle
<1>2. CASE ReconSend(i)
  <2> DEFINE RowOf(o) == CHOOSE t \in rows[i] : who[i][t] = o /\ seen[i].state[t] # "pending"
             Adopts(o) == ~Closed(o) /\ \E t \in rows[i] : who[i][t] = o /\ seen[i].state[t] # "pending"
             Total(o) == Larger(Filled(o), seen[i].traded[RowOf(o)])
  <2>1. \A o \in Orders : status'[o] =
           IF Adopts(o) THEN ReportStatus(o, seen[i].state[RowOf(o)], Total(o)) ELSE status[o]
    BY <1>2 DEF ReconSend
  <2>2. ASSUME NEW o \in Orders, Adopts(o)
        PROVE  RowOf(o) = o
    <3>1. RowOf(o) \in rows[i] /\ who[i][RowOf(o)] = o
      BY <2>2
    <3>2. rows[i] \subseteq Trades /\ o # None
      BY TokenAssumption DEF TypeOK, Trades
    <3>3. QED
      BY <3>1, <3>2 DEF MapInv
  <2>3. \A o, s, n : /\ ReportStatus(o, s, n) = "REJECTED" => s = "failed"
                     /\ ReportStatus(o, s, n) = "CANCELED" => s = "cancelled"
    BY DEF ReportStatus
  <2>4. ASSUME NEW o \in Orders, status'[o] # status[o]
        PROVE  InLedger(o)
    <3>1. Adopts(o)
      BY <2>1, <2>4
    <3>2. PICK s, n : status'[o] = ReportStatus(o, s, n) /\ s = seen[i].state[o]
      <4>1. status'[o] = ReportStatus(o, seen[i].state[RowOf(o)], Total(o))
        BY <2>1, <3>1
      <4>2. RowOf(o) = o
        BY <2>2, <3>1
      <4> HIDE DEF RowOf, Total
      <4>3. QED
        BY <4>1, <4>2
    <3>3. Verdict(o) = "none" /\ Booked(o)' = Booked(o)
      BY <1>0, <3>1, VerdictOf DEF Closed, ClosedStatuses, Booked
    <3>4. status'[o] = "REJECTED" => Standing(o) = "refused"
      <4>1. status'[o] = "REJECTED" => venue[o] = "failed"
        BY <2>3, <3>2 DEF RejInv, Trades
      <4>2. QED
        BY <4>1 DEF Standing
    <3>5. status'[o] = "CANCELED" => Standing(o) = "ended"
      <4>1. status'[o] = "CANCELED" => Gone(o)
        BY <2>3, <3>2 DEF CanInv, Trades
      <4>2. QED
        BY <4>1, ClosedThere
    <3>6. QED
      BY <3>3, <3>4, <3>5, VerdictOf DEF InLedger
  <2>5. ASSUME NEW o \in Orders, status'[o] = status[o]
        PROVE  InLedger(o)
    BY <1>0, <2>5, VerdictOf DEF InLedger, Booked
  <2>6. QED
    BY <1>0, <2>4, <2>5 DEF OneSide
<1>3. QED
  BY <1>1, <1>2 DEF Reconcile, GatewayList, ReconReports, ledgerVars

LEMMA NextOneSide ==
  ASSUME TypeOK, MapInv, FreshInv, DealInv, RejInv, CanInv, [Next]_vars, ~TransportFaults
  PROVE  OneSide
<1>1. CASE UNCHANGED vars \/ Callback \/ CancelAllOrders
  BY <1>1, Idle DEF vars, Callback, HandleNew, HandleCancel, HandleUpdate, HandleDeal, RecheckDeal,
     HandleReconnected, NextMessage, CancelAllOrders, clientVars, taskVars, ledgerVars, venueVars
<1>2. CASE Engine
  BY <1>2, EngineOneSide
<1>3. ASSUME NEW o \in Orders,
             Commands(o) \/ Replies(o) \/ Gateway(o) \/ GatewayModify(o) \/ Faults(o)
      PROVE  OneSide
  BY <1>3, RequestOneSide
<1>4. ASSUME NEW c \in Callers, NEW o \in Orders, GatewayCancel(c, o)
      PROVE  OneSide
  BY <1>4, GatewayCancelOneSide
<1>5. ASSUME NEW t \in Trades, Exchange(t)
      PROVE  OneSide
  BY <1>5, ExchangeOneSide
<1>6. CASE DropLink \/ Reconnect \/ Restart \/ StartUp
  BY <1>6, ConnectionOneSide
<1>7. ASSUME NEW i \in Slots, Reconcile(i)
      PROVE  OneSide
  BY <1>7, ReconcileOneSide
<1>8. QED
  BY <1>1, <1>2, <1>3, <1>4, <1>5, <1>6, <1>7 DEF Next

LEMMA InitLedger == Init => Ledger!Init
<1> SUFFICES ASSUME Init PROVE Ledger!Init
  OBVIOUS
<1>1. \A o \in Orders : Standing(o) = "away" /\ traded[o] = 0
  BY DEF Init, Standing, Trades
<1>2. \A o \in Orders : {id[2] : id \in fills[o]} = {}
  BY DEF Init
<1>3. \A o \in Orders : status[o] = "INITIALIZED"
  BY DEF Init
<1>4. QED
  BY <1>1, <1>2, <1>3 DEF Ledger!Init

LEMMA LedgerTyped == TypeOK => Ledger!TypeOK
<1> SUFFICES ASSUME TypeOK, NEW o \in Orders
             PROVE  /\ Standing(o) \in {"away", "open", "ended", "refused"}
                    /\ traded[o] \in Nat
                    /\ {id[2] : id \in fills[o]} \in SUBSET Nat
  BY DEF Ledger!TypeOK
<1>1. Standing(o) \in {"away", "open", "ended", "refused"}
  BY DEF Standing
<1>2. traded[o] \in Nat /\ fills[o] \in SUBSET TradeIds
  BY DEF TypeOK, Trades
<1>3. QED
  BY <1>1, <1>2 DEF TradeIds

\* A step of one side is a step of the ledger's specification.
LEMMA OneSideMoves == TypeOK' /\ OneSide => Ledger!Next
<1>0. TypeOK' => Ledger!TypeOK'
  BY LedgerTyped, PTL
<1> SUFFICES ASSUME OneSide, NEW o \in Orders
             PROVE  Ledger!Move(o) \/ (Ledger!SameAtExchange(o) /\ Ledger!SameInLedger(o))
  BY <1>0 DEF Ledger!Next
<1>1. CASE UNCHANGED <<status, fills>> /\ AtExchange(o)
  BY <1>1 DEF AtExchange, Ledger!Move, Ledger!Arrive, Ledger!Execute, Ledger!Cancel,
     Ledger!SameAtExchange, Ledger!SameInLedger
<1>2. CASE UNCHANGED <<place, venue, traded>> /\ InLedger(o)
  <2>1. Standing(o)' = Standing(o) /\ traded'[o] = traded[o]
    BY <1>2 DEF Standing
  <2>2. QED
    BY <1>2, <2>1 DEF InLedger, Booked, Verdict, Ledger!Move, Ledger!Book, Ledger!Close,
       Ledger!SameAtExchange, Ledger!SameInLedger
<1>3. QED
  BY <1>1, <1>2 DEF OneSide

\* The order path implements OrderLedger as long as the transport does not fail
\* under a request: the ledger books only deals the exchange executed, each once,
\* and gives an order up only after the exchange has. With such failures the
\* code itself breaks the promise (RejectedIsDead): it gives live orders up.
THEOREM LedgerRefined ==
  ASSUME ~TransportFaults
  PROVE  Spec => LedgerKept
<1>1. Init => Ledger!Init /\ MapInv /\ FreshInv /\ DealInv /\ RejInv /\ CanInv
  BY InitLedger, InitMap, InitFresh, InitDeals, InitRej, InitCan
<1>2. TypeOK /\ MapInv /\ [Next]_vars => MapInv'
  BY NextMap
<1>3. TypeOK /\ FreshInv /\ [Next]_vars => FreshInv'
  BY NextFresh
<1>4. TypeOK /\ TypeOK' /\ MapInv /\ DealInv /\ [Next]_vars => DealInv'
  BY NextDeals, NextDealInv
<1>5. TypeOK /\ MapInv /\ RejInv /\ [Next]_vars => RejInv'
  BY NextRej
<1>6. TypeOK /\ TypeOK' /\ MapInv /\ FreshInv /\ CanInv /\ [Next]_vars => CanInv'
  BY NextCan
<1>7. TypeOK /\ TypeOK' /\ MapInv /\ FreshInv /\ DealInv /\ RejInv /\ CanInv /\ [Next]_vars
        => [Ledger!Next]_Ledger!vars
  BY NextOneSide, OneSideMoves
<1>8. QED
  BY <1>1, <1>2, <1>3, <1>4, <1>5, <1>6, <1>7, TypeCorrect, PTL DEF Spec, LedgerKept, Ledger!Spec
=============================================================================
