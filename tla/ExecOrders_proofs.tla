-------------------------- MODULE ExecOrders_proofs --------------------------
(***************************************************************************)
(* Theorems about the order path for any set of orders, any foreign        *)
(* trades, any quantity and any number of commands, drops and restarts:    *)
(* types, the mapping (MapSound), and that the ledger holds only what the  *)
(* exchange did (FillsGenuine, RejectedIsDead).                            *)
(***************************************************************************)
EXTENDS ExecOrders, FiniteSetTheorems, TLAPS

-----------------------------------------------------------------------------
(* Lemmas about the helpers. *)

\* Resolving an event yields an order or nothing.
LEMMA ResolveType ==
  ASSUME TypeOK, NEW t \in Trades, NEW tok
  PROVE  Resolve(t, tok) \in Orders \cup {None}
  BY DEF Resolve, Candidates, TypeOK

\* So does remembering the answer, for every trade.
LEMMA BackfilledType ==
  ASSUME TypeOK, NEW t \in Trades, NEW tok
  PROVE  Backfilled(t, tok) \in [Trades -> Orders \cup {None}]
  BY ResolveType DEF Backfilled, TypeOK

\* The record constructors build events.
LEMMA EvType ==
  /\ \A o \in Orders, type \in EventTypes \ {"filled"} : Ev(type, o) \in Event
  /\ \A o \in Orders, id \in TradeIds : FillEv(o, id) \in Event
  /\ \A o \in Orders, n \in Nat : UpdateEv(o, n) \in Event
  BY DEF Ev, FillEv, UpdateEv, Event, EventTypes

\* Sending a message of the gateway keeps the feed typed.
LEMMA EmitType ==
  ASSUME TypeOK, NEW op \in Ops \ {"Reconnected"}, NEW t \in Trades, NEW ok \in BOOLEAN,
         NEW n \in Nat, Emit(Msg(op, t, ok, n))
  PROVE  feed' \in Seq(Message)
<1>1. Msg(op, t, ok, n) \in Message
  BY DEF Msg, Message
<1>2. QED
  BY <1>1 DEF Emit, TypeOK

\* Moving one cancel_order call to another leg leaves the others typed.
LEMMA WithLegType ==
  ASSUME TypeOK, NEW c \in Callers, NEW o \in Orders, NEW leg \in Legs
  PROVE  WithLeg(c, o, leg) \in [Callers -> [Orders -> Legs]]
<1>1. [cancel[c] EXCEPT ![o] = leg] \in [Orders -> Legs]
  BY DEF TypeOK
<1>2. QED
  BY <1>1 DEF WithLeg, TypeOK

\* Counting a command or a fault keeps the counters natural numbers.
LEMMA SpendType ==
  ASSUME TypeOK, NEW k \in Counters, Spend(k)
  PROVE  used' \in [Counters -> Nat]
<1>1. used[k] + 1 \in Nat
  BY DEF TypeOK
<1>2. QED
  BY <1>1 DEF Spend, TypeOK

\* Appending typed events keeps the queue typed.
LEMMA GenerateType ==
  ASSUME TypeOK, NEW es \in Seq(Event), Generate(es)
  PROVE  events' \in Seq(Event)
  BY DEF Generate, TypeOK

-----------------------------------------------------------------------------
(* Type correctness: one lemma per group of actions. *)

\* The engine takes the first event that waits and leaves the rest of the system.
LEMMA EngineTakes ==
  ASSUME Engine
  PROVE  /\ events # <<>> /\ events' = Tail(events)
         /\ UNCHANGED <<clientVars, venueVars, link, feed, used, inferred>>
<1>1. \/ NextEvent(DOMAIN TargetStatus) \/ NextEvent({"filled"}) \/ NextEvent({"updated"})
      \/ NextEvent({"cancel_rejected", "modify_rejected"})
  BY DEF Engine, EngineMove, EngineFill, EngineUpdate, EngineNote
<1>2. QED
  BY <1>1 DEF NextEvent

LEMMA EngineType ==
  ASSUME TypeOK, Engine
  PROVE  TypeOK'
<1>1. /\ events # <<>> /\ events' = Tail(events)
      /\ UNCHANGED <<clientVars, venueVars, link, feed, used, inferred>>
      /\ Head(events) \in Event
  BY EngineTakes DEF TypeOK
<1>2. events' \in Seq(Event)
  BY <1>1 DEF TypeOK
<1>3. Head(events).order \in Orders /\ Head(events).n \in Nat
  BY <1>1 DEF Event
<1> USE DEF clientVars, taskVars, reconVars, venueVars
<1>4. CASE EngineMove
  <2>1. status' \in [Orders -> Statuses] /\ known' \in [Orders -> BOOLEAN]
    BY <1>3, <1>4 DEF EngineMove, TypeOK, NextEvent, TargetStatus, Statuses
  <2>2. QED
    BY <1>1, <1>2, <1>4, <2>1 DEF EngineMove, TypeOK
<1>5. CASE EngineFill
  <2>1. Head(events).id \in TradeIds
    BY <1>1, <1>5 DEF EngineFill, NextEvent, Event
  <2>2. status' \in [Orders -> Statuses] /\ known' \in [Orders -> BOOLEAN]
    BY <1>3, <1>5 DEF EngineFill, TypeOK, Statuses
  <2>3. fills' \in [Orders -> SUBSET TradeIds]
    BY <1>3, <1>5, <2>1 DEF EngineFill, TypeOK
  <2>4. \A o \in Orders : IsFiniteSet(fills'[o])
    <3>1. IsFiniteSet(fills[Head(events).order] \cup {Head(events).id})
      BY <1>3, FS_AddElement DEF TypeOK
    <3>2. QED
      BY <1>3, <1>5, <3>1 DEF EngineFill, TypeOK
  <2>5. QED
    BY <1>1, <1>2, <1>5, <2>2, <2>3, <2>4 DEF EngineFill, TypeOK
<1>6. CASE EngineUpdate
  <2>1. qty' \in [Orders -> Nat] /\ known' \in [Orders -> BOOLEAN]
    BY <1>3, <1>6 DEF EngineUpdate, TypeOK
  <2>2. QED
    BY <1>1, <1>2, <1>6, <2>1 DEF EngineUpdate, TypeOK
<1>7. CASE EngineNote
  BY <1>1, <1>2, <1>7 DEF EngineNote, TypeOK
<1>8. QED
  BY <1>4, <1>5, <1>6, <1>7 DEF Engine

LEMMA CommandType ==
  ASSUME TypeOK, NEW o \in Orders, Commands(o) \/ Replies(o) \/ CancelAllOrders
  PROVE  TypeOK'
<1> USE DEF ledgerVars, venueVars, reconVars, Legs, PlaceLegs
<1>0. /\ <<>> \in Seq(Event)
      /\ \A type \in EventTypes \ {"filled"} : <<Ev(type, o)>> \in Seq(Event)
      /\ \A type, type2 \in EventTypes \ {"filled"} : <<Ev(type, o), Ev(type2, o)>> \in Seq(Event)
      /\ {"submitted", "accepted", "rejected", "cancel_rejected", "modify_rejected"}
           \subseteq EventTypes \ {"filled"}
  BY EvType DEF EventTypes
<1>1. CASE Submit(o)
  <2>1. events' \in Seq(Event)
    BY <1>0, <1>1, GenerateType DEF Submit, SubmitUnsupported, SubmitInvalid, SubmitValid
  <2>2. place' \in [Orders -> PlaceLegs] /\ venue' \in [Trades -> Venue]
    <3>1. /\ \E leg \in {"done", "request"} : place' = [place EXCEPT ![o] = leg]
          /\ venue' = venue \/ venue' = [venue EXCEPT ![o] = "enroute"]
      BY <1>1 DEF Submit, SubmitUnsupported, SubmitInvalid, SubmitValid
    <3>2. place' \in [Orders -> PlaceLegs]
      BY <3>1 DEF TypeOK
    <3>3. venue' \in [Trades -> Venue]
      BY <3>1 DEF TypeOK, Venue
    <3>4. QED
      BY <3>2, <3>3
  <2>3. QED
    BY <1>1, <2>1, <2>2 DEF Submit, TypeOK
<1>2. CASE CancelOrder(o)
  <2>1. used' \in [Counters -> Nat]
    BY <1>2, SpendType DEF CancelOrder, Counters
  <2>2. cancel' \in [Callers -> [Orders -> Legs]]
    BY <1>2, WithLegType DEF CancelOrder, Callers, TypeOK
  <2>3. QED
    BY <1>2, <2>1, <2>2 DEF CancelOrder, TypeOK
<1>3. CASE SweepNext(o)
  <2>1. cancel' \in [Callers -> [Orders -> Legs]]
    BY <1>3, WithLegType DEF SweepNext, Callers, TypeOK
  <2>2. QED
    BY <1>3, <2>1 DEF SweepNext, TypeOK
<1>4. ASSUME NEW what \in {"price", "qty"}, ModifyOrder(o, what)
      PROVE  TypeOK'
  <2>1. events' \in Seq(Event)
    <3> DEFINE es == IF Addressable(o) /\ what = "price" /\ o \in OddLot
                     THEN <<Ev("modify_rejected", o)>> ELSE <<>>
    <3>1. es \in Seq(Event)
      BY <1>0
    <3>2. Generate(es)
      BY <1>4 DEF ModifyOrder
    <3>3. QED
      BY <3>1, <3>2, GenerateType
  <2>2. used' \in [Counters -> Nat]
    BY <1>4, SpendType DEF ModifyOrder, Counters
  <2>3. modify' \in [Orders -> Legs]
    BY <1>4 DEF ModifyOrder, TypeOK
  <2>4. QED
    BY <1>4, <2>1, <2>2, <2>3 DEF ModifyOrder, TypeOK
<1>5. CASE PlaceReturns(o)
  <2>1. events' \in Seq(Event)
    BY <1>0, <1>5, GenerateType DEF PlaceReturns, PlaceOk, PlaceFailed, PlaceError, TypeOK
  <2>2. map' \in [Trades -> Orders \cup {None}]
    BY <1>5 DEF PlaceReturns, PlaceOk, PlaceFailed, PlaceError, TypeOK
  <2>3. place' \in [Orders -> PlaceLegs]
    BY <1>5 DEF PlaceReturns, TypeOK
  <2>4. QED
    BY <1>5, <2>1, <2>2, <2>3 DEF PlaceReturns, TypeOK
<1>6. CASE ModifyReturns(o)
  <2>1. events' \in Seq(Event)
    BY <1>0, <1>6, GenerateType DEF ModifyReturns
  <2>2. modify' \in [Orders -> Legs]
    BY <1>6 DEF ModifyReturns, TypeOK
  <2>3. QED
    BY <1>6, <2>1, <2>2 DEF ModifyReturns, TypeOK
<1>7. ASSUME NEW c \in Callers, CancelReturns(c, o)
      PROVE  TypeOK'
  <2>1. CancelReply(c, o) \in Seq(Event)
    BY <1>0 DEF CancelReply
  <2>2. events' \in Seq(Event)
    BY <1>7, <2>1, GenerateType DEF CancelReturns
  <2>3. cancel' \in [Callers -> [Orders -> Legs]]
    BY <1>7, WithLegType DEF CancelReturns
  <2>4. QED
    BY <1>7, <2>2, <2>3 DEF CancelReturns, TypeOK
<1>8. CASE CancelAllOrders
  <2>1. used' \in [Counters -> Nat]
    BY <1>8, SpendType DEF CancelAllOrders, Counters
  <2>2. QED
    BY <1>8, <2>1 DEF CancelAllOrders, TypeOK
<1>9. QED
  BY <1>1, <1>2, <1>3, <1>4, <1>5, <1>6, <1>7, <1>8 DEF Commands, Replies

LEMMA GatewayType ==
  ASSUME TypeOK, NEW o \in Orders, Gateway(o) \/ GatewayModify(o) \/ Faults(o)
  PROVE  TypeOK'
<1> USE DEF ledgerVars, venueVars, reconVars, Legs, PlaceLegs, Venue
<1>0. o \in Trades
  BY DEF Trades
<1>1. CASE Gateway(o)
  <2>1. feed' \in Seq(Message)
    BY <1>0, <1>1, EmitType DEF Gateway, GatewayRefuse, GatewayFail, GatewayPlace, Ops, TypeOK
  <2>2. venue' \in [Trades -> Venue]
    BY <1>0, <1>1 DEF Gateway, GatewayRefuse, GatewayFail, GatewayPlace, TypeOK
  <2>3. PICK leg \in {"ok", "failed", "error"} : ReplyTo(o, leg)
    BY <1>1 DEF Gateway, GatewayRefuse, GatewayFail, GatewayPlace
  <2>4. place' \in [Orders -> PlaceLegs]
    <3>1. (IF place[o] = "request" THEN leg ELSE place[o]) \in PlaceLegs
      BY DEF TypeOK
    <3>2. QED
      BY <2>3, <3>1 DEF ReplyTo, TypeOK
  <2>5. QED
    BY <1>1, <2>1, <2>2, <2>4 DEF Gateway, TypeOK
<1>2. CASE GatewayModify(o)
  <2>1. traded[o] \in Nat /\ size[o] \in Nat
    BY <1>0 DEF TypeOK
  <2>2. feed' \in Seq(Message) /\ size' \in [Trades -> Nat]
    <3>1. CASE \E n \in traded[o] + 1 .. size[o] : size' = [size EXCEPT ![o] = n] /\ Emit(Msg("Update", o, TRUE, n))
      <4>1. PICK n \in traded[o] + 1 .. size[o] : size' = [size EXCEPT ![o] = n] /\ Emit(Msg("Update", o, TRUE, n))
        BY <3>1
      <4>2. n \in Nat
        BY <2>1
      <4>3. QED
        BY <1>0, <4>1, <4>2, EmitType DEF Ops, TypeOK
    <3>2. CASE Emit(Msg("Update", o, FALSE, 0)) /\ UNCHANGED size
      BY <1>0, <3>2, EmitType DEF Ops, TypeOK
    <3>3. CASE UNCHANGED <<size, feed>>
      BY <3>3 DEF TypeOK
    <3>4. QED
      BY <1>2, <3>1, <3>2, <3>3 DEF GatewayModify
  <2>3. modify' \in [Orders -> Legs]
    <3>1. \E leg \in {"ok", "error"} : modify' = [modify EXCEPT ![o] = leg]
      BY <1>2 DEF GatewayModify
    <3>2. QED
      BY <3>1 DEF TypeOK
  <2>4. QED
    BY <1>2, <2>2, <2>3 DEF GatewayModify, TypeOK
<1>3. CASE PlaceFault(o)
  <2>1. place' \in [Orders -> PlaceLegs]
    BY <1>3 DEF PlaceFault, TypeOK
  <2>2. QED
    BY <1>3, <2>1 DEF PlaceFault, TypeOK
<1>4. CASE ModifyFault(o)
  <2>1. modify' \in [Orders -> Legs]
    BY <1>4 DEF ModifyFault, TypeOK
  <2>2. QED
    BY <1>4, <2>1 DEF ModifyFault, TypeOK
<1>5. ASSUME NEW c \in Callers, CancelFault(c, o)
      PROVE  TypeOK'
  <2>1. cancel' \in [Callers -> [Orders -> Legs]]
    BY <1>5, WithLegType DEF CancelFault
  <2>2. QED
    BY <1>5, <2>1 DEF CancelFault, TypeOK
<1>6. QED
  BY <1>1, <1>2, <1>3, <1>4, <1>5 DEF Faults

LEMMA GatewayCancelType ==
  ASSUME TypeOK, NEW c \in Callers, NEW o \in Orders, GatewayCancel(c, o)
  PROVE  TypeOK'
<1>0. o \in Trades
  BY DEF Trades
<1>1. feed' \in Seq(Message)
  BY <1>0, EmitType DEF GatewayCancel, Ops, TypeOK
<1>2. cancel' \in [Callers -> [Orders -> Legs]]
  <2>1. PICK leg \in {"ok", "error"} : cancel' = WithLeg(c, o, leg)
    BY DEF GatewayCancel
  <2>2. QED
    BY <2>1, WithLegType DEF Legs
<1>3. venue' \in [Trades -> Venue]
  BY <1>0 DEF GatewayCancel, TypeOK, Venue
<1>4. QED
  BY <1>1, <1>2, <1>3 DEF GatewayCancel, TypeOK, ledgerVars, reconVars

LEMMA ExchangeType ==
  ASSUME TypeOK, NEW t \in Trades, Exchange(t)
  PROVE  TypeOK'
<1> USE DEF clientVars, taskVars, reconVars, ledgerVars, Venue
<1>1. CASE ForeignPlace(t)
  BY <1>1 DEF ForeignPlace, TypeOK
<1>2. CASE VenueDecides(t)
  <2>1. feed' \in Seq(Message)
    BY <1>2, EmitType DEF VenueDecides, Ops
  <2>2. QED
    BY <1>2, <2>1 DEF VenueDecides, TypeOK
<1>3. CASE VenueDeal(t)
  <2>1. traded[t] + 1 \in Nat
    BY DEF TypeOK
  <2>2. feed' \in Seq(Message)
    BY <1>3, <2>1, EmitType DEF VenueDeal, Ops
  <2>3. QED
    BY <1>3, <2>1, <2>2 DEF VenueDeal, TypeOK
<1>4. CASE VenueCancel(t)
  <2>1. feed' \in Seq(Message)
    BY <1>4, EmitType DEF VenueCancel, Ops
  <2>2. QED
    BY <1>4, <2>1 DEF VenueCancel, TypeOK
<1>5. QED
  BY <1>1, <1>2, <1>3, <1>4 DEF Exchange

LEMMA CallbackType ==
  ASSUME TypeOK, Callback
  PROVE  TypeOK'
<1> USE DEF taskVars, reconVars, ledgerVars, venueVars
<1>1. CASE RecheckDeal
  <2>1. map' \in [Trades -> Orders \cup {None}]
    BY <1>1 DEF RecheckDeal, Popped, TypeOK
  <2>2. QED
    BY <1>1, <2>1 DEF RecheckDeal, TypeOK
<1>2. CASE HandleReconnected
  <2>1. feed' \in Seq(Message)
    BY <1>2 DEF HandleReconnected, NextMessage, TypeOK
  <2>2. recon' \in [Slots -> ReconPcs]
    BY <1>2 DEF HandleReconnected, StartRecon, ReconPcs, TypeOK
  <2>3. QED
    BY <1>2, <2>1, <2>2 DEF HandleReconnected, NextMessage, StartRecon, TypeOK
<1>3. ASSUME NEW op \in {"New", "Cancel", "Update", "Deal"}, NextMessage(op),
             map' \in [Trades -> Orders \cup {None}], events' \in Seq(Event),
             recheck' \in Trades \cup {None}, UNCHANGED reconVars
      PROVE  TypeOK'
  <2>1. feed' \in Seq(Message)
    BY <1>3 DEF NextMessage, TypeOK
  <2>2. QED
    BY <1>3, <2>1 DEF NextMessage, TypeOK
<1>4. ASSUME NEW op \in {"New", "Cancel", "Update", "Deal"}, NextMessage(op)
      PROVE  /\ Head(feed).trade \in Trades /\ Head(feed).n \in Nat
             /\ Addressee \in Orders \cup {None}
             /\ Learnt \in [Trades -> Orders \cup {None}]
             /\ Popped(Learnt, Head(feed).trade) \in [Trades -> Orders \cup {None}]
  <2>1. Head(feed) \in Message
    BY <1>4 DEF NextMessage, TypeOK
  <2>2. Head(feed).trade \in Trades /\ Head(feed).n \in Nat
    BY <1>4, <2>1 DEF NextMessage, Message
  <2>3. Addressee \in Orders \cup {None} /\ Learnt \in [Trades -> Orders \cup {None}]
    BY <2>2, ResolveType, BackfilledType DEF Addressee, Learnt
  <2>4. QED
    BY <2>2, <2>3 DEF Popped
<1>5. CASE HandleNew
  <2>1. NextMessage("New")
    BY <1>5 DEF HandleNew
  <2>2. (IF RejectsNew(Head(feed), Addressee) THEN <<Ev("rejected", Addressee)>> ELSE <<>>) \in Seq(Event)
    BY <1>4, <2>1, EvType DEF RejectsNew, EventTypes
  <2>3. events' \in Seq(Event)
    BY <1>5, <2>2, GenerateType DEF HandleNew
  <2>4. map' \in [Trades -> Orders \cup {None}]
    BY <1>4, <1>5, <2>1 DEF HandleNew
  <2>5. QED
    BY <1>3, <1>5, <2>1, <2>3, <2>4 DEF HandleNew, TypeOK
<1>6. CASE HandleCancel
  <2>1. NextMessage("Cancel")
    BY <1>6 DEF HandleCancel
  <2>2. (IF Addressee = None THEN <<>> ELSE <<Ev(CancelEvent(Head(feed)), Addressee)>>) \in Seq(Event)
    BY <1>4, <2>1, EvType DEF CancelEvent, EventTypes
  <2>3. events' \in Seq(Event)
    BY <1>6, <2>2, GenerateType DEF HandleCancel
  <2>4. map' \in [Trades -> Orders \cup {None}]
    BY <1>4, <1>6, <2>1 DEF HandleCancel
  <2>5. QED
    BY <1>3, <1>6, <2>1, <2>3, <2>4 DEF HandleCancel, TypeOK
<1>7. CASE HandleUpdate
  <2>1. NextMessage("Update")
    BY <1>7 DEF HandleUpdate
  <2>2. (IF Addressee = None THEN <<>>
         ELSE <<IF Head(feed).ok THEN UpdateEv(Addressee, Head(feed).n)
                ELSE Ev("modify_rejected", Addressee)>>) \in Seq(Event)
    BY <1>4, <2>1, EvType DEF EventTypes
  <2>3. events' \in Seq(Event)
    BY <1>7, <2>2, GenerateType DEF HandleUpdate
  <2>4. QED
    BY <1>3, <1>4, <1>7, <2>1, <2>3 DEF HandleUpdate, TypeOK
<1>8. CASE HandleDeal
  <2>1. NextMessage("Deal")
    BY <1>8 DEF HandleDeal
  <2>2. DealId(Head(feed)) \in TradeIds
    BY <1>4, <2>1 DEF DealId, TradeIds
  <2>3. (IF Addressee = None THEN <<>> ELSE <<FillEv(Addressee, DealId(Head(feed)))>>) \in Seq(Event)
    BY <1>4, <2>1, <2>2, EvType
  <2>4. events' \in Seq(Event)
    BY <1>8, <2>3, GenerateType DEF HandleDeal
  <2>5. recheck' \in Trades \cup {None}
    BY <1>4, <1>8, <2>1 DEF HandleDeal
  <2>6. QED
    BY <1>3, <1>4, <1>8, <2>1, <2>4, <2>5 DEF HandleDeal
<1>9. QED
  BY <1>1, <1>2, <1>5, <1>6, <1>7, <1>8 DEF Callback

\* A report adds at most the shares the exchange executed beyond the ledger.
LEMMA LargerType ==
  ASSUME NEW a \in Nat, NEW b \in Nat
  PROVE  Larger(a, b) \in Nat /\ Larger(a, b) >= a
  BY DEF Larger

LEMMA FilledType ==
  ASSUME TypeOK, NEW o \in Orders
  PROVE  Filled(o) \in Nat
<1>1. Cardinality(fills[o]) \in Nat
  BY FS_CardinalityType DEF TypeOK
<1>2. QED
  BY <1>1 DEF Filled, TypeOK

LEMMA NoViewType == NoView \in View /\ Nobody \in [Trades -> Orders \cup {None}]
  BY DEF NoView, Nobody, View, Venue

LEMMA ConnectionType ==
  ASSUME TypeOK, DropLink \/ Reconnect \/ Restart \/ StartUp
  PROVE  TypeOK'
<1> USE DEF clientVars, taskVars, reconVars, ledgerVars, venueVars
<1>1. CASE DropLink
  <2>1. used' \in [Counters -> Nat]
    BY <1>1, SpendType DEF DropLink, Counters
  <2>2. PICK k \in 0 .. Len(feed) : feed' = SubSeq(feed, 1, k)
    BY <1>1 DEF DropLink
  <2>3. feed' \in Seq(Message)
    BY <2>2 DEF TypeOK
  <2>4. QED
    BY <1>1, <2>1, <2>3 DEF DropLink, TypeOK
<1>2. CASE Reconnect
  <2>1. Msg("Reconnected", None, TRUE, 0) \in Message
    BY DEF Msg, Message
  <2>2. PICK m \in Message : feed' = Append(feed, m)
    BY <1>2, <2>1 DEF Reconnect
  <2>3. feed' \in Seq(Message)
    BY <2>2 DEF TypeOK
  <2>4. QED
    BY <1>2, <2>3 DEF Reconnect, TypeOK
<1>3. CASE Restart
  <2>1. used' \in [Counters -> Nat]
    BY <1>3, SpendType DEF Restart, Counters
  <2>2. place' \in [Orders -> PlaceLegs]
    BY <1>3 DEF Restart, PlaceLegs
  <2>3. cancel' \in [Callers -> [Orders -> Legs]] /\ modify' \in [Orders -> Legs]
    BY <1>3 DEF Restart, Legs
  <2>4. recon' \in [Slots -> ReconPcs] /\ rows' \in [Slots -> SUBSET Trades]
    BY <1>3 DEF Restart, ReconPcs
  <2>5. seen' \in [Slots -> View] /\ who' \in [Slots -> [Trades -> Orders \cup {None}]]
    BY <1>3, NoViewType DEF Restart
  <2>6. map' \in [Trades -> Orders \cup {None}]
    BY <1>3, NoViewType DEF Restart
  <2>7. QED
    BY <1>3, <2>1, <2>2, <2>3, <2>4, <2>5, <2>6 DEF Restart, TypeOK
<1>4. CASE StartUp
  <2>1. recon' \in [Slots -> ReconPcs]
    BY <1>4 DEF StartUp, StartRecon, ReconPcs, TypeOK
  <2>2. QED
    BY <1>4, <2>1 DEF StartUp, StartRecon, TypeOK
<1>5. QED
  BY <1>1, <1>2, <1>3, <1>4

LEMMA ReconcileType ==
  ASSUME TypeOK, NEW i \in Slots, Reconcile(i)
  PROVE  TypeOK'
<1> USE DEF taskVars, ledgerVars, venueVars, ReconPcs
<1>1. CASE GatewayList(i)
  <2>1. [state |-> venue, size |-> size, traded |-> traded] \in View
    BY DEF View, TypeOK
  <2>2. seen' \in [Slots -> View]
    BY <1>1, <2>1 DEF GatewayList, TypeOK
  <2>3. recon' \in [Slots -> ReconPcs] /\ rows' \in [Slots -> SUBSET Trades]
    BY <1>1 DEF GatewayList, TypeOK
  <2>4. QED
    BY <1>1, <2>2, <2>3 DEF GatewayList, TypeOK
<1>2. CASE ReconReports(i)
  <2>1. PICK done \in SUBSET rows[i] :
          /\ rows' = [rows EXCEPT ![i] = done]
          /\ map' = [t \in Trades |-> IF t \in done THEN Resolve(t, Token[t]) ELSE map[t]]
          /\ who' = [who EXCEPT ![i] = [t \in Trades |-> IF t \in done THEN Resolve(t, Token[t]) ELSE None]]
    BY <1>2 DEF ReconReports
  <2>2. \A t \in Trades : Resolve(t, Token[t]) \in Orders \cup {None}
    BY ResolveType
  <2>3. map' \in [Trades -> Orders \cup {None}]
    BY <2>1, <2>2 DEF TypeOK
  <2>4. [t \in Trades |-> IF t \in done THEN Resolve(t, Token[t]) ELSE None]
          \in [Trades -> Orders \cup {None}]
    BY <2>2
  <2>5. who' \in [Slots -> [Trades -> Orders \cup {None}]]
    BY <2>1, <2>4 DEF TypeOK
  <2>6. recon' \in [Slots -> ReconPcs]
    BY <1>2 DEF ReconReports, TypeOK
  <2>7. rows' \in [Slots -> SUBSET Trades]
    BY <2>1 DEF TypeOK
  <2>8. QED
    BY <1>2, <2>3, <2>5, <2>6, <2>7 DEF ReconReports, TypeOK
<1>3. CASE ReconSend(i)
  <2> DEFINE Adopts(o) == ~Closed(o) /\ \E t \in rows[i] : who[i][t] = o /\ seen[i].state[t] # "pending"
             RowOf(o)  == CHOOSE t \in rows[i] : who[i][t] = o /\ seen[i].state[t] # "pending"
             Total(o)  == Larger(Filled(o), seen[i].traded[RowOf(o)])
  <2>1. ASSUME NEW o \in Orders, Adopts(o)
        PROVE  /\ seen[i].size[RowOf(o)] \in Nat
               /\ inferred[o] + Total(o) - Filled(o) \in Nat
    <3>1. RowOf(o) \in Trades
      BY <2>1 DEF TypeOK
    <3>2. seen[i] \in View
      BY DEF TypeOK
    <3>3. seen[i].size[RowOf(o)] \in Nat /\ seen[i].traded[RowOf(o)] \in Nat
      BY <3>1, <3>2 DEF View
    <3>4. inferred[o] \in Nat /\ Filled(o) \in Nat
      BY FilledType DEF TypeOK
    <3>5. Total(o) \in Nat /\ Total(o) >= Filled(o)
      BY <3>3, <3>4, LargerType
    <3> HIDE DEF RowOf, Total
    <3>6. QED
      BY <3>3, <3>4, <3>5
  <2>2. /\ status' = [o \in Orders |->
              IF Adopts(o) THEN ReportStatus(o, seen[i].state[RowOf(o)], Total(o)) ELSE status[o]]
        /\ inferred' = [o \in Orders |->
              IF Adopts(o) THEN inferred[o] + Total(o) - Filled(o) ELSE inferred[o]]
        /\ qty' = [o \in Orders |-> IF Adopts(o) THEN seen[i].size[RowOf(o)] ELSE qty[o]]
        /\ known' = [o \in Orders |-> known[o] \/ Adopts(o)]
    BY <1>3 DEF ReconSend
  <2> HIDE DEF Adopts, RowOf, Total
  <2>3. status' \in [Orders -> Statuses]
    BY <2>2 DEF ReportStatus, Statuses, TypeOK
  <2>4. inferred' \in [Orders -> Nat] /\ qty' \in [Orders -> Nat]
    BY <2>1, <2>2 DEF TypeOK
  <2>5. known' \in [Orders -> BOOLEAN]
    BY <2>2 DEF TypeOK
  <2>6. recon' \in [Slots -> ReconPcs] /\ rows' \in [Slots -> SUBSET Trades]
    BY <1>3 DEF ReconSend, TypeOK
  <2>7. seen' \in [Slots -> View] /\ who' \in [Slots -> [Trades -> Orders \cup {None}]]
    BY <1>3, NoViewType DEF ReconSend, TypeOK
  <2>8. QED
    BY <1>3, <2>3, <2>4, <2>5, <2>6, <2>7 DEF ReconSend, TypeOK
<1>4. QED
  BY <1>1, <1>2, <1>3 DEF Reconcile

\* The initial states, and every step, are typed.
LEMMA InitType == Init => TypeOK
<1> SUFFICES ASSUME Init PROVE TypeOK
  OBVIOUS
<1>1. place \in [Orders -> PlaceLegs] /\ cancel \in [Callers -> [Orders -> Legs]]
      /\ modify \in [Orders -> Legs]
  BY DEF Init, PlaceLegs, Legs
<1>2. recon \in [Slots -> ReconPcs] /\ rows \in [Slots -> SUBSET Trades]
  BY DEF Init, ReconPcs
<1>3. seen \in [Slots -> View] /\ who \in [Slots -> [Trades -> Orders \cup {None}]]
      /\ map \in [Trades -> Orders \cup {None}]
  BY NoViewType DEF Init
<1>4. status \in [Orders -> Statuses] /\ known \in [Orders -> BOOLEAN] /\ inferred \in [Orders -> Nat]
  BY DEF Init, Statuses
<1>5. fills \in [Orders -> SUBSET TradeIds] /\ \A o \in Orders : IsFiniteSet(fills[o])
  BY FS_EmptySet DEF Init
<1>6. Qty \in Nat
  BY ParameterAssumption
<1>7. qty \in [Orders -> Nat] /\ size \in [Trades -> Nat]
  BY <1>6 DEF Init
<1>8. venue \in [Trades -> Venue] /\ traded \in [Trades -> Nat]
  BY DEF Init, Venue
<1>9. used \in [Counters -> Nat]
  BY DEF Init
<1>10. QED
  BY <1>1, <1>2, <1>3, <1>4, <1>5, <1>7, <1>8, <1>9 DEF Init, TypeOK

LEMMA NextType == TypeOK /\ [Next]_vars => TypeOK'
<1> SUFFICES ASSUME TypeOK, [Next]_vars PROVE TypeOK'
  OBVIOUS
<1>1. CASE UNCHANGED vars
  BY <1>1 DEF vars, clientVars, taskVars, reconVars, ledgerVars, venueVars, TypeOK
<1>2. CASE Engine
  BY <1>2, EngineType
<1>3. CASE Callback
  BY <1>3, CallbackType
<1>4. CASE CancelAllOrders
  <2>1. CASE Orders = {}
    BY <1>4, <2>1, SpendType DEF CancelAllOrders, Counters, TypeOK, reconVars, ledgerVars, venueVars
  <2>2. CASE Orders # {}
    BY <1>4, <2>2, CommandType
  <2>3. QED
    BY <2>1, <2>2
<1>5. ASSUME NEW o \in Orders,
             Commands(o) \/ Replies(o) \/ Gateway(o) \/ GatewayModify(o) \/ Faults(o)
      PROVE  TypeOK'
  BY <1>5, CommandType, GatewayType
<1>6. ASSUME NEW c \in Callers, NEW o \in Orders, GatewayCancel(c, o)
      PROVE  TypeOK'
  BY <1>6, GatewayCancelType
<1>7. ASSUME NEW t \in Trades, Exchange(t)
      PROVE  TypeOK'
  BY <1>7, ExchangeType
<1>8. CASE DropLink \/ Reconnect \/ Restart \/ StartUp
  BY <1>8, ConnectionType
<1>9. ASSUME NEW i \in Slots, Reconcile(i)
      PROVE  TypeOK'
  BY <1>9, ReconcileType
<1>10. QED
  BY <1>1, <1>2, <1>3, <1>4, <1>5, <1>6, <1>7, <1>8, <1>9 DEF Next

\* Every reachable state is typed, for any number of orders, commands, drops
\* and restarts (the state of SinopacExecutionClient and what surrounds it).
THEOREM TypeCorrect == Spec => []TypeOK
  BY InitType, NextType, PTL DEF Spec

-----------------------------------------------------------------------------
(* The mapping. A reconciliation resolves a trade before it reports it, so  *)
(* what it remembers must be as sound as the mapping itself.                *)

MapInv == MapSound /\ \A i \in Slots, t \in Trades : who[i][t] # None => who[i][t] = t

\* A trade resolves to the order that created it or to nothing: the mapping
\* is sound and a token names one order (_resolve_client_order_id).
LEMMA ResolveSound ==
  ASSUME MapInv, NEW t \in Trades, NEW tok \in {NoToken, Token[t]}
  PROVE  Resolve(t, tok) # None => Resolve(t, tok) = t
<1>1. CASE map[t] # None \/ tok = NoToken \/ Candidates(tok) = {}
  BY <1>1 DEF Resolve, MapInv, MapSound
<1>2. CASE ~(map[t] # None \/ tok = NoToken \/ Candidates(tok) = {})
  <2>1. Resolve(t, tok) \in Candidates(tok) /\ tok = Token[t]
    BY <1>2 DEF Resolve
  <2>2. QED
    BY <2>1, TokenAssumption DEF Candidates
<1>3. QED
  BY <1>1, <1>2

LEMMA InitMap == Init => MapInv
  BY DEF Init, MapInv, MapSound, Nobody

LEMMA CallbackMap ==
  ASSUME TypeOK, MapInv, Callback
  PROVE  MapInv'
<1> USE DEF reconVars
<1>1. CASE RecheckDeal
  BY <1>1 DEF RecheckDeal, Popped, MapInv, MapSound, TypeOK
<1>2. CASE HandleReconnected
  BY <1>2 DEF HandleReconnected, StartRecon, MapInv, MapSound
<1>3. ASSUME NEW op \in {"New", "Cancel", "Update", "Deal"}, NextMessage(op),
             map' = Learnt \/ map' = Popped(Learnt, Head(feed).trade), UNCHANGED who
      PROVE  MapInv'
  <2>1. Head(feed) \in Message
    BY <1>3 DEF NextMessage, TypeOK
  <2>2. Head(feed).trade \in Trades
    BY <1>3, <2>1 DEF NextMessage, Message
  <2>3. Addressee # None => Addressee = Head(feed).trade
    BY <2>2, ResolveSound DEF Addressee, TokenOf
  <2>4. Learnt = [map EXCEPT ![Head(feed).trade] = Addressee]
    BY DEF Learnt, Backfilled, Addressee
  <2>5. \A t \in Trades : map'[t] # None => map'[t] = t
    BY <1>3, <2>2, <2>3, <2>4 DEF Popped, MapInv, MapSound, TypeOK
  <2>6. QED
    BY <1>3, <2>5 DEF MapInv, MapSound
<1>4. CASE HandleNew
  BY <1>3, <1>4 DEF HandleNew
<1>5. CASE HandleCancel
  BY <1>3, <1>5 DEF HandleCancel
<1>6. CASE HandleUpdate
  BY <1>3, <1>6 DEF HandleUpdate
<1>7. CASE HandleDeal
  BY <1>3, <1>7 DEF HandleDeal
<1>8. QED
  BY <1>1, <1>2, <1>4, <1>5, <1>6, <1>7 DEF Callback

LEMMA ReconcileMap ==
  ASSUME TypeOK, MapInv, NEW i \in Slots, Reconcile(i)
  PROVE  MapInv'
<1>1. CASE GatewayList(i)
  BY <1>1 DEF GatewayList, MapInv, MapSound
<1>2. CASE ReconReports(i)
  <2>1. PICK done \in SUBSET rows[i] :
          /\ map' = [t \in Trades |-> IF t \in done THEN Resolve(t, Token[t]) ELSE map[t]]
          /\ who' = [who EXCEPT ![i] = [t \in Trades |-> IF t \in done THEN Resolve(t, Token[t]) ELSE None]]
    BY <1>2 DEF ReconReports
  <2>2. \A t \in Trades : Resolve(t, Token[t]) # None => Resolve(t, Token[t]) = t
    BY ResolveSound
  <2>3. \A t \in Trades : map'[t] # None => map'[t] = t
    BY <2>1, <2>2 DEF MapInv, MapSound
  <2>4. \A t \in Trades : who'[i][t] # None => who'[i][t] = t
    BY <2>1, <2>2 DEF TypeOK
  <2>5. \A j \in Slots \ {i} : who'[j] = who[j]
    BY <2>1 DEF TypeOK
  <2>6. QED
    BY <2>3, <2>4, <2>5 DEF MapInv, MapSound
<1>3. CASE ReconSend(i)
  <2>1. UNCHANGED map /\ who' = [who EXCEPT ![i] = Nobody]
    BY <1>3 DEF ReconSend
  <2>2. \A j \in Slots, t \in Trades : who'[j][t] # None => who'[j][t] = who[j][t]
    BY <2>1 DEF Nobody, TypeOK
  <2>3. QED
    BY <2>1, <2>2 DEF MapInv, MapSound
<1>4. QED
  BY <1>1, <1>2, <1>3 DEF Reconcile

\* The reply of place_order is the only other step that writes the mapping.
LEMMA OtherMap ==
  ASSUME TypeOK, MapInv,
         \/ UNCHANGED vars
         \/ Engine
         \/ CancelAllOrders
         \/ \E o \in Orders : Commands(o) \/ Replies(o) \/ Gateway(o) \/ GatewayModify(o) \/ Faults(o)
         \/ \E c \in Callers, o \in Orders : GatewayCancel(c, o)
         \/ \E t \in Trades : Exchange(t)
         \/ DropLink \/ Reconnect \/ Restart \/ StartUp
  PROVE  MapInv'
<1> USE DEF clientVars, reconVars
<1>1. CASE \E o \in Orders : PlaceReturns(o)
  <2>1. PICK o \in Orders : PlaceReturns(o)
    BY <1>1
  <2>2. UNCHANGED who /\ (UNCHANGED map \/ map' = [map EXCEPT ![o] = o])
    BY <2>1 DEF PlaceReturns, PlaceOk, PlaceFailed, PlaceError
  <2>3. \A t \in Trades : map'[t] # None => map'[t] = t
    BY <2>2 DEF MapInv, MapSound, TypeOK
  <2>4. QED
    BY <2>2, <2>3 DEF MapInv, MapSound
<1>2. CASE Restart
  BY <1>2 DEF Restart, Nobody, MapInv, MapSound
<1>3. CASE UNCHANGED <<map, who>>
  BY <1>3 DEF MapInv, MapSound
<1>4. ASSUME Engine \/ DropLink \/ Reconnect \/ StartUp \/ CancelAllOrders \/ UNCHANGED vars
      PROVE  UNCHANGED <<map, who>>
  BY <1>4 DEF Engine, EngineMove, EngineFill, EngineUpdate, EngineNote, NextEvent,
              DropLink, Reconnect, StartUp, StartRecon, CancelAllOrders, vars
<1>5. ASSUME NEW o \in Orders, Commands(o) \/ Replies(o), ~PlaceReturns(o)
      PROVE  UNCHANGED <<map, who>>
  BY <1>5 DEF Commands, Replies, Submit, CancelOrder, SweepNext, ModifyOrder, ModifyReturns, CancelReturns
<1>6. ASSUME NEW o \in Orders, Gateway(o) \/ GatewayModify(o) \/ Faults(o)
      PROVE  UNCHANGED <<map, who>>
  BY <1>6 DEF Gateway, GatewayModify, Faults, PlaceFault, CancelFault, ModifyFault
<1>7. ASSUME NEW c \in Callers, NEW o \in Orders, GatewayCancel(c, o)
      PROVE  UNCHANGED <<map, who>>
  BY <1>7 DEF GatewayCancel
<1>8. ASSUME NEW t \in Trades, Exchange(t)
      PROVE  UNCHANGED <<map, who>>
  BY <1>8 DEF Exchange, ForeignPlace, VenueDecides, VenueDeal, VenueCancel
<1>9. QED
  BY <1>1, <1>2, <1>3, <1>4, <1>5, <1>6, <1>7, <1>8

LEMMA NextMap == TypeOK /\ MapInv /\ [Next]_vars => MapInv'
<1> SUFFICES ASSUME TypeOK, MapInv, [Next]_vars PROVE MapInv'
  OBVIOUS
<1>1. CASE Callback
  BY <1>1, CallbackMap
<1>2. CASE \E i \in Slots : Reconcile(i)
  BY <1>2, ReconcileMap
<1>3. CASE ~Callback /\ ~\E i \in Slots : Reconcile(i)
  BY <1>3, OtherMap DEF Next
<1>4. QED
  BY <1>1, <1>2, <1>3

\* No event, deal or status report is ever attributed to an order that did not
\* create the trade, whatever other sessions trade on the account
\* (_resolve_client_order_id).
THEOREM MapCorrect == Spec => []MapSound
<1>1. Init => MapInv
  BY InitMap
<1>2. TypeOK /\ MapInv /\ [Next]_vars => MapInv'
  BY NextMap
<1>3. MapInv => MapSound
  BY DEF MapInv
<1>4. QED
  BY <1>1, <1>2, <1>3, TypeCorrect, PTL DEF Spec

-----------------------------------------------------------------------------
(* Queues as sets. *)

Elems(s) == {s[i] : i \in 1 .. Len(s)}

\* What concatenation, Append, Tail and SubSeq do to the elements of a queue.
LEMMA ElemsConcat ==
  ASSUME NEW S, NEW s \in Seq(S), NEW t \in Seq(S)
  PROVE  Elems(s \o t) = Elems(s) \cup Elems(t)
<1>1. ASSUME NEW i \in 1 .. Len(s \o t)
      PROVE  (s \o t)[i] \in Elems(s) \cup Elems(t)
  BY DEF Elems
<1>2. ASSUME NEW i \in 1 .. Len(s)
      PROVE  s[i] \in Elems(s \o t)
  <2>1. i \in 1 .. Len(s \o t) /\ (s \o t)[i] = s[i]
    OBVIOUS
  <2>2. QED
    BY <2>1 DEF Elems
<1>3. ASSUME NEW i \in 1 .. Len(t)
      PROVE  t[i] \in Elems(s \o t)
  <2>1. Len(s) + i \in 1 .. Len(s \o t) /\ (s \o t)[Len(s) + i] = t[i]
    OBVIOUS
  <2>2. QED
    BY <2>1 DEF Elems
<1>4. QED
  BY <1>1, <1>2, <1>3 DEF Elems

LEMMA ElemsTail ==
  ASSUME NEW S, NEW s \in Seq(S), s # <<>>
  PROVE  Elems(Tail(s)) \subseteq Elems(s) /\ Head(s) \in Elems(s)
<1>1. ASSUME NEW i \in 1 .. Len(Tail(s))
      PROVE  Tail(s)[i] \in Elems(s)
  <2>1. i + 1 \in 1 .. Len(s) /\ Tail(s)[i] = s[i + 1]
    OBVIOUS
  <2>2. QED
    BY <2>1 DEF Elems
<1>2. 1 \in 1 .. Len(s) /\ Head(s) = s[1]
  OBVIOUS
<1>3. QED
  BY <1>1, <1>2 DEF Elems

LEMMA ElemsSubSeq ==
  ASSUME NEW S, NEW s \in Seq(S), NEW k \in 0 .. Len(s)
  PROVE  Elems(SubSeq(s, 1, k)) \subseteq Elems(s)
<1>1. ASSUME NEW i \in 1 .. Len(SubSeq(s, 1, k))
      PROVE  SubSeq(s, 1, k)[i] \in Elems(s)
  <2>1. i \in 1 .. Len(s) /\ SubSeq(s, 1, k)[i] = s[i]
    OBVIOUS
  <2>2. QED
    BY <2>1 DEF Elems
<1>2. QED
  BY <1>1 DEF Elems

\* A queue of one or two elements.
LEMMA ElemsPair ==
  ASSUME NEW x, NEW y
  PROVE  Elems(<<x, y>>) = {x, y}
<1>1. Len(<<x, y>>) = 2 /\ <<x, y>>[1] = x /\ <<x, y>>[2] = y
  OBVIOUS
<1>2. \A i : i \in 1 .. Len(<<x, y>>) <=> i = 1 \/ i = 2
  BY <1>1
<1>3. QED
  BY <1>1, <1>2, Zenon DEF Elems

LEMMA ElemsOne ==
  ASSUME NEW x
  PROVE  Elems(<<x>>) = {x}
<1>1. Len(<<x>>) = 1 /\ <<x>>[1] = x
  OBVIOUS
<1>2. \A i : i \in 1 .. Len(<<x>>) <=> i = 1
  BY <1>1
<1>3. QED
  BY <1>1, <1>2, Zenon DEF Elems

LEMMA ElemsAppend ==
  ASSUME NEW S, NEW s \in Seq(S), NEW x \in S
  PROVE  Elems(Append(s, x)) = Elems(s) \cup {x}
<1>0. <<x>> \in Seq(S)
  OBVIOUS
<1>1. PICK t \in Seq(S) : t = <<x>>
  BY <1>0, Zenon
<1>2. Append(s, x) = s \o t
  BY <1>1
<1>3. Elems(s \o t) = Elems(s) \cup Elems(t)
  BY ElemsConcat
<1>4. Elems(t) = {x}
  BY <1>1, ElemsOne
<1>5. QED
  BY <1>2, <1>3, <1>4

LEMMA ElemsEmpty == Elems(<<>>) = {}
  BY DEF Elems

\* The events a handler queues join those that were waiting.
LEMMA ElemsGenerate ==
  ASSUME TypeOK, NEW es \in Seq(Event), Generate(es)
  PROVE  Elems(events') = Elems(events) \cup Elems(es)
  BY ElemsConcat DEF Generate, TypeOK

\* A message of the gateway joins the feed, or finds no client.
LEMMA ElemsEmit ==
  ASSUME TypeOK, NEW op \in Ops \ {"Reconnected"}, NEW t \in Trades, NEW ok \in BOOLEAN,
         NEW n \in Nat, Emit(Msg(op, t, ok, n))
  PROVE  Elems(feed') \subseteq Elems(feed) \cup {Msg(op, t, ok, n)}
<1>1. Msg(op, t, ok, n) \in Message
  BY DEF Msg, Message
<1>2. QED
  BY <1>1, ElemsAppend DEF Emit, TypeOK

-----------------------------------------------------------------------------
(* What a step can do to the queues, the fills and the executed shares. *)

\* Only a deal adds a "filled" event, one for the deal at the head of the feed.
FilledFrom(e) ==
  \/ e \in Elems(events)
  \/ \E m \in Elems(feed) : m.op = "Deal" /\ e.order = m.trade /\ e.id = DealId(m)

\* Only the exchange adds a deal message, and counts the deal at once.
DealFrom(m) ==
  \/ m \in Elems(feed)
  \/ m.n \in 1 .. traded'[m.trade]

\* Only the engine adds a fill, the one of the event at the head of its queue.
FillFrom(o, id) ==
  \/ id \in fills[o]
  \/ \E e \in Elems(events) : e.type = "filled" /\ e.order = o /\ e.id = id

DealStep ==
  /\ \A t \in Trades : traded'[t] >= traded[t]
  /\ \A o \in Orders : \A id \in fills'[o] : FillFrom(o, id)
  /\ \A e \in Elems(events') : e.type = "filled" => FilledFrom(e)
  /\ \A m \in Elems(feed') : m.op = "Deal" => DealFrom(m)

LEMMA HeadEvent ==
  ASSUME TypeOK, events # <<>>
  PROVE  Head(events) \in Elems(events) /\ Elems(Tail(events)) \subseteq Elems(events)
  BY ElemsTail DEF TypeOK

LEMMA HeadMessage ==
  ASSUME TypeOK, feed # <<>>
  PROVE  Head(feed) \in Elems(feed) /\ Elems(Tail(feed)) \subseteq Elems(feed)
  BY ElemsTail DEF TypeOK

\* The events of the commands are no fills.
LEMMA EvIsNoFill ==
  /\ \A o, type : Ev(type, o).type = type /\ Ev(type, o).order = o
  /\ \A o, n : UpdateEv(o, n).type = "updated"
  /\ \A o, id : FillEv(o, id).type = "filled" /\ FillEv(o, id).order = o /\ FillEv(o, id).id = id
  BY DEF Ev, UpdateEv, FillEv

LEMMA StutterDeals ==
  ASSUME TypeOK, UNCHANGED <<traded, fills, events, feed>>
  PROVE  DealStep
  BY DEF DealStep, FillFrom, FilledFrom, DealFrom, TypeOK

LEMMA EngineDeals ==
  ASSUME TypeOK, Engine
  PROVE  DealStep
<1>1. /\ events # <<>> /\ events' = Tail(events) /\ UNCHANGED <<traded, feed>>
  BY DEF Engine, EngineMove, EngineFill, EngineUpdate, EngineNote, NextEvent, venueVars
<1>2. \A o \in Orders : \A id \in fills'[o] : FillFrom(o, id)
  <2>1. CASE EngineFill
    <3>1. Head(events).type = "filled"
      BY <2>1 DEF EngineFill, NextEvent
    <3>2. \A o \in Orders : fills'[o] = fills[o]
             \/ (o = Head(events).order /\ fills'[o] = fills[o] \cup {Head(events).id})
      BY <2>1 DEF EngineFill, TypeOK
    <3>3. QED
      BY <1>1, <3>1, <3>2, HeadEvent DEF FillFrom
  <2>2. CASE UNCHANGED fills
    BY <2>2 DEF FillFrom
  <2>3. QED
    BY <2>1, <2>2 DEF Engine, EngineMove, EngineUpdate, EngineNote
<1>3. QED
  BY <1>1, <1>2, HeadEvent DEF DealStep, FilledFrom, DealFrom, TypeOK

\* Commands and replies queue no fill.
LEMMA CommandEvents ==
  ASSUME TypeOK, NEW o \in Orders, Commands(o) \/ Replies(o)
  PROVE  \E es \in Seq(Event) : Generate(es) /\ \A e \in Elems(es) : e.type # "filled"
<1>0. /\ <<>> \in Seq(Event) /\ Elems(<<>>) = {}
      /\ \A type \in EventTypes \ {"filled"} :
            /\ <<Ev(type, o)>> \in Seq(Event)
            /\ \A e \in Elems(<<Ev(type, o)>>) : e.type # "filled"
  BY EvType, EvIsNoFill, ElemsEmpty, ElemsOne
<1>1. \A type, type2 \in EventTypes \ {"filled"} :
        /\ <<Ev(type, o), Ev(type2, o)>> \in Seq(Event)
        /\ \A e \in Elems(<<Ev(type, o), Ev(type2, o)>>) : e.type # "filled"
  BY EvType, EvIsNoFill, ElemsPair
<1>2. {"submitted", "accepted", "rejected", "cancel_rejected", "modify_rejected"}
        \subseteq EventTypes \ {"filled"}
  BY DEF EventTypes
<1>3. UNCHANGED events => Generate(<<>>)
  BY DEF Generate, TypeOK
<1>4. CASE Submit(o)
  BY <1>0, <1>1, <1>2, <1>4 DEF Submit, SubmitUnsupported, SubmitInvalid, SubmitValid
<1>5. CASE CancelOrder(o) \/ SweepNext(o)
  BY <1>0, <1>3, <1>5 DEF CancelOrder, SweepNext
<1>6. ASSUME NEW what \in {"price", "qty"}, ModifyOrder(o, what)
      PROVE  Generate(<<>>) \/ Generate(<<Ev("modify_rejected", o)>>)
  BY <1>6 DEF ModifyOrder
<1>7. CASE PlaceReturns(o)
  BY <1>0, <1>2, <1>3, <1>7 DEF PlaceReturns, PlaceOk, PlaceFailed, PlaceError
<1>8. CASE ModifyReturns(o)
  BY <1>0, <1>2, <1>8 DEF ModifyReturns
<1>9. ASSUME NEW c \in Callers, CancelReturns(c, o)
      PROVE  Generate(<<>>) \/ Generate(<<Ev("cancel_rejected", o)>>)
  BY <1>9 DEF CancelReturns, CancelReply
<1>10. QED
  BY <1>0, <1>2, <1>4, <1>5, <1>6, <1>7, <1>8, <1>9 DEF Commands, Replies

LEMMA CommandDeals ==
  ASSUME TypeOK, NEW o \in Orders, Commands(o) \/ Replies(o)
  PROVE  DealStep
<1>1. PICK es \in Seq(Event) : Generate(es) /\ \A e \in Elems(es) : e.type # "filled"
  BY CommandEvents
<1>2. \A e \in Elems(events') : e.type = "filled" => FilledFrom(e)
  BY <1>1, ElemsGenerate DEF FilledFrom
<1>3. UNCHANGED <<traded, fills, feed>>
  <2>1. CASE Commands(o)
    BY <2>1 DEF Commands, Submit, CancelOrder, SweepNext, ModifyOrder, ledgerVars, venueVars
  <2>2. CASE Replies(o)
    BY <2>2 DEF Replies, PlaceReturns, ModifyReturns, CancelReturns, ledgerVars, venueVars
  <2>3. QED
    BY <2>1, <2>2
<1>4. QED
  BY <1>2, <1>3 DEF DealStep, FillFrom, DealFrom, TypeOK

\* What the gateway sends other than deals.
LEMMA OtherEmit ==
  ASSUME TypeOK, NEW op \in {"New", "Cancel", "Update"}, NEW t \in Trades, NEW ok \in BOOLEAN,
         NEW n \in Nat, Emit(Msg(op, t, ok, n))
  PROVE  \A m \in Elems(feed') : m.op = "Deal" => m \in Elems(feed)
<1>1. Elems(feed') \subseteq Elems(feed) \cup {Msg(op, t, ok, n)}
  BY ElemsEmit DEF Ops
<1>2. Msg(op, t, ok, n).op # "Deal"
  BY DEF Msg
<1>3. QED
  BY <1>1, <1>2

LEMMA GatewayDeals ==
  ASSUME TypeOK, NEW o \in Orders, NEW c \in Callers,
         Gateway(o) \/ GatewayModify(o) \/ Faults(o) \/ GatewayCancel(c, o)
  PROVE  DealStep
<1>1. UNCHANGED <<traded, fills, events>>
  BY DEF Gateway, GatewayModify, Faults, PlaceFault, CancelFault, ModifyFault, GatewayCancel,
         ledgerVars, venueVars
<1>2. \A m \in Elems(feed') : m.op = "Deal" => m \in Elems(feed)
  <2>0. o \in Trades /\ traded[o] \in Nat
    BY DEF Trades, TypeOK
  <2>1. CASE UNCHANGED feed
    BY <2>1
  <2>2. CASE Gateway(o)
    BY <2>0, <2>1, <2>2, OtherEmit DEF Gateway, GatewayRefuse, GatewayFail, GatewayPlace
  <2>3. CASE GatewayModify(o)
    <3>1. \/ \E n \in traded[o] + 1 .. size[o] : Emit(Msg("Update", o, TRUE, n))
          \/ Emit(Msg("Update", o, FALSE, 0))
          \/ UNCHANGED feed
      BY <2>3 DEF GatewayModify
    <3>2. traded[o] + 1 .. size[o] \subseteq Nat
      BY <2>0 DEF TypeOK
    <3>3. QED
      BY <2>0, <2>1, <3>1, <3>2, OtherEmit
  <2>4. CASE GatewayCancel(c, o)
    BY <2>0, <2>1, <2>4, OtherEmit DEF GatewayCancel
  <2>5. CASE Faults(o)
    BY <2>1, <2>5 DEF Faults, PlaceFault, CancelFault, ModifyFault
  <2>6. QED
    BY <2>2, <2>3, <2>4, <2>5
<1>3. QED
  BY <1>1, <1>2 DEF DealStep, FillFrom, FilledFrom, DealFrom, TypeOK

LEMMA ExchangeDeals ==
  ASSUME TypeOK, NEW t \in Trades, Exchange(t)
  PROVE  DealStep
<1>1. UNCHANGED <<fills, events>>
  BY DEF Exchange, ForeignPlace, VenueDecides, VenueDeal, VenueCancel, ledgerVars
<1>2. CASE VenueDeal(t)
  <2>0. traded[t] + 1 \in Nat
    BY DEF TypeOK
  <2>1. traded' = [traded EXCEPT ![t] = traded[t] + 1]
    BY <1>2 DEF VenueDeal
  <2>2. \A u \in Trades : traded'[u] >= traded[u]
    BY <2>1 DEF TypeOK
  <2>3. traded[t] + 1 \in 1 .. traded'[t]
    BY <2>1 DEF TypeOK
  <2>4. Elems(feed') \subseteq Elems(feed) \cup {Msg("Deal", t, TRUE, traded[t] + 1)}
    BY <1>2, <2>0, ElemsEmit DEF VenueDeal, Ops
  <2>5. \A m \in Elems(feed') : DealFrom(m)
    BY <2>3, <2>4 DEF DealFrom, Msg
  <2>6. QED
    BY <1>1, <2>2, <2>5 DEF DealStep, FillFrom, FilledFrom
<1>3. CASE ~VenueDeal(t)
  <2>1. UNCHANGED traded
    BY <1>3 DEF Exchange, ForeignPlace, VenueDecides, VenueCancel
  <2>2. \A m \in Elems(feed') : m.op = "Deal" => m \in Elems(feed)
    BY <1>3, OtherEmit DEF Exchange, ForeignPlace, VenueDecides, VenueCancel
  <2>3. QED
    BY <1>1, <2>1, <2>2 DEF DealStep, FillFrom, FilledFrom, DealFrom, TypeOK
<1>4. QED
  BY <1>2, <1>3

\* The callback takes the head of the feed and queues at most one event.
LEMMA CallbackEvents ==
  ASSUME TypeOK, Callback
  PROVE  /\ Elems(feed') \subseteq Elems(feed)
         /\ \A e \in Elems(events') :
              \/ e \in Elems(events)
              \/ e.type \notin {"filled", "rejected"}
              \/ /\ HandleDeal /\ e.type = "filled" /\ e.id = DealId(Head(feed))
                 /\ e.order = Addressee /\ Addressee # None
              \/ /\ HandleNew /\ e.type = "rejected" /\ RejectsNew(Head(feed), Addressee)
                 /\ e.order = Addressee
<1>1. ASSUME NEW es \in Seq(Event), Generate(es)
      PROVE  Elems(events') = Elems(events) \cup Elems(es)
  BY <1>1, ElemsGenerate
<1>2. CASE RecheckDeal
  BY <1>2 DEF RecheckDeal
<1>3. CASE HandleReconnected
  BY <1>3, HeadMessage DEF HandleReconnected, NextMessage
<1>4. ASSUME NEW op \in {"New", "Cancel", "Update", "Deal"}, NextMessage(op)
      PROVE  /\ Elems(feed') \subseteq Elems(feed)
             /\ Head(feed).trade \in Trades /\ Head(feed).n \in Nat
             /\ Addressee \in Orders \cup {None}
  <2>1. Head(feed) \in Message
    BY <1>4 DEF NextMessage, TypeOK
  <2>2. Head(feed).trade \in Trades /\ Head(feed).n \in Nat
    BY <1>4, <2>1 DEF NextMessage, Message
  <2>3. QED
    BY <1>4, <2>2, HeadMessage, ResolveType DEF NextMessage, Addressee
<1>5. <<>> \in Seq(Event) /\ Elems(<<>>) = {}
  BY ElemsEmpty
<1>6. CASE HandleNew
  <2>1. NextMessage("New") /\ (RejectsNew(Head(feed), Addressee) => Addressee # None)
    BY <1>6 DEF HandleNew, RejectsNew
  <2>2. CASE RejectsNew(Head(feed), Addressee)
    <3>1. <<Ev("rejected", Addressee)>> \in Seq(Event)
      BY <1>4, <2>1, <2>2, EvType DEF EventTypes
    <3>2. Elems(events') = Elems(events) \cup {Ev("rejected", Addressee)}
      BY <1>1, <1>6, <2>2, <3>1, ElemsOne DEF HandleNew
    <3>3. QED
      BY <1>4, <1>6, <2>1, <2>2, <3>2, EvIsNoFill
  <2>3. CASE ~RejectsNew(Head(feed), Addressee)
    <3>1. Elems(events') = Elems(events)
      BY <1>1, <1>5, <1>6, <2>3 DEF HandleNew
    <3>2. QED
      BY <1>4, <2>1, <3>1
  <2>4. QED
    BY <2>2, <2>3
<1>7. CASE HandleCancel
  <2>1. NextMessage("Cancel")
    BY <1>7 DEF HandleCancel
  <2>2. CASE Addressee # None
    <3>1. CancelEvent(Head(feed)) \in {"canceled", "cancel_rejected"}
      BY DEF CancelEvent
    <3>2. <<Ev(CancelEvent(Head(feed)), Addressee)>> \in Seq(Event)
      BY <1>4, <2>1, <2>2, <3>1, EvType DEF EventTypes
    <3>3. Elems(events') = Elems(events) \cup {Ev(CancelEvent(Head(feed)), Addressee)}
      BY <1>1, <1>7, <2>2, <3>2, ElemsOne DEF HandleCancel
    <3>4. QED
      BY <1>4, <2>1, <3>1, <3>3, EvIsNoFill
  <2>3. CASE Addressee = None
    <3>1. Elems(events') = Elems(events)
      BY <1>1, <1>5, <1>7, <2>3 DEF HandleCancel
    <3>2. QED
      BY <1>4, <2>1, <3>1
  <2>4. QED
    BY <2>2, <2>3
<1>8. CASE HandleUpdate
  <2>1. NextMessage("Update")
    BY <1>8 DEF HandleUpdate
  <2>2. CASE Addressee # None
    <3>1. PICK e : /\ e = IF Head(feed).ok THEN UpdateEv(Addressee, Head(feed).n)
                          ELSE Ev("modify_rejected", Addressee)
                   /\ Generate(<<e>>)
      BY <1>8, <2>2 DEF HandleUpdate
    <3>2. UpdateEv(Addressee, Head(feed).n) \in Event /\ Ev("modify_rejected", Addressee) \in Event
      BY <1>4, <2>1, <2>2, EvType DEF EventTypes
    <3>3. e \in Event /\ e.type \in {"updated", "modify_rejected"}
      BY <3>1, <3>2, EvIsNoFill
    <3>4. <<e>> \in Seq(Event) /\ Elems(<<e>>) = {e}
      BY <3>3, ElemsOne
    <3>5. Elems(events') = Elems(events) \cup {e}
      BY <1>1, <3>1, <3>4
    <3>6. QED
      BY <1>4, <2>1, <3>3, <3>5
  <2>3. CASE Addressee = None
    <3>1. Elems(events') = Elems(events)
      BY <1>1, <1>5, <1>8, <2>3 DEF HandleUpdate
    <3>2. QED
      BY <1>4, <2>1, <3>1
  <2>4. QED
    BY <2>2, <2>3
<1>9. CASE HandleDeal
  <2>1. NextMessage("Deal")
    BY <1>9 DEF HandleDeal
  <2>2. CASE Addressee # None
    <3>1. DealId(Head(feed)) \in TradeIds
      BY <1>4, <2>1 DEF DealId, TradeIds
    <3>2. <<FillEv(Addressee, DealId(Head(feed)))>> \in Seq(Event)
      BY <1>4, <2>1, <2>2, <3>1, EvType
    <3>3. Elems(events') = Elems(events) \cup {FillEv(Addressee, DealId(Head(feed)))}
      BY <1>1, <1>9, <2>2, <3>2, ElemsOne DEF HandleDeal
    <3>4. QED
      BY <1>4, <1>9, <2>1, <2>2, <3>3, EvIsNoFill
  <2>3. CASE Addressee = None
    <3>1. Elems(events') = Elems(events)
      BY <1>1, <1>5, <1>9, <2>3 DEF HandleDeal
    <3>2. QED
      BY <1>4, <2>1, <3>1
  <2>4. QED
    BY <2>2, <2>3
<1>10. QED
  BY <1>2, <1>3, <1>6, <1>7, <1>8, <1>9 DEF Callback

\* The order a handler acts on created the trade of the message.
LEMMA AddresseeSound ==
  ASSUME TypeOK, MapInv, NEW op \in {"New", "Cancel", "Update", "Deal"}, NextMessage(op),
         Addressee # None
  PROVE  Addressee = Head(feed).trade /\ Head(feed) \in Elems(feed) /\ Head(feed).op = op
<1>1. Head(feed) \in Message
  BY DEF NextMessage, TypeOK
<1>2. Head(feed).trade \in Trades
  BY <1>1 DEF NextMessage, Message
<1>3. QED
  BY <1>2, ResolveSound, HeadMessage DEF Addressee, TokenOf, NextMessage

LEMMA CallbackDeals ==
  ASSUME TypeOK, MapInv, Callback
  PROVE  DealStep
<1>1. UNCHANGED <<traded, fills>>
  BY DEF Callback, HandleNew, HandleCancel, HandleUpdate, HandleDeal, RecheckDeal, HandleReconnected,
         NextMessage, ledgerVars, venueVars
<1>2. ASSUME NEW e \in Elems(events'), e.type = "filled"
      PROVE  FilledFrom(e)
  <2>1. CASE e \in Elems(events)
    BY <2>1 DEF FilledFrom
  <2>2. CASE HandleDeal /\ e.id = DealId(Head(feed)) /\ e.order = Addressee /\ Addressee # None
    BY <2>2, AddresseeSound DEF FilledFrom, HandleDeal
  <2>3. QED
    BY <1>2, <2>1, <2>2, CallbackEvents
<1>3. QED
  BY <1>1, <1>2, CallbackEvents DEF DealStep, FillFrom, DealFrom, TypeOK

LEMMA ConnectionDeals ==
  ASSUME TypeOK, DropLink \/ Reconnect \/ Restart \/ StartUp
  PROVE  DealStep
<1>1. UNCHANGED <<traded, fills>>
  BY DEF DropLink, Reconnect, Restart, StartUp, ledgerVars, venueVars
<1>2. Elems(events') \subseteq Elems(events)
  BY ElemsEmpty DEF DropLink, Reconnect, Restart, StartUp
<1>3. \A m \in Elems(feed') : m.op = "Deal" => m \in Elems(feed)
  <2>1. CASE DropLink
    BY <2>1, ElemsSubSeq DEF DropLink, TypeOK
  <2>2. CASE Reconnect
    <3>1. PICK x : x = Msg("Reconnected", None, TRUE, 0)
      OBVIOUS
    <3>2. x \in Message /\ x.op # "Deal"
      BY <3>1 DEF Msg, Message, Ops
    <3>3. feed' = Append(feed, x)
      BY <2>2, <3>1 DEF Reconnect
    <3>4. Elems(feed') = Elems(feed) \cup {x}
      BY <3>2, <3>3, ElemsAppend DEF TypeOK
    <3>5. QED
      BY <3>2, <3>4
  <2>3. CASE Restart \/ StartUp
    BY <2>3, ElemsEmpty DEF Restart, StartUp
  <2>4. QED
    BY <2>1, <2>2, <2>3
<1>4. QED
  BY <1>1, <1>2, <1>3 DEF DealStep, FillFrom, FilledFrom, DealFrom, TypeOK

LEMMA NextDeals ==
  ASSUME TypeOK, MapInv, [Next]_vars
  PROVE  DealStep
<1>1. CASE UNCHANGED vars
  BY <1>1, StutterDeals DEF vars, ledgerVars, venueVars
<1>2. CASE Engine
  BY <1>2, EngineDeals
<1>3. CASE Callback
  BY <1>3, CallbackDeals
<1>4. CASE CancelAllOrders
  BY <1>4, StutterDeals DEF CancelAllOrders, ledgerVars, venueVars
<1>5. ASSUME NEW o \in Orders,
             Commands(o) \/ Replies(o) \/ Gateway(o) \/ GatewayModify(o) \/ Faults(o)
      PROVE  DealStep
  BY <1>5, CommandDeals, GatewayDeals DEF Callers
<1>6. ASSUME NEW c \in Callers, NEW o \in Orders, GatewayCancel(c, o)
      PROVE  DealStep
  BY <1>6, GatewayDeals
<1>7. ASSUME NEW t \in Trades, Exchange(t)
      PROVE  DealStep
  BY <1>7, ExchangeDeals
<1>8. CASE DropLink \/ Reconnect \/ Restart \/ StartUp
  BY <1>8, ConnectionDeals
<1>9. ASSUME NEW i \in Slots, Reconcile(i)
      PROVE  DealStep
  BY <1>9, StutterDeals DEF Reconcile, GatewayList, ReconReports, ReconSend, ledgerVars, venueVars
<1>10. QED
  BY <1>1, <1>2, <1>3, <1>4, <1>5, <1>6, <1>7, <1>8, <1>9 DEF Next

-----------------------------------------------------------------------------
(* FillsGenuine. A deal is executed before its message is sent, the message *)
(* is there before its event is queued, the event before it is applied.     *)

Executed(o, id) == \E n \in 1 .. traded[o] : id = <<o, n>>

DealInv ==
  /\ \A o \in Orders : \A id \in fills[o] : Executed(o, id)
  /\ \A e \in Elems(events) : e.type = "filled" => Executed(e.order, e.id)
  /\ \A m \in Elems(feed) : m.op = "Deal" => m.n \in 1 .. traded[m.trade]

LEMMA InitDeals == Init => DealInv
  BY ElemsEmpty DEF Init, DealInv

\* The queues hold events of our orders and messages about some trade.
LEMMA EventOrder ==
  ASSUME TypeOK, NEW e \in Elems(events)
  PROVE  e.order \in Orders /\ e.order \in Trades
<1>1. events \in Seq(Event)
  BY DEF TypeOK
<1>2. e \in Event
  BY <1>1 DEF Elems
<1>3. QED
  BY <1>2 DEF Event, Trades

\* So is the first event that waits.
LEMMA FirstEvent ==
  ASSUME TypeOK, events # <<>>
  PROVE  Head(events) \in Event /\ Head(events).order \in Orders
<1>1. Head(events) \in Event
  BY DEF TypeOK
<1>2. Head(events).order \in Orders
  BY HeadEvent, EventOrder
<1>3. QED
  BY <1>1, <1>2

LEMMA DealTrade ==
  ASSUME TypeOK, NEW m \in Elems(feed), m.op = "Deal"
  PROVE  m.trade \in Trades /\ m.n \in Nat
  BY DEF Elems, TypeOK, Message

LEMMA ExecutedStays ==
  ASSUME TypeOK, TypeOK', DealStep, NEW t \in Trades
  PROVE  /\ 1 .. traded[t] \subseteq 1 .. traded'[t]
         /\ \A id : Executed(t, id) => Executed(t, id)'
<1>1. traded[t] \in Nat /\ traded'[t] \in Nat /\ traded'[t] >= traded[t]
  BY DEF DealStep, TypeOK
<1>2. 1 .. traded[t] \subseteq 1 .. traded'[t]
  BY <1>1
<1>3. QED
  BY <1>2 DEF Executed

LEMMA NextDealInv ==
  ASSUME TypeOK, TypeOK', DealInv, DealStep
  PROVE  DealInv'
<1>1. ASSUME NEW e \in Elems(events), e.type = "filled"
      PROVE  Executed(e.order, e.id)'
  BY <1>1, EventOrder, ExecutedStays DEF DealInv
<1>2. ASSUME NEW o \in Orders, NEW id \in fills'[o]
      PROVE  Executed(o, id)'
  <2>1. CASE id \in fills[o]
    BY <2>1, ExecutedStays DEF DealInv, Trades
  <2>2. CASE id \notin fills[o]
    BY <1>1, <1>2, <2>2 DEF DealStep, FillFrom
  <2>3. QED
    BY <2>1, <2>2
<1>3. ASSUME NEW m \in Elems(feed), m.op = "Deal"
      PROVE  m.n \in 1 .. traded[m.trade] /\ m.n \in 1 .. traded'[m.trade]
  BY <1>3, DealTrade, ExecutedStays DEF DealInv
<1>4. ASSUME NEW e \in Elems(events'), e.type = "filled"
      PROVE  Executed(e.order, e.id)'
  <2>1. CASE e \in Elems(events)
    BY <1>1, <1>4, <2>1
  <2>2. CASE e \notin Elems(events)
    <3>1. PICK m \in Elems(feed) : m.op = "Deal" /\ e.order = m.trade /\ e.id = DealId(m)
      BY <1>4, <2>2 DEF DealStep, FilledFrom
    <3>2. QED
      BY <1>3, <3>1 DEF Executed, DealId
  <2>3. QED
    BY <2>1, <2>2
<1>5. ASSUME NEW m \in Elems(feed'), m.op = "Deal"
      PROVE  m.n \in 1 .. traded'[m.trade]
  BY <1>3, <1>5 DEF DealStep, DealFrom
<1>6. QED
  BY <1>2, <1>4, <1>5 DEF DealInv

LEMMA DealInvFills == TypeOK /\ DealInv => FillsGenuine
<1> SUFFICES ASSUME TypeOK, DealInv, NEW o \in Orders
             PROVE  /\ fills[o] \subseteq {<<o, n>> : n \in 1 .. traded[o]}
                    /\ \A i \in 1 .. Len(events) :
                         events[i].type = "filled" /\ events[i].order = o
                           => events[i].id \in {<<o, n>> : n \in 1 .. traded[o]}
  BY DEF FillsGenuine
<1>1. \A id : Executed(o, id) => id \in {<<o, n>> : n \in 1 .. traded[o]}
  BY DEF Executed
<1>2. \A i \in 1 .. Len(events) : events[i] \in Elems(events)
  BY DEF Elems
<1>3. QED
  BY <1>1, <1>2 DEF DealInv

\* Whatever the interleaving, the drops and the restarts, the ledger holds only
\* deals the exchange executed for that very order (_handle_deal_event).
THEOREM FillsCorrect == Spec => []FillsGenuine
<1>1. Init => DealInv
  BY InitDeals
<1>2. TypeOK /\ TypeOK' /\ MapInv /\ DealInv /\ [Next]_vars => DealInv'
  BY NextDeals, NextDealInv
<1>3. TypeOK /\ DealInv => FillsGenuine
  BY DealInvFills
<1>4. Init => MapInv
  BY InitMap
<1>5. TypeOK /\ MapInv /\ [Next]_vars => MapInv'
  BY NextMap
<1>6. QED
  BY <1>1, <1>2, <1>3, <1>4, <1>5, TypeCorrect, PTL DEF Spec

-----------------------------------------------------------------------------
(* HiddenOnlyIfCut, and RejectedIsDead where the transport does not fail.   *)

\* Submitted, and not at the exchange now or later.
Dead(o) == place[o] # "new" /\ venue[o] \in {"none", "failed"}

\* What a rejection may be about: a dead order, or one whose request was cut off.
Rejectable(o) == Dead(o) \/ Cut(o)

\* A "New" message that says the exchange refused the order.
Refusal(m) == m.op = "New" /\ ~m.ok

RejInv ==
  /\ \A o \in Orders : place[o] = "new" => venue[o] = "none"
  /\ \A o \in Orders : place[o] = "failed" => venue[o] = "failed"
  /\ \A o \in Orders : place[o] = "error" => Dead(o)
  /\ \A m \in Elems(feed) : Refusal(m) => venue[m.trade] = "failed"
  /\ \A e \in Elems(events) : e.type = "rejected" => Rejectable(e.order)
  /\ \A o \in Orders : status[o] = "REJECTED" => Rejectable(o)
  /\ \A i \in Slots, t \in Trades : seen[i].state[t] = "failed" => venue[t] = "failed"
  /\ \A o \in Orders : Cut(o) => TransportFaults

LEMMA InitRej == Init => RejInv
<1> SUFFICES ASSUME Init PROVE RejInv
  OBVIOUS
<1>1. Elems(feed) = {} /\ Elems(events) = {}
  BY ElemsEmpty DEF Init
<1>2. \A o \in Orders : place[o] = "new" /\ venue[o] = "none" /\ status[o] = "INITIALIZED"
  BY DEF Init, Trades
<1>3. \A i \in Slots, t \in Trades : seen[i].state[t] = "none"
  BY DEF Init, NoView
<1>4. QED
  BY <1>1, <1>2, <1>3 DEF RejInv, Cut

(* What a step may do to each part of the invariant.                        *)

VenueStep ==
  /\ \A t \in Trades : venue[t] = "failed" => venue'[t] = "failed"
  /\ \A o \in Orders : Dead(o) => Dead(o)'
  /\ \A o \in Orders : place'[o] = "new" => place[o] = "new" /\ venue'[o] = venue[o]
  /\ \A o \in Orders : place'[o] = "failed" => place[o] = "failed" \/ venue'[o] = "failed"
  /\ \A o \in Orders : place'[o] = "error" => place[o] = "error" \/ Dead(o)'
  /\ \A o \in Orders : Cut(o) => Cut(o)'
  /\ \A o \in Orders : Cut(o)' => Cut(o) \/ TransportFaults

FeedStep == \A m \in Elems(feed') : Refusal(m) => m \in Elems(feed) \/ venue'[m.trade] = "failed"

EventStep ==
  \A e \in Elems(events') : e.type = "rejected" => e \in Elems(events) \/ Rejectable(e.order)'

StatusStep ==
  \A o \in Orders : status'[o] = "REJECTED" => status[o] = "REJECTED" \/ Rejectable(o)'

SeenStep ==
  \A i \in Slots, t \in Trades :
    seen'[i].state[t] = "failed" => seen[i].state[t] = "failed" \/ venue'[t] = "failed"

RejStep == VenueStep /\ FeedStep /\ EventStep /\ StatusStep /\ SeenStep

LEMMA NextRejInv ==
  ASSUME TypeOK, RejInv, RejStep
  PROVE  RejInv'
<1>1. \A o \in Orders : o \in Trades
  BY DEF Trades
<1>2. \A m \in Elems(feed) : Refusal(m) => m.trade \in Trades
  <2>1. \A m \in Message : m.op = "New" => m.trade \in Trades
    BY DEF Message
  <2>2. feed \in Seq(Message)
    BY DEF TypeOK
  <2>3. \A m \in Elems(feed) : m \in Message
    BY <2>2 DEF Elems
  <2>4. QED
    BY <2>1, <2>3 DEF Refusal
<1>3. \A o \in Orders : place'[o] = "new" => venue'[o] = "none"
  BY DEF RejInv, RejStep, VenueStep
<1>4. \A o \in Orders : place'[o] = "failed" => venue'[o] = "failed"
  BY <1>1 DEF RejInv, RejStep, VenueStep
<1>5. \A o \in Orders : place'[o] = "error" => Dead(o)'
  BY DEF RejInv, RejStep, VenueStep
<1>6. \A m \in Elems(feed') : Refusal(m) => venue'[m.trade] = "failed"
  BY <1>2 DEF RejInv, RejStep, VenueStep, FeedStep
<1>0. \A o \in Orders : Rejectable(o) => Rejectable(o)'
  BY DEF Rejectable, RejStep, VenueStep
<1>7. \A e \in Elems(events') : e.type = "rejected" => Rejectable(e.order)'
  BY <1>0, EventOrder DEF RejInv, RejStep, EventStep
<1>8. \A o \in Orders : status'[o] = "REJECTED" => Rejectable(o)'
  BY <1>0 DEF RejInv, RejStep, StatusStep
<1>9. \A i \in Slots, t \in Trades : seen'[i].state[t] = "failed" => venue'[t] = "failed"
  BY DEF RejInv, RejStep, VenueStep, SeenStep
<1>10. \A o \in Orders : Cut(o)' => TransportFaults
  BY DEF RejInv, RejStep, VenueStep
<1>11. QED
  BY <1>3, <1>4, <1>5, <1>6, <1>7, <1>8, <1>9, <1>10 DEF RejInv

\* A part nobody touches.
LEMMA Untouched ==
  /\ UNCHANGED <<place, venue>> => VenueStep
  /\ (UNCHANGED feed \/ Elems(feed') \subseteq Elems(feed)) => FeedStep
  /\ (UNCHANGED events \/ Elems(events') \subseteq Elems(events)) => EventStep
  /\ UNCHANGED status => StatusStep
  /\ UNCHANGED seen => SeenStep
  BY DEF VenueStep, FeedStep, EventStep, StatusStep, SeenStep, Dead, Cut

LEMMA EngineRej ==
  ASSUME TypeOK, RejInv, Engine
  PROVE  RejStep
<1>1. events # <<>> /\ events' = Tail(events) /\ UNCHANGED <<place, venue, feed, seen>>
  BY DEF Engine, EngineMove, EngineFill, EngineUpdate, EngineNote, NextEvent, venueVars,
         clientVars, taskVars, reconVars
<1>2. Elems(events') \subseteq Elems(events) /\ Head(events) \in Elems(events)
  BY <1>1, HeadEvent
<1>3. StatusStep
  <2>1. CASE EngineMove
    <3>1. \A o \in Orders : status'[o] = status[o]
             \/ (o = Head(events).order /\ status'[o] = TargetStatus[Head(events).type])
      BY <2>1 DEF EngineMove, TypeOK
    <3>2. Head(events).type \in DOMAIN TargetStatus
      BY <2>1 DEF EngineMove, NextEvent
    <3>3. TargetStatus[Head(events).type] = "REJECTED" => Head(events).type = "rejected"
      BY <3>2 DEF TargetStatus
    <3>4. Head(events).type = "rejected" => Rejectable(Head(events).order)
      BY <1>2 DEF RejInv
    <3>5. \A o \in Orders : Rejectable(o) => Rejectable(o)'
      BY <1>1 DEF Rejectable, Dead, Cut
    <3>6. QED
      BY <3>1, <3>3, <3>4, <3>5 DEF StatusStep
  <2>2. CASE EngineFill
    <3>1. \A o \in Orders : status'[o] \in {status[o], "FILLED", "PARTIALLY_FILLED"}
      BY <2>2 DEF EngineFill, TypeOK
    <3>2. QED
      BY <3>1 DEF StatusStep
  <2>3. CASE EngineUpdate \/ EngineNote
    BY <2>3, Untouched DEF EngineUpdate, EngineNote
  <2>4. QED
    BY <2>1, <2>2, <2>3 DEF Engine
<1>4. QED
  BY <1>1, <1>2, <1>3, Untouched DEF RejStep

LEMMA SubmitRej ==
  ASSUME TypeOK, RejInv, NEW o \in Orders, Submit(o)
  PROVE  RejStep
<1>0. venue[o] = "none" /\ place[o] = "new" /\ o \in Trades
  BY DEF Submit, RejInv, Trades
<1>1. UNCHANGED <<status, feed, seen>>
  BY DEF Submit, ledgerVars, reconVars
<1>2. \A p \in Orders : p # o => place'[p] = place[p] /\ venue'[p] = venue[p]
  BY DEF Submit, SubmitUnsupported, SubmitInvalid, SubmitValid, TypeOK, Trades
<1>3. place'[o] \in {"done", "request"}
  BY DEF Submit, SubmitUnsupported, SubmitInvalid, SubmitValid, TypeOK
<1>4. \A t \in Trades : venue[t] = "failed" => venue'[t] = "failed"
  BY <1>0 DEF Submit, SubmitUnsupported, SubmitInvalid, SubmitValid, TypeOK
<1>5. VenueStep
  BY <1>0, <1>2, <1>3, <1>4 DEF VenueStep, Dead, Cut
<1>6. EventStep
  <2>1. CASE SubmitUnsupported(o) \/ SubmitInvalid(o)
    <3>1. place'[o] = "done" /\ venue' = venue
      BY <2>1 DEF SubmitUnsupported, SubmitInvalid, TypeOK
    <3>2. Rejectable(o)'
      BY <1>0, <3>1 DEF Rejectable, Dead
    <3>3. /\ <<Ev("rejected", o)>> \in Seq(Event)
          /\ <<Ev("submitted", o), Ev("rejected", o)>> \in Seq(Event)
      BY EvType DEF EventTypes
    <3>4. Elems(events') \subseteq Elems(events) \cup {Ev("submitted", o), Ev("rejected", o)}
      BY <2>1, <3>3, ElemsGenerate, ElemsOne, ElemsPair DEF SubmitUnsupported, SubmitInvalid
    <3>5. QED
      BY <3>2, <3>4, EvIsNoFill DEF EventStep
  <2>2. CASE SubmitValid(o)
    <3>1. <<Ev("submitted", o)>> \in Seq(Event)
      BY EvType DEF EventTypes
    <3>2. Elems(events') = Elems(events) \cup {Ev("submitted", o)}
      BY <2>2, <3>1, ElemsGenerate, ElemsOne DEF SubmitValid
    <3>3. QED
      BY <3>2, EvIsNoFill DEF EventStep
  <2>3. QED
    BY <2>1, <2>2 DEF Submit
<1>7. QED
  BY <1>1, <1>5, <1>6, Untouched DEF RejStep

\* A reply rejects the order only if the gateway refused it; a failure of the
\* transport rejects it as well.
LEMMA PlaceReturnsRej ==
  ASSUME TypeOK, RejInv, NEW o \in Orders, PlaceReturns(o)
  PROVE  RejStep
<1>1. /\ UNCHANGED <<status, feed, seen, venue>> /\ place[o] # "new"
      /\ place' = [place EXCEPT ![o] = IF Cut(o) THEN "lost" ELSE "done"]
  BY DEF PlaceReturns, PlaceOk, PlaceFailed, PlaceError, ledgerVars, reconVars, venueVars
<1>2. /\ place'[o] = IF Cut(o) THEN "lost" ELSE "done"
      /\ \A p \in Orders : p # o => place'[p] = place[p]
  BY <1>1 DEF TypeOK
<1>3. VenueStep
  BY <1>1, <1>2 DEF VenueStep, Dead, Cut
<1>4. EventStep
  <2>1. CASE PlaceOk(o)
    <3>1. <<Ev("accepted", o)>> \in Seq(Event)
      BY EvType DEF EventTypes
    <3>2. Elems(events') = Elems(events) \cup {Ev("accepted", o)}
      BY <2>1, <3>1, ElemsGenerate, ElemsOne DEF PlaceOk
    <3>3. QED
      BY <3>2, EvIsNoFill DEF EventStep
  <2>2. CASE PlaceFailed(o) \/ PlaceError(o)
    <3>1. venue[o] \in {"none", "failed"} \/ place[o] = "cut"
      BY <2>2 DEF PlaceFailed, PlaceError, RejInv, Dead
    <3>2. Rejectable(o)'
      BY <1>1, <1>2, <3>1 DEF Rejectable, Dead, Cut
    <3>3. <<Ev("rejected", o)>> \in Seq(Event)
      BY EvType DEF EventTypes
    <3>4. Elems(events') = Elems(events) \cup {Ev("rejected", o)}
      BY <2>2, <3>3, ElemsGenerate, ElemsOne DEF PlaceFailed, PlaceError
    <3>5. QED
      BY <3>2, <3>4, EvIsNoFill DEF EventStep
  <2>3. QED
    BY <2>1, <2>2 DEF PlaceReturns
<1>5. QED
  BY <1>1, <1>3, <1>4, Untouched DEF RejStep

\* The other commands and replies leave the order at the exchange alone.
LEMMA CommandRej ==
  ASSUME TypeOK, RejInv, NEW o \in Orders, Commands(o) \/ Replies(o)
  PROVE  RejStep
<1>1. CASE Submit(o)
  BY <1>1, SubmitRej
<1>2. CASE PlaceReturns(o)
  BY <1>2, PlaceReturnsRej
<1>3. CASE CancelOrder(o) \/ SweepNext(o)
  BY <1>3, Untouched DEF CancelOrder, SweepNext, RejStep, ledgerVars, venueVars, reconVars
<1>4. ASSUME NEW e, e \in {Ev("cancel_rejected", o), Ev("modify_rejected", o)},
             Generate(<<>>) \/ Generate(<<e>>),
             UNCHANGED <<place, venue, feed, status, seen>>
      PROVE  RejStep
  <2>1. e \in Event /\ e.type # "rejected"
    BY <1>4, EvType, EvIsNoFill DEF EventTypes
  <2>2. <<e>> \in Seq(Event) /\ <<>> \in Seq(Event)
    BY <2>1
  <2>3. Elems(events') \subseteq Elems(events) \cup {e}
    BY <1>4, <2>2, ElemsGenerate, ElemsOne, ElemsEmpty
  <2>4. EventStep
    BY <2>1, <2>3 DEF EventStep
  <2>5. QED
    BY <1>4, <2>4, Untouched DEF RejStep
<1>5. ASSUME NEW what \in {"price", "qty"}, ModifyOrder(o, what)
      PROVE  RejStep
  <2>1. Generate(<<>>) \/ Generate(<<Ev("modify_rejected", o)>>)
    BY <1>5 DEF ModifyOrder
  <2>2. UNCHANGED <<place, venue, feed, status, seen>>
    BY <1>5 DEF ModifyOrder, ledgerVars, venueVars, reconVars
  <2>3. QED
    BY <1>4, <2>1, <2>2
<1>6. CASE ModifyReturns(o)
  <2>1. Generate(<<>>) \/ Generate(<<Ev("modify_rejected", o)>>)
    BY <1>6 DEF ModifyReturns
  <2>2. UNCHANGED <<place, venue, feed, status, seen>>
    BY <1>6 DEF ModifyReturns, ledgerVars, venueVars, reconVars
  <2>3. QED
    BY <1>4, <2>1, <2>2
<1>7. ASSUME NEW c \in Callers, CancelReturns(c, o)
      PROVE  RejStep
  <2>1. Generate(<<>>) \/ Generate(<<Ev("cancel_rejected", o)>>)
    BY <1>7 DEF CancelReturns, CancelReply
  <2>2. UNCHANGED <<place, venue, feed, status, seen>>
    BY <1>7 DEF CancelReturns, ledgerVars, venueVars, reconVars
  <2>3. QED
    BY <1>4, <2>1, <2>2
<1>8. QED
  BY <1>1, <1>2, <1>3, <1>5, <1>6, <1>7 DEF Commands, Replies

\* One message joins the feed; only a refusal says the order is refused.
LEMMA EmitRej ==
  ASSUME TypeOK, NEW op \in Ops \ {"Reconnected"}, NEW t \in Trades, NEW ok \in BOOLEAN,
         NEW n \in Nat, Emit(Msg(op, t, ok, n)),
         op = "New" /\ ~ok => venue'[t] = "failed"
  PROVE  FeedStep
<1>1. Elems(feed') \subseteq Elems(feed) \cup {Msg(op, t, ok, n)}
  BY ElemsEmit
<1>2. PICK m : m = Msg(op, t, ok, n)
  OBVIOUS
<1>3. m.trade = t /\ m.op = op /\ m.ok = ok
  BY <1>2 DEF Msg
<1>4. QED
  BY <1>1, <1>2, <1>3 DEF FeedStep, Refusal

\* A trade that is neither "none" nor "failed" moves to any other state.
LEMMA VenueMoves ==
  ASSUME TypeOK, NEW t \in Trades, venue[t] \notin {"none", "failed"}, UNCHANGED place,
         NEW v \in Venue, venue' = [venue EXCEPT ![t] = v],
         t \in Orders => place[t] # "new"
  PROVE  VenueStep
<1>1. \A u \in Trades : venue'[u] = IF u = t THEN v ELSE venue[u]
  BY DEF TypeOK
<1>2. QED
  BY <1>1 DEF VenueStep, Dead, Cut, Trades

LEMMA GatewayRej ==
  ASSUME TypeOK, RejInv, NEW o \in Orders, Gateway(o)
  PROVE  RejStep
<1>0. /\ venue[o] = "enroute" /\ o \in Trades /\ place[o] # "new"
      /\ UNCHANGED <<status, events, seen>>
  BY DEF Gateway, RejInv, Trades, ledgerVars, reconVars
<1>1. ASSUME NEW leg \in {"error", "failed", "ok"}, ReplyTo(o, leg)
      PROVE  /\ \A p \in Orders : p # o => place'[p] = place[p]
             /\ place'[o] \in {place[o], leg} /\ place'[o] # "new"
             /\ Cut(o) <=> Cut(o)'
  BY <1>0, <1>1 DEF ReplyTo, Cut, TypeOK
<1>2. place[o] \notin {"failed", "error"}
  BY <1>0 DEF RejInv, Dead
<1>3. CASE GatewayRefuse(o)
  <2>1. \A u \in Trades : venue'[u] = IF u = o THEN "none" ELSE venue[u]
    BY <1>3 DEF GatewayRefuse, TypeOK
  <2>2. VenueStep
    <3>1. \A p \in Orders : Cut(p) <=> Cut(p)'
      BY <1>1, <1>3 DEF GatewayRefuse, Cut
    <3>2. QED
      BY <1>0, <1>1, <1>2, <1>3, <2>1, <3>1 DEF GatewayRefuse, VenueStep, Dead, Trades
  <2>3. QED
    BY <1>0, <1>3, <2>2, Untouched DEF RejStep, GatewayRefuse
<1>4. CASE GatewayFail(o)
  <2>1. \A u \in Trades : venue'[u] = IF u = o THEN "failed" ELSE venue[u]
    BY <1>4 DEF GatewayFail, TypeOK
  <2>2. VenueStep
    <3>1. \A p \in Orders : Cut(p) <=> Cut(p)'
      BY <1>1, <1>4 DEF GatewayFail, Cut
    <3>2. QED
      BY <1>0, <1>1, <1>2, <1>4, <2>1, <3>1 DEF GatewayFail, VenueStep, Dead, Trades
  <2>3. FeedStep
    BY <1>0, <1>4, <2>1, EmitRej, Untouched DEF GatewayFail, Ops
  <2>4. QED
    BY <1>0, <2>2, <2>3, Untouched DEF RejStep
<1>5. CASE GatewayPlace(o)
  <2>1. \A u \in Trades : venue'[u] = IF u = o THEN "pending" ELSE venue[u]
    BY <1>5 DEF GatewayPlace, TypeOK
  <2>2. VenueStep
    <3>1. \A p \in Orders : Cut(p) <=> Cut(p)'
      BY <1>1, <1>5 DEF GatewayPlace, Cut
    <3>2. QED
      BY <1>0, <1>1, <1>2, <1>5, <2>1, <3>1 DEF GatewayPlace, VenueStep, Dead, Trades
  <2>3. QED
    BY <1>0, <1>5, <2>2, Untouched DEF RejStep, GatewayPlace
<1>6. QED
  BY <1>3, <1>4, <1>5 DEF Gateway

LEMMA GatewayOtherRej ==
  ASSUME TypeOK, RejInv, NEW o \in Orders, NEW c \in Callers,
         GatewayModify(o) \/ Faults(o) \/ GatewayCancel(c, o)
  PROVE  RejStep
<1>0. o \in Trades /\ UNCHANGED <<status, events, seen>>
  BY DEF GatewayModify, Faults, PlaceFault, CancelFault, ModifyFault, GatewayCancel,
         ledgerVars, venueVars, reconVars, Trades
<1>1. CASE GatewayModify(o)
  <2>1. \/ \E n \in traded[o] + 1 .. size[o] : Emit(Msg("Update", o, TRUE, n))
        \/ Emit(Msg("Update", o, FALSE, 0))
        \/ UNCHANGED feed
    BY <1>1 DEF GatewayModify
  <2>2. traded[o] + 1 .. size[o] \subseteq Nat
    BY <1>0 DEF TypeOK
  <2>3. FeedStep
    BY <1>0, <2>1, <2>2, EmitRej, Untouched DEF Ops
  <2>4. QED
    BY <1>0, <1>1, <2>3, Untouched DEF RejStep, GatewayModify
<1>2. CASE GatewayCancel(c, o)
  <2>1. FeedStep
    BY <1>0, <1>2, EmitRej, Untouched DEF GatewayCancel, Ops
  <2>2. VenueStep
    <3>1. UNCHANGED place /\ (UNCHANGED venue \/
            (venue[o] = "working" /\ venue' = [venue EXCEPT ![o] = "cancelled"]))
      BY <1>2 DEF GatewayCancel
    <3>2. venue[o] = "working" => place[o] # "new"
      BY DEF RejInv
    <3>3. "cancelled" \in Venue
      BY DEF Venue
    <3>4. QED
      BY <1>0, <3>1, <3>2, <3>3, VenueMoves, Untouched
  <2>3. QED
    BY <1>0, <2>1, <2>2, Untouched DEF RejStep
<1>3. CASE PlaceFault(o)
  <2>1. /\ TransportFaults /\ place' = [place EXCEPT ![o] = "cut"] /\ place[o] # "new"
        /\ UNCHANGED <<venue, feed>>
    BY <1>3 DEF PlaceFault, venueVars
  <2>2. /\ place'[o] = "cut"
        /\ \A p \in Orders : p # o => place'[p] = place[p]
    BY <2>1 DEF TypeOK
  <2>3. VenueStep
    BY <2>1, <2>2 DEF VenueStep, Dead, Cut
  <2>4. QED
    BY <1>0, <2>1, <2>3, Untouched DEF RejStep
<1>4. ASSUME NEW d \in Callers, CancelFault(d, o)
      PROVE  RejStep
  BY <1>0, <1>4, Untouched DEF CancelFault, RejStep, venueVars
<1>5. CASE ModifyFault(o)
  BY <1>0, <1>5, Untouched DEF ModifyFault, RejStep, venueVars
<1>6. QED
  BY <1>1, <1>2, <1>3, <1>4, <1>5 DEF Faults

LEMMA ExchangeRej ==
  ASSUME TypeOK, RejInv, NEW t \in Trades, Exchange(t)
  PROVE  RejStep
<1>0. UNCHANGED <<place, status, events, seen>>
  BY DEF Exchange, ForeignPlace, VenueDecides, VenueDeal, VenueCancel, ledgerVars, clientVars,
         taskVars, reconVars
<1>1. t \in Orders /\ venue[t] # "none" => place[t] # "new"
  BY DEF RejInv
<1>2. CASE ForeignPlace(t)
  <2>1. \A u \in Trades : venue'[u] = IF u = t THEN "pending" ELSE venue[u]
    BY <1>2 DEF ForeignPlace, TypeOK
  <2>2. t \notin Orders /\ venue[t] # "failed"
    BY <1>2, TokenAssumption DEF ForeignPlace
  <2>3. VenueStep
    BY <1>0, <2>1, <2>2 DEF VenueStep, Dead, Cut, Trades
  <2>4. QED
    BY <1>0, <1>2, <2>3, Untouched DEF RejStep, ForeignPlace
<1>3. CASE VenueDecides(t)
  <2>1. PICK ok \in BOOLEAN : /\ venue' = [venue EXCEPT ![t] = IF ok THEN "working" ELSE "failed"]
                              /\ Emit(Msg("New", t, ok, 0))
    BY <1>3 DEF VenueDecides
  <2>2. ~ok => venue'[t] = "failed"
    BY <2>1 DEF TypeOK
  <2>3. (IF ok THEN "working" ELSE "failed") \in Venue
    BY DEF Venue
  <2>4. venue[t] = "pending"
    BY <1>3 DEF VenueDecides
  <2>5. VenueStep
    BY <1>0, <1>1, <2>1, <2>3, <2>4, VenueMoves
  <2>6. FeedStep
    BY <2>1, <2>2, EmitRej DEF Ops
  <2>7. QED
    BY <1>0, <2>5, <2>6, Untouched DEF RejStep
<1>4. CASE VenueDeal(t)
  <2>1. venue[t] = "working" /\ (UNCHANGED venue \/ venue' = [venue EXCEPT ![t] = "filled"])
    BY <1>4 DEF VenueDeal
  <2>2. "filled" \in Venue
    BY DEF Venue
  <2>3. VenueStep
    BY <1>0, <1>1, <2>1, <2>2, VenueMoves, Untouched
  <2>4. traded[t] + 1 \in Nat
    BY DEF TypeOK
  <2>5. FeedStep
    BY <1>4, <2>4, EmitRej DEF VenueDeal, Ops
  <2>6. QED
    BY <1>0, <2>3, <2>5, Untouched DEF RejStep
<1>5. CASE VenueCancel(t)
  <2>1. venue[t] = "working" /\ venue' = [venue EXCEPT ![t] = "cancelled"]
    BY <1>5 DEF VenueCancel
  <2>2. "cancelled" \in Venue
    BY DEF Venue
  <2>3. VenueStep
    BY <1>0, <1>1, <2>1, <2>2, VenueMoves
  <2>4. FeedStep
    BY <1>5, EmitRej DEF VenueCancel, Ops
  <2>5. QED
    BY <1>0, <2>3, <2>4, Untouched DEF RejStep
<1>6. QED
  BY <1>2, <1>3, <1>4, <1>5 DEF Exchange

LEMMA CallbackRej ==
  ASSUME TypeOK, MapInv, RejInv, Callback
  PROVE  RejStep
<1>1. UNCHANGED <<place, venue, status, seen>>
  BY DEF Callback, HandleNew, HandleCancel, HandleUpdate, HandleDeal, RecheckDeal, HandleReconnected,
         NextMessage, StartRecon, taskVars, ledgerVars, venueVars, reconVars
<1>2. FeedStep
  BY CallbackEvents, Untouched
<1>3. ASSUME NEW e \in Elems(events'), e.type = "rejected", e \notin Elems(events)
      PROVE  Rejectable(e.order)'
  <2>1. HandleNew /\ RejectsNew(Head(feed), Addressee) /\ e.order = Addressee
    BY <1>3, CallbackEvents
  <2>2. NextMessage("New") /\ Addressee # None /\ ~Head(feed).ok
    BY <2>1 DEF HandleNew, RejectsNew
  <2>3. e.order = Head(feed).trade /\ Head(feed) \in Elems(feed) /\ Refusal(Head(feed))
    BY <2>1, <2>2, AddresseeSound DEF Refusal
  <2>4. venue[e.order] = "failed"
    BY <2>3 DEF RejInv
  <2>5. e.order \in Orders
    <3>1. Head(feed) \in Message /\ Head(feed).op = "New"
      BY <2>2 DEF NextMessage, TypeOK
    <3>2. Head(feed).trade \in Trades
      BY <3>1 DEF Message
    <3>3. Addressee \in Orders \cup {None}
      BY <3>2, ResolveSound DEF Addressee, TokenOf, Resolve, TypeOK, Candidates
    <3>4. QED
      BY <2>1, <2>2, <3>3
  <2>6. QED
    BY <1>1, <2>4, <2>5 DEF RejInv, Rejectable, Dead
<1>4. EventStep
  BY <1>3 DEF EventStep
<1>5. QED
  BY <1>1, <1>2, <1>4, Untouched DEF RejStep

LEMMA ConnectionRej ==
  ASSUME TypeOK, RejInv, DropLink \/ Reconnect \/ Restart \/ StartUp
  PROVE  RejStep
<1>1. UNCHANGED <<venue, status>>
  BY DEF DropLink, Reconnect, Restart, StartUp, ledgerVars, venueVars
<1>2. EventStep
  BY Untouched, ElemsEmpty DEF DropLink, Reconnect, Restart, StartUp
<1>3. FeedStep
  <2>1. CASE DropLink
    BY <2>1, ElemsSubSeq, Untouched DEF DropLink, TypeOK
  <2>2. CASE Reconnect
    <3>1. PICK x : x = Msg("Reconnected", None, TRUE, 0)
      OBVIOUS
    <3>2. x \in Message /\ x.op # "New"
      BY <3>1 DEF Msg, Message, Ops
    <3>3. feed' = Append(feed, x)
      BY <2>2, <3>1 DEF Reconnect
    <3>4. Elems(feed') = Elems(feed) \cup {x}
      BY <3>2, <3>3, ElemsAppend DEF TypeOK
    <3>5. QED
      BY <3>2, <3>4 DEF FeedStep, Refusal
  <2>3. CASE Restart \/ StartUp
    BY <2>3, ElemsEmpty, Untouched DEF Restart, StartUp
  <2>4. QED
    BY <2>1, <2>2, <2>3
<1>4. VenueStep
  <2>1. CASE Restart
    <3>1. \A o \in Orders : place'[o] = CASE place[o] = "new" -> "new"
                                          [] Cut(o)           -> "lost"
                                          [] OTHER            -> "done"
      BY <2>1 DEF Restart
    <3>2. \A o \in Orders : /\ Cut(o) => place'[o] = "lost"
                            /\ place[o] = "new" => place'[o] = "new"
                            /\ place[o] # "new" /\ ~Cut(o) => place'[o] = "done"
      BY <3>1 DEF Cut
    <3>3. QED
      BY <1>1, <3>2 DEF VenueStep, Dead, Cut
  <2>2. CASE UNCHANGED place
    BY <1>1, <2>2, Untouched
  <2>3. QED
    BY <2>1, <2>2 DEF DropLink, Reconnect, StartUp, clientVars, taskVars
<1>5. SeenStep
  <2>1. CASE Restart
    <3>1. \A i \in Slots, t \in Trades : seen'[i].state[t] = "none"
      BY <2>1 DEF Restart, NoView
    <3>2. QED
      BY <3>1 DEF SeenStep
  <2>2. CASE UNCHANGED seen
    BY <2>2, Untouched
  <2>3. QED
    BY <2>1, <2>2 DEF DropLink, Reconnect, StartUp, StartRecon, clientVars, reconVars
<1>6. QED
  BY <1>1, <1>2, <1>3, <1>4, <1>5, Untouched DEF RejStep

\* A report moves an order to REJECTED only if the exchange listed it as failed.
LEMMA ReconcileRej ==
  ASSUME TypeOK, MapInv, RejInv, NEW i \in Slots, Reconcile(i)
  PROVE  RejStep
<1>1. UNCHANGED <<place, venue, feed, events>>
  BY DEF Reconcile, GatewayList, ReconReports, ReconSend, taskVars, venueVars
<1>2. CASE GatewayList(i)
  <2>1. \A j \in Slots, t \in Trades :
          seen'[j].state[t] = IF j = i THEN venue[t] ELSE seen[j].state[t]
    BY <1>2 DEF GatewayList, TypeOK
  <2>2. SeenStep
    BY <1>1, <2>1 DEF SeenStep
  <2>3. QED
    BY <1>1, <1>2, <2>2, Untouched DEF RejStep, GatewayList, ledgerVars
<1>3. CASE ReconReports(i)
  BY <1>1, <1>3, Untouched DEF RejStep, ReconReports, ledgerVars
<1>4. CASE ReconSend(i)
  <2> DEFINE RowOf(o) == CHOOSE t \in rows[i] : who[i][t] = o /\ seen[i].state[t] # "pending"
             Adopts(o) == ~Closed(o) /\ \E t \in rows[i] : who[i][t] = o /\ seen[i].state[t] # "pending"
             Total(o) == Larger(Filled(o), seen[i].traded[RowOf(o)])
  <2>1. \A o \in Orders : status'[o] =
           IF Adopts(o) THEN ReportStatus(o, seen[i].state[RowOf(o)], Total(o)) ELSE status[o]
    BY <1>4 DEF ReconSend
  <2>2. ASSUME NEW o \in Orders, Adopts(o)
        PROVE  RowOf(o) = o
    <3>1. RowOf(o) \in rows[i] /\ who[i][RowOf(o)] = o
      BY <2>2
    <3>2. rows[i] \subseteq Trades
      BY DEF TypeOK
    <3>3. o # None
      BY TokenAssumption DEF Trades
    <3>4. QED
      BY <3>1, <3>2, <3>3 DEF MapInv
  <2>3. \A o, s, n : ReportStatus(o, s, n) = "REJECTED" => s = "failed"
    BY DEF ReportStatus
  <2>4. ASSUME NEW o \in Orders, status'[o] = "REJECTED", status[o] # "REJECTED"
        PROVE  Rejectable(o)'
    <3>1. Adopts(o)
      BY <2>1, <2>4
    <3>2. seen[i].state[o] = "failed"
      <4>1. ReportStatus(o, seen[i].state[RowOf(o)], Total(o)) = "REJECTED"
        BY <2>1, <2>4, <3>1
      <4>2. RowOf(o) = o
        BY <2>2, <3>1
      <4> HIDE DEF RowOf, Total
      <4>3. QED
        BY <2>3, <4>1, <4>2
    <3>3. venue[o] = "failed" /\ place[o] # "new"
      BY <3>2 DEF RejInv, Trades
    <3>4. QED
      BY <1>1, <3>3 DEF Rejectable, Dead
  <2>5. StatusStep
    BY <2>4 DEF StatusStep
  <2>6. \A j \in Slots, t \in Trades : seen'[j].state[t] \in {seen[j].state[t], "none"}
    BY <1>4 DEF ReconSend, NoView, TypeOK
  <2>7. SeenStep
    BY <2>6 DEF SeenStep
  <2>8. QED
    BY <1>1, <2>5, <2>7, Untouched DEF RejStep
<1>5. QED
  BY <1>2, <1>3, <1>4 DEF Reconcile

LEMMA EveryRej ==
  ASSUME TypeOK, MapInv, RejInv, [Next]_vars
  PROVE  RejStep
<1>1. CASE UNCHANGED vars
  BY <1>1, Untouched DEF RejStep, vars, clientVars, taskVars, reconVars, ledgerVars, venueVars
<1>2. CASE Engine
  BY <1>2, EngineRej
<1>3. CASE Callback
  BY <1>3, CallbackRej
<1>4. CASE CancelAllOrders
  BY <1>4, Untouched DEF RejStep, CancelAllOrders, ledgerVars, venueVars, reconVars
<1>5. ASSUME NEW o \in Orders,
             Commands(o) \/ Replies(o) \/ Gateway(o) \/ GatewayModify(o) \/ Faults(o)
      PROVE  RejStep
  BY <1>5, CommandRej, GatewayRej, GatewayOtherRej DEF Callers
<1>6. ASSUME NEW c \in Callers, NEW o \in Orders, GatewayCancel(c, o)
      PROVE  RejStep
  BY <1>6, GatewayOtherRej
<1>7. ASSUME NEW t \in Trades, Exchange(t)
      PROVE  RejStep
  BY <1>7, ExchangeRej
<1>8. CASE DropLink \/ Reconnect \/ Restart \/ StartUp
  BY <1>8, ConnectionRej
<1>9. ASSUME NEW i \in Slots, Reconcile(i)
      PROVE  RejStep
  BY <1>9, ReconcileRej
<1>10. QED
  BY <1>1, <1>2, <1>3, <1>4, <1>5, <1>6, <1>7, <1>8, <1>9 DEF Next

LEMMA NextRej ==
  ASSUME TypeOK, MapInv, RejInv, [Next]_vars
  PROVE  RejInv'
  BY EveryRej, NextRejInv

LEMMA RejInvHidden == RejInv => HiddenOnlyIfCut
<1> SUFFICES ASSUME RejInv, NEW o \in Orders
             PROVE  status[o] = "REJECTED" \/ Queued("rejected", o) => Cut(o) \/ venue[o] \in {"none", "failed"}
  BY DEF HiddenOnlyIfCut
<1>1. \A i \in 1 .. Len(events) : events[i] \in Elems(events)
  BY DEF Elems
<1>2. QED
  BY <1>1 DEF RejInv, Queued, Rejectable, Dead

\* Whatever the interleaving, the drops, the restarts and the faults of any
\* request, an order reported REJECTED, or about to be, is not at the exchange
\* unless the transport cut off its own place_order: no failed cancel, change, New
\* event or report hides a live order (_submit_order, _handle_order_event,
\* generate_order_status_reports).
THEOREM RejectedCorrect == Spec => []HiddenOnlyIfCut
<1>1. Init => RejInv
  BY InitRej
<1>2. TypeOK /\ MapInv /\ RejInv /\ [Next]_vars => RejInv'
  BY NextRej
<1>3. RejInv => HiddenOnlyIfCut
  BY RejInvHidden
<1>4. Init => MapInv
  BY InitMap
<1>5. TypeOK /\ MapInv /\ [Next]_vars => MapInv'
  BY NextMap
<1>6. QED
  BY <1>1, <1>2, <1>3, <1>4, <1>5, TypeCorrect, PTL DEF Spec
=============================================================================
