------------------------- MODULE ExecDelivery_proofs -------------------------
(***************************************************************************)
(* No deal is lost while the connection holds (NoDealLost), and what the    *)
(* ledger has closed is settled (ClosedSettled), for any number of orders,  *)
(* shares and commands. Deal events carry no token, so the argument follows *)
(* the mapping: it exists, or the New event that will make it is still in   *)
(* front of the deal, from the moment the order works until every deal is   *)
(* queued for the ledger; and the engine drops no fill it is given.         *)
(*                                                                         *)
(* On top of it, the ledger agrees with the exchange whenever nothing is on *)
(* its way between them (QuietAgrees): whatever an order lacks in the       *)
(* ledger, its end, its quantity, its last deal or its refusal, is in the   *)
(* feed or in the queue, in an order that makes the last word win.          *)
(***************************************************************************)
EXTENDS LedgerRefinement_proofs

-----------------------------------------------------------------------------
(* Queues: what is in front of what, and whether something is in one.      *)

\* Every element of A is in front of every element of B.
Before(s, A, B) == \A i, j \in 1 .. Len(s) : s[i] \in A /\ s[j] \in B => i < j

\* Something of A waits in the queue.
Holds(s, A) == Elems(s) \cap A # {}

\* A queue that is not empty is its head and its tail.
LEMMA ElemsHeadTail ==
  ASSUME NEW S, NEW s \in Seq(S), s # <<>>
  PROVE  Elems(s) = {Head(s)} \cup Elems(Tail(s))
<1>1. ASSUME NEW i \in 1 .. Len(s)
      PROVE  s[i] \in {Head(s)} \cup Elems(Tail(s))
  <2>1. CASE i = 1
    BY <2>1
  <2>2. CASE i # 1
    <3>1. i - 1 \in 1 .. Len(Tail(s)) /\ Tail(s)[i - 1] = s[i]
      BY <2>2
    <3>2. QED
      BY <3>1 DEF Elems
  <2>3. QED
    BY <2>1, <2>2
<1>2. QED
  BY <1>1, ElemsTail DEF Elems

\* Taking the head keeps the order.
LEMMA BeforeTail ==
  ASSUME NEW S, NEW s \in Seq(S), s # <<>>, NEW A, NEW B, Before(s, A, B)
  PROVE  Before(Tail(s), A, B)
<1> SUFFICES ASSUME NEW i \in 1 .. Len(Tail(s)), NEW j \in 1 .. Len(Tail(s)),
                    Tail(s)[i] \in A, Tail(s)[j] \in B
             PROVE  i < j
  BY DEF Before
<1>1. /\ i + 1 \in 1 .. Len(s) /\ Tail(s)[i] = s[i + 1]
      /\ j + 1 \in 1 .. Len(s) /\ Tail(s)[j] = s[j + 1]
  OBVIOUS
<1>2. i + 1 < j + 1
  BY <1>1 DEF Before
<1>3. QED
  BY <1>2

\* What has come to the head has nothing of A behind it.
LEMMA BeforeHead ==
  ASSUME NEW S, NEW s \in Seq(S), s # <<>>, NEW A, NEW B, Before(s, A, B), Head(s) \in B
  PROVE  ~Holds(s, A)
<1> SUFFICES ASSUME NEW i \in 1 .. Len(s), s[i] \in A
             PROVE  FALSE
  BY DEF Holds, Elems
<1>1. 1 \in 1 .. Len(s) /\ s[1] = Head(s)
  OBVIOUS
<1>2. i < 1
  BY <1>1 DEF Before
<1>3. QED
  BY <1>2

\* Appending to the queue keeps the order unless an element of A comes late.
LEMMA BeforeConcat ==
  ASSUME NEW S, NEW s \in Seq(S), NEW t \in Seq(S), NEW A, NEW B, Before(s, A, B),
         \/ ~Holds(t, A)
         \/ ~Holds(s, B) /\ ~Holds(t, B)
  PROVE  Before(s \o t, A, B)
<1> SUFFICES ASSUME NEW i \in 1 .. Len(s \o t), NEW j \in 1 .. Len(s \o t),
                    (s \o t)[i] \in A, (s \o t)[j] \in B
             PROVE  i < j
  BY DEF Before
<1>1. \A k \in 1 .. Len(s \o t) :
        \/ k \in 1 .. Len(s) /\ (s \o t)[k] = s[k]
        \/ k > Len(s) /\ (k - Len(s)) \in 1 .. Len(t) /\ (s \o t)[k] = t[k - Len(s)]
  OBVIOUS
<1>2. (s \o t)[i] \in Elems(s) \cup Elems(t) /\ (s \o t)[j] \in Elems(s) \cup Elems(t)
  BY <1>1 DEF Elems
<1>3. CASE ~Holds(t, A)
  <2>1. i \in 1 .. Len(s) /\ s[i] \in A
    BY <1>1, <1>3 DEF Holds, Elems
  <2>2. CASE j \in 1 .. Len(s) /\ (s \o t)[j] = s[j]
    BY <2>1, <2>2 DEF Before
  <2>3. CASE j > Len(s)
    BY <2>1, <2>3
  <2>4. QED
    BY <1>1, <2>2, <2>3
<1>4. CASE ~Holds(s, B) /\ ~Holds(t, B)
  BY <1>2, <1>4 DEF Holds
<1>5. QED
  BY <1>3, <1>4

LEMMA BeforeAppend ==
  ASSUME NEW S, NEW s \in Seq(S), NEW x \in S, NEW A, NEW B, Before(s, A, B),
         x \notin A \/ (~Holds(s, B) /\ x \notin B)
  PROVE  Before(Append(s, x), A, B)
<1>1. <<x>> \in Seq(S) /\ Append(s, x) = s \o <<x>>
  OBVIOUS
<1>2. \A C : x \notin C => ~Holds(<<x>>, C)
  BY ElemsOne DEF Holds
<1>3. QED
  BY <1>1, <1>2, BeforeConcat

\* What a queue holds after something joined it, or its head was taken.
LEMMA HoldsAppend ==
  ASSUME NEW S, NEW s \in Seq(S), NEW x \in S, NEW A
  PROVE  Holds(Append(s, x), A) <=> Holds(s, A) \/ x \in A
  BY ElemsAppend DEF Holds

LEMMA HoldsConcat ==
  ASSUME NEW S, NEW s \in Seq(S), NEW t \in Seq(S), NEW A
  PROVE  Holds(s \o t, A) <=> Holds(s, A) \/ Holds(t, A)
  BY ElemsConcat DEF Holds

LEMMA HoldsTail ==
  ASSUME NEW S, NEW s \in Seq(S), s # <<>>, NEW A
  PROVE  /\ Holds(Tail(s), A) => Holds(s, A)
         /\ Holds(s, A) => Head(s) \in A \/ Holds(Tail(s), A)
         /\ Head(s) \in A => Holds(s, A)
  BY ElemsHeadTail DEF Holds

-----------------------------------------------------------------------------
(* The messages and the events about one order that the argument tells apart. *)

Accepts(o) == {m \in Message : m.op = "New" /\ m.trade = o /\ m.ok}
Deals(o)   == {m \in Message : m.op = "Deal" /\ m.trade = o}
Cancels(o) == {m \in Message : m.op = "Cancel" /\ m.trade = o /\ m.ok}

SubmitEvs(o) == {e \in Event : e.type = "submitted" /\ e.order = o}
FillEvs(o)   == {e \in Event : e.type = "filled" /\ e.order = o}
CancelEvs(o) == {e \in Event : e.type = "canceled" /\ e.order = o}

-----------------------------------------------------------------------------
(* The invariant, one order at a time. *)

\* The deal is on its way to the callback; it is in the ledger or queued there.
OnWay(o, n) == \E m \in Elems(feed) : m.op = "Deal" /\ m.trade = o /\ m.n = n
Told(o, n)  == \/ <<o, n>> \in fills[o]
               \/ \E e \in Elems(events) : e.type = "filled" /\ e.order = o /\ e.id = <<o, n>>

\* A deal the callback has yet to pass on.
Missing(o) == \E n \in 1 .. traded[o] : ~Told(o, n)

\* The exchange executes what the order asks for and nothing before it works.
Sized(o) ==
  /\ traded[o] <= size[o] /\ size[o] >= 1
  /\ traded[o] = size[o] <=> venue[o] = "filled"
  /\ venue[o] \in {"none", "enroute", "pending", "failed"} => traded[o] = 0

\* Quantities only shrink, so whatever the ledger and the queues hold of an
\* order's quantity is at least what the exchange has now.
Agreed(o) ==
  /\ qty[o] >= size[o]
  /\ \A m \in Elems(feed) : m.op = "Update" /\ m.trade = o /\ m.ok => m.n >= size[o]
  /\ \A e \in Elems(events) : e.type = "updated" /\ e.order = o => e.n >= size[o]

\* OrderSubmitted is queued before the request leaves.
Opened(o) == venue[o] # "none" => status[o] # "INITIALIZED" \/ Holds(events, SubmitEvs(o))

\* The feed tells an order's story in the order it happened, and so do the
\* events: accepted, then the deals, then the cancel.
Ordered(o) ==
  /\ Before(feed, Accepts(o), Deals(o) \cup Cancels(o))
  /\ Before(feed, Deals(o), Cancels(o))
  /\ Before(events, SubmitEvs(o), FillEvs(o))
  /\ Before(events, FillEvs(o), CancelEvs(o))

\* While the New event is on its way the ledger has seen nothing behind it.
Unheard(o) ==
  Holds(feed, Accepts(o)) =>
    /\ venue[o] \in {"working", "filled", "cancelled"}
    /\ fills[o] = {} /\ ~Holds(events, FillEvs(o)) /\ ~Holds(events, CancelEvs(o))
    /\ status[o] # "CANCELED"

\* Nothing comes behind the cancel.
NothingLate(o) ==
  /\ status[o] = "CANCELED" \/ Holds(events, CancelEvs(o)) => ~Holds(feed, Deals(o))
  /\ status[o] = "CANCELED" => ~Holds(events, FillEvs(o))

\* A deal, or one that may still come, has a mapping or a New event that will
\* make one: deal events carry no token.
Attributed(o) == venue[o] = "working" \/ Missing(o) => Holds(feed, Accepts(o)) \/ map[o] = o

\* The ledger closes an order as filled only with as many deals as shares.
Full(o) == status[o] = "FILLED" => Cardinality(fills[o]) >= qty[o]

\* The claim itself.
Delivered(o) == \A n \in 1 .. traded[o] : OnWay(o, n) \/ Told(o, n)

Delivery(o) ==
  /\ Sized(o) /\ Agreed(o) /\ Opened(o) /\ Ordered(o) /\ Unheard(o)
  /\ NothingLate(o) /\ Attributed(o) /\ Full(o) /\ Delivered(o)

\* Before the first gap the link is up and nothing has ever been reconciled.
Calm ==
  /\ link = "up"
  /\ \A i \in Slots : recon[i] = "idle"
  /\ \A o \in Orders : inferred[o] = 0
  /\ \A m \in Elems(feed) : m.op # "Reconnected"

\* An order that the code wrote off when its request was cut is out of the claim.
DeliveryInv == NoGap => Calm /\ \A o \in Orders : WrittenOff(o) \/ Delivery(o)

\* What the other proof modules have established of every state.
Proved == TypeOK /\ MapInv /\ FreshInv /\ DealInv /\ RejInv /\ CanInv

-----------------------------------------------------------------------------
(* What follows from it. *)

\* The messages and events of an order are about what the exchange did.
LEMMA Evidence ==
  ASSUME Proved, NEW o \in Orders, ~WrittenOff(o), Sized(o)
  PROVE  /\ traded[o] \in Nat /\ size[o] \in Nat /\ qty[o] \in Nat
         /\ Holds(feed, Deals(o)) \/ Holds(events, FillEvs(o)) \/ fills[o] # {} => traded[o] >= 1
         /\ Holds(feed, Cancels(o)) \/ Holds(events, CancelEvs(o)) \/ status[o] = "CANCELED"
              => venue[o] = "cancelled"
         /\ status[o] = "REJECTED" => venue[o] \in {"none", "failed"} /\ traded[o] = 0
<1>1. traded[o] \in Nat /\ size[o] \in Nat /\ qty[o] \in Nat /\ o \in Trades
  BY DEF Proved, TypeOK, Trades
<1>2. \A id : Executed(o, id) => traded[o] >= 1
  BY <1>1 DEF Executed
<1>3. ASSUME NEW m \in Elems(feed), m \in Deals(o) PROVE traded[o] >= 1
  <2>1. m.n \in 1 .. traded[o]
    BY <1>3 DEF Proved, DealInv, Deals
  <2>2. QED
    BY <1>1, <2>1
<1>4. ASSUME NEW e \in Elems(events), e \in FillEvs(o) PROVE traded[o] >= 1
  BY <1>2, <1>4 DEF Proved, DealInv, FillEvs
<1>5. ASSUME NEW id \in fills[o] PROVE traded[o] >= 1
  BY <1>2, <1>5 DEF Proved, DealInv
<1>6. Holds(feed, Deals(o)) \/ Holds(events, FillEvs(o)) \/ fills[o] # {} => traded[o] >= 1
  BY <1>3, <1>4, <1>5 DEF Holds
<1>7. Holds(feed, Cancels(o)) \/ Holds(events, CancelEvs(o)) \/ status[o] = "CANCELED"
        => venue[o] = "cancelled"
  BY DEF Holds, Cancels, CancelEvs, Proved, CanInv, Cancellation, Gone
<1>8. status[o] = "REJECTED" => venue[o] \in {"none", "failed"} /\ traded[o] = 0
  BY DEF Proved, RejInv, Rejectable, Dead, WrittenOff, Sized
<1>9. QED
  BY <1>1, <1>6, <1>7, <1>8

\* The ledger cannot hold as many deals as the exchange executed and lack one.
LEMMA FillsFull ==
  ASSUME TypeOK, DealInv, NEW o \in Orders, Cardinality(fills[o]) >= traded[o]
  PROVE  /\ \A n \in 1 .. traded[o] : <<o, n>> \in fills[o]
         /\ Cardinality(fills[o]) = traded[o]
<1> DEFINE all == {<<o, n>> : n \in 1 .. traded[o]}
<1>1. traded[o] \in Nat /\ IsFiniteSet(fills[o])
  BY DEF TypeOK, Trades
<1>2. fills[o] \subseteq all
  BY DEF DealInv, Executed
<1>3. IsFiniteSet(1 .. traded[o]) /\ Cardinality(1 .. traded[o]) = traded[o]
  BY <1>1, FS_Interval
<1>4. IsFiniteSet(all) /\ Cardinality(all) = traded[o]
  <2> DEFINE f == [n \in 1 .. traded[o] |-> <<o, n>>]
  <2>1. f \in Bijection(1 .. traded[o], all)
    BY DEF Bijection, Injection, Surjection, IsInjective
  <2>2. ExistsBijection(1 .. traded[o], all)
    BY <2>1 DEF ExistsBijection
  <2>3. QED
    BY <1>3, <2>2, FS_Bijection
<1>5. Cardinality(fills[o]) <= traded[o]
  BY <1>2, <1>4, FS_Subset
<1>6. Cardinality(fills[o]) \in Nat
  BY <1>1, FS_CardinalityType
<1>7. Cardinality(fills[o]) = Cardinality(all)
  BY <1>1, <1>4, <1>5, <1>6
<1>8. fills[o] = all
  BY <1>2, <1>4, <1>7, FS_Subset
<1>9. QED
  BY <1>1, <1>4, <1>7, <1>8

\* An order the ledger has closed is done at the exchange, and so is the ledger.
LEMMA ClosedDone ==
  ASSUME Proved, NEW o \in Orders, ~WrittenOff(o), Delivery(o), Closed(o)
  PROVE  /\ venue[o] # "working"
         /\ \A n \in 1 .. traded[o] : <<o, n>> \in fills[o]
         /\ ~Missing(o)
         /\ status[o] = "FILLED" => venue[o] = "filled" /\ qty[o] = size[o]
<1>0. /\ traded[o] \in Nat /\ size[o] \in Nat /\ qty[o] \in Nat
      /\ status[o] = "CANCELED" => venue[o] = "cancelled"
      /\ status[o] = "REJECTED" => venue[o] \in {"none", "failed"} /\ traded[o] = 0
  BY Evidence DEF Delivery
<1>1. CASE status[o] = "FILLED"
  <2>1. Cardinality(fills[o]) >= qty[o] /\ qty[o] >= size[o] /\ size[o] >= traded[o]
        /\ Cardinality(fills[o]) \in Nat
    BY <1>0, <1>1, FS_CardinalityType DEF Delivery, Full, Agreed, Sized, Proved, TypeOK
  <2>2. \A n \in 1 .. traded[o] : <<o, n>> \in fills[o]
        /\ Cardinality(fills[o]) = traded[o]
    BY <1>0, <2>1, FillsFull DEF Proved
  <2>3. Cardinality(fills[o]) = traded[o]
    BY <1>0, <2>1, FillsFull DEF Proved
  <2>4. qty[o] = size[o] /\ traded[o] = size[o]
    BY <1>0, <2>1, <2>3
  <2>5. venue[o] = "filled"
    BY <2>4 DEF Delivery, Sized
  <2>6. QED
    BY <2>2, <2>4, <2>5 DEF Missing, Told
<1>2. CASE status[o] = "CANCELED"
  <2>1. ~Holds(feed, Deals(o)) /\ ~Holds(events, FillEvs(o))
    BY <1>2 DEF Delivery, NothingLate
  <2>2. feed \in Seq(Message) /\ events \in Seq(Event)
    BY DEF Proved, TypeOK
  <2>3. \A n : ~OnWay(o, n)
    BY <2>1, <2>2 DEF OnWay, Holds, Deals, Elems
  <2>4. \A n : Told(o, n) => <<o, n>> \in fills[o]
    BY <2>1, <2>2 DEF Told, Holds, FillEvs, Elems
  <2>5. QED
    BY <1>0, <1>2, <2>3, <2>4 DEF Delivery, Delivered, Missing
<1>3. CASE status[o] = "REJECTED"
  <2>1. 1 .. traded[o] = {}
    BY <1>0, <1>3
  <2>2. QED
    BY <1>0, <1>3, <2>1 DEF Missing
<1>4. QED
  BY <1>1, <1>2, <1>3 DEF Closed, ClosedStatuses

-----------------------------------------------------------------------------
(* Quiet steps: the commands, the requests, their answers and failures, what *)
(* other sessions trade, and the exchange refusing or cancelling an order.    *)
(* None of them touches the ledger or executes a deal.                        *)

\* The events it queues say nothing of deals, cancels or quantities.
QuietEvents ==
  \E es \in Seq(Event) :
    /\ Generate(es)
    /\ \A e \in Elems(es) :
         /\ e.type \notin {"filled", "canceled", "updated"}
         /\ e.type = "submitted" => place[e.order] = "new"

\* The gateway says that it refused, cancelled or changed an order of ours, or
\* anything about the trade of another session.
QuietMessage(m) ==
  /\ m.op \in {"New", "Cancel", "Update"}
  /\ m.op = "New" => ~m.ok
  /\ m.op = "Cancel" /\ m.ok => venue[m.trade] = "working" /\ venue'[m.trade] = "cancelled"
  /\ m.op = "Update" /\ m.ok => m.n = size'[m.trade]

\* At most one message joins the feed, if the client is connected.
QuietFeed ==
  \/ UNCHANGED feed
  \/ \E m \in Message : Emit(m) /\ m.op # "Reconnected" /\ (m.trade \in Orders => QuietMessage(m))

\* At the exchange an order moves on, but not to work and not to execute.
QuietVenue(o) ==
  /\ traded'[o] = traded[o]
  /\ \/ venue'[o] = venue[o]
     \/ venue[o] = "none" /\ venue'[o] = "enroute" /\ Holds(events', SubmitEvs(o))
     \/ venue[o] = "enroute" /\ venue'[o] \in {"none", "failed", "pending"}
     \/ venue[o] = "pending" /\ venue'[o] = "failed"
     \/ venue[o] = "working" /\ venue'[o] = "cancelled"
  /\ \/ size'[o] = size[o]
     \/ venue[o] = "working" /\ venue'[o] = "working" /\ size'[o] \in traded[o] + 1 .. size[o]

QuietStep ==
  /\ UNCHANGED <<status, fills, qty, inferred, recon, link, used["drops"], used["restarts"]>>
  /\ QuietEvents /\ QuietFeed
  /\ \A o \in Orders : QuietVenue(o) /\ map'[o] \in {map[o], o}

\* Queueing no event, one, or the two of an order that is invalid.
LEMMA QuietNone ==
  ASSUME TypeOK, UNCHANGED events \/ Generate(<<>>)
  PROVE  QuietEvents
<1>1. <<>> \in Seq(Event) /\ Elems(<<>>) = {} /\ (UNCHANGED events => Generate(<<>>))
  BY ElemsEmpty DEF Generate, TypeOK
<1>2. QED
  BY <1>1 DEF QuietEvents

LEMMA QuietOne ==
  ASSUME NEW o \in Orders, NEW type \in EventTypes \ {"filled", "canceled", "updated", "submitted"},
         Generate(<<Ev(type, o)>>)
  PROVE  QuietEvents
<1>1. <<Ev(type, o)>> \in Seq(Event) /\ Elems(<<Ev(type, o)>>) = {Ev(type, o)}
  BY EvType, ElemsOne
<1>2. /\ Ev(type, o).order = o /\ Ev(type, o).type = type
      /\ type \notin {"filled", "canceled", "updated", "submitted"}
  BY EvIsNoFill
<1>3. \A e \in Elems(<<Ev(type, o)>>) :
        /\ e.type \notin {"filled", "canceled", "updated"}
        /\ e.type = "submitted" => place[e.order] = "new"
  BY <1>1, <1>2
<1>4. QED
  BY <1>1, <1>3 DEF QuietEvents

\* The commands and their replies are quiet ...
LEMMA SubmitQuiet ==
  ASSUME TypeOK, FreshInv, NEW o \in Orders, Submit(o)
  PROVE  QuietStep
<1>0. o \in Trades /\ venue[o] = "none" /\ place[o] = "new"
  BY DEF Submit, FreshInv, Trades
<1>1. {"submitted", "rejected"} \subseteq EventTypes \ {"filled"}
  BY DEF EventTypes
<1>2. QuietEvents
  <2>1. CASE SubmitUnsupported(o)
    BY <2>1, QuietOne DEF SubmitUnsupported, EventTypes
  <2>2. ASSUME NEW es \in {<<Ev("submitted", o), Ev("rejected", o)>>, <<Ev("submitted", o)>>},
               Generate(es)
        PROVE  QuietEvents
    <3>1. es \in Seq(Event)
      <4>1. Ev("submitted", o) \in Event /\ Ev("rejected", o) \in Event
        BY <1>1, EvType
      <4>2. /\ <<Ev("submitted", o)>> \in Seq(Event)
            /\ <<Ev("submitted", o), Ev("rejected", o)>> \in Seq(Event)
        BY <4>1
      <4>3. QED
        BY <4>2
    <3>2. Elems(es) \subseteq {Ev("submitted", o), Ev("rejected", o)}
      BY ElemsOne, ElemsPair
    <3>3. QED
      BY <1>0, <2>2, <3>1, <3>2, EvIsNoFill DEF QuietEvents
  <2>3. QED
    BY <2>1, <2>2 DEF Submit, SubmitInvalid, SubmitValid
<1>3. \A p \in Orders : QuietVenue(p)
  <2>0. UNCHANGED <<traded, size>> /\ Orders \subseteq Trades
    BY DEF Submit, Trades
  <2>1. CASE SubmitValid(o)
    <3>1. <<Ev("submitted", o)>> \in Seq(Event) /\ Ev("submitted", o) \in Event
      BY <1>1, EvType
    <3>2. Ev("submitted", o) \in Elems(events')
      BY <2>1, <3>1, ElemsGenerate, ElemsOne DEF SubmitValid
    <3>3. Holds(events', SubmitEvs(o))
      BY <3>1, <3>2, EvIsNoFill DEF Holds, SubmitEvs
    <3>4. venue' = [venue EXCEPT ![o] = "enroute"] /\ UNCHANGED size
      BY <2>1 DEF Submit, SubmitValid
    <3>5. QED
      BY <1>0, <2>0, <3>3, <3>4 DEF QuietVenue, TypeOK
  <2>2. CASE UNCHANGED venue
    BY <2>0, <2>2 DEF QuietVenue
  <2>3. QED
    BY <2>1, <2>2 DEF Submit, SubmitUnsupported, SubmitInvalid
<1>4. QED
  BY <1>2, <1>3 DEF QuietStep, QuietFeed, Submit, reconVars, ledgerVars

LEMMA ReplyQuiet ==
  ASSUME TypeOK, NEW o \in Orders, Commands(o) \/ Replies(o), ~Submit(o)
  PROVE  QuietStep
<1>1. /\ UNCHANGED <<ledgerVars, venueVars, reconVars, link, feed>>
      /\ UNCHANGED used \/ Spend("cancels") \/ Spend("modifies")
  BY DEF Commands, Replies, CancelOrder, SweepNext, ModifyOrder, PlaceReturns, ModifyReturns,
     CancelReturns
<1>2. UNCHANGED <<used["drops"], used["restarts"]>>
  BY <1>1 DEF Spend, TypeOK, Counters
<1>3. UNCHANGED map \/ map' = [map EXCEPT ![o] = o]
  BY DEF Commands, Replies, CancelOrder, SweepNext, ModifyOrder, PlaceReturns, ModifyReturns,
     CancelReturns, PlaceOk, PlaceFailed, PlaceError
<1>4. {"accepted", "rejected", "cancel_rejected", "modify_rejected"}
        \subseteq EventTypes \ {"filled", "canceled", "updated", "submitted"}
  BY DEF EventTypes
<1>5. \/ UNCHANGED events \/ Generate(<<>>)
      \/ \E type \in {"accepted", "rejected", "cancel_rejected", "modify_rejected"} :
           Generate(<<Ev(type, o)>>)
  <2>1. CASE CancelOrder(o) \/ SweepNext(o)
    BY <2>1 DEF CancelOrder, SweepNext
  <2>2. ASSUME NEW what \in {"price", "qty"}, ModifyOrder(o, what)
        PROVE  Generate(<<>>) \/ Generate(<<Ev("modify_rejected", o)>>)
    BY <2>2 DEF ModifyOrder
  <2>3. CASE PlaceReturns(o)
    BY <2>3 DEF PlaceReturns, PlaceOk, PlaceFailed, PlaceError
  <2>4. CASE ModifyReturns(o)
    BY <2>4 DEF ModifyReturns
  <2>5. ASSUME NEW c \in Callers, CancelReturns(c, o)
        PROVE  Generate(<<>>) \/ Generate(<<Ev("cancel_rejected", o)>>)
    BY <2>5 DEF CancelReturns, CancelReply
  <2>6. QED
    BY <2>1, <2>2, <2>3, <2>4, <2>5 DEF Commands, Replies
<1>6. QuietEvents
  BY <1>4, <1>5, QuietNone, QuietOne
<1>7. \A p \in Orders : map'[p] \in {map[p], p}
  BY <1>3 DEF TypeOK, Trades
<1>8. QED
  BY <1>1, <1>2, <1>6, <1>7 DEF QuietStep, QuietFeed, QuietVenue, ledgerVars, venueVars, reconVars

\* A message of the gateway that says nothing of deals.
LEMMA QuietEmit ==
  ASSUME NEW t \in Trades, NEW op \in {"New", "Cancel", "Update"}, NEW ok \in BOOLEAN, NEW n \in Nat,
         Emit(Msg(op, t, ok, n)),
         t \in Orders => /\ op = "New" => ~ok
                         /\ op = "Cancel" /\ ok => venue[t] = "working" /\ venue'[t] = "cancelled"
                         /\ op = "Update" /\ ok => n = size'[t]
  PROVE  QuietFeed
<1>1. Msg(op, t, ok, n) \in Message
  BY DEF Msg, Message, Ops
<1>2. PICK m \in Message : m = Msg(op, t, ok, n)
  BY <1>1
<1>3. m.op = op /\ m.trade = t /\ m.ok = ok /\ m.n = n /\ Emit(m)
  BY <1>2 DEF Msg
<1>4. QED
  BY <1>3 DEF QuietFeed, QuietMessage

\* ... so is the gateway, and a request that fails.
LEMMA GatewayQuiet ==
  ASSUME TypeOK, NEW o \in Orders, Gateway(o) \/ GatewayModify(o) \/ Faults(o)
  PROVE  QuietStep
<1>0. o \in Trades /\ Orders \subseteq Trades
  BY DEF Trades
<1>1. /\ UNCHANGED <<status, fills, qty, inferred, traded, recon, link, used, map, events>>
  BY DEF Gateway, GatewayModify, Faults, PlaceFault, CancelFault, ModifyFault, ledgerVars, venueVars,
     reconVars
<1>2. QuietEvents
  BY <1>1, QuietNone
<1>3. CASE Gateway(o)
  <2>1. QuietFeed
    <3>1. UNCHANGED feed \/ Emit(Msg("New", o, FALSE, 0))
      BY <1>3 DEF Gateway, GatewayRefuse, GatewayFail, GatewayPlace
    <3>2. QED
      BY <1>0, <3>1, QuietEmit DEF QuietFeed
  <2>2. UNCHANGED size /\ venue[o] = "enroute"
        /\ \E v \in {"none", "failed", "pending"} : venue' = [venue EXCEPT ![o] = v]
    BY <1>3 DEF Gateway, GatewayRefuse, GatewayFail, GatewayPlace
  <2>3. \A p \in Orders : QuietVenue(p)
    BY <1>0, <1>1, <2>2 DEF QuietVenue, TypeOK
  <2>4. QED
    BY <1>1, <1>2, <2>1, <2>3 DEF QuietStep
<1>4. CASE GatewayModify(o)
  <2>0. traded[o] \in Nat /\ size[o] \in Nat /\ UNCHANGED venue
    BY <1>0, <1>4 DEF TypeOK, GatewayModify
  <2>1. CASE venue[o] = "working" /\ \E n \in traded[o] + 1 .. size[o] :
               size' = [size EXCEPT ![o] = n] /\ Emit(Msg("Update", o, TRUE, n))
    <3>1. PICK n \in traded[o] + 1 .. size[o] :
            size' = [size EXCEPT ![o] = n] /\ Emit(Msg("Update", o, TRUE, n))
      BY <2>1
    <3>2. n \in Nat /\ size'[o] = n
      BY <1>0, <2>0, <3>1 DEF TypeOK
    <3>3. QuietFeed
      BY <1>0, <3>1, <3>2, QuietEmit
    <3>4. \A p \in Orders : QuietVenue(p)
      BY <1>0, <1>1, <2>0, <2>1, <3>1, <3>2 DEF QuietVenue, TypeOK
    <3>5. QED
      BY <1>1, <1>2, <3>3, <3>4 DEF QuietStep
  <2>2. CASE UNCHANGED size /\ (UNCHANGED feed \/ Emit(Msg("Update", o, FALSE, 0)))
    <3>1. QuietFeed
      BY <1>0, <2>2, QuietEmit DEF QuietFeed
    <3>2. QED
      BY <1>1, <1>2, <2>0, <2>2, <3>1 DEF QuietStep, QuietVenue
  <2>3. QED
    BY <1>4, <2>1, <2>2 DEF GatewayModify
<1>5. CASE Faults(o)
  <2>1. UNCHANGED <<venue, size, feed>>
    BY <1>5 DEF Faults, PlaceFault, CancelFault, ModifyFault, venueVars
  <2>2. QED
    BY <1>1, <1>2, <2>1 DEF QuietStep, QuietFeed, QuietVenue
<1>6. QED
  BY <1>3, <1>4, <1>5

LEMMA CancelQuiet ==
  ASSUME TypeOK, NEW c \in Callers, NEW o \in Orders, GatewayCancel(c, o)
  PROVE  QuietStep
<1>0. o \in Trades /\ Orders \subseteq Trades
  BY DEF Trades
<1>1. /\ UNCHANGED <<status, fills, qty, inferred, size, traded, recon, link, used, map, events>>
  BY DEF GatewayCancel, ledgerVars, reconVars
<1>2. QuietEvents
  BY <1>1, QuietNone
<1>3. CASE venue[o] = "working" /\ venue' = [venue EXCEPT ![o] = "cancelled"]
             /\ Emit(Msg("Cancel", o, TRUE, 0))
  <2>1. venue'[o] = "cancelled"
    BY <1>0, <1>3 DEF TypeOK
  <2>2. QuietFeed
    BY <1>0, <1>3, <2>1, QuietEmit
  <2>3. \A p \in Orders : QuietVenue(p)
    BY <1>0, <1>1, <1>3, <2>1 DEF QuietVenue, TypeOK
  <2>4. QED
    BY <1>1, <1>2, <2>2, <2>3 DEF QuietStep
<1>4. CASE UNCHANGED venue /\ (UNCHANGED feed \/ Emit(Msg("Cancel", o, FALSE, 0)))
  <2>1. QuietFeed
    BY <1>0, <1>4, QuietEmit DEF QuietFeed
  <2>2. QED
    BY <1>1, <1>2, <1>4, <2>1 DEF QuietStep, QuietVenue
<1>5. QED
  BY <1>3, <1>4 DEF GatewayCancel

\* The exchange refuses or cancels an order; what it does to the trade of
\* another session concerns no order of ours.
LEMMA ExchangeQuiet ==
  ASSUME TypeOK, NEW t \in Trades, Exchange(t),
         \/ t \notin Orders
         \/ VenueDecides(t) /\ venue'[t] = "failed"
         \/ VenueCancel(t)
  PROVE  QuietStep
<1>0. Orders \subseteq Trades /\ (ForeignPlace(t) => t \notin Orders)
  BY TokenAssumption DEF Trades, ForeignPlace
<1>1. UNCHANGED <<status, fills, qty, inferred, recon, link, used, map, events, size>>
  BY DEF Exchange, ForeignPlace, VenueDecides, VenueDeal, VenueCancel, clientVars, reconVars, ledgerVars
<1>2. QuietEvents
  BY <1>1, QuietNone
<1>3. \A p \in Orders : p # t => venue'[p] = venue[p] /\ traded'[p] = traded[p]
  BY <1>0 DEF Exchange, ForeignPlace, VenueDecides, VenueDeal, VenueCancel, TypeOK
<1>4. CASE t \notin Orders
  <2>1. QuietFeed
    <3>1. CASE ForeignPlace(t)
      BY <3>1 DEF ForeignPlace, QuietFeed
    <3>2. CASE VenueDecides(t)
      BY <1>4, <3>2, QuietEmit DEF VenueDecides
    <3>3. CASE VenueCancel(t)
      BY <1>4, <3>3, QuietEmit DEF VenueCancel
    <3>4. CASE VenueDeal(t)
      <4>1. Msg("Deal", t, TRUE, traded[t] + 1) \in Message
        BY DEF Msg, Message, Ops, TypeOK
      <4>2. QED
        BY <1>4, <3>4, <4>1 DEF VenueDeal, QuietFeed, Msg
    <3>5. QED
      BY <3>1, <3>2, <3>3, <3>4 DEF Exchange
  <2>2. QED
    BY <1>1, <1>2, <1>3, <1>4, <2>1 DEF QuietStep, QuietVenue
<1>5. CASE VenueDecides(t) /\ venue'[t] = "failed" /\ t \in Orders
  <2>1. PICK ok \in BOOLEAN : /\ venue' = [venue EXCEPT ![t] = IF ok THEN "working" ELSE "failed"]
                              /\ Emit(Msg("New", t, ok, 0))
    BY <1>5 DEF VenueDecides
  <2>2. ~ok
    BY <1>5, <2>1 DEF TypeOK
  <2>3. QuietFeed
    BY <2>1, <2>2, QuietEmit
  <2>4. venue[t] = "pending" /\ UNCHANGED traded
    BY <1>5 DEF VenueDecides
  <2>5. QED
    BY <1>1, <1>2, <1>3, <1>5, <2>3, <2>4 DEF QuietStep, QuietVenue
<1>6. CASE VenueCancel(t) /\ t \in Orders
  <2>1. venue[t] = "working" /\ venue'[t] = "cancelled" /\ UNCHANGED traded
    BY <1>6 DEF VenueCancel, TypeOK
  <2>2. QuietFeed
    BY <1>6, <2>1, QuietEmit DEF VenueCancel
  <2>3. QED
    BY <1>1, <1>2, <1>3, <2>1, <2>2 DEF QuietStep, QuietVenue
<1>7. QED
  BY <1>4, <1>5, <1>6

\* Nothing at all happens, or cancel_all_orders starts.
LEMMA IdleQuiet ==
  ASSUME TypeOK, UNCHANGED vars \/ CancelAllOrders
  PROVE  QuietStep
<1>1. /\ UNCHANGED <<status, fills, qty, inferred, recon, link, map, events, size, venue, traded, feed>>
      /\ UNCHANGED used \/ Spend("sweeps")
  BY DEF vars, clientVars, reconVars, ledgerVars, venueVars, CancelAllOrders
<1>2. UNCHANGED <<used["drops"], used["restarts"]>>
  BY <1>1 DEF Spend, TypeOK, Counters
<1>3. QED
  BY <1>1, <1>2, QuietNone DEF QuietStep, QuietFeed, QuietVenue

\* What a quiet step adds to the feed.
LEMMA QuietAppend ==
  ASSUME TypeOK, link = "up", QuietFeed, NEW o \in Orders
  PROVE  \/ UNCHANGED feed
         \/ \E m \in Message :
              /\ feed' = Append(feed, m)
              /\ m.op # "Reconnected"
              /\ m \notin Accepts(o) \cup Deals(o)
              /\ m.op = "Update" /\ m.trade = o /\ m.ok => m.n = size'[o]
<1>1. CASE UNCHANGED feed
  BY <1>1
<1>2. CASE \E m \in Message : Emit(m) /\ m.op # "Reconnected" /\ (m.trade \in Orders => QuietMessage(m))
  <2>1. PICK m \in Message : Emit(m) /\ m.op # "Reconnected" /\ (m.trade \in Orders => QuietMessage(m))
    BY <1>2
  <2>2. feed' = Append(feed, m)
    BY <2>1 DEF Emit
  <2>3. m \notin Accepts(o) \cup Deals(o)
    BY <2>1 DEF Accepts, Deals, QuietMessage
  <2>4. m.op = "Update" /\ m.trade = o /\ m.ok => m.n = size'[o]
    BY <2>1 DEF QuietMessage
  <2>5. QED
    BY <2>1, <2>2, <2>3, <2>4
<1>3. QED
  BY <1>1, <1>2 DEF QuietFeed

\* So the feed keeps its order, and what it says of deals.
LEMMA QuietFeedKeeps ==
  ASSUME TypeOK, link = "up", QuietFeed, NEW o \in Orders, ~WrittenOff(o), Delivery(o), size'[o] <= size[o],
         size'[o] \in Nat, size[o] \in Nat
  PROVE  /\ Holds(feed', Accepts(o)) <=> Holds(feed, Accepts(o))
         /\ Holds(feed', Deals(o)) <=> Holds(feed, Deals(o))
         /\ Elems(feed) \subseteq Elems(feed')
         /\ Before(feed', Accepts(o), Deals(o) \cup Cancels(o))
         /\ Before(feed', Deals(o), Cancels(o))
         /\ \A m \in Elems(feed') : m.op = "Update" /\ m.trade = o /\ m.ok => m.n >= size'[o]
<1>0. /\ feed \in Seq(Message)
      /\ Before(feed, Accepts(o), Deals(o) \cup Cancels(o))
      /\ Before(feed, Deals(o), Cancels(o))
      /\ \A m \in Elems(feed) : m.op = "Update" /\ m.trade = o /\ m.ok => m.n >= size[o]
  BY DEF TypeOK, Delivery, Ordered, Agreed
<1>1. \A m \in Elems(feed) : m.op = "Update" /\ m.trade = o /\ m.ok => m.n >= size'[o]
  <2>1. \A m \in Message : m.n \in Nat
    BY DEF Message
  <2>2. \A m \in Elems(feed) : m.n \in Nat
    BY <1>0, <2>1 DEF Elems
  <2>3. QED
    BY <1>0, <2>2
<1>2. CASE UNCHANGED feed
  BY <1>0, <1>1, <1>2
<1>3. ASSUME NEW m \in Message, feed' = Append(feed, m), m \notin Accepts(o) \cup Deals(o),
             m.op = "Update" /\ m.trade = o /\ m.ok => m.n = size'[o]
      PROVE  /\ Holds(feed', Accepts(o)) <=> Holds(feed, Accepts(o))
             /\ Holds(feed', Deals(o)) <=> Holds(feed, Deals(o))
             /\ Elems(feed) \subseteq Elems(feed')
             /\ Before(feed', Accepts(o), Deals(o) \cup Cancels(o))
             /\ Before(feed', Deals(o), Cancels(o))
             /\ \A x \in Elems(feed') : x.op = "Update" /\ x.trade = o /\ x.ok => x.n >= size'[o]
  <2>1. Elems(feed') = Elems(feed) \cup {m}
    BY <1>0, <1>3, ElemsAppend
  <2>2. /\ Holds(feed', Accepts(o)) <=> Holds(feed, Accepts(o))
        /\ Holds(feed', Deals(o)) <=> Holds(feed, Deals(o))
    BY <1>0, <1>3, HoldsAppend
  <2>3. /\ Before(feed', Accepts(o), Deals(o) \cup Cancels(o))
        /\ Before(feed', Deals(o), Cancels(o))
    BY <1>0, <1>3, BeforeAppend
  <2>4. QED
    BY <1>1, <1>3, <2>1, <2>2, <2>3
<1>4. QED
  BY <1>2, <1>3, QuietAppend

\* The queue of the engine likewise.
LEMMA QuietEventsKeep ==
  ASSUME Proved, NEW o \in Orders, ~WrittenOff(o), Delivery(o), QuietEvents
  PROVE  /\ Holds(events, SubmitEvs(o)) => Holds(events', SubmitEvs(o))
         /\ Holds(events', FillEvs(o)) <=> Holds(events, FillEvs(o))
         /\ Holds(events', CancelEvs(o)) <=> Holds(events, CancelEvs(o))
         /\ Elems(events) \subseteq Elems(events')
         /\ Before(events', SubmitEvs(o), FillEvs(o))
         /\ Before(events', FillEvs(o), CancelEvs(o))
         /\ \A e \in Elems(events') : e.type = "updated" => e \in Elems(events)
<1>1. PICK es \in Seq(Event) :
        /\ Generate(es)
        /\ \A e \in Elems(es) :
             /\ e.type \notin {"filled", "canceled", "updated"}
             /\ e.type = "submitted" => place[e.order] = "new"
  BY DEF QuietEvents
<1>2. events \in Seq(Event) /\ events' = events \o es /\ Elems(events') = Elems(events) \cup Elems(es)
  BY <1>1, ElemsGenerate DEF Proved, TypeOK, Generate
<1>3. ~Holds(es, FillEvs(o)) /\ ~Holds(es, CancelEvs(o))
  BY <1>1 DEF Holds, FillEvs, CancelEvs
<1>4. Holds(es, SubmitEvs(o)) => ~Holds(events, FillEvs(o))
  <2>1. SUFFICES ASSUME NEW e \in Elems(es), e \in SubmitEvs(o)
                 PROVE  ~Holds(events, FillEvs(o))
    BY DEF Holds
  <2>2. place[o] = "new"
    BY <1>1, <2>1 DEF SubmitEvs
  <2>3. venue[o] = "none"
    BY <2>2 DEF Proved, FreshInv
  <2>4. traded[o] = 0
    BY <2>3 DEF Delivery, Sized
  <2>5. QED
    BY <2>4, Evidence DEF Delivery
<1>5. /\ Before(events', SubmitEvs(o), FillEvs(o))
      /\ Before(events', FillEvs(o), CancelEvs(o))
  BY <1>1, <1>2, <1>3, <1>4, BeforeConcat DEF Delivery, Ordered
<1>6. QED
  BY <1>1, <1>2, <1>3, <1>5, HoldsConcat

\* A quiet step keeps the invariant of every order.
LEMMA QuietKeeps ==
  ASSUME Proved, TypeOK', Calm, QuietStep, NEW o \in Orders, ~WrittenOff(o), Delivery(o)
  PROVE  Delivery(o)'
<1>0. /\ traded[o] \in Nat /\ size[o] \in Nat /\ qty[o] \in Nat /\ size'[o] \in Nat
      /\ traded'[o] = traded[o] /\ QuietVenue(o) /\ map'[o] \in {map[o], o}
      /\ UNCHANGED <<status, fills, qty>> /\ QuietEvents /\ QuietFeed /\ link = "up"
  BY DEF Proved, TypeOK, Trades, QuietStep, QuietVenue, Calm
<1>1. size'[o] <= size[o]
  BY <1>0 DEF QuietVenue
<1>2. /\ Holds(feed', Accepts(o)) <=> Holds(feed, Accepts(o))
      /\ Holds(feed', Deals(o)) <=> Holds(feed, Deals(o))
      /\ Elems(feed) \subseteq Elems(feed')
      /\ Before(feed', Accepts(o), Deals(o) \cup Cancels(o))
      /\ Before(feed', Deals(o), Cancels(o))
      /\ \A m \in Elems(feed') : m.op = "Update" /\ m.trade = o /\ m.ok => m.n >= size'[o]
  BY <1>0, <1>1, QuietFeedKeeps DEF Proved
<1>3. /\ Holds(events, SubmitEvs(o)) => Holds(events', SubmitEvs(o))
      /\ Holds(events', FillEvs(o)) <=> Holds(events, FillEvs(o))
      /\ Holds(events', CancelEvs(o)) <=> Holds(events, CancelEvs(o))
      /\ Elems(events) \subseteq Elems(events')
      /\ Before(events', SubmitEvs(o), FillEvs(o))
      /\ Before(events', FillEvs(o), CancelEvs(o))
      /\ \A e \in Elems(events') : e.type = "updated" => e \in Elems(events)
  BY <1>0, QuietEventsKeep
<1>4. Sized(o)'
  BY <1>0 DEF Delivery, Sized, QuietVenue
<1>5. Agreed(o)'
  <2>1. \A e \in Event : e.n \in Nat
    BY DEF Event
  <2>2. \A e \in Elems(events) : e.n \in Nat
    BY <2>1 DEF Elems, Proved, TypeOK
  <2>3. QED
    BY <1>0, <1>1, <1>2, <1>3, <2>2 DEF Delivery, Agreed
<1>6. Opened(o)'
  BY <1>0, <1>3 DEF Delivery, Opened, QuietVenue
<1>7. Ordered(o)'
  BY <1>2, <1>3 DEF Ordered, Accepts, Deals, Cancels, SubmitEvs, FillEvs, CancelEvs
<1>8. Unheard(o)'
  BY <1>0, <1>2, <1>3 DEF Delivery, Unheard, QuietVenue, Accepts, Deals, Cancels, SubmitEvs, FillEvs, CancelEvs
<1>9. NothingLate(o)'
  BY <1>0, <1>2, <1>3 DEF Delivery, NothingLate
<1>10. \A n : (Told(o, n) => Told(o, n)') /\ (OnWay(o, n) => OnWay(o, n)')
  BY <1>0, <1>2, <1>3 DEF Told, OnWay
<1>11. Attributed(o)'
  <2>1. Missing(o)' => Missing(o)
    BY <1>0, <1>10 DEF Missing
  <2>2. venue'[o] = "working" => venue[o] = "working"
    BY <1>0 DEF QuietVenue
  <2>3. QED
    BY <1>0, <1>2, <2>1, <2>2 DEF Delivery, Attributed
<1>12. Full(o)' /\ Delivered(o)'
  BY <1>0, <1>10 DEF Delivery, Full, Delivered
<1>13. QED
  BY <1>4, <1>5, <1>6, <1>7, <1>8, <1>9, <1>11, <1>12 DEF Delivery

-----------------------------------------------------------------------------
(* The exchange *)

\* The exchange takes an order: the New event goes out before any deal.
LEMMA AcceptKeeps ==
  ASSUME Proved, TypeOK', Calm, NEW o \in Orders, ~WrittenOff(o), Delivery(o),
         VenueDecides(o), venue'[o] # "failed"
  PROVE  Delivery(o)'
<1>0. Msg("New", o, TRUE, 0) \in Message
  BY DEF Msg, Message, Ops, Trades
<1>1. PICK m \in Message : m = Msg("New", o, TRUE, 0)
  BY <1>0
<1>2. /\ venue[o] = "pending" /\ venue'[o] = "working" /\ feed' = Append(feed, m)
      /\ UNCHANGED <<status, fills, qty, map, events, size, traded>>
  BY <1>1 DEF VenueDecides, Emit, Calm, clientVars, ledgerVars, Proved, TypeOK, Trades
<1>3. feed \in Seq(Message) /\ m.op = "New" /\ m \in Accepts(o) /\ m \notin Deals(o) \cup Cancels(o)
  BY <1>1 DEF Proved, TypeOK, Msg, Accepts, Deals, Cancels
<1>4. /\ traded[o] = 0 /\ size[o] >= 1 /\ size[o] \in Nat
      /\ ~Holds(feed, Deals(o)) /\ ~Holds(feed, Cancels(o))
      /\ ~Holds(events, FillEvs(o)) /\ ~Holds(events, CancelEvs(o))
      /\ fills[o] = {} /\ status[o] # "CANCELED"
  BY <1>2, Evidence DEF Delivery, Sized
<1>5. Elems(feed') = Elems(feed) \cup {m}
  BY <1>2, <1>3, ElemsAppend
<1>6. /\ Holds(feed', Accepts(o)) /\ ~Holds(feed', Deals(o))
  BY <1>2, <1>3, <1>4, HoldsAppend
<1>7. Sized(o)'
  BY <1>2, <1>4 DEF Sized
<1>8. Agreed(o)'
  BY <1>2, <1>3, <1>5 DEF Delivery, Agreed
<1>9. Opened(o)'
  BY <1>2 DEF Delivery, Opened, SubmitEvs
<1>10. Ordered(o)'
  <2>1. ~Holds(feed, Deals(o) \cup Cancels(o))
    BY <1>4 DEF Holds
  <2>2. Before(feed', Accepts(o), Deals(o) \cup Cancels(o)) /\ Before(feed', Deals(o), Cancels(o))
    BY <1>2, <1>3, <2>1, BeforeAppend DEF Delivery, Ordered
  <2>3. QED
    BY <1>2, <2>2 DEF Delivery, Ordered
<1>11. Unheard(o)' /\ NothingLate(o)' /\ Attributed(o)'
  BY <1>2, <1>4, <1>6 DEF Unheard, NothingLate, Attributed
<1>12. Full(o)'
  BY <1>2 DEF Delivery, Full
<1>13. Delivered(o)'
  <2>1. 1 .. traded'[o] = {}
    BY <1>2, <1>4
  <2>2. QED
    BY <2>1 DEF Delivered
<1>14. QED
  BY <1>7, <1>8, <1>9, <1>10, <1>11, <1>12, <1>13 DEF Delivery

\* The exchange executes one more share, which the mapping, or the New event
\* in front of its message, will attribute.
LEMMA DealKeeps ==
  ASSUME Proved, TypeOK', Calm, NEW o \in Orders, ~WrittenOff(o), Delivery(o), VenueDeal(o)
  PROVE  Delivery(o)'
<1>0. traded[o] \in Nat /\ size[o] \in Nat /\ o \in Trades
  BY DEF Proved, TypeOK, Trades
<1>1. Msg("Deal", o, TRUE, traded[o] + 1) \in Message
  BY <1>0 DEF Msg, Message, Ops
<1>2. PICK m \in Message : m = Msg("Deal", o, TRUE, traded[o] + 1)
  BY <1>1
<1>3. /\ venue[o] = "working" /\ feed' = Append(feed, m) /\ traded'[o] = traded[o] + 1
      /\ venue'[o] = IF traded[o] + 1 = size[o] THEN "filled" ELSE "working"
      /\ UNCHANGED <<status, fills, qty, map, events, size>>
  BY <1>0, <1>2 DEF VenueDeal, Emit, Calm, clientVars, ledgerVars, Proved, TypeOK
<1>4. /\ feed \in Seq(Message) /\ m \in Deals(o)
      /\ m \notin Accepts(o) /\ m \notin Cancels(o)
      /\ m.op = "Deal" /\ m.trade = o /\ m.n = traded[o] + 1
  BY <1>0, <1>2 DEF Proved, TypeOK, Msg, Accepts, Deals, Cancels
<1>5. /\ ~Holds(feed, Cancels(o)) /\ ~Holds(events, CancelEvs(o)) /\ status[o] # "CANCELED"
  BY <1>3, Evidence DEF Delivery
<1>6. Elems(feed') = Elems(feed) \cup {m}
  BY <1>3, <1>4, ElemsAppend
<1>7. Holds(feed', Accepts(o)) <=> Holds(feed, Accepts(o))
  BY <1>3, <1>4, HoldsAppend
<1>8. Sized(o)'
  BY <1>0, <1>3 DEF Delivery, Sized
<1>9. Agreed(o)'
  BY <1>3, <1>4, <1>6 DEF Delivery, Agreed
<1>10. Opened(o)'
  BY <1>3 DEF Delivery, Opened, SubmitEvs
<1>11. Ordered(o)'
  <2>1. Before(feed', Accepts(o), Deals(o) \cup Cancels(o)) /\ Before(feed', Deals(o), Cancels(o))
    BY <1>3, <1>4, <1>5, BeforeAppend DEF Delivery, Ordered
  <2>2. QED
    BY <1>3, <2>1 DEF Delivery, Ordered
<1>12. Unheard(o)' /\ NothingLate(o)'
  BY <1>3, <1>5, <1>7 DEF Delivery, Unheard, NothingLate
<1>13. Attributed(o)'
  BY <1>3, <1>7 DEF Delivery, Attributed
<1>14. Full(o)'
  BY <1>3 DEF Delivery, Full
<1>15. Delivered(o)'
  <2>1. SUFFICES ASSUME NEW n \in 1 .. traded[o] + 1
                 PROVE  OnWay(o, n)' \/ Told(o, n)'
    BY <1>3 DEF Delivered
  <2>2. CASE n = traded[o] + 1
    BY <1>4, <1>6, <2>2 DEF OnWay
  <2>3. CASE n # traded[o] + 1
    <3>1. n \in 1 .. traded[o]
      BY <1>0, <2>3
    <3>2. OnWay(o, n) \/ Told(o, n)
      BY <3>1 DEF Delivery, Delivered
    <3>3. QED
      BY <1>3, <1>6, <3>2 DEF OnWay, Told
  <2>4. QED
    BY <2>2, <2>3
<1>16. QED
  BY <1>8, <1>9, <1>10, <1>11, <1>12, <1>13, <1>14, <1>15 DEF Delivery

\* Whatever the exchange does, to this order or to another one.
LEMMA ExchangeKeeps ==
  ASSUME Proved, TypeOK', Calm, NEW t \in Trades, Exchange(t), NEW o \in Orders, ~WrittenOff(o), Delivery(o)
  PROVE  Delivery(o)'
<1>1. CASE t = o
  <2>1. CASE VenueDecides(o) /\ venue'[o] # "failed"
    BY <2>1, AcceptKeeps
  <2>2. CASE VenueDeal(o)
    BY <2>2, DealKeeps
  <2>3. CASE (VenueDecides(o) /\ venue'[o] = "failed") \/ VenueCancel(o)
    BY <1>1, <2>3, ExchangeQuiet, QuietKeeps DEF Proved
  <2>4. ~ForeignPlace(o)
    BY TokenAssumption DEF ForeignPlace
  <2>5. QED
    BY <1>1, <2>1, <2>2, <2>3, <2>4 DEF Exchange
<1>2. CASE t # o /\ (t \notin Orders \/ (VenueDecides(t) /\ venue'[t] = "failed") \/ VenueCancel(t))
  BY <1>2, ExchangeQuiet, QuietKeeps DEF Proved
<1>3. ASSUME t # o, t \in Orders, NEW m \in Message, m.trade = t, m.op # "Reconnected",
             feed' = Append(feed, m), VenueDecides(t) \/ VenueDeal(t)
      PROVE  Delivery(o)'
  <2>1. /\ UNCHANGED <<status, fills, qty, map, events, size>>
        /\ venue'[o] = venue[o] /\ traded'[o] = traded[o] /\ feed' = Append(feed, m)
    <3>1. CASE VenueDecides(t)
      BY <1>3, <3>1 DEF VenueDecides, clientVars, ledgerVars, Proved, TypeOK, Trades
    <3>2. CASE VenueDeal(t)
      BY <1>3, <3>2 DEF VenueDeal, clientVars, ledgerVars, Proved, TypeOK, Trades
    <3>3. QED
      BY <1>3, <3>1, <3>2
  <2>2. feed \in Seq(Message) /\ m \notin Accepts(o) \cup Deals(o) \cup Cancels(o) /\ m.trade # o
    BY <1>3 DEF Accepts, Deals, Cancels, Proved, TypeOK
  <2>3. /\ Elems(feed') = Elems(feed) \cup {m}
        /\ Holds(feed', Accepts(o)) <=> Holds(feed, Accepts(o))
        /\ Holds(feed', Deals(o)) <=> Holds(feed, Deals(o))
    BY <2>1, <2>2, ElemsAppend, HoldsAppend
  <2>4. Sized(o)' /\ Opened(o)' /\ Full(o)'
    BY <2>1 DEF Delivery, Sized, Opened, Full
  <2>5. Agreed(o)'
    BY <2>1, <2>2, <2>3 DEF Delivery, Agreed
  <2>6. Ordered(o)'
    <3>1. Before(feed', Accepts(o), Deals(o) \cup Cancels(o)) /\ Before(feed', Deals(o), Cancels(o))
      BY <2>1, <2>2, BeforeAppend DEF Delivery, Ordered
    <3>2. QED
      BY <2>1, <3>1 DEF Delivery, Ordered
  <2>7. Unheard(o)' /\ NothingLate(o)'
    BY <2>1, <2>3 DEF Delivery, Unheard, NothingLate
  <2>8. \A k : (Told(o, k) <=> Told(o, k)') /\ (OnWay(o, k) => OnWay(o, k)')
    BY <2>1, <2>3 DEF Told, OnWay
  <2>9. Attributed(o)' /\ Delivered(o)'
    BY <2>1, <2>3, <2>8 DEF Delivery, Attributed, Delivered, Missing
  <2>10. QED
    BY <2>4, <2>5, <2>6, <2>7, <2>9 DEF Delivery
<1>4. CASE t # o /\ t \in Orders /\ VenueDecides(t) /\ venue'[t] # "failed"
  <2>0. Msg("New", t, TRUE, 0) \in Message
    BY DEF Msg, Message, Ops
  <2>1. PICK m \in Message : m = Msg("New", t, TRUE, 0)
    BY <2>0
  <2>2. feed' = Append(feed, m)
    BY <1>4, <2>1 DEF VenueDecides, Emit, Calm, Proved, TypeOK
  <2>3. QED
    BY <1>3, <1>4, <2>1, <2>2 DEF Msg
<1>5. CASE t # o /\ t \in Orders /\ VenueDeal(t)
  <2>0. Msg("Deal", t, TRUE, traded[t] + 1) \in Message
    <3>1. traded[t] + 1 \in Nat
      <4>1. traded \in [Trades -> Nat]
        BY DEF Proved, TypeOK
      <4>2. QED
        BY <4>1
    <3>2. QED
      BY <3>1 DEF Msg, Message, Ops
  <2>1. PICK m \in Message : m = Msg("Deal", t, TRUE, traded[t] + 1)
    BY <2>0
  <2>2. feed' = Append(feed, m)
    BY <1>5, <2>1 DEF VenueDeal, Emit, Calm
  <2>3. QED
    BY <1>3, <1>5, <2>1, <2>2 DEF Msg
<1>6. ~(ForeignPlace(t) /\ t \in Orders)
  BY TokenAssumption DEF ForeignPlace
<1>7. QED
  BY <1>1, <1>2, <1>4, <1>5, <1>6 DEF Exchange

-----------------------------------------------------------------------------
(* The engine *)

\* A fill the engine applies was executed, and its order can take it or has it.
LEMMA FillTaken ==
  ASSUME Proved, Calm, EngineFill, NEW o \in Orders, ~WrittenOff(o), Delivery(o), Head(events).order = o
  PROVE  Head(events).id \in fills'[o]
<1> DEFINE e == Head(events)
<1>0. /\ events \in Seq(Event) /\ events # <<>> /\ e \in Elems(events) /\ e.type = "filled"
      /\ e \in Event
  <2>1. events \in Seq(Event) /\ events # <<>> /\ e.type = "filled"
    BY DEF Proved, TypeOK, EngineFill, NextEvent
  <2>2. e \in Elems(events)
    BY <2>1, ElemsTail
  <2>3. QED
    BY <2>1, <2>2
<1>1. e \in FillEvs(o) /\ Holds(events, FillEvs(o))
  BY <1>0 DEF FillEvs, Holds
<1>2. Executed(o, e.id)
  BY <1>0 DEF Proved, DealInv
<1>3. traded[o] >= 1 /\ traded[o] \in Nat
      /\ (status[o] = "REJECTED" => traded[o] = 0)
  BY <1>1, Evidence DEF Delivery
<1>4. status[o] # "INITIALIZED"
  <2>1. ~Holds(events, SubmitEvs(o))
    BY <1>0, <1>1, BeforeHead DEF Delivery, Ordered
  <2>2. venue[o] # "none"
    BY <1>3 DEF Delivery, Sized
  <2>3. QED
    BY <2>1, <2>2 DEF Delivery, Opened
<1>5. status[o] # "REJECTED" /\ status[o] # "CANCELED"
  BY <1>1, <1>3 DEF Delivery, NothingLate
<1>6. CASE status[o] = "FILLED" \/ e.id \in fills[o]
  <2>1. e.id \in fills[o]
    BY <1>2, <1>6, ClosedDone DEF Executed, Closed, ClosedStatuses
  <2>2. QED
    BY <2>1 DEF EngineFill, Proved, TypeOK
<1>7. CASE status[o] # "FILLED" /\ e.id \notin fills[o]
  <2>1. status[o] \in {"SUBMITTED", "ACCEPTED", "PARTIALLY_FILLED"}
    BY <1>4, <1>5, <1>7 DEF Proved, TypeOK, Statuses
  <2>2. <<status[o], "FILLED">> \in Legal /\ <<status[o], "PARTIALLY_FILLED">> \in Legal
    BY <2>1 DEF Legal
  <2>3. fills' = [fills EXCEPT ![o] = @ \cup {e.id}]
    BY <1>7, <2>2 DEF EngineFill
  <2>4. QED
    BY <2>3 DEF Proved, TypeOK
<1>8. QED
  BY <1>6, <1>7

\* What applying an event does to the status, the fills and the quantity.
LEMMA Applied ==
  ASSUME Proved, Calm, Engine, NEW o \in Orders, ~WrittenOff(o), Delivery(o)
  PROVE  LET e == Head(events)
         IN /\ e.order = o /\ e.type = "filled" => e.id \in fills'[o]
            /\ fills[o] \subseteq fills'[o]
            /\ fills'[o] # fills[o] => e.order = o /\ e.type = "filled"
            /\ status'[o] = "CANCELED" => status[o] = "CANCELED" \/ (e.order = o /\ e.type = "canceled")
            /\ status'[o] = "INITIALIZED" => /\ status[o] = "INITIALIZED"
                                             /\ ~(e.order = o /\ e.type = "submitted")
            /\ status'[o] = "FILLED" => Cardinality(fills'[o]) >= qty'[o]
            /\ qty'[o] = qty[o] \/ (e.order = o /\ e.type = "updated" /\ qty'[o] = e.n)
<1> DEFINE e == Head(events)
<1>0. /\ status \in [Orders -> Statuses] /\ qty \in [Orders -> Nat] /\ fills \in [Orders -> SUBSET TradeIds]
      /\ inferred[o] = 0 /\ IsFiniteSet(fills[o]) /\ Cardinality(fills[o]) \in Nat
      /\ status[o] = "FILLED" => Cardinality(fills[o]) >= qty[o]
  BY FS_CardinalityType DEF Proved, TypeOK, Calm, Delivery, Full
<1>1. e.order \in Orders
  BY HeadEvent, EventOrder DEF Engine, EngineMove, EngineFill, EngineUpdate, EngineNote, NextEvent, Proved
<1>2. CASE EngineMove
  <2>1. /\ e.type \in {"submitted", "accepted", "rejected", "canceled"} /\ UNCHANGED <<qty, fills>>
        /\ status' = IF <<status[e.order], TargetStatus[e.type]>> \in Legal
                     THEN [status EXCEPT ![e.order] = TargetStatus[e.type]] ELSE status
    BY <1>2 DEF EngineMove, NextEvent, TargetStatus
  <2>2. /\ status'[o] # status[o] => e.order = o /\ status'[o] = TargetStatus[e.type]
        /\ e.order = o /\ e.type = "submitted" /\ status[o] = "INITIALIZED" => status'[o] = "SUBMITTED"
    <3>1. status'[o] # status[o] => e.order = o /\ status'[o] = TargetStatus[e.type]
      BY <1>0, <1>1, <2>1
    <3>2. TargetStatus["submitted"] = "SUBMITTED" /\ <<"INITIALIZED", "SUBMITTED">> \in Legal
      BY DEF TargetStatus, Legal
    <3>3. QED
      BY <1>0, <1>1, <2>1, <3>1, <3>2
  <2>3. TargetStatus[e.type] \in {"SUBMITTED", "ACCEPTED", "REJECTED", "CANCELED"}
        /\ (TargetStatus[e.type] = "CANCELED" => e.type = "canceled")
    BY <2>1 DEF TargetStatus
  <2>4. QED
    BY <1>0, <2>1, <2>2, <2>3
<1>3. CASE EngineFill
  <2>0. e.type = "filled" /\ UNCHANGED qty
    BY <1>3 DEF EngineFill, NextEvent
  <2>1. CASE e.order # o
    <3>1. status'[o] = status[o] /\ fills'[o] = fills[o]
      BY <1>0, <1>1, <1>3, <2>1 DEF EngineFill
    <3>2. QED
      BY <1>0, <2>0, <2>1, <3>1
  <2>2. CASE e.order = o
    <3>1. e.id \in fills'[o]
      BY <1>3, <2>2, FillTaken
    <3>2. CASE UNCHANGED <<status, fills>>
      <4>1. status'[o] = status[o] /\ fills'[o] = fills[o] /\ qty'[o] = qty[o]
        BY <2>0, <3>2
      <4>2. status[o] = "INITIALIZED" => ~(e.order = o /\ e.type = "submitted")
        BY <2>0
      <4>3. QED
        BY <1>0, <2>2, <3>1, <4>1, <4>2
    <3>3. CASE ~UNCHANGED <<status, fills>>
      <4> DEFINE target == IF Filled(o) + 1 >= qty[o] THEN "FILLED" ELSE "PARTIALLY_FILLED"
      <4>1. e.id \notin fills[o] /\ status'[o] = target /\ fills'[o] = fills[o] \cup {e.id}
        BY <1>0, <1>3, <2>2, <3>3 DEF EngineFill
      <4>2. Cardinality(fills'[o]) = Cardinality(fills[o]) + 1
        <5>1. PICK id : id = e.id
          OBVIOUS
        <5>2. Cardinality(fills[o] \cup {id}) = Cardinality(fills[o]) + 1
          BY <1>0, <4>1, <5>1, FS_AddElement
        <5>3. QED
          BY <4>1, <5>1, <5>2
      <4>3. Filled(o) = Cardinality(fills[o])
        BY <1>0 DEF Filled
      <4>4. target = "FILLED" => Cardinality(fills'[o]) >= qty[o]
        BY <1>0, <4>2, <4>3
      <4>5. target # "CANCELED" /\ target # "INITIALIZED"
        OBVIOUS
      <4> HIDE DEF target
      <4>6. QED
        BY <2>0, <2>2, <4>1, <4>4, <4>5
    <3>4. QED
      BY <3>2, <3>3
  <2>3. QED
    BY <2>1, <2>2
<1>4. CASE EngineUpdate
  <2>1. /\ e.type = "updated" /\ UNCHANGED <<status, fills>>
        /\ qty' = IF status[e.order] \in {"ACCEPTED", "PARTIALLY_FILLED"}
                  THEN [qty EXCEPT ![e.order] = e.n] ELSE qty
    BY <1>4 DEF EngineUpdate, NextEvent
  <2>2. qty'[o] = qty[o] \/ (e.order = o /\ qty'[o] = e.n /\ status[o] # "FILLED")
    BY <1>0, <1>1, <2>1
  <2>3. QED
    BY <1>0, <2>1, <2>2
<1>5. CASE EngineNote
  <2>1. e.type \in {"cancel_rejected", "modify_rejected"} /\ UNCHANGED <<status, qty, fills>>
    BY <1>5 DEF EngineNote, NextEvent
  <2>2. QED
    BY <1>0, <2>1
<1>6. QED
  BY <1>2, <1>3, <1>4, <1>5 DEF Engine

\* The engine keeps the invariant of every order.
LEMMA EngineKeeps ==
  ASSUME Proved, TypeOK', Calm, Engine, NEW o \in Orders, ~WrittenOff(o), Delivery(o)
  PROVE  Delivery(o)'
<1> DEFINE e == Head(events)
<1>1. /\ events \in Seq(Event) /\ events # <<>> /\ events' = Tail(events)
      /\ UNCHANGED <<feed, venue, size, traded, map>>
  BY DEF Engine, EngineMove, EngineFill, EngineUpdate, EngineNote, NextEvent, clientVars, venueVars,
     Proved, TypeOK
<1>2. /\ e.order = o /\ e.type = "filled" => e.id \in fills'[o]
      /\ fills[o] \subseteq fills'[o]
      /\ fills'[o] # fills[o] => e.order = o /\ e.type = "filled"
      /\ status'[o] = "CANCELED" => status[o] = "CANCELED" \/ (e.order = o /\ e.type = "canceled")
      /\ status'[o] = "INITIALIZED" => status[o] = "INITIALIZED" /\ ~(e.order = o /\ e.type = "submitted")
      /\ status'[o] = "FILLED" => Cardinality(fills'[o]) >= qty'[o]
      /\ qty'[o] = qty[o] \/ (e.order = o /\ e.type = "updated" /\ qty'[o] = e.n)
  BY Applied
<1>3. /\ e \in Event /\ Elems(events) = {e} \cup Elems(events')
      /\ e \in FillEvs(o) <=> e.order = o /\ e.type = "filled"
      /\ e \in CancelEvs(o) <=> e.order = o /\ e.type = "canceled"
      /\ e \in SubmitEvs(o) <=> e.order = o /\ e.type = "submitted"
  BY <1>1, ElemsHeadTail DEF FillEvs, CancelEvs, SubmitEvs
<1> HIDE DEF e
<1>4. /\ Holds(events', FillEvs(o)) => Holds(events, FillEvs(o))
      /\ e \in FillEvs(o) => Holds(events, FillEvs(o))
      /\ Holds(events', CancelEvs(o)) => Holds(events, CancelEvs(o))
      /\ e \in CancelEvs(o) => Holds(events, CancelEvs(o))
      /\ Holds(events, SubmitEvs(o)) => e \in SubmitEvs(o) \/ Holds(events', SubmitEvs(o))
  BY <1>3 DEF Holds
<1>5. e \in CancelEvs(o) => ~Holds(events, FillEvs(o))
  BY <1>1, BeforeHead DEF Delivery, Ordered, e
<1>6. Sized(o)'
  BY <1>1 DEF Delivery, Sized
<1>7. Agreed(o)'
  BY <1>1, <1>2, <1>3 DEF Delivery, Agreed
<1>8. Opened(o)'
  BY <1>1, <1>2, <1>3, <1>4 DEF Delivery, Opened
<1>9. Ordered(o)'
  <2>1. Before(events', SubmitEvs(o), FillEvs(o)) /\ Before(events', FillEvs(o), CancelEvs(o))
    BY <1>1, BeforeTail DEF Delivery, Ordered
  <2>2. QED
    BY <1>1, <2>1 DEF Delivery, Ordered
<1>10. Unheard(o)'
  BY <1>1, <1>2, <1>3, <1>4 DEF Delivery, Unheard
<1>11. NothingLate(o)'
  BY <1>1, <1>2, <1>3, <1>4, <1>5 DEF Delivery, NothingLate
<1>12. \A n : Told(o, n) => Told(o, n)'
  BY <1>2, <1>3 DEF Told
<1>13. Attributed(o)'
  <2>1. Missing(o)' => Missing(o)
    BY <1>1, <1>12 DEF Missing
  <2>2. QED
    BY <1>1, <2>1 DEF Delivery, Attributed
<1>14. Full(o)'
  BY <1>2 DEF Full
<1>15. Delivered(o)'
  BY <1>1, <1>12 DEF Delivery, Delivered, OnWay
<1>16. QED
  BY <1>6, <1>7, <1>8, <1>9, <1>10, <1>11, <1>13, <1>14, <1>15 DEF Delivery

-----------------------------------------------------------------------------
(* The callback *)

\* An order the ledger has not closed is found by its token, and one whose
\* mapping is known keeps it.
LEMMA ResolveOwn ==
  ASSUME TypeOK, MapInv, NEW o \in Orders, map[o] = o \/ ~Closed(o)
  PROVE  Resolve(o, Token[o]) = o
<1>1. o \in Trades /\ o # None /\ Token[o] # NoToken
  BY TokenAssumption DEF Trades
<1>2. CASE map[o] # None
  BY <1>1, <1>2 DEF Resolve, MapInv, MapSound
<1>3. CASE map[o] = None
  <2>1. ~Closed(o)
    BY <1>1, <1>3
  <2>2. Candidates(Token[o]) = {o}
    BY <1>1, <2>1, TokenAssumption DEF Candidates
  <2>3. QED
    BY <1>1, <1>3, <2>2 DEF Resolve
<1>4. QED
  BY <1>2, <1>3

\* What a handler queues and remembers is about the trade of its message.
LEMMA Heard ==
  ASSUME TypeOK, MapInv, HandleNew \/ HandleCancel \/ HandleUpdate \/ HandleDeal
  PROVE  LET m == Head(feed)
             t == m.trade
         IN /\ feed # <<>> /\ feed' = Tail(feed) /\ m \in Message /\ t \in Trades
            /\ UNCHANGED <<status, fills, qty, venue, size, traded>>
            /\ \A u \in Trades : u # t => map'[u] = map[u]
            /\ \E es \in Seq(Event) :
                 /\ Generate(es)
                 /\ \A e \in Elems(es) :
                      /\ e.order = t /\ e.type # "submitted"
                      /\ e.type = "updated" => m.op = "Update" /\ m.ok /\ e.n = m.n
                      /\ e.type = "filled" => m.op = "Deal" /\ e.id = <<t, m.n>>
                      /\ e.type = "canceled" => m.op = "Cancel" /\ m.ok
                 /\ m.op = "Deal" /\ map[t] = t =>
                      \E e \in Elems(es) : e.type = "filled" /\ e.order = t /\ e.id = <<t, m.n>>
<1> DEFINE m == Head(feed)
           t == m.trade
<1>1. PICK op \in {"New", "Cancel", "Update", "Deal"} : NextMessage(op)
  BY DEF HandleNew, HandleCancel, HandleUpdate, HandleDeal
<1>2. /\ feed # <<>> /\ feed' = Tail(feed) /\ m \in Message /\ m.op = op
      /\ UNCHANGED <<status, fills, qty, venue, size, traded>>
  BY <1>1 DEF NextMessage, TypeOK, ledgerVars, venueVars
<1>3. t \in Trades /\ m.n \in Nat
  BY <1>2 DEF Message
<1>4. Addressee # None => Addressee = t /\ t \in Orders
  <2>1. Addressee # None => Addressee = t
    BY <1>1, AddresseeSound
  <2>2. Addressee \in Orders \cup {None}
    BY <1>3, ResolveType DEF Addressee
  <2>3. QED
    BY <2>1, <2>2
<1>5. \A u \in Trades : u # t => map'[u] = map[u]
  BY DEF HandleNew, HandleCancel, HandleUpdate, HandleDeal, Learnt, Backfilled, Popped, TypeOK
<1>6. /\ <<>> \in Seq(Event) /\ Elems(<<>>) = {}
      /\ \A x \in Event : <<x>> \in Seq(Event) /\ Elems(<<x>>) = {x}
  BY ElemsEmpty, ElemsOne
<1> DEFINE About(e) == /\ e.order = t /\ e.type # "submitted"
                       /\ e.type = "updated" => m.op = "Update" /\ m.ok /\ e.n = m.n
                       /\ e.type = "filled" => m.op = "Deal" /\ e.id = <<t, m.n>>
                       /\ e.type = "canceled" => m.op = "Cancel" /\ m.ok
           Goal == \E es \in Seq(Event) :
                     /\ Generate(es)
                     /\ \A e \in Elems(es) : About(e)
                     /\ m.op = "Deal" /\ map[t] = t =>
                          \E e \in Elems(es) : e.type = "filled" /\ e.order = t /\ e.id = <<t, m.n>>
<1>7. ASSUME Generate(<<>>), m.op = "Deal" => map[t] # t
      PROVE  Goal
  BY <1>6, <1>7
<1>8. ASSUME NEW x \in Event, Generate(<<x>>), About(x),
             m.op = "Deal" => x.type = "filled" /\ x.order = t /\ x.id = <<t, m.n>>
      PROVE  Goal
  BY <1>6, <1>8
<1>9. ASSUME HandleNew PROVE Goal
  <2>1. m.op = "New"
    BY <1>9 DEF HandleNew, NextMessage
  <2>2. CASE RejectsNew(m, Addressee)
    <3>1. Addressee = t /\ t \in Orders
      BY <1>4, <2>2 DEF RejectsNew
    <3>2. PICK x \in Event : x = Ev("rejected", t)
      BY <3>1, EvType DEF EventTypes
    <3>3. x.type = "rejected" /\ x.order = t
      BY <3>2, EvIsNoFill
    <3>4. Generate(<<x>>)
      BY <1>9, <2>2, <3>1, <3>2 DEF HandleNew, Generate
    <3>5. QED
      BY <1>8, <2>1, <3>3, <3>4
  <2>3. CASE ~RejectsNew(m, Addressee)
    <3>1. Generate(<<>>)
      BY <1>9, <2>3 DEF HandleNew, Generate
    <3>2. QED
      BY <1>7, <2>1, <3>1
  <2>4. QED
    BY <2>2, <2>3
<1>10. ASSUME HandleCancel PROVE Goal
  <2>1. m.op = "Cancel"
    BY <1>10 DEF HandleCancel, NextMessage
  <2>2. CASE Addressee # None
    <3>1. Addressee = t /\ t \in Orders
      BY <1>4, <2>2
    <3>2. PICK type \in {"canceled", "cancel_rejected"} :
            type = CancelEvent(m) /\ (type = "canceled" => m.ok)
      BY DEF CancelEvent
    <3>3. PICK x \in Event : x = Ev(type, t)
      BY <3>1, EvType DEF EventTypes
    <3>4. x.type = type /\ x.order = t
      BY <3>3, EvIsNoFill
    <3>5. Generate(<<x>>)
      BY <1>10, <2>2, <3>1, <3>2, <3>3 DEF HandleCancel, Generate
    <3>6. QED
      BY <1>8, <2>1, <3>2, <3>4, <3>5
  <2>3. CASE Addressee = None
    <3>1. Generate(<<>>)
      BY <1>10, <2>3 DEF HandleCancel, Generate
    <3>2. QED
      BY <1>7, <2>1, <3>1
  <2>4. QED
    BY <2>2, <2>3
<1>11. ASSUME HandleUpdate PROVE Goal
  <2>1. m.op = "Update"
    BY <1>11 DEF HandleUpdate, NextMessage
  <2>2. CASE Addressee # None
    <3>1. Addressee = t /\ t \in Orders
      BY <1>4, <2>2
    <3>2. CASE m.ok
      <4>1. PICK x \in Event : x = UpdateEv(t, m.n)
        BY <1>3, <3>1, EvType
      <4>2. x.type = "updated" /\ x.order = t /\ x.n = m.n
        BY <4>1 DEF UpdateEv
      <4>3. Generate(<<x>>)
        BY <1>11, <2>2, <3>1, <3>2, <4>1 DEF HandleUpdate, Generate
      <4>4. QED
        BY <1>8, <2>1, <3>2, <4>2, <4>3
    <3>3. CASE ~m.ok
      <4>1. PICK x \in Event : x = Ev("modify_rejected", t)
        BY <3>1, EvType DEF EventTypes
      <4>2. x.type = "modify_rejected" /\ x.order = t
        BY <4>1, EvIsNoFill
      <4>3. Generate(<<x>>)
        BY <1>11, <2>2, <3>1, <3>3, <4>1 DEF HandleUpdate, Generate
      <4>4. QED
        BY <1>8, <2>1, <4>2, <4>3
    <3>4. QED
      BY <3>2, <3>3
  <2>3. CASE Addressee = None
    <3>1. Generate(<<>>)
      BY <1>11, <2>3 DEF HandleUpdate, Generate
    <3>2. QED
      BY <1>7, <2>1, <3>1
  <2>4. QED
    BY <2>2, <2>3
<1>12. ASSUME HandleDeal PROVE Goal
  <2>1. m.op = "Deal"
    BY <1>12 DEF HandleDeal, NextMessage
  <2>2. Addressee = map[t]
    BY <2>1 DEF Addressee, TokenOf, Resolve
  <2>3. CASE Addressee # None
    <3>1. Addressee = t /\ t \in Orders
      BY <1>4, <2>3
    <3>2. PICK x \in Event : x = FillEv(t, <<t, m.n>>)
      BY <1>3, <3>1, EvType DEF TradeIds
    <3>3. x.type = "filled" /\ x.order = t /\ x.id = <<t, m.n>>
      BY <3>2, EvIsNoFill
    <3>4. Generate(<<x>>)
      BY <1>12, <2>3, <3>1, <3>2 DEF HandleDeal, Generate, DealId
    <3>5. QED
      BY <1>8, <2>1, <3>3, <3>4
  <2>4. CASE Addressee = None
    <3>1. Generate(<<>>)
      BY <1>12, <2>4 DEF HandleDeal, Generate
    <3>2. map[t] # t
      BY <1>3, <2>2, <2>4, TokenAssumption
    <3>3. QED
      BY <1>7, <3>1, <3>2
  <2>5. QED
    BY <2>3, <2>4
<1>13. Goal
  BY <1>9, <1>10, <1>11, <1>12
<1>14. QED
  BY <1>2, <1>3, <1>5, <1>13

\* A handler that took a message off the feed keeps the invariant of an order
\* if what it queues and remembers does.
LEMMA HearKeeps ==
  ASSUME Proved, TypeOK', NEW o \in Orders, ~WrittenOff(o), Delivery(o),
         feed # <<>>, feed' = Tail(feed), UNCHANGED <<status, fills, qty, venue, size, traded>>,
         NEW es \in Seq(Event), Generate(es),
         \A e \in Elems(es) : e.order = o =>
           e.type # "submitted" /\ (e.type = "updated" => e.n >= size[o]),
         Holds(es, FillEvs(o)) => /\ ~Holds(events, CancelEvs(o)) /\ ~Holds(es, CancelEvs(o))
                                /\ ~Holds(feed', Accepts(o)) /\ status[o] # "CANCELED",
         Holds(es, CancelEvs(o)) => ~Holds(feed', Deals(o)) /\ ~Holds(feed', Accepts(o)),
         \A n : Head(feed) \in Deals(o) /\ Head(feed).n = n => Told(o, n)',
         venue[o] = "working" \/ Missing(o)' => Holds(feed', Accepts(o)) \/ map'[o] = o
  PROVE  Delivery(o)'
<1>1. /\ feed \in Seq(Message) /\ events \in Seq(Event) /\ events' = events \o es
      /\ Elems(feed) = {Head(feed)} \cup Elems(feed') /\ Elems(events') = Elems(events) \cup Elems(es)
  BY ElemsHeadTail, ElemsConcat DEF Proved, TypeOK, Generate
<1>2. ~Holds(es, SubmitEvs(o))
  BY DEF Holds, SubmitEvs
<1>3. /\ Holds(feed', Accepts(o)) => Holds(feed, Accepts(o))
      /\ Holds(feed', Deals(o)) => Holds(feed, Deals(o))
      /\ Holds(events, SubmitEvs(o)) => Holds(events', SubmitEvs(o))
      /\ Holds(events', FillEvs(o)) <=> Holds(events, FillEvs(o)) \/ Holds(es, FillEvs(o))
      /\ Holds(events', CancelEvs(o)) <=> Holds(events, CancelEvs(o)) \/ Holds(es, CancelEvs(o))
  BY <1>1 DEF Holds
<1>4. Sized(o)' /\ Full(o)'
  BY DEF Delivery, Sized, Full
<1>5. Agreed(o)'
  BY <1>1 DEF Delivery, Agreed
<1>6. Opened(o)'
  BY <1>3 DEF Delivery, Opened
<1>7. Ordered(o)'
  <2>1. Before(feed', Accepts(o), Deals(o) \cup Cancels(o)) /\ Before(feed', Deals(o), Cancels(o))
    BY <1>1, BeforeTail DEF Delivery, Ordered
  <2>2. Before(events', SubmitEvs(o), FillEvs(o)) /\ Before(events', FillEvs(o), CancelEvs(o))
    BY <1>1, <1>2, BeforeConcat DEF Delivery, Ordered
  <2>3. QED
    BY <2>1, <2>2 DEF Ordered
<1>8. Unheard(o)'
  BY <1>3 DEF Delivery, Unheard
<1>9. NothingLate(o)'
  BY <1>3 DEF Delivery, NothingLate
<1>10. Attributed(o)'
  BY DEF Attributed
<1>11. Delivered(o)'
  <2>1. SUFFICES ASSUME NEW n \in 1 .. traded[o]
                 PROVE  OnWay(o, n)' \/ Told(o, n)'
    BY DEF Delivered
  <2>2. CASE Told(o, n)
    BY <1>1, <2>2 DEF Told
  <2>3. CASE OnWay(o, n)
    <3>1. PICK m \in Elems(feed) : m.op = "Deal" /\ m.trade = o /\ m.n = n
      BY <2>3 DEF OnWay
    <3>2. CASE m \in Elems(feed')
      BY <3>1, <3>2 DEF OnWay
    <3>3. CASE m = Head(feed)
      <4>1. m \in Message
        BY <1>1 DEF Elems
      <4>2. m \in Deals(o)
        BY <3>1, <4>1 DEF Deals
      <4>3. QED
        BY <3>1, <3>3, <4>2
    <3>4. QED
      BY <1>1, <3>1, <3>2, <3>3
  <2>4. QED
    BY <2>2, <2>3 DEF Delivery, Delivered
<1>12. QED
  BY <1>4, <1>5, <1>6, <1>7, <1>8, <1>9, <1>10, <1>11 DEF Delivery

\* A message about another trade leaves an order as it is.
LEMMA HearOther ==
  ASSUME Proved, TypeOK', NEW o \in Orders, ~WrittenOff(o), Delivery(o), Head(feed).trade # o,
         HandleNew \/ HandleCancel \/ HandleUpdate \/ HandleDeal
  PROVE  Delivery(o)'
<1>0. /\ feed # <<>> /\ feed' = Tail(feed) /\ Head(feed) \in Message
      /\ UNCHANGED <<status, fills, qty, venue, size, traded>>
      /\ \A u \in Trades : u # Head(feed).trade => map'[u] = map[u]
      /\ \E es \in Seq(Event) : Generate(es) /\ \A e \in Elems(es) : e.order = Head(feed).trade
  BY Heard DEF Proved
<1>1. PICK es \in Seq(Event) : Generate(es) /\ \A e \in Elems(es) : e.order # o
  BY <1>0
<1>2. ~Holds(es, FillEvs(o)) /\ ~Holds(es, CancelEvs(o))
  BY <1>1 DEF Holds, FillEvs, CancelEvs
<1>3. Head(feed) \notin Deals(o) /\ Head(feed) \notin Accepts(o)
  BY DEF Deals, Accepts
<1>4. map'[o] = map[o]
  BY <1>0 DEF Trades
<1>5. Holds(feed, Accepts(o)) => Holds(feed', Accepts(o))
  BY <1>0, <1>3, HoldsTail DEF Proved, TypeOK
<1>6. Missing(o)' => Missing(o)
  <2>1. Elems(events) \subseteq Elems(events')
    BY <1>1, ElemsGenerate DEF Proved
  <2>2. QED
    BY <1>0, <2>1 DEF Missing, Told
<1>7. venue[o] = "working" \/ Missing(o)' => Holds(feed', Accepts(o)) \/ map'[o] = o
  BY <1>4, <1>5, <1>6 DEF Delivery, Attributed
<1>8. QED
  BY <1>0, <1>1, <1>2, <1>3, <1>7, HearKeeps

\* A message about the order itself.
LEMMA HearOwn ==
  ASSUME Proved, TypeOK', NEW o \in Orders, ~WrittenOff(o), Delivery(o), Head(feed).trade = o,
         HandleNew \/ HandleCancel \/ HandleUpdate \/ HandleDeal
  PROVE  Delivery(o)'
<1> DEFINE m == Head(feed)
<1>0. /\ feed # <<>> /\ feed' = Tail(feed) /\ m \in Message
      /\ UNCHANGED <<status, fills, qty, venue, size, traded>>
      /\ feed \in Seq(Message) /\ o \in Trades /\ m \in Elems(feed)
      /\ traded[o] \in Nat /\ map \in [Trades -> Orders \cup {None}]
  <2>1. /\ feed # <<>> /\ feed' = Tail(feed) /\ m \in Message
        /\ UNCHANGED <<status, fills, qty, venue, size, traded>>
    BY Heard DEF Proved
  <2>2. QED
    BY <2>1, HeadMessage DEF Proved, TypeOK, Trades
<1>1. PICK es \in Seq(Event) :
        /\ Generate(es)
        /\ \A e \in Elems(es) :
             /\ e.order = o /\ e.type # "submitted"
             /\ e.type = "updated" => m.op = "Update" /\ m.ok /\ e.n = m.n
             /\ e.type = "filled" => m.op = "Deal"
             /\ e.type = "canceled" => m.op = "Cancel" /\ m.ok
        /\ m.op = "Deal" /\ map[o] = o =>
             \E e \in Elems(es) : e.type = "filled" /\ e.order = o /\ e.id = <<o, m.n>>
  BY Heard DEF Proved
<1>2. \A e \in Elems(es) : e.type # "submitted" /\ (e.type = "updated" => e.n >= size[o])
  BY <1>0, <1>1 DEF Delivery, Agreed
<1>3. /\ Holds(es, FillEvs(o)) => m.op = "Deal"
      /\ Holds(es, CancelEvs(o)) => m.op = "Cancel" /\ m.ok
  BY <1>1 DEF Holds, FillEvs, CancelEvs
<1>4. Elems(events') = Elems(events) \cup Elems(es)
  BY <1>1, ElemsGenerate DEF Proved
<1>5. Missing(o)' => Missing(o)
  BY <1>0, <1>4 DEF Missing, Told
<1>6. /\ Holds(feed', Accepts(o)) => Holds(feed, Accepts(o))
      /\ Holds(feed', Deals(o)) => Holds(feed, Deals(o))
      /\ m \in Accepts(o) \/ (Holds(feed, Accepts(o)) => Holds(feed', Accepts(o)))
      /\ m \in Deals(o) => Holds(feed, Deals(o))
      /\ m \in Accepts(o) => Holds(feed, Accepts(o))
  BY <1>0, HoldsTail
<1>7. m \in Deals(o) \cup Cancels(o) => ~Holds(feed, Accepts(o))
  BY <1>0, BeforeHead DEF Delivery, Ordered
<1>8. m \in Cancels(o) => ~Holds(feed, Deals(o))
  BY <1>0, BeforeHead DEF Delivery, Ordered
<1>9. /\ m \in Deals(o) <=> m.op = "Deal"
      /\ m \in Cancels(o) <=> m.op = "Cancel" /\ m.ok
      /\ m \in Accepts(o) <=> m.op = "New" /\ m.ok
  BY <1>0 DEF Deals, Cancels, Accepts
<1>10. Holds(es, FillEvs(o)) => /\ ~Holds(events, CancelEvs(o)) /\ ~Holds(es, CancelEvs(o))
                              /\ ~Holds(feed', Accepts(o)) /\ status[o] # "CANCELED"
  BY <1>3, <1>6, <1>7, <1>9 DEF Delivery, NothingLate
<1>11. Holds(es, CancelEvs(o)) => ~Holds(feed', Deals(o)) /\ ~Holds(feed', Accepts(o))
  BY <1>3, <1>6, <1>7, <1>8, <1>9
<1>12. ASSUME NEW n, m \in Deals(o), m.n = n
       PROVE  Told(o, n)'
  <2>1. n \in 1 .. traded[o]
    BY <1>0, <1>9, <1>12 DEF Proved, DealInv
  <2>2. CASE Told(o, n)
    BY <1>0, <1>4, <2>2 DEF Told
  <2>3. CASE ~Told(o, n)
    <3>1. map[o] = o
      BY <1>7, <1>12, <2>1, <2>3 DEF Delivery, Attributed, Missing
    <3>2. QED
      BY <1>1, <1>4, <1>9, <1>12, <3>1 DEF Told
  <2>4. QED
    BY <2>2, <2>3
<1>13. venue[o] = "working" \/ Missing(o)' => Holds(feed', Accepts(o)) \/ map'[o] = o
  <2>1. CASE m.op = "New" /\ m.ok
    <3>1. /\ venue[o] \in {"working", "filled", "cancelled"} /\ fills[o] = {} /\ status[o] # "CANCELED"
      BY <1>6, <1>9, <2>1 DEF Delivery, Unheard
    <3>2. ~Closed(o)
      <4>1. status[o] # "REJECTED"
        BY <3>1, Evidence DEF Delivery
      <4>2. status[o] # "FILLED"
        <5>1. Cardinality(fills[o]) = 0
          BY <3>1, FS_EmptySet
        <5>2. qty[o] >= 1
          BY Evidence DEF Delivery, Agreed, Sized
        <5>3. QED
          BY <5>1, <5>2, Evidence DEF Delivery, Full
      <4>3. QED
        BY <3>1, <4>1, <4>2 DEF Closed, ClosedStatuses
    <3>3. HandleNew /\ ~RejectsNew(m, Addressee)
      BY <2>1 DEF HandleNew, HandleCancel, HandleUpdate, HandleDeal, NextMessage, RejectsNew
    <3>4. map' = [map EXCEPT ![o] = Resolve(o, Token[o])]
      BY <2>1, <3>3 DEF HandleNew, Learnt, Backfilled, TokenOf
    <3>5. QED
      BY <1>0, <3>2, <3>4, ResolveOwn DEF Proved
  <2>2. CASE m.op = "New" /\ ~m.ok
    <3>1. venue[o] = "failed"
      BY <1>0, <2>2 DEF Proved, RejInv, Refusal
    <3>2. 1 .. traded[o] = {}
      BY <3>1 DEF Delivery, Sized
    <3>3. QED
      BY <1>0, <3>1, <3>2 DEF Missing
  <2>3. CASE m.op = "Cancel" /\ m.ok
    <3>1. venue[o] = "cancelled"
      BY <1>0, <2>3 DEF Proved, CanInv, Cancellation, Gone
    <3>2. \A n : ~OnWay(o, n)
      <4>1. \A x \in Elems(feed) : x \in Message
        BY <1>0 DEF Elems
      <4>2. QED
        BY <1>8, <1>9, <2>3, <4>1 DEF OnWay, Holds, Deals
    <3>3. ~Missing(o)
      BY <3>2 DEF Delivery, Delivered, Missing
    <3>4. QED
      BY <1>5, <3>1, <3>3
  <2>4. ASSUME m.op = "Deal" \/ (m.op = "Cancel" /\ ~m.ok) \/ m.op = "Update", map[o] = o
        PROVE  map'[o] = o
    <3>1. map[o] # None
      BY <2>4, TokenAssumption DEF Trades
    <3>2. \A tok : Resolve(o, tok) = o
      BY <2>4, <3>1 DEF Resolve
    <3>3. map' = [map EXCEPT ![o] = Resolve(o, TokenOf(m))]
      BY <2>4 DEF HandleNew, HandleCancel, HandleUpdate, HandleDeal, NextMessage, Learnt, Backfilled
    <3>4. QED
      BY <1>0, <3>2, <3>3
  <2>5. CASE m.op = "Deal" \/ (m.op = "Cancel" /\ ~m.ok) \/ m.op = "Update"
    BY <1>5, <1>6, <1>9, <2>4, <2>5 DEF Delivery, Attributed
  <2>6. m.op \in {"New", "Deal", "Cancel", "Update"}
    BY DEF HandleNew, HandleCancel, HandleUpdate, HandleDeal, NextMessage
  <2>7. QED
    BY <2>1, <2>2, <2>3, <2>5, <2>6
<1>14. QED
  BY <1>0, <1>1, <1>2, <1>10, <1>11, <1>12, <1>13, HearKeeps

\* Reading the order again drops the mapping of an order that is done.
LEMMA RecheckKeeps ==
  ASSUME Proved, TypeOK', NEW o \in Orders, ~WrittenOff(o), Delivery(o), RecheckDeal
  PROVE  Delivery(o)'
<1>1. UNCHANGED <<status, fills, qty, venue, size, traded, events, feed>>
  BY DEF RecheckDeal, ledgerVars, venueVars
<1>2. /\ Sized(o)' /\ Agreed(o)' /\ Opened(o)' /\ Ordered(o)' /\ Unheard(o)' /\ NothingLate(o)'
      /\ Full(o)' /\ Delivered(o)'
  BY <1>1 DEF Delivery, Sized, Agreed, Opened, Ordered, Unheard, NothingLate, Full, Delivered, OnWay, Told
<1>3. Missing(o)' <=> Missing(o)
  BY <1>1 DEF Missing, Told
<1>4. map'[o] = map[o] \/ (map[o] = o /\ Closed(o))
  BY DEF RecheckDeal, MappingDone, Popped, Proved, TypeOK, Trades, MapInv, MapSound
<1>5. Attributed(o)'
  BY <1>1, <1>3, <1>4, ClosedDone DEF Delivery, Attributed
<1>6. QED
  BY <1>2, <1>5 DEF Delivery

\* The callback keeps the invariant of every order.
LEMMA CallbackKeeps ==
  ASSUME Proved, TypeOK', Calm, Callback, NEW o \in Orders, ~WrittenOff(o), Delivery(o)
  PROVE  Delivery(o)'
<1>1. ~HandleReconnected
  BY HeadMessage DEF HandleReconnected, NextMessage, Calm, Proved
<1>2. QED
  BY <1>1, HearOther, HearOwn, RecheckKeeps DEF Callback

-----------------------------------------------------------------------------
(* While there is no gap, nothing reconnects and nothing reconciles. *)

\* Only a reconnection sends the sentinel, only the sentinel or a restart
\* starts a reconciliation, and only a reconciliation infers shares.
LEMMA CalmQuiet ==
  ASSUME TypeOK, Calm, QuietStep
  PROVE  Calm'
<1>1. CASE UNCHANGED feed
  BY <1>1 DEF QuietStep, Calm
<1>2. ASSUME NEW m \in Message, Emit(m), m.op # "Reconnected"
      PROVE  Calm'
  <2>1. Elems(feed') = Elems(feed) \cup {m}
    BY <1>2, ElemsAppend DEF Emit, Calm, TypeOK
  <2>2. QED
    BY <1>2, <2>1 DEF QuietStep, Calm
<1>3. QED
  BY <1>1, <1>2 DEF QuietStep, QuietFeed

LEMMA CalmExchange ==
  ASSUME TypeOK, Calm, NEW t \in Trades, Exchange(t)
  PROVE  Calm'
<1>1. UNCHANGED <<recon, link, inferred>>
  BY DEF Exchange, ForeignPlace, VenueDecides, VenueDeal, VenueCancel, clientVars, reconVars, ledgerVars
<1>2. \A m \in Elems(feed') : m.op # "Reconnected"
  <2>1. ASSUME NEW op \in {"New", "Deal", "Cancel"}, NEW ok \in BOOLEAN, NEW n \in Nat, Emit(Msg(op, t, ok, n))
        PROVE  \A m \in Elems(feed') : m.op # "Reconnected"
    <3>1. PICK x : x = Msg(op, t, ok, n)
      OBVIOUS
    <3>2. Elems(feed') \subseteq Elems(feed) \cup {x} /\ x.op = op
      BY <2>1, <3>1, ElemsEmit DEF Ops, Msg
    <3>3. QED
      BY <3>2 DEF Calm
  <2>2. CASE ForeignPlace(t)
    BY <2>2 DEF ForeignPlace, Calm
  <2>3. CASE VenueDecides(t)
    BY <2>1, <2>3 DEF VenueDecides
  <2>4. CASE VenueDeal(t)
    <3>1. traded[t] + 1 \in Nat
      BY DEF TypeOK
    <3>2. Emit(Msg("Deal", t, TRUE, traded[t] + 1))
      BY <2>4 DEF VenueDeal
    <3>3. QED
      BY <2>1, <3>1, <3>2
  <2>5. CASE VenueCancel(t)
    BY <2>1, <2>5 DEF VenueCancel
  <2>6. QED
    BY <2>2, <2>3, <2>4, <2>5 DEF Exchange
<1>3. QED
  BY <1>1, <1>2 DEF Calm

LEMMA CalmEngineCallback ==
  ASSUME TypeOK, Calm, Engine \/ Callback
  PROVE  Calm'
<1>1. ~HandleReconnected
  BY HeadMessage DEF HandleReconnected, NextMessage, Calm
<1>2. UNCHANGED <<recon, link, inferred>>
  BY <1>1 DEF Engine, EngineMove, EngineFill, EngineUpdate, EngineNote, NextEvent, clientVars,
     Callback, HandleNew, HandleCancel, HandleUpdate, HandleDeal, RecheckDeal, NextMessage, ledgerVars,
     reconVars
<1>3. Elems(feed') \subseteq Elems(feed)
  <2>1. CASE Engine
    BY <2>1 DEF Engine, EngineMove, EngineFill, EngineUpdate, EngineNote, NextEvent
  <2>2. CASE Callback
    BY <2>2, CallbackEvents
  <2>3. QED
    BY <2>1, <2>2
<1>4. QED
  BY <1>2, <1>3 DEF Calm

\* A drop or a restart opens a gap for good; what repairs one needs one.
LEMMA GapStep ==
  ASSUME TypeOK, Calm,
         DropLink \/ Reconnect \/ Restart \/ StartUp \/ \E i \in Slots : Reconcile(i)
  PROVE  ~NoGap'
<1>1. ~Reconnect /\ ~StartUp /\ ~\E i \in Slots : Reconcile(i)
  BY DEF Calm, Reconnect, StartUp, Reconcile, GatewayList, ReconReports, ReconSend
<1>2. CASE DropLink
  <2>1. used'["drops"] = used["drops"] + 1 /\ used["drops"] \in Nat
    BY <1>2 DEF DropLink, Spend, TypeOK, Counters
  <2>2. QED
    BY <2>1 DEF NoGap
<1>3. CASE Restart
  <2>1. used'["restarts"] = used["restarts"] + 1 /\ used["restarts"] \in Nat
    BY <1>3 DEF Restart, Spend, TypeOK, Counters
  <2>2. QED
    BY <2>1 DEF NoGap
<1>4. QED
  BY <1>1, <1>2, <1>3

\* No step closes a gap.
LEMMA GapStays ==
  ASSUME TypeOK, [Next]_vars, NoGap'
  PROVE  NoGap
<1>1. UNCHANGED used \/ \E k \in Counters : Spend(k)
  <2>1. CASE UNCHANGED vars
    BY <2>1 DEF vars
  <2>2. CASE Engine \/ Callback
    BY <2>2 DEF Engine, EngineMove, EngineFill, EngineUpdate, EngineNote, NextEvent, Callback,
       HandleNew, HandleCancel, HandleUpdate, HandleDeal, RecheckDeal, HandleReconnected, NextMessage
  <2>3. ASSUME NEW o \in Orders, Commands(o) \/ Replies(o) \/ CancelAllOrders
        PROVE  UNCHANGED used \/ \E k \in Counters : Spend(k)
    BY <2>3 DEF Commands, Replies, Submit, CancelOrder, SweepNext, ModifyOrder, PlaceReturns,
       ModifyReturns, CancelReturns, CancelAllOrders, Counters
  <2>4. CASE CancelAllOrders
    BY <2>4 DEF CancelAllOrders, Counters
  <2>5. ASSUME NEW o \in Orders, NEW c \in Callers,
               Gateway(o) \/ GatewayModify(o) \/ Faults(o) \/ GatewayCancel(c, o)
        PROVE  UNCHANGED used
    BY <2>5 DEF Gateway, GatewayModify, Faults, PlaceFault, CancelFault, ModifyFault, GatewayCancel
  <2>6. ASSUME NEW t \in Trades, Exchange(t)
        PROVE  UNCHANGED used
    BY <2>6 DEF Exchange, ForeignPlace, VenueDecides, VenueDeal, VenueCancel
  <2>7. CASE DropLink \/ Reconnect \/ Restart \/ StartUp
    BY <2>7 DEF DropLink, Reconnect, Restart, StartUp, Counters
  <2>8. ASSUME NEW i \in Slots, Reconcile(i)
        PROVE  UNCHANGED used
    BY <2>8 DEF Reconcile, GatewayList, ReconReports, ReconSend
  <2>9. QED
    BY <2>1, <2>2, <2>3, <2>4, <2>5, <2>6, <2>7, <2>8 DEF Next, Callers
<1>2. \A k \in Counters : used[k] \in Nat /\ (used'[k] = used[k] \/ used'[k] = used[k] + 1)
  BY <1>1 DEF Spend, TypeOK
<1>3. used["drops"] \in Nat /\ used["restarts"] \in Nat
  BY <1>2 DEF Counters
<1>4. /\ used'["drops"] = used["drops"] \/ used'["drops"] = used["drops"] + 1
      /\ used'["restarts"] = used["restarts"] \/ used'["restarts"] = used["restarts"] + 1
  BY <1>2 DEF Counters
<1>5. QED
  BY <1>3, <1>4 DEF NoGap

\* Outside the engine nothing touches the ledger before the first gap.
LEMMA LedgerStill ==
  ASSUME TypeOK, Calm, NoGap', [Next]_vars, ~Engine
  PROVE  UNCHANGED <<status, known, qty, fills>>
<1>1. ~(DropLink \/ Reconnect \/ Restart \/ StartUp \/ \E i \in Slots : Reconcile(i))
  BY GapStep
<1>2. CASE UNCHANGED vars \/ CancelAllOrders
  BY <1>2 DEF vars, ledgerVars, CancelAllOrders
<1>3. CASE Callback
  BY <1>3 DEF Callback, HandleNew, HandleCancel, HandleUpdate, HandleDeal, RecheckDeal,
     HandleReconnected, NextMessage, ledgerVars
<1>4. ASSUME NEW o \in Orders, Commands(o) \/ Replies(o)
      PROVE  UNCHANGED <<status, known, qty, fills>>
  BY <1>4 DEF Commands, Replies, Submit, CancelOrder, SweepNext, ModifyOrder, PlaceReturns,
     ModifyReturns, CancelReturns, ledgerVars
<1>5. ASSUME NEW o \in Orders, NEW c \in Callers,
             Gateway(o) \/ GatewayModify(o) \/ Faults(o) \/ GatewayCancel(c, o)
      PROVE  UNCHANGED <<status, known, qty, fills>>
  BY <1>5 DEF Gateway, GatewayModify, Faults, PlaceFault, CancelFault, ModifyFault, GatewayCancel, ledgerVars
<1>6. ASSUME NEW t \in Trades, Exchange(t)
      PROVE  UNCHANGED <<status, known, qty, fills>>
  BY <1>6 DEF Exchange, ForeignPlace, VenueDecides, VenueDeal, VenueCancel, ledgerVars
<1>7. QED
  BY <1>1, <1>2, <1>3, <1>4, <1>5, <1>6 DEF Next, Callers

\* What applying an event does to the status of an order.
LEMMA StatusMoves ==
  ASSUME TypeOK, NEW o \in Orders, Engine
  PROVE  LET e == Head(events)
         IN /\ status[o] = "REJECTED" => status'[o] = "REJECTED"
            /\ status[o] \notin {"INITIALIZED", "SUBMITTED"} => status'[o] \notin {"INITIALIZED", "SUBMITTED"}
            /\ e.type = "accepted" /\ e.order = o => status'[o] \notin {"INITIALIZED", "SUBMITTED"}
            /\ e.type = "rejected" /\ e.order = o /\ status[o] \in {"INITIALIZED", "SUBMITTED", "ACCEPTED"}
                 => status'[o] = "REJECTED"
<1> DEFINE e == Head(events)
<1>0. events # <<>>
  BY EngineTakes
<1>1. e \in Event /\ e.order \in Orders
  BY <1>0, FirstEvent
<1>2. status \in [Orders -> Statuses]
  BY DEF TypeOK
<1> HIDE DEF e
<1>3. CASE EngineMove
  <2> DEFINE moved == <<status[e.order], TargetStatus[e.type]>> \in Legal
  <2>1. /\ e.type \in {"submitted", "accepted", "rejected", "canceled"}
        /\ status' = IF moved THEN [status EXCEPT ![e.order] = TargetStatus[e.type]] ELSE status
    BY <1>3 DEF EngineMove, NextEvent, TargetStatus, e
  <2>2. PICK s \in {"SUBMITTED", "ACCEPTED", "REJECTED", "CANCELED"} :
          /\ s = TargetStatus[e.type]
          /\ e.type = "accepted" => s = "ACCEPTED"
          /\ e.type = "rejected" => s = "REJECTED"
    BY <2>1 DEF TargetStatus
  <2>3. CASE e.order # o
    <3>1. status'[o] = status[o]
      BY <1>1, <1>2, <2>1, <2>3
    <3>2. QED
      BY <2>3, <3>1 DEF e
  <2>4. CASE e.order = o
    <3>1. status'[o] = IF <<status[o], s>> \in Legal THEN s ELSE status[o]
      BY <1>1, <1>2, <2>1, <2>2, <2>4
    <3>2. status[o] \in Statuses
      BY <1>2
    <3>3. status[o] = "REJECTED" => status'[o] = "REJECTED"
      BY <3>1 DEF Legal
    <3>4. status[o] \notin {"INITIALIZED", "SUBMITTED"} => status'[o] \notin {"INITIALIZED", "SUBMITTED"}
      BY <3>1 DEF Legal
    <3>5. s = "ACCEPTED" => status'[o] \notin {"INITIALIZED", "SUBMITTED"}
      BY <3>1 DEF Legal
    <3>6. s = "REJECTED" /\ status[o] \in {"INITIALIZED", "SUBMITTED", "ACCEPTED"} => status'[o] = "REJECTED"
      BY <3>1 DEF Legal
    <3>7. QED
      BY <2>2, <3>3, <3>4, <3>5, <3>6 DEF e
  <2>5. QED
    BY <2>3, <2>4
<1>4. CASE EngineFill
  <2>1. e.type = "filled"
    BY <1>4 DEF EngineFill, NextEvent, e
  <2>2. \/ status'[o] = status[o]
        \/ \E s \in {"FILLED", "PARTIALLY_FILLED"} : <<status[o], s>> \in Legal /\ status'[o] = s
    <3> DEFINE p      == e.order
               target == IF Filled(p) + 1 >= qty[p] THEN "FILLED" ELSE "PARTIALLY_FILLED"
               moved  == <<status[p], target>> \in Legal /\ e.id \notin fills[p]
    <3>1. status' = IF moved THEN [status EXCEPT ![p] = target] ELSE status
      BY <1>4 DEF EngineFill, e
    <3>2. target \in {"FILLED", "PARTIALLY_FILLED"}
      OBVIOUS
    <3> HIDE DEF target
    <3>3. QED
      BY <1>1, <1>2, <3>1, <3>2
  <2>3. QED
    BY <2>1, <2>2 DEF Legal, e
<1>5. CASE EngineUpdate \/ EngineNote
  <2>1. e.type \in {"updated", "cancel_rejected", "modify_rejected"} /\ UNCHANGED status
    BY <1>5 DEF EngineUpdate, EngineNote, NextEvent, e
  <2>2. QED
    BY <2>1 DEF e
<1>6. QED
  BY <1>3, <1>4, <1>5 DEF Engine, e

\* What the code wrote off stays so: REJECTED is final and a cut is history.
LEMMA WrittenOffStays ==
  ASSUME Proved, Calm, NoGap', [Next]_vars, NEW o \in Orders, WrittenOff(o)
  PROVE  WrittenOff(o)'
<1>1. Cut(o)'
  BY EveryRej DEF Proved, RejStep, VenueStep, WrittenOff
<1>2. status'[o] = "REJECTED"
  BY StatusMoves, LedgerStill DEF Proved, WrittenOff
<1>3. QED
  BY <1>1, <1>2 DEF WrittenOff

\* Every step keeps the invariant, of all orders.
LEMMA NextDelivery ==
  ASSUME Proved, TypeOK', DeliveryInv, [Next]_vars
  PROVE  DeliveryInv'
<1> SUFFICES ASSUME NoGap'
             PROVE  Calm' /\ \A o \in Orders : WrittenOff(o)' \/ Delivery(o)'
  BY DEF DeliveryInv
<1>1. TypeOK /\ FreshInv
  BY DEF Proved
<1>2. NoGap /\ Calm /\ \A o \in Orders : WrittenOff(o) \/ Delivery(o)
  BY <1>1, GapStays DEF DeliveryInv
<1>3. CASE QuietStep
  <2>1. Calm'
    BY <1>1, <1>2, <1>3, CalmQuiet
  <2>2. ASSUME NEW o \in Orders, ~WrittenOff(o)
        PROVE  Delivery(o)'
    BY <1>2, <1>3, <2>2, QuietKeeps
  <2>3. QED
    BY <1>2, <2>1, <2>2, WrittenOffStays
<1>4. CASE Engine \/ Callback
  <2>1. Calm'
    BY <1>1, <1>2, <1>4, CalmEngineCallback
  <2>2. ASSUME NEW o \in Orders, ~WrittenOff(o)
        PROVE  Delivery(o)'
    BY <1>2, <1>4, <2>2, EngineKeeps, CallbackKeeps
  <2>3. QED
    BY <1>2, <2>1, <2>2, WrittenOffStays
<1>5. CASE \E t \in Trades : Exchange(t)
  <2>1. Calm'
    BY <1>1, <1>2, <1>5, CalmExchange
  <2>2. ASSUME NEW o \in Orders, ~WrittenOff(o)
        PROVE  Delivery(o)'
    BY <1>2, <1>5, <2>2, ExchangeKeeps
  <2>3. QED
    BY <1>2, <2>1, <2>2, WrittenOffStays
<1>6. CASE DropLink \/ Reconnect \/ Restart \/ StartUp \/ \E i \in Slots : Reconcile(i)
  BY <1>1, <1>2, <1>6, GapStep
<1>7. CASE \/ UNCHANGED vars \/ CancelAllOrders
           \/ \E o \in Orders : Commands(o) \/ Replies(o) \/ Gateway(o) \/ GatewayModify(o) \/ Faults(o)
           \/ \E c \in Callers, o \in Orders : GatewayCancel(c, o)
  BY <1>1, <1>3, <1>7, IdleQuiet, SubmitQuiet, ReplyQuiet, GatewayQuiet, CancelQuiet
<1>8. QED
  BY <1>4, <1>5, <1>6, <1>7 DEF Next

\* It holds at the start.
LEMMA InitDelivery == Init => DeliveryInv
<1> SUFFICES ASSUME Init PROVE Calm /\ \A o \in Orders : Delivery(o)
  BY DEF DeliveryInv
<1>1. Elems(feed) = {} /\ Elems(events) = {} /\ Len(feed) = 0 /\ Len(events) = 0
  BY ElemsEmpty DEF Init
<1>2. Calm
  BY <1>1 DEF Init, Calm
<1>3. ASSUME NEW o \in Orders
      PROVE  Delivery(o)
  <2>1. /\ status[o] = "INITIALIZED" /\ qty[o] = Qty /\ o \in Trades /\ venue[o] = "none"
        /\ size[o] = Qty /\ traded[o] = 0
    BY DEF Init, Trades
  <2>2. Qty \in Nat /\ Qty >= 1
    BY ParameterAssumption
  <2>3. Sized(o) /\ Agreed(o) /\ Opened(o)
    BY <1>1, <2>1, <2>2 DEF Sized, Agreed, Opened
  <2>4. Ordered(o)
    BY <1>1 DEF Ordered, Before
  <2>5. Unheard(o) /\ NothingLate(o) /\ Full(o)
    BY <1>1, <2>1 DEF Unheard, NothingLate, Full, Holds
  <2>6. 1 .. traded[o] = {}
    BY <2>1
  <2>7. Attributed(o) /\ Delivered(o)
    BY <2>1, <2>6 DEF Attributed, Delivered, Missing
  <2>8. QED
    BY <2>3, <2>4, <2>5, <2>7 DEF Delivery
<1>4. QED
  BY <1>2, <1>3

\* It implies both properties.
LEMMA DeliveryNoDealLost == TypeOK /\ DeliveryInv => NoDealLost
<1> SUFFICES ASSUME TypeOK, DeliveryInv, NoGap, NEW o \in Orders, ~WrittenOff(o), NEW n \in 1 .. traded[o]
             PROVE  InFeed(o, n) \/ InEvents(o, n) \/ <<o, n>> \in fills[o]
  BY DEF NoDealLost
<1>1. OnWay(o, n) => InFeed(o, n)
  BY DEF OnWay, InFeed, Elems
<1>2. Told(o, n) => InEvents(o, n) \/ <<o, n>> \in fills[o]
  BY DEF Told, InEvents, Elems
<1>3. QED
  BY <1>1, <1>2 DEF DeliveryInv, Delivery, Delivered

LEMMA DeliverySettled == Proved /\ DeliveryInv => ClosedSettled
<1> SUFFICES ASSUME Proved, DeliveryInv, NoGap, NEW o \in Orders
             PROVE  /\ status[o] = "CANCELED" => venue[o] = "cancelled"
                    /\ status[o] = "FILLED" => venue[o] = "filled" /\ qty[o] = size[o]
                    /\ Closed(o) /\ ~WrittenOff(o) => \A n \in 1 .. traded[o] : <<o, n>> \in fills[o]
  BY DEF ClosedSettled
<1>1. WrittenOff(o) => status[o] = "REJECTED"
  BY DEF WrittenOff
<1>2. status[o] = "CANCELED" => venue[o] = "cancelled"
  BY DEF Proved, CanInv, Gone
<1>3. status[o] = "FILLED" => Closed(o)
  BY DEF Closed, ClosedStatuses
<1>4. ~WrittenOff(o) => Delivery(o)
  BY DEF DeliveryInv
<1>5. QED
  BY <1>1, <1>2, <1>3, <1>4, ClosedDone

\* It holds in every state, with what was proved before.
LEMMA DeliveryHolds == Spec => [](Proved /\ DeliveryInv)
<1>1. Init => Proved /\ DeliveryInv
  BY InitType, InitMap, InitFresh, InitDeals, InitRej, InitCan, InitDelivery DEF Proved
<1>2. Proved /\ DeliveryInv /\ [Next]_vars => (Proved /\ DeliveryInv)'
  <2> SUFFICES ASSUME Proved, DeliveryInv, [Next]_vars
               PROVE  Proved' /\ DeliveryInv'
    OBVIOUS
  <2>1. TypeOK'
    BY NextType DEF Proved
  <2>2. MapInv' /\ FreshInv'
    BY NextMap, NextFresh DEF Proved
  <2>3. DealInv' /\ RejInv' /\ CanInv'
    BY <2>1, NextDeals, NextDealInv, NextRej, NextCan DEF Proved
  <2>4. QED
    BY <2>1, <2>2, <2>3, NextDelivery DEF Proved
<1>3. QED
  BY <1>1, <1>2, PTL DEF Spec

\* While the connection holds, no deal of an order of ours is lost between the
\* exchange and the ledger, whatever the order of the place_order reply, the
\* New event, the deals, the cancel and the engine's queue
\* (_handle_deal_event), transport faults included, unless the code has written
\* the order off because its place_order was cut.
THEOREM DealsCorrect == Spec => []NoDealLost
<1>1. Proved /\ DeliveryInv => NoDealLost
  BY DeliveryNoDealLost DEF Proved
<1>2. QED
  BY <1>1, DeliveryHolds, PTL

\* While the connection holds, an order the ledger has closed is done at the
\* exchange, and none of its deals arrives later: _handle_order_event and the
\* answered requests close an order as filled or cancelled only on the
\* exchange's word, and reject one wrongly only if its place_order was cut.
THEOREM SettledCorrect == Spec => []ClosedSettled
<1>1. Proved /\ DeliveryInv => ClosedSettled
  BY DeliverySettled
<1>2. QED
  BY <1>1, DeliveryHolds, PTL

-----------------------------------------------------------------------------
(* Agreement: the messages and events about quantities and single shares.  *)

Updates(o)   == {m \in Message : m.op = "Update" /\ m.trade = o /\ m.ok}
UpdateEvs(o) == {e \in Event : e.type = "updated" /\ e.order = o}

\* New quantities on their way: those that say k, and those that do not.
Final(o, k)    == {m \in Updates(o) : m.n = k}
Stale(o, k)    == {m \in Updates(o) : m.n # k}
FinalEvs(o, k) == {e \in UpdateEvs(o) : e.n = k}
StaleEvs(o, k) == {e \in UpdateEvs(o) : e.n # k}

\* Share k of the order, on its way and in the queue.
Share(o, k)     == {m \in Deals(o) : m.n = k}
ShareFill(o, k) == {e \in FillEvs(o) : e.id = <<o, k>>}

-----------------------------------------------------------------------------
(* The invariant, on top of Delivery: what the ledger lacks is on its way.  *)

\* The status shows what the ledger knows of the order.
Shown(o) ==
  /\ known[o] => status[o] \notin {"INITIALIZED", "SUBMITTED"}
  /\ fills[o] # {} => status[o] \in {"PARTIALLY_FILLED", "FILLED", "CANCELED"}
  /\ status[o] = "PARTIALLY_FILLED" => fills[o] # {}

\* Only an order with a venue_order_id is ever changed, and only at work.
Asked(o) ==
  /\ modify[o] # "idle" => known[o]
  /\ Holds(feed, Updates(o)) \/ Holds(events, UpdateEvs(o)) =>
       known[o] /\ venue[o] \in {"working", "filled", "cancelled"}

\* A cancel is in the ledger or on its way.
EndHeard(o) ==
  venue[o] = "cancelled" =>
    status[o] = "CANCELED" \/ Holds(events, CancelEvs(o)) \/ Holds(feed, Cancels(o))

\* The exchange's quantity comes behind those it replaced ...
Shrinking(o) ==
  /\ Before(feed, Stale(o, size[o]), Final(o, size[o]))
  /\ Before(events, StaleEvs(o, size[o]), FinalEvs(o, size[o]))
  /\ Holds(feed, Stale(o, size[o])) => ~Holds(events, FinalEvs(o, size[o]))
  /\ qty[o] = size[o] => ~Holds(feed, Stale(o, size[o])) /\ ~Holds(events, StaleEvs(o, size[o]))

\* ... and is in the ledger or on its way, as long as the order is not closed.
SizeHeard(o) ==
  venue[o] \notin {"cancelled", "failed"} =>
    \/ qty[o] = size[o]
    \/ Holds(events, FinalEvs(o, size[o]))
    \/ Holds(feed, Final(o, size[o]))

\* The deal that fills the order comes behind every change of it.
LastComes(o) ==
  venue[o] = "filled" =>
    /\ Before(feed, Updates(o), Share(o, size[o]))
    /\ Before(events, UpdateEvs(o), ShareFill(o, size[o]))
    /\ Holds(feed, Updates(o)) => ~Holds(events, ShareFill(o, size[o]))
    /\ Holds(feed, Updates(o)) \/ Holds(events, UpdateEvs(o)) => <<o, size[o]>> \notin fills[o]

\* With the last deal in the ledger the order is FILLED.
FillHeard(o) ==
  venue[o] = "filled" /\ (\A n \in 1 .. traded[o] : <<o, n>> \in fills[o]) => status[o] = "FILLED"

-----------------------------------------------------------------------------
(* Steps outside the ledger: what one does to an order. *)

\* Nothing it queues is a fill, a cancel or a quantity of the order.
PlainEvents(o) ==
  \E es \in Seq(Event) :
    Generate(es) /\ \A e \in Elems(es) : e.order = o => e.type \notin {"filled", "canceled", "updated"}

\* The order neither trades nor ends nor changes, and nobody is told so.
Stands(o) ==
  /\ size'[o] = size[o] /\ traded'[o] = traded[o]
  /\ \/ venue'[o] = venue[o]
     \/ venue[o] \in {"none", "enroute", "pending"} /\ venue'[o] \notin {"filled", "cancelled"}
  /\ \/ feed' = feed
     \/ \E m \in Message : feed' = Append(feed, m) /\ m \notin Deals(o) \cup Cancels(o) \cup Updates(o)

Ends(o) ==
  /\ size'[o] = size[o] /\ traded'[o] = traded[o]
  /\ venue[o] = "working" /\ venue'[o] = "cancelled"
  /\ \E m \in Cancels(o) : feed' = Append(feed, m)

Resizes(o) ==
  /\ venue[o] = "working" /\ venue'[o] = "working" /\ traded'[o] = traded[o]
  /\ size'[o] \in traded[o] + 1 .. size[o]
  /\ \E m \in Updates(o) : m.n = size'[o] /\ feed' = Append(feed, m)

Executes(o) ==
  /\ venue[o] = "working" /\ venue'[o] = IF traded[o] + 1 = size[o] THEN "filled" ELSE "working"
  /\ size'[o] = size[o] /\ traded'[o] = traded[o] + 1
  /\ \E m \in Deals(o) : m.n = traded[o] + 1 /\ feed' = Append(feed, m)

Outside(o) ==
  /\ status'[o] = status[o] /\ fills'[o] = fills[o] /\ qty'[o] = qty[o] /\ PlainEvents(o)
  /\ Stands(o) \/ Ends(o) \/ Resizes(o) \/ Executes(o)

\* A quiet step that does one of these to the order is one of them.
LEMMA QuietOutside ==
  ASSUME QuietStep, NEW o \in Orders, Stands(o) \/ Ends(o) \/ Resizes(o) \/ Executes(o)
  PROVE  Outside(o)
<1>1. PlainEvents(o)
  BY DEF QuietStep, QuietEvents, PlainEvents
<1>2. QED
  BY <1>1 DEF QuietStep, Outside

\* A message that is none of these, or about another trade.
LEMMA EmitStands ==
  ASSUME TypeOK, Calm, NEW o \in Orders, NEW op \in {"New", "Cancel", "Update", "Deal"},
         NEW t \in Trades, NEW ok \in BOOLEAN, NEW n \in Nat, Emit(Msg(op, t, ok, n)),
         t # o \/ op = "New" \/ (op \in {"Cancel", "Update"} /\ ~ok)
  PROVE  \E m \in Message : feed' = Append(feed, m) /\ m \notin Deals(o) \cup Cancels(o) \cup Updates(o)
<1>0. Msg(op, t, ok, n) \in Message
  BY DEF Msg, Message, Ops
<1>1. PICK m \in Message : m = Msg(op, t, ok, n)
  BY <1>0
<1>2. m.op = op /\ m.trade = t /\ m.ok = ok
  BY <1>1 DEF Msg
<1>3. m \notin Deals(o) \cup Cancels(o) \cup Updates(o)
  BY <1>2 DEF Deals, Cancels, Updates
<1>4. feed' = Append(feed, m)
  BY <1>1 DEF Emit, Calm
<1>5. QED
  BY <1>3, <1>4

\* The gateway, a failing request, and a cancel do one of them to each order ...
LEMMA OutsideGateway ==
  ASSUME Proved, Calm, NEW o \in Orders, NEW p \in Orders,
         Gateway(p) \/ GatewayModify(p) \/ Faults(p) \/ \E c \in Callers : GatewayCancel(c, p)
  PROVE  Outside(o)
<1>0. TypeOK /\ o \in Trades /\ p \in Trades
  BY DEF Proved, Trades
<1>1. QuietStep
  BY <1>0, GatewayQuiet, CancelQuiet
<1>2. Stands(o) \/ Ends(o) \/ Resizes(o) \/ Executes(o)
  <2>1. CASE Gateway(p)
    <3>1. /\ UNCHANGED <<size, traded>> /\ venue[p] = "enroute"
          /\ \E v \in {"none", "failed", "pending"} : venue' = [venue EXCEPT ![p] = v]
      BY <2>1 DEF Gateway, GatewayRefuse, GatewayFail, GatewayPlace
    <3>2. \/ venue'[o] = venue[o]
          \/ venue[o] \in {"none", "enroute", "pending"} /\ venue'[o] \notin {"filled", "cancelled"}
      BY <1>0, <3>1 DEF TypeOK
    <3>3. UNCHANGED feed \/ Emit(Msg("New", p, FALSE, 0))
      BY <2>1 DEF Gateway, GatewayRefuse, GatewayFail, GatewayPlace
    <3>4. \/ feed' = feed
          \/ \E m \in Message : feed' = Append(feed, m) /\ m \notin Deals(o) \cup Cancels(o) \cup Updates(o)
      BY <1>0, <3>3, EmitStands
    <3>5. QED
      BY <3>1, <3>2, <3>4 DEF Stands
  <2>2. CASE GatewayModify(p)
    <3>0. UNCHANGED <<venue, traded>>
      BY <2>2 DEF GatewayModify
    <3>1. ASSUME venue[p] = "working", NEW n \in traded[p] + 1 .. size[p],
                 size' = [size EXCEPT ![p] = n], Emit(Msg("Update", p, TRUE, n))
          PROVE  Stands(o) \/ Resizes(o)
      <4>0. traded[p] \in Nat /\ size[p] \in Nat /\ n \in Nat
        BY <1>0 DEF TypeOK
      <4>1. CASE o = p
        <5>1. Msg("Update", o, TRUE, n) \in Message
          BY <1>0, <4>0 DEF Msg, Message, Ops
        <5>2. PICK m \in Message : m = Msg("Update", o, TRUE, n)
          BY <5>1
        <5>3. m \in Updates(o) /\ m.n = n
          BY <5>2 DEF Updates, Msg
        <5>4. feed' = Append(feed, m)
          BY <3>1, <4>1, <5>2 DEF Emit, Calm
        <5>5. size'[o] = n
          BY <1>0, <3>1, <4>1 DEF TypeOK
        <5>6. QED
          BY <3>0, <3>1, <4>1, <5>3, <5>4, <5>5 DEF Resizes
      <4>2. CASE o # p
        <5>1. size'[o] = size[o]
          BY <1>0, <3>1, <4>2 DEF TypeOK
        <5>2. \E m \in Message : feed' = Append(feed, m) /\ m \notin Deals(o) \cup Cancels(o) \cup Updates(o)
          BY <1>0, <3>1, <4>0, <4>2, EmitStands
        <5>3. QED
          BY <3>0, <5>1, <5>2 DEF Stands
      <4>3. QED
        BY <4>1, <4>2
    <3>2. ASSUME UNCHANGED size, UNCHANGED feed \/ Emit(Msg("Update", p, FALSE, 0))
          PROVE  Stands(o)
      BY <1>0, <3>0, <3>2, EmitStands DEF Stands
    <3>3. QED
      BY <2>2, <3>1, <3>2 DEF GatewayModify
  <2>3. CASE Faults(p)
    BY <2>3 DEF Faults, PlaceFault, CancelFault, ModifyFault, venueVars, Stands
  <2>4. ASSUME NEW c \in Callers, GatewayCancel(c, p)
        PROVE  Stands(o) \/ Ends(o)
    <3>0. UNCHANGED <<size, traded>>
      BY <2>4 DEF GatewayCancel
    <3>1. CASE /\ venue[p] = "working"
               /\ venue' = [venue EXCEPT ![p] = "cancelled"]
               /\ Emit(Msg("Cancel", p, TRUE, 0))
      <4>1. CASE o = p
        <5>1. Msg("Cancel", o, TRUE, 0) \in Message
          BY <1>0 DEF Msg, Message, Ops
        <5>2. PICK m \in Message : m = Msg("Cancel", o, TRUE, 0)
          BY <5>1
        <5>3. m \in Cancels(o)
          BY <5>2 DEF Cancels, Msg
        <5>4. feed' = Append(feed, m) /\ venue'[o] = "cancelled"
          BY <1>0, <3>1, <4>1, <5>2 DEF Emit, Calm, TypeOK
        <5>5. QED
          BY <3>0, <3>1, <4>1, <5>3, <5>4 DEF Ends
      <4>2. CASE o # p
        <5>1. venue'[o] = venue[o]
          BY <1>0, <3>1, <4>2 DEF TypeOK
        <5>2. \E m \in Message : feed' = Append(feed, m) /\ m \notin Deals(o) \cup Cancels(o) \cup Updates(o)
          BY <1>0, <3>1, <4>2, EmitStands
        <5>3. QED
          BY <3>0, <5>1, <5>2 DEF Stands
      <4>3. QED
        BY <4>1, <4>2
    <3>2. CASE UNCHANGED venue /\ (UNCHANGED feed \/ Emit(Msg("Cancel", p, FALSE, 0)))
      BY <1>0, <3>0, <3>2, EmitStands DEF Stands
    <3>3. QED
      BY <2>4, <3>1, <3>2 DEF GatewayCancel
  <2>5. QED
    BY <2>1, <2>2, <2>3, <2>4
<1>3. QED
  BY <1>1, <1>2, QuietOutside

\* ... and so do the commands and their replies ...
LEMMA OutsideTask ==
  ASSUME Proved, NEW o \in Orders,
         UNCHANGED vars \/ CancelAllOrders \/ \E p \in Orders : Commands(p) \/ Replies(p)
  PROVE  Outside(o)
<1>0. TypeOK /\ FreshInv /\ o \in Trades
  BY DEF Proved, Trades
<1>1. QuietStep
  BY <1>0, IdleQuiet, SubmitQuiet, ReplyQuiet
<1>2. Stands(o)
  <2>1. ASSUME NEW p \in Orders, Submit(p)
        PROVE  Stands(o)
    <3>1. UNCHANGED <<size, traded, feed>> /\ venue[p] = "none"
          /\ (UNCHANGED venue \/ venue' = [venue EXCEPT ![p] = "enroute"])
      BY <1>0, <2>1 DEF Submit, SubmitUnsupported, SubmitInvalid, SubmitValid, FreshInv
    <3>2. \/ venue'[o] = venue[o]
          \/ venue[o] = "none" /\ venue'[o] = "enroute"
      BY <1>0, <3>1 DEF TypeOK
    <3>3. QED
      BY <3>1, <3>2 DEF Stands
  <2>2. ASSUME NEW p \in Orders, Commands(p) \/ Replies(p), ~Submit(p)
        PROVE  Stands(o)
    <3>1. UNCHANGED <<size, traded, feed, venue>>
      BY <2>2 DEF Commands, Replies, CancelOrder, SweepNext, ModifyOrder, PlaceReturns, ModifyReturns,
         CancelReturns, venueVars
    <3>2. QED
      BY <3>1 DEF Stands
  <2>3. CASE UNCHANGED vars \/ CancelAllOrders
    BY <2>3 DEF vars, venueVars, CancelAllOrders, Stands
  <2>4. QED
    BY <2>1, <2>2, <2>3
<1>3. QED
  BY <1>1, <1>2, QuietOutside

\* ... and the exchange.
LEMMA OutsideExchange ==
  ASSUME Proved, Calm, NEW o \in Orders, NEW t \in Trades, Exchange(t)
  PROVE  Outside(o)
<1>0. /\ TypeOK /\ o \in Trades /\ traded[t] \in Nat /\ traded[o] \in Nat
      /\ UNCHANGED <<status, fills, qty, events, size>>
  BY DEF Proved, Trades, TypeOK, Exchange, ForeignPlace, VenueDecides, VenueDeal, VenueCancel, ledgerVars
<1>1. PlainEvents(o)
  <2>1. QuietEvents
    BY <1>0, QuietNone
  <2>2. QED
    BY <2>1 DEF QuietEvents, PlainEvents
<1>2. CASE ForeignPlace(t)
  <2>1. t # o
    BY <1>2, TokenAssumption DEF ForeignPlace
  <2>2. venue'[o] = venue[o] /\ traded'[o] = traded[o] /\ feed' = feed
    BY <1>0, <1>2, <2>1 DEF ForeignPlace, TypeOK
  <2>3. QED
    BY <1>0, <1>1, <2>2 DEF Outside, Stands
<1>3. CASE VenueDecides(t)
  <2>1. PICK ok \in BOOLEAN : /\ venue' = [venue EXCEPT ![t] = IF ok THEN "working" ELSE "failed"]
                              /\ Emit(Msg("New", t, ok, 0))
    BY <1>3 DEF VenueDecides
  <2>2. venue[t] = "pending" /\ traded'[o] = traded[o]
    BY <1>3 DEF VenueDecides
  <2>3. \E m \in Message : feed' = Append(feed, m) /\ m \notin Deals(o) \cup Cancels(o) \cup Updates(o)
    BY <1>0, <2>1, EmitStands
  <2>4. \/ venue'[o] = venue[o]
        \/ venue[o] = "pending" /\ venue'[o] \in {"working", "failed"}
    BY <1>0, <2>1, <2>2 DEF TypeOK
  <2>5. QED
    BY <1>0, <1>1, <2>2, <2>3, <2>4 DEF Outside, Stands
<1>4. CASE VenueDeal(t)
  <2>1. CASE t = o
    <3>0. Msg("Deal", o, TRUE, traded[o] + 1) \in Message
      BY <1>0 DEF Msg, Message, Ops
    <3>1. PICK m \in Message : m = Msg("Deal", o, TRUE, traded[o] + 1)
      BY <3>0
    <3>2. m \in Deals(o) /\ m.n = traded[o] + 1
      BY <3>1 DEF Deals, Msg
    <3>3. /\ venue[o] = "working" /\ feed' = Append(feed, m) /\ traded'[o] = traded[o] + 1
          /\ venue'[o] = IF traded[o] + 1 = size[o] THEN "filled" ELSE "working"
      BY <1>0, <1>4, <2>1, <3>1 DEF VenueDeal, Emit, Calm, TypeOK
    <3>4. QED
      BY <1>0, <1>1, <3>2, <3>3 DEF Outside, Executes
  <2>2. CASE t # o
    <3>0. traded[t] + 1 \in Nat
      BY <1>0
    <3>2. Emit(Msg("Deal", t, TRUE, traded[t] + 1))
      BY <1>4 DEF VenueDeal
    <3>1. venue'[o] = venue[o] /\ traded'[o] = traded[o]
      <4>1. traded' = [traded EXCEPT ![t] = @ + 1] /\ traded \in [Trades -> Nat]
        BY <1>0, <1>4 DEF VenueDeal, TypeOK
      <4>2. venue' \in {venue, [venue EXCEPT ![t] = "filled"]} /\ venue \in [Trades -> Venue]
        BY <1>0, <1>4 DEF VenueDeal, TypeOK
      <4>3. traded'[o] = traded[o]
        BY <1>0, <2>2, <4>1
      <4>4. venue'[o] = venue[o]
        BY <1>0, <2>2, <4>2
      <4>5. QED
        BY <4>3, <4>4
    <3>3. \E m \in Message : feed' = Append(feed, m) /\ m \notin Deals(o) \cup Cancels(o) \cup Updates(o)
      BY <1>0, <2>2, <3>0, <3>2, EmitStands
    <3>4. QED
      BY <1>0, <1>1, <3>1, <3>3 DEF Outside, Stands
  <2>3. QED
    BY <2>1, <2>2
<1>5. CASE VenueCancel(t)
  <2>1. CASE t = o
    <3>0. Msg("Cancel", o, TRUE, 0) \in Message
      BY <1>0 DEF Msg, Message, Ops
    <3>1. PICK m \in Message : m = Msg("Cancel", o, TRUE, 0)
      BY <3>0
    <3>2. m \in Cancels(o)
      BY <3>1 DEF Cancels, Msg
    <3>3. /\ venue[o] = "working" /\ feed' = Append(feed, m) /\ traded'[o] = traded[o]
          /\ venue'[o] = "cancelled"
      BY <1>0, <1>5, <2>1, <3>1 DEF VenueCancel, Emit, Calm, TypeOK
    <3>4. QED
      BY <1>0, <1>1, <3>2, <3>3 DEF Outside, Ends
  <2>2. CASE t # o
    <3>1. Emit(Msg("Cancel", t, TRUE, 0)) /\ venue'[o] = venue[o] /\ traded'[o] = traded[o]
      BY <1>0, <1>5, <2>2 DEF VenueCancel, TypeOK
    <3>2. \E m \in Message : feed' = Append(feed, m) /\ m \notin Deals(o) \cup Cancels(o) \cup Updates(o)
      BY <1>0, <2>2, <3>1, EmitStands
    <3>3. QED
      BY <1>0, <1>1, <3>1, <3>2 DEF Outside, Stands
  <2>3. QED
    BY <2>1, <2>2
<1>6. QED
  BY <1>2, <1>3, <1>4, <1>5 DEF Exchange

-----------------------------------------------------------------------------
(* Steps outside the ledger keep it. *)

\* Everything the queue, or the feed, can say of an order.
ToldOf(o)   == FillEvs(o) \cup CancelEvs(o) \cup UpdateEvs(o)
SaidOf(o)  == Deals(o) \cup Cancels(o) \cup Updates(o)

\* Other events and other messages leave what is said of the order alone.
LEMMA PlainKeeps ==
  ASSUME TypeOK, NEW o \in Orders, PlainEvents(o), NEW A, A \subseteq ToldOf(o)
  PROVE  /\ Holds(events', A) <=> Holds(events, A)
         /\ \A B : Before(events, A, B) => Before(events', A, B)
<1>1. PICK es \in Seq(Event) :
        Generate(es) /\ \A e \in Elems(es) : e.order = o => e.type \notin {"filled", "canceled", "updated"}
  BY DEF PlainEvents
<1>2. events \in Seq(Event) /\ events' = events \o es
  BY <1>1 DEF Generate, TypeOK
<1>3. ~Holds(es, A)
  BY <1>1 DEF Holds, ToldOf, FillEvs, CancelEvs, UpdateEvs
<1>4. Holds(events', A) <=> Holds(events, A)
  BY <1>2, <1>3, HoldsConcat
<1>5. \A B : Before(events, A, B) => Before(events', A, B)
  BY <1>2, <1>3, BeforeConcat
<1>6. QED
  BY <1>4, <1>5

LEMMA JoinKeeps ==
  ASSUME TypeOK, NEW m \in Message, feed' = Append(feed, m), NEW A, m \notin A
  PROVE  /\ Holds(feed', A) <=> Holds(feed, A)
         /\ \A B : Before(feed, A, B) => Before(feed', A, B)
<1>1. feed \in Seq(Message)
  BY DEF TypeOK
<1>2. Holds(feed', A) <=> Holds(feed, A)
  BY <1>1, HoldsAppend
<1>3. \A B : Before(feed, A, B) => Before(feed', A, B)
  BY <1>1, BeforeAppend
<1>4. QED
  BY <1>2, <1>3

\* A sequence that comes last.
LEMMA JoinLast ==
  ASSUME TypeOK, NEW m \in Message, feed' = Append(feed, m), NEW A, NEW B, ~Holds(feed, B),
         m \notin A \/ m \notin B
  PROVE  Before(feed', A, B)
<1>1. feed \in Seq(Message) /\ Before(feed, A, B)
  BY DEF TypeOK, Before, Holds, Elems
<1>2. QED
  BY <1>1, BeforeAppend

\* Nothing is known of a share before it is executed.
LEMMA NotYet ==
  ASSUME Proved, NEW o \in Orders, NEW k \in Nat, k > traded[o]
  PROVE  ~Holds(feed, Share(o, k)) /\ ~Holds(events, ShareFill(o, k)) /\ <<o, k>> \notin fills[o]
<1>0. traded[o] \in Nat /\ o \in Trades
  BY DEF Proved, TypeOK, Trades
<1>1. k \notin 1 .. traded[o]
  BY <1>0
<1>2. ~Executed(o, <<o, k>>)
  BY <1>1 DEF Executed
<1>3. ~Holds(feed, Share(o, k))
  BY <1>1 DEF Holds, Share, Deals, Proved, DealInv
<1>4. ~Holds(events, ShareFill(o, k))
  BY <1>2 DEF Holds, ShareFill, FillEvs, Proved, DealInv
<1>5. QED
  BY <1>2, <1>3, <1>4 DEF Proved, DealInv

Agreement(o) ==
  /\ EndHeard(o) /\ Shrinking(o) /\ SizeHeard(o) /\ LastComes(o) /\ FillHeard(o)

\* Everything there is said of the order.
LEMMA Parts ==
  ASSUME NEW o, NEW k
  PROVE  /\ Cancels(o) \subseteq SaidOf(o) /\ Updates(o) \subseteq SaidOf(o)
         /\ Final(o, k) \subseteq SaidOf(o) /\ Stale(o, k) \subseteq SaidOf(o)
         /\ Share(o, k) \subseteq SaidOf(o)
         /\ CancelEvs(o) \subseteq ToldOf(o) /\ UpdateEvs(o) \subseteq ToldOf(o)
         /\ FinalEvs(o, k) \subseteq ToldOf(o) /\ StaleEvs(o, k) \subseteq ToldOf(o)
         /\ ShareFill(o, k) \subseteq ToldOf(o)
  BY DEF SaidOf, ToldOf, Final, Stale, FinalEvs, StaleEvs, Share, ShareFill

\* What the ledger was told does not change.
PlainFor(o, k) ==
  /\ Holds(events', CancelEvs(o)) <=> Holds(events, CancelEvs(o))
  /\ Holds(events', UpdateEvs(o)) <=> Holds(events, UpdateEvs(o))
  /\ Holds(events', FinalEvs(o, k)) <=> Holds(events, FinalEvs(o, k))
  /\ Holds(events', StaleEvs(o, k)) <=> Holds(events, StaleEvs(o, k))
  /\ Holds(events', ShareFill(o, k)) <=> Holds(events, ShareFill(o, k))
  /\ Before(events, StaleEvs(o, k), FinalEvs(o, k)) => Before(events', StaleEvs(o, k), FinalEvs(o, k))
  /\ Before(events, UpdateEvs(o), ShareFill(o, k)) => Before(events', UpdateEvs(o), ShareFill(o, k))

LEMMA PlainForKeeps ==
  ASSUME TypeOK, NEW o \in Orders, PlainEvents(o), NEW k
  PROVE  PlainFor(o, k)
  BY PlainKeeps, Parts DEF PlainFor

\* Nothing is added to what the gateway says of the order.
QuietFor(o, k) ==
  /\ Holds(feed', Updates(o)) <=> Holds(feed, Updates(o))
  /\ Holds(feed', Final(o, k)) <=> Holds(feed, Final(o, k))
  /\ Holds(feed', Stale(o, k)) <=> Holds(feed, Stale(o, k))
  /\ Before(feed, Stale(o, k), Final(o, k)) => Before(feed', Stale(o, k), Final(o, k))
  /\ Before(feed, Updates(o), Share(o, k)) => Before(feed', Updates(o), Share(o, k))

LEMMA QuietForKeeps ==
  ASSUME TypeOK, NEW o \in Orders, NEW k,
         \/ feed' = feed
         \/ \E m \in Message : feed' = Append(feed, m) /\ m \notin Updates(o)
  PROVE  QuietFor(o, k)
<1>1. ASSUME NEW m \in Message, feed' = Append(feed, m), m \notin Updates(o)
      PROVE  QuietFor(o, k)
  <2>1. m \notin Updates(o) /\ m \notin Final(o, k) /\ m \notin Stale(o, k)
    BY <1>1 DEF Final, Stale
  <2>2. QED
    BY <1>1, <2>1, JoinKeeps DEF QuietFor
<1>2. QED
  BY <1>1 DEF QuietFor

\* An order that stands keeps the agreement ...
LEMMA OutsideStands ==
  ASSUME Proved, NEW o \in Orders, Sized(o), Outside(o), Stands(o), Agreement(o)
  PROVE  Agreement(o)'
<1>0. TypeOK /\ PlainEvents(o) /\ status'[o] = status[o] /\ fills'[o] = fills[o] /\ qty'[o] = qty[o]
      /\ size'[o] = size[o] /\ traded'[o] = traded[o]
  BY DEF Proved, Outside, Stands
<1>1. PICK k : k = size[o]
  OBVIOUS
<1>2. PlainFor(o, k)
  BY <1>0, PlainForKeeps
<1>3. QuietFor(o, k)
  BY <1>0, QuietForKeeps DEF Stands
<1>4. /\ venue'[o] \in {"cancelled", "filled"} => venue[o] = venue'[o]
      /\ venue'[o] \notin {"cancelled", "failed"} => venue[o] \notin {"cancelled", "failed"}
  BY DEF Stands
<1>5. EndHeard(o)'
  BY <1>0, <1>2, <1>4, JoinKeeps DEF Stands, EndHeard, Agreement, PlainFor, QuietFor
<1>6. Shrinking(o)'
  BY <1>0, <1>1, <1>2, <1>3 DEF Shrinking, Agreement, PlainFor, QuietFor
<1>7. SizeHeard(o)'
  BY <1>0, <1>1, <1>2, <1>3, <1>4 DEF SizeHeard, Agreement, PlainFor, QuietFor
<1>8. LastComes(o)'
  BY <1>0, <1>1, <1>2, <1>3, <1>4 DEF LastComes, Agreement, PlainFor, QuietFor
<1>9. FillHeard(o)'
  BY <1>0, <1>4 DEF FillHeard, Agreement
<1>10. QED
  BY <1>5, <1>6, <1>7, <1>8, <1>9 DEF Agreement
\* ... a cancel is announced ...
LEMMA OutsideEnds ==
  ASSUME Proved, NEW o \in Orders, Outside(o), Ends(o), Agreement(o)
  PROVE  Agreement(o)'
<1>0. /\ TypeOK /\ PlainEvents(o) /\ qty'[o] = qty[o] /\ size'[o] = size[o]
      /\ venue'[o] = "cancelled"
  BY DEF Proved, Outside, Ends
<1>1. PICK m \in Cancels(o) : feed' = Append(feed, m)
  BY DEF Ends
<1>2. m \in Message /\ m \notin Updates(o)
  BY DEF Cancels, Updates
<1>3. PICK k : k = size[o]
  OBVIOUS
<1>4. PlainFor(o, k)
  BY <1>0, PlainForKeeps
<1>5. QuietFor(o, k)
  BY <1>0, <1>1, <1>2, QuietForKeeps
<1>6. Holds(feed', Cancels(o))
  BY <1>0, <1>1, <1>2, HoldsAppend DEF TypeOK
<1>7. Shrinking(o)'
  BY <1>0, <1>3, <1>4, <1>5 DEF Shrinking, Agreement, PlainFor, QuietFor
<1>8. QED
  BY <1>0, <1>6, <1>7 DEF Agreement, EndHeard, SizeHeard, LastComes, FillHeard

\* ... so is a deal, behind every change ...
LEMMA OutsideExecutes ==
  ASSUME Proved, NEW o \in Orders, Sized(o), Outside(o), Executes(o), Agreement(o)
  PROVE  Agreement(o)'
<1>0. /\ TypeOK /\ PlainEvents(o) /\ qty'[o] = qty[o] /\ size'[o] = size[o] /\ fills'[o] = fills[o]
      /\ traded'[o] = traded[o] + 1 /\ venue[o] = "working"
      /\ venue'[o] = IF traded[o] + 1 = size[o] THEN "filled" ELSE "working"
      /\ traded[o] \in Nat /\ size[o] \in Nat
  BY DEF Proved, Outside, Executes, TypeOK, Trades
<1>1. PICK m \in Deals(o) : m.n = traded[o] + 1 /\ feed' = Append(feed, m)
  BY DEF Executes
<1>2. m \in Message /\ m \notin Updates(o)
  BY DEF Deals, Updates
<1>3. PICK k \in Nat : k = size[o]
  BY <1>0
<1>4. PlainFor(o, k)
  BY <1>0, PlainForKeeps
<1>5. QuietFor(o, k)
  BY <1>0, <1>1, <1>2, QuietForKeeps
<1>6. Shrinking(o)'
  BY <1>0, <1>3, <1>4, <1>5 DEF Shrinking, Agreement, PlainFor, QuietFor
<1>7. SizeHeard(o)'
  BY <1>0, <1>3, <1>4, <1>5 DEF SizeHeard, Agreement, PlainFor, QuietFor
<1>8. LastComes(o)' /\ FillHeard(o)'
  <2>1. CASE venue'[o] # "filled"
    BY <2>1 DEF LastComes, FillHeard
  <2>2. CASE venue'[o] = "filled"
    <3>1. k = traded[o] + 1 /\ k > traded[o]
      BY <1>0, <1>3, <2>2
    <3>2. ~Holds(feed, Share(o, k)) /\ ~Holds(events, ShareFill(o, k)) /\ <<o, k>> \notin fills[o]
      BY <1>3, <3>1, NotYet
    <3>3. Before(feed', Updates(o), Share(o, k))
      BY <1>0, <1>1, <1>2, <3>2, JoinLast
    <3>4. ~Holds(events', ShareFill(o, k))
      BY <1>4, <3>2 DEF PlainFor
    <3>5. Before(events', UpdateEvs(o), ShareFill(o, k))
      BY <3>4 DEF Before, Holds, Elems
    <3>6. LastComes(o)'
      BY <1>0, <1>3, <3>2, <3>3, <3>4, <3>5 DEF LastComes
    <3>7. k \in 1 .. traded'[o] /\ <<o, k>> \notin fills'[o]
      BY <1>0, <3>1, <3>2
    <3>8. FillHeard(o)'
      BY <3>7 DEF FillHeard
    <3>9. QED
      BY <3>6, <3>8
  <2>3. QED
    BY <2>1, <2>2
<1>9. EndHeard(o)'
  BY <1>0 DEF EndHeard
<1>10. QED
  BY <1>6, <1>7, <1>8, <1>9 DEF Agreement

\* ... and a new quantity, behind those it replaces.
LEMMA OutsideResizes ==
  ASSUME Proved, NEW o \in Orders, Sized(o), Agreed(o), Outside(o), Resizes(o), Agreement(o)
  PROVE  Agreement(o)'
<1>0. /\ TypeOK /\ PlainEvents(o) /\ qty'[o] = qty[o] /\ venue'[o] = "working"
      /\ traded[o] \in Nat /\ size[o] \in Nat /\ qty[o] \in Nat /\ size'[o] \in traded[o] + 1 .. size[o]
      /\ feed \in Seq(Message) /\ events \in Seq(Event) /\ qty[o] >= size[o]
  BY DEF Proved, Outside, Resizes, TypeOK, Trades, Agreed
<1>1. PICK m \in Updates(o) : m.n = size'[o] /\ feed' = Append(feed, m)
  BY DEF Resizes
<1>2. PICK k : k = size'[o]
  OBVIOUS
<1>3. /\ k \in Nat /\ k <= size[o]
      /\ m \in Message /\ m \in Final(o, k) /\ m \notin Stale(o, k)
  BY <1>0, <1>1, <1>2 DEF Updates, Final, Stale
<1>4. PlainFor(o, k)
  BY <1>0, PlainForKeeps
<1>5. Holds(feed', Final(o, k))
  BY <1>0, <1>1, <1>3, HoldsAppend
<1>6. /\ Holds(feed', Stale(o, k)) <=> Holds(feed, Stale(o, k))
      /\ Before(feed, Stale(o, k), Final(o, k)) => Before(feed', Stale(o, k), Final(o, k))
  BY <1>0, <1>1, <1>3, JoinKeeps
<1>7. Shrinking(o)'
  <2>1. CASE k = size[o]
    BY <1>0, <1>2, <1>4, <1>6, <2>1 DEF Shrinking, Agreement, PlainFor
  <2>2. CASE k # size[o]
    <3>1. k < size[o] /\ qty[o] # k
      BY <1>0, <1>3, <2>2
    <3>2. ~Holds(feed, Final(o, k))
      BY <1>0, <1>3, <3>1 DEF Holds, Final, Updates, Agreed
    <3>3. ~Holds(events, FinalEvs(o, k))
      BY <1>0, <1>3, <3>1 DEF Holds, FinalEvs, UpdateEvs, Agreed
    <3>4. Before(feed', Stale(o, k), Final(o, k))
      BY <1>0, <1>1, <1>3, <3>2, JoinLast
    <3>5. ~Holds(events', FinalEvs(o, k))
      BY <1>4, <3>3 DEF PlainFor
    <3>6. Before(events', StaleEvs(o, k), FinalEvs(o, k))
      BY <3>5 DEF Before, Holds, Elems
    <3>7. QED
      BY <1>0, <1>2, <3>1, <3>4, <3>5, <3>6 DEF Shrinking
  <2>3. QED
    BY <2>1, <2>2
<1>8. SizeHeard(o)'
  BY <1>2, <1>5 DEF SizeHeard
<1>9. QED
  BY <1>0, <1>7, <1>8 DEF Agreement, EndHeard, LastComes, FillHeard

\* Every step outside the ledger keeps the agreement.
LEMMA OutsideKeeps ==
  ASSUME Proved, NEW o \in Orders, ~WrittenOff(o), Delivery(o), Outside(o), Agreement(o)
  PROVE  Agreement(o)'
  BY OutsideStands, OutsideEnds, OutsideExecutes, OutsideResizes DEF Outside, Delivery

\* A message that finds its order is passed on.
LEMMA WordPassed ==
  ASSUME TypeOK, MapInv, NEW o \in Orders, map[o] = o \/ ~Closed(o), feed # <<>>,
         HandleNew \/ HandleCancel \/ HandleUpdate \/ HandleDeal
  PROVE  /\ Head(feed) \in Cancels(o) => Holds(events', CancelEvs(o))
         /\ \A k : Head(feed) \in Final(o, k) => Holds(events', FinalEvs(o, k))
<1> DEFINE m == Head(feed)
<1>0. /\ m \in Message /\ events \in Seq(Event) /\ Resolve(o, Token[o]) = o /\ o # None
  <2>1. Resolve(o, Token[o]) = o
    BY ResolveOwn
  <2>2. m \in Message /\ events \in Seq(Event)
    BY DEF TypeOK
  <2>3. QED
    BY <2>1, <2>2, TokenAssumption DEF Trades
<1>1. ASSUME m \in Cancels(o)
      PROVE  Holds(events', CancelEvs(o))
  <2>1. HandleCancel /\ m.op = "Cancel" /\ m.trade = o /\ m.ok
    BY <1>1 DEF Cancels, HandleNew, HandleCancel, HandleUpdate, HandleDeal, NextMessage
  <2>2. Addressee = o
    BY <1>0, <2>1 DEF Addressee, TokenOf
  <2>3. PICK x \in Event : x = Ev("canceled", o)
    BY EvType DEF EventTypes
  <2>4. events' = events \o <<x>>
    <3>1. Generate(<<Ev(CancelEvent(m), o)>>)
      BY <1>0, <2>1, <2>2 DEF HandleCancel, Generate
    <3>2. CancelEvent(m) = "canceled"
      BY <2>1 DEF CancelEvent
    <3>3. QED
      BY <2>3, <3>1, <3>2 DEF Generate
  <2>5. Holds(<<x>>, CancelEvs(o))
    BY <2>3, EvIsNoFill, ElemsOne DEF CancelEvs, Holds
  <2>6. <<x>> \in Seq(Event)
    BY <2>3
  <2>7. QED
    BY <1>0, <2>4, <2>5, <2>6, HoldsConcat
<1>2. ASSUME NEW k, m \in Final(o, k)
      PROVE  Holds(events', FinalEvs(o, k))
  <2>1. HandleUpdate /\ m.op = "Update" /\ m.trade = o /\ m.ok /\ m.n = k
    BY <1>2 DEF Final, Updates, HandleNew, HandleCancel, HandleUpdate, HandleDeal, NextMessage
  <2>2. Addressee = o
    BY <1>0, <2>1 DEF Addressee, TokenOf
  <2>3. PICK x \in Event : x = UpdateEv(o, k)
    <3>1. k \in Nat
      BY <1>0, <2>1 DEF Message
    <3>2. QED
      BY <3>1, EvType
  <2>4. events' = events \o <<x>>
    <3>1. Generate(<<UpdateEv(o, m.n)>>)
      BY <1>0, <2>1, <2>2 DEF HandleUpdate, Generate
    <3>2. QED
      BY <2>1, <2>3, <3>1 DEF Generate
  <2>5. x.type = "updated" /\ x.order = o /\ x.n = k
    BY <2>3 DEF UpdateEv
  <2>6. Holds(<<x>>, FinalEvs(o, k))
    BY <2>5, ElemsOne DEF FinalEvs, UpdateEvs, Holds
  <2>7. <<x>> \in Seq(Event)
    BY <2>3
  <2>8. QED
    BY <1>0, <2>4, <2>6, <2>7, HoldsConcat
<1>3. QED
  BY <1>1, <1>2

\* What a handler queues about an order is what its message says of it.
Echoes(es, o, k) ==
  /\ Holds(es, CancelEvs(o)) => Head(feed) \in Cancels(o)
  /\ Holds(es, UpdateEvs(o)) => Head(feed) \in Updates(o)
  /\ Holds(es, FinalEvs(o, k)) => Head(feed) \in Final(o, k)
  /\ Holds(es, StaleEvs(o, k)) => Head(feed) \in Stale(o, k)
  /\ Holds(es, ShareFill(o, k)) => Head(feed) \in Share(o, k)

LEMMA HeardEchoes ==
  ASSUME TypeOK, MapInv, NEW o \in Orders, NEW k,
         HandleNew \/ HandleCancel \/ HandleUpdate \/ HandleDeal
  PROVE  /\ feed # <<>> /\ feed' = Tail(feed)
         /\ UNCHANGED <<status, fills, qty, venue, size, traded>>
         /\ \E es \in Seq(Event) : Generate(es) /\ Echoes(es, o, k)
<1> DEFINE m == Head(feed)
           t == m.trade
<1>0. /\ feed # <<>> /\ feed' = Tail(feed) /\ m \in Message /\ t \in Trades
      /\ UNCHANGED <<status, fills, qty, venue, size, traded>>
  BY Heard
<1>1. PICK es \in Seq(Event) :
        /\ Generate(es)
        /\ \A e \in Elems(es) :
             /\ e.order = t /\ e.type # "submitted"
             /\ e.type = "updated" => m.op = "Update" /\ m.ok /\ e.n = m.n
             /\ e.type = "filled" => m.op = "Deal" /\ e.id = <<t, m.n>>
             /\ e.type = "canceled" => m.op = "Cancel" /\ m.ok
  BY Heard
<1>2. Holds(es, CancelEvs(o)) => m \in Cancels(o)
  BY <1>0, <1>1 DEF Holds, CancelEvs, Cancels
<1>3. Holds(es, UpdateEvs(o)) => m \in Updates(o)
  BY <1>0, <1>1 DEF Holds, UpdateEvs, Updates
<1>4. Holds(es, FinalEvs(o, k)) => m \in Final(o, k)
  BY <1>0, <1>1 DEF Holds, UpdateEvs, Updates, FinalEvs, Final
<1>5. Holds(es, StaleEvs(o, k)) => m \in Stale(o, k)
  BY <1>0, <1>1 DEF Holds, UpdateEvs, Updates, StaleEvs, Stale
<1>6. Holds(es, ShareFill(o, k)) => m \in Share(o, k)
  <2>1. SUFFICES ASSUME NEW e \in Elems(es), e \in ShareFill(o, k)
                 PROVE  m \in Share(o, k)
    BY DEF Holds
  <2>2. e.type = "filled" /\ e.order = o /\ e.id = <<o, k>>
    BY <2>1 DEF ShareFill, FillEvs
  <2>3. m.op = "Deal" /\ t = o /\ <<t, m.n>> = <<o, k>>
    BY <1>1, <2>1, <2>2
  <2>4. m.n = k
    BY <2>3
  <2>5. QED
    BY <1>0, <2>3, <2>4 DEF Share, Deals
<1>7. Echoes(es, o, k)
  BY <1>2, <1>3, <1>4, <1>5, <1>6 DEF Echoes
<1>8. QED
  BY <1>0, <1>1, <1>7

\* Taking a message and queueing what it says keeps the order of A and B, in
\* the feed (A, B) and in the queue (C, D), and A in front of D.
LEMMA EchoKeeps ==
  ASSUME TypeOK, feed # <<>>, feed' = Tail(feed), NEW es \in Seq(Event), Generate(es),
         NEW A, NEW B, NEW C, NEW D,
         Before(feed, A, B), Before(events, C, D), Holds(feed, A) => ~Holds(events, D),
         Holds(es, C) => Head(feed) \in A, Holds(es, D) => Head(feed) \in B, A \cap B = {}
  PROVE  /\ Before(feed', A, B) /\ Before(events', C, D)
         /\ Holds(feed', A) => ~Holds(events', D)
         /\ Holds(feed', A) \/ Holds(events', C) => Holds(feed, A) \/ Holds(events, C)
<1>1. feed \in Seq(Message) /\ events \in Seq(Event) /\ events' = events \o es
  BY DEF TypeOK, Generate
<1>2. Before(feed', A, B)
  BY <1>1, BeforeTail
<1>3. /\ Holds(feed', A) => Holds(feed, A)
      /\ Head(feed) \in A => Holds(feed, A)
      /\ Head(feed) \in B => ~Holds(feed, A)
  BY <1>1, HoldsTail, BeforeHead
<1>4. /\ Holds(events', C) <=> Holds(events, C) \/ Holds(es, C)
      /\ Holds(events', D) <=> Holds(events, D) \/ Holds(es, D)
  BY <1>1, HoldsConcat
<1>5. Before(events', C, D)
  <2>1. CASE Holds(es, C)
    <3>1. ~Holds(events, D) /\ ~Holds(es, D)
      BY <1>3, <2>1
    <3>2. QED
      BY <1>1, <3>1, BeforeConcat
  <2>2. CASE ~Holds(es, C)
    BY <1>1, <2>2, BeforeConcat
  <2>3. QED
    BY <2>1, <2>2
<1>6. QED
  BY <1>2, <1>3, <1>4, <1>5

\* A handler moves what its message says to the queue, and loses none of it.
LEMMA HearAgrees ==
  ASSUME Proved, NEW o \in Orders, ~WrittenOff(o), Delivery(o), Asked(o), Agreement(o),
         HandleNew \/ HandleCancel \/ HandleUpdate \/ HandleDeal
  PROVE  Agreement(o)'
<1>0. TypeOK /\ MapInv
  BY DEF Proved
<1>1. PICK k : k = size[o]
  OBVIOUS
<1>2. /\ feed # <<>> /\ feed' = Tail(feed)
      /\ UNCHANGED <<status, fills, qty, venue, size, traded>>
      /\ \E es \in Seq(Event) : Generate(es) /\ Echoes(es, o, k)
  BY <1>0, HeardEchoes
<1>3. PICK es \in Seq(Event) : Generate(es) /\ Echoes(es, o, k)
  BY <1>2
<1>4. feed \in Seq(Message) /\ events \in Seq(Event) /\ events' = events \o es
  BY <1>0, <1>3 DEF TypeOK, Generate
<1>5. \A A : Holds(events, A) => Holds(events', A)
  BY <1>3, <1>4, HoldsConcat
<1>6. \A A : Holds(feed, A) => Head(feed) \in A \/ Holds(feed', A)
  BY <1>2, <1>4, HoldsTail
<1>7. Shrinking(o)'
  <2>1. Stale(o, k) \cap Final(o, k) = {}
    BY DEF Final, Stale
  <2>2. /\ Before(feed, Stale(o, k), Final(o, k)) /\ Before(events, StaleEvs(o, k), FinalEvs(o, k))
        /\ Holds(feed, Stale(o, k)) => ~Holds(events, FinalEvs(o, k))
        /\ qty[o] = k => ~Holds(feed, Stale(o, k)) /\ ~Holds(events, StaleEvs(o, k))
    BY <1>1 DEF Agreement, Shrinking
  <2>3. /\ Holds(es, StaleEvs(o, k)) => Head(feed) \in Stale(o, k)
        /\ Holds(es, FinalEvs(o, k)) => Head(feed) \in Final(o, k)
    BY <1>3 DEF Echoes
  <2>4. /\ Before(feed', Stale(o, k), Final(o, k)) /\ Before(events', StaleEvs(o, k), FinalEvs(o, k))
        /\ Holds(feed', Stale(o, k)) => ~Holds(events', FinalEvs(o, k))
        /\ Holds(feed', Stale(o, k)) \/ Holds(events', StaleEvs(o, k)) =>
             Holds(feed, Stale(o, k)) \/ Holds(events, StaleEvs(o, k))
    BY <1>0, <1>2, <1>3, <2>1, <2>2, <2>3, EchoKeeps
  <2>5. QED
    BY <1>1, <1>2, <2>2, <2>4 DEF Shrinking
<1>8. LastComes(o)'
  <2>1. SUFFICES ASSUME venue[o] = "filled" PROVE LastComes(o)'
    BY <1>2 DEF LastComes
  <2>2. Updates(o) \cap Share(o, k) = {}
    BY DEF Updates, Share, Deals
  <2>3. /\ Before(feed, Updates(o), Share(o, k)) /\ Before(events, UpdateEvs(o), ShareFill(o, k))
        /\ Holds(feed, Updates(o)) => ~Holds(events, ShareFill(o, k))
        /\ Holds(feed, Updates(o)) \/ Holds(events, UpdateEvs(o)) => <<o, k>> \notin fills[o]
    BY <1>1, <2>1 DEF Agreement, LastComes
  <2>4. /\ Holds(es, UpdateEvs(o)) => Head(feed) \in Updates(o)
        /\ Holds(es, ShareFill(o, k)) => Head(feed) \in Share(o, k)
    BY <1>3 DEF Echoes
  <2>5. /\ Before(feed', Updates(o), Share(o, k)) /\ Before(events', UpdateEvs(o), ShareFill(o, k))
        /\ Holds(feed', Updates(o)) => ~Holds(events', ShareFill(o, k))
        /\ Holds(feed', Updates(o)) \/ Holds(events', UpdateEvs(o)) =>
             Holds(feed, Updates(o)) \/ Holds(events, UpdateEvs(o))
    BY <1>0, <1>2, <1>3, <2>2, <2>3, <2>4, EchoKeeps
  <2>6. QED
    BY <1>1, <1>2, <2>3, <2>5 DEF LastComes
<1>9. Closed(o) => /\ venue[o] = "cancelled" => status[o] = "CANCELED"
                   /\ status[o] = "CANCELED" => venue[o] = "cancelled"
                   /\ status[o] = "FILLED" => qty[o] = size[o]
                   /\ status[o] = "REJECTED" => venue[o] \in {"none", "failed"}
  BY ClosedDone, Evidence DEF Closed, ClosedStatuses, Delivery
<1>10. EndHeard(o)'
  <2>1. SUFFICES ASSUME venue[o] = "cancelled", status[o] # "CANCELED"
                 PROVE  Holds(events', CancelEvs(o)) \/ Holds(feed', Cancels(o))
    BY <1>2 DEF EndHeard
  <2>2. Head(feed) \in Cancels(o) => Holds(events', CancelEvs(o))
    BY <1>0, <1>2, <1>9, <2>1, WordPassed
  <2>3. QED
    BY <1>5, <1>6, <2>1, <2>2 DEF Agreement, EndHeard
<1>11. SizeHeard(o)'
  <2>1. SUFFICES ASSUME venue[o] \notin {"cancelled", "failed"}, qty[o] # size[o]
                 PROVE  Holds(events', FinalEvs(o, k)) \/ Holds(feed', Final(o, k))
    BY <1>1, <1>2 DEF SizeHeard
  <2>2. ASSUME Head(feed) \in Final(o, k)
        PROVE  Holds(events', FinalEvs(o, k))
    <3>1. Holds(feed, Updates(o))
      <4>1. Head(feed) \in Updates(o)
        BY <2>2 DEF Final
      <4>2. QED
        BY <1>2, <1>4, <4>1, HoldsTail
    <3>2. ~Closed(o)
      BY <1>9, <2>1, <3>1 DEF Asked, Closed, ClosedStatuses
    <3>3. QED
      BY <1>0, <1>2, <2>2, <3>2, WordPassed
  <2>3. QED
    BY <1>1, <1>5, <1>6, <2>1, <2>2 DEF Agreement, SizeHeard
<1>12. FillHeard(o)'
  BY <1>2 DEF Agreement, FillHeard
<1>13. QED
  BY <1>7, <1>8, <1>10, <1>11, <1>12 DEF Agreement

\* A set that holds the first n shares has n members at least.
LEMMA SharesCount ==
  ASSUME NEW o, NEW S, IsFiniteSet(S), NEW n \in Nat, \A k \in 1 .. n : <<o, k>> \in S
  PROVE  Cardinality(S) >= n
<1> DEFINE all == {<<o, k>> : k \in 1 .. n}
           f   == [k \in 1 .. n |-> <<o, k>>]
<1>1. IsFiniteSet(1 .. n) /\ Cardinality(1 .. n) = n
  BY FS_Interval
<1>2. f \in Bijection(1 .. n, all)
  BY DEF Bijection, Injection, Surjection, IsInjective
<1>3. ExistsBijection(1 .. n, all)
  BY <1>2 DEF ExistsBijection
<1>4. Cardinality(all) = n
  BY <1>1, <1>3, FS_Bijection
<1>5. Cardinality(all) <= Cardinality(S)
  BY FS_Subset
<1>6. Cardinality(S) \in Nat
  BY FS_CardinalityType
<1>7. QED
  BY <1>4, <1>5, <1>6

\* What the next event does to the order.
Moves(o) ==
  LET e == Head(events)
  IN /\ e \in CancelEvs(o) => status'[o] = "CANCELED"
     /\ status[o] = "CANCELED" => status'[o] = "CANCELED"
     /\ status[o] = "FILLED" => status'[o] = "FILLED"
     /\ e \in UpdateEvs(o) /\ status[o] \in {"ACCEPTED", "PARTIALLY_FILLED"} => qty'[o] = e.n
     /\ qty'[o] = qty[o] \/ (e \in UpdateEvs(o) /\ qty'[o] = e.n)
     /\ fills'[o] = fills[o] \/ /\ e \in FillEvs(o) /\ e.id \notin fills[o]
                                /\ fills'[o] = fills[o] \cup {e.id}
                                /\ qty'[o] = qty[o]
                                /\ Filled(o) + 1 >= qty[o] => status'[o] = "FILLED"

LEMMA EngineMoves ==
  ASSUME Proved, Calm, NEW o \in Orders, ~WrittenOff(o), Delivery(o), Engine
  PROVE  Moves(o)
<1> DEFINE e == Head(events)
<1>0. /\ events \in Seq(Event) /\ events # <<>> /\ events' = Tail(events)
  BY DEF Engine, EngineMove, EngineFill, EngineUpdate, EngineNote, NextEvent, Proved, TypeOK
<1>1. e \in Event /\ e.order \in Orders /\ e \in Elems(events)
  BY <1>0, HeadEvent, EventOrder DEF Proved
<1>2. /\ e \in CancelEvs(o) <=> e.type = "canceled" /\ e.order = o
      /\ e \in UpdateEvs(o) <=> e.type = "updated" /\ e.order = o
      /\ e \in FillEvs(o) <=> e.type = "filled" /\ e.order = o
  BY <1>1 DEF CancelEvs, UpdateEvs, FillEvs
<1>3. /\ status \in [Orders -> Statuses] /\ qty \in [Orders -> Nat] /\ fills \in [Orders -> SUBSET TradeIds]
  BY DEF Proved, TypeOK
<1>4. e \in CancelEvs(o) => status[o] \notin {"FILLED", "REJECTED"}
  <2>1. SUFFICES ASSUME e \in CancelEvs(o) PROVE status[o] \notin {"FILLED", "REJECTED"}
    OBVIOUS
  <2>2. venue[o] = "cancelled"
    BY <1>1, <2>1, Evidence DEF Holds, Delivery
  <2>3. QED
    BY <2>2, Evidence, ClosedDone DEF Closed, ClosedStatuses, Delivery
<1>5. e \in FillEvs(o) => status[o] # "CANCELED"
  BY <1>1 DEF Delivery, NothingLate, Holds
<1> HIDE DEF e
<1>6. CASE EngineMove
  <2>1. /\ e.type \in {"submitted", "accepted", "rejected", "canceled"} /\ UNCHANGED <<qty, fills>>
        /\ status' = IF <<status[e.order], TargetStatus[e.type]>> \in Legal
                     THEN [status EXCEPT ![e.order] = TargetStatus[e.type]] ELSE status
    BY <1>6 DEF EngineMove, NextEvent, TargetStatus, e
  <2>2. TargetStatus[e.type] \in {"SUBMITTED", "ACCEPTED", "REJECTED", "CANCELED"}
        /\ (e.type = "canceled" => TargetStatus[e.type] = "CANCELED")
    BY <2>1 DEF TargetStatus
  <2>3. status[o] \in {"CANCELED", "FILLED"} => status'[o] = status[o]
    BY <1>1, <1>3, <2>1, <2>2 DEF Legal
  <2>4. e \in CancelEvs(o) => status'[o] = "CANCELED"
    <3>1. SUFFICES ASSUME e \in CancelEvs(o) PROVE status'[o] = "CANCELED"
      OBVIOUS
    <3>2. status[o] \in {"INITIALIZED", "SUBMITTED", "ACCEPTED", "PARTIALLY_FILLED", "CANCELED"}
      BY <1>3, <1>4, <3>1 DEF Statuses
    <3>3. CASE status[o] = "CANCELED"
      BY <2>3, <3>3
    <3>4. CASE status[o] # "CANCELED"
      BY <1>1, <1>2, <1>3, <2>1, <2>2, <3>1, <3>2, <3>4 DEF Legal
    <3>5. QED
      BY <3>3, <3>4
  <2>5. e \notin UpdateEvs(o)
    BY <1>2, <2>1
  <2>6. QED
    BY <2>1, <2>3, <2>4, <2>5 DEF Moves, e
<1>7. CASE EngineFill
  <2>1. e.type = "filled" /\ UNCHANGED qty
    BY <1>7 DEF EngineFill, NextEvent, e
  <2>2. e \notin CancelEvs(o) /\ e \notin UpdateEvs(o)
    BY <1>2, <2>1
  <2>3. CASE e.order # o
    <3>1. status'[o] = status[o] /\ fills'[o] = fills[o]
      BY <1>1, <1>3, <1>7, <2>3 DEF EngineFill, e
    <3>2. QED
      BY <2>1, <2>2, <3>1 DEF Moves, e
  <2>4. CASE e.order = o
    <3> DEFINE target == IF Filled(o) + 1 >= qty[o] THEN "FILLED" ELSE "PARTIALLY_FILLED"
               moved  == <<status[o], target>> \in Legal /\ e.id \notin fills[o]
    <3>1. /\ status' = IF moved THEN [status EXCEPT ![o] = target] ELSE status
          /\ fills' = IF moved THEN [fills EXCEPT ![o] = @ \cup {e.id}] ELSE fills
      BY <1>7, <2>4 DEF EngineFill, e
    <3>2. target \in {"FILLED", "PARTIALLY_FILLED"} /\ (Filled(o) + 1 >= qty[o] => target = "FILLED")
      OBVIOUS
    <3>3. status[o] # "CANCELED" /\ e \in FillEvs(o)
      BY <1>2, <1>5, <2>1, <2>4
    <3>4. status[o] = "FILLED" => ~moved
      BY <3>2 DEF Legal
    <3> HIDE DEF target
    <3>5. CASE moved
      <4>1. status'[o] = target /\ fills'[o] = fills[o] \cup {e.id} /\ e.id \notin fills[o]
        BY <1>3, <3>1, <3>5
      <4>2. QED
        BY <2>1, <2>2, <3>2, <3>3, <3>4, <3>5, <4>1 DEF Moves, e
    <3>6. CASE ~moved
      BY <2>1, <2>2, <3>1, <3>3, <3>6 DEF Moves, e
    <3>7. QED
      BY <3>5, <3>6
  <2>5. QED
    BY <2>3, <2>4
<1>8. CASE EngineUpdate
  <2>1. /\ e.type = "updated" /\ UNCHANGED <<status, fills>>
        /\ qty' = IF status[e.order] \in {"ACCEPTED", "PARTIALLY_FILLED"}
                  THEN [qty EXCEPT ![e.order] = e.n] ELSE qty
    BY <1>8 DEF EngineUpdate, NextEvent, e
  <2>2. e \notin CancelEvs(o)
    BY <1>2, <2>1
  <2>3. /\ qty'[o] = qty[o] \/ (e.order = o /\ qty'[o] = e.n)
        /\ e.order = o /\ status[o] \in {"ACCEPTED", "PARTIALLY_FILLED"} => qty'[o] = e.n
    BY <1>1, <1>3, <2>1
  <2>4. QED
    BY <1>2, <2>1, <2>2, <2>3 DEF Moves, e
<1>9. CASE EngineNote
  <2>1. e.type \in {"cancel_rejected", "modify_rejected"} /\ UNCHANGED <<status, qty, fills>>
    BY <1>9 DEF EngineNote, NextEvent, e
  <2>2. e \notin CancelEvs(o) /\ e \notin UpdateEvs(o)
    BY <1>2, <2>1
  <2>3. QED
    BY <2>1, <2>2 DEF Moves, e
<1>10. QED
  BY <1>6, <1>7, <1>8, <1>9 DEF Engine

\* Applying an event keeps the agreement.
LEMMA EngineAgrees ==
  ASSUME Proved, TypeOK', Calm, NEW o \in Orders, ~WrittenOff(o), Delivery(o), Shown(o), Asked(o), Agreement(o), Engine
  PROVE  Agreement(o)'
<1> DEFINE e == Head(events)
<1>0. /\ events \in Seq(Event) /\ events # <<>> /\ events' = Tail(events)
      /\ UNCHANGED <<feed, venue, size, traded>>
      /\ qty[o] \in Nat /\ size[o] \in Nat /\ traded[o] \in Nat /\ IsFiniteSet(fills[o])
      /\ status[o] \in Statuses
  BY DEF Engine, EngineMove, EngineFill, EngineUpdate, EngineNote, NextEvent, venueVars, Proved, TypeOK, Trades
<1>1. PICK k \in Nat : k = size[o]
  BY <1>0
<1>2. Moves(o)
  BY EngineMoves
<1>3. \A A : /\ Holds(events', A) => Holds(events, A)
             /\ Holds(events, A) => e \in A \/ Holds(events', A)
             /\ e \in A => Holds(events, A)
  BY <1>0, HoldsTail
<1>4. e \in UpdateEvs(o) => (e \in FinalEvs(o, k) <=> e.n = k) /\ (e \in StaleEvs(o, k) <=> e.n # k)
  BY DEF FinalEvs, StaleEvs
<1>5. FinalEvs(o, k) \subseteq UpdateEvs(o)
  BY DEF FinalEvs
<1> HIDE DEF e
<1>6. EndHeard(o)'
  <2>1. SUFFICES ASSUME venue[o] = "cancelled"
                 PROVE  status'[o] = "CANCELED" \/ Holds(events', CancelEvs(o)) \/ Holds(feed, Cancels(o))
    BY <1>0 DEF EndHeard
  <2>2. e \in CancelEvs(o) \/ status[o] = "CANCELED" => status'[o] = "CANCELED"
    BY <1>2 DEF Moves, e
  <2>3. QED
    BY <1>3, <2>1, <2>2 DEF Agreement, EndHeard
<1>7. qty'[o] = qty[o] \/ (e \in UpdateEvs(o) /\ qty'[o] = e.n)
  BY <1>2 DEF Moves, e
<1>8. Shrinking(o)'
  <2>1. Before(events', StaleEvs(o, k), FinalEvs(o, k))
    BY <1>0, <1>1, BeforeTail DEF Agreement, Shrinking
  <2>2. Holds(feed, Stale(o, k)) => ~Holds(events', FinalEvs(o, k))
    BY <1>1, <1>3 DEF Agreement, Shrinking
  <2>3. ASSUME qty'[o] = k
        PROVE  ~Holds(feed, Stale(o, k)) /\ ~Holds(events', StaleEvs(o, k))
    <3>1. CASE qty[o] = k
      BY <1>1, <1>3, <3>1 DEF Agreement, Shrinking
    <3>2. CASE qty[o] # k
      <4>1. e \in FinalEvs(o, k)
        BY <1>4, <1>7, <2>3, <3>2
      <4>2. ~Holds(events, StaleEvs(o, k))
        BY <1>0, <1>1, <4>1, BeforeHead DEF Agreement, Shrinking, e
      <4>3. QED
        BY <1>1, <1>3, <4>1, <4>2 DEF Agreement, Shrinking
    <3>3. QED
      BY <3>1, <3>2
  <2>4. QED
    BY <1>0, <1>1, <2>1, <2>2, <2>3 DEF Agreement, Shrinking
<1>9. SizeHeard(o)'
  <2>1. SUFFICES ASSUME venue[o] \notin {"cancelled", "failed"}, ~Holds(feed, Final(o, k)),
                        ~Holds(events', FinalEvs(o, k))
                 PROVE  qty'[o] = k
    BY <1>0, <1>1 DEF SizeHeard
  <2>2. CASE qty[o] = k
    <3>1. ~Holds(events, StaleEvs(o, k))
      BY <1>1, <2>2 DEF Agreement, Shrinking
    <3>2. QED
      BY <1>3, <1>4, <1>7, <2>2, <3>1
  <2>3. CASE qty[o] # k
    <3>1. e \in FinalEvs(o, k)
      BY <1>1, <1>3, <2>1, <2>3 DEF Agreement, SizeHeard
    <3>2. e \in UpdateEvs(o) /\ e.n = k
      BY <1>4, <1>5, <3>1
    <3>3. known[o] /\ venue[o] \in {"working", "filled"}
      BY <1>3, <2>1, <3>2 DEF Asked
    <3>4. status[o] \in {"ACCEPTED", "PARTIALLY_FILLED"}
      <4>1. status[o] \notin {"INITIALIZED", "SUBMITTED"}
        BY <3>3 DEF Shown
      <4>2. status[o] # "FILLED"
        BY <1>1, <2>3, ClosedDone DEF Closed, ClosedStatuses
      <4>3. status[o] # "CANCELED" /\ status[o] # "REJECTED"
        BY <3>3, Evidence DEF Delivery
      <4>4. QED
        BY <1>0, <4>1, <4>2, <4>3 DEF Statuses
    <3>5. QED
      BY <1>2, <3>2, <3>4 DEF Moves, e
  <2>4. QED
    BY <2>2, <2>3
<1>10. LastComes(o)'
  <2>1. SUFFICES ASSUME venue[o] = "filled" PROVE LastComes(o)'
    BY <1>0 DEF LastComes
  <2>2. Before(events', UpdateEvs(o), ShareFill(o, k))
    BY <1>0, <1>1, <2>1, BeforeTail DEF Agreement, LastComes
  <2>3. Holds(feed, Updates(o)) => ~Holds(events', ShareFill(o, k))
    BY <1>1, <1>3, <2>1 DEF Agreement, LastComes
  <2>4. ASSUME Holds(feed, Updates(o)) \/ Holds(events', UpdateEvs(o)), <<o, k>> \in fills'[o]
        PROVE  FALSE
    <3>1. Holds(feed, Updates(o)) \/ Holds(events, UpdateEvs(o))
      BY <1>3, <2>4
    <3>2. <<o, k>> \notin fills[o]
      BY <1>1, <2>1, <3>1 DEF Agreement, LastComes
    <3>3. e \in FillEvs(o) /\ e.id = <<o, k>>
      BY <1>2, <2>4, <3>2 DEF Moves, e
    <3>4. e \in ShareFill(o, k)
      BY <3>3 DEF ShareFill
    <3>5. ~Holds(events, UpdateEvs(o))
      BY <1>0, <1>1, <2>1, <3>4, BeforeHead DEF Agreement, LastComes, e
    <3>6. ~Holds(feed, Updates(o))
      BY <1>1, <1>3, <2>1, <3>4 DEF Agreement, LastComes
    <3>7. QED
      BY <3>1, <3>5, <3>6
  <2>5. QED
    BY <1>0, <1>1, <2>1, <2>2, <2>3, <2>4 DEF Agreement, LastComes
<1>11. FillHeard(o)'
  <2>1. SUFFICES ASSUME venue[o] = "filled", \A n \in 1 .. traded[o] : <<o, n>> \in fills'[o]
                 PROVE  status'[o] = "FILLED"
    BY <1>0 DEF FillHeard
  <2>2. CASE fills'[o] = fills[o]
    <3>1. status[o] = "FILLED"
      BY <2>1, <2>2 DEF Agreement, FillHeard
    <3>2. QED
      BY <1>2, <3>1 DEF Moves
  <2>3. CASE fills'[o] # fills[o]
    <3>1. /\ e \in FillEvs(o) /\ e.id \notin fills[o] /\ fills'[o] = fills[o] \cup {e.id}
          /\ qty'[o] = qty[o] /\ (Filled(o) + 1 >= qty[o] => status'[o] = "FILLED")
      BY <1>2, <2>3 DEF Moves, e
    <3>2. traded[o] = k /\ k >= 1
      BY <1>0, <1>1, <2>1 DEF Delivery, Sized
    <3>3. <<o, k>> \in fills'[o]
      BY <2>1, <3>2
    <3>4. ~Holds(feed, Updates(o)) /\ ~Holds(events', UpdateEvs(o))
      BY <1>0, <1>1, <1>10, <2>1, <3>3 DEF LastComes
    <3>5. ~Holds(feed, Final(o, k)) /\ ~Holds(events', FinalEvs(o, k))
      BY <3>4 DEF Holds, Final, FinalEvs
    <3>6. qty[o] = k
      BY <1>0, <1>1, <1>9, <2>1, <3>1, <3>5 DEF SizeHeard
    <3>7. /\ IsFiniteSet(fills'[o]) /\ Cardinality(fills[o]) \in Nat
          /\ Cardinality(fills'[o]) = Cardinality(fills[o]) + 1
      <4>1. PICK id : id = e.id
        OBVIOUS
      <4>2. /\ IsFiniteSet(fills[o] \cup {id}) /\ Cardinality(fills[o] \cup {id}) = Cardinality(fills[o]) + 1
        BY <1>0, <3>1, <4>1, FS_AddElement
      <4>3. QED
        BY <1>0, <3>1, <4>1, <4>2, FS_CardinalityType
    <3>8. Cardinality(fills'[o]) >= k
      BY <2>1, <3>2, <3>7, SharesCount
    <3>9. Filled(o) = Cardinality(fills[o])
      BY <3>7 DEF Filled, Calm
    <3>10. QED
      BY <1>0, <3>1, <3>6, <3>7, <3>8, <3>9
  <2>4. QED
    BY <2>2, <2>3
<1>12. QED
  BY <1>6, <1>8, <1>9, <1>10, <1>11 DEF Agreement

-----------------------------------------------------------------------------
(* What the status shows, and who asks for a change. *)

\* The engine keeps the status true to what the ledger knows.
LEMMA EngineShows ==
  ASSUME TypeOK, NEW o \in Orders, Shown(o), Engine
  PROVE  Shown(o)' /\ (known[o] => known'[o]) /\ UNCHANGED <<modify, venue, feed>>
         /\ events # <<>> /\ events' = Tail(events)
<1> DEFINE e == Head(events)
<1>0. /\ UNCHANGED <<modify, venue, feed>> /\ events # <<>> /\ events' = Tail(events)
  BY EngineTakes DEF clientVars, taskVars, venueVars
<1>1. e \in Event /\ e.order \in Orders
  BY <1>0, FirstEvent
<1>2. /\ status \in [Orders -> Statuses] /\ known \in [Orders -> BOOLEAN] /\ fills \in [Orders -> SUBSET TradeIds]
  BY DEF TypeOK
<1> HIDE DEF e
<1>3. CASE EngineMove
  <2> DEFINE moved == <<status[e.order], TargetStatus[e.type]>> \in Legal
  <2>1. /\ e.type \in {"submitted", "accepted", "rejected", "canceled"} /\ UNCHANGED fills
        /\ status' = IF moved THEN [status EXCEPT ![e.order] = TargetStatus[e.type]] ELSE status
        /\ known' = [known EXCEPT ![e.order] = @ \/ (moved /\ e.type \in {"accepted", "canceled"})]
    BY <1>3 DEF EngineMove, NextEvent, TargetStatus, e
  <2>2. PICK s \in {"SUBMITTED", "ACCEPTED", "REJECTED", "CANCELED"} :
          s = TargetStatus[e.type] /\ (e.type \in {"accepted", "canceled"} => s \in {"ACCEPTED", "CANCELED"})
    BY <2>1 DEF TargetStatus
  <2>3. CASE moved /\ e.order = o
    <3>1. status'[o] = s /\ (known'[o] = (known[o] \/ e.type \in {"accepted", "canceled"})) /\ <<status[o], s>> \in Legal
      BY <1>2, <2>1, <2>2, <2>3
    <3>2. /\ s = "SUBMITTED" => status[o] = "INITIALIZED"
          /\ s = "ACCEPTED" => status[o] \in {"INITIALIZED", "SUBMITTED"}
          /\ s = "REJECTED" => status[o] \in {"INITIALIZED", "SUBMITTED", "ACCEPTED"}
      BY <3>1 DEF Legal
    <3>3. known[o] => known'[o]
      BY <3>1
    <3>4. known'[o] => status'[o] \notin {"INITIALIZED", "SUBMITTED"}
      BY <2>2, <3>1, <3>2 DEF Shown
    <3>5. fills'[o] # {} => status'[o] \in {"PARTIALLY_FILLED", "FILLED", "CANCELED"}
      BY <2>1, <2>2, <3>1, <3>2 DEF Shown
    <3>6. QED
      BY <1>0, <3>1, <3>3, <3>4, <3>5 DEF Shown
  <2>4. CASE ~(moved /\ e.order = o)
    <3>1. status'[o] = status[o] /\ known'[o] = known[o]
      BY <1>1, <1>2, <2>1, <2>4
    <3>2. QED
      BY <1>0, <2>1, <3>1 DEF Shown
  <2>5. QED
    BY <2>3, <2>4
<1>4. CASE EngineFill
  <2> DEFINE p      == e.order
             target == IF Filled(p) + 1 >= qty[p] THEN "FILLED" ELSE "PARTIALLY_FILLED"
             moved  == <<status[p], target>> \in Legal /\ e.id \notin fills[p]
  <2>1. /\ status' = IF moved THEN [status EXCEPT ![p] = target] ELSE status
        /\ fills' = IF moved THEN [fills EXCEPT ![p] = @ \cup {e.id}] ELSE fills
        /\ known' = [known EXCEPT ![p] = @ \/ moved]
    BY <1>4 DEF EngineFill, e
  <2>2. target \in {"FILLED", "PARTIALLY_FILLED"}
    OBVIOUS
  <2> HIDE DEF target, moved
  <2>3. CASE moved /\ p = o
    <3>1. status'[o] = target /\ e.id \in fills'[o]
      BY <1>2, <2>1, <2>3
    <3>2. known'[o]
      BY <1>2, <2>1, <2>3
    <3>3. QED
      BY <1>0, <2>2, <3>1, <3>2 DEF Shown
  <2>4. CASE ~(moved /\ p = o)
    <3>1. status'[o] = status[o] /\ fills'[o] = fills[o]
      BY <1>1, <1>2, <2>1, <2>4
    <3>2. known'[o] = known[o]
      BY <1>1, <1>2, <2>1, <2>4
    <3>3. QED
      BY <1>0, <3>1, <3>2 DEF Shown
  <2>5. QED
    BY <2>3, <2>4
<1>5. CASE EngineUpdate
  <2>1. /\ UNCHANGED <<status, fills>>
        /\ known' = [known EXCEPT ![e.order] = @ \/ status[e.order] \in {"ACCEPTED", "PARTIALLY_FILLED"}]
    BY <1>5 DEF EngineUpdate, e
  <2>2. /\ known[o] => known'[o]
        /\ known'[o] => known[o] \/ status[o] \in {"ACCEPTED", "PARTIALLY_FILLED"}
    BY <1>1, <1>2, <2>1
  <2>3. QED
    BY <1>0, <2>1, <2>2 DEF Shown
<1>6. CASE EngineNote
  BY <1>0, <1>6 DEF EngineNote, Shown
<1>7. QED
  BY <1>3, <1>4, <1>5, <1>6 DEF Engine

\* An order is changed only on a request for it.
LEMMA ResizeAsked ==
  ASSUME TypeOK, Calm, NEW o \in Orders, NEW m \in Updates(o), feed' = Append(feed, m),
         \/ \E p \in Orders : Gateway(p) \/ GatewayModify(p) \/ Faults(p) \/ \E c \in Callers : GatewayCancel(c, p)
         \/ \E t \in Trades : Exchange(t)
  PROVE  modify[o] = "request"
<1>0. /\ feed \in Seq(Message) /\ m \in Message /\ link = "up"
      /\ m.op = "Update" /\ m.trade = o /\ m.ok
      /\ feed' # feed /\ feed'[Len(feed) + 1] = m
  <2>1. feed \in Seq(Message) /\ m \in Message /\ link = "up" /\ m.op = "Update" /\ m.trade = o /\ m.ok
    BY DEF TypeOK, Updates, Calm
  <2>2. Len(feed') = Len(feed) + 1 /\ feed'[Len(feed) + 1] = m /\ Len(feed) \in Nat
    BY <2>1
  <2>3. QED
    BY <2>1, <2>2
<1>1. ASSUME NEW op \in {"New", "Cancel", "Update", "Deal"}, NEW t \in Trades, NEW ok \in BOOLEAN, NEW n \in Nat,
             Emit(Msg(op, t, ok, n))
      PROVE  op = "Update" /\ t = o /\ ok
  <2>1. PICK x : x = Msg(op, t, ok, n)
    OBVIOUS
  <2>2. x.op = op /\ x.trade = t /\ x.ok = ok
    BY <2>1 DEF Msg
  <2>3. x \in Message
    BY <2>1 DEF Msg, Message, Ops
  <2>4. feed' = Append(feed, x)
    BY <1>0, <1>1, <2>1 DEF Emit
  <2>5. feed'[Len(feed) + 1] = x
    BY <1>0, <2>3, <2>4
  <2>6. QED
    BY <1>0, <2>2, <2>5
<1>2. ASSUME NEW p \in Orders, Gateway(p) \/ GatewayModify(p) \/ Faults(p) \/ \E c \in Callers : GatewayCancel(c, p)
      PROVE  modify[o] = "request"
  <2>0. p \in Trades
    BY DEF Trades
  <2>1. CASE Gateway(p)
    <3>1. UNCHANGED feed \/ Emit(Msg("New", p, FALSE, 0))
      BY <2>1 DEF Gateway, GatewayRefuse, GatewayFail, GatewayPlace
    <3>2. QED
      BY <1>0, <1>1, <2>0, <3>1
  <2>2. CASE GatewayModify(p)
    <3>1. modify[p] = "request" /\ traded[p] \in Nat /\ size[p] \in Nat
          /\ (UNCHANGED feed \/ (\E n \in traded[p] + 1 .. size[p] : Emit(Msg("Update", p, TRUE, n)))
              \/ Emit(Msg("Update", p, FALSE, 0)))
      BY <2>0, <2>2 DEF GatewayModify, TypeOK
    <3>2. ASSUME NEW n \in traded[p] + 1 .. size[p], Emit(Msg("Update", p, TRUE, n))
          PROVE  p = o
      <4>1. n \in Nat
        BY <3>1
      <4>2. QED
        BY <1>1, <2>0, <3>2, <4>1
    <3>3. ~Emit(Msg("Update", p, FALSE, 0))
      BY <1>1, <2>0
    <3>4. QED
      BY <1>0, <3>1, <3>2, <3>3
  <2>3. CASE Faults(p)
    BY <1>0, <2>3 DEF Faults, PlaceFault, CancelFault, ModifyFault
  <2>4. ASSUME NEW c \in Callers, GatewayCancel(c, p)
        PROVE  FALSE
    <3>1. UNCHANGED feed \/ \E ok \in BOOLEAN : Emit(Msg("Cancel", p, ok, 0))
      BY <2>4 DEF GatewayCancel
    <3>2. QED
      BY <1>0, <1>1, <2>0, <3>1
  <2>5. QED
    BY <1>2, <2>1, <2>2, <2>3, <2>4
<1>3. ASSUME NEW t \in Trades, Exchange(t)
      PROVE  FALSE
  <2>1. CASE ForeignPlace(t)
    BY <1>0, <2>1 DEF ForeignPlace
  <2>2. CASE VenueDecides(t)
    BY <1>1, <2>2 DEF VenueDecides
  <2>3. CASE VenueDeal(t)
    <3>1. traded[t] + 1 \in Nat
      BY DEF TypeOK
    <3>2. Emit(Msg("Deal", t, TRUE, traded[t] + 1))
      BY <2>3 DEF VenueDeal
    <3>3. QED
      BY <1>1, <3>1, <3>2
  <2>4. CASE VenueCancel(t)
    BY <1>1, <2>4 DEF VenueCancel
  <2>5. QED
    BY <1>3, <2>1, <2>2, <2>3, <2>4 DEF Exchange
<1>4. QED
  BY <1>2, <1>3

\* A change is requested only of an order with a venue_order_id.
LEMMA RequestKnown ==
  ASSUME TypeOK, NEW o \in Orders, modify[o] # "idle" => known[o], [Next]_vars
  PROVE  modify'[o] # "idle" => known[o]
<1>0. modify \in [Orders -> Legs]
  BY DEF TypeOK
<1>1. CASE UNCHANGED modify
  BY <1>1
<1>2. ASSUME NEW p \in Orders, NEW what \in {"price", "qty"}, ModifyOrder(p, what)
      PROVE  modify'[o] # "idle" => known[o]
  <2>1. modify' = modify \/ (known[p] /\ modify' = [modify EXCEPT ![p] = "request"])
    BY <1>2 DEF ModifyOrder, Addressable
  <2>2. QED
    BY <1>0, <2>1
<1>3. ASSUME NEW p \in Orders, ModifyReturns(p) \/ GatewayModify(p) \/ ModifyFault(p)
      PROVE  modify'[o] # "idle" => known[o]
  <2>1. modify[p] # "idle" /\ \E leg \in Legs : modify' = [modify EXCEPT ![p] = leg]
    BY <1>3 DEF ModifyReturns, GatewayModify, ModifyFault, Legs
  <2>2. QED
    BY <1>0, <2>1
<1>4. CASE Restart
  BY <1>4 DEF Restart
<1>5. CASE UNCHANGED vars \/ Engine \/ Callback \/ CancelAllOrders \/ DropLink \/ Reconnect \/ StartUp
  BY <1>5 DEF vars, clientVars, taskVars, Engine, EngineMove, EngineFill, EngineUpdate, EngineNote, NextEvent,
     Callback, HandleNew, HandleCancel, HandleUpdate, HandleDeal, RecheckDeal, HandleReconnected,
     NextMessage, CancelAllOrders, DropLink, Reconnect, StartUp
<1>6. ASSUME NEW p \in Orders, NEW c \in Callers,
             Submit(p) \/ CancelOrder(p) \/ SweepNext(p) \/ PlaceReturns(p) \/ CancelReturns(c, p)
             \/ Gateway(p) \/ PlaceFault(p) \/ CancelFault(c, p) \/ GatewayCancel(c, p)
      PROVE  UNCHANGED modify
  BY <1>6 DEF Submit, CancelOrder, SweepNext, PlaceReturns, CancelReturns, Gateway, PlaceFault,
     CancelFault, GatewayCancel
<1>7. ASSUME NEW t \in Trades, Exchange(t)
      PROVE  UNCHANGED modify
  BY <1>7 DEF Exchange, ForeignPlace, VenueDecides, VenueDeal, VenueCancel, clientVars, taskVars
<1>8. ASSUME NEW i \in Slots, Reconcile(i)
      PROVE  UNCHANGED modify
  BY <1>8 DEF Reconcile, GatewayList, ReconReports, ReconSend, taskVars
<1>9. "cancel" \in Callers
  BY DEF Callers
<1>10. QED
  BY <1>1, <1>2, <1>3, <1>4, <1>5, <1>6, <1>7, <1>8, <1>9 DEF Next, Commands, Replies, Faults

\* Where an order stands that was changed: at work, or done since.
Worked(o) == known[o] /\ venue[o] \in {"working", "filled", "cancelled"}

\* Steps outside the ledger, the callback and the engine keep Asked.
LEMMA OutsideAsked ==
  ASSUME Proved, NEW o \in Orders, Asked(o), Outside(o), known'[o] = known[o],
         modify'[o] # "idle" => known[o],
         \A m \in Updates(o) : feed' = Append(feed, m) => known[o]
  PROVE  Asked(o)'
<1>0. TypeOK /\ PlainEvents(o)
  BY DEF Proved, Outside
<1>1. Holds(events', UpdateEvs(o)) <=> Holds(events, UpdateEvs(o))
  BY <1>0, PlainKeeps, Parts
<1>2. CASE Stands(o)
  <2>1. Holds(feed', Updates(o)) <=> Holds(feed, Updates(o))
    BY <1>0, <1>2, JoinKeeps DEF Stands
  <2>2. venue[o] \in {"working", "filled", "cancelled"} => venue'[o] = venue[o]
    BY <1>2 DEF Stands
  <2>3. QED
    BY <1>1, <2>1, <2>2 DEF Asked
<1>3. CASE Ends(o)
  <2>1. PICK m \in Cancels(o) : feed' = Append(feed, m)
    BY <1>3 DEF Ends
  <2>2. m \in Message /\ m \notin Updates(o)
    BY DEF Cancels, Updates
  <2>3. Holds(feed', Updates(o)) <=> Holds(feed, Updates(o))
    BY <1>0, <2>1, <2>2, JoinKeeps
  <2>4. QED
    BY <1>1, <1>3, <2>3 DEF Asked, Ends
<1>4. CASE Resizes(o)
  BY <1>4 DEF Asked, Resizes
<1>5. CASE Executes(o)
  <2>1. PICK m \in Deals(o) : feed' = Append(feed, m)
    BY <1>5 DEF Executes
  <2>2. m \in Message /\ m \notin Updates(o)
    BY DEF Deals, Updates
  <2>3. Holds(feed', Updates(o)) <=> Holds(feed, Updates(o))
    BY <1>0, <2>1, <2>2, JoinKeeps
  <2>4. venue'[o] \in {"working", "filled"} /\ venue[o] = "working"
    BY <1>5 DEF Executes
  <2>5. QED
    BY <1>1, <2>3, <2>4 DEF Asked
<1>6. QED
  BY <1>2, <1>3, <1>4, <1>5 DEF Outside

LEMMA HearAsked ==
  ASSUME Proved, NEW o \in Orders, Asked(o), known'[o] = known[o], modify'[o] # "idle" => known[o],
         HandleNew \/ HandleCancel \/ HandleUpdate \/ HandleDeal
  PROVE  Asked(o)'
<1>0. TypeOK /\ MapInv
  BY DEF Proved
<1>1. /\ feed # <<>> /\ feed' = Tail(feed) /\ UNCHANGED venue
      /\ \E es \in Seq(Event) : Generate(es) /\ Echoes(es, o, 0)
  BY <1>0, HeardEchoes
<1>2. PICK es \in Seq(Event) : Generate(es) /\ Echoes(es, o, 0)
  BY <1>1
<1>3. feed \in Seq(Message) /\ events \in Seq(Event) /\ events' = events \o es
  BY <1>0, <1>2 DEF TypeOK, Generate
<1>4. /\ Holds(feed', Updates(o)) => Holds(feed, Updates(o))
      /\ Head(feed) \in Updates(o) => Holds(feed, Updates(o))
  BY <1>1, <1>3, HoldsTail
<1>5. Holds(events', UpdateEvs(o)) => Holds(events, UpdateEvs(o)) \/ Holds(es, UpdateEvs(o))
  BY <1>2, <1>3, HoldsConcat
<1>6. QED
  BY <1>1, <1>2, <1>4, <1>5 DEF Asked, Echoes

LEMMA EngineAsked ==
  ASSUME Proved, NEW o \in Orders, Shown(o), Asked(o), Engine
  PROVE  Asked(o)'
<1>0. TypeOK
  BY DEF Proved
<1>1. /\ known[o] => known'[o]
      /\ UNCHANGED <<modify, venue, feed>> /\ events # <<>> /\ events' = Tail(events)
  BY <1>0, EngineShows
<1>2. Holds(events', UpdateEvs(o)) => Holds(events, UpdateEvs(o))
  BY <1>0, <1>1, HoldsTail DEF TypeOK
<1>3. QED
  BY <1>1, <1>2 DEF Asked

\* One order, one step.
LEMMA OrderQuiet ==
  ASSUME Proved, TypeOK', Calm, NoGap', [Next]_vars,
         NEW o \in Orders, ~WrittenOff(o), Delivery(o), Shown(o), Asked(o), Agreement(o)
  PROVE  Shown(o)' /\ Asked(o)' /\ Agreement(o)'
<1>0. TypeOK /\ (modify'[o] # "idle" => known[o])
  BY RequestKnown DEF Proved, Asked
<1>1. CASE Engine
  BY <1>0, <1>1, EngineShows, EngineAsked, EngineAgrees
<1>2. CASE ~Engine
  <2>1. UNCHANGED <<status, known, qty, fills>>
    BY <1>0, <1>2, LedgerStill
  <2>2. Shown(o)'
    BY <2>1 DEF Shown
  <2>3. CASE RecheckDeal
    <3>1. UNCHANGED <<modify, venue, size, traded, events, feed>>
      BY <2>3 DEF RecheckDeal, taskVars, venueVars
    <3>2. Asked(o)'
      BY <2>1, <3>1 DEF Asked
    <3>3. EndHeard(o)' /\ Shrinking(o)' /\ SizeHeard(o)' /\ LastComes(o)' /\ FillHeard(o)'
      BY <2>1, <3>1 DEF Agreement, EndHeard, Shrinking, SizeHeard, LastComes, FillHeard
    <3>4. QED
      BY <2>2, <3>2, <3>3 DEF Agreement
  <2>4. CASE HandleNew \/ HandleCancel \/ HandleUpdate \/ HandleDeal
    BY <1>0, <2>1, <2>2, <2>4, HearAsked, HearAgrees
  <2>5. ~HandleReconnected
    BY <1>0, HeadMessage DEF HandleReconnected, NextMessage, Calm
  <2>6. ASSUME Outside(o), \A m \in Updates(o) : feed' = Append(feed, m) => known[o]
        PROVE  Asked(o)' /\ Agreement(o)'
    BY <1>0, <2>1, <2>6, OutsideAsked, OutsideKeeps
  <2>7. CASE UNCHANGED vars \/ CancelAllOrders \/ \E p \in Orders : Commands(p) \/ Replies(p)
    <3>1. feed' = feed
      BY <2>7 DEF vars, CancelAllOrders, Commands, Replies, Submit, CancelOrder, SweepNext, ModifyOrder,
         PlaceReturns, ModifyReturns, CancelReturns
    <3>2. \A m \in Updates(o) : feed' # Append(feed, m)
      <4>1. feed \in Seq(Message)
        BY <1>0 DEF TypeOK
      <4>2. \A m \in Message : Append(feed, m) # feed
        BY <4>1
      <4>3. QED
        BY <3>1, <4>2 DEF Updates
    <3>3. QED
      BY <2>2, <2>6, <2>7, <3>2, OutsideTask
  <2>8. CASE \/ \E p \in Orders : Gateway(p) \/ GatewayModify(p) \/ Faults(p) \/ \E c \in Callers : GatewayCancel(c, p)
             \/ \E t \in Trades : Exchange(t)
    <3>1. Outside(o)
      BY <2>8, OutsideGateway, OutsideExchange
    <3>2. \A m \in Updates(o) : feed' = Append(feed, m) => known[o]
      BY <1>0, <2>8, ResizeAsked DEF Asked
    <3>3. QED
      BY <2>2, <2>6, <3>1, <3>2
  <2>9. CASE DropLink \/ Reconnect \/ Restart \/ StartUp \/ \E i \in Slots : Reconcile(i)
    BY <1>0, <2>9, GapStep
  <2>10. QED
    BY <1>2, <2>3, <2>4, <2>5, <2>7, <2>8, <2>9 DEF Next, Callback
<1>3. QED
  BY <1>1, <1>2

-----------------------------------------------------------------------------
(* What place_order is answered, or the ledger told in place of an answer.  *)

Refusals(o)  == {m \in Message : m.op = "New" /\ m.trade = o /\ ~m.ok}
RejectEvs(o) == {e \in Event : e.type = "rejected" /\ e.order = o}
AcceptEvs(o) == {e \in Event : e.type = "accepted" /\ e.order = o}

\* A request on its way is waited for, unless the transport cut it off.
Awaited(o) == venue[o] = "enroute" => place[o] = "request" \/ Cut(o)

\* A refusal is in the ledger or on its way.
Refused(o) ==
  venue[o] \in {"none", "failed"} /\ place[o] # "new" =>
    \/ status[o] = "REJECTED" \/ Holds(events, RejectEvs(o)) \/ Holds(feed, Refusals(o))
    \/ place[o] \in {"error", "failed", "cut"}

\* So is an answer, once place_order is over.
Acknowledged(o) ==
  venue[o] \notin {"none", "failed"} /\ place[o] \in {"done", "lost"} =>
    \/ status[o] \notin {"INITIALIZED", "SUBMITTED"}
    \/ Holds(events, AcceptEvs(o)) \/ Holds(events, RejectEvs(o))

\* A request given up before the gateway saw it has been rejected.
GivenUp(o) ==
  venue[o] = "enroute" /\ place[o] = "lost" => status[o] = "REJECTED" \/ Holds(events, RejectEvs(o))

Answered(o) == Awaited(o) /\ Refused(o) /\ Acknowledged(o) /\ GivenUp(o)

\* A step outside the ledger takes nothing out of the queues.
LEMMA OutsideGrows ==
  ASSUME TypeOK, NEW o \in Orders, Outside(o), NEW A
  PROVE  /\ Holds(events, A) => Holds(events', A)
         /\ Holds(feed, A) => Holds(feed', A)
<1>1. PICK es \in Seq(Event) : Generate(es)
  BY DEF Outside, PlainEvents
<1>2. events \in Seq(Event) /\ events' = events \o es
  BY <1>1 DEF Generate, TypeOK
<1>3. Holds(events, A) => Holds(events', A)
  BY <1>2, HoldsConcat
<1>4. feed' = feed \/ \E m \in Message : feed' = Append(feed, m)
  BY DEF Outside, Stands, Ends, Resizes, Executes, Cancels, Updates, Deals
<1>5. ASSUME NEW m \in Message, feed' = Append(feed, m), Holds(feed, A)
      PROVE  Holds(feed', A)
  <2>1. feed \in Seq(Message)
    BY DEF TypeOK
  <2>2. Holds(Append(feed, m), A)
    BY <1>5, <2>1, HoldsAppend
  <2>3. QED
    BY <1>5, <2>2
<1>6. QED
  BY <1>3, <1>4, <1>5

\* The order goes on at the exchange, which knows it already, if at all.
LEMMA GoesOn ==
  ASSUME TypeOK, NEW o \in Orders, Outside(o), Answered(o), place'[o] = place[o],
         \/ venue'[o] = venue[o]
         \/ venue[o] \in {"pending", "working"} /\ venue'[o] \in {"working", "filled", "cancelled"}
  PROVE  Answered(o)'
<1>1. /\ Holds(events, RejectEvs(o)) => Holds(events', RejectEvs(o))
      /\ Holds(events, AcceptEvs(o)) => Holds(events', AcceptEvs(o))
      /\ Holds(feed, Refusals(o)) => Holds(feed', Refusals(o))
  BY OutsideGrows
<1>2. status'[o] = status[o]
  BY DEF Outside
<1>3. Awaited(o)' /\ GivenUp(o)'
  BY <1>1, <1>2 DEF Answered, Awaited, GivenUp, Cut
<1>4. Refused(o)'
  BY <1>1, <1>2 DEF Answered, Refused
<1>5. Acknowledged(o)'
  BY <1>1, <1>2 DEF Answered, Acknowledged
<1>6. QED
  BY <1>3, <1>4, <1>5 DEF Answered

\* An event that joins the queue is in it.
LEMMA Queues ==
  ASSUME TypeOK, NEW es \in Seq(Event), Generate(es), NEW e \in Elems(es), NEW A, e \in A
  PROVE  Holds(events', A)
<1>1. events \in Seq(Event) /\ events' = events \o es
  BY DEF Generate, TypeOK
<1>2. Holds(es, A)
  BY DEF Holds
<1>3. QED
  BY <1>1, <1>2, HoldsConcat

LEMMA RejectQueued ==
  ASSUME TypeOK, NEW o \in Orders,
         Generate(<<Ev("rejected", o)>>) \/ Generate(<<Ev("submitted", o), Ev("rejected", o)>>)
  PROVE  Holds(events', RejectEvs(o))
<1>1. PICK x \in Event : x = Ev("rejected", o)
  BY EvType DEF EventTypes
<1>2. PICK y \in Event : y = Ev("submitted", o)
  BY EvType DEF EventTypes
<1>3. x \in RejectEvs(o)
  BY <1>1, EvIsNoFill DEF RejectEvs
<1>4. <<x>> \in Seq(Event) /\ <<y, x>> \in Seq(Event)
  BY <1>1, <1>2
<1>5. x \in Elems(<<x>>) /\ x \in Elems(<<y, x>>)
  BY ElemsOne, ElemsPair
<1>6. Generate(<<x>>) \/ Generate(<<y, x>>)
  BY <1>1, <1>2
<1>7. QED
  BY <1>3, <1>4, <1>5, <1>6, Queues

LEMMA AcceptQueued ==
  ASSUME TypeOK, NEW o \in Orders, Generate(<<Ev("accepted", o)>>)
  PROVE  Holds(events', AcceptEvs(o))
<1>1. PICK x \in Event : x = Ev("accepted", o)
  BY EvType DEF EventTypes
<1>2. x \in AcceptEvs(o)
  BY <1>1, EvIsNoFill DEF AcceptEvs
<1>3. <<x>> \in Seq(Event) /\ x \in Elems(<<x>>)
  BY <1>1, ElemsOne
<1>4. Generate(<<x>>)
  BY <1>1
<1>5. QED
  BY <1>2, <1>3, <1>4, Queues

\* Every kind of step keeps what is known of the answer.
LEMMA TaskAnswered ==
  ASSUME Proved, NEW o \in Orders, Answered(o),
         UNCHANGED vars \/ CancelAllOrders \/ \E p \in Orders : Commands(p) \/ Replies(p)
  PROVE  Answered(o)'
<1>0. TypeOK /\ FreshInv /\ RejInv /\ Outside(o) /\ o \in Trades
  BY OutsideTask DEF Proved, Trades
<1>1. CASE UNCHANGED <<place, venue>>
  BY <1>0, <1>1, GoesOn
<1>2. ASSUME NEW p \in Orders, Submit(p) \/ PlaceReturns(p), p # o
      PROVE  Answered(o)'
  <2>1. place'[o] = place[o] /\ venue'[o] = venue[o]
    BY <1>0, <1>2 DEF Submit, SubmitUnsupported, SubmitInvalid, SubmitValid, PlaceReturns, venueVars, TypeOK
  <2>2. QED
    BY <1>0, <2>1, GoesOn
<1>3. CASE Submit(o)
  <2>1. place[o] = "new" /\ venue[o] = "none"
    BY <1>0, <1>3 DEF Submit, FreshInv
  <2>2. CASE SubmitUnsupported(o) \/ SubmitInvalid(o)
    <3>1. Holds(events', RejectEvs(o))
      BY <1>0, <2>2, RejectQueued DEF SubmitUnsupported, SubmitInvalid
    <3>2. place'[o] = "done" /\ venue'[o] = "none"
      BY <1>0, <2>1, <2>2 DEF SubmitUnsupported, SubmitInvalid, TypeOK
    <3>3. QED
      BY <3>1, <3>2 DEF Answered, Awaited, Refused, Acknowledged, GivenUp, Cut
  <2>3. CASE SubmitValid(o)
    <3>1. place'[o] = "request" /\ venue'[o] = "enroute"
      BY <1>0, <2>3 DEF SubmitValid, TypeOK
    <3>2. QED
      BY <3>1 DEF Answered, Awaited, Refused, Acknowledged, GivenUp, Cut
  <2>4. QED
    BY <1>3, <2>2, <2>3 DEF Submit
<1>4. CASE PlaceReturns(o)
  <2>1. /\ venue'[o] = venue[o] /\ status'[o] = status[o]
        /\ place'[o] = IF Cut(o) THEN "lost" ELSE "done"
    BY <1>0, <1>4 DEF PlaceReturns, venueVars, ledgerVars, TypeOK
  <2>2. /\ Holds(events, RejectEvs(o)) => Holds(events', RejectEvs(o))
        /\ Holds(feed, Refusals(o)) => Holds(feed', Refusals(o))
    BY <1>0, OutsideGrows
  <2>3. CASE PlaceOk(o)
    <3>1. place[o] = "ok" /\ Holds(events', AcceptEvs(o))
      BY <1>0, <2>3, AcceptQueued DEF PlaceOk
    <3>2. place'[o] = "done"
      BY <2>1, <3>1 DEF Cut
    <3>3. QED
      BY <2>1, <2>2, <3>1, <3>2 DEF Answered, Awaited, Refused, Acknowledged, GivenUp, Cut
  <2>4. CASE PlaceFailed(o) \/ PlaceError(o)
    <3>1. place[o] \in {"error", "failed", "cut"} /\ Holds(events', RejectEvs(o))
      BY <1>0, <2>4, RejectQueued DEF PlaceFailed, PlaceError
    <3>2. ~Cut(o) => venue[o] \in {"none", "failed"}
      BY <1>0, <3>1 DEF RejInv, Dead, Cut
    <3>3. QED
      BY <2>1, <3>1, <3>2 DEF Answered, Awaited, Refused, Acknowledged, GivenUp, Cut
  <2>5. QED
    BY <1>4, <2>3, <2>4 DEF PlaceReturns
<1>5. ASSUME NEW p \in Orders, Commands(p) \/ Replies(p), ~Submit(p), ~PlaceReturns(p)
      PROVE  UNCHANGED <<place, venue>>
  BY <1>5 DEF Commands, Replies, CancelOrder, SweepNext, ModifyOrder, ModifyReturns, CancelReturns, venueVars
<1>6. UNCHANGED vars \/ CancelAllOrders => UNCHANGED <<place, venue>>
  BY DEF vars, clientVars, taskVars, venueVars, CancelAllOrders
<1>7. QED
  BY <1>1, <1>2, <1>3, <1>4, <1>5, <1>6

LEMMA GatewayAnswered ==
  ASSUME Proved, Calm, NEW o \in Orders, Answered(o), NEW p \in Orders,
         Gateway(p) \/ GatewayModify(p) \/ Faults(p) \/ \E c \in Callers : GatewayCancel(c, p)
  PROVE  Answered(o)'
<1>0. TypeOK /\ Outside(o) /\ o \in Trades /\ p \in Trades
  BY OutsideGateway DEF Proved, Trades
<1>1. CASE Faults(p)
  <2>1. UNCHANGED <<venue, status>>
    BY <1>1 DEF Faults, PlaceFault, CancelFault, ModifyFault, venueVars, ledgerVars
  <2>2. place'[o] = place[o] \/ (place[o] # "new" /\ place'[o] = "cut")
    BY <1>0, <1>1 DEF Faults, PlaceFault, CancelFault, ModifyFault, TypeOK
  <2>3. CASE place'[o] = place[o]
    BY <1>0, <2>1, <2>3, GoesOn
  <2>4. CASE place'[o] = "cut"
    BY <2>1, <2>4 DEF Answered, Awaited, Refused, Acknowledged, GivenUp, Cut
  <2>5. QED
    BY <2>2, <2>3, <2>4
<1>2. CASE Gateway(p) /\ p # o
  <2>1. place'[o] = place[o] /\ venue'[o] = venue[o]
    BY <1>0, <1>2 DEF Gateway, GatewayRefuse, GatewayFail, GatewayPlace, ReplyTo, TypeOK
  <2>2. QED
    BY <1>0, <2>1, GoesOn
<1>3. CASE Gateway(o)
  <2>1. venue[o] = "enroute" /\ (place[o] = "request" \/ Cut(o)) /\ UNCHANGED <<events, status>>
    BY <1>3 DEF Gateway, Answered, Awaited, ledgerVars
  <2>2. CASE place[o] = "request"
    <3>1. \/ venue'[o] = "none" /\ place'[o] = "error"
          \/ venue'[o] = "failed" /\ place'[o] = "failed"
          \/ venue'[o] = "pending" /\ place'[o] = "ok"
      BY <1>0, <1>3, <2>2 DEF Gateway, GatewayRefuse, GatewayFail, GatewayPlace, ReplyTo, TypeOK
    <3>2. QED
      BY <3>1 DEF Answered, Awaited, Refused, Acknowledged, GivenUp
  <2>3. CASE Cut(o)
    <3>1. venue'[o] \in {"none", "failed", "pending"} /\ place'[o] = place[o]
      BY <1>0, <1>3, <2>3 DEF Gateway, GatewayRefuse, GatewayFail, GatewayPlace, ReplyTo, Cut, TypeOK
    <3>2. QED
      BY <2>1, <2>3, <3>1 DEF Answered, Awaited, Refused, Acknowledged, GivenUp, Cut
  <2>4. QED
    BY <2>1, <2>2, <2>3
<1>4. CASE GatewayModify(p)
  BY <1>0, <1>4, GoesOn DEF GatewayModify
<1>5. ASSUME NEW c \in Callers, GatewayCancel(c, p)
      PROVE  Answered(o)'
  <2>1. UNCHANGED place /\ (UNCHANGED venue \/ (venue[p] = "working" /\ venue' = [venue EXCEPT ![p] = "cancelled"]))
    BY <1>5 DEF GatewayCancel
  <2>2. venue'[o] = venue[o] \/ (venue[o] = "working" /\ venue'[o] = "cancelled")
    BY <1>0, <2>1 DEF TypeOK
  <2>3. QED
    BY <1>0, <2>1, <2>2, GoesOn
<1>6. QED
  BY <1>1, <1>2, <1>3, <1>4, <1>5

LEMMA ExchangeAnswered ==
  ASSUME Proved, Calm, NEW o \in Orders, Answered(o), NEW t \in Trades, Exchange(t)
  PROVE  Answered(o)'
<1>0. TypeOK /\ Outside(o) /\ o \in Trades
  BY OutsideExchange DEF Proved, Trades
<1>1. UNCHANGED place
  BY DEF Exchange, ForeignPlace, VenueDecides, VenueDeal, VenueCancel, clientVars, taskVars
<1>2. CASE \/ venue'[o] = venue[o]
           \/ venue[o] \in {"pending", "working"} /\ venue'[o] \in {"working", "filled", "cancelled"}
  BY <1>0, <1>1, <1>2, GoesOn
<1>3. CASE VenueDecides(o) /\ venue'[o] = "failed"
  <2>1. PICK ok \in BOOLEAN : /\ venue' = [venue EXCEPT ![o] = IF ok THEN "working" ELSE "failed"]
                              /\ Emit(Msg("New", o, ok, 0))
    BY <1>3 DEF VenueDecides
  <2>2. ~ok /\ venue[o] = "pending"
    BY <1>0, <1>3, <2>1 DEF TypeOK, VenueDecides
  <2>3. Msg("New", o, FALSE, 0) \in Message
    BY <1>0 DEF Msg, Message, Ops
  <2>4. PICK m \in Message : m = Msg("New", o, FALSE, 0)
    BY <2>3
  <2>5. m \in Refusals(o)
    BY <2>4 DEF Refusals, Msg
  <2>6. ok = FALSE
    BY <2>2
  <2>7. feed' = Append(feed, m)
    BY <2>1, <2>4, <2>6 DEF Emit, Calm
  <2>8. Holds(feed', Refusals(o))
    BY <1>0, <2>5, <2>7, HoldsAppend DEF TypeOK
  <2>9. QED
    BY <1>1, <1>3, <2>2, <2>8 DEF Answered, Awaited, Refused, Acknowledged, GivenUp, Cut
<1>4. \/ venue'[o] = venue[o]
      \/ VenueDecides(t) /\ t = o /\ venue'[o] = "failed"
      \/ venue[o] \in {"pending", "working"} /\ venue'[o] \in {"working", "filled", "cancelled"}
  <2>1. CASE ForeignPlace(t)
    BY <1>0, <2>1, TokenAssumption DEF ForeignPlace, TypeOK
  <2>2. CASE VenueDecides(t)
    <3>1. PICK v \in {"working", "failed"} : venue' = [venue EXCEPT ![t] = v]
      BY <2>2 DEF VenueDecides
    <3>2. QED
      BY <1>0, <2>2, <3>1 DEF VenueDecides, TypeOK
  <2>3. CASE VenueDeal(t)
    <3>1. venue' \in {venue, [venue EXCEPT ![t] = "filled"]} /\ venue[t] = "working"
      BY <2>3 DEF VenueDeal
    <3>2. QED
      BY <1>0, <3>1 DEF TypeOK
  <2>4. CASE VenueCancel(t)
    BY <1>0, <2>4 DEF VenueCancel, TypeOK
  <2>5. QED
    BY <2>1, <2>2, <2>3, <2>4 DEF Exchange
<1>5. QED
  BY <1>2, <1>3, <1>4

LEMMA HearAnswered ==
  ASSUME Proved, NEW o \in Orders, ~WrittenOff(o), Delivery(o), Shown(o), Answered(o),
         HandleNew \/ HandleCancel \/ HandleUpdate \/ HandleDeal
  PROVE  Answered(o)'
<1> DEFINE m == Head(feed)
<1>0. TypeOK /\ MapInv
  BY DEF Proved
<1>1. /\ feed # <<>> /\ feed' = Tail(feed) /\ m \in Message
      /\ UNCHANGED <<status, venue, place>>
      /\ \E es \in Seq(Event) : Generate(es)
  <2>1. /\ feed # <<>> /\ feed' = Tail(feed) /\ m \in Message /\ UNCHANGED <<status, venue>>
        /\ \E es \in Seq(Event) : Generate(es)
    BY <1>0, Heard
  <2>2. UNCHANGED place
    BY DEF HandleNew, HandleCancel, HandleUpdate, HandleDeal, NextMessage, taskVars
  <2>3. QED
    BY <2>1, <2>2
<1>2. PICK es \in Seq(Event) : Generate(es)
  BY <1>1
<1>3. events \in Seq(Event) /\ events' = events \o es
  BY <1>0, <1>2 DEF TypeOK, Generate
<1>4. \A A : Holds(events, A) => Holds(events', A)
  BY <1>3, HoldsConcat
<1>5. \A A : Holds(feed, A) => m \in A \/ Holds(feed', A)
  BY <1>0, <1>1, HoldsTail DEF TypeOK
<1>6. Refused(o)'
  <2>1. SUFFICES ASSUME venue[o] \in {"none", "failed"}, status[o] # "REJECTED", m \in Refusals(o)
                 PROVE  Holds(events', RejectEvs(o))
    BY <1>1, <1>4, <1>5 DEF Answered, Refused
  <2>2. traded[o] = 0 /\ traded[o] \in Nat
    BY <2>1, Evidence DEF Delivery, Sized
  <2>3. status[o] \notin {"PARTIALLY_FILLED", "FILLED", "CANCELED"}
    <3>1. status[o] # "PARTIALLY_FILLED"
      BY <2>2, Evidence DEF Shown, Delivery
    <3>2. status[o] # "FILLED"
      BY <2>1, ClosedDone DEF Closed, ClosedStatuses
    <3>3. status[o] # "CANCELED"
      BY <2>1, Evidence DEF Delivery
    <3>4. QED
      BY <3>1, <3>2, <3>3
  <2>4. Resolve(o, Token[o]) = o /\ o # None
    BY <1>0, <2>1, <2>3, ResolveOwn, TokenAssumption DEF Closed, ClosedStatuses, Trades
  <2>5. HandleNew /\ m.op = "New" /\ m.trade = o /\ ~m.ok
    BY <2>1 DEF Refusals, HandleNew, HandleCancel, HandleUpdate, HandleDeal, NextMessage
  <2>6. Addressee = o
    BY <2>4, <2>5 DEF Addressee, TokenOf
  <2>7. RejectsNew(m, o)
    BY <2>3, <2>4, <2>5 DEF RejectsNew
  <2>8. Generate(<<Ev("rejected", o)>>)
    BY <2>5, <2>6, <2>7 DEF HandleNew, Generate
  <2>9. QED
    BY <1>0, <2>8, RejectQueued
<1>7. Awaited(o)' /\ Acknowledged(o)' /\ GivenUp(o)'
  BY <1>1, <1>4 DEF Answered, Awaited, Acknowledged, GivenUp, Cut
<1>8. QED
  BY <1>6, <1>7 DEF Answered

LEMMA EngineAnswered ==
  ASSUME Proved, Calm, NEW o \in Orders, ~WrittenOff(o), Delivery(o), Shown(o), Answered(o), Engine
  PROVE  Answered(o)'
<1> DEFINE e == Head(events)
<1>0. /\ TypeOK /\ events \in Seq(Event) /\ events # <<>> /\ events' = Tail(events)
      /\ UNCHANGED <<place, venue, feed>>
  BY EngineTakes DEF Proved, TypeOK, clientVars, taskVars, venueVars
<1>1. e \in Event /\ e.order \in Orders
  BY <1>0, FirstEvent
<1>2. status \in [Orders -> Statuses]
  BY <1>0 DEF TypeOK
<1>3. \A A : Holds(events, A) => e \in A \/ Holds(events', A)
  BY <1>0, HoldsTail
<1> HIDE DEF e
<1>4. /\ e \in RejectEvs(o) <=> e.type = "rejected" /\ e.order = o
      /\ e \in AcceptEvs(o) <=> e.type = "accepted" /\ e.order = o
  BY <1>1 DEF RejectEvs, AcceptEvs
<1>5. /\ status[o] = "REJECTED" => status'[o] = "REJECTED"
      /\ status[o] \notin {"INITIALIZED", "SUBMITTED"} => status'[o] \notin {"INITIALIZED", "SUBMITTED"}
      /\ e \in AcceptEvs(o) => status'[o] \notin {"INITIALIZED", "SUBMITTED"}
      /\ e \in RejectEvs(o) /\ status[o] \in {"INITIALIZED", "SUBMITTED", "ACCEPTED"} => status'[o] = "REJECTED"
  BY <1>0, <1>4, StatusMoves DEF e
<1>6. venue[o] \in {"none", "failed", "enroute"} => status[o] \in {"INITIALIZED", "SUBMITTED", "ACCEPTED", "REJECTED"}
  <2>1. SUFFICES ASSUME venue[o] \in {"none", "failed", "enroute"}
                 PROVE  status[o] \notin {"PARTIALLY_FILLED", "FILLED", "CANCELED"}
    BY <1>2 DEF Statuses
  <2>2. traded[o] = 0 /\ traded[o] \in Nat
    BY <2>1, Evidence DEF Delivery, Sized
  <2>3. status[o] # "PARTIALLY_FILLED"
    BY <2>2, Evidence DEF Shown, Delivery
  <2>4. status[o] # "FILLED"
    BY <2>1, ClosedDone DEF Closed, ClosedStatuses
  <2>5. status[o] # "CANCELED"
    BY <2>1, Evidence DEF Delivery
  <2>6. QED
    BY <2>3, <2>4, <2>5
<1>7. Awaited(o)'
  BY <1>0 DEF Answered, Awaited, Cut
<1>8. venue[o] \in {"none", "failed", "enroute"} /\ e \in RejectEvs(o) => status'[o] = "REJECTED"
  BY <1>5, <1>6
<1>9. Refused(o)' /\ GivenUp(o)'
  BY <1>0, <1>3, <1>5, <1>8 DEF Answered, Refused, GivenUp
<1>10. e \in RejectEvs(o) => status'[o] \notin {"INITIALIZED", "SUBMITTED"}
  BY <1>5
<1>11. Acknowledged(o)'
  BY <1>0, <1>3, <1>5, <1>10 DEF Answered, Acknowledged
<1>12. QED
  BY <1>7, <1>9, <1>11 DEF Answered

-----------------------------------------------------------------------------
(* The whole invariant, and the agreement it implies.                       *)

QuietInv ==
  NoGap => \A o \in Orders :
    WrittenOff(o) \/ (Shown(o) /\ Asked(o) /\ Agreement(o) /\ Answered(o))

\* One order, one step.
LEMMA OrderAnswered ==
  ASSUME Proved, Calm, NoGap', [Next]_vars,
         NEW o \in Orders, ~WrittenOff(o), Delivery(o), Shown(o), Answered(o)
  PROVE  Answered(o)'
<1>0. TypeOK
  BY DEF Proved
<1>1. CASE Engine
  BY <1>1, EngineAnswered
<1>2. CASE HandleNew \/ HandleCancel \/ HandleUpdate \/ HandleDeal
  BY <1>2, HearAnswered
<1>3. CASE RecheckDeal
  <2>1. UNCHANGED <<status, venue, place, events, feed>>
    BY <1>3 DEF RecheckDeal, taskVars, venueVars, ledgerVars
  <2>2. Awaited(o)' /\ Refused(o)' /\ Acknowledged(o)' /\ GivenUp(o)'
    BY <2>1 DEF Answered, Awaited, Refused, Acknowledged, GivenUp, Cut
  <2>3. QED
    BY <2>2 DEF Answered
<1>4. ~HandleReconnected
  BY <1>0, HeadMessage DEF HandleReconnected, NextMessage, Calm
<1>5. CASE UNCHANGED vars \/ CancelAllOrders \/ \E p \in Orders : Commands(p) \/ Replies(p)
  BY <1>5, TaskAnswered
<1>6. CASE \E p \in Orders : Gateway(p) \/ GatewayModify(p) \/ Faults(p) \/ \E c \in Callers : GatewayCancel(c, p)
  BY <1>6, GatewayAnswered
<1>7. CASE \E t \in Trades : Exchange(t)
  BY <1>7, ExchangeAnswered
<1>8. CASE DropLink \/ Reconnect \/ Restart \/ StartUp \/ \E i \in Slots : Reconcile(i)
  BY <1>0, <1>8, GapStep
<1>9. QED
  BY <1>1, <1>2, <1>3, <1>4, <1>5, <1>6, <1>7, <1>8 DEF Next, Callback

\* Every step keeps the invariant, of all orders.
LEMMA NextQuiet ==
  ASSUME Proved, TypeOK', DeliveryInv, QuietInv, [Next]_vars
  PROVE  QuietInv'
<1> SUFFICES ASSUME NoGap', NEW o \in Orders
             PROVE  WrittenOff(o)' \/ (Shown(o)' /\ Asked(o)' /\ Agreement(o)' /\ Answered(o)')
  BY DEF QuietInv
<1>1. NoGap
  BY GapStays DEF Proved
<1>2. Calm
  BY <1>1 DEF DeliveryInv
<1>3. CASE WrittenOff(o)
  BY <1>2, <1>3, WrittenOffStays
<1>4. CASE ~WrittenOff(o)
  <2>1. Delivery(o) /\ Shown(o) /\ Asked(o) /\ Agreement(o) /\ Answered(o)
    BY <1>1, <1>4 DEF DeliveryInv, QuietInv
  <2>2. Shown(o)' /\ Asked(o)' /\ Agreement(o)'
    BY <1>2, <1>4, <2>1, OrderQuiet
  <2>3. Answered(o)'
    BY <1>2, <1>4, <2>1, OrderAnswered
  <2>4. QED
    BY <2>2, <2>3
<1>5. QED
  BY <1>3, <1>4

\* It holds at the start, and implies the agreement.
LEMMA InitQuiet == Init => QuietInv
<1> SUFFICES ASSUME Init, NEW o \in Orders
             PROVE  Shown(o) /\ Asked(o) /\ Agreement(o) /\ Answered(o)
  BY DEF QuietInv
<1>1. Elems(feed) = {} /\ Elems(events) = {} /\ Len(feed) = 0 /\ Len(events) = 0
  BY ElemsEmpty DEF Init
<1>2. \A A : ~Holds(feed, A) /\ ~Holds(events, A)
  BY <1>1 DEF Holds
<1>3. /\ status[o] = "INITIALIZED" /\ known[o] = FALSE /\ qty[o] = Qty /\ fills[o] = {}
      /\ o \in Trades /\ venue[o] = "none" /\ size[o] = Qty /\ place[o] = "new" /\ modify[o] = "idle"
  BY DEF Init, Trades
<1>4. Shown(o) /\ Asked(o)
  BY <1>2, <1>3 DEF Shown, Asked
<1>5. EndHeard(o) /\ SizeHeard(o) /\ FillHeard(o) /\ LastComes(o)
  BY <1>3 DEF EndHeard, SizeHeard, FillHeard, LastComes
<1>6. Shrinking(o)
  BY <1>1, <1>2 DEF Shrinking, Before
<1>7. Answered(o)
  BY <1>3 DEF Answered, Awaited, Refused, Acknowledged, GivenUp
<1>8. QED
  BY <1>4, <1>5, <1>6, <1>7 DEF Agreement

LEMMA QuietImplies == Proved /\ DeliveryInv /\ QuietInv => QuietAgrees
<1> SUFFICES ASSUME Proved, DeliveryInv, QuietInv, NoGap, feed = <<>>, events = <<>>,
                    NEW o \in Orders, ~WrittenOff(o)
             PROVE  /\ venue[o] = "cancelled" => status[o] = "CANCELED"
                    /\ venue[o] = "filled" => status[o] = "FILLED"
                    /\ venue[o] = "working" => Cardinality(fills[o]) = traded[o] /\ qty[o] = size[o]
                    /\ venue[o] = "working" /\ traded[o] > 0 => status[o] = "PARTIALLY_FILLED"
                    /\ place[o] \in {"done", "lost"} =>
                         /\ venue[o] \in {"none", "failed"} => status[o] = "REJECTED"
                         /\ venue[o] \in {"pending", "working"} => status[o] \in {"ACCEPTED", "PARTIALLY_FILLED"}
  BY DEF QuietAgrees
<1>0. /\ TypeOK /\ Delivery(o) /\ Shown(o) /\ Asked(o) /\ Agreement(o) /\ Answered(o)
  BY DEF QuietInv, DeliveryInv, Proved
<1>1. \A A : ~Holds(feed, A) /\ ~Holds(events, A)
  BY ElemsEmpty DEF Holds
<1>2. \A n \in 1 .. traded[o] : <<o, n>> \in fills[o]
  <2>1. Elems(feed) = {} /\ Elems(events) = {}
    BY ElemsEmpty
  <2>2. QED
    BY <1>0, <2>1 DEF Delivery, Delivered, OnWay, Told
<1>3. /\ traded[o] \in Nat /\ IsFiniteSet(fills[o]) /\ Cardinality(fills[o]) \in Nat /\ status[o] \in Statuses
  BY <1>0, FS_CardinalityType DEF TypeOK, Trades
<1>4. Cardinality(fills[o]) = traded[o]
  <2>1. Cardinality(fills[o]) >= traded[o]
    BY <1>2, <1>3, SharesCount
  <2>2. QED
    BY <1>0, <2>1, FillsFull DEF Proved
<1>5. venue[o] = "cancelled" => status[o] = "CANCELED"
  BY <1>0, <1>1 DEF Agreement, EndHeard
<1>6. venue[o] = "filled" => status[o] = "FILLED"
  BY <1>0, <1>2 DEF Agreement, FillHeard
<1>7. venue[o] = "working" => qty[o] = size[o]
  BY <1>0, <1>1 DEF Agreement, SizeHeard
<1>8. venue[o] \in {"pending", "working"} => status[o] \notin {"FILLED", "CANCELED", "REJECTED"}
  BY <1>0, ClosedDone, Evidence DEF Closed, ClosedStatuses, Delivery
<1>9. venue[o] = "working" /\ traded[o] > 0 => status[o] = "PARTIALLY_FILLED"
  <2>1. SUFFICES ASSUME venue[o] = "working", traded[o] > 0 PROVE status[o] = "PARTIALLY_FILLED"
    OBVIOUS
  <2>2. fills[o] # {}
    <3>1. 1 \in 1 .. traded[o]
      BY <1>3, <2>1
    <3>2. QED
      BY <1>2, <3>1
  <2>3. QED
    BY <1>0, <1>8, <2>1, <2>2 DEF Shown
<1>10. ASSUME place[o] \in {"done", "lost"}
       PROVE  /\ venue[o] \in {"none", "failed"} => status[o] = "REJECTED"
              /\ venue[o] \in {"pending", "working"} => status[o] \in {"ACCEPTED", "PARTIALLY_FILLED"}
  <2>1. venue[o] \in {"none", "failed"} => status[o] = "REJECTED"
    BY <1>0, <1>1, <1>10 DEF Answered, Refused
  <2>2. venue[o] \in {"pending", "working"} => status[o] \notin {"INITIALIZED", "SUBMITTED"}
    BY <1>0, <1>1, <1>10 DEF Answered, Acknowledged
  <2>3. QED
    BY <1>3, <1>8, <2>1, <2>2 DEF Statuses
<1>11. QED
  BY <1>4, <1>5, <1>6, <1>7, <1>9, <1>10

\* While the connection holds, the ledger agrees with the exchange about every
\* order whenever nothing is on its way between them: no interleaving of the
\* place_order reply (_submit_order), the order events (_handle_order_event),
\* the deals (_handle_deal_event) and the engine's queue leaves an order
\* open, closed, short of a deal or with a quantity the exchange does not have,
\* unless the code has written it off because its place_order was cut.
THEOREM AgreementCorrect == Spec => []QuietAgrees
<1>1. Init => QuietInv
  BY InitQuiet
<1>2. Proved /\ Proved' /\ DeliveryInv /\ QuietInv /\ [Next]_vars => QuietInv'
  <2>1. Proved' => TypeOK'
    BY DEF Proved
  <2>2. QED
    BY <2>1, NextQuiet
<1>3. Proved /\ DeliveryInv /\ QuietInv => QuietAgrees
  BY QuietImplies
<1>4. QED
  BY <1>1, <1>2, <1>3, DeliveryHolds, PTL DEF Spec
=============================================================================
