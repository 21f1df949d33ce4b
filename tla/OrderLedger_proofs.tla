------------------------- MODULE OrderLedger_proofs -------------------------
(***************************************************************************)
(* What OrderLedger promises follows from its steps: proofs of Faithful    *)
(* and ClosedForGood, for any number of orders and deals.                  *)
(***************************************************************************)
EXTENDS OrderLedger, TLAPS

\* An order that is not at the exchange has no deals, and the ledger closes
\* only what the exchange is done with.
LedgerInv ==
  /\ TypeOK
  /\ Faithful
  /\ \A o \in Orders : standing[o] \in {"away", "refused"} => deals[o] = 0
  /\ \A o \in Orders : verdict[o] = "rejected" => standing[o] = "refused"
  /\ \A o \in Orders : verdict[o] = "canceled" => standing[o] = "ended"

LEMMA InitLedgerInv == Init => LedgerInv
  BY DEF Init, LedgerInv, TypeOK, Faithful

LEMMA NextLedgerInv ==
  ASSUME LedgerInv, [Next]_vars
  PROVE  LedgerInv'
<1>1. CASE UNCHANGED vars
  BY <1>1 DEF vars, LedgerInv, TypeOK, Faithful
<1>2. CASE Next
  <2>1. TypeOK'
    BY <1>2 DEF Next
  <2>2. ASSUME NEW o \in Orders
        PROVE  /\ verdict'[o] = "rejected" => deals'[o] = 0
               /\ booked'[o] \subseteq 1 .. deals'[o]
               /\ standing'[o] \in {"away", "refused"} => deals'[o] = 0
               /\ verdict'[o] = "rejected" => standing'[o] = "refused"
               /\ verdict'[o] = "canceled" => standing'[o] = "ended"
    <3>1. deals[o] \in Nat /\ booked[o] \subseteq 1 .. deals[o]
      BY DEF LedgerInv, TypeOK, Faithful
    <3>2. CASE Arrive(o) \/ Cancel(o)
      BY <3>1, <3>2 DEF Arrive, Cancel, SameInLedger, LedgerInv, Faithful
    <3>3. CASE Execute(o)
      <4>1. 1 .. deals[o] \subseteq 1 .. deals'[o]
        BY <3>1, <3>3 DEF Execute
      <4>2. QED
        BY <3>1, <3>3, <4>1 DEF Execute, SameInLedger, LedgerInv, Faithful
    <3>4. CASE Book(o)
      BY <3>1, <3>4 DEF Book, SameAtExchange, LedgerInv, Faithful
    <3>5. CASE Close(o)
      BY <3>1, <3>5 DEF Close, SameAtExchange, LedgerInv, Faithful
    <3>6. CASE SameAtExchange(o) /\ SameInLedger(o)
      BY <3>1, <3>6 DEF SameAtExchange, SameInLedger, LedgerInv, Faithful
    <3>7. QED
      BY <1>2, <3>2, <3>3, <3>4, <3>5, <3>6 DEF Next, Move
  <2>3. QED
    BY <2>1, <2>2 DEF LedgerInv, Faithful
<1>3. QED
  BY <1>1, <1>2

\* An order closed as rejected was never traded, and nothing is booked that was
\* not executed (_handle_order_event, _handle_deal_event).
THEOREM FaithfulCorrect == Spec => []Faithful
<1>1. LedgerInv => Faithful
  BY DEF LedgerInv
<1>2. QED
  BY <1>1, InitLedgerInv, NextLedgerInv, PTL DEF Spec

\* Once the ledger has closed an order, nothing is executed for it any more.
THEOREM ClosedCorrect == Spec => ClosedForGood
<1>1. ASSUME LedgerInv, [Next]_vars, NEW o \in Orders, verdict[o] # "none"
      PROVE  deals'[o] = deals[o]
  <2>1. verdict[o] \in {"rejected", "canceled"} /\ standing[o] \in {"refused", "ended"}
    BY <1>1 DEF LedgerInv, TypeOK
  <2>2. QED
    BY <1>1, <2>1 DEF Next, vars, Move, Arrive, Execute, Cancel, Book, Close, SameAtExchange
<1>2. LedgerInv /\ [Next]_vars
        => [\A o \in Orders : verdict[o] # "none" => deals'[o] = deals[o]]_vars
  BY <1>1
<1>3. QED
  BY <1>2, InitLedgerInv, NextLedgerInv, PTL DEF Spec, ClosedForGood
=============================================================================
