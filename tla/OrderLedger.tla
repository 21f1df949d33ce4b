---------------------------- MODULE OrderLedger -----------------------------
(* What the order path promises of each order, whatever happens to its       *)
(* requests, messages and processes: the exchange and the ledger each move    *)
(* on their own, and the ledger books only what was executed, once, and gives *)
(* an order up only after the exchange has. It may lag behind for ever.       *)
(* ExecOrders implements it (ExecOrders!Ledger, LedgerRefinement_proofs).     *)
EXTENDS Integers

CONSTANT Orders

VARIABLES
  standing, \* where each order stands at the exchange
  deals,    \* its executions: deals 1 .. deals[o]
  booked,   \* those in the ledger
  verdict   \* "none", or what the ledger has closed the order as

vars == <<standing, deals, booked, verdict>>

TypeOK ==
  /\ standing \in [Orders -> {"away", "open", "ended", "refused"}]
  /\ deals \in [Orders -> Nat]
  /\ booked \in [Orders -> SUBSET Nat]
  /\ verdict \in [Orders -> {"none", "rejected", "canceled"}]

Init ==
  /\ standing = [o \in Orders |-> "away"]
  /\ deals = [o \in Orders |-> 0]
  /\ booked = [o \in Orders |-> {}]
  /\ verdict = [o \in Orders |-> "none"]

SameAtExchange(o) == standing'[o] = standing[o] /\ deals'[o] = deals[o]
SameInLedger(o)   == booked'[o] = booked[o] /\ verdict'[o] = verdict[o]

\* The exchange takes or refuses the order, or never sees it.
Arrive(o) ==
  /\ standing[o] = "away" /\ standing'[o] \in {"open", "refused"}
  /\ deals'[o] = deals[o]
  /\ SameInLedger(o)

Execute(o) ==
  /\ standing[o] = "open" /\ standing'[o] \in {"open", "ended"}
  /\ deals'[o] = deals[o] + 1
  /\ SameInLedger(o)

Cancel(o) ==
  /\ standing[o] = "open" /\ standing'[o] = "ended"
  /\ deals'[o] = deals[o]
  /\ SameInLedger(o)

\* A late deal may still reach an order closed as cancelled, and reopens it.
Book(o) ==
  /\ verdict[o] # "rejected"
  /\ \E n \in 1 .. deals[o] : n \notin booked[o] /\ booked'[o] = booked[o] \cup {n}
  /\ verdict'[o] = "none"
  /\ SameAtExchange(o)

Close(o) ==
  /\ verdict[o] = "none"
  /\ \/ standing[o] = "refused" /\ verdict'[o] = "rejected"
     \/ standing[o] = "ended"   /\ verdict'[o] = "canceled"
  /\ booked'[o] = booked[o]
  /\ SameAtExchange(o)

Move(o) == Arrive(o) \/ Execute(o) \/ Cancel(o) \/ Book(o) \/ Close(o)

\* Orders move independently; one reconciliation may close several at once.
Next ==
  /\ TypeOK'
  /\ \A o \in Orders : Move(o) \/ (SameAtExchange(o) /\ SameInLedger(o))

Spec == Init /\ [][Next]_vars

-----------------------------------------------------------------------------
(* An order the ledger has closed as rejected was never traded, and nothing   *)
(* is booked that was not executed: strategies neither lose sight of shares   *)
(* nor hold shares they do not have (execution.py 728-781, 783-842).          *)
Faithful ==
  \A o \in Orders :
    /\ verdict[o] = "rejected" => deals[o] = 0
    /\ booked[o] \subseteq 1 .. deals[o]

(* Once the ledger has closed an order, nothing is executed for it any more.  *)
ClosedForGood ==
  [][\A o \in Orders : verdict[o] # "none" => deals'[o] = deals[o]]_vars
=============================================================================
