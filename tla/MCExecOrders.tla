---------------------------- MODULE MCExecOrders ----------------------------
(* Instances of ExecOrders for TLC: the order o1 (and o2), one trade f1 of   *)
(* another session, and tokens that are the orders' own names.               *)
EXTENDS ExecOrders

CONSTANTS o1, o2, f1

OneOrder  == {o1}
TwoOrders == {o1, o2}
OneForeign == {f1}
NoOrders == {}

\* f1 carries a custom_field of another program.
Tokens == [t \in Trades |-> IF t \in Orders THEN t ELSE "other"]
=============================================================================
