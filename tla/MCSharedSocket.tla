--------------------------- MODULE MCSharedSocket ---------------------------
(* Model-checking instances of SharedSocket. *)
EXTENDS SharedSocket

CONSTANTS data, exec

Both == {data, exec}
=============================================================================
