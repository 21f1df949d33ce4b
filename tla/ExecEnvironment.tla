--------------------------- MODULE ExecEnvironment ---------------------------
(***************************************************************************)
(* What the execution client depends on and the repository does not hold:  *)
(* the NautilusTrader engine, the SinoPac gateway and the exchange behind  *)
(* it. Each definition says what the client's code relies on, and leaves   *)
(* every choice the code cannot rule out open.                             *)
(***************************************************************************)
EXTENDS ExecState

-----------------------------------------------------------------------------
(* The engine (external): events are queued and applied one by one; an     *)
(* event the order state machine does not allow is logged and dropped.     *)

TargetStatus == [submitted |-> "SUBMITTED", accepted |-> "ACCEPTED",
                 rejected |-> "REJECTED", canceled |-> "CANCELED"]

Legal == ({"INITIALIZED"} \X {"SUBMITTED", "ACCEPTED", "REJECTED", "CANCELED"})
    \cup ({"SUBMITTED"} \X {"ACCEPTED", "REJECTED", "CANCELED", "PARTIALLY_FILLED", "FILLED"})
    \cup ({"ACCEPTED"} \X {"REJECTED", "CANCELED", "PARTIALLY_FILLED", "FILLED"})
    \cup ({"PARTIALLY_FILLED"} \X {"CANCELED", "PARTIALLY_FILLED", "FILLED"})
    \cup ({"CANCELED"} \X {"PARTIALLY_FILLED", "FILLED"})

NextEvent(types) ==
  /\ events # <<>>
  /\ Head(events).type \in types
  /\ events' = Tail(events)
  /\ UNCHANGED <<clientVars, venueVars, link, feed, used, inferred>>

EngineMove ==
  /\ NextEvent(DOMAIN TargetStatus)
  /\ LET e == Head(events)
         moved == <<status[e.order], TargetStatus[e.type]>> \in Legal
     IN /\ status' = IF moved THEN [status EXCEPT ![e.order] = TargetStatus[e.type]]
                     ELSE status
        /\ known' = [known EXCEPT ![e.order] = @ \/ (moved /\ e.type \in {"accepted", "canceled"})]
  /\ UNCHANGED <<qty, fills>>

EngineFill ==
  /\ NextEvent({"filled"})
  /\ LET e == Head(events)
         o == e.order
         target == IF Filled(o) + 1 >= qty[o] THEN "FILLED" ELSE "PARTIALLY_FILLED"
         moved == <<status[o], target>> \in Legal /\ e.id \notin fills[o]
     IN /\ status' = IF moved THEN [status EXCEPT ![o] = target] ELSE status
        /\ fills' = IF moved THEN [fills EXCEPT ![o] = @ \cup {e.id}] ELSE fills
        /\ known' = [known EXCEPT ![o] = @ \/ moved]
  /\ UNCHANGED qty

EngineUpdate ==
  /\ NextEvent({"updated"})
  /\ LET e == Head(events)
         moved == status[e.order] \in {"ACCEPTED", "PARTIALLY_FILLED"}
     IN /\ qty' = IF moved THEN [qty EXCEPT ![e.order] = e.n] ELSE qty
        /\ known' = [known EXCEPT ![e.order] = @ \/ moved]
  /\ UNCHANGED <<status, fills>>

\* OrderCancelRejected and OrderModifyRejected leave the order as it was.
EngineNote ==
  /\ NextEvent({"cancel_rejected", "modify_rejected"})
  /\ UNCHANGED <<status, known, qty, fills>>

Engine == EngineMove \/ EngineFill \/ EngineUpdate \/ EngineNote

-----------------------------------------------------------------------------
(* The gateway and the exchange (external). *)

\* The reply finds a waiting client unless the client gave up before.
ReplyTo(o, leg) ==
  place' = [place EXCEPT ![o] = IF @ = "request" THEN leg ELSE @]

\* HTTP 422, or a request that never arrived.
GatewayRefuse(o) ==
  /\ venue' = [venue EXCEPT ![o] = "none"]
  /\ ReplyTo(o, "error")
  /\ UNCHANGED feed

\* HTTP 200 with status Failed; the order event may be sent as well.
GatewayFail(o) ==
  /\ venue' = [venue EXCEPT ![o] = "failed"]
  /\ ReplyTo(o, "failed")
  /\ UNCHANGED feed \/ Emit(Msg("New", o, FALSE, 0))

\* HTTP 200 with PendingSubmit: the exchange decides later.
GatewayPlace(o) ==
  /\ venue' = [venue EXCEPT ![o] = "pending"]
  /\ ReplyTo(o, "ok")
  /\ UNCHANGED feed

Gateway(o) ==
  /\ venue[o] = "enroute"
  /\ GatewayRefuse(o) \/ GatewayFail(o) \/ GatewayPlace(o)
  /\ UNCHANGED <<map, cancel, modify, sweep, recheck, reconVars, events, ledgerVars,
                 size, traded, link, used>>

\* Another session on the account places an order.
ForeignPlace(t) ==
  /\ t \in Foreign
  /\ venue[t] = "none"
  /\ venue' = [venue EXCEPT ![t] = "pending"]
  /\ UNCHANGED <<clientVars, events, ledgerVars, size, traded, link, feed, used>>

VenueDecides(t) ==
  /\ venue[t] = "pending"
  /\ \E ok \in BOOLEAN :
       /\ venue' = [venue EXCEPT ![t] = IF ok THEN "working" ELSE "failed"]
       /\ Emit(Msg("New", t, ok, 0))
  /\ UNCHANGED <<clientVars, events, ledgerVars, size, traded, link, used>>

VenueDeal(t) ==
  /\ venue[t] = "working"
  /\ traded' = [traded EXCEPT ![t] = @ + 1]
  /\ venue' = IF traded[t] + 1 = size[t] THEN [venue EXCEPT ![t] = "filled"] ELSE venue
  /\ Emit(Msg("Deal", t, TRUE, traded[t] + 1))
  /\ UNCHANGED <<clientVars, events, ledgerVars, size, link, used>>

\* An IOC remainder, the end of the session, or another session's cancel.
VenueCancel(t) ==
  /\ venue[t] = "working"
  /\ venue' = [venue EXCEPT ![t] = "cancelled"]
  /\ Emit(Msg("Cancel", t, TRUE, 0))
  /\ UNCHANGED <<clientVars, events, ledgerVars, size, traded, link, used>>

\* cancel_order: done, accepted and refused later, or refused at once.
GatewayCancel(c, o) ==
  /\ cancel[c][o] = "request"
  /\ \/ /\ venue[o] = "working"
        /\ venue' = [venue EXCEPT ![o] = "cancelled"]
        /\ Emit(Msg("Cancel", o, TRUE, 0))
        /\ cancel' = WithLeg(c, o, "ok")
     \/ /\ Emit(Msg("Cancel", o, FALSE, 0))
        /\ cancel' = WithLeg(c, o, "ok")
        /\ UNCHANGED venue
     \/ /\ cancel' = WithLeg(c, o, "error")
        /\ UNCHANGED <<venue, feed>>
  /\ UNCHANGED <<map, place, modify, sweep, recheck, reconVars, events, ledgerVars,
                 size, traded, link, used>>

\* update_order: a new quantity, or the same one with a new price.
GatewayModify(o) ==
  /\ modify[o] = "request"
  /\ \/ /\ venue[o] = "working"
        /\ \E n \in traded[o] + 1 .. size[o] :
             /\ size' = [size EXCEPT ![o] = n]
             /\ Emit(Msg("Update", o, TRUE, n))
        /\ modify' = [modify EXCEPT ![o] = "ok"]
     \/ /\ Emit(Msg("Update", o, FALSE, 0))
        /\ modify' = [modify EXCEPT ![o] = "ok"]
        /\ UNCHANGED size
     \/ /\ modify' = [modify EXCEPT ![o] = "error"]
        /\ UNCHANGED <<size, feed>>
  /\ UNCHANGED <<map, place, cancel, sweep, recheck, reconVars, events, ledgerVars,
                 venue, traded, link, used>>

\* A timeout or a broken connection after the request left the client.
PlaceFault(o) ==
  /\ TransportFaults
  /\ place[o] \in {"request", "ok", "failed"}
  /\ place' = [place EXCEPT ![o] = "cut"]
  /\ UNCHANGED <<map, cancel, modify, sweep, recheck, reconVars, events, ledgerVars,
                 venueVars, link, feed, used>>

CancelFault(c, o) ==
  /\ TransportFaults
  /\ cancel[c][o] \in {"request", "ok"}
  /\ cancel' = WithLeg(c, o, "error")
  /\ UNCHANGED <<map, place, modify, sweep, recheck, reconVars, events, ledgerVars,
                 venueVars, link, feed, used>>

ModifyFault(o) ==
  /\ TransportFaults
  /\ modify[o] \in {"request", "ok"}
  /\ modify' = [modify EXCEPT ![o] = "error"]
  /\ UNCHANGED <<map, place, cancel, sweep, recheck, reconVars, events, ledgerVars,
                 venueVars, link, feed, used>>
=============================================================================
