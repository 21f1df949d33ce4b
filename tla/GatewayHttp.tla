----------------------------- MODULE GatewayHttp -----------------------------
(* One exchange of the HTTP client with the gateway (src/src/http/client.rs, *)
(* error.rs, query.rs, models.rs) and what its binding (src/src/python/http.rs) *)
(* hands to Python: the decoded reply, or a RuntimeError whatever went wrong. *)
(*                                                                           *)
(* A reply is [arrived, status, body]: did one arrive within the 30 seconds, *)
(* its HTTP status, and its body, a set of JSON objects (a singleton where   *)
(* the endpoint answers with one object).                                    *)
EXTENDS Instruments

(* The fields serde requires of the response to an order.                    *)

PlaceOrderResponse == {"trade_id", "code", "action", "status"}

\* get, get_with_params and send_json: three ways to build a request, one way
\* to read its reply. Every SinopacHttpError becomes the same RuntimeError.
Answer(reply, required) ==
  IF \/ ~reply.arrived                                        \* NetworkError
     \/ reply.status >= 400                                   \* GatewayError
     \/ \E row \in reply.body : ~Decodes(row, required)       \* JsonError
    THEN Err
    ELSE reply.body

(* Requests: the enumerations of src/src/common/enums.rs on the wire         *)

SinopacAction    == {"Buy", "Sell"}
SinopacPriceType == {"LMT", "MKT", "MKP"}
SinopacOrderType == {"ROD", "IOC", "FOK"}
SinopacOrderCond == {"Cash", "MarginTrading", "ShortSelling"}
SinopacOrderLot  == {"Common", "Odd", "IntradayOdd", "Fixing"}
SinopacOCType    == {"Auto", "New", "Cover", "DayTrade"}
SinopacMarket    == {"stock", "futures", "options"}

PlaceOrderRequest(Codes) ==
  [code : Codes, action : SinopacAction, price : Int, quantity : Int,
   price_type : SinopacPriceType, order_type : SinopacOrderType,
   order_cond : SinopacOrderCond, order_lot : SinopacOrderLot,
   octype : SinopacOCType, daytrade_short : BOOLEAN, market : SinopacMarket]

\* Option fields left out of the JSON when absent (skip_serializing_if).
UpdateOrderRequest ==
  [price : Int \cup {Err}, quantity : Int \cup {Err}]
=============================================================================
