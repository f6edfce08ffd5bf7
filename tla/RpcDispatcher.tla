--------------------------- MODULE RpcDispatcher ----------------------------
(***************************************************************************)
(* RpcDispatcher (net/rpc/rpc_dispatcher.cc): the error code of the reply  *)
(* to a request, as a function of the request and the services.            *)
(*                                                                         *)
(* A full name is the sequence of its parts between the dots.  Of a        *)
(* request the model keeps the name of the method, whether its bytes can   *)
(* be parsed, and the response the method gives.                           *)
(***************************************************************************)
EXTENDS Integers, Sequences, FiniteSetsExt

CONSTANT m_service_map  \* the methods of each service, by its full name

ErrorCodes == {"0", "ERROR_FAILED_SERIALIZE", "ERROR_RPC_CALL_TIMEOUT",
               "ERROR_SERVICE_NOT_FOUND", "ERROR_METHOD_NOT_FOUND",
               "ERROR_PARSE_SERVICE_NAME", "ERROR_RPC_CHANNEL_INIT"}

(* The caller's side can parse a message, and not a foreign one; an        *)
(* incomplete one cannot be serialised.                                    *)
Responses == {"message", "foreign", "incomplete"}

(* The first dot ends the name of the service. *)
parseServiceFullname(full_name) ==
  [service_name |-> SubSeq(full_name, 1, 1),
   method_name  |-> SubSeq(full_name, 2, Len(full_name))]

MethodsOf(service_name) ==
  IF service_name \in DOMAIN m_service_map THEN m_service_map[service_name] ELSE {}

(* The checks in the order of dispatch, with the code each one reports. *)
Checks(request) ==
  LET name == parseServiceFullname(request.method_name)
  IN  << [ok   |-> Len(request.method_name) > 1,
          code |-> "ERROR_PARSE_SERVICE_NAME"],
         [ok   |-> name.service_name \in DOMAIN m_service_map,
          code |-> "ERROR_SERVICE_NOT_FOUND"],
         [ok   |-> name.method_name \in MethodsOf(name.service_name),
          code |-> "ERROR_METHOD_NOT_FOUND"],
         [ok   |-> request.parsed,     code |-> "ERROR_SERVICE_NOT_FOUND"],
         [ok   |-> request.response # "incomplete",
          code |-> "ERROR_SERVICE_NOT_FOUND"] >>

dispatch(request) ==
  LET failed == {i \in 1 .. 5 : ~Checks(request)[i].ok}
  IN  IF failed = {} THEN "0" ELSE Checks(request)[Min(failed)].code
=============================================================================
