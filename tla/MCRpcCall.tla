----------------------------- MODULE MCRpcCall ------------------------------
(* Small instances of RpcCall for TLC. *)
EXTENDS RpcCall

(* Order is the service of the examples; Stock is in a package. *)
MCServices ==
  [s \in {<<"Order">>, <<"shop", "Stock">>} |->
     IF s = <<"Order">> THEN {<<"makeOrder">>} ELSE {<<"take">>}]

Call(name, response) ==
  [method_name |-> name, parsed |-> TRUE, response |-> response]

(* Two that the server answers, one of them with a message of another      *)
(* version, and two that it refuses.                                       *)
MCRequests == {Call(<<"Order", "makeOrder">>, "message"),
               Call(<<"Order", "makeOrder">>, "foreign"),
               Call(<<"Order", "dropOrder">>, "message"),
               Call(<<"shop", "Stock", "take">>, "message")}
=============================================================================
