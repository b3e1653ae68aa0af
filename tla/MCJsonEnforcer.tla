--------------------------- MODULE MCJsonEnforcer ---------------------------
(***************************************************************************)
(* Requests for JsonEnforcerCheck: those of the contract, and the README's *)
(* examples (their fields as far as a validator looks at them).            *)
(***************************************************************************)
EXTENDS JsonEnforcerCheck, TLC

MCName == STRING
MCTexts == SetOperations \cup MessageTypes \cup
           {"text", "set", "get", "delete", "set_action", "llm_message"}

ValidRequests ==
  {(<<"op">> :> op) @@ (<<"value", "action", "type">> :> type) @@ Minimal :
     op \in SetOperations, type \in MessageTypes}

OnKey(op) == (<<>> :> Object) @@ (<<"op">> :> op) @@ (<<"key">> :> "text")

ReadmeRequests ==
  {(<<"value">> :> "text") @@ OnKey("set"), OnKey("get"), OnKey("delete"),
   [path \in {p \in DOMAIN Minimal : Len(p) < 3 \/ p[2] # "metadata"}
             \ {<<"value", "action", "interaction", "content">>} |->
      CASE path = <<"op">> -> "set_action"
        [] path = <<"value", "action", "type">> -> "llm_message"
        [] OTHER -> Minimal[path]]}
=============================================================================
