-------------------------------- MODULE Wire --------------------------------
(***************************************************************************)
(* What the two dg.* transports share: outcomes as a caller sees them, the *)
(* code table of errors.py and decode_response of transport.py.  A reply   *)
(* body is one of the classes decode_response tells apart: a result, an    *)
(* error (by its JSON-RPC code, written e32603 for -32603), a document     *)
(* that is not a valid reply, and one nested deeper than the parser goes.  *)
(***************************************************************************)

CODE_KINDS ==
    [ e32000 |-> "identity",
      e32001 |-> "request_too_large", e32002 |-> "request_too_large",
      e32600 |-> "invalid_params",    e32602 |-> "invalid_params",
      e32601 |-> "unsupported_operation",
      e32006 |-> "busy",
      e32009 |-> "banned",
      e32010 |-> "refused", e32012 |-> "refused",
      e32013 |-> "refused", e32014 |-> "refused" ]

(* e32603 is the gate's own internal failure; "other" any code not listed. *)
Codes == DOMAIN CODE_KINDS \cup {"e32603", "other"}

kind_of_code(code) ==
    IF code \in DOMAIN CODE_KINDS THEN CODE_KINDS[code] ELSE "remote_error"

HTTP_KINDS ==
    [status \in {401, 403, 413, 429, 503} |->
        CASE status = 401 -> "auth"
          [] status = 403 -> "scope"
          [] status = 413 -> "request_too_large"
          [] OTHER -> "busy"]

kind_of_status(status) ==
    IF status \in DOMAIN HTTP_KINDS THEN HTTP_KINDS[status] ELSE "remote_error"

(* errors.KINDS: what a caller is told it has to handle. *)
KINDS ==
    { "unavailable", "timeout", "unsupported_transport", "invalid_response",
      "request_too_large", "response_too_large", "writes_disabled",
      "forbidden_operation", "page_limit", "redirect_refused", "identity",
      "invalid_params", "unsupported_operation", "busy", "banned", "refused",
      "remote_error", "auth", "scope", "unauthorized", "forbidden", "tool_error" }

(* Raised past the taxonomy: decode_response does not catch RecursionError,
   nor HttpTransport the OverflowError of an infinite Retry-After. *)
Escapes == {"RecursionError", "OverflowError"}

Outcomes ==
    [kind : KINDS \cup Escapes \cup {"pending", "result", "ValueError"}, unknown : BOOLEAN]

Pending == [kind |-> "pending", unknown |-> FALSE]
Success == [kind |-> "result", unknown |-> FALSE]
Failure(kind, unknown) == [kind |-> kind, unknown |-> unknown]

Bodies == {"result", "malformed", "deep"} \cup Codes

(* A refusal code says the request changed nothing; an internal failure and an
   unreadable reply say nothing either way. *)
AfterBodies == {"result", "e32603", "malformed", "deep"}
RefusalBodies == Bodies \ {"result"}

decode_response(body, writing) ==
    IF body = "result" THEN Success
    ELSE IF body \in Codes
         THEN Failure(kind_of_code(body), writing /\ body = "e32603")
    ELSE IF body = "deep" THEN Failure("RecursionError", FALSE)
    ELSE Failure("invalid_response", writing)

(* What an outcome tells the caller, in the words of module GateCall. *)
StatusOf(returned, o) ==
    IF ~returned THEN "open"
    ELSE IF o.kind = "result" THEN "ok"
    ELSE IF o.kind \in Escapes THEN "escaped"
    ELSE IF o.unknown THEN "unknown"
    ELSE "failed"

=============================================================================
