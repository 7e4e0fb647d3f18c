------------------------------ MODULE McpCall ------------------------------
(***************************************************************************)
(* One tool call of a GateClient through HttpMcpTransport (client.py       *)
(* 290-436): POST /mcp with a deadline that is re-armed before every read, *)
(* against a gate or an intermediary that may answer late, in part, too    *)
(* much, wrongly or never.                                                 *)
(*                                                                         *)
(* The deadline is set before connect(), but connect() itself, its TLS     *)
(* handshake included, only knows the timeout it was constructed with; the *)
(* remaining budget is looked at again when it has returned.  The request  *)
(* head fits the buffer of a fresh socket, so the one send that can block  *)
(* is the body's.                                                          *)
(*                                                                         *)
(* A reply is a head (one unit) and then size - 1 bytes of body.           *)
(***************************************************************************)
EXTENDS Naturals

CONSTANTS
    ToolsTried,   \* the tools the caller may ask for, in the tier or not
    Timeout,      \* the transport's timeout, in ticks
    MaxBytes,     \* max_response_bytes
    ReplySizes,   \* the lengths of replies, head included
    Addresses,    \* how many addresses the host resolves to
    Tls           \* the endpoint is https

ASSUME TimeoutAssumption == Timeout \in Nat \ {0}
ASSUME MaxBytesAssumption == MaxBytes \in Nat \ {0}
ASSUME ReplySizesAssumption == ReplySizes \subseteq Nat \ {0}
ASSUME AddressesAssumption == Addresses \in Nat \ {0}
ASSUME TlsAssumption == Tls \in BOOLEAN

(* client._TOOLS: the tools of the client tier and which of them write. *)
WriteTools == { "doublegate.remember", "doublegate.rank", "doublegate.hide",
                "doublegate.ban" }
TOOLS == WriteTools \cup
         { "doublegate.recall", "doublegate.status", "doublegate.why",
           "doublegate.tip", "doublegate.pending" }

VARIABLES
    pc,           \* where the caller's thread is
    allow_writes, \* the transport's switch
    tool,         \* the tool asked for
    fits,         \* the encoded request is within max_request_bytes
    tries,        \* connection attempts made, one per address
    elapsed,      \* ticks since the deadline was set
    timer,        \* what the current socket operation may still take
    got,          \* units of the reply read
    outcome,      \* what the caller sees
    arrived, effects, reply, sent, hung   \* the far end, module Gate

gateVars == <<arrived, effects, reply, sent, hung>>
clientVars == <<pc, allow_writes, tool, fits, tries, elapsed, timer, got, outcome>>
vars == <<pc, allow_writes, tool, fits, tries, elapsed, timer, got, outcome,
          arrived, effects, reply, sent, hung>>

-----------------------------------------------------------------------------
(* Replies and what the caller makes of them. *)

(* A 200 carries the answer of the tool; the classes are those _parse, call and
   GateClient tell apart: an error code, no JSON-RPC at all, a tool error, no
   structured half, a structured half of another shape. *)
Codes == {"e32601", "e32602", "e32603", "other"}
Bodies == {"result", "isError", "unstructured", "misshaped", "malformed", "deep"} \cup Codes

(* A refusal code says the tool changed nothing; a tool error, an internal
   failure and an unreadable answer say nothing either way. *)
AfterBodies == Bodies \ {"e32601", "e32602", "other"}
RefusalBodies == Bodies \ {"result"}

(* External: statuses of a gate or a proxy that did not run the tool. *)
DoorRefusals == {202, 302, 401, 403, 404, 405, 413, 429, 500}

Answers(statuses, bodies) ==
    [status : statuses, body : bodies, json : BOOLEAN, size : ReplySizes]

AfterReplies == Answers({200}, AfterBodies) \cup Answers({202, 500}, {"malformed"})
RefusalReplies == Answers({200}, RefusalBodies) \cup Answers(DoorRefusals, {"malformed"})
ReadReplies == Answers({200}, Bodies) \cup Answers(DoorRefusals, {"malformed"})
ProxyReplies == Answers({200, 404, 502, 504}, {"malformed"})
NoReply == [status |-> 0, body |-> "none", json |-> FALSE, size |-> 0]

Redirects == {301, 302, 303, 307, 308}

Kinds == { "pending", "result", "ValueError", "writes_disabled", "request_too_large",
           "timeout", "unavailable", "redirect_refused", "response_too_large",
           "unauthorized", "forbidden", "unsupported_operation",
           "invalid_response", "remote_error", "tool_error" }
Outcomes == [kind : Kinds, unknown : BOOLEAN]
Failure(kind, unknown) == [kind |-> kind, unknown |-> unknown]
Pending == Failure("pending", FALSE)
Success == Failure("result", FALSE)

(* Faulty: a tool error taken for a refusal. *)
ParsedToolErrorKnown(body, writing) ==
    CASE body = "result" -> Success
      [] body = "isError" -> Failure("tool_error", FALSE)
      [] OTHER -> Failure("remote_error", writing)

(* _parse, then the checks of call and of the GateClient method above it. *)
Parsed(body, writing) ==
    CASE body = "result" -> Success
      [] body = "isError" -> Failure("tool_error", writing)
      [] body \in {"e32601", "e32602"} -> Failure("unsupported_operation", FALSE)
      [] body \in {"e32603", "other"} ->
            Failure("remote_error", writing /\ body = "e32603")
      [] OTHER -> Failure("invalid_response", writing)

DoorKinds ==
    [status \in {401, 403, 405, 413} |->
        CASE status = 401 -> "unauthorized"
          [] status = 403 -> "forbidden"
          [] status = 405 -> "unsupported_operation"
          [] status = 413 -> "request_too_large"]

(* _rpc after the read: the size, the statuses one by one, the media type.  A
   body cut short does not parse. *)
Verdict(r, units, writing) ==
    IF units - 1 > MaxBytes THEN Failure("response_too_large", writing)
    ELSE IF r.status \in DOMAIN DoorKinds THEN Failure(DoorKinds[r.status], FALSE)
    ELSE IF r.status = 202 THEN Failure("invalid_response", writing)
    ELSE IF r.status # 200 THEN Failure("remote_error", writing)
    ELSE IF ~r.json \/ units < r.size THEN Failure("invalid_response", writing)
    ELSE Parsed(r.body, writing)

-----------------------------------------------------------------------------
G == INSTANCE Gate

Writing == tool \in WriteTools
Blocking == {"connect", "handshake", "send", "head", "body"}

TypeOK ==
    /\ pc \in Blocking \cup {"admit", "encode", "classify", "returned"}
    /\ allow_writes \in BOOLEAN
    /\ tool \in ToolsTried
    /\ fits \in BOOLEAN
    /\ tries \in 0 .. Addresses
    /\ elapsed \in Nat
    /\ timer \in 0 .. Timeout
    /\ got \in 0 .. (MaxBytes + 2)
    /\ outcome \in Outcomes
    /\ G!GateTypeOK

Init ==
    /\ pc = "admit"
    /\ allow_writes \in BOOLEAN
    /\ tool \in ToolsTried
    /\ fits \in BOOLEAN
    /\ tries = 0
    /\ elapsed = 0
    /\ timer = 0
    /\ got = 0
    /\ outcome = Pending
    /\ G!GateInit

(* Faulty: every operation gets the whole timeout again. *)
RemainingPerOperation == Timeout

Remaining == Timeout - elapsed

Return(o) ==
    /\ pc' = "returned"
    /\ outcome' = o

(* sending is set before connect() is called: every wire error says writing. *)
Raised(kind) == Failure(kind, Writing)

(* A step that may block, with the whole timeout or with what remains of it. *)
Block(next, allowed) ==
    /\ pc' = next
    /\ timer' = allowed
    /\ UNCHANGED outcome

Arm(next) ==
    IF Remaining > 0
    THEN Block(next, Remaining)
    ELSE /\ Return(Raised("timeout"))
         /\ UNCHANGED timer

Admit ==
    /\ pc = "admit"
    /\ \/ /\ tool \notin TOOLS
          /\ Return(Failure("ValueError", FALSE))
       \/ /\ tool \in TOOLS
          /\ Writing /\ ~allow_writes
          /\ Return(Failure("writes_disabled", FALSE))
       \/ /\ tool \in TOOLS
          /\ Writing => allow_writes
          /\ pc' = "encode"
          /\ UNCHANGED outcome
    /\ UNCHANGED <<allow_writes, tool, fits, tries, elapsed, timer, got, gateVars>>

(* The request is bounded, the deadline set, the connection object built with
   the whole timeout. *)
Encode ==
    /\ pc = "encode"
    /\ \/ /\ ~fits
          /\ Return(Failure("request_too_large", FALSE))
          /\ UNCHANGED <<timer, tries>>
       \/ /\ fits
          /\ Return(Failure("ValueError", FALSE))  \* not JSON
          /\ UNCHANGED <<timer, tries>>
       \/ /\ fits
          /\ Block("connect", Timeout)
          /\ tries' = 1
    /\ UNCHANGED <<allow_writes, tool, fits, elapsed, got, gateVars>>

(* create_connection tries the addresses in turn; the last error is raised. *)
NextAddress(kind) ==
    IF tries < Addresses
    THEN /\ Block("connect", Timeout)
         /\ tries' = tries + 1
    ELSE /\ Return(Raised(kind))
         /\ UNCHANGED <<timer, tries>>

(* connect() goes on to the handshake, under the timeout it was built with. *)
Connect ==
    /\ pc = "connect"
    /\ IF Tls THEN Block("handshake", Timeout) ELSE Arm("send")
    /\ UNCHANGED <<allow_writes, tool, fits, tries, elapsed, got, gateVars>>

ConnectFails ==
    /\ pc = "connect"
    /\ NextAddress("unavailable")
    /\ UNCHANGED <<allow_writes, tool, fits, elapsed, got, gateVars>>

Handshake ==
    /\ pc = "handshake"
    /\ Arm("send")
    /\ UNCHANGED <<allow_writes, tool, fits, tries, elapsed, got, gateVars>>

Send ==
    /\ pc = "send"
    /\ arrived' = arrived + 1
    /\ Arm("head")
    /\ UNCHANGED <<allow_writes, tool, fits, tries, elapsed, got,
                   effects, reply, sent, hung>>

(* A broken handshake or send; of the latter the gate may have it all. *)
WireFails ==
    /\ pc \in {"handshake", "send"}
    /\ Return(Raised("unavailable"))
    /\ \/ /\ pc = "send"
          /\ arrived' = arrived + 1
       \/ UNCHANGED arrived
    /\ UNCHANGED <<allow_writes, tool, fits, tries, elapsed, timer, got,
                   effects, reply, sent, hung>>

(* Faulty: a timeout for the connection only, the reads wait for ever. *)
ExpireConnecting ==
    /\ pc = "connect"
    /\ timer = 0
    /\ NextAddress("timeout")
    /\ UNCHANGED <<allow_writes, tool, fits, elapsed, got, gateVars>>

(* The armed timeout runs out; on a connection attempt it only ends that one. *)
Expire ==
    /\ pc \in Blocking
    /\ timer = 0
    /\ \/ /\ pc = "connect"
          /\ NextAddress("timeout")
          /\ UNCHANGED arrived
       \/ /\ pc # "connect"
          /\ Return(Raised("timeout"))
          /\ UNCHANGED <<timer, tries>>
          /\ \/ /\ pc = "send"
                /\ arrived' = arrived + 1
             \/ UNCHANGED arrived
    /\ UNCHANGED <<allow_writes, tool, fits, elapsed, got, effects, reply, sent, hung>>

(* getresponse() skips interim 100 answers; each read re-arms the timer. *)
Interim ==
    /\ pc = "head"
    /\ ~hung
    /\ Arm("head")
    /\ UNCHANGED <<allow_writes, tool, fits, tries, elapsed, got, gateVars>>

(* The head is in: a redirect is refused here, before any body is read. *)
Head ==
    /\ pc = "head"
    /\ sent >= 1
    /\ got' = 1
    /\ IF reply.status \in Redirects
       THEN /\ Return(Failure("redirect_refused", FALSE))
            /\ UNCHANGED timer
       ELSE Arm("body")
    /\ UNCHANGED <<allow_writes, tool, fits, tries, elapsed, gateVars>>

(* read1: what one recv produced; the budget is looked at before the next. *)
Body ==
    /\ pc = "body"
    /\ got < sent
    /\ got < MaxBytes + 2
    /\ got' = got + 1
    /\ Arm("body")
    /\ UNCHANGED <<allow_writes, tool, fits, tries, elapsed, gateVars>>

(* The loop ends at the length of the body, at the cap plus one, or at EOF. *)
BodyEnds ==
    /\ pc = "body"
    /\ \/ got = reply.size
       \/ got = MaxBytes + 2
       \/ hung /\ got = sent
    /\ pc' = "classify"
    /\ UNCHANGED <<allow_writes, tool, fits, tries, elapsed, timer, got, outcome, gateVars>>

(* Closed before the status line, or reset. *)
PeerGone ==
    /\ pc \in {"head", "body"}
    /\ hung
    /\ Return(Raised("unavailable"))
    /\ UNCHANGED <<allow_writes, tool, fits, tries, elapsed, timer, got, gateVars>>

Classify ==
    /\ pc = "classify"
    /\ Return(Verdict(reply, got, Writing))
    /\ UNCHANGED <<allow_writes, tool, fits, tries, elapsed, timer, got, gateVars>>

Client ==
    \/ Admit
    \/ Encode
    \/ Connect
    \/ ConnectFails
    \/ Handshake
    \/ Send
    \/ WireFails
    \/ Expire
    \/ Interim
    \/ Head
    \/ Body
    \/ BodyEnds
    \/ PeerGone
    \/ Classify

Tick ==
    /\ pc \in Blocking
    /\ timer > 0
    /\ timer' = timer - 1
    /\ elapsed' = elapsed + 1
    /\ UNCHANGED <<pc, allow_writes, tool, fits, tries, got, outcome, gateVars>>

Far == G!GateNext(Writing) /\ UNCHANGED clientVars

Next == Client \/ Tick \/ Far

Spec == Init /\ [][Next]_vars

(* The thread runs and time passes; of the far end nothing is assumed. *)
FairSpec == Spec /\ WF_vars(Client) /\ WF_vars(Tick)

-----------------------------------------------------------------------------
(* What the caller has been told, in the words of module GateCall. *)
CallStatus ==
    IF pc # "returned" THEN "open"
    ELSE IF outcome.kind = "result" THEN "ok"
    ELSE IF outcome.unknown THEN "unknown" ELSE "failed"

Abstract == INSTANCE GateCall WITH write <- Writing, status <- CallStatus

(* The call keeps the promise of GateCall: no retry, no success without an
   effect, no definite failure of a write that took or takes effect. *)
KeepsPromise == Abstract!Spec

(* A peer cannot extend the deadline by dripping its answer: once connected the
   thread is never blocked past it, and no answer is handed over after it
   (client.py 214-221, _DeadlineReader 103-112). *)
NoLateAnswer ==
    pc \in {"send", "head", "body"} \/ CallStatus = "ok" => elapsed <= Timeout

(* Every state of a call has the types the code gives it, the clock included, and
   no answer is handed over after the deadline. *)
InTime == TypeOK /\ NoLateAnswer

(* "timeout is a total deadline for the whole exchange ... it covers connect"
   (client.py 214-217). *)
TotalDeadline == elapsed <= Timeout

(* Every call comes back, also from a peer that answers 100 for ever. *)
EveryCallReturns == <>(pc = "returned")

=============================================================================
