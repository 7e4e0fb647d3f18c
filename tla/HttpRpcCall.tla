---------------------------- MODULE HttpRpcCall ----------------------------
(***************************************************************************)
(* One HttpTransport.call (transport.py 223-260): the same message over    *)
(* POST /rpc through http.client, with a gate or an intermediary that may  *)
(* answer late, in part, too much, wrongly or never.                       *)
(*                                                                         *)
(* Unlike the socket transport, `timeout` is given to http.client once and *)
(* so bounds each blocking socket operation: every connection attempt, the *)
(* handshake, the send and every recv starts with a fresh timer.  elapsed  *)
(* only measures; it is capped one tick past the timeout.                  *)
(*                                                                         *)
(* A reply is a head (one unit, read before the status is known) and then  *)
(* size - 1 bytes of body, of which read(max + 1) takes the cap plus one.  *)
(***************************************************************************)
EXTENDS Operations, Wire

CONSTANTS
    VerbsTried,   \* the verbs the caller may ask for, known to the table or not
    Timeout,      \* the transport's timeout, in ticks
    MaxBytes,     \* max_response_bytes
    ReplySizes,   \* the lengths of replies, head included
    Addresses,    \* how many addresses the host resolves to
    Tls           \* the base_url is https

ASSUME TimeoutAssumption == Timeout \in Nat \ {0}
ASSUME MaxBytesAssumption == MaxBytes \in Nat \ {0}
ASSUME ReplySizesAssumption == ReplySizes \subseteq Nat \ {0}
ASSUME AddressesAssumption == Addresses \in Nat \ {0}
ASSUME TlsAssumption == Tls \in BOOLEAN

VARIABLES
    pc,           \* where the caller's thread is
    scope, verb,  \* the transport's scope and the verb asked for
    fits,         \* the encoded request is within MAX_REQUEST_BYTES
    tries,        \* connection attempts made, one per address
    elapsed,      \* ticks since the call went to the wire, capped
    timer,        \* what the current socket operation may still take
    got,          \* units of the reply read
    outcome,      \* what the caller sees
    arrived, effects, reply, sent, hung   \* the far end, module Gate

gateVars == <<arrived, effects, reply, sent, hung>>
clientVars == <<pc, scope, verb, fits, tries, elapsed, timer, got, outcome>>
vars == <<pc, scope, verb, fits, tries, elapsed, timer, got, outcome,
          arrived, effects, reply, sent, hung>>

(* External: the statuses of the doors (docs/http-interfaces.md).  A status
   below 500 other than 200 is a refusal at the door, before the verb runs. *)
DoorRefusals == {202, 302, 401, 403, 404, 413, 429, 500, 503}

Answers(statuses, bodies) ==
    [status : statuses, body : bodies, size : ReplySizes, retry : {"finite", "inf"}]

AfterReplies == Answers({200}, AfterBodies) \cup Answers({500}, {"malformed"})
RefusalReplies == Answers({200}, RefusalBodies) \cup Answers(DoorRefusals, {"malformed"})
ReadReplies == Answers({200}, Bodies) \cup Answers(DoorRefusals, {"malformed"})
ProxyReplies == Answers({502, 503, 504}, {"malformed"})
NoReply == [status |-> 0, body |-> "none", size |-> 0, retry |-> "finite"]

G == INSTANCE Gate

Writing == Mutates(verb)
Blocking == {"connect", "handshake", "send", "head", "body"}

TypeOK ==
    /\ pc \in Blocking \cup {"admit", "encode", "classify", "returned"}
    /\ scope \in SCOPES
    /\ verb \in VerbsTried
    /\ fits \in BOOLEAN
    /\ tries \in 0 .. Addresses
    /\ elapsed \in 0 .. (Timeout + 1)
    /\ timer \in 0 .. Timeout
    /\ got \in 0 .. (MaxBytes + 2)
    /\ outcome \in Outcomes
    /\ G!GateTypeOK

Init ==
    /\ pc = "admit"
    /\ scope \in SCOPES
    /\ verb \in VerbsTried
    /\ fits \in BOOLEAN
    /\ tries = 0
    /\ elapsed = 0
    /\ timer = 0
    /\ got = 0
    /\ outcome = Pending
    /\ G!GateInit

Return(o) ==
    /\ pc' = "returned"
    /\ outcome' = o

(* From _connection on, sending is set: every wire error says writing. *)
Raised(kind) == Failure(kind, Writing)

Admit ==
    /\ pc = "admit"
    /\ \/ /\ verb \notin OPERATIONS
          /\ Return(Failure("ValueError", FALSE))
       \/ /\ verb \in OPERATIONS
          /\ ~Allows(scope, verb)
          /\ Return(Failure(ScopeRefusal(scope, verb), FALSE))
       \/ /\ Allows(scope, verb)
          /\ pc' = "encode"
          /\ UNCHANGED outcome
    /\ UNCHANGED <<scope, verb, fits, tries, elapsed, timer, got, gateVars>>

(* A blocking step that leads to another: its operation gets the whole timeout. *)
Block(next) ==
    /\ pc' = next
    /\ timer' = Timeout
    /\ UNCHANGED outcome

(* encode_request, then the bearer: text or minted now, refused as a ValueError. *)
Encode ==
    /\ pc = "encode"
    /\ \/ /\ ~fits
          /\ Return(Failure("request_too_large", FALSE))
          /\ UNCHANGED <<timer, tries>>
       \/ /\ fits
          /\ Return(Failure("ValueError", FALSE))
          /\ UNCHANGED <<timer, tries>>
       \/ /\ fits
          /\ Block("connect")
          /\ tries' = 1
    /\ UNCHANGED <<scope, verb, fits, elapsed, got, gateVars>>

(* Faulty: one attempt more than there are addresses. *)
NextAddressOnceMore(kind) ==
    IF tries <= Addresses
    THEN /\ Block("connect")
         /\ tries' = tries + 1
    ELSE /\ Return(Raised(kind))
         /\ UNCHANGED <<timer, tries>>

(* create_connection tries the addresses in turn; the last error is raised. *)
NextAddress(kind) ==
    IF tries < Addresses
    THEN /\ Block("connect")
         /\ tries' = tries + 1
    ELSE /\ Return(Raised(kind))
         /\ UNCHANGED <<timer, tries>>

Connect ==
    /\ pc = "connect"
    /\ Block(IF Tls THEN "handshake" ELSE "send")
    /\ UNCHANGED <<scope, verb, fits, tries, elapsed, got, gateVars>>

ConnectFails ==
    /\ pc = "connect"
    /\ NextAddress("unavailable")
    /\ UNCHANGED <<scope, verb, fits, elapsed, got, gateVars>>

Handshake ==
    /\ pc = "handshake"
    /\ Block("send")
    /\ UNCHANGED <<scope, verb, fits, tries, elapsed, got, gateVars>>

Send ==
    /\ pc = "send"
    /\ Block("head")
    /\ arrived' = arrived + 1
    /\ UNCHANGED <<scope, verb, fits, tries, elapsed, got, effects, reply, sent, hung>>

(* A broken handshake or send; of the latter the gate may have it all. *)
WireFails ==
    /\ pc \in {"handshake", "send"}
    /\ Return(Raised("unavailable"))
    /\ \/ /\ pc = "send"
          /\ arrived' = arrived + 1
       \/ UNCHANGED arrived
    /\ UNCHANGED <<scope, verb, fits, tries, elapsed, timer, got, effects, reply, sent, hung>>

(* The operation's own timeout; on a connection attempt it only ends that one. *)
Expire ==
    /\ pc \in Blocking
    /\ timer = 0
    /\ \/ /\ pc = "connect"
          /\ NextAddress("timeout")
          /\ UNCHANGED arrived
       \/ /\ pc # "connect"
          /\ Return(Raised("timeout"))
          /\ UNCHANGED <<timer, tries>>
          /\ \/ /\ pc = "send"
                /\ arrived' = arrived + 1
             \/ UNCHANGED arrived
    /\ UNCHANGED <<scope, verb, fits, elapsed, got, effects, reply, sent, hung>>

(* getresponse() skips any number of interim 100 answers. *)
Interim ==
    /\ pc = "head"
    /\ ~hung
    /\ Block("head")
    /\ UNCHANGED <<scope, verb, fits, tries, elapsed, got, gateVars>>

(* The status line and the headers are in; a reply may have no body. *)
Head ==
    /\ pc = "head"
    /\ sent >= 1
    /\ got' = 1
    /\ IF reply.size = 1
       THEN pc' = "classify" /\ UNCHANGED <<timer, outcome>>
       ELSE Block("body")
    /\ UNCHANGED <<scope, verb, fits, tries, elapsed, gateVars>>

(* One recv of read(max + 1), which stops at the length or at the cap plus one. *)
Body ==
    /\ pc = "body"
    /\ got < sent
    /\ got' = got + 1
    /\ IF got' = reply.size \/ got' = MaxBytes + 2
       THEN pc' = "classify" /\ UNCHANGED <<timer, outcome>>
       ELSE Block("body")
    /\ UNCHANGED <<scope, verb, fits, tries, elapsed, gateVars>>

(* Closed early: no status line, a reset, or a body silently cut short. *)
PeerGone ==
    /\ pc \in {"head", "body"}
    /\ hung
    /\ \/ Return(Raised("unavailable"))
       \/ /\ pc = "body"
          /\ got = sent
          /\ pc' = "classify"
          /\ UNCHANGED outcome
    /\ UNCHANGED <<scope, verb, fits, tries, elapsed, timer, got, gateVars>>

Truncated == got < reply.size

(* Faulty: a 500 taken for a refusal at the door. *)
VerdictAbove500 ==
    IF got - 1 > MaxBytes THEN Failure("response_too_large", Writing)
    ELSE IF reply.status # 200
         THEN Failure(kind_of_status(reply.status), Writing /\ reply.status > 500)
    ELSE decode_response(IF Truncated THEN "malformed" ELSE reply.body, Writing)

(* The size first, then the status, then the message. *)
Verdict ==
    IF got - 1 > MaxBytes THEN Failure("response_too_large", Writing)
    ELSE IF reply.status # 200
         THEN IF reply.retry = "inf" THEN Failure("OverflowError", FALSE)
              ELSE Failure(kind_of_status(reply.status), Writing /\ reply.status >= 500)
    ELSE decode_response(IF Truncated THEN "malformed" ELSE reply.body, Writing)

Classify ==
    /\ pc = "classify"
    /\ Return(Verdict)
    /\ UNCHANGED <<scope, verb, fits, tries, elapsed, timer, got, gateVars>>

Client ==
    \/ Admit
    \/ Encode
    \/ Connect
    \/ ConnectFails
    \/ Handshake
    \/ Send
    \/ WireFails
    \/ Expire
    \/ Interim
    \/ Head
    \/ Body
    \/ PeerGone
    \/ Classify

Tick ==
    /\ pc \in Blocking
    /\ timer > 0
    /\ timer' = timer - 1
    /\ elapsed' = IF elapsed > Timeout THEN elapsed ELSE elapsed + 1
    /\ UNCHANGED <<pc, scope, verb, fits, tries, got, outcome, gateVars>>

Far == G!GateNext(Writing) /\ UNCHANGED clientVars

Next == Client \/ Tick \/ Far

Spec == Init /\ [][Next]_vars

-----------------------------------------------------------------------------
CallStatus == StatusOf(pc = "returned", outcome)

Abstract == INSTANCE GateCall WITH write <- Writing, status <- CallStatus

(* The call keeps the promise of GateCall: no retry, no success without an
   effect, and no definite failure of a write that took or takes effect. *)
KeepsPromise == Abstract!Spec

(* "Both transports share one deadline for connect, send and every read"
   (docs/api/client.md 46): the call is never blocked past its timeout. *)
OneDeadline == elapsed <= Timeout

(* "Every SDK failure is a DoublegateError, so one except catches the SDK"
   (docs/api/index.md 30): whatever the far end answers, an applied write
   included, the call ends in a result or in an error of the taxonomy. *)
FailuresAreCaught == CallStatus # "escaped"

=============================================================================
