--------------------------- MODULE UnixSocketCall ---------------------------
(***************************************************************************)
(* One UnixSocketTransport.call (transport.py 155-185) against a gate that *)
(* may answer late, in part, too much, wrongly or never.  A transport      *)
(* object keeps no state between calls and opens a connection per call, so *)
(* one call is the whole component.                                        *)
(*                                                                         *)
(* Local computation takes no time; Tick passes only while the thread is   *)
(* blocked in a socket operation, and a blocked operation ends no later    *)
(* than its armed timeout.  Bytes are counted, not spelled: a reply is a   *)
(* body class and the position of its newline.                             *)
(***************************************************************************)
EXTENDS Operations, Wire

CONSTANTS
    VerbsTried,   \* the verbs the caller may ask for, known to the table or not
    Timeout,      \* the transport's timeout, in ticks
    MaxBytes,     \* max_response_bytes
    ReplySizes    \* where the newline of a reply may be

ASSUME TimeoutAssumption == Timeout \in Nat \ {0}
ASSUME MaxBytesAssumption == MaxBytes \in Nat \ {0}
ASSUME ReplySizesAssumption == ReplySizes \subseteq Nat \ {0}

VARIABLES
    pc,        \* where the caller's thread is
    scope, verb,  \* the transport's scope and the verb asked for
    fits,      \* the encoded request is within MAX_REQUEST_BYTES
    sending,   \* the flag of the code: bytes may have left
    elapsed,   \* ticks since the deadline was set
    timer,     \* what the current settimeout() still allows
    got,       \* len(response)
    outcome,   \* what the caller sees
    arrived, effects, reply, sent, hung   \* the far end, module Gate

gateVars == <<arrived, effects, reply, sent, hung>>
clientVars == <<pc, scope, verb, fits, sending, elapsed, timer, got, outcome>>

AfterReplies == [body : AfterBodies, size : ReplySizes]
RefusalReplies == [body : RefusalBodies, size : ReplySizes]
ReadReplies == [body : Bodies, size : ReplySizes]
ProxyReplies == {}
NoReply == [body |-> "none", size |-> 0]

G == INSTANCE Gate

vars == <<pc, scope, verb, fits, sending, elapsed, timer, got, outcome,
          arrived, effects, reply, sent, hung>>

Writing == Mutates(verb)
Blocking == {"connect", "send", "recv"}

TypeOK ==
    /\ pc \in {"admit", "encode", "connect", "send", "recv", "decode", "returned"}
    /\ scope \in SCOPES
    /\ verb \in VerbsTried
    /\ fits \in BOOLEAN
    /\ sending \in BOOLEAN
    /\ elapsed \in Nat
    /\ timer \in Nat
    /\ got \in 0 .. (MaxBytes + 1)
    /\ outcome \in Outcomes
    /\ G!GateTypeOK

Init ==
    /\ pc = "admit"
    /\ scope \in SCOPES
    /\ verb \in VerbsTried
    /\ fits \in BOOLEAN
    /\ sending = FALSE
    /\ elapsed = 0
    /\ timer = 0
    /\ got = 0
    /\ outcome = Pending
    /\ G!GateInit

(* Faulty: every operation gets the whole timeout again. *)
RemainingPerOperation == Timeout

Remaining == Timeout - elapsed

(* The call ends: a value, a GateError or an exception outside the taxonomy. *)
Return(o) ==
    /\ pc' = "returned"
    /\ outcome' = o

(* Faulty: the flag set once sendall() has returned. *)
RaisedAfterSend(kind) == Failure(kind, Writing /\ pc = "recv")

(* Every error of the try block carries outcome_unknown = writing and sending. *)
Raised(kind) == Failure(kind, Writing /\ sending)

(* _admit, then the platform check, both before any I/O. *)
Admit ==
    /\ pc = "admit"
    /\ \/ /\ verb \notin OPERATIONS
          /\ Return(Failure("ValueError", FALSE))
       \/ /\ verb \in OPERATIONS
          /\ ~Allows(scope, verb)
          /\ Return(Failure(ScopeRefusal(scope, verb), FALSE))
       \/ /\ Allows(scope, verb)
          /\ Return(Failure("unsupported_transport", FALSE))  \* no AF_UNIX here
       \/ /\ Allows(scope, verb)
          /\ pc' = "encode"
          /\ UNCHANGED outcome
    /\ UNCHANGED <<scope, verb, fits, sending, elapsed, timer, got, gateVars>>

(* encode_request bounds the request; then the one deadline is set. *)
Encode ==
    /\ pc = "encode"
    /\ \/ /\ ~fits
          /\ Return(Failure("request_too_large", FALSE))
          /\ UNCHANGED timer
       \/ /\ fits
          /\ pc' = "connect"
          /\ timer' = Remaining
          /\ UNCHANGED outcome
    /\ UNCHANGED <<scope, verb, fits, sending, elapsed, got, gateVars>>

(* settimeout(_remaining(deadline)) before a blocking step that leads to `next`. *)
Arm(next) ==
    IF Remaining > 0
    THEN /\ pc' = next
         /\ timer' = Remaining
         /\ UNCHANGED outcome
    ELSE /\ Return(Raised("timeout"))
         /\ UNCHANGED timer

(* connect() returns; sending is set once the send is about to start. *)
Connect ==
    /\ pc = "connect"
    /\ Arm("send")
    /\ IF Remaining > 0 THEN sending' = TRUE ELSE UNCHANGED sending
    /\ UNCHANGED <<scope, verb, fits, elapsed, got, gateVars>>

(* sendall() hands the whole line over. *)
Send ==
    /\ pc = "send"
    /\ arrived' = arrived + 1
    /\ Arm("recv")
    /\ UNCHANGED <<scope, verb, fits, sending, elapsed, got, effects, reply, sent, hung>>

(* connect() or sendall() fails; of a broken send the line may still be whole. *)
WireFails ==
    /\ pc \in {"connect", "send"}
    /\ Return(Raised("unavailable"))
    /\ \/ /\ pc = "send"
          /\ arrived' = arrived + 1
       \/ UNCHANGED arrived
    /\ UNCHANGED <<scope, verb, fits, sending, elapsed, timer, got, effects, reply, sent, hung>>

(* Faulty: a timeout for the connection only, the reads wait for ever. *)
ExpireConnecting ==
    /\ pc = "connect"
    /\ timer = 0
    /\ Return(Raised("timeout"))
    /\ UNCHANGED <<scope, verb, fits, sending, elapsed, timer, got, gateVars>>

(* The armed timeout runs out on a blocked operation. *)
Expire ==
    /\ pc \in Blocking
    /\ timer = 0
    /\ Return(Raised("timeout"))
    /\ \/ /\ pc = "send"
          /\ arrived' = arrived + 1
       \/ UNCHANGED arrived
    /\ UNCHANGED <<scope, verb, fits, sending, elapsed, timer, got, effects, reply, sent, hung>>

(* Faulty: one byte too many asked for. *)
WindowTooWide == MaxBytes + 2 - got

Window == MaxBytes + 1 - got

(* Faulty: the byte that proves the cap exceeded is let in. *)
OverCapByTwo(length) == length > MaxBytes + 1

OverCap(length) == length > MaxBytes

(* recv(): at most what is left of the cap plus one; the cap before the newline. *)
Receive ==
    /\ pc = "recv"
    /\ \E chunk \in 1 .. Window :
        /\ got + chunk <= sent
        /\ got' = got + chunk
    /\ \/ /\ OverCap(got')
          /\ Return(Raised("response_too_large"))
          /\ UNCHANGED timer
       \/ /\ ~OverCap(got')
          /\ got' = reply.size
          /\ pc' = "decode"
          /\ UNCHANGED <<timer, outcome>>
       \/ /\ ~OverCap(got')
          /\ got' < reply.size
          /\ Arm("recv")
    /\ UNCHANGED <<scope, verb, fits, sending, elapsed, gateVars>>

(* The peer closed: recv() returns b'' once drained, or the connection resets. *)
PeerGone ==
    /\ pc = "recv"
    /\ hung
    /\ \/ /\ got = sent
          /\ Return(Raised("invalid_response"))
       \/ Return(Raised("unavailable"))
    /\ UNCHANGED <<scope, verb, fits, sending, elapsed, timer, got, gateVars>>

(* decode_response: the result, the refusal it carried, or neither. *)
Decode ==
    /\ pc = "decode"
    /\ Return(decode_response(reply.body, Writing))
    /\ UNCHANGED <<scope, verb, fits, sending, elapsed, timer, got, gateVars>>

Client ==
    \/ Admit
    \/ Encode
    \/ Connect
    \/ Send
    \/ WireFails
    \/ Expire
    \/ Receive
    \/ PeerGone
    \/ Decode

Tick ==
    /\ pc \in Blocking
    /\ timer > 0
    /\ timer' = timer - 1
    /\ elapsed' = elapsed + 1
    /\ UNCHANGED <<pc, scope, verb, fits, sending, got, outcome, gateVars>>

Far == G!GateNext(Writing) /\ UNCHANGED clientVars

Next == Client \/ Tick \/ Far

Spec == Init /\ [][Next]_vars

(* The thread runs and time passes; of the far end nothing is assumed. *)
FairSpec == Spec /\ WF_vars(Client) /\ WF_vars(Tick)

-----------------------------------------------------------------------------
(* What the caller has been told, in the words of the abstract specification. *)
CallStatus == StatusOf(pc = "returned", outcome)

Abstract == INSTANCE GateCall WITH write <- Writing, status <- CallStatus

(* The call keeps the promise of GateCall, late effects included. *)
KeepsPromise == Abstract!Spec

(* A failure reported without outcome_unknown is final: no copy of the write
   has taken effect or is still on its way to the gate, so a caller may send it
   again (transport.py 155-185; docs/api/client.md "outcome_unknown is true
   when a write may have been retained"). *)
DefiniteFailureIsFinal ==
    CallStatus = "failed" /\ Writing => effects = 0 /\ arrived = 0

(* A read-scoped transport changes nothing, whatever verb it is asked for. *)
ReadScopeChangesNothing == scope = "read" => effects = 0

(* One deadline bounds connect, send and every read together: however the
   peer drips its answer, the thread is never blocked past it. *)
OneDeadline == elapsed <= Timeout

(* The cap is looked at with the same bound as the window: whenever another
   recv() is made it asks for a byte at least, since the empty answer to a recv()
   of none would be taken for the end of the file (transport.py 173-178). *)
ReceiveWindowOpen == pc = "recv" => got <= MaxBytes

(* The state has its types, what was received is at most a byte over the cap, and
   there is room for that byte as long as the thread receives. *)
InBounds == TypeOK /\ ReceiveWindowOpen

(* Every call comes back, also from a gate that never answers. *)
EveryCallReturns == <>(pc = "returned")

=============================================================================
