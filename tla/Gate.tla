-------------------------------- MODULE Gate --------------------------------
(***************************************************************************)
(* External: the far end of ONE call, as the transports of this SDK meet   *)
(* it.  A gate is not under src/; what it may do is read off what the      *)
(* transports guard against: a request may be lost, applied and then not   *)
(* answered, answered slowly or in part, answered by an intermediary that  *)
(* knows nothing, and applied after the caller has gone.                   *)
(*                                                                         *)
(* The contract of its answers is the three reply sets.  What a gate says  *)
(* after a write took effect (AfterReplies) and what it says having changed*)
(* nothing (RefusalReplies) overlap in everything that is ambiguous.       *)
(***************************************************************************)
EXTENDS Naturals

CONSTANTS
    AfterReplies,    \* answers of a gate on which the request took effect
    RefusalReplies,  \* answers of a gate that changed nothing
    ReadReplies,     \* answers of a gate to a request that never changes it
    ProxyReplies,    \* answers of an intermediary, which knows neither
    NoReply          \* nobody has decided on an answer yet

VARIABLES
    arrived,  \* complete copies of the request that reached the gate, unhandled
    effects,  \* how many times the write took effect
    reply,    \* the answer on its way back: [body, size, ...], or NoReply
    sent,     \* how many bytes of it are on the wire
    hung      \* the far end has closed or reset the connection

gateVars == <<arrived, effects, reply, sent, hung>>

Replies == AfterReplies \cup RefusalReplies \cup ReadReplies \cup ProxyReplies

GateTypeOK ==
    /\ arrived \in Nat
    /\ effects \in Nat
    /\ reply \in Replies \cup {NoReply}
    /\ sent \in Nat
    /\ hung \in BOOLEAN

GateInit ==
    /\ arrived = 0
    /\ effects = 0
    /\ reply = NoReply
    /\ sent = 0
    /\ hung = FALSE

(* The first answer is the one the connection carries. *)
Answer(answers) ==
    IF reply = NoReply THEN reply' \in answers ELSE UNCHANGED reply

(* The write takes effect, whether or not anybody still listens. *)
Apply(writes) ==
    /\ writes
    /\ arrived > 0
    /\ arrived' = arrived - 1
    /\ effects' = effects + 1
    /\ Answer(AfterReplies)
    /\ UNCHANGED <<sent, hung>>

(* The gate decides against the request, or fails before changing anything. *)
Refuse(writes) ==
    /\ writes
    /\ arrived > 0
    /\ arrived' = arrived - 1
    /\ Answer(RefusalReplies)
    /\ UNCHANGED <<effects, sent, hung>>

Serve(writes) ==
    /\ ~writes
    /\ arrived > 0
    /\ arrived' = arrived - 1
    /\ Answer(ReadReplies)
    /\ UNCHANGED <<effects, sent, hung>>

(* An intermediary that holds the request answers in the gate's place. *)
ProxyAnswers ==
    /\ arrived > 0
    /\ reply = NoReply
    /\ reply' \in ProxyReplies
    /\ UNCHANGED <<arrived, effects, sent, hung>>

(* One more byte of the answer leaves: a slow peer takes as long as it likes. *)
Trickle ==
    /\ reply # NoReply
    /\ ~hung
    /\ sent < reply.size
    /\ sent' = sent + 1
    /\ UNCHANGED <<arrived, effects, reply, hung>>

(* The connection goes: before, within or after the answer. *)
HangUp ==
    /\ ~hung
    /\ hung' = TRUE
    /\ UNCHANGED <<arrived, effects, reply, sent>>

(* A crash with the request in hand: it is never handled. *)
Crash ==
    /\ arrived > 0
    /\ arrived' = arrived - 1
    /\ hung' = TRUE
    /\ UNCHANGED <<effects, reply, sent>>

GateNext(writes) ==
    \/ Apply(writes)
    \/ Refuse(writes)
    \/ Serve(writes)
    \/ ProxyAnswers
    \/ Trickle
    \/ HangUp
    \/ Crash

=============================================================================
