------------------------ MODULE UnixSocketCallProofs ------------------------
(***************************************************************************)
(* For every timeout, cap, set of verbs and set of reply sizes: the socket *)
(* transport is type correct, keeps its one deadline, changes nothing from *)
(* read scope, reports no definite failure of a write that landed, and     *)
(* implements module GateCall.                                             *)
(***************************************************************************)
EXTENDS UnixSocketCall, TLAPS

-----------------------------------------------------------------------------
(* The inductive invariant, by concern. *)

(* Before the send is over nothing is on the far side. *)
NothingThereYet ==
    pc \in {"admit", "encode", "connect", "send"} =>
        arrived = 0 /\ effects = 0 /\ reply = NoReply /\ got = 0

(* The flag of the code is up from the send on, not before. *)
SendingMarked ==
    /\ pc \in {"admit", "encode", "connect"} => ~sending
    /\ pc \in {"send", "recv", "decode"} => sending

(* One copy of the request exists, in one place. *)
OneCopy == arrived + effects <= 1

OnlyWritesHaveEffects == ~Writing => effects = 0

(* An answer to a write is given once it is decided, and according to it. *)
AnswersAreHonest ==
    Writing /\ reply # NoReply =>
        /\ arrived = 0
        /\ reply.body = "result" => effects = 1
        /\ reply.body \in Codes \ {"e32603"} => effects = 0

SuccessMeansEffect == CallStatus = "ok" /\ Writing => effects = 1

UnknownOnlyOfWrites == CallStatus = "unknown" => Writing

(* What the timer allows and what has passed never exceed the deadline. *)
Budget ==
    /\ pc \in {"admit", "encode"} => elapsed = 0
    /\ pc \in Blocking => elapsed + timer <= Timeout
    /\ elapsed <= Timeout

(* The wire is only reached by an admitted verb. *)
Admitted ==
    \/ Allows(scope, verb)
    \/ /\ pc \in {"admit", "returned"}
       /\ arrived = 0 /\ effects = 0

IInv ==
    /\ TypeOK
    /\ NothingThereYet
    /\ SendingMarked
    /\ OneCopy
    /\ OnlyWritesHaveEffects
    /\ AnswersAreHonest
    /\ SuccessMeansEffect
    /\ DefiniteFailureIsFinal
    /\ UnknownOnlyOfWrites
    /\ Budget
    /\ ReceiveWindowOpen
    /\ Admitted

-----------------------------------------------------------------------------
(* What a read-scoped transport may emit never mutates. *)
LEMMA ReadScopeAllowsOnlyReads ==
    ASSUME NEW v, Allows("read", v)
    PROVE  ~Mutates(v)
BY DEF Allows, Mutates, ScopeOf, Rank, OPERATIONS, ReadVerbs, KnowledgeVerbs,
       CurationVerbs

(* Whatever kind of failure the call ends in, it is an outcome, and what it tells
   the caller depends on its flag alone. *)
LEMMA FailureTells ==
    ASSUME NEW k \in KINDS \cup {"ValueError"}, NEW u \in BOOLEAN
    PROVE  /\ Failure(k, u) \in Outcomes
           /\ StatusOf(TRUE, Failure(k, u)) = IF u THEN "unknown" ELSE "failed"
<1>1. k # "result" /\ k \notin Escapes
  BY DEF KINDS, Escapes
<1>2. QED
  BY <1>1 DEF Failure, Outcomes, StatusOf

(* A call that is not over has an outcome, the one that says so. *)
LEMMA PendingTyped == Pending \in Outcomes
BY DEF Pending, Outcomes

(* The kinds this transport ends in. *)
LEMMA KindsUsed ==
    /\ {"unsupported_transport", "request_too_large", "timeout", "unavailable",
        "response_too_large", "invalid_response"} \subseteq KINDS
    /\ \A s, v : ScopeRefusal(s, v) \in KINDS
BY DEF KINDS, ScopeRefusal

(* What decode_response makes of a body: a success only of a result, and a
   definite failure of a write only of a refusal code. *)
LEMMA DecodeTells ==
    ASSUME NEW b, NEW w \in BOOLEAN
    PROVE  LET o == decode_response(b, w)
               told == StatusOf(TRUE, o)
           IN  /\ o \in Outcomes
               /\ told = "ok" => b = "result"
               /\ told = "failed" /\ w => b \in Codes \ {"e32603"}
               /\ told = "unknown" => w
<1>1. CASE b = "result"
  BY <1>1 DEF decode_response, Success, Outcomes, StatusOf, Codes, CODE_KINDS
<1>2. CASE b # "result" /\ b \in Codes
  <2>1. kind_of_code(b) \in KINDS
    BY DEF kind_of_code, CODE_KINDS, KINDS
  <2>2. decode_response(b, w) = Failure(kind_of_code(b), w /\ b = "e32603")
    BY <1>2 DEF decode_response
  <2>3. QED
    BY <1>2, <2>1, <2>2, FailureTells
<1>3. CASE b \notin Codes \cup {"result"} /\ b = "deep"
  <2>1. decode_response(b, w) = Failure("RecursionError", FALSE)
    BY <1>3 DEF decode_response
  <2>2. QED
    BY <2>1 DEF Failure, Outcomes, StatusOf, Escapes
<1>4. CASE b \notin Codes \cup {"result"} /\ b # "deep"
  <2>1. decode_response(b, w) = Failure("invalid_response", w)
    BY <1>4 DEF decode_response
  <2>2. QED
    BY <2>1, FailureTells, KindsUsed
<1>5. QED
  BY <1>1, <1>2, <1>3, <1>4

(* The invariant holds where a call begins. *)
LEMMA InitIInv == Init => IInv
<1> SUFFICES ASSUME Init PROVE IInv
  OBVIOUS
<1> USE TimeoutAssumption, MaxBytesAssumption
<1>1. TypeOK
  <2>1. G!GateTypeOK
    BY DEF Init, G!GateInit, G!GateTypeOK
  <2>2. got \in 0 .. (MaxBytes + 1)
    BY DEF Init
  <2>3. outcome \in Outcomes
        BY PendingTyped DEF Init
  <2>4. QED
    BY <2>1, <2>2, <2>3 DEF Init, TypeOK
<1>2. NothingThereYet /\ OneCopy /\ OnlyWritesHaveEffects /\ AnswersAreHonest
  BY DEF Init, G!GateInit, NothingThereYet, OneCopy, OnlyWritesHaveEffects, AnswersAreHonest
<1>3. SendingMarked /\ Budget /\ ReceiveWindowOpen /\ Admitted
  BY DEF Init, G!GateInit, SendingMarked, Budget, ReceiveWindowOpen, Admitted, Blocking
<1>4. SuccessMeansEffect /\ DefiniteFailureIsFinal /\ UnknownOnlyOfWrites
  BY DEF Init, SuccessMeansEffect, DefiniteFailureIsFinal, UnknownOnlyOfWrites,
     CallStatus, StatusOf
<1>5. QED
  BY <1>1, <1>2, <1>3, <1>4 DEF IInv

(* A wire error on the way: the call ends, at most one copy of the request has
   reached the gate, and a write that was being sent is reported as unknown. *)
LEMMA BrokenOff ==
    ASSUME IInv, NEW k \in KINDS,
           pc \in {"connect", "send", "recv"}, pc' = "returned",
           UNCHANGED <<scope, verb, fits, sending, elapsed, timer, got,
                       effects, reply, sent, hung>>,
           outcome' = Failure(k, Writing /\ sending),
           arrived' = arrived \/ (pc = "send" /\ arrived' = arrived + 1)
    PROVE  IInv'
<1>1. Writing \in BOOLEAN /\ Writing' = Writing
  BY DEF Writing, Mutates
<1>2. Allows(scope, verb)' = Allows(scope, verb)
  OBVIOUS
<1>3. sending \in BOOLEAN /\ (sending <=> pc # "connect")
  BY DEF IInv, TypeOK, SendingMarked
<1>4. /\ outcome' \in Outcomes
      /\ CallStatus' = IF Writing /\ sending THEN "unknown" ELSE "failed"
  BY <1>1, <1>3, FailureTells DEF CallStatus
<1>5. pc = "send" => arrived = 0 /\ effects = 0 /\ reply = NoReply
  BY DEF IInv, NothingThereYet
<1>6. TypeOK'
  BY <1>4, <1>5 DEF IInv, TypeOK, G!GateTypeOK
<1>7. NothingThereYet' /\ OneCopy' /\ OnlyWritesHaveEffects' /\ AnswersAreHonest'
  BY <1>1, <1>5 DEF IInv, NothingThereYet, OneCopy, OnlyWritesHaveEffects,
     AnswersAreHonest
<1>8. SuccessMeansEffect' /\ UnknownOnlyOfWrites'
  BY <1>1, <1>4 DEF SuccessMeansEffect, UnknownOnlyOfWrites
<1>9. DefiniteFailureIsFinal'
  BY <1>1, <1>3, <1>4 DEF IInv, DefiniteFailureIsFinal, NothingThereYet
<1>10. SendingMarked' /\ Budget' /\ ReceiveWindowOpen'
  BY DEF IInv, SendingMarked, Budget, ReceiveWindowOpen, Blocking
<1>11. Admitted'
  BY <1>2 DEF IInv, Admitted
<1>12. QED
  BY <1>6, <1>7, <1>8, <1>9, <1>10, <1>11 DEF IInv

(* Every step keeps the invariant, action by action. *)
LEMMA StepIInv == IInv /\ [Next]_vars => IInv'
<1> SUFFICES ASSUME IInv, [Next]_vars PROVE IInv'
  OBVIOUS
<1> USE TimeoutAssumption, MaxBytesAssumption
<1>a. Writing \in BOOLEAN
  BY DEF Writing, Mutates
<1>b. scope' = scope /\ verb' = verb /\ fits' = fits
  BY DEF Next, vars, Client, Admit, Encode, Connect, Send, WireFails, Expire, Receive,
     PeerGone, Decode, Tick, Far, clientVars
<1>c. Writing' = Writing /\ Allows(scope, verb)' = Allows(scope, verb)
  BY <1>b DEF Writing
<1>d. ASSUME pc' # "returned" PROVE CallStatus' = "open"
  BY <1>d DEF CallStatus, StatusOf
<1>e. ASSUME pc' = "returned" PROVE CallStatus' = StatusOf(TRUE, outcome')
  BY <1>e DEF CallStatus
<1>1. CASE Admit
  <2>1. /\ pc = "admit" /\ pc' \in {"encode", "returned"}
        /\ UNCHANGED <<sending, elapsed, timer, got, gateVars>>
        /\ pc' = "encode" => outcome' = outcome /\ Allows(scope, verb)
        /\ pc' = "returned" =>
             \E k \in KINDS \cup {"ValueError"} : outcome' = Failure(k, FALSE)
    BY <1>1, KindsUsed DEF Admit, Return
  <2>2. TypeOK'
    BY <1>b, <2>1, FailureTells DEF IInv, TypeOK, G!GateTypeOK, gateVars
  <2>3. NothingThereYet' /\ OneCopy' /\ OnlyWritesHaveEffects' /\ AnswersAreHonest'
    BY <1>c, <2>1 DEF IInv, NothingThereYet, OneCopy, OnlyWritesHaveEffects,
       AnswersAreHonest, gateVars
  <2>4. arrived' = 0 /\ effects' = 0 /\ CallStatus' \notin {"ok", "unknown"}
    BY <1>d, <1>e, <2>1, FailureTells DEF IInv, NothingThereYet, gateVars
  <2>5. SuccessMeansEffect' /\ DefiniteFailureIsFinal' /\ UnknownOnlyOfWrites'
    BY <2>4 DEF SuccessMeansEffect, DefiniteFailureIsFinal, UnknownOnlyOfWrites
  <2>6. SendingMarked' /\ Budget' /\ ReceiveWindowOpen' /\ Admitted'
    BY <1>c, <2>1, <2>4 DEF IInv, SendingMarked, Budget, ReceiveWindowOpen, Admitted,
       Blocking
  <2>7. QED
    BY <2>2, <2>3, <2>5, <2>6 DEF IInv
<1>2. CASE Encode
  <2>1. /\ pc = "encode" /\ pc' \in {"connect", "returned"}
        /\ UNCHANGED <<sending, elapsed, got, gateVars>>
        /\ pc' = "connect" => outcome' = outcome /\ timer' = Timeout - elapsed
        /\ pc' = "returned" =>
             timer' = timer /\ outcome' = Failure("request_too_large", FALSE)
    BY <1>2 DEF Encode, Return, Remaining
  <2>2. TypeOK'
    <3>1. timer' \in Nat
      <4>1. elapsed = 0
        BY <2>1 DEF IInv, Budget
      <4>2. timer \in Nat
        BY DEF IInv, TypeOK
      <4>3. Timeout - elapsed \in Nat
        BY <4>1
      <4>4. QED
        BY <2>1, <4>2, <4>3
    <3>2. outcome' \in Outcomes
      BY <2>1, FailureTells, KindsUsed DEF IInv, TypeOK
    <3>3. QED
      BY <1>b, <2>1, <3>1, <3>2 DEF IInv, TypeOK, G!GateTypeOK, gateVars
  <2>3. NothingThereYet' /\ OneCopy' /\ OnlyWritesHaveEffects' /\ AnswersAreHonest'
    BY <1>c, <2>1 DEF IInv, NothingThereYet, OneCopy, OnlyWritesHaveEffects,
       AnswersAreHonest, gateVars
  <2>4. arrived' = 0 /\ effects' = 0 /\ CallStatus' \notin {"ok", "unknown"}
    BY <1>d, <1>e, <2>1, FailureTells, KindsUsed DEF IInv, NothingThereYet, gateVars
  <2>5. SuccessMeansEffect' /\ DefiniteFailureIsFinal' /\ UnknownOnlyOfWrites'
    BY <2>4 DEF SuccessMeansEffect, DefiniteFailureIsFinal, UnknownOnlyOfWrites
  <2>6. SendingMarked' /\ Budget' /\ ReceiveWindowOpen' /\ Admitted'
    BY <1>c, <2>1, <2>4 DEF IInv, SendingMarked, Budget, ReceiveWindowOpen, Admitted,
       Blocking
  <2>7. QED
    BY <2>2, <2>3, <2>5, <2>6 DEF IInv
<1>3. CASE Connect
  <2>1. /\ pc = "connect" /\ pc' \in {"send", "returned"}
        /\ UNCHANGED <<elapsed, got, gateVars>>
        /\ pc' = "send" => /\ outcome' = outcome /\ timer' = Timeout - elapsed
                           /\ Timeout - elapsed > 0 /\ sending' = TRUE
        /\ pc' = "returned" => /\ timer' = timer /\ sending' = sending
                               /\ outcome' = Failure("timeout", Writing /\ sending)
    BY <1>3 DEF Connect, Arm, Return, Remaining, Raised
  <2>2. TypeOK'
    <3>1. timer' \in Nat /\ sending' \in BOOLEAN
      <4>1. timer \in Nat /\ elapsed \in Nat /\ sending \in BOOLEAN
        BY DEF IInv, TypeOK
      <4>2. CASE pc' = "send"
        <5>1. timer' = Timeout - elapsed /\ Timeout - elapsed > 0 /\ sending' = TRUE
          BY <2>1, <4>2
        <5>2. timer' \in Nat
          BY <4>1, <5>1
        <5>3. QED
          BY <5>1, <5>2
      <4>3. CASE pc' = "returned"
        BY <2>1, <4>1, <4>3
      <4>4. QED
        BY <2>1, <4>2, <4>3
    <3>2. outcome' \in Outcomes
      BY <1>a, <2>1, FailureTells, KindsUsed DEF IInv, TypeOK
    <3>3. QED
      BY <1>b, <2>1, <3>1, <3>2 DEF IInv, TypeOK, G!GateTypeOK, gateVars
  <2>3. NothingThereYet' /\ OneCopy' /\ OnlyWritesHaveEffects' /\ AnswersAreHonest'
    BY <1>c, <2>1 DEF IInv, NothingThereYet, OneCopy, OnlyWritesHaveEffects,
       AnswersAreHonest, gateVars
  <2>4. arrived' = 0 /\ effects' = 0 /\ CallStatus' \notin {"ok", "unknown"}
    <3>1. (Writing /\ sending) = FALSE
      BY <2>1 DEF IInv, TypeOK, SendingMarked
    <3>2. QED
      BY <1>d, <1>e, <2>1, <3>1, FailureTells, KindsUsed
      DEF IInv, NothingThereYet, gateVars
  <2>5. SuccessMeansEffect' /\ DefiniteFailureIsFinal' /\ UnknownOnlyOfWrites'
    BY <2>4 DEF SuccessMeansEffect, DefiniteFailureIsFinal, UnknownOnlyOfWrites
  <2>6. SendingMarked' /\ Budget' /\ ReceiveWindowOpen' /\ Admitted'
    BY <1>c, <2>1, <2>4 DEF IInv, TypeOK, SendingMarked, Budget, ReceiveWindowOpen,
       Admitted, Blocking
  <2>7. QED
    BY <2>2, <2>3, <2>5, <2>6 DEF IInv
<1>4. CASE Send
  <2>1. /\ pc = "send" /\ pc' \in {"recv", "returned"}
        /\ UNCHANGED <<sending, elapsed, got, effects, reply, sent, hung>>
        /\ arrived' = arrived + 1
        /\ pc' = "recv" => /\ outcome' = outcome /\ timer' = Timeout - elapsed
                           /\ Timeout - elapsed > 0
        /\ pc' = "returned" =>
             timer' = timer /\ outcome' = Failure("timeout", Writing /\ sending)
    BY <1>4 DEF Send, Arm, Return, Remaining, Raised
  <2>3. sending /\ arrived = 0 /\ effects = 0 /\ reply = NoReply /\ got = 0
    BY <2>1 DEF IInv, SendingMarked, NothingThereYet
  <2>4. TypeOK'
    <3>1. timer' \in Nat
      BY <2>1 DEF IInv, TypeOK
    <3>2. outcome' \in Outcomes
      BY <1>a, <2>1, FailureTells, KindsUsed DEF IInv, TypeOK
    <3>3. QED
      BY <1>b, <2>1, <2>3, <3>1, <3>2 DEF IInv, TypeOK, G!GateTypeOK
  <2>5. NothingThereYet' /\ OneCopy' /\ OnlyWritesHaveEffects' /\ AnswersAreHonest'
    BY <1>c, <2>1, <2>3 DEF IInv, NothingThereYet, OneCopy, OnlyWritesHaveEffects,
       AnswersAreHonest
  <2>6. /\ CallStatus' # "ok"
        /\ Writing => CallStatus' # "failed"
        /\ ~Writing => CallStatus' # "unknown"
    BY <1>a, <1>d, <1>e, <2>1, <2>3, FailureTells, KindsUsed
  <2>7. SuccessMeansEffect' /\ DefiniteFailureIsFinal' /\ UnknownOnlyOfWrites'
    BY <1>c, <2>6 DEF SuccessMeansEffect, DefiniteFailureIsFinal, UnknownOnlyOfWrites
  <2>8. ReceiveWindowOpen'
    BY <2>1, <2>3 DEF ReceiveWindowOpen
  <2>9. SendingMarked' /\ Budget' /\ Admitted'
    BY <1>c, <2>1, <2>3 DEF IInv, TypeOK, SendingMarked, Budget, Admitted, Blocking
  <2>10. QED
    BY <2>4, <2>5, <2>7, <2>8, <2>9 DEF IInv
<1>5. CASE WireFails
  <2>1. /\ pc \in {"connect", "send"} /\ pc' = "returned"
        /\ UNCHANGED <<sending, elapsed, timer, got, effects, reply, sent, hung>>
        /\ outcome' = Failure("unavailable", Writing /\ sending)
        /\ arrived' = arrived \/ (pc = "send" /\ arrived' = arrived + 1)
    BY <1>5 DEF WireFails, Return, Raised
  <2>2. QED
    BY <1>a, <1>b, <1>c, <2>1, KindsUsed, BrokenOff
<1>6. CASE Expire
  <2>1. /\ pc \in Blocking /\ pc' = "returned"
        /\ UNCHANGED <<sending, elapsed, timer, got, effects, reply, sent, hung>>
        /\ outcome' = Failure("timeout", Writing /\ sending)
        /\ arrived' = arrived \/ (pc = "send" /\ arrived' = arrived + 1)
    BY <1>6 DEF Expire, Return, Raised
  <2>2. QED
    BY <1>a, <1>b, <1>c, <2>1, KindsUsed, BrokenOff DEF Blocking
<1>7. CASE Receive
  <2>1. /\ pc = "recv" /\ pc' \in {"recv", "decode", "returned"}
        /\ UNCHANGED <<sending, elapsed, gateVars>>
        /\ got' \in 0 .. (MaxBytes + 1)
        /\ pc' = "recv" => /\ outcome' = outcome /\ timer' = Timeout - elapsed
                           /\ Timeout - elapsed > 0 /\ got' <= MaxBytes
        /\ pc' = "decode" => outcome' = outcome /\ timer' = timer
        /\ pc' = "returned" =>
             /\ timer' = timer
             /\ \E k \in KINDS : outcome' = Failure(k, Writing /\ sending)
    <3>1. got \in 0 .. (MaxBytes + 1)
      BY DEF IInv, TypeOK
    <3>2. PICK chunk \in 1 .. (MaxBytes + 1 - got) : got' = got + chunk
      BY <1>7 DEF Receive, Window
    <3>3. got' \in 0 .. (MaxBytes + 1)
      BY <3>1, <3>2
    <3>4. /\ pc = "recv"
          /\ UNCHANGED <<sending, elapsed, gateVars>>
      BY <1>7 DEF Receive
    <3>5. CASE Return(Raised("response_too_large")) /\ UNCHANGED timer
      BY <3>3, <3>4, <3>5, KindsUsed DEF Return, Raised
    <3>6. CASE pc' = "decode" /\ UNCHANGED <<timer, outcome>>
      BY <3>3, <3>4, <3>6
    <3>7. CASE ~OverCap(got') /\ Arm("recv")
      BY <3>3, <3>4, <3>7, KindsUsed DEF Arm, Return, Raised, Remaining, OverCap
    <3>8. QED
      BY <1>7, <3>5, <3>6, <3>7 DEF Receive
  <2>2. sending
    BY <2>1 DEF IInv, SendingMarked
  <2>3. TypeOK'
    <3>1. timer' \in Nat
      <4>1. timer \in Nat /\ elapsed \in Nat
        BY DEF IInv, TypeOK
      <4>2. QED
        BY <2>1, <4>1
    <3>2. outcome' \in Outcomes
      BY <1>a, <2>1, <2>2, FailureTells DEF IInv, TypeOK
    <3>3. QED
      BY <1>b, <2>1, <3>1, <3>2 DEF IInv, TypeOK, G!GateTypeOK, gateVars
  <2>4. NothingThereYet' /\ OneCopy' /\ OnlyWritesHaveEffects' /\ AnswersAreHonest'
    BY <1>c, <2>1 DEF IInv, NothingThereYet, OneCopy, OnlyWritesHaveEffects,
       AnswersAreHonest, gateVars
  <2>5. /\ CallStatus' # "ok"
        /\ Writing => CallStatus' # "failed"
        /\ ~Writing => CallStatus' # "unknown"
    BY <1>a, <1>d, <1>e, <2>1, <2>2, FailureTells
  <2>6. SuccessMeansEffect' /\ DefiniteFailureIsFinal' /\ UnknownOnlyOfWrites'
    BY <1>c, <2>5 DEF SuccessMeansEffect, DefiniteFailureIsFinal, UnknownOnlyOfWrites
  <2>7. Budget'
    <3>1. elapsed \in Nat
      BY DEF IInv, TypeOK
    <3>2. QED
      BY <2>1, <3>1 DEF IInv, Budget, Blocking
  <2>8. SendingMarked' /\ ReceiveWindowOpen' /\ Admitted'
    BY <1>c, <2>1, <2>2 DEF IInv, SendingMarked, ReceiveWindowOpen, Admitted, gateVars
  <2>9. QED
    BY <2>3, <2>4, <2>6, <2>7, <2>8 DEF IInv
<1>8. CASE PeerGone
  <2>1. /\ pc = "recv" /\ pc' = "returned"
        /\ UNCHANGED <<sending, elapsed, timer, got, effects, reply, sent, hung>>
        /\ \E k \in KINDS : outcome' = Failure(k, Writing /\ sending)
        /\ arrived' = arrived
    BY <1>8, KindsUsed DEF PeerGone, Return, Raised, gateVars
  <2>2. QED
    BY <1>a, <1>b, <1>c, <2>1, BrokenOff
<1>9. CASE Decode
  <2> DEFINE o == decode_response(reply.body, Writing)
  <2>1. /\ pc = "decode" /\ pc' = "returned"
        /\ UNCHANGED <<sending, elapsed, timer, got, gateVars>>
        /\ outcome' = o
    BY <1>9 DEF Decode, Return
  <2>2. /\ CallStatus' = StatusOf(TRUE, o)
        /\ o \in Outcomes
    BY <1>a, <1>e, <2>1, DecodeTells
  <2>3. TypeOK'
    BY <1>b, <2>1, <2>2 DEF IInv, TypeOK, G!GateTypeOK, gateVars
  <2>4. NothingThereYet' /\ OneCopy' /\ OnlyWritesHaveEffects' /\ AnswersAreHonest'
    BY <1>c, <2>1 DEF IInv, NothingThereYet, OneCopy, OnlyWritesHaveEffects,
       AnswersAreHonest, gateVars
  <2>5. reply.body \in {"result"} \cup Codes => reply # NoReply
    BY DEF NoReply, Codes, CODE_KINDS
  <2>6. SuccessMeansEffect' /\ DefiniteFailureIsFinal' /\ UnknownOnlyOfWrites'
    BY <1>a, <1>c, <2>1, <2>2, <2>5, DecodeTells
    DEF IInv, AnswersAreHonest, SuccessMeansEffect, DefiniteFailureIsFinal,
        UnknownOnlyOfWrites, gateVars
  <2>7. SendingMarked' /\ Budget' /\ ReceiveWindowOpen' /\ Admitted'
    BY <1>c, <2>1 DEF IInv, SendingMarked, Budget, ReceiveWindowOpen, Admitted, Blocking,
       gateVars
  <2>8. QED
    BY <2>3, <2>4, <2>6, <2>7 DEF IInv
<1>10. CASE Tick
  <2>1. /\ pc \in Blocking /\ timer > 0
        /\ timer' = timer - 1 /\ elapsed' = elapsed + 1
        /\ UNCHANGED <<pc, sending, got, outcome, gateVars>>
    BY <1>10 DEF Tick
  <2>2. timer \in Nat /\ elapsed \in Nat
    BY DEF IInv, TypeOK
  <2>3. TypeOK'
    <3>1. timer' \in Nat /\ elapsed' \in Nat
      BY <2>1, <2>2
    <3>2. QED
      BY <1>b, <2>1, <3>1 DEF IInv, TypeOK, G!GateTypeOK, gateVars
  <2>4. NothingThereYet' /\ OneCopy' /\ OnlyWritesHaveEffects' /\ AnswersAreHonest'
    BY <1>c, <2>1 DEF IInv, NothingThereYet, OneCopy, OnlyWritesHaveEffects,
       AnswersAreHonest, gateVars
  <2>5. SuccessMeansEffect' /\ DefiniteFailureIsFinal' /\ UnknownOnlyOfWrites'
    BY <1>c, <2>1 DEF IInv, SuccessMeansEffect, DefiniteFailureIsFinal,
       UnknownOnlyOfWrites, CallStatus, gateVars
  <2>6. Budget'
    BY <2>1, <2>2 DEF IInv, Budget, Blocking
  <2>7. SendingMarked' /\ ReceiveWindowOpen' /\ Admitted'
    BY <1>c, <2>1 DEF IInv, SendingMarked, ReceiveWindowOpen, Admitted, gateVars
  <2>8. QED
    BY <2>3, <2>4, <2>5, <2>6, <2>7 DEF IInv
<1>11. CASE Far
  <2>1. G!GateNext(Writing) /\ UNCHANGED clientVars
    BY <1>11 DEF Far
  <2>2. CallStatus' = CallStatus
    BY <2>1 DEF clientVars, CallStatus
  <2>3. SendingMarked' /\ Budget' /\ ReceiveWindowOpen'
    BY <2>1 DEF IInv, clientVars, SendingMarked, Budget, ReceiveWindowOpen, Blocking
  <2>4. arrived \in Nat /\ effects \in Nat /\ sent \in Nat
    BY DEF IInv, TypeOK, G!GateTypeOK
  <2>5. ASSUME G!Trickle \/ G!HangUp PROVE IInv'
    <3>1. arrived' = arrived /\ effects' = effects /\ reply' = reply
      BY <2>5 DEF G!Trickle, G!HangUp
    <3>2. G!GateTypeOK'
      <4>1. sent' \in Nat /\ hung' \in BOOLEAN
        <5>1. hung \in BOOLEAN
          BY DEF IInv, TypeOK, G!GateTypeOK
        <5>2. CASE G!Trickle
          BY <2>4, <5>1, <5>2 DEF G!Trickle
        <5>3. CASE G!HangUp
          BY <2>4, <5>3 DEF G!HangUp
        <5>4. QED
          BY <2>5, <5>2, <5>3
      <4>2. QED
        BY <3>1, <4>1 DEF IInv, TypeOK, G!GateTypeOK
    <3>3. TypeOK'
      BY <2>1, <3>2 DEF IInv, TypeOK, clientVars
    <3>4. QED
      BY <1>c, <2>1, <2>2, <2>3, <3>1, <3>3
      DEF IInv, NothingThereYet, OneCopy, OnlyWritesHaveEffects, AnswersAreHonest,
          SuccessMeansEffect, DefiniteFailureIsFinal, UnknownOnlyOfWrites, Admitted,
          clientVars
  <2>6. ASSUME arrived > 0, arrived' = arrived - 1,
               reply' \in G!Replies \cup {NoReply}, sent' = sent, hung' \in BOOLEAN,
               effects' = effects \/ (Writing /\ effects' = effects + 1),
               Writing => \/ reply' = NoReply
                          \/ /\ reply'.body = "result" => effects' = 1
                             /\ reply'.body \in Codes \ {"e32603"} => effects' = 0
        PROVE  IInv'
    <3>1. arrived = 1 /\ effects = 0 /\ arrived' = 0
      BY <2>4, <2>6 DEF IInv, OneCopy
    <3>2. CallStatus # "ok" \/ ~Writing
      BY <3>1 DEF IInv, SuccessMeansEffect
    <3>3. CallStatus # "failed" \/ ~Writing
      BY <3>1 DEF IInv, DefiniteFailureIsFinal
    <3>4. Allows(scope, verb) /\ pc \notin {"admit", "encode", "connect", "send"}
      BY <3>1 DEF IInv, Admitted, NothingThereYet
    <3>5. G!GateTypeOK'
      BY <2>4, <2>6, <3>1 DEF G!GateTypeOK
    <3>6. TypeOK'
      BY <2>1, <3>5 DEF IInv, TypeOK, clientVars
    <3>7. NothingThereYet' /\ Admitted'
      BY <1>c, <2>1, <3>4 DEF clientVars, NothingThereYet, Admitted
    <3>8. OneCopy' /\ OnlyWritesHaveEffects' /\ AnswersAreHonest'
      BY <1>c, <2>6, <3>1 DEF OneCopy, OnlyWritesHaveEffects, AnswersAreHonest
    <3>9. SuccessMeansEffect' /\ DefiniteFailureIsFinal' /\ UnknownOnlyOfWrites'
      BY <1>c, <2>2, <3>2, <3>3
      DEF IInv, SuccessMeansEffect, DefiniteFailureIsFinal, UnknownOnlyOfWrites
    <3>10. QED
      BY <2>3, <3>6, <3>7, <3>8, <3>9 DEF IInv
  <2>7. reply \in G!Replies \cup {NoReply} /\ hung \in BOOLEAN
    BY DEF IInv, TypeOK, G!GateTypeOK
  <2>8. arrived > 0 /\ Writing => reply = NoReply
    BY DEF IInv, AnswersAreHonest
  <2>9. CASE G!Apply(Writing)
    <3>1. Writing /\ arrived > 0 /\ reply' \in AfterReplies
      BY <2>8, <2>9 DEF G!Apply, G!Answer
    <3>2. reply'.body \in AfterBodies /\ effects' = 1
      BY <2>4, <2>9, <3>1 DEF G!Apply, AfterReplies, IInv, OneCopy
    <3>3. reply'.body \notin Codes \ {"e32603"}
      BY <3>2 DEF AfterBodies, Codes, CODE_KINDS
    <3>4. QED
      BY <2>6, <2>7, <2>9, <3>1, <3>2, <3>3 DEF G!Apply, G!Replies
  <2>10. CASE G!Refuse(Writing)
    <3>1. Writing /\ arrived > 0 /\ reply' \in RefusalReplies
      BY <2>8, <2>10 DEF G!Refuse, G!Answer
    <3>2. reply'.body # "result" /\ effects' = 0
      BY <2>4, <2>10, <3>1 DEF G!Refuse, RefusalReplies, RefusalBodies, IInv, OneCopy
    <3>3. QED
      BY <2>6, <2>7, <2>10, <3>1, <3>2 DEF G!Refuse, G!Replies
  <2>11. CASE G!Serve(Writing)
    BY <2>6, <2>7, <2>11 DEF G!Serve, G!Answer, G!Replies
  <2>12. CASE G!Crash
    BY <2>6, <2>7, <2>8, <2>12 DEF G!Crash
  <2>13. CASE G!ProxyAnswers
    BY <2>13 DEF G!ProxyAnswers, ProxyReplies
  <2>14. QED
    BY <2>1, <2>5, <2>9, <2>10, <2>11, <2>12, <2>13 DEF G!GateNext
<1>12. CASE UNCHANGED vars
  BY <1>12 DEF vars, IInv, TypeOK, G!GateTypeOK, NothingThereYet, SendingMarked, OneCopy,
     OnlyWritesHaveEffects, AnswersAreHonest, SuccessMeansEffect, DefiniteFailureIsFinal,
     UnknownOnlyOfWrites, CallStatus, Budget, Blocking, ReceiveWindowOpen, Admitted, Writing
<1>13. QED
  BY <1>1, <1>2, <1>3, <1>4, <1>5, <1>6, <1>7, <1>8, <1>9, <1>10, <1>11, <1>12
  DEF Next, Client

(* The invariant holds in every reachable state. *)
LEMMA Invariant == Spec => []IInv
<1>1. Init => IInv
  BY InitIInv
<1>2. IInv /\ [Next]_vars => IInv'
  BY StepIInv
<1>3. QED
  BY <1>1, <1>2, PTL DEF Spec

-----------------------------------------------------------------------------
(* Every reachable state of a socket call is well typed (transport.py 155-185). *)
THEOREM TypeCorrect == Spec => []TypeOK
<1>1. IInv => TypeOK
  BY DEF IInv
<1>2. QED
  BY <1>1, Invariant, PTL

(* A failure without outcome_unknown is final: whatever the gate does before or
   after the call has ended, the write has not and will not take effect. *)
THEOREM DefiniteFailures == Spec => []DefiniteFailureIsFinal
<1>1. IInv => DefiniteFailureIsFinal
  BY DEF IInv
<1>2. QED
  BY <1>1, Invariant, PTL

(* The thread is never blocked past the one deadline, however the peer drips. *)
THEOREM DeadlineKept == Spec => []OneDeadline
<1>1. IInv => OneDeadline
  BY DEF IInv, Budget, OneDeadline
<1>2. QED
  BY <1>1, Invariant, PTL

(* The receive window never closes: recv() is never asked for nothing, nor for
   more than the byte that tells an answer over the cap (transport.py 173-178). *)
THEOREM WindowOpen == Spec => []InBounds
<1>1. IInv => InBounds
  BY DEF IInv, InBounds
<1>2. QED
  BY <1>1, Invariant, PTL

(* No verb of the table, and none outside it, changes the gate from read scope. *)
THEOREM ReadScopeIsHarmless == Spec => []ReadScopeChangesNothing
<1>1. IInv => ReadScopeChangesNothing
  <2> SUFFICES ASSUME IInv, scope = "read" PROVE effects = 0
    BY DEF ReadScopeChangesNothing
  <2>1. CASE Allows(scope, verb)
    BY <2>1, ReadScopeAllowsOnlyReads DEF IInv, OnlyWritesHaveEffects, Writing
  <2>2. CASE ~Allows(scope, verb)
    BY <2>2 DEF IInv, Admitted
  <2>3. QED
    BY <2>1, <2>2
<1>2. QED
  BY <1>1, Invariant, PTL

-----------------------------------------------------------------------------
(* The socket transport implements the abstract call. *)

(* A step of the caller's thread leaves the far side's effects alone; if it ends
   the call, the invariant says which abstract step that is. *)
LEMMA EndingsAreAbstract ==
    ASSUME IInv, IInv', pc # "returned", effects' = effects, Writing' = Writing
    PROVE  [Abstract!Next]_(Abstract!vars)
<1>1. CallStatus = "open"
  BY DEF CallStatus, StatusOf
<1>2. CallStatus' \in {"open", "ok", "escaped", "unknown", "failed"}
  BY DEF CallStatus, StatusOf
<1>3. CASE CallStatus' = "open"
  BY <1>1, <1>3 DEF Abstract!vars
<1>4. CASE CallStatus' = "ok"
  BY <1>1, <1>4 DEF IInv, SuccessMeansEffect, Abstract!Next, Abstract!Succeed
<1>5. CASE CallStatus' = "failed"
  <2>1. effects = 0
    BY <1>5 DEF IInv, DefiniteFailureIsFinal, OnlyWritesHaveEffects
  <2>2. QED
    BY <1>1, <1>5, <2>1 DEF Abstract!Next, Abstract!Fail
<1>6. CASE CallStatus' = "unknown"
  BY <1>1, <1>6 DEF IInv, UnknownOnlyOfWrites, Abstract!Next, Abstract!Lose
<1>7. CASE CallStatus' = "escaped"
  BY <1>1, <1>7 DEF Abstract!Next, Abstract!Escape
<1>8. QED
  BY <1>2, <1>3, <1>4, <1>5, <1>6, <1>7

(* Every step is one that GateCall allows, or none of its business. *)
LEMMA StepImplements == IInv /\ IInv' /\ [Next]_vars => [Abstract!Next]_(Abstract!vars)
<1> SUFFICES ASSUME IInv, IInv', [Next]_vars PROVE [Abstract!Next]_(Abstract!vars)
  OBVIOUS
<1>1. Writing' = Writing
  BY DEF Next, vars, Client, Admit, Encode, Connect, Send, WireFails, Expire, Receive,
     PeerGone, Decode, Tick, Far, clientVars, Writing
<1>2. CASE Client \/ Tick
  <2>1. pc # "returned" /\ effects' = effects
    BY <1>2 DEF Client, Admit, Encode, Connect, Send, WireFails, Expire, Receive,
       PeerGone, Decode, Tick, gateVars, Blocking
  <2>2. QED
    BY <1>1, <2>1, EndingsAreAbstract
<1>3. CASE Far
  <2>1. CallStatus' = CallStatus
    BY <1>3 DEF Far, clientVars, CallStatus
  <2>2. CASE effects' = effects
    BY <1>1, <2>1, <2>2 DEF Abstract!vars
  <2>3. CASE G!Apply(Writing)
    <3>1. arrived \in Nat /\ effects \in Nat
      BY DEF IInv, TypeOK, G!GateTypeOK
    <3>2. Writing /\ arrived > 0 /\ effects' = effects + 1
      BY <2>3 DEF G!Apply
    <3>3. effects = 0
      BY <3>1, <3>2 DEF IInv, OneCopy
    <3>4. CallStatus \notin {"ok", "failed"}
      BY <3>2, <3>3 DEF IInv, SuccessMeansEffect, DefiniteFailureIsFinal
    <3>5. CallStatus \in {"open", "unknown", "escaped"}
      BY <3>4 DEF CallStatus, StatusOf
    <3>6. QED
      BY <1>1, <2>1, <3>2, <3>3, <3>5 DEF Abstract!Next, Abstract!Effect
  <2>4. QED
    BY <1>3, <2>2, <2>3
    DEF Far, G!GateNext, G!Refuse, G!Serve, G!ProxyAnswers, G!Trickle, G!HangUp, G!Crash
<1>4. CASE UNCHANGED vars
  BY <1>4 DEF vars, Abstract!vars, Writing, CallStatus
<1>5. QED
  BY <1>2, <1>3, <1>4 DEF Next

(* One socket call is one abstract call: no retry, no success without an effect,
   no definite failure of a write that takes effect, before or afterwards. *)
THEOREM Implements == Spec => KeepsPromise
<1>1. Init => Abstract!Init
  <2> SUFFICES ASSUME Init PROVE Abstract!Init
    OBVIOUS
  <2>1. effects = 0 /\ Writing \in BOOLEAN
    BY DEF Init, G!GateInit, Writing, Mutates
  <2>2. CallStatus = "open"
    BY DEF Init, CallStatus, StatusOf
  <2>3. QED
    BY <2>1, <2>2 DEF Abstract!Init
<1>2. IInv /\ IInv' /\ [Next]_vars => [Abstract!Next]_(Abstract!vars)
  BY StepImplements
<1>3. QED
  BY <1>1, <1>2, Invariant, PTL DEF Spec, KeepsPromise, Abstract!Spec

=============================================================================
