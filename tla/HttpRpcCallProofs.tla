------------------------- MODULE HttpRpcCallProofs -------------------------
(* Proofs about HttpRpcCall, for every timeout, cap, set of verbs, set of reply
   sizes and number of addresses: its types, and that it implements GateCall. *)
EXTENDS HttpRpcCall, TLAPS

(* Until the send is over nothing is on the far side. *)
Before == {"admit", "encode", "connect", "handshake", "send"}
NothingThereYet ==
    pc \in Before => arrived = 0 /\ effects = 0 /\ reply = NoReply /\ got = 0

(* What is read was sent, and what was sent is an answer. *)
ReplyIsThere == sent > 0 \/ pc \in {"body", "classify"} => reply # NoReply

(* One copy of the request exists, in one place. *)
OneCopy == arrived + effects <= 1
OnlyWritesHaveEffects == ~Writing => effects = 0

(* An answer to a write that the caller will take for a refusal or a success was
   given by a gate that had decided; one of an intermediary is neither. *)
RefusedForCertain ==
    IF reply.status = 200 THEN reply.body \in Codes \ {"e32603"} ELSE reply.status < 500
AnswersAreHonest ==
    Writing /\ reply # NoReply =>
        /\ reply.status = 200 /\ reply.body = "result" => effects = 1
        /\ RefusedForCertain => arrived = 0 /\ effects = 0

(* read() is never asked for nothing. *)
WindowOpen ==
    /\ pc = "head" => got = 0
    /\ pc = "body" => got \in 1 .. (MaxBytes + 1)

(* What a caller was told stays true: a success, a definite failure, and that
   only a write can have an unknown outcome. *)
ToldTheTruth ==
    /\ CallStatus = "ok" /\ Writing => effects = 1
    /\ CallStatus = "failed" /\ Writing => effects = 0 /\ arrived = 0
    /\ CallStatus = "unknown" => Writing

FarInv == OneCopy /\ OnlyWritesHaveEffects /\ AnswersAreHonest

IInv == TypeOK /\ NothingThereYet /\ ReplyIsThere /\ FarInv /\ WindowOpen /\ ToldTheTruth

-----------------------------------------------------------------------------
(* What a failure is called does not matter to what the caller is told. *)
LEMMA FailureTells ==
    ASSUME NEW k \in KINDS \cup {"ValueError"}, NEW u \in BOOLEAN
    PROVE  /\ Failure(k, u) \in Outcomes
           /\ StatusOf(TRUE, Failure(k, u)) = IF u THEN "unknown" ELSE "failed"
<1>1. k # "result" /\ k \notin Escapes
    BY DEF KINDS, Escapes
<1> QED
    BY <1>1 DEF Failure, Outcomes, StatusOf

(* What escapes call() is no GateError, which GateCall takes to say nothing. *)
LEMMA EscapeTells ==
    ASSUME NEW k \in Escapes
    PROVE  Failure(k, FALSE) \in Outcomes /\ StatusOf(TRUE, Failure(k, FALSE)) = "escaped"
BY DEF Failure, Outcomes, StatusOf, Escapes

(* The kinds of code and status are kinds. *)
LEMMA KindsOfReplies ==
    /\ \A code : kind_of_code(code) \in KINDS
    /\ \A status : kind_of_status(status) \in KINDS
    /\ {"request_too_large", "response_too_large", "invalid_response", "timeout", "unavailable"} \subseteq KINDS
    /\ \A s, v : ScopeRefusal(s, v) \in KINDS
<1>1. \A code : kind_of_code(code) \in KINDS
    BY DEF kind_of_code, CODE_KINDS, KINDS
<1>2. ASSUME NEW status PROVE kind_of_status(status) \in KINDS
    BY DEF kind_of_status, HTTP_KINDS, KINDS
<1> QED
    BY <1>1, <1>2 DEF ScopeRefusal, KINDS

(* A body is read as a success only if it is a result, and as a definite failure of a
   write only if it carries a code that says so. *)
LEMMA DecodeTells ==
    ASSUME NEW b, NEW w \in BOOLEAN
    PROVE  LET o == decode_response(b, w)
               told == StatusOf(TRUE, o)
           IN  /\ o \in Outcomes
               /\ told = "ok" => b = "result"
               /\ told = "failed" /\ w => b \in Codes \ {"e32603"}
               /\ told = "unknown" => w
<1>1. CASE b = "result"
    BY <1>1 DEF decode_response, Success, Outcomes, StatusOf, Codes, CODE_KINDS
<1>2. CASE b # "result" /\ b \in Codes
    <2>1. decode_response(b, w) = Failure(kind_of_code(b), w /\ b = "e32603")
        BY <1>2 DEF decode_response
    <2> QED
        BY <1>2, <2>1, FailureTells, KindsOfReplies
<1>3. CASE b \notin Codes \cup {"result"} /\ b = "deep"
    BY <1>3, EscapeTells DEF decode_response, Escapes
<1>4. CASE b \notin Codes \cup {"result"} /\ b # "deep"
    <2>1. decode_response(b, w) = Failure("invalid_response", w)
        BY <1>4 DEF decode_response
    <2> QED
        BY <2>1, FailureTells, KindsOfReplies
<1> QED
    BY <1>1, <1>2, <1>3, <1>4

(* What the call makes of a reply, whole or cut short. *)
LEMMA VerdictTells ==
    ASSUME TypeOK, reply # NoReply
    PROVE  LET told == StatusOf(TRUE, Verdict)
           IN  /\ Verdict \in Outcomes
               /\ told = "ok" => reply.status = 200 /\ reply.body = "result"
               /\ told = "failed" /\ Writing => RefusedForCertain
               /\ told = "unknown" => Writing
<1>1. Writing \in BOOLEAN /\ reply \in G!Replies /\ reply.status \in Nat
    BY DEF TypeOK, G!GateTypeOK, Writing, Mutates, G!Replies, AfterReplies, RefusalReplies, ReadReplies,
        ProxyReplies, Answers, DoorRefusals
<1>2. CASE got - 1 > MaxBytes
    <2>1. Verdict = Failure("response_too_large", Writing)
        BY <1>2 DEF Verdict
    <2> QED
        BY <1>1, <2>1, FailureTells, KindsOfReplies
<1>3. CASE ~(got - 1 > MaxBytes) /\ reply.status # 200 /\ reply.retry = "inf"
    <2>1. Verdict = Failure("OverflowError", FALSE)
        BY <1>3 DEF Verdict
    <2> QED
        BY <2>1, EscapeTells DEF Escapes
<1>4. CASE ~(got - 1 > MaxBytes) /\ reply.status # 200 /\ reply.retry # "inf"
    <2>1. Verdict = Failure(kind_of_status(reply.status), Writing /\ reply.status >= 500)
        BY <1>4 DEF Verdict
    <2>2. (Writing /\ reply.status >= 500) \in BOOLEAN
        BY <1>1
    <2>3. StatusOf(TRUE, Verdict) = IF Writing /\ reply.status >= 500 THEN "unknown" ELSE "failed"
        BY <2>1, <2>2, FailureTells, KindsOfReplies
    <2>4. Verdict \in Outcomes
        BY <2>1, <2>2, FailureTells, KindsOfReplies
    <2>5. ~(reply.status >= 500) => RefusedForCertain
        BY <1>1, <1>4 DEF RefusedForCertain
    <2> QED
        BY <2>3, <2>4, <2>5
<1>5. CASE ~(got - 1 > MaxBytes) /\ reply.status = 200
    <2> DEFINE b == IF Truncated THEN "malformed" ELSE reply.body
    <2>1. Verdict = decode_response(b, Writing)
        BY <1>5 DEF Verdict
    <2>2. b \in {"result"} \cup Codes => b = reply.body
        BY DEF Codes, CODE_KINDS
    <2> HIDE DEF b
    <2>3. b \in Codes \ {"e32603"} => RefusedForCertain
        BY <1>5, <2>2 DEF RefusedForCertain
    <2>4. LET told == StatusOf(TRUE, Verdict)
          IN  /\ Verdict \in Outcomes
              /\ told = "ok" => b = "result"
              /\ told = "failed" /\ Writing => b \in Codes \ {"e32603"}
              /\ told = "unknown" => Writing
        BY <1>1, <2>1, DecodeTells
    <2> QED
        BY <1>5, <2>2, <2>3, <2>4
<1> QED
    BY <1>2, <1>3, <1>4, <1>5

-----------------------------------------------------------------------------
(* The invariant holds where a call begins. *)
LEMMA InitIInv == Init => IInv
<1> SUFFICES ASSUME Init PROVE IInv
    OBVIOUS
<1>1. Pending \in Outcomes
    BY DEF Pending, Outcomes
<1>2. TypeOK
    <2>1. 0 \in 0 .. Addresses /\ 0 \in 0 .. (Timeout + 1) /\ 0 \in 0 .. Timeout /\ 0 \in 0 .. (MaxBytes + 2)
        BY TimeoutAssumption, MaxBytesAssumption, AddressesAssumption
    <2>2. G!GateTypeOK
        BY DEF Init, G!GateInit, G!GateTypeOK
    <2> QED
        BY <1>1, <2>1, <2>2 DEF Init, TypeOK
<1>3. NothingThereYet /\ ReplyIsThere /\ FarInv /\ WindowOpen /\ ToldTheTruth
    BY DEF Init, G!GateInit, NothingThereYet, ReplyIsThere, FarInv, OneCopy, OnlyWritesHaveEffects,
        AnswersAreHonest, WindowOpen, ToldTheTruth, CallStatus, StatusOf
<1> QED
    BY <1>2, <1>3 DEF IInv

(* A call that ends: locally, by an error of the wire, or by a verdict. *)
Ending ==
    \/ /\ pc \in {"admit", "encode"} /\ arrived' = arrived
       /\ \E k \in KINDS \cup {"ValueError"} : outcome' = Failure(k, FALSE)
    \/ \E k \in KINDS : outcome' = Failure(k, Writing)
    \/ pc = "classify" /\ arrived' = arrived /\ outcome' = Verdict

(* What a step of the thread may change, action by action. *)
LEMMA ThreadStep ==
    ASSUME IInv, Client \/ Tick
    PROVE  /\ UNCHANGED <<scope, verb, fits, effects, reply, sent, hung>>
           /\ pc # "returned" /\ pc' \in Blocking \cup {"admit", "encode", "classify", "returned"}
           /\ arrived' = arrived \/ (pc = "send" /\ arrived' = arrived + 1 /\ pc' \notin Before)
           /\ pc' \in Before => pc \in Before /\ got' = got
           /\ pc' \in {"body", "classify"} => reply # NoReply
           /\ pc' # "returned" => outcome' = outcome
           /\ pc' = "returned" => Ending
           /\ WindowOpen'
           /\ tries' \in 0 .. Addresses /\ elapsed' \in 0 .. (Timeout + 1)
           /\ timer' \in 0 .. Timeout /\ got' \in 0 .. (MaxBytes + 2)
<1> USE TimeoutAssumption, MaxBytesAssumption, AddressesAssumption
<1>1. /\ tries \in 0 .. Addresses /\ elapsed \in 0 .. (Timeout + 1) /\ Timeout \in 0 .. Timeout
      /\ timer \in 0 .. Timeout /\ got \in 0 .. (MaxBytes + 2) /\ WindowOpen /\ sent \in Nat
    BY DEF IInv, TypeOK, G!GateTypeOK
<1> USE DEF Before, Blocking, Block, Return, Raised, gateVars, Ending
<1>2. CASE Admit
    BY <1>1, <1>2, KindsOfReplies DEF Admit, WindowOpen
<1>3. CASE Encode
    <2>1. 1 \in 0 .. Addresses
        OBVIOUS
    <2>2. /\ pc = "encode" /\ pc' \in {"connect", "returned"}
          /\ UNCHANGED <<scope, verb, fits, elapsed, got, gateVars>>
          /\ tries' \in {tries, 1} /\ timer' \in {timer, Timeout}
          /\ pc' = "connect" => outcome' = outcome
          /\ pc' = "returned" => \E k \in KINDS \cup {"ValueError"} : outcome' = Failure(k, FALSE)
        BY <1>3, KindsOfReplies DEF Encode
    <2> QED
        BY <1>1, <2>1, <2>2 DEF WindowOpen
<1>4. CASE Connect
    BY <1>1, <1>4 DEF Connect, WindowOpen
<1>5. CASE ConnectFails
    BY <1>1, <1>5, KindsOfReplies DEF ConnectFails, NextAddress, WindowOpen
<1>6. CASE Handshake
    BY <1>1, <1>6 DEF Handshake, WindowOpen
<1>7. CASE Send
    BY <1>1, <1>7 DEF Send, WindowOpen, IInv, NothingThereYet
<1>8. CASE WireFails
    BY <1>1, <1>8, KindsOfReplies DEF WireFails, WindowOpen
<1>9. CASE Expire
    <2>1. CASE pc = "connect"
        BY <1>1, <1>9, <2>1, KindsOfReplies DEF Expire, NextAddress, WindowOpen
    <2>2. CASE pc # "connect"
        BY <1>1, <1>9, <2>2, KindsOfReplies DEF Expire, WindowOpen
    <2> QED
        BY <2>1, <2>2
<1>10. CASE Interim
    BY <1>1, <1>10 DEF Interim, WindowOpen
<1>11. CASE Head
    BY <1>1, <1>11 DEF Head, WindowOpen, IInv, ReplyIsThere
<1>12. CASE Body
    BY <1>1, <1>12 DEF Body, WindowOpen, IInv, ReplyIsThere
<1>13. CASE PeerGone
    BY <1>1, <1>13, KindsOfReplies DEF PeerGone, WindowOpen, IInv, ReplyIsThere
<1>14. CASE Classify
    BY <1>1, <1>14 DEF Classify, WindowOpen
<1>15. CASE Tick
    <2>1. timer - 1 \in 0 .. Timeout
        BY <1>1, <1>15 DEF Tick
    <2>2. elapsed' \in 0 .. (Timeout + 1)
        <3>1. CASE elapsed > Timeout
            BY <1>1, <1>15, <3>1 DEF Tick
        <3>2. CASE ~(elapsed > Timeout)
            BY <1>1, <1>15, <3>2 DEF Tick
        <3> QED
            BY <3>1, <3>2
    <2> QED
        BY <1>1, <1>15, <2>1, <2>2 DEF Tick, WindowOpen, IInv, ReplyIsThere
<1> QED
    BY <1>2, <1>3, <1>4, <1>5, <1>6, <1>7, <1>8, <1>9, <1>10, <1>11, <1>12, <1>13, <1>14, <1>15 DEF Client

(* What is told when a call ends is true, and stays true of what is under way. *)
LEMMA EndTellsTheTruth ==
    ASSUME IInv, Client \/ Tick, pc' = "returned"
    PROVE  outcome' \in Outcomes /\ ToldTheTruth'
<1>1. /\ Writing \in BOOLEAN /\ Writing' = Writing /\ effects' = effects
      /\ CallStatus' = StatusOf(TRUE, outcome')
      /\ Ending
    BY ThreadStep DEF Writing, Mutates, CallStatus
<1>2. CASE /\ pc \in {"admit", "encode"} /\ arrived' = arrived
           /\ \E k \in KINDS \cup {"ValueError"} : outcome' = Failure(k, FALSE)
    <2>1. CallStatus' = "failed" /\ outcome' \in Outcomes
        BY <1>1, <1>2, FailureTells
    <2>2. effects' = 0 /\ arrived' = 0
        BY <1>1, <1>2 DEF IInv, NothingThereYet, Before
    <2> QED
        BY <2>1, <2>2 DEF ToldTheTruth
<1>3. CASE \E k \in KINDS : outcome' = Failure(k, Writing)
    BY <1>1, <1>3, FailureTells DEF ToldTheTruth
<1>4. CASE pc = "classify" /\ arrived' = arrived /\ outcome' = Verdict
    <2>1. reply # NoReply
        BY <1>4 DEF IInv, ReplyIsThere
    <2> QED
        BY <1>1, <1>4, <2>1, VerdictTells DEF ToldTheTruth, IInv, FarInv, AnswersAreHonest
<1> QED
    BY <1>1, <1>2, <1>3, <1>4 DEF Ending

(* Whatever the caller's thread does, or a tick of the clock, keeps the invariant. *)
LEMMA ThreadKeepsIInv ==
    ASSUME IInv, Client \/ Tick
    PROVE  IInv'
<1>1. Writing' = Writing
    BY ThreadStep DEF Writing
<1>2. outcome' \in Outcomes /\ ToldTheTruth'
    <2>1. CASE pc' = "returned"
        BY <2>1, EndTellsTheTruth
    <2>2. CASE pc' # "returned"
        BY <2>2, ThreadStep DEF IInv, TypeOK, ToldTheTruth, CallStatus, StatusOf
    <2> QED
        BY <2>1, <2>2
<1>3. pc = "send" => arrived = 0 /\ effects = 0 /\ reply = NoReply
    BY DEF IInv, NothingThereYet, Before
<1>4. TypeOK'
    BY <1>2, ThreadStep DEF IInv, TypeOK, G!GateTypeOK
<1>5. NothingThereYet' /\ ReplyIsThere' /\ WindowOpen'
    BY ThreadStep DEF IInv, NothingThereYet, ReplyIsThere
<1>6. FarInv'
    BY <1>1, <1>3, ThreadStep
    DEF IInv, FarInv, OneCopy, OnlyWritesHaveEffects, AnswersAreHonest, RefusedForCertain
<1> QED
    BY <1>2, <1>4, <1>5, <1>6 DEF IInv

(* The far end, which acts before and after the call has ended. *)
LEMMA FarKeepsIInv ==
    ASSUME IInv, Far
    PROVE  IInv'
<1>1. G!GateNext(Writing) /\ UNCHANGED clientVars /\ Writing' = Writing /\ CallStatus' = CallStatus
    BY DEF Far, clientVars, Writing, CallStatus
<1>2. /\ arrived \in Nat /\ effects \in Nat /\ sent \in Nat /\ hung \in BOOLEAN
      /\ reply \in G!Replies \cup {NoReply}
    BY DEF IInv, TypeOK, G!GateTypeOK
<1>3. arrived > 0 => arrived = 1 /\ effects = 0 /\ pc \notin Before
    BY <1>2 DEF IInv, FarInv, OneCopy, NothingThereYet
<1>4. /\ G!GateTypeOK' /\ FarInv'
      /\ sent' > 0 => reply' # NoReply
      /\ reply # NoReply => reply' = reply
      /\ \/ arrived' = arrived /\ effects' = effects /\ (reply' = reply \/ arrived > 0)
         \/ arrived > 0 /\ arrived' = 0 /\ (effects' = effects \/ Writing)
    <2>1. CASE G!Apply(Writing)
        <3>1. /\ Writing /\ arrived = 1 /\ arrived' = 0 /\ effects' = 1 /\ sent' = sent /\ hung' = hung
              /\ \/ reply = NoReply /\ reply' \in AfterReplies
                 \/ reply # NoReply /\ reply' = reply
            BY <1>3, <2>1 DEF G!Apply, G!Answer
        <3>2. reply' \in AfterReplies =>
                reply' # NoReply /\ ~RefusedForCertain'
            BY DEF AfterReplies, Answers, AfterBodies, NoReply, RefusedForCertain, Codes, CODE_KINDS
        <3>3. reply' = reply /\ reply # NoReply => ~RefusedForCertain'
            BY <3>1 DEF IInv, FarInv, AnswersAreHonest, RefusedForCertain
        <3> QED
            BY <1>1, <1>2, <3>1, <3>2, <3>3
            DEF G!GateTypeOK, G!Replies, FarInv, OneCopy, OnlyWritesHaveEffects, AnswersAreHonest,
                IInv, ReplyIsThere
    <2>2. CASE G!Refuse(Writing)
        <3>1. /\ Writing /\ arrived = 1 /\ effects = 0 /\ arrived' = 0 /\ effects' = 0
              /\ sent' = sent /\ hung' = hung
              /\ \/ reply = NoReply /\ reply' \in RefusalReplies
                 \/ reply # NoReply /\ reply' = reply
            BY <1>3, <2>2 DEF G!Refuse, G!Answer
        <3>2. reply' \in RefusalReplies => reply' # NoReply /\ ~(reply'.status = 200 /\ reply'.body = "result")
            BY DEF RefusalReplies, Answers, RefusalBodies, DoorRefusals, NoReply
        <3>3. reply' = reply /\ reply # NoReply => ~(reply'.status = 200 /\ reply'.body = "result")
            BY <3>1 DEF IInv, FarInv, AnswersAreHonest
        <3> QED
            BY <1>1, <1>2, <3>1, <3>2, <3>3
            DEF G!GateTypeOK, G!Replies, FarInv, OneCopy, OnlyWritesHaveEffects, AnswersAreHonest,
                IInv, ReplyIsThere
    <2>3. CASE G!Serve(Writing)
        <3>1. /\ ~Writing /\ arrived = 1 /\ arrived' = 0 /\ effects' = effects
              /\ sent' = sent /\ hung' = hung
              /\ \/ reply = NoReply /\ reply' \in ReadReplies
                 \/ reply # NoReply /\ reply' = reply
            BY <1>3, <2>3 DEF G!Serve, G!Answer
        <3>2. reply' \in ReadReplies => reply' # NoReply
            BY DEF ReadReplies, Answers, DoorRefusals, NoReply
        <3> QED
            BY <1>1, <1>2, <3>1, <3>2
            DEF G!GateTypeOK, G!Replies, FarInv, OneCopy, OnlyWritesHaveEffects, AnswersAreHonest,
                IInv, ReplyIsThere
    <2>4. CASE G!ProxyAnswers
        <3>1. /\ arrived > 0 /\ reply = NoReply /\ reply' \in ProxyReplies
              /\ UNCHANGED <<arrived, effects, sent, hung>>
            BY <2>4 DEF G!ProxyAnswers
        <3>2. reply' # NoReply /\ reply'.status # 200 /\ ~RefusedForCertain'
            BY <3>1 DEF ProxyReplies, Answers, NoReply, RefusedForCertain
        <3> QED
            BY <1>1, <1>2, <3>1, <3>2
            DEF G!GateTypeOK, G!Replies, IInv, FarInv, OneCopy, OnlyWritesHaveEffects, AnswersAreHonest
    <2>5. CASE G!Trickle \/ G!HangUp
        <3>1. /\ UNCHANGED <<arrived, effects, reply>> /\ sent' \in Nat /\ hung' \in BOOLEAN
              /\ sent' > 0 => reply # NoReply
            <4>1. CASE G!Trickle
                BY <1>2, <4>1 DEF G!Trickle
            <4>2. CASE G!HangUp
                BY <1>2, <4>2 DEF G!HangUp, IInv, ReplyIsThere
            <4> QED
                BY <2>5, <4>1, <4>2
        <3> QED
            BY <1>1, <1>2, <3>1
            DEF G!GateTypeOK, IInv, FarInv, OneCopy, OnlyWritesHaveEffects, AnswersAreHonest, RefusedForCertain
    <2>6. CASE G!Crash
        <3>1. /\ arrived = 1 /\ arrived' = 0 /\ UNCHANGED <<effects, reply, sent>> /\ hung' = TRUE
            BY <1>3, <2>6 DEF G!Crash
        <3> QED
            BY <1>1, <1>2, <1>3, <3>1
            DEF G!GateTypeOK, IInv, FarInv, OneCopy, OnlyWritesHaveEffects, AnswersAreHonest, RefusedForCertain,
                ReplyIsThere
    <2> QED
        BY <1>1, <2>1, <2>2, <2>3, <2>4, <2>5, <2>6 DEF G!GateNext
<1>5. TypeOK'
    BY <1>1, <1>4 DEF IInv, TypeOK, clientVars
<1>6. NothingThereYet' /\ ReplyIsThere' /\ WindowOpen'
    BY <1>1, <1>3, <1>4 DEF IInv, NothingThereYet, ReplyIsThere, WindowOpen, clientVars
<1>7. ToldTheTruth'
    BY <1>1, <1>2, <1>3, <1>4 DEF IInv, ToldTheTruth
<1> QED
    BY <1>4, <1>5, <1>6, <1>7 DEF IInv

(* Every step keeps the invariant, action by action. *)
LEMMA StepIInv == IInv /\ [Next]_vars => IInv'
<1>1. CASE IInv /\ UNCHANGED vars
    BY <1>1 DEF vars, IInv, TypeOK, G!GateTypeOK, NothingThereYet, ReplyIsThere, FarInv, OneCopy,
        OnlyWritesHaveEffects, AnswersAreHonest, RefusedForCertain, WindowOpen, ToldTheTruth, CallStatus, Writing
<1> QED
    BY <1>1, ThreadKeepsIInv, FarKeepsIInv DEF Next

(* The invariant holds in every reachable state. *)
LEMMA Invariant == Spec => []IInv
BY InitIInv, StepIInv, PTL DEF Spec

-----------------------------------------------------------------------------
(* Every reachable state of an /rpc call is well typed (transport.py 223-260). *)
THEOREM TypeCorrect == Spec => []TypeOK
<1>1. IInv => TypeOK
    BY DEF IInv
<1> QED
    BY <1>1, Invariant, PTL

(* Every step is one that GateCall allows, or none of its business. *)
LEMMA StepImplements == IInv /\ IInv' /\ [Next]_vars => [Abstract!Next]_(Abstract!vars)
<1> SUFFICES ASSUME IInv, IInv', [Next]_vars PROVE [Abstract!Next]_(Abstract!vars)
    OBVIOUS
<1>1. CASE Client \/ Tick
    <2>1. /\ CallStatus = "open" /\ effects' = effects /\ Writing' = Writing
          /\ CallStatus' \in {"open", "ok", "escaped", "unknown", "failed"}
        BY <1>1, ThreadStep DEF CallStatus, StatusOf, Writing
    <2>2. CASE CallStatus' = "failed"
        <3>1. effects = 0
            BY <2>1, <2>2 DEF IInv, ToldTheTruth, FarInv, OnlyWritesHaveEffects
        <3> QED
            BY <2>1, <2>2, <3>1 DEF Abstract!Next, Abstract!Fail
    <2>3. CASE CallStatus' \in {"ok", "unknown", "escaped"}
        BY <2>1, <2>3 DEF IInv, ToldTheTruth, Abstract!Next, Abstract!Succeed, Abstract!Lose, Abstract!Escape
    <2>4. CASE CallStatus' = "open"
        BY <2>1, <2>4 DEF Abstract!vars
    <2> QED
        BY <2>1, <2>2, <2>3, <2>4
<1>2. CASE Far
    <2>1. CallStatus' = CallStatus /\ Writing' = Writing /\ G!GateNext(Writing)
        BY <1>2 DEF Far, clientVars, CallStatus, Writing
    <2>2. CASE effects' = effects
        BY <2>1, <2>2 DEF Abstract!vars
    <2>3. CASE G!Apply(Writing)
        <3>1. Writing /\ arrived > 0 /\ effects = 0 /\ effects' = 1
            BY <2>3 DEF G!Apply, IInv, TypeOK, G!GateTypeOK, FarInv, OneCopy
        <3>2. CallStatus \in {"open", "unknown", "escaped"}
            BY <3>1 DEF IInv, ToldTheTruth, CallStatus, StatusOf
        <3> QED
            BY <2>1, <3>1, <3>2 DEF Abstract!Next, Abstract!Effect
    <2> QED
        BY <2>1, <2>2, <2>3 DEF G!GateNext, G!Refuse, G!Serve, G!ProxyAnswers, G!Trickle, G!HangUp, G!Crash
<1>3. CASE UNCHANGED vars
    BY <1>3 DEF vars, Abstract!vars, Writing, CallStatus
<1> QED
    BY <1>1, <1>2, <1>3 DEF Next

(* One call over /rpc is one abstract call, proxies included: no retry, no success
   without an effect, no definite failure of a write that takes effect, before or
   afterwards. *)
THEOREM Implements == Spec => KeepsPromise
<1>1. Init => Abstract!Init
    BY DEF Init, G!GateInit, Writing, Mutates, CallStatus, StatusOf, Abstract!Init
<1>2. IInv /\ IInv' /\ [Next]_vars => [Abstract!Next]_(Abstract!vars)
    BY StepImplements
<1> QED
    BY <1>1, <1>2, Invariant, PTL DEF Spec, KeepsPromise, Abstract!Spec

=============================================================================
