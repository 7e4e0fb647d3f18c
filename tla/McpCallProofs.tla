--------------------------- MODULE McpCallProofs ---------------------------
(* Proofs about McpCall, for every timeout, cap, set of tools, set of reply sizes
   and number of addresses: its types, its deadline once it is connected, and that
   it implements GateCall. *)
EXTENDS McpCall, TLAPS

(* Until the send is over nothing is on the far side. *)
Before == {"admit", "encode", "connect", "handshake", "send"}
NothingThereYet ==
    pc \in Before => arrived = 0 /\ effects = 0 /\ reply = NoReply

(* What is read was sent, and what was sent is an answer. *)
ReplyIsThere == sent > 0 \/ pc \in {"body", "classify"} => reply # NoReply

(* One copy of the request exists, in one place. *)
OneCopy == arrived + effects <= 1
OnlyWritesHaveEffects == ~Writing => effects = 0

(* An answer to a write that the caller will take for a refusal or a success was
   given by a gate that had decided; one of an intermediary is neither. *)
RefusedForCertain ==
    \/ reply.status \in Redirects \cup DOMAIN DoorKinds
    \/ reply.status = 200 /\ reply.body \in {"e32601", "e32602", "other"}
AnswersAreHonest ==
    Writing /\ reply # NoReply =>
        /\ reply.status = 200 /\ reply.body = "result" => effects = 1
        /\ RefusedForCertain => arrived = 0 /\ effects = 0

(* Once connected, what the timer allows and what has passed keep to the deadline. *)
InBudget ==
    /\ pc \in {"send", "head", "body"} => elapsed + timer <= Timeout
    /\ pc = "classify" \/ CallStatus = "ok" => elapsed <= Timeout

(* What a caller was told stays true: a success, a definite failure, and that
   only a write can have an unknown outcome. *)
ToldTheTruth ==
    /\ CallStatus = "ok" /\ Writing => effects = 1
    /\ CallStatus = "failed" /\ Writing => effects = 0 /\ arrived = 0
    /\ CallStatus = "unknown" => Writing

FarInv == OneCopy /\ OnlyWritesHaveEffects /\ AnswersAreHonest

IInv == TypeOK /\ NothingThereYet /\ ReplyIsThere /\ FarInv /\ InBudget /\ ToldTheTruth

-----------------------------------------------------------------------------
Told(o) == IF o.kind = "result" THEN "ok" ELSE IF o.unknown THEN "unknown" ELSE "failed"

(* What a failure is called does not matter to what the caller is told. *)
LEMMA FailureTells ==
    ASSUME NEW k \in Kinds \ {"result"}, NEW u \in BOOLEAN
    PROVE  Failure(k, u) \in Outcomes /\ Told(Failure(k, u)) = IF u THEN "unknown" ELSE "failed"
BY DEF Failure, Outcomes, Told

(* No status of the door is taken for a result. *)
LEMMA DoorKindsAreKinds ==
    ASSUME NEW status \in DOMAIN DoorKinds
    PROVE  DoorKinds[status] \in Kinds \ {"result"}
BY DEF DoorKinds, Kinds

(* A body is read as a success only if it is a result, and as a definite failure of a
   write only if it carries a code that says so; only a write has an unknown outcome. *)
LEMMA ParsedTells ==
    ASSUME NEW b \in Bodies, NEW w \in BOOLEAN
    PROVE  LET told == Told(Parsed(b, w))
           IN  /\ Parsed(b, w) \in Outcomes
               /\ told = "ok" => b = "result"
               /\ told = "failed" /\ w => b \in {"e32601", "e32602", "other"}
               /\ told = "unknown" => w
<1>1. CASE b = "result"
    BY <1>1 DEF Parsed, Success, Failure, Outcomes, Told, Kinds
<1>2. CASE b \in {"e32601", "e32602"}
    <2>1. Parsed(b, w) = Failure("unsupported_operation", FALSE)
        BY <1>2 DEF Parsed
    <2> QED
        BY <1>2, <2>1, FailureTells DEF Kinds
<1>3. CASE b \in {"e32603", "other"}
    <2>1. Parsed(b, w) = Failure("remote_error", w /\ b = "e32603")
        BY <1>3 DEF Parsed
    <2> QED
        BY <1>3, <2>1, FailureTells DEF Kinds
<1>4. CASE b \in {"isError", "unstructured", "misshaped", "malformed", "deep"}
    <2>1. Parsed(b, w) = Failure(IF b = "isError" THEN "tool_error" ELSE "invalid_response", w)
        BY <1>4 DEF Parsed
    <2> QED
        BY <2>1, FailureTells DEF Kinds
<1> QED
    BY <1>1, <1>2, <1>3, <1>4 DEF Bodies, Codes

(* What the call makes of a reply, whole or cut short. *)
LEMMA VerdictTells ==
    ASSUME TypeOK, reply # NoReply
    PROVE  LET verdict == Verdict(reply, got, Writing)
               told == Told(verdict)
           IN  /\ verdict \in Outcomes
               /\ told = "ok" => reply.status = 200 /\ reply.body = "result"
               /\ told = "failed" /\ Writing => RefusedForCertain
               /\ told = "unknown" => Writing
<1>1. Writing \in BOOLEAN /\ reply \in G!Replies /\ reply.body \in Bodies
    BY DEF TypeOK, G!GateTypeOK, Writing, G!Replies, AfterReplies, RefusalReplies, ReadReplies,
        ProxyReplies, Answers, Bodies, AfterBodies, RefusalBodies
<1>2. CASE \E k \in Kinds \ {"result"} : Verdict(reply, got, Writing) = Failure(k, Writing)
    BY <1>1, <1>2, FailureTells
<1>3. CASE reply.status \in DOMAIN DoorKinds /\ Verdict(reply, got, Writing) = Failure(DoorKinds[reply.status], FALSE)
    BY <1>3, DoorKindsAreKinds, FailureTells DEF RefusedForCertain
<1>4. CASE reply.status = 200 /\ Verdict(reply, got, Writing) = Parsed(reply.body, Writing)
    BY <1>1, <1>4, ParsedTells DEF RefusedForCertain
<1>5. {"response_too_large", "invalid_response", "remote_error"} \subseteq Kinds \ {"result"}
    BY DEF Kinds
<1>6. CASE got - 1 > MaxBytes
    BY <1>2, <1>5, <1>6 DEF Verdict
<1>7. CASE ~(got - 1 > MaxBytes) /\ reply.status \in DOMAIN DoorKinds
    BY <1>3, <1>7 DEF Verdict
<1>8. CASE ~(got - 1 > MaxBytes) /\ reply.status \notin DOMAIN DoorKinds /\ reply.status # 200
    BY <1>2, <1>5, <1>8 DEF Verdict
<1>9. CASE ~(got - 1 > MaxBytes) /\ reply.status \notin DOMAIN DoorKinds /\ reply.status = 200
    <2>1. CASE ~reply.json \/ got < reply.size
        BY <1>2, <1>5, <1>9, <2>1 DEF Verdict
    <2>2. CASE ~(~reply.json \/ got < reply.size)
        BY <1>4, <1>9, <2>2 DEF Verdict
    <2> QED
        BY <2>1, <2>2
<1> QED
    BY <1>6, <1>7, <1>8, <1>9

-----------------------------------------------------------------------------
(* The invariant holds where a call begins. *)
LEMMA InitIInv == Init => IInv
<1> SUFFICES ASSUME Init PROVE IInv
    OBVIOUS
<1>1. Pending \in Outcomes
    BY DEF Pending, Failure, Outcomes, Kinds
<1>2. TypeOK
    <2>1. 0 \in 0 .. Addresses /\ 0 \in 0 .. Timeout /\ 0 \in 0 .. (MaxBytes + 2)
        BY TimeoutAssumption, MaxBytesAssumption, AddressesAssumption
    <2>2. G!GateTypeOK
        BY DEF Init, G!GateInit, G!GateTypeOK
    <2> QED
        BY <1>1, <2>1, <2>2 DEF Init, TypeOK
<1>3. NothingThereYet /\ ReplyIsThere /\ FarInv /\ InBudget /\ ToldTheTruth
    BY DEF Init, G!GateInit, NothingThereYet, ReplyIsThere, FarInv, OneCopy, OnlyWritesHaveEffects,
        AnswersAreHonest, InBudget, ToldTheTruth, CallStatus
<1> QED
    BY <1>2, <1>3 DEF IInv

(* A call that ends: locally, by an error of the wire, or by a verdict. *)
Ending ==
    \/ /\ pc \in {"admit", "encode"} /\ arrived' = arrived
       /\ \E k \in Kinds \ {"result"} : outcome' = Failure(k, FALSE)
    \/ \E k \in Kinds \ {"result"} : outcome' = Failure(k, Writing)
    \/ /\ pc = "head" /\ arrived' = arrived /\ reply # NoReply /\ reply.status \in Redirects
       /\ outcome' = Failure("redirect_refused", FALSE)
    \/ pc = "classify" /\ arrived' = arrived /\ outcome' = Verdict(reply, got, Writing)

(* What a step of the thread may change, action by action. *)
LEMMA ThreadStep ==
    ASSUME IInv, Client \/ Tick
    PROVE  /\ UNCHANGED <<allow_writes, tool, fits, effects, reply, sent, hung>>
           /\ pc # "returned" /\ pc' \in Blocking \cup {"admit", "encode", "classify", "returned"}
           /\ arrived' = arrived \/ (pc = "send" /\ arrived' = arrived + 1 /\ pc' \notin Before)
           /\ pc' \in Before => pc \in Before
           /\ pc' \in {"body", "classify"} => reply # NoReply
           /\ pc' # "returned" => outcome' = outcome
           /\ pc' = "returned" => Ending
           /\ pc' \in {"send", "head", "body"} => elapsed' + timer' <= Timeout
           /\ pc = "classify" \/ pc' = "classify" => elapsed' <= Timeout
           /\ tries' \in 0 .. Addresses /\ elapsed' \in Nat
           /\ timer' \in 0 .. Timeout /\ got' \in 0 .. (MaxBytes + 2)
<1> USE TimeoutAssumption, MaxBytesAssumption, AddressesAssumption
<1>1. /\ tries \in 0 .. Addresses /\ elapsed \in Nat /\ timer \in 0 .. Timeout
      /\ got \in 0 .. (MaxBytes + 2) /\ sent \in Nat /\ Timeout \in 0 .. Timeout
      /\ pc \in {"send", "head", "body"} => elapsed + timer <= Timeout
      /\ pc = "classify" => elapsed <= Timeout
    BY DEF IInv, TypeOK, G!GateTypeOK, InBudget
<1>2. {"ValueError", "writes_disabled", "request_too_large", "timeout", "unavailable"} \subseteq Kinds \ {"result"}
    BY DEF Kinds
<1>3. Remaining > 0 => Remaining \in 0 .. Timeout /\ elapsed + Remaining <= Timeout
    BY <1>1 DEF Remaining
<1>4. sent > 0 \/ pc = "body" => reply # NoReply
    BY DEF IInv, ReplyIsThere
<1> USE DEF Before, Blocking, Block, Return, Raised, gateVars, Ending
<1>5. CASE Admit
    BY <1>1, <1>2, <1>5 DEF Admit
<1>6. CASE Encode
    <2>1. 1 \in 0 .. Addresses
        OBVIOUS
    <2> QED
        BY <1>1, <1>2, <1>6, <2>1 DEF Encode
<1>7. CASE Connect
    BY <1>1, <1>2, <1>3, <1>7 DEF Connect, Arm
<1>8. CASE ConnectFails
    BY <1>1, <1>2, <1>8 DEF ConnectFails, NextAddress
<1>9. CASE Handshake
    BY <1>1, <1>2, <1>3, <1>9 DEF Handshake, Arm
<1>10. CASE Send
    BY <1>1, <1>2, <1>3, <1>10 DEF Send, Arm
<1>11. CASE WireFails
    BY <1>1, <1>2, <1>11 DEF WireFails
<1>12. CASE Expire
    <2>1. CASE pc = "connect"
        BY <1>1, <1>2, <1>12, <2>1 DEF Expire, NextAddress
    <2>2. CASE pc # "connect"
        BY <1>1, <1>2, <1>12, <2>2 DEF Expire
    <2> QED
        BY <2>1, <2>2
<1>13. CASE Interim
    BY <1>1, <1>2, <1>3, <1>13 DEF Interim, Arm
<1>14. CASE Head
    <2>1. 1 \in 0 .. (MaxBytes + 2)
        OBVIOUS
    <2>2. /\ pc = "head" /\ got' = 1 /\ reply # NoReply
          /\ UNCHANGED <<allow_writes, tool, fits, tries, elapsed, gateVars>>
        BY <1>1, <1>4, <1>14 DEF Head
    <2>3. CASE reply.status \in Redirects
        <3>1. pc' = "returned" /\ outcome' = Failure("redirect_refused", FALSE) /\ timer' = timer
            BY <1>14, <2>3 DEF Head
        <3> QED
            BY <1>1, <2>1, <2>2, <2>3, <3>1
    <2>4. CASE reply.status \notin Redirects
        <3>1. Arm("body")
            BY <1>14, <2>4 DEF Head
        <3> QED
            BY <1>1, <1>2, <1>3, <2>1, <2>2, <3>1 DEF Arm
    <2> QED
        BY <2>3, <2>4
<1>15. CASE Body
    BY <1>1, <1>2, <1>3, <1>4, <1>15 DEF Body, Arm
<1>16. CASE BodyEnds
    BY <1>1, <1>4, <1>16 DEF BodyEnds
<1>17. CASE PeerGone
    BY <1>1, <1>2, <1>17 DEF PeerGone
<1>18. CASE Classify
    BY <1>1, <1>18 DEF Classify
<1>19. CASE Tick
    <2>1. timer' \in 0 .. Timeout /\ elapsed' \in Nat /\ elapsed' + timer' = elapsed + timer
        BY <1>1, <1>19 DEF Tick
    <2> QED
        BY <1>1, <1>4, <1>19, <2>1 DEF Tick
<1> QED
    BY <1>5, <1>6, <1>7, <1>8, <1>9, <1>10, <1>11, <1>12, <1>13, <1>14, <1>15, <1>16, <1>17, <1>18, <1>19 DEF Client

(* What is told when a call ends is true, and stays true of what is under way. *)
LEMMA EndTellsTheTruth ==
    ASSUME IInv, Client \/ Tick, pc' = "returned"
    PROVE  outcome' \in Outcomes /\ ToldTheTruth' /\ InBudget'
<1>1. /\ Writing \in BOOLEAN /\ Writing' = Writing /\ effects' = effects
      /\ CallStatus' = Told(outcome')
      /\ Ending
    BY ThreadStep DEF Writing, CallStatus, Told
<1>2. CASE /\ pc \in {"admit", "encode"} /\ arrived' = arrived
           /\ \E k \in Kinds \ {"result"} : outcome' = Failure(k, FALSE)
    <2>1. CallStatus' = "failed" /\ outcome' \in Outcomes
        BY <1>1, <1>2, FailureTells
    <2>2. effects' = 0 /\ arrived' = 0
        BY <1>1, <1>2 DEF IInv, NothingThereYet, Before
    <2> QED
        BY <2>1, <2>2 DEF ToldTheTruth, InBudget
<1>3. CASE \E k \in Kinds \ {"result"} : outcome' = Failure(k, Writing)
    BY <1>1, <1>3, FailureTells DEF ToldTheTruth, InBudget
<1>4. CASE /\ pc = "head" /\ arrived' = arrived /\ reply # NoReply /\ reply.status \in Redirects
           /\ outcome' = Failure("redirect_refused", FALSE)
    <2>1. CallStatus' = "failed" /\ outcome' \in Outcomes
        BY <1>1, <1>4, FailureTells DEF Kinds
    <2>2. Writing => effects' = 0 /\ arrived' = 0
        BY <1>1, <1>4 DEF IInv, FarInv, AnswersAreHonest, RefusedForCertain
    <2> QED
        BY <1>1, <2>1, <2>2 DEF ToldTheTruth, InBudget
<1>5. CASE pc = "classify" /\ arrived' = arrived /\ outcome' = Verdict(reply, got, Writing)
    <2>1. reply # NoReply /\ elapsed' <= Timeout
        BY <1>5, ThreadStep DEF IInv, ReplyIsThere
    <2> QED
        BY <1>1, <1>5, <2>1, VerdictTells DEF ToldTheTruth, InBudget, IInv, FarInv, AnswersAreHonest
<1> QED
    BY <1>1, <1>2, <1>3, <1>4, <1>5 DEF Ending

(* Whatever the caller's thread does, or a tick of the clock, keeps the invariant. *)
LEMMA ThreadKeepsIInv ==
    ASSUME IInv, Client \/ Tick
    PROVE  IInv'
<1>1. Writing' = Writing
    BY ThreadStep DEF Writing
<1>2. outcome' \in Outcomes /\ ToldTheTruth' /\ InBudget'
    <2>1. CASE pc' = "returned"
        BY <2>1, EndTellsTheTruth
    <2>2. CASE pc' # "returned"
        BY <2>2, ThreadStep DEF IInv, TypeOK, ToldTheTruth, InBudget, CallStatus
    <2> QED
        BY <2>1, <2>2
<1>3. pc = "send" => arrived = 0 /\ effects = 0 /\ reply = NoReply
    BY DEF IInv, NothingThereYet, Before
<1>4. TypeOK'
    BY <1>2, ThreadStep DEF IInv, TypeOK, G!GateTypeOK
<1>5. NothingThereYet' /\ ReplyIsThere'
    BY ThreadStep DEF IInv, NothingThereYet, ReplyIsThere
<1>6. FarInv'
    BY <1>1, <1>3, ThreadStep
    DEF IInv, FarInv, OneCopy, OnlyWritesHaveEffects, AnswersAreHonest, RefusedForCertain
<1> QED
    BY <1>2, <1>4, <1>5, <1>6 DEF IInv

(* The far end, which acts before and after the call has ended. *)
LEMMA FarKeepsIInv ==
    ASSUME IInv, Far
    PROVE  IInv'
<1>1. G!GateNext(Writing) /\ UNCHANGED clientVars /\ Writing' = Writing /\ CallStatus' = CallStatus
    BY DEF Far, clientVars, Writing, CallStatus
<1>2. /\ arrived \in Nat /\ effects \in Nat /\ sent \in Nat /\ hung \in BOOLEAN
      /\ reply \in G!Replies \cup {NoReply}
    BY DEF IInv, TypeOK, G!GateTypeOK
<1>3. arrived > 0 => arrived = 1 /\ effects = 0 /\ pc \notin Before
    BY <1>2 DEF IInv, FarInv, OneCopy, NothingThereYet
<1>4. /\ G!GateTypeOK' /\ FarInv'
      /\ sent' > 0 => reply' # NoReply
      /\ reply # NoReply => reply' = reply
      /\ \/ arrived' = arrived /\ effects' = effects /\ (reply' = reply \/ arrived > 0)
         \/ arrived > 0 /\ arrived' = 0 /\ (effects' = effects \/ Writing)
    <2>1. CASE G!Apply(Writing)
        <3>1. /\ Writing /\ arrived = 1 /\ arrived' = 0 /\ effects' = 1 /\ sent' = sent /\ hung' = hung
              /\ \/ reply = NoReply /\ reply' \in AfterReplies
                 \/ reply # NoReply /\ reply' = reply
            BY <1>3, <2>1 DEF G!Apply, G!Answer
        <3>2. reply' \in AfterReplies =>
                reply' # NoReply /\ ~RefusedForCertain'
            BY DEF AfterReplies, Answers, AfterBodies, NoReply, RefusedForCertain, Redirects, DoorKinds
        <3>3. reply' = reply /\ reply # NoReply => ~RefusedForCertain'
            BY <3>1 DEF IInv, FarInv, AnswersAreHonest, RefusedForCertain
        <3> QED
            BY <1>1, <1>2, <3>1, <3>2, <3>3
            DEF G!GateTypeOK, G!Replies, FarInv, OneCopy, OnlyWritesHaveEffects, AnswersAreHonest,
                IInv, ReplyIsThere
    <2>2. CASE G!Refuse(Writing)
        <3>1. /\ Writing /\ arrived = 1 /\ effects = 0 /\ arrived' = 0 /\ effects' = 0
              /\ sent' = sent /\ hung' = hung
              /\ \/ reply = NoReply /\ reply' \in RefusalReplies
                 \/ reply # NoReply /\ reply' = reply
            BY <1>3, <2>2 DEF G!Refuse, G!Answer
        <3>2. reply' \in RefusalReplies => reply' # NoReply /\ ~(reply'.status = 200 /\ reply'.body = "result")
            BY DEF RefusalReplies, Answers, RefusalBodies, DoorRefusals, NoReply
        <3>3. reply' = reply /\ reply # NoReply => ~(reply'.status = 200 /\ reply'.body = "result")
            BY <3>1 DEF IInv, FarInv, AnswersAreHonest
        <3> QED
            BY <1>1, <1>2, <3>1, <3>2, <3>3
            DEF G!GateTypeOK, G!Replies, FarInv, OneCopy, OnlyWritesHaveEffects, AnswersAreHonest,
                IInv, ReplyIsThere
    <2>3. CASE G!Serve(Writing)
        <3>1. /\ ~Writing /\ arrived = 1 /\ arrived' = 0 /\ effects' = effects
              /\ sent' = sent /\ hung' = hung
              /\ \/ reply = NoReply /\ reply' \in ReadReplies
                 \/ reply # NoReply /\ reply' = reply
            BY <1>3, <2>3 DEF G!Serve, G!Answer
        <3>2. reply' \in ReadReplies => reply' # NoReply
            BY DEF ReadReplies, Answers, DoorRefusals, NoReply
        <3> QED
            BY <1>1, <1>2, <3>1, <3>2
            DEF G!GateTypeOK, G!Replies, FarInv, OneCopy, OnlyWritesHaveEffects, AnswersAreHonest,
                IInv, ReplyIsThere
    <2>4. CASE G!ProxyAnswers
        <3>1. /\ arrived > 0 /\ reply = NoReply /\ reply' \in ProxyReplies
              /\ UNCHANGED <<arrived, effects, sent, hung>>
            BY <2>4 DEF G!ProxyAnswers
        <3>2. reply' # NoReply /\ reply'.body # "result" /\ ~RefusedForCertain'
            BY <3>1 DEF ProxyReplies, Answers, NoReply, RefusedForCertain, Redirects, DoorKinds
        <3> QED
            BY <1>1, <1>2, <3>1, <3>2
            DEF G!GateTypeOK, G!Replies, IInv, FarInv, OneCopy, OnlyWritesHaveEffects, AnswersAreHonest
    <2>5. CASE G!Trickle \/ G!HangUp
        <3>1. /\ UNCHANGED <<arrived, effects, reply>> /\ sent' \in Nat /\ hung' \in BOOLEAN
              /\ sent' > 0 => reply # NoReply
            <4>1. CASE G!Trickle
                BY <1>2, <4>1 DEF G!Trickle
            <4>2. CASE G!HangUp
                BY <1>2, <4>2 DEF G!HangUp, IInv, ReplyIsThere
            <4> QED
                BY <2>5, <4>1, <4>2
        <3> QED
            BY <1>1, <1>2, <3>1
            DEF G!GateTypeOK, IInv, FarInv, OneCopy, OnlyWritesHaveEffects, AnswersAreHonest, RefusedForCertain
    <2>6. CASE G!Crash
        <3>1. /\ arrived = 1 /\ arrived' = 0 /\ UNCHANGED <<effects, reply, sent>> /\ hung' = TRUE
            BY <1>3, <2>6 DEF G!Crash
        <3> QED
            BY <1>1, <1>2, <1>3, <3>1
            DEF G!GateTypeOK, IInv, FarInv, OneCopy, OnlyWritesHaveEffects, AnswersAreHonest, RefusedForCertain,
                ReplyIsThere
    <2> QED
        BY <1>1, <2>1, <2>2, <2>3, <2>4, <2>5, <2>6 DEF G!GateNext
<1>5. TypeOK'
    BY <1>1, <1>4 DEF IInv, TypeOK, clientVars
<1>6. NothingThereYet' /\ ReplyIsThere' /\ InBudget'
    BY <1>1, <1>3, <1>4 DEF IInv, NothingThereYet, ReplyIsThere, InBudget, clientVars
<1>7. ToldTheTruth'
    BY <1>1, <1>2, <1>3, <1>4 DEF IInv, ToldTheTruth
<1> QED
    BY <1>4, <1>5, <1>6, <1>7 DEF IInv

(* Every step keeps the invariant, action by action. *)
LEMMA StepIInv == IInv /\ [Next]_vars => IInv'
<1>1. CASE IInv /\ UNCHANGED vars
    BY <1>1 DEF vars, IInv, TypeOK, G!GateTypeOK, NothingThereYet, ReplyIsThere, FarInv, OneCopy,
        OnlyWritesHaveEffects, AnswersAreHonest, RefusedForCertain, InBudget, ToldTheTruth, CallStatus, Writing
<1> QED
    BY <1>1, ThreadKeepsIInv, FarKeepsIInv DEF Next

(* The invariant holds in every reachable state. *)
LEMMA Invariant == Spec => []IInv
BY InitIInv, StepIInv, PTL DEF Spec

-----------------------------------------------------------------------------
(* Every reachable state of a tool call is well typed, and once connected it is
   never blocked past its deadline nor hands over an answer after it, however the
   peer drips (client.py 290-436, _DeadlineReader 103-112). *)
THEOREM DeadlineKept == Spec => []InTime
<1>1. IInv => InTime
    BY TimeoutAssumption DEF IInv, TypeOK, InBudget, InTime, NoLateAnswer
<1> QED
    BY <1>1, Invariant, PTL

(* Every step is one that GateCall allows, or none of its business. *)
LEMMA StepImplements == IInv /\ IInv' /\ [Next]_vars => [Abstract!Next]_(Abstract!vars)
<1> SUFFICES ASSUME IInv, IInv', [Next]_vars PROVE [Abstract!Next]_(Abstract!vars)
    OBVIOUS
<1>1. CASE Client \/ Tick
    <2>1. /\ CallStatus = "open" /\ effects' = effects /\ Writing' = Writing
          /\ CallStatus' \in {"open", "ok", "unknown", "failed"}
        BY <1>1, ThreadStep DEF CallStatus, Writing
    <2>2. CASE CallStatus' = "failed"
        <3>1. effects = 0
            BY <2>1, <2>2 DEF IInv, ToldTheTruth, FarInv, OnlyWritesHaveEffects
        <3> QED
            BY <2>1, <2>2, <3>1 DEF Abstract!Next, Abstract!Fail
    <2>3. CASE CallStatus' \in {"ok", "unknown"}
        BY <2>1, <2>3 DEF IInv, ToldTheTruth, Abstract!Next, Abstract!Succeed, Abstract!Lose
    <2>4. CASE CallStatus' = "open"
        BY <2>1, <2>4 DEF Abstract!vars
    <2> QED
        BY <2>1, <2>2, <2>3, <2>4
<1>2. CASE Far
    <2>1. CallStatus' = CallStatus /\ Writing' = Writing /\ G!GateNext(Writing)
        BY <1>2 DEF Far, clientVars, CallStatus, Writing
    <2>2. CASE effects' = effects
        BY <2>1, <2>2 DEF Abstract!vars
    <2>3. CASE G!Apply(Writing)
        <3>1. Writing /\ arrived > 0 /\ effects = 0 /\ effects' = 1
            BY <2>3 DEF G!Apply, IInv, TypeOK, G!GateTypeOK, FarInv, OneCopy
        <3>2. CallStatus \in {"open", "unknown"}
            BY <3>1 DEF IInv, ToldTheTruth, CallStatus
        <3> QED
            BY <2>1, <3>1, <3>2 DEF Abstract!Next, Abstract!Effect
    <2> QED
        BY <2>1, <2>2, <2>3 DEF G!GateNext, G!Refuse, G!Serve, G!ProxyAnswers, G!Trickle, G!HangUp, G!Crash
<1>3. CASE UNCHANGED vars
    BY <1>3 DEF vars, Abstract!vars, Writing, CallStatus
<1> QED
    BY <1>1, <1>2, <1>3 DEF Next

(* One tool call is one abstract call, proxies and redirects included: no retry, no success
   without an effect, no definite failure of a write that takes effect, before or
   afterwards. *)
THEOREM Implements == Spec => KeepsPromise
<1>1. Init => Abstract!Init
    BY DEF Init, G!GateInit, Writing, CallStatus, Abstract!Init
<1>2. IInv /\ IInv' /\ [Next]_vars => [Abstract!Next]_(Abstract!vars)
    BY StepImplements
<1> QED
    BY <1>1, <1>2, Invariant, PTL DEF Spec, KeepsPromise, Abstract!Spec

=============================================================================
