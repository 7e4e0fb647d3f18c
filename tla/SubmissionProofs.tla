-------------------------- MODULE SubmissionProofs --------------------------
(* Proofs about Submission, for any senders, contents, manifests, limits and
   page size: what the door holds, what its words are worth, and that the puller
   misses nothing. *)
EXTENDS Submission, TLAPS

-----------------------------------------------------------------------------
(* A body that can be read is determined by the route it was put to. *)

Canonical(document) ==
    [document |-> document, artifact_id |-> document, signature |-> TRUE,
     content |-> document.content_hash,
     production_evidence_manifest |-> document.evidence_manifest_digest]

(* decode_submission takes no body but the one that encode_submission makes of the
   document it was routed by, in the spelling without parents. *)
LEMMA DecodedIsCanonical ==
    ASSUME NEW body \in Bodies, NEW route, NEW limit,
           decode_submission(body, route, limit) = "ok"
    PROVE  /\ route \in Documents
           /\ body = Canonical(route)
           /\ route.derives_from = "absent"
<1>1. ContentMatches(body) /\ from_mapping(body.document) /\ Bindings(body, route) /\ body.signature
    BY DEF decode_submission
<1>2. body.document = route /\ body.artifact_id = route /\ body.content = route.content_hash
      /\ body.production_evidence_manifest = route.evidence_manifest_digest
    BY <1>1 DEF ContentMatches, Bindings
<1>3. route \in Documents /\ body.signature = TRUE
    BY <1>1, <1>2 DEF Bodies
<1>4. route.derives_from = "absent"
    BY <1>1, <1>2, <1>3 DEF from_mapping, CanonicalOmission, Documents
<1>5. body = [document |-> body.document, artifact_id |-> body.artifact_id,
              signature |-> body.signature, content |-> body.content,
              production_evidence_manifest |-> body.production_evidence_manifest]
    BY DEF Bodies
<1> QED
    BY <1>2, <1>3, <1>4, <1>5 DEF Canonical

-----------------------------------------------------------------------------
(* The inductive invariant, by concern. *)

OutboxTypes ==
    /\ DOMAIN outbox \subseteq Senders
    /\ outbox \in [DOMAIN outbox -> Entries]

(* A sender asks for what its own parser took, and its requests keep the route. *)
AskedIsCanonical ==
    \A s \in DOMAIN outbox :
        /\ Route(s) \in Documents
        /\ outbox[s].asked = Canonical(Route(s))

WireIsRouted ==
    \A request \in wire :
        /\ request \in [from : DOMAIN outbox, route : Documents, body : Bodies]
        /\ request.route = Route(request.from)

(* The door keeps what it can read, and reads it again in the same way. *)
StoreIsLegible ==
    \A kept \in store :
        kept \in Bodies /\ decode_submission(kept, kept.document, DoorLimit) = "ok"

(* A sound body is refused only for what the door would always say of it. *)
RefusalIsFinal ==
    \A s \in DOMAIN outbox :
        At(s) = "refused" /\ outbox[s].body = outbox[s].asked =>
            decode_submission(outbox[s].asked, Route(s), DoorLimit) # "ok"

OutboxInv ==
    /\ OutboxTypes /\ AskedIsCanonical /\ WireIsRouted /\ StoreIsLegible /\ RefusalIsFinal
    /\ StoredAsEncoded /\ AcceptedIsStored

(* All of it is kept, whatever the outboxes, the wire, the door and the puller do. *)
LEMMA OutboxInvariant == Spec => []OutboxInv
<1>1. Init => OutboxInv
    BY DEF Init, OutboxInv, OutboxTypes, AskedIsCanonical, WireIsRouted, StoreIsLegible,
        RefusalIsFinal, StoredAsEncoded, AcceptedIsStored
<1>2. OutboxInv /\ [Next]_vars => OutboxInv'
    <2> SUFFICES ASSUME OutboxInv, [Next]_vars PROVE OutboxInv'
        OBVIOUS
    <2>0. OutboxTypes /\ AskedIsCanonical /\ WireIsRouted /\ StoreIsLegible /\ RefusalIsFinal
          /\ StoredAsEncoded /\ AcceptedIsStored
        BY DEF OutboxInv
    (* What the door holds under a route is what whoever asks for that route asked. *)
    <2>d. ASSUME NEW s \in DOMAIN outbox, NEW kept \in store, kept.artifact_id = Route(s)
          PROVE  kept = outbox[s].asked
        <3>1. PICK t \in DOMAIN outbox : kept = outbox[t].asked
            BY <2>0 DEF StoredAsEncoded
        <3>2. outbox[s].asked = Canonical(Route(s)) /\ outbox[t].asked = Canonical(Route(t))
            BY <2>0 DEF AskedIsCanonical
        <3>3. Route(t) = Route(s)
            BY <2>d, <3>1 DEF Route
        <3> QED
            BY <3>1, <3>2, <3>3
    (* The outbox goes to another place with one entry, and to none in which a
       word is claimed. *)
    <2>a. ASSUME NEW s \in DOMAIN outbox, NEW place \in Places,
                 outbox' = [outbox EXCEPT ![s].at = place]
          PROVE  /\ DOMAIN outbox' = DOMAIN outbox
                 /\ OutboxTypes'
                 /\ \A t \in DOMAIN outbox :
                        outbox'[t].asked = outbox[t].asked /\ outbox'[t].body = outbox[t].body
                 /\ \A t \in DOMAIN outbox : t # s => outbox'[t].at = outbox[t].at
                 /\ outbox'[s].at = place
        BY <2>0, <2>a DEF OutboxTypes, Entries
    <2>b. ASSUME NEW s \in DOMAIN outbox, NEW place \in {"queued", "waiting", "stopped"},
                 outbox' = [outbox EXCEPT ![s].at = place],
                 store' = store,
                 \A request \in wire' : request \in wire
                    \/ request = [from |-> s, route |-> Route(s), body |-> outbox[s].body]
          PROVE  OutboxInv'
        <3>1. /\ DOMAIN outbox' = DOMAIN outbox
              /\ OutboxTypes'
              /\ \A t \in DOMAIN outbox :
                    outbox'[t].asked = outbox[t].asked /\ outbox'[t].body = outbox[t].body
              /\ \A t \in DOMAIN outbox : t # s => outbox'[t].at = outbox[t].at
              /\ outbox'[s].at = place
            BY <2>a, <2>b DEF Places
        <3>2. AskedIsCanonical' /\ StoredAsEncoded' /\ StoreIsLegible'
            BY <2>0, <2>b, <3>1 DEF AskedIsCanonical, StoredAsEncoded, StoreIsLegible, Route
        <3>3. outbox[s].body \in Bodies
            BY <2>0 DEF OutboxTypes, Entries
        <3>4. WireIsRouted'
            <4>1. \A t \in DOMAIN outbox : Route(t)' = Route(t)
                BY <3>1 DEF Route
            <4>2. Route(s) \in Documents
                BY <2>0 DEF AskedIsCanonical
            <4> QED
                BY <2>0, <2>b, <3>1, <3>3, <4>1, <4>2 DEF WireIsRouted
        <3>5. RefusalIsFinal' /\ AcceptedIsStored'
            BY <2>0, <2>b, <3>1 DEF RefusalIsFinal, AcceptedIsStored, At, Route
        <3> QED
            BY <3>1, <3>2, <3>4, <3>5 DEF OutboxInv
    (* The door looks at a request: it keeps a body only if it can read it. *)
    <2>c. ASSUME NEW request \in wire, Keep(request, Verdict(request)), UNCHANGED outbox,
                 wire' \subseteq wire
          PROVE  OutboxInv'
        <3>1. request.from \in DOMAIN outbox /\ request.body \in Bodies
              /\ request.route = Route(request.from)
            BY <2>0 DEF WireIsRouted
        <3>2. CASE Verdict(request) = 202
            <4>1. decode_submission(request.body, request.route, DoorLimit) = "ok"
                BY <3>2 DEF Verdict
            <4>2. request.body = Canonical(request.route)
                BY <3>1, <4>1, DecodedIsCanonical
            <4>3. request.body = outbox[request.from].asked
                BY <2>0, <3>1, <4>2 DEF AskedIsCanonical
            <4>4. store' = store \cup {request.body} /\ request.body.document = request.route
                BY <2>c, <3>2, <4>2 DEF Keep, Canonical
            <4>5. OutboxTypes' /\ AskedIsCanonical' /\ WireIsRouted' /\ RefusalIsFinal'
                BY <2>0, <2>c DEF OutboxTypes, AskedIsCanonical, WireIsRouted, RefusalIsFinal,
                    At, Route
            <4>6. StoreIsLegible'
                BY <2>0, <3>1, <4>1, <4>4 DEF StoreIsLegible
            <4>7. StoredAsEncoded' /\ AcceptedIsStored'
                BY <2>0, <2>c, <3>1, <4>3, <4>4 DEF StoredAsEncoded, AcceptedIsStored, At
            <4> QED
                BY <4>5, <4>6, <4>7 DEF OutboxInv
        <3>3. CASE Verdict(request) # 202
            <4>1. store' = store
                BY <2>c, <3>3 DEF Keep
            <4> QED
                BY <2>0, <2>c, <4>1 DEF OutboxInv, OutboxTypes, AskedIsCanonical, WireIsRouted,
                    StoreIsLegible, RefusalIsFinal, StoredAsEncoded, AcceptedIsStored, At, Route
        <3> QED
            BY <3>2, <3>3
    <2>1. ASSUME NEW s \in Senders, encode_submission(s) PROVE OutboxInv'
        <3>1. PICK document \in Documents, c \in Contents, m \in Manifests :
                LET body == [document |-> document, artifact_id |-> document, signature |-> TRUE,
                             content |-> c, production_evidence_manifest |-> m]
                IN  /\ decode_submission(body, document, Limit) = "ok"
                    /\ outbox' = [t \in DOMAIN outbox \cup {s} |->
                            IF t = s
                            THEN [at |-> "queued", asked |-> body, body |-> body]
                            ELSE outbox[t]]
            BY <2>1 DEF encode_submission
        <3> DEFINE body == [document |-> document, artifact_id |-> document, signature |-> TRUE,
                            content |-> c, production_evidence_manifest |-> m]
        <3>2. body \in Bodies
            BY DEF Bodies
        <3>3. body = Canonical(document) /\ body.document = document
            BY <3>1, <3>2, DecodedIsCanonical
        <3>4. s \notin DOMAIN outbox /\ UNCHANGED <<wire, store>>
            BY <2>1 DEF encode_submission, doorVars
        <3> HIDE DEF body
        <3>5. /\ DOMAIN outbox' = DOMAIN outbox \cup {s}
              /\ outbox'[s] = [at |-> "queued", asked |-> body, body |-> body]
              /\ \A t \in DOMAIN outbox : outbox'[t] = outbox[t]
              /\ outbox' = [t \in DOMAIN outbox' |-> outbox'[t]]
            BY <3>1, <3>4 DEF body
        <3>6. OutboxTypes'
            BY <2>0, <3>2, <3>5 DEF OutboxTypes, Entries, Places
        <3>7. AskedIsCanonical'
            <4>1. \A t \in DOMAIN outbox : Route(t)' = Route(t)
                BY <3>5 DEF Route
            <4>2. Route(s)' = document
                BY <3>3, <3>5 DEF Route, Canonical
            <4> QED
                BY <2>0, <3>3, <3>5, <4>1, <4>2 DEF AskedIsCanonical
        <3>8. WireIsRouted' /\ StoreIsLegible' /\ RefusalIsFinal'
            BY <2>0, <3>4, <3>5 DEF WireIsRouted, StoreIsLegible, RefusalIsFinal, At, Route
        <3>9. StoredAsEncoded' /\ AcceptedIsStored'
            BY <2>0, <3>4, <3>5 DEF StoredAsEncoded, AcceptedIsStored, At
        <3> QED
            BY <3>6, <3>7, <3>8, <3>9 DEF OutboxInv
    <2>2. ASSUME NEW s \in DOMAIN outbox, Damage(s) PROVE OutboxInv'
        <3>1. At(s) = "queued" /\ UNCHANGED <<wire, store>>
            BY <2>2 DEF Damage, doorVars
        <3>2. outbox[s] \in Entries /\ Route(s) \in Documents
            BY <2>0 DEF OutboxTypes, AskedIsCanonical
        <3>3. PICK damaged \in Bodies : outbox' = [outbox EXCEPT ![s].body = damaged]
            <4>1. outbox[s].body \in Bodies
                BY <3>2 DEF Entries
            <4>2. ASSUME NEW d \in OneOff(Route(s)), outbox' = [outbox EXCEPT ![s].body.document = d]
                  PROVE  \E damaged \in Bodies : outbox' = [outbox EXCEPT ![s].body = damaged]
                <5>1. [outbox[s].body EXCEPT !.document = d] \in Bodies
                    BY <4>1 DEF OneOff, Bodies
                <5> QED
                    BY <4>2, <5>1
            <4>3. CASE outbox' = [outbox EXCEPT ![s].body.artifact_id = NoId]
                <5>1. [outbox[s].body EXCEPT !.artifact_id = NoId] \in Bodies
                    BY <4>1 DEF Bodies
                <5> QED
                    BY <4>3, <5>1
            <4>4. ASSUME NEW c \in Contents \cup {NoBytes},
                         outbox' = [outbox EXCEPT ![s].body.content = c]
                  PROVE  \E damaged \in Bodies : outbox' = [outbox EXCEPT ![s].body = damaged]
                <5>1. [outbox[s].body EXCEPT !.content = c] \in Bodies
                    BY <4>1 DEF Bodies
                <5> QED
                    BY <4>4, <5>1
            <4>5. ASSUME NEW m \in Manifests \cup {NoManifest},
                         outbox' = [outbox EXCEPT ![s].body.production_evidence_manifest = m]
                  PROVE  \E damaged \in Bodies : outbox' = [outbox EXCEPT ![s].body = damaged]
                <5>1. [outbox[s].body EXCEPT !.production_evidence_manifest = m] \in Bodies
                    BY <4>1 DEF Bodies
                <5> QED
                    BY <4>5, <5>1
            <4>6. CASE outbox' = [outbox EXCEPT ![s].body.signature = FALSE]
                <5>1. [outbox[s].body EXCEPT !.signature = FALSE] \in Bodies
                    BY <4>1 DEF Bodies
                <5> QED
                    BY <4>6, <5>1
            <4> QED
                BY <2>2, <4>2, <4>3, <4>4, <4>5, <4>6 DEF Damage
        <3>4. /\ DOMAIN outbox' = DOMAIN outbox
              /\ OutboxTypes'
              /\ \A t \in DOMAIN outbox : outbox'[t].at = outbox[t].at /\ outbox'[t].asked = outbox[t].asked
              /\ \A t \in DOMAIN outbox : t # s => outbox'[t] = outbox[t]
            BY <2>0, <3>2, <3>3 DEF OutboxTypes, Entries
        <3>5. AskedIsCanonical' /\ WireIsRouted' /\ StoreIsLegible'
            BY <2>0, <3>1, <3>4 DEF AskedIsCanonical, WireIsRouted, StoreIsLegible, Route
        <3>6. RefusalIsFinal'
            BY <2>0, <3>1, <3>4 DEF RefusalIsFinal, At, Route
        <3>7. StoredAsEncoded' /\ AcceptedIsStored'
            BY <2>0, <3>1, <3>4 DEF StoredAsEncoded, AcceptedIsStored, At
        <3> QED
            BY <3>4, <3>5, <3>6, <3>7 DEF OutboxInv
    <2>3. ASSUME NEW s \in DOMAIN outbox, put_submission(s) PROVE OutboxInv'
        BY <2>3, <2>b DEF put_submission
    <2>4. ASSUME NEW s \in DOMAIN outbox, Unavailable(s) PROVE OutboxInv'
        BY <2>4, <2>b DEF Unavailable, doorVars
    <2>5. ASSUME NEW s \in DOMAIN outbox, Refresh(s) PROVE OutboxInv'
        BY <2>5, <2>b DEF Refresh
    <2>6. ASSUME NEW s \in DOMAIN outbox, Answer(s) PROVE OutboxInv'
        <3>1. PICK request \in wire : request.from = s /\ Awaited(request) /\ Serve(request)
            BY <2>6 DEF Answer
        <3> DEFINE code == Verdict(request)
                   word == classify_submission_status(code)
        <3>2. /\ request.body \in Bodies /\ request.route = Route(s)
              /\ At(s) = "waiting" /\ outbox[s].body = request.body
              /\ Keep(request, code) /\ wire' \subseteq wire
              /\ outbox' = [outbox EXCEPT ![s].at = word]
            BY <2>0, <3>1 DEF WireIsRouted, Awaited, Serve, Reply
        <3>3. code \in {200, 202, 400, 401, 413}
            BY DEF Verdict
        <3>4. word \in Places
            BY DEF classify_submission_status, Places
        <3>5. /\ DOMAIN outbox' = DOMAIN outbox
              /\ OutboxTypes'
              /\ \A t \in DOMAIN outbox :
                    outbox'[t].asked = outbox[t].asked /\ outbox'[t].body = outbox[t].body
              /\ \A t \in DOMAIN outbox : t # s => outbox'[t].at = outbox[t].at
              /\ outbox'[s].at = word
            BY <2>a, <3>2, <3>4
        <3>6. AskedIsCanonical' /\ WireIsRouted'
            BY <2>0, <3>2, <3>5 DEF AskedIsCanonical, WireIsRouted, Route
        <3>7. CASE code = 202
            <4>1. decode_submission(request.body, request.route, DoorLimit) = "ok"
                BY <3>7 DEF Verdict
            <4>2. request.body = Canonical(request.route)
                BY <3>2, <4>1, DecodedIsCanonical
            <4>3. request.body = outbox[s].asked
                BY <2>0, <3>2, <4>2 DEF AskedIsCanonical
            <4>4. store' = store \cup {request.body} /\ request.body.document = request.route
                BY <3>2, <3>7, <4>2 DEF Keep, Canonical
            <4>5. word = "accepted"
                BY <3>7 DEF classify_submission_status
            <4>6. StoreIsLegible'
                BY <2>0, <3>2, <4>1, <4>4 DEF StoreIsLegible
            <4>7. StoredAsEncoded' /\ AcceptedIsStored'
                BY <2>0, <3>5, <4>3, <4>4 DEF StoredAsEncoded, AcceptedIsStored, At
            <4>8. RefusalIsFinal'
                BY <2>0, <3>5, <4>5 DEF RefusalIsFinal, At, Route
            <4> QED
                BY <3>5, <3>6, <4>6, <4>7, <4>8 DEF OutboxInv
        <3>8. CASE code # 202
            <4>1. store' = store
                BY <3>2, <3>8 DEF Keep
            <4>2. StoreIsLegible' /\ StoredAsEncoded'
                BY <2>0, <3>5, <4>1 DEF StoreIsLegible, StoredAsEncoded
            <4>3. AcceptedIsStored'
                <5>1. CASE code = 200
                    <6>1. Held(request.route)
                        BY <5>1 DEF Verdict
                    <6>2. outbox[s].asked \in store
                        BY <2>d, <3>2, <6>1 DEF Held
                    <6> QED
                        BY <2>0, <3>5, <4>1, <6>2 DEF AcceptedIsStored, At
                <5>2. CASE code # 200
                    <6>1. word # "accepted"
                        BY <3>8, <5>2 DEF classify_submission_status
                    <6> QED
                        BY <2>0, <3>5, <4>1, <6>1 DEF AcceptedIsStored, At
                <5> QED
                    BY <5>1, <5>2
            <4>4. RefusalIsFinal'
                <5>1. CASE code \in {400, 413}
                    <6>1. decode_submission(request.body, request.route, DoorLimit) # "ok"
                        BY <5>1 DEF Verdict
                    <6> QED
                        BY <2>0, <3>2, <3>5, <6>1 DEF RefusalIsFinal, At, Route
                <5>2. CASE code \notin {400, 413}
                    <6>1. word # "refused"
                        BY <3>3, <3>8, <5>2 DEF classify_submission_status
                    <6> QED
                        BY <2>0, <3>5, <6>1 DEF RefusalIsFinal, At, Route
                <5> QED
                    BY <5>1, <5>2
            <4> QED
                BY <3>5, <3>6, <4>2, <4>3, <4>4 DEF OutboxInv
        <3> QED
            BY <3>7, <3>8
    <2>7. CASE AnswerUnheard
        BY <2>7, <2>c DEF AnswerUnheard
    <2>8. CASE TurnAway
        <3>1. PICK request \in wire, code \in {302, 503} :
                Reply(request, code) /\ wire' = wire \ {request}
            BY <2>8 DEF TurnAway
        <3>2. store' = store /\ request.from \in DOMAIN outbox
            BY <2>0, <2>8 DEF TurnAway, WireIsRouted
        <3>3. classify_submission_status(code) = "queued"
            BY DEF classify_submission_status
        <3>4. CASE Awaited(request)
            BY <2>b, <3>1, <3>2, <3>3, <3>4 DEF Reply
        <3>5. CASE ~Awaited(request)
            BY <2>0, <3>1, <3>2, <3>5 DEF Reply, OutboxInv, OutboxTypes, AskedIsCanonical,
                WireIsRouted, StoreIsLegible, RefusalIsFinal, StoredAsEncoded, AcceptedIsStored,
                At, Route
        <3> QED
            BY <3>4, <3>5
    <2>9. CASE Expire \/ Lose \/ Decide \/ pull_outcomes \/ UNCHANGED vars
        <3>1. UNCHANGED <<outbox, store>> /\ wire' \subseteq wire
            BY <2>9 DEF Expire, Lose, Decide, pull_outcomes, doorVars, vars
        <3> QED
            BY <2>0, <3>1 DEF OutboxInv, OutboxTypes, AskedIsCanonical, WireIsRouted,
                StoreIsLegible, RefusalIsFinal, StoredAsEncoded, AcceptedIsStored, At, Route
    <2> QED
        BY <2>1, <2>2, <2>3, <2>4, <2>5, <2>6, <2>7, <2>8, <2>9 DEF Next, Sender
<1> QED
    BY <1>1, <1>2, PTL DEF Spec

-----------------------------------------------------------------------------
(* The door holds what senders encoded, and nothing that was damaged, mixed up
   or put to another route. *)
THEOREM Stored == Spec => []StoredAsEncoded
<1>1. OutboxInv => StoredAsEncoded
    BY DEF OutboxInv
<1> QED
    BY <1>1, OutboxInvariant, PTL

(* Two bodies at the door that mean the same event are under the same id: what
   can be read has no second spelling. *)
THEOREM SameIdForSameEvent == Spec => []SameEventSameId
<1>1. OutboxInv => SameEventSameId
    <2> SUFFICES ASSUME OutboxInv, NEW k \in store, NEW l \in store,
                        [k.document EXCEPT !.derives_from = "absent"] =
                        [l.document EXCEPT !.derives_from = "absent"]
                 PROVE  k.artifact_id = l.artifact_id
        BY DEF SameEventSameId
    <2>1. ASSUME NEW kept \in store
          PROVE  /\ kept.document \in Documents /\ kept.document.derives_from = "absent"
                 /\ kept.artifact_id = kept.document
        <3>1. kept \in Bodies /\ decode_submission(kept, kept.document, DoorLimit) = "ok"
            BY DEF OutboxInv, StoreIsLegible
        <3>2. kept.document \in Documents /\ kept.document.derives_from = "absent"
            BY <3>1, DecodedIsCanonical
        <3>3. Bindings(kept, kept.document)
            BY <3>1 DEF decode_submission
        <3> QED
            BY <3>2, <3>3 DEF Bindings
    <2>2. ASSUME NEW d \in Documents, d.derives_from = "absent"
          PROVE  [d EXCEPT !.derives_from = "absent"] = d
        BY <2>2 DEF Documents
    <2>3. k.document = l.document
        BY <2>1, <2>2
    <2> QED
        BY <2>1, <2>3
<1> QED
    BY <1>1, OutboxInvariant, PTL

(* An outbox that stops at "accepted" may forget the body. *)
THEOREM Accepted == Spec => []AcceptedIsStored
<1>1. OutboxInv => AcceptedIsStored
    BY DEF OutboxInv
<1> QED
    BY <1>1, OutboxInvariant, PTL

(* A sound body that was refused is not at the door: the door would have refused
   each of its PUTs for the same reason. *)
THEOREM Refused == Spec => []RefusedIsNotStored
<1>1. OutboxInv => RefusedIsNotStored
    <2> SUFFICES ASSUME OutboxInv, NEW s \in DOMAIN outbox, At(s) = "refused",
                        outbox[s].body = outbox[s].asked,
                        NEW kept \in store, kept.artifact_id = Route(s)
                 PROVE  FALSE
        BY DEF RefusedIsNotStored, Held
    <2>1. kept \in Bodies /\ decode_submission(kept, kept.document, DoorLimit) = "ok"
        BY DEF OutboxInv, StoreIsLegible
    <2>2. kept = Canonical(kept.document) /\ kept.document = kept.artifact_id
        BY <2>1, DecodedIsCanonical DEF decode_submission, Bindings
    <2>3. kept = outbox[s].asked
        BY <2>2 DEF OutboxInv, AskedIsCanonical
    <2> QED
        BY <2>1, <2>2, <2>3 DEF OutboxInv, RefusalIsFinal
<1> QED
    BY <1>1, OutboxInvariant, PTL

-----------------------------------------------------------------------------
(* The puller: the cursor stands behind what it was given, and the journal only
   grows. *)

PullInv ==
    /\ sound \in BOOLEAN /\ token \in BOOLEAN
    /\ outcomes \in Seq(Documents)
    /\ cursor \in 0..Len(outcomes)
    /\ handled \subseteq Documents
    /\ NothingSkipped

(* No outcome before the cursor is missed, with the types of all that the model
   keeps. *)
THEOREM Skipped == Spec => [](TypeOK /\ NothingSkipped)
<1> USE SubmissionAssumption
<1>1. Init => PullInv
    <2> SUFFICES ASSUME Init PROVE PullInv
        OBVIOUS
    <2>1. sound \in BOOLEAN /\ token \in BOOLEAN
        BY Zenon DEF Init
    <2>2. outcomes = <<>> /\ cursor = 0 /\ handled = {}
        BY DEF Init
    <2> QED
        BY <2>1, <2>2 DEF PullInv, NothingSkipped
<1>2. OutboxInv /\ PullInv /\ [Next]_vars => PullInv'
    <2> SUFFICES ASSUME OutboxInv, PullInv, [Next]_vars PROVE PullInv'
        OBVIOUS
    <2>1. CASE Decide
        <3>1. PICK kept \in store : outcomes' = Append(outcomes, kept.artifact_id)
            BY <2>1 DEF Decide
        <3>2. kept.artifact_id \in Documents
            <4>1. kept \in Bodies /\ decode_submission(kept, kept.document, DoorLimit) = "ok"
                BY DEF OutboxInv, StoreIsLegible
            <4> QED
                BY <4>1, DecodedIsCanonical DEF decode_submission, Bindings
        <3>3. UNCHANGED <<sound, token, cursor, handled>>
            BY <2>1 DEF Decide, pullVars
        <3> QED
            BY <3>1, <3>2, <3>3 DEF PullInv, NothingSkipped
    <2>2. CASE pull_outcomes
        <3> DEFINE last == IF cursor + PageSize < Len(outcomes)
                           THEN cursor + PageSize ELSE Len(outcomes)
        <3>1. /\ handled' = handled \cup {outcomes[i] : i \in (cursor + 1)..last}
              /\ cursor' \in {cursor, last}
              /\ UNCHANGED <<sound, token, outcomes>>
            BY <2>2 DEF pull_outcomes, PageIsRead, doorVars
        <3>2. last \in cursor..Len(outcomes) /\ cursor \in Nat /\ Len(outcomes) \in Nat
            BY DEF PullInv
        <3> HIDE DEF last
        <3>3. \A i \in (cursor + 1)..last : outcomes[i] \in Documents
            BY <3>2 DEF PullInv
        <3> QED
            BY <3>1, <3>2, <3>3 DEF PullInv, NothingSkipped
    <2>3. CASE \/ Expire \/ AnswerUnheard \/ TurnAway \/ Lose
               \/ \E s \in Senders : Sender(s)
               \/ UNCHANGED vars
        <3>1. UNCHANGED <<outcomes, cursor, handled>>
            BY <2>3 DEF Expire, AnswerUnheard, TurnAway, Lose, Sender, encode_submission, Damage,
                put_submission, Unavailable, Refresh, Answer, doorVars, pullVars, vars
        <3>2. sound' \in {sound, FALSE} /\ token' \in {token, TRUE, FALSE}
            BY <2>3 DEF Expire, AnswerUnheard, TurnAway, Lose, Sender, encode_submission, Damage,
                put_submission, Unavailable, Refresh, Answer, doorVars, pullVars, vars
        <3> QED
            BY <3>1, <3>2 DEF PullInv, NothingSkipped
    <2> QED
        BY <2>1, <2>2, <2>3 DEF Next
<1>3. OutboxInv /\ PullInv => TypeOK /\ NothingSkipped
    BY DEF OutboxInv, OutboxTypes, WireIsRouted, StoreIsLegible, PullInv, TypeOK
<1> QED
    BY <1>1, <1>2, <1>3, OutboxInvariant, PTL DEF Spec

=============================================================================
