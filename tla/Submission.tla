----------------------------- MODULE Submission -----------------------------
(***************************************************************************)
(* A submission on its way to the organization gate and its outcome on the *)
(* way back: submission.encode_submission makes a body, org_rest           *)
(* .put_submission moves it as often as the sender's outbox asks, the door *)
(* reads it with submission.decode_submission, and org_rest.pull_outcomes  *)
(* pages through what became of it.                                        *)
(*                                                                         *)
(* A hash is taken to tell any two inputs apart: content_hash is the       *)
(* content, evidence_manifest_digest the manifest, and artifact_id the     *)
(* whole document.                                                         *)
(***************************************************************************)
EXTENDS Naturals, Sequences

CONSTANTS
    Senders,    \* each has one submission to make
    Contents,   \* the blobs that may be submitted
    NoBytes,    \* a text that is not canonical base64, of no bytes at all
    NoId,       \* an artifact_id that is no document's
    SizeOf,     \* their lengths, and what that text would decode to at its length
    Manifests,  \* production evidence manifests
    NoManifest, \* a manifest that is not closed, sorted and unique has no digest
    Limit,      \* max_content_bytes of the senders ...
    DoorLimit,  \* ... and of the door
    PageSize    \* limit of one pull

ASSUME SubmissionAssumption ==
    /\ NoBytes \notin Contents
    /\ NoManifest \notin Manifests
    /\ SizeOf \in [Contents \cup {NoBytes} -> Nat]
    /\ Limit \in Nat
    /\ DoorLimit \in Nat
    /\ PageSize \in Nat \ {0}

VARIABLES
    outbox,     \* each sender: its body, what it asked for, where it is
    sound,      \* whether no body has been damaged yet
    wire,       \* PUTs on their way to the door
    token,      \* whether the door takes the senders' token
    store,      \* the door: what it holds, by artifact_id
    outcomes,   \* the door: the journal of decisions, in order
    cursor,     \* the puller: how far it has read ...
    handled     \* ... and what it was given

doorVars == <<wire, token, store, outcomes>>
pullVars == <<cursor, handled>>
vars == <<outbox, sound, wire, token, store, outcomes, cursor, handled>>

Sizes == {SizeOf[c] : c \in Contents}

(* The signed document.  wellFormed stands for the checks of one member of the
   envelope alone, derives_from for the two spellings of no parents. *)
Documents ==
    [wellFormed : BOOLEAN, content_hash : Contents, size_bytes : Sizes,
     content_digest : Contents, derives_from : {"absent", "empty"},
     evidence_manifest_digest : Manifests]

(* The transport body; the members nothing binds (space, local records,
   on_behalf_of) are left out. *)
Bodies ==
    [document : Documents, artifact_id : Documents \cup {NoId}, signature : BOOLEAN,
     content : Contents \cup {NoBytes},
     production_evidence_manifest : Manifests \cup {NoManifest}]

-----------------------------------------------------------------------------
(* Reading a body. *)

(* Envelope.from_mapping and to_dict: an empty list of parents is left out. *)
CanonicalOmission(document) == document.derives_from # "empty"

(* Faulty: both spellings of no parents are taken. *)
from_mapping_lenient(document) ==
    /\ document.wellFormed
    /\ document.content_digest = document.content_hash

(* SubmissionEvent.from_mapping *)
from_mapping(document) ==
    /\ document.wellFormed
    /\ CanonicalOmission(document)
    /\ document.content_digest = document.content_hash

(* _decode_content: within the limit as declared, as encoded and as decoded ... *)
TooLarge(body, limit) ==
    body.document.size_bytes > limit \/ SizeOf[body.content] > limit

(* ... and the very bytes the envelope describes. *)
ContentMatches(body) ==
    /\ body.document.wellFormed
    /\ body.content # NoBytes
    /\ body.content = body.document.content_hash
    /\ SizeOf[body.content] = body.document.size_bytes

(* Faulty: the manifest beside the event is not compared with its digest. *)
BindingsWithoutManifest(body, route) ==
    /\ body.artifact_id = body.document
    /\ route = body.document

(* _parse_submission: one artifact in route, body and event; one manifest. *)
Bindings(body, route) ==
    /\ body.artifact_id = body.document
    /\ route = body.document
    /\ body.production_evidence_manifest = body.document.evidence_manifest_digest

decode_submission(body, route, limit) ==
    IF body.document.wellFormed /\ TooLarge(body, limit) THEN "too_large"
    ELSE IF /\ ContentMatches(body)
            /\ from_mapping(body.document)
            /\ Bindings(body, route)
            /\ body.signature
    THEN "ok" ELSE "invalid"

-----------------------------------------------------------------------------
(* The sender's outbox: a submission is queued for a PUT, waiting for its
   reply, or settled with the word the outbox stops at. *)

Places == {"queued", "waiting", "accepted", "refused", "stopped"}

(* What was encoded, and what has become of it in the outbox. *)
Entries == [at : Places, asked : Bodies, body : Bodies]

Init ==
    /\ outbox = <<>>
    /\ sound = TRUE
    /\ wire = {}
    /\ token = TRUE
    /\ store = {}
    /\ outcomes = <<>>
    /\ cursor = 0
    /\ handled = {}

At(s) == outbox[s].at
Route(s) == outbox[s].asked.artifact_id

(* encode_submission: the body is read back before it is handed out, so that only
   what the door's own parser takes is ever sent. *)
encode_submission(s) ==
    /\ s \notin DOMAIN outbox
    /\ \E document \in Documents, c \in Contents, m \in Manifests :
        LET body == [document |-> document, artifact_id |-> document, signature |-> TRUE,
                     content |-> c, production_evidence_manifest |-> m]
        IN  /\ decode_submission(body, document, Limit) = "ok"
            /\ outbox' = [t \in DOMAIN outbox \cup {s} |->
                    IF t = s
                    THEN [at |-> "queued", asked |-> body, body |-> body]
                    ELSE outbox[t]]
    /\ UNCHANGED <<sound, doorVars, pullVars>>

(* The documents that differ from one in a single member. *)
OneOff(document) ==
    {d \in Documents :
        \E name \in DOMAIN document : d = [document EXCEPT ![name] = d[name]]}

(* One member of a queued body is damaged where it is kept. *)
Damage(s) ==
    /\ sound
    /\ At(s) = "queued"
    /\ sound' = FALSE
    /\ \/ \E d \in OneOff(Route(s)) : outbox' = [outbox EXCEPT ![s].body.document = d]
       \/ outbox' = [outbox EXCEPT ![s].body.artifact_id = NoId]
       \/ \E c \in Contents \cup {NoBytes} : outbox' = [outbox EXCEPT ![s].body.content = c]
       \/ \E m \in Manifests \cup {NoManifest} :
            outbox' = [outbox EXCEPT ![s].body.production_evidence_manifest = m]
       \/ outbox' = [outbox EXCEPT ![s].body.signature = FALSE]
    /\ outbox' # outbox
    /\ UNCHANGED <<doorVars, pullVars>>

put_submission(s) ==
    /\ At(s) = "queued"
    /\ outbox' = [outbox EXCEPT ![s].at = "waiting"]
    /\ wire' = wire \cup {[from |-> s, route |-> Route(s), body |-> outbox[s].body]}
    /\ UNCHANGED <<sound, token, store, outcomes, pullVars>>

(* No reply within timeout_s, or no connection: GateError("unavailable"), which
   the outbox takes for a reason to try again. *)
Unavailable(s) ==
    /\ At(s) = "waiting"
    /\ outbox' = [outbox EXCEPT ![s].at = "queued"]
    /\ UNCHANGED <<sound, doorVars, pullVars>>

(* Faulty: whatever is no error is a success. *)
classify_below_400(code) ==
    IF code < 400 THEN "accepted"
    ELSE IF code \in {401, 403} THEN "stopped"
    ELSE IF code \in {400, 413, 422} THEN "refused"
    ELSE "queued"

(* Faulty: a key problem is taken for a refusal of the body. *)
classify_key_as_body(code) ==
    IF code \in {202, 200} THEN "accepted"
    ELSE IF code \in {400, 401, 403, 413, 422} THEN "refused"
    ELSE "queued"

(* Faulty: 413 is one of the unexpected statuses. *)
classify_413_unexpected(code) ==
    IF code \in {202, 200} THEN "accepted"
    ELSE IF code \in {401, 403} THEN "stopped"
    ELSE IF code \in {400, 422} THEN "refused"
    ELSE "queued"

(* The door's word; a retry puts the submission back into the queue. *)
classify_submission_status(code) ==
    IF code \in {202, 200} THEN "accepted"
    ELSE IF code \in {401, 403} THEN "stopped"
    ELSE IF code \in {400, 413, 422} THEN "refused"
    ELSE "queued"

(* A new token, and the body of a stopped submission unchanged. *)
Refresh(s) ==
    /\ At(s) = "stopped"
    /\ token' = TRUE
    /\ outbox' = [outbox EXCEPT ![s].at = "queued"]
    /\ UNCHANGED <<sound, wire, store, outcomes, pullVars>>

-----------------------------------------------------------------------------
(* The door, and what is in front of it. *)

Held(id) == \E kept \in store : kept.artifact_id = id

Expire ==
    /\ token
    /\ token' = FALSE
    /\ UNCHANGED <<outbox, sound, wire, store, outcomes, pullVars>>

(* The reply reaches the sender if it still waits for this very request. *)
Awaited(request) ==
    /\ At(request.from) = "waiting"
    /\ outbox[request.from].body = request.body

Reply(request, code) ==
    outbox' = IF Awaited(request)
              THEN [outbox EXCEPT ![request.from].at = classify_submission_status(code)]
              ELSE outbox

(* The code for a request the door has looked at, in the order it looks; 401
   stands for 403, and 400 for 422. *)
Verdict(request) ==
    IF ~token THEN 401
    ELSE CASE decode_submission(request.body, request.route, DoorLimit) = "ok" ->
                IF Held(request.route) THEN 200 ELSE 202
           [] decode_submission(request.body, request.route, DoorLimit) = "too_large" -> 413
           [] OTHER -> 400

Keep(request, code) ==
    store' = IF code = 202 THEN store \cup {request.body} ELSE store

Serve(request) ==
    /\ Keep(request, Verdict(request))
    /\ Reply(request, Verdict(request))
    /\ wire' = wire \ {request}

Answer(s) ==
    /\ \E request \in wire : request.from = s /\ Awaited(request) /\ Serve(request)
    /\ UNCHANGED <<sound, token, outcomes, pullVars>>

(* Served, and another copy is still on its way, or nobody hears the reply. *)
AnswerUnheard ==
    /\ \E request \in wire :
        /\ Keep(request, Verdict(request))
        /\ wire' \in {wire, wire \ {request}}
    /\ UNCHANGED <<outbox, sound, token, outcomes, pullVars>>

(* Too busy (503, 429), or a proxy answers, with a redirect, say, or a 500: the
   request goes no further. *)
TurnAway ==
    /\ \E request \in wire, code \in {302, 503} :
        /\ Reply(request, code)
        /\ wire' = wire \ {request}
    /\ UNCHANGED <<sound, token, store, outcomes, pullVars>>

Lose ==
    /\ \E request \in wire : wire' = wire \ {request}
    /\ UNCHANGED <<outbox, sound, token, store, outcomes, pullVars>>

Decide ==
    /\ \E kept \in store :
        /\ \A i \in 1..Len(outcomes) : outcomes[i] # kept.artifact_id
        /\ outcomes' = Append(outcomes, kept.artifact_id)
    /\ UNCHANGED <<outbox, sound, wire, token, store, pullVars>>

-----------------------------------------------------------------------------
(* The puller. *)

(* Faulty: events that are no objects are left out. *)
PageIsReadDespite(legible) == TRUE

(* pull_outcomes takes a page only as a whole. *)
PageIsRead(legible) == legible

(* A page after the cursor, its events all legible or not; next may be missing,
   and the caller then asks from the same place again. *)
pull_outcomes ==
    \E legible \in BOOLEAN, names_next \in BOOLEAN :
        LET last == IF cursor + PageSize < Len(outcomes)
                    THEN cursor + PageSize ELSE Len(outcomes)
        IN  /\ PageIsRead(legible)
            /\ handled' = IF legible
                          THEN handled \cup {outcomes[i] : i \in (cursor + 1)..last}
                          ELSE handled
            /\ cursor' = IF names_next THEN last ELSE cursor
            /\ UNCHANGED <<outbox, sound, doorVars>>

Sender(s) ==
    \/ encode_submission(s)
    \/ /\ s \in DOMAIN outbox
       /\ \/ Damage(s) \/ put_submission(s) \/ Unavailable(s)
          \/ Refresh(s) \/ Answer(s)

Next ==
    \/ Expire \/ AnswerUnheard \/ TurnAway \/ Lose \/ Decide \/ pull_outcomes
    \/ \E s \in Senders : Sender(s)

Spec == Init /\ [][Next]_vars

(* The outbox goes on, a PUT does not wait longer than its timeout, and a door
   that is asked again and again answers at last. *)
Outgoing(s) == s \in DOMAIN outbox /\ (put_submission(s) \/ Unavailable(s))

Answered(s) == s \in DOMAIN outbox /\ Answer(s)

FairSpec ==
    /\ Spec
    /\ \A s \in Senders : WF_vars(Outgoing(s)) /\ SF_vars(Answered(s))

-----------------------------------------------------------------------------
(* The outbox, the door and the puller have the types the code gives them. *)
TypeOK ==
    /\ DOMAIN outbox \subseteq Senders
    /\ \A s \in DOMAIN outbox : outbox[s] \in Entries
    /\ sound \in BOOLEAN
    /\ wire \subseteq [from : DOMAIN outbox, route : Documents, body : Bodies]
    /\ token \in BOOLEAN
    /\ store \subseteq Bodies
    /\ outcomes \in Seq(Documents)
    /\ cursor \in 0..Len(outcomes)
    /\ handled \subseteq Documents

(* The door holds nothing but what a sender encoded, to the byte, however bodies
   are damaged, lost, late or sent again (decode_submission binds the content,
   the event, the manifest and the route to each other). *)
StoredAsEncoded ==
    \A kept \in store : \E s \in DOMAIN outbox : kept = outbox[s].asked

(* Two things the door holds under different ids are different events: no event
   has two spellings (from_mapping refuses an envelope that is not as to_dict
   would write it). *)
SameEventSameId ==
    \A k, l \in store :
        LET Meaning(document) ==
                [document EXCEPT !.derives_from = "absent"]
        IN  Meaning(k.document) = Meaning(l.document) => k.artifact_id = l.artifact_id

(* A sender that was told "accepted" has its submission at the door, and may
   forget it, whatever stood between them. *)
AcceptedIsStored ==
    \A s \in DOMAIN outbox : At(s) = "accepted" => outbox[s].asked \in store

(* A body that was not damaged and is "refused" is not at the door and will not
   arrive: none of its PUTs, the ones given up included, took effect. *)
RefusedIsNotStored ==
    \A s \in DOMAIN outbox :
        At(s) = "refused" /\ outbox[s].body = outbox[s].asked => ~Held(Route(s))

(* Every outcome before the cursor has been handed over (pull_outcomes refuses a
   page it cannot read as a whole and so never moves past an event). *)
NothingSkipped ==
    \A i \in 1..cursor : outcomes[i] \in handled

(* What has been encoded gets a word to stop at: no status is retried for ever
   by a door that answers on the merits. *)
EverySubmissionSettles ==
    \A s \in Senders :
        s \in DOMAIN outbox ~>
            s \in DOMAIN outbox /\ At(s) \in {"accepted", "refused", "stopped"}

=============================================================================
