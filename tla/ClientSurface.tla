---------------------------- MODULE ClientSurface ----------------------------
(***************************************************************************)
(* What the methods of knowledge.KnowledgeClient and curation's            *)
(* CurationClient put on the wire: one verb each, but for learn, which may *)
(* send two, and propose_bundle, which asks the description of the gate    *)
(* first.  The description is cached for the life of the client while the  *)
(* gate starts and stops dispatching verbs.                                *)
(***************************************************************************)
EXTENDS Operations

CONSTANT Optional  \* the verbs a gate may or may not dispatch

ASSUME SurfaceAssumption == Optional \subseteq OPERATIONS

VARIABLES
    client,       \* its class and the scope of its transport
    dispatched,   \* what the gate dispatches of Optional
    capabilities, \* the cached description, as the verbs it dispatches
    calling,      \* the method that runs
    last,         \* how the latest method ended
    heard         \* history: what the gate dispatched when it last described itself

surfaceVars == <<client, dispatched, capabilities, calling, last, heard>>

(* The methods of a KnowledgeClient, and all that each of them may send. *)
Reading ==
    [present |-> {"dg.ping"}, ping |-> {"dg.ping"}, describe |-> {"dg.describe"},
     status |-> {"dg.status"}, why |-> {"dg.why"}, tip |-> {"dg.tip"},
     relations |-> {"dg.relations"}, approval |-> {"dg.approval"}, node |-> {"dg.node"},
     comments |-> {"dg.comments"}, pending |-> {"dg.pending"},
     inventory |-> {"dg.inventory"}, inventory_pages |-> {"dg.inventory"},
     recall |-> {"dg.recall"}, wait_for |-> {"dg.status"}]
Proposing ==
    [remember |-> {"dg.ingest"}, learn |-> {"dg.ingest", "dg.comment"},
     propose_skill |-> {"dg.ingest"}, propose_prompt_template |-> {"dg.ingest"},
     propose_bundle |-> {"dg.ingest_bundle"}]
Remarking ==
    [annotate |-> {"dg.comment"}, raise_objection |-> {"dg.comment"}, resolve |-> {"dg.comment"},
     retract_comment |-> {"dg.comment_retract"}, defer |-> {"dg.defer"},
     rank |-> {"dg.rank"}, hide |-> {"dg.hide"}]

(* Those of a CurationClient. *)
Deciding ==
    [sign |-> {"dg.sign"}, approve |-> {"dg.sign"}, hold |-> {"dg.sign"},
     clear_finding |-> {"dg.sign"}, reject |-> {"dg.reject"}, veto |-> {"dg.demote"},
     promote |-> {"dg.promote"}]
Passing ==
    [scan |-> {"dg.scan"}, grade |-> {"dg.grade"}, grade_pending |-> {"dg.grade_pending"},
     settle_pending |-> {"dg.settle_pending"}, semantic_review |-> {"dg.semantic_review"}]
Relating ==
    [relate |-> {"dg.relate"}, supersede |-> {"dg.relate"}, override_tip |-> {"dg.override_tip"}]
Serving ==
    [rank |-> {"dg.rank"}, hide |-> {"dg.hide"}, ban |-> {"dg.ban"}, bans |-> {"dg.bans"}]
Attending ==
    [away |-> {"dg.away"}, back |-> {"dg.back"}, defer |-> {"dg.defer"}, submit |-> {"dg.submit"},
     submit_drain |-> {"dg.submit_drain"}, review |-> {"dg.review"}, keys |-> {"dg.keys"}]

Tables(class) ==
    IF class = "curation" THEN {Deciding, Passing, Relating, Serving, Attending}
    ELSE {Reading, Proposing, Remarking}

-----------------------------------------------------------------------------
(* The constructors.  A transport of its own making need not have a scope, and
   then sends what it is told to.  _Reader is the knowledge client a curation
   client hands out over its own transport. *)

(* Faulty: any transport is taken. *)
CurationClient_unchecked == SCOPES \cup {"none"}

CurationClient_scopes == {"curation", "none"}
KnowledgeClient_scopes == {"read", "knowledge", "none"}
_Reader == CurationClient_scopes

ClientsMade ==
    [class : {"curation"}, scope : CurationClient_scopes]
        \cup [class : {"knowledge"}, scope : KnowledgeClient_scopes]
        \cup [class : {"reader"}, scope : _Reader]

Undescribed == [known |-> FALSE, verbs |-> {}]
Description(verbs) == [known |-> TRUE, verbs |-> verbs]
Idle == [at |-> "idle", verb |-> "none"]

SurfaceInit ==
    /\ client \in ClientsMade
    /\ dispatched \in SUBSET Optional
    /\ capabilities = Undescribed
    /\ calling = Idle
    /\ last = [verb |-> "none", how |-> "none"]
    /\ heard = Undescribed

GateChanges ==
    /\ dispatched' \in SUBSET Optional
    /\ UNCHANGED <<client, capabilities, calling, last, heard>>

MethodEnds(verb, how) == calling' = Idle /\ last' = [verb |-> verb, how |-> how]

(* Transport.call: refused by scope before anything is sent, or answered, which
   includes every failure after it was sent. *)
SendVerb(verb) ==
    MethodEnds(verb, IF client.scope = "none" \/ Allows(client.scope, verb) THEN "sent" ELSE "forbidden")

(* A method that asks nothing first; a bad argument is a ValueError. *)
Call ==
    /\ calling = Idle
    /\ \E table \in Tables(client.class) : \E method \in DOMAIN table \ {"describe", "propose_bundle"} :
        \E verb \in table[method] : SendVerb(verb) \/ MethodEnds(verb, "value_error")
    /\ UNCHANGED <<client, dispatched, capabilities, heard>>

-----------------------------------------------------------------------------
(* describe *)

(* What a gate publishes of a verb: a flag or none if it dispatches it, and the
   flag or nothing at all if it does not. *)
Published == {answer \in [Optional -> {"missing", "unmarked", "true", "false"}] :
                \A verb \in Optional : verb \in dispatched <=> answer[verb] \in {"unmarked", "true"}}

from_describe(answer) == Description({verb \in Optional : answer[verb] \notin {"missing", "false"}})

(* Faulty: an answer that is none describes a gate without verbs. *)
UnreadableIsEmpty(cached) == Description({})

(* Not an object, no list of verbs, or no answer at all: it is raised, and what
   was cached stays. *)
NotReadable(cached) == cached

AskGate(next) ==
    \/ /\ \E answer \in Published : capabilities' = from_describe(answer)
       /\ heard' = Description(dispatched)
       /\ calling' = next /\ last' = [verb |-> "dg.describe", how |-> "sent"]
    \/ /\ capabilities' = NotReadable(capabilities)
       /\ MethodEnds("dg.describe", "sent")
       /\ UNCHANGED heard

(* For the first time or with refresh: else what is cached is returned. *)
describe ==
    /\ calling = Idle /\ client.class # "curation"
    /\ AskGate(Idle)
    /\ UNCHANGED <<client, dispatched>>

-----------------------------------------------------------------------------
(* propose_bundle: the archive is inspected, the description asked for if there
   is none, and the bundle sent if the description says that it will be taken. *)
Inspect ==
    /\ calling = Idle /\ client.class # "curation"
    /\ \E verb \in Proposing.propose_bundle :
        \/ MethodEnds(verb, "value_error")
        \/ /\ calling' = [at |-> "describing", verb |-> verb]
           /\ last' = [verb |-> verb, how |-> "none"]
    /\ UNCHANGED <<client, dispatched, capabilities, heard>>

Describe ==
    /\ calling.at = "describing"
    /\ LET next == [calling EXCEPT !.at = "deciding"]
       IN  IF ~capabilities.known THEN AskGate(next)
           ELSE calling' = next /\ UNCHANGED <<capabilities, last, heard>>
    /\ UNCHANGED <<client, dispatched>>

dispatches(verb) == verb \in capabilities.verbs

(* A manifest that is no object is a bad argument found this late. *)
Hand ==
    /\ calling.at = "deciding"
    /\ IF dispatches(calling.verb)
       THEN SendVerb(calling.verb) \/ MethodEnds(calling.verb, "value_error")
       ELSE MethodEnds(calling.verb, "unsupported_operation")
    /\ UNCHANGED <<client, dispatched, capabilities, heard>>

propose_bundle == Inspect \/ Describe \/ Hand

SurfaceNext == GateChanges \/ Call \/ describe \/ propose_bundle

SurfaceSpec == SurfaceInit /\ [][SurfaceNext]_surfaceVars

-----------------------------------------------------------------------------
SurfaceTypeOK ==
    /\ client \in ClientsMade
    /\ dispatched \subseteq Optional
    /\ {capabilities, heard} \subseteq [known : BOOLEAN, verbs : SUBSET Optional]
    /\ calling \in [at : {"idle", "describing", "deciding"}, verb : OPERATIONS \cup {"none"}]
    /\ last \in [verb : OPERATIONS \cup {"none"},
                 how : {"none", "sent", "forbidden", "value_error", "unsupported_operation"}]

(* An agent never decides, whatever transport it was given: no verb of curation
   leaves a knowledge client, not even the one over a curation transport, and
   nothing that mutates leaves one over a read transport.  And no method is dead:
   its own scope check turns a client's call away only when it would mutate and
   the transport is for reading. *)
VerbsFitClient ==
    /\ last.how = "sent" =>
        /\ client.class # "curation" => ScopeOf(last.verb) # "curation"
        /\ client.scope = "read" => ~Mutates(last.verb)
    /\ last.how = "forbidden" => client.scope = "read" /\ Mutates(last.verb)

(* propose_bundle follows what the gate itself said last: it refuses for the
   gate only what that gate, asked for its description, did not dispatch, never
   because the question failed or the answer could not be read; and it sends
   nothing that was not announced, however the gate changes in between. *)
RefusalWasAnswered ==
    /\ last.how = "unsupported_operation" => heard.known /\ last.verb \notin heard.verbs
    /\ calling.at = "deciding" => heard.known
    /\ last.verb \in Proposing.propose_bundle /\ last.how \in {"sent", "forbidden"} =>
        last.verb \in heard.verbs

=============================================================================
