----------------------------- MODULE Operations -----------------------------
(***************************************************************************)
(* The verb table of operations.py: every dg.* verb, the scope a transport *)
(* needs to emit it, whether it mutates the gate, and which gate serves    *)
(* it.  The role the gate holds a verb to is enforced on the far side and  *)
(* is left out.                                                            *)
(***************************************************************************)
EXTENDS Naturals

SCOPES == {"read", "knowledge", "curation"}

Rank(scope) == IF scope = "read" THEN 0 ELSE IF scope = "knowledge" THEN 1 ELSE 2

ReadVerbs ==
    { "dg.ping", "dg.describe", "dg.status", "dg.pending", "dg.inventory",
      "dg.recall", "dg.why", "dg.audit", "dg.tip", "dg.relations",
      "dg.approval", "dg.graph", "dg.node", "dg.comments", "dg.review",
      "dg.review_runs", "dg.engagement", "dg.bans", "dg.settings", "dg.verify",
      "dg.collection", "dg.policy", "dg.countersign_status", "dg.audit_chain",
      "dg.org_review" }

KnowledgeVerbs ==
    { "dg.ingest", "dg.ingest_bundle", "dg.comment", "dg.comment_retract",
      "dg.defer", "dg.rank", "dg.hide", "dg.crawler_policy" }

CurationVerbs ==
    { "dg.sign", "dg.promote", "dg.demote", "dg.reject", "dg.relate",
      "dg.override_tip", "dg.ban", "dg.away", "dg.back", "dg.semantic_review",
      "dg.scan", "dg.scan_pending", "dg.grade", "dg.grade_pending",
      "dg.review_pending", "dg.settle_pending", "dg.submit", "dg.submit_drain",
      "dg.publish", "dg.reconcile", "dg.rebuild", "dg.settings_validate",
      "dg.settings_save", "dg.keys", "dg.people", "dg.work" }

OPERATIONS == ReadVerbs \cup KnowledgeVerbs \cup CurationVerbs

ScopeOf(verb) ==
    IF verb \in ReadVerbs THEN "read"
    ELSE IF verb \in KnowledgeVerbs THEN "knowledge" ELSE "curation"

(* The one curation verb that changes nothing is the settings dry run. *)
Mutates(verb) ==
    /\ verb \in KnowledgeVerbs \cup CurationVerbs
    /\ verb # "dg.settings_validate"

(* Verbs only an organization gate dispatches, and only a client gate. *)
OrgVerbs == { "dg.collection", "dg.policy", "dg.countersign_status",
              "dg.audit_chain", "dg.org_review", "dg.work" }
ClientVerbs == { "dg.submit", "dg.submit_drain" }

(* Faulty: a verb of the table is allowed whatever its class. *)
AllowsKnown(scope, verb) ==
    /\ scope \in SCOPES
    /\ verb \in OPERATIONS

(* operations.allows: an unknown verb is never allowed. *)
Allows(scope, verb) ==
    /\ verb \in OPERATIONS
    /\ Rank(ScopeOf(verb)) <= Rank(scope)

(* A refusal by scope: a read transport names a write "writes_disabled". *)
ScopeRefusal(scope, verb) ==
    IF scope = "read" /\ Mutates(verb) THEN "writes_disabled" ELSE "forbidden_operation"

=============================================================================
