-------------------------- MODULE MCKnowledgeClient --------------------------
(* Two agents that may propose the same content, two calls each. *)
EXTENDS KnowledgeClient, TLC

AgentSymmetry == Permutations(Agents)

(* A caller that follows the documentation: it does not call again after an
   outcome it does not know (docs/use-cases/memory.md:197), and a process that
   ended in the middle of a call does not know its outcome either. *)
KnowsOutcome(a) ==
    \/ agent[a].calling
    \/ agent[a].outcome \in {"ok", "failed"}
    \/ Request(a).attempt.number = 0

CarefulNext ==
    /\ Next
    /\ \A a \in Agents : KnowsOutcome(a) \/ agent'[a].request = Request(a)

CarefulSpec == Init /\ [][CarefulNext]_vars

=============================================================================
