--------------------------- MODULE KnowledgeClient ---------------------------
(***************************************************************************)
(* The proposing half of knowledge.KnowledgeClient: remember, learn and    *)
(* annotate, by several agents against one gate.  A learning that replaces *)
(* a claim takes two calls, dg.ingest and then dg.comment, with nothing    *)
(* that makes them one.                                                    *)
(*                                                                         *)
(* The transport is taken at its word, module GateCall: a call succeeds,   *)
(* fails with nothing done, or fails with the outcome unknown, and then    *)
(* the gate may still apply it after the caller has gone.                  *)
(***************************************************************************)
EXTENDS Naturals

CONSTANTS
    Agents,     \* the processes that hold a client
    Contents,   \* what may be proposed; a gate knows a content it holds
    Claims,     \* the claims a learning may replace
    NoClaim,    \* a learning that replaces nothing
    MaxCalls    \* bound: method calls of one agent

ASSUME ClientAssumption ==
    /\ NoClaim \notin Claims
    /\ MaxCalls \in Nat

VARIABLES
    dispatchesComment,  \* whether this build of the gate knows dg.comment
    rows,               \* the requests that made a row, one for each row
    notes,              \* the comments the gate has recorded
    late,               \* requests on their way whose caller stopped waiting
    agent               \* each client: the method it is in, and how it ended

gateVars == <<dispatchesComment, rows, notes, late>>
vars == <<dispatchesComment, rows, notes, late, agent>>

Attempts == [by : Agents, number : 0..MaxCalls]

Requests ==
    [method : {"remember", "learn", "annotate"}, verb : {"dg.ingest", "dg.comment"},
     attempt : Attempts, content : Contents, replaces : Claims \cup {NoClaim}]

(* The state of one client.  served is how far the gate is with the request
   in flight, outcome what the method told its caller. *)
Clients ==
    [request : Requests, calling : BOOLEAN,
     served : {"waiting", "new", "duplicate", "refused", "unsupported"},
     outcome : {"none", "ok", "failed", "unknown"}]

Request(a) == agent[a].request
Verb(a) == Request(a).verb
Served(a) == agent[a].served
Held(c) == \E made \in rows : made.content = c

Init ==
    /\ dispatchesComment \in BOOLEAN
    /\ rows = {}
    /\ notes = {}
    /\ late = {}
    /\ \E c \in Contents :
        agent = [a \in Agents |->
            [request |-> [method |-> "remember", verb |-> "dg.ingest",
                          attempt |-> [by |-> a, number |-> 0],
                          content |-> c, replaces |-> NoClaim],
             calling |-> FALSE, served |-> "waiting", outcome |-> "none"]]

-----------------------------------------------------------------------------
(* The caller enters a method, a retry of an earlier one included: the SDK
   itself never sends a write twice. *)

Enter(a, method, verb, c, r) ==
    /\ ~agent[a].calling
    /\ Request(a).attempt.number < MaxCalls
    /\ agent' = [agent EXCEPT ![a] =
            [request |-> [method |-> method, verb |-> verb,
                          attempt |-> [by |-> a, number |-> Request(a).attempt.number + 1],
                          content |-> c, replaces |-> r],
             calling |-> TRUE, served |-> "waiting", outcome |-> "none"]]
    /\ UNCHANGED gateVars

remember(a) == \E c \in Contents : Enter(a, "remember", "dg.ingest", c, NoClaim)

learn(a) ==
    \E c \in Contents, r \in Claims \cup {NoClaim} : Enter(a, "learn", "dg.ingest", c, r)

annotate(a) == \E c \in Contents : Enter(a, "annotate", "dg.comment", c, NoClaim)

-----------------------------------------------------------------------------
(* The gate. *)

Ingest(request) ==
    /\ request.verb = "dg.ingest"
    /\ rows' = IF Held(request.content) THEN rows ELSE rows \cup {request}
    /\ UNCHANGED <<dispatchesComment, notes>>

Comment(request) ==
    /\ request.verb = "dg.comment"
    /\ dispatchesComment
    /\ Held(request.content)
    /\ notes' = notes \cup {request}
    /\ UNCHANGED <<dispatchesComment, rows>>

(* The request of a waiting client is served ... *)
Serve(a) ==
    /\ agent[a].calling
    /\ Served(a) = "waiting"
    /\ Ingest(Request(a)) \/ Comment(Request(a))
    /\ agent' = [agent EXCEPT ![a].served =
            IF Verb(a) = "dg.ingest" /\ Held(Request(a).content)
            THEN "duplicate" ELSE "new"]
    /\ UNCHANGED late

(* ... or refused, by the door or because the gate has no such verb. *)
Refuse(a) ==
    /\ agent[a].calling
    /\ Served(a) = "waiting"
    /\ \E why \in {"refused", "unsupported"} :
        /\ why = "unsupported" => Verb(a) = "dg.comment" /\ ~dispatchesComment
        /\ agent' = [agent EXCEPT ![a].served = why]
    /\ UNCHANGED gateVars

(* A request whose caller has gone arrives all the same, or is lost. *)
Arrive ==
    \E request \in late :
        /\ late' = late \ {request}
        /\ Ingest(request) \/ Comment(request)
        /\ UNCHANGED agent

Lose ==
    \E request \in late :
        /\ late' = late \ {request}
        /\ UNCHANGED <<dispatchesComment, rows, notes, agent>>

-----------------------------------------------------------------------------
(* The client hears of it. *)

(* Faulty: the gate's own word is handed on instead of the outcome. *)
ReturnRaw(a, outcome) ==
    agent' = [agent EXCEPT ![a].calling = FALSE, ![a].outcome = Served(a)]

Return(a, outcome) ==
    agent' = [agent EXCEPT ![a].calling = FALSE, ![a].outcome = outcome]

(* A request nobody waits for any more can still be on its way. *)
Abandon(a) ==
    late' = IF Served(a) = "waiting" THEN late \cup {Request(a)} ELSE late

(* Faulty: the duplicate flag of the receipt is not looked at. *)
LeavesNoteAlways(a) ==
    Request(a).method = "learn" /\ Request(a).replaces # NoClaim

(* learn: only a new row is told what it proposes to supersede. *)
LeavesNote(a) ==
    /\ Request(a).method = "learn"
    /\ Request(a).replaces # NoClaim
    /\ Served(a) # "duplicate"

(* Proposal.from_response, and learn going on to annotate the row. *)
Receipt(a) ==
    /\ agent[a].calling
    /\ Verb(a) = "dg.ingest"
    /\ Served(a) \in {"new", "duplicate"}
    /\ IF LeavesNote(a)
       THEN agent' = [agent EXCEPT ![a].request.verb = "dg.comment",
                                   ![a].served = "waiting"]
       ELSE Return(a, "ok")
    /\ UNCHANGED gateVars

Acknowledge(a) ==
    /\ agent[a].calling
    /\ Verb(a) = "dg.comment"
    /\ Served(a) = "new"
    /\ Return(a, "ok")
    /\ UNCHANGED gateVars

(* Faulty: an answer that cannot be read is taken for a refusal. *)
UnreadableIsDefinite == "failed"

(* An answer that is not what it should be.  A result that is no object stops at
   decode_response already, of either verb; a receipt that lacks a member is an
   object, and stops at from_response.  Both say that a write may have landed. *)
Unreadable == "unknown"

Misread(a) ==
    /\ agent[a].calling
    /\ Served(a) \in {"new", "duplicate"}
    /\ Return(a, Unreadable)
    /\ UNCHANGED gateVars

(* Faulty: learn swallows whatever goes wrong with its note. *)
SwallowsAnything(a) == Request(a).method = "learn" /\ Verb(a) = "dg.comment"

(* learn leaves out a note this gate has no verb for; the other two kinds it
   swallows cannot follow an ingest the same transport has admitted. *)
Swallows(a) ==
    /\ Request(a).method = "learn"
    /\ Verb(a) = "dg.comment"
    /\ Served(a) = "unsupported"

Refused(a) ==
    /\ agent[a].calling
    /\ Served(a) \in {"refused", "unsupported"}
    /\ Return(a, IF Swallows(a) THEN "ok" ELSE "failed")
    /\ UNCHANGED gateVars

(* Nothing was sent: no connection, or refused on this side. *)
NotSent(a) ==
    /\ agent[a].calling
    /\ Served(a) = "waiting"
    /\ Return(a, "failed")
    /\ UNCHANGED gateVars

(* The write was sent and its reply never read. *)
GiveUp(a) ==
    /\ agent[a].calling
    /\ Return(a, "unknown")
    /\ Abandon(a)
    /\ UNCHANGED <<dispatchesComment, rows, notes>>

(* The agent's process ends between or during its calls and is started anew. *)
Crash(a) ==
    /\ agent[a].calling
    /\ Return(a, "none")
    /\ Abandon(a)
    /\ UNCHANGED <<dispatchesComment, rows, notes>>

Step(a) ==
    \/ remember(a) \/ learn(a) \/ annotate(a)
    \/ Serve(a) \/ Refuse(a)
    \/ Receipt(a) \/ Acknowledge(a) \/ Misread(a) \/ Refused(a)
    \/ NotSent(a) \/ GiveUp(a) \/ Crash(a)

Next == Arrive \/ Lose \/ \E a \in Agents : Step(a)

Spec == Init /\ [][Next]_vars

-----------------------------------------------------------------------------
(* Every client, row, note and request on its way has the shape the code gives
   it. *)
TypeOK ==
    /\ dispatchesComment \in BOOLEAN
    /\ rows \subseteq Requests
    /\ notes \subseteq Requests
    /\ late \subseteq Requests
    /\ agent \in [Agents -> Clients]

(* A row carries at most one "proposes: supersedes" note, however often, by
   however many agents, its content is learned again after failures, crashes
   and lost replies (learn posts none for a duplicate). *)
NoteOnce ==
    \A n, m \in notes :
        n.method = "learn" /\ m.method = "learn" /\ n.content = m.content => n = m

(* A proposal whose dg.ingest failed for certain made no row and never will, so
   that proposing again cannot be a second submission (Proposal.from_response
   calls an unreadable receipt an unknown outcome). *)
FailedProposalLeavesNothing ==
    \A a \in Agents :
        ~agent[a].calling /\ agent[a].outcome = "failed" /\ Verb(a) = "dg.ingest" =>
            \A request \in rows \cup late : request.attempt # Request(a).attempt

(* A comment that failed for certain is not on the record and will not be, so
   that it may be made again: what outcome_unknown promises of every write
   (docs/api/client.md:64), over lost replies and answers that cannot be read. *)
FailedCommentLeavesNothing ==
    \A a \in Agents :
        ~agent[a].calling /\ agent[a].outcome = "failed" /\ Verb(a) = "dg.comment" =>
            Request(a) \notin notes \cup late

(* A write that failed for certain left nothing and will not, whichever of the two
   calls of a method it was. *)
FailureLeavesNothing == FailedProposalLeavesNothing /\ FailedCommentLeavesNothing

(* A call of learn that made a new row and came back without an error left the
   note about the claim it replaces, unless the gate cannot take comments. *)
LearnedIsNoted ==
    \A a \in Agents :
        /\ ~agent[a].calling
        /\ agent[a].outcome = "ok"
        /\ Request(a).method = "learn"
        /\ Request(a).replaces # NoClaim
        /\ \E made \in rows : made.attempt = Request(a).attempt
        /\ dispatchesComment
        => Request(a) \in notes

(* What learn says of itself, over the calls of a caller that tries again: once
   it has returned, the row it made carries the note (knowledge.py:226).  The
   row may have been made by an earlier call of the same agent for the very same
   learning. *)
ReplacementIsNoted ==
    \A a \in Agents :
        /\ ~agent[a].calling
        /\ agent[a].outcome = "ok"
        /\ Request(a).method = "learn"
        /\ Request(a).replaces # NoClaim
        /\ dispatchesComment
        => \A made \in rows :
              /\ made.attempt.by = a
              /\ made = [Request(a) EXCEPT !.verb = "dg.ingest", !.attempt = made.attempt]
              => \E n \in notes : n = [made EXCEPT !.verb = "dg.comment"]

=============================================================================
