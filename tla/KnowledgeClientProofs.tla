------------------------ MODULE KnowledgeClientProofs ------------------------
(***************************************************************************)
(* Proofs about KnowledgeClient, for every set of agents, contents and     *)
(* claims, and any number of calls: a row carries at most one note of a    *)
(* learning, a proposal that failed for certain left nothing, and a        *)
(* learning that came back is noted.                                       *)
(***************************************************************************)
EXTENDS KnowledgeClient, TLAPS

-----------------------------------------------------------------------------
(* The inductive invariant, by concern. *)

(* The proposal a note belongs to: learn comments on what it ingested itself. *)
MadeBy(note) == [note EXCEPT !.verb = "dg.ingest"]

(* A gate that deduplicates holds one row for a content. *)
OneRowEach == \A m, n \in rows : m.content = n.content => m = n

RowsAreProposals == \A made \in rows : made.verb = "dg.ingest"

(* A comment of learn, recorded or still on its way, is about the row that the
   same call of learn made. *)
CommentsFollowRows ==
    \A n \in notes \cup late :
        n.method = "learn" /\ n.verb = "dg.comment" => MadeBy(n) \in rows

NotesAreComments == \A n \in notes : n.verb = "dg.comment"

(* Calls are numbered, so that no request stands for a call yet to come. *)
Numbered ==
    \A r \in rows \cup notes \cup late :
        r.attempt.number <= Request(r.attempt.by).attempt.number

(* What the state of a client tells of the gate. *)
Grounded(a) ==
    /\ Request(a).attempt.by = a
    /\ Request(a).method = "remember" => Verb(a) = "dg.ingest"
    /\ Verb(a) = "dg.ingest" /\ Served(a) = "new" => Request(a) \in rows
    /\ Verb(a) = "dg.comment" /\ Served(a) = "new" => Request(a) \in notes
    /\ Verb(a) = "dg.comment" /\ Request(a).method = "learn" => MadeBy(Request(a)) \in rows
    /\ Verb(a) = "dg.comment" => Served(a) # "duplicate"
    /\ Served(a) = "unsupported" => Verb(a) = "dg.comment" /\ ~dispatchesComment

(* An ingest that made no row, of a call not lost sight of, never will. *)
Silent(a) ==
    /\ Verb(a) = "dg.ingest"
    /\ Served(a) # "new"
    /\ agent[a].calling \/ agent[a].outcome \in {"ok", "failed"}
    => \A r \in rows \cup late : r.attempt # Request(a).attempt

(* A comment that the gate did not record, of a call not lost sight of, it never
   will; nor has it one of a call that has not come to its comment. *)
Unheard(a) ==
    /\ Verb(a) = "dg.ingest" \/ Served(a) # "new"
    /\ agent[a].calling \/ agent[a].outcome \in {"ok", "failed"}
    => \A n \in notes \cup late : n.verb = "dg.comment" => n.attempt # Request(a).attempt

(* What the outcome tells of how far the call went. *)
Ended(a) ==
    ~agent[a].calling =>
        /\ agent[a].outcome = "failed" => Served(a) # "new"
        /\ /\ agent[a].outcome = "ok"
           /\ Verb(a) = "dg.ingest"
           /\ Request(a).method = "learn"
           /\ Request(a).replaces # NoClaim
           => Served(a) = "duplicate"
        /\ agent[a].outcome = "ok" /\ Verb(a) = "dg.comment" =>
             Served(a) \in {"new", "unsupported"}

GateInv ==
    /\ OneRowEach
    /\ RowsAreProposals
    /\ CommentsFollowRows
    /\ NotesAreComments
    /\ Numbered

ClientInv(a) == Grounded(a) /\ Silent(a) /\ Unheard(a) /\ Ended(a)

IInv == TypeOK /\ GateInv /\ \A a \in Agents : ClientInv(a)

-----------------------------------------------------------------------------
(* What a step of one client does to the clients, whatever else it does. *)

(* A call that returns leaves its request where it is. *)
LEMMA Returns ==
    ASSUME TypeOK, NEW a \in Agents, NEW outcome \in {"none", "ok", "failed", "unknown"},
           Return(a, outcome)
    PROVE  /\ agent' \in [Agents -> Clients]
           /\ agent'[a].request = agent[a].request
           /\ agent'[a].served = agent[a].served
           /\ agent'[a].calling = FALSE
           /\ agent'[a].outcome = outcome
           /\ \A b \in Agents \ {a} : agent'[b] = agent[b]
<1>1. agent[a] \in Clients /\ agent \in [Agents -> Clients]
  BY DEF TypeOK
<1>2. agent' = [agent EXCEPT ![a] = [agent[a] EXCEPT !.calling = FALSE, !.outcome = outcome]]
  BY DEF Return
<1>3. [agent[a] EXCEPT !.calling = FALSE, !.outcome = outcome] \in Clients
  BY <1>1 DEF Clients
<1>4. agent'[a] = [agent[a] EXCEPT !.calling = FALSE, !.outcome = outcome]
  BY <1>1, <1>2
<1>5. /\ agent'[a].request = agent[a].request
      /\ agent'[a].served = agent[a].served
      /\ agent'[a].calling = FALSE
      /\ agent'[a].outcome = outcome
  BY <1>1, <1>4 DEF Clients
<1>6. agent' \in [Agents -> Clients] /\ \A b \in Agents \ {a} : agent'[b] = agent[b]
  BY <1>1, <1>2, <1>3
<1>7. QED
  BY <1>5, <1>6

(* The gate has a request and changes only how it was served. *)
LEMMA Serves ==
    ASSUME TypeOK, NEW a \in Agents,
           NEW how \in {"waiting", "new", "duplicate", "refused", "unsupported"},
           agent' = [agent EXCEPT ![a].served = how]
    PROVE  /\ agent' \in [Agents -> Clients]
           /\ agent'[a].request = agent[a].request
           /\ agent'[a].served = how
           /\ agent'[a].calling = agent[a].calling
           /\ agent'[a].outcome = agent[a].outcome
           /\ \A b \in Agents \ {a} : agent'[b] = agent[b]
<1>1. agent[a] \in Clients /\ agent \in [Agents -> Clients]
  BY DEF TypeOK
<1>2. agent' = [agent EXCEPT ![a] = [agent[a] EXCEPT !.served = how]]
  OBVIOUS
<1>3. [agent[a] EXCEPT !.served = how] \in Clients
  BY <1>1 DEF Clients
<1>4. agent'[a] = [agent[a] EXCEPT !.served = how]
  BY <1>1, <1>2
<1>5. /\ agent'[a].request = agent[a].request
      /\ agent'[a].served = how
      /\ agent'[a].calling = agent[a].calling
      /\ agent'[a].outcome = agent[a].outcome
  BY <1>1, <1>4 DEF Clients
<1>6. agent' \in [Agents -> Clients] /\ \A b \in Agents \ {a} : agent'[b] = agent[b]
  BY <1>1, <1>2, <1>3
<1>7. QED
  BY <1>5, <1>6

(* learn going on from its receipt to its note. *)
LEMMA GoesOn ==
    ASSUME TypeOK, NEW a \in Agents,
           agent' = [agent EXCEPT ![a].request.verb = "dg.comment", ![a].served = "waiting"]
    PROVE  /\ agent' \in [Agents -> Clients]
           /\ agent'[a].request = [agent[a].request EXCEPT !.verb = "dg.comment"]
           /\ agent'[a].served = "waiting"
           /\ agent'[a].calling = agent[a].calling
           /\ agent'[a].outcome = agent[a].outcome
           /\ \A b \in Agents \ {a} : agent'[b] = agent[b]
<1> DEFINE req == [agent[a].request EXCEPT !.verb = "dg.comment"]
           new == [agent[a] EXCEPT !.request = req, !.served = "waiting"]
<1>1. agent[a] \in Clients /\ agent \in [Agents -> Clients]
  BY DEF TypeOK
<1>2. agent' = [agent EXCEPT ![a] = new]
  BY <1>1 DEF Clients
<1>3. req \in Requests
  BY <1>1 DEF Clients, Requests
<1>4. new \in Clients
  BY <1>1, <1>3 DEF Clients
<1>5. agent'[a] = new
  BY <1>1, <1>2
<1>6. /\ new.request = req
      /\ new.served = "waiting"
      /\ new.calling = agent[a].calling
      /\ new.outcome = agent[a].outcome
  BY <1>1 DEF Clients
<1>7. agent' \in [Agents -> Clients] /\ \A b \in Agents \ {a} : agent'[b] = agent[b]
  BY <1>1, <1>2, <1>4
<1>8. QED
  BY <1>5, <1>6, <1>7

-----------------------------------------------------------------------------
(* A client that does nothing keeps its invariant while the gate learns more. *)
LEMMA Bystander ==
    ASSUME NEW b \in Agents, ClientInv(b), agent'[b] = agent[b],
           dispatchesComment' = dispatchesComment,
           rows \subseteq rows', notes \subseteq notes',
           \A r \in rows' \cup late' :
               r \in rows \cup late \/ r.attempt # Request(b).attempt,
           \A n \in notes' \cup late' :
               n \in notes \cup late \/ n.attempt # Request(b).attempt
    PROVE  ClientInv(b)'
<1>1. Request(b)' = Request(b) /\ Verb(b)' = Verb(b) /\ Served(b)' = Served(b)
  BY DEF Request, Verb, Served
<1>2. Grounded(b)'
  BY <1>1 DEF ClientInv, Grounded, MadeBy
<1>3. Silent(b)'
  BY <1>1 DEF ClientInv, Silent
<1>4. Unheard(b)'
  BY <1>1 DEF ClientInv, Unheard
<1>5. Ended(b)'
  BY <1>1 DEF ClientInv, Ended
<1>6. QED
  BY <1>2, <1>3, <1>4, <1>5 DEF ClientInv

-----------------------------------------------------------------------------
(* One lemma for each kind of step. *)

(* A call that is entered has a number no request has yet. *)
LEMMA EnterKeeps ==
    ASSUME IInv, NEW a \in Agents,
           NEW method \in {"remember", "learn", "annotate"},
           NEW verb \in {"dg.ingest", "dg.comment"},
           method = "remember" => verb = "dg.ingest",
           method = "learn" => verb = "dg.ingest",
           NEW c \in Contents, NEW r \in Claims \cup {NoClaim},
           Enter(a, method, verb, c, r)
    PROVE  IInv'
<1>1. /\ agent' \in [Agents -> Clients]
      /\ agent'[a].request =
           [method |-> method, verb |-> verb,
            attempt |-> [by |-> a, number |-> Request(a).attempt.number + 1],
            content |-> c, replaces |-> r]
      /\ agent'[a].served = "waiting"
      /\ agent'[a].calling = TRUE
      /\ agent'[a].outcome = "none"
      /\ \A b \in Agents \ {a} : agent'[b] = agent[b]
      /\ Request(a).attempt.number \in Nat
  <2> DEFINE req == [method |-> method, verb |-> verb,
                     attempt |-> [by |-> a, number |-> Request(a).attempt.number + 1],
                     content |-> c, replaces |-> r]
             new == [request |-> req, calling |-> TRUE, served |-> "waiting", outcome |-> "none"]
  <2>1. agent[a] \in Clients /\ agent \in [Agents -> Clients]
    BY DEF IInv, TypeOK
  <2>2. Request(a).attempt.number \in 0..MaxCalls
    BY <2>1 DEF Request, Clients, Requests, Attempts
  <2>3. Request(a).attempt.number + 1 \in 0..MaxCalls
    BY <2>2, ClientAssumption DEF Enter
  <2>4. req \in Requests
    BY <2>3 DEF Requests, Attempts
  <2>5. new \in Clients
    BY <2>4 DEF Clients
  <2>6. agent' = [agent EXCEPT ![a] = new]
    BY DEF Enter
  <2>7. agent'[a] = new
    BY <2>1, <2>6
  <2>8. agent' \in [Agents -> Clients] /\ \A b \in Agents \ {a} : agent'[b] = agent[b]
    BY <2>1, <2>5, <2>6
  <2>9. QED
    BY <2>2, <2>7, <2>8
<1>2. UNCHANGED <<dispatchesComment, rows, notes, late>>
  BY DEF Enter, gateVars
<1>3. TypeOK'
  BY <1>1, <1>2 DEF IInv, TypeOK
<1>4. \A q \in rows \cup notes \cup late : q.attempt.by \in Agents /\ q.attempt.number \in Nat
  BY DEF IInv, TypeOK, Requests, Attempts
<1>5. Request(a)'.attempt = [by |-> a, number |-> Request(a).attempt.number + 1]
  BY <1>1 DEF Request
<1>6. Numbered'
  <2> SUFFICES ASSUME NEW q \in rows \cup notes \cup late
               PROVE  q.attempt.number <= Request(q.attempt.by)'.attempt.number
    BY <1>2 DEF Numbered
  <2>1. q.attempt.number <= Request(q.attempt.by).attempt.number
    BY DEF IInv, GateInv, Numbered
  <2>2. CASE q.attempt.by = a
    BY <1>1, <1>4, <1>5, <2>1, <2>2
  <2>3. CASE q.attempt.by # a
    BY <1>1, <1>4, <2>1, <2>3 DEF Request
  <2>4. QED
    BY <2>2, <2>3
<1>7. GateInv'
  BY <1>2, <1>6 DEF IInv, GateInv, OneRowEach, RowsAreProposals, CommentsFollowRows, NotesAreComments, MadeBy
<1>8. ASSUME NEW q \in rows \cup notes \cup late PROVE q.attempt # Request(a)'.attempt
  <2>1. SUFFICES ASSUME q.attempt = Request(a)'.attempt PROVE FALSE
    OBVIOUS
  <2>2. q.attempt.by = a /\ q.attempt.number = Request(a).attempt.number + 1
    BY <1>5, <2>1
  <2>3. q.attempt.number <= Request(a).attempt.number
    BY <2>2 DEF IInv, GateInv, Numbered
  <2>4. QED
    BY <1>1, <1>4, <2>2, <2>3
<1>9. ClientInv(a)'
  <2>1. /\ Request(a)'.attempt.by = a
        /\ Request(a)'.method = method
        /\ Verb(a)' = verb
        /\ Served(a)' = "waiting"
        /\ agent'[a].calling
    BY <1>1 DEF Request, Verb, Served
  <2>2. Grounded(a)'
    BY <2>1 DEF Grounded
  <2>3. Silent(a)'
    BY <1>2, <1>8 DEF Silent
  <2>4. Unheard(a)'
    BY <1>2, <1>8 DEF Unheard
  <2>5. Ended(a)'
    BY <2>1 DEF Ended
  <2>6. QED
    BY <2>2, <2>3, <2>4, <2>5 DEF ClientInv
<1>10. ASSUME NEW b \in Agents \ {a} PROVE ClientInv(b)'
  <2>1. ClientInv(b)
    BY DEF IInv
  <2>2. QED
    BY <1>1, <1>2, <2>1, Bystander
<1>11. QED
  BY <1>3, <1>7, <1>9, <1>10 DEF IInv

(* Steps that leave the gate alone and end the call, or say how it was served. *)
LEMMA ClientOnly ==
    ASSUME IInv, NEW a \in Agents, UNCHANGED gateVars,
           agent' \in [Agents -> Clients],
           Request(a)' = Request(a),
           \A b \in Agents \ {a} : agent'[b] = agent[b],
           ClientInv(a)'
    PROVE  IInv'
<1>1. UNCHANGED <<dispatchesComment, rows, notes, late>>
  BY DEF gateVars
<1>2. TypeOK'
  BY <1>1 DEF IInv, TypeOK
<1>3. \A q \in rows \cup notes \cup late : q.attempt.by \in Agents
  BY DEF IInv, TypeOK, Requests, Attempts
<1>4. \A q \in rows \cup notes \cup late : Request(q.attempt.by)' = Request(q.attempt.by)
  BY <1>3 DEF Request
<1>5. GateInv'
  BY <1>1, <1>4 DEF IInv, GateInv, OneRowEach, RowsAreProposals, CommentsFollowRows,
     NotesAreComments, Numbered, MadeBy
<1>6. ASSUME NEW b \in Agents \ {a} PROVE ClientInv(b)'
  <2>1. ClientInv(b)
    BY DEF IInv
  <2>2. QED
    BY <1>1, <2>1, Bystander
<1>7. QED
  BY <1>2, <1>5, <1>6 DEF IInv

(* The gate refuses a request of a client. *)
LEMMA RefuseKeeps == ASSUME IInv, NEW a \in Agents, Refuse(a) PROVE IInv'
<1>1. PICK why \in {"refused", "unsupported"} :
        /\ why = "unsupported" => Verb(a) = "dg.comment" /\ ~dispatchesComment
        /\ agent' = [agent EXCEPT ![a].served = why]
  BY DEF Refuse
<1>2. /\ agent' \in [Agents -> Clients]
      /\ agent'[a].request = agent[a].request
      /\ agent'[a].served = why
      /\ agent'[a].calling = agent[a].calling
      /\ agent'[a].outcome = agent[a].outcome
      /\ \A b \in Agents \ {a} : agent'[b] = agent[b]
  BY <1>1, Serves DEF IInv
<1>3. UNCHANGED gateVars /\ UNCHANGED <<dispatchesComment, rows, notes, late>>
  BY DEF Refuse, gateVars
<1>4. Request(a)' = Request(a) /\ Verb(a)' = Verb(a) /\ Served(a)' = why
  BY <1>2 DEF Request, Verb, Served
<1>5. agent[a].calling /\ Served(a) = "waiting" /\ ClientInv(a)
  BY DEF Refuse, IInv
<1>6. Grounded(a)'
  BY <1>1, <1>3, <1>4, <1>5 DEF ClientInv, Grounded, MadeBy
<1>7. Silent(a)'
  BY <1>2, <1>3, <1>4, <1>5 DEF ClientInv, Silent
<1>8. Unheard(a)'
  BY <1>2, <1>3, <1>4, <1>5 DEF ClientInv, Unheard
<1>9. Ended(a)'
  BY <1>2, <1>5 DEF Ended
<1>10. QED
  BY <1>2, <1>3, <1>4, <1>6, <1>7, <1>8, <1>9, ClientOnly DEF ClientInv

(* A call that ends and has no request left on its way. *)
LEMMA ReturnKeeps ==
    ASSUME IInv, NEW a \in Agents, NEW outcome \in {"ok", "failed", "unknown"},
           agent[a].calling, Return(a, outcome), UNCHANGED gateVars,
           outcome = "failed" => Served(a) # "new",
           outcome = "ok" /\ Verb(a) = "dg.ingest" /\ Request(a).method = "learn"
               /\ Request(a).replaces # NoClaim => Served(a) = "duplicate",
           outcome = "ok" /\ Verb(a) = "dg.comment" => Served(a) \in {"new", "unsupported"}
    PROVE  IInv'
<1>1. /\ agent' \in [Agents -> Clients]
      /\ agent'[a].request = agent[a].request
      /\ agent'[a].served = agent[a].served
      /\ agent'[a].calling = FALSE
      /\ agent'[a].outcome = outcome
      /\ \A b \in Agents \ {a} : agent'[b] = agent[b]
  BY Returns DEF IInv
<1>2. UNCHANGED <<dispatchesComment, rows, notes, late>>
  BY DEF gateVars
<1>3. Request(a)' = Request(a) /\ Verb(a)' = Verb(a) /\ Served(a)' = Served(a)
  BY <1>1 DEF Request, Verb, Served
<1>4. ClientInv(a)
  BY DEF IInv
<1>5. Grounded(a)'
  BY <1>2, <1>3, <1>4 DEF ClientInv, Grounded, MadeBy
<1>6. Silent(a)'
  BY <1>2, <1>3, <1>4 DEF ClientInv, Silent
<1>7. Unheard(a)'
  BY <1>2, <1>3, <1>4 DEF ClientInv, Unheard
<1>8. Ended(a)'
  BY <1>1, <1>3 DEF Ended
<1>9. QED
  BY <1>1, <1>3, <1>5, <1>6, <1>7, <1>8, ClientOnly DEF ClientInv

(* A receipt, and what learn does next. *)
LEMMA ReceiptKeeps == ASSUME IInv, NEW a \in Agents, Receipt(a) PROVE IInv'
<1>1. /\ agent[a].calling /\ Verb(a) = "dg.ingest" /\ Served(a) \in {"new", "duplicate"}
      /\ UNCHANGED gateVars
  BY DEF Receipt
<1>2. CASE LeavesNote(a)
  <2>1. agent' = [agent EXCEPT ![a].request.verb = "dg.comment", ![a].served = "waiting"]
    BY <1>2 DEF Receipt
  <2>2. /\ agent' \in [Agents -> Clients]
        /\ agent'[a].request = [agent[a].request EXCEPT !.verb = "dg.comment"]
        /\ agent'[a].served = "waiting"
        /\ agent'[a].calling = agent[a].calling
        /\ \A b \in Agents \ {a} : agent'[b] = agent[b]
    BY <2>1, GoesOn DEF IInv
  <2>3. Request(a) \in Requests
    BY DEF IInv, TypeOK, Clients, Request
  <2>4. /\ Request(a)'.attempt = Request(a).attempt
        /\ Request(a)'.method = Request(a).method
        /\ Verb(a)' = "dg.comment"
        /\ Served(a)' = "waiting"
        /\ MadeBy(Request(a))' = Request(a)
    <3>1. Request(a)' = [Request(a) EXCEPT !.verb = "dg.comment"]
      BY <2>2 DEF Request
    <3>2. [[Request(a) EXCEPT !.verb = "dg.comment"] EXCEPT !.verb = "dg.ingest"] = Request(a)
      BY <1>1, <2>3 DEF Requests, Verb
    <3>3. MadeBy(Request(a))' = Request(a)
      BY <3>1, <3>2 DEF MadeBy
    <3>4. /\ Request(a)'.attempt = Request(a).attempt
          /\ Request(a)'.method = Request(a).method
          /\ Request(a)'.verb = "dg.comment"
      BY <2>3, <3>1 DEF Requests
    <3>5. QED
      BY <2>2, <3>3, <3>4 DEF Verb, Served
  <2>5. Served(a) = "new" /\ Request(a).method = "learn" /\ Request(a) \in rows /\ ClientInv(a)
    BY <1>1, <1>2 DEF LeavesNote, IInv, ClientInv, Grounded
  <2>6. UNCHANGED <<dispatchesComment, rows, notes, late>>
    BY <1>1 DEF gateVars
  <2>7. TypeOK'
    BY <2>2, <2>6 DEF IInv, TypeOK
  <2>8. GateInv'
    <3>1. \A q \in rows \cup notes \cup late : q.attempt.by \in Agents
      BY DEF IInv, TypeOK, Requests, Attempts
    <3>2. \A q \in rows \cup notes \cup late :
              Request(q.attempt.by)'.attempt = Request(q.attempt.by).attempt
      <4> SUFFICES ASSUME NEW q \in rows \cup notes \cup late
                   PROVE  Request(q.attempt.by)'.attempt = Request(q.attempt.by).attempt
        OBVIOUS
      <4>1. CASE q.attempt.by = a
        BY <2>4, <4>1
      <4>2. CASE q.attempt.by # a
        BY <2>2, <3>1, <4>2 DEF Request
      <4>3. QED
        BY <4>1, <4>2
    <3>3. Numbered'
      BY <2>6, <3>2 DEF IInv, GateInv, Numbered
    <3>4. QED
      BY <2>6, <3>3 DEF IInv, GateInv, OneRowEach, RowsAreProposals, CommentsFollowRows,
         NotesAreComments, MadeBy
  <2>9. ClientInv(a)'
    <3>1. Grounded(a)'
      <4>1. MadeBy(Request(a)') \in rows'
        BY <2>4, <2>5, <2>6 DEF MadeBy
      <4>2. QED
        BY <2>4, <2>5, <4>1 DEF ClientInv, Grounded, MadeBy
    <3>2. Silent(a)'
      BY <2>4 DEF Silent
    <3>3. Unheard(a)'
      BY <1>1, <2>4, <2>5, <2>6 DEF ClientInv, Unheard
    <3>4. Ended(a)'
      BY <1>1, <2>2 DEF Ended
    <3>5. QED
      BY <3>1, <3>2, <3>3, <3>4 DEF ClientInv
  <2>10. ASSUME NEW b \in Agents \ {a} PROVE ClientInv(b)'
    <3>1. ClientInv(b)
      BY DEF IInv
    <3>2. QED
      BY <2>2, <2>6, <3>1, Bystander
  <2>11. QED
    BY <2>7, <2>8, <2>9, <2>10 DEF IInv
<1>3. CASE ~LeavesNote(a)
  <2>1. Return(a, "ok")
    BY <1>3 DEF Receipt
  <2>2. Request(a).method = "learn" /\ Request(a).replaces # NoClaim => Served(a) = "duplicate"
    BY <1>3 DEF LeavesNote
  <2>3. QED
    BY <1>1, <2>1, <2>2, ReturnKeeps
<1>4. QED
  BY <1>2, <1>3

(* A call that ends while its request may still be on its way. *)
LEMMA AbandonKeeps ==
    ASSUME IInv, NEW a \in Agents, NEW outcome \in {"none", "unknown"},
           Return(a, outcome), Abandon(a), UNCHANGED <<dispatchesComment, rows, notes>>
    PROVE  IInv'
<1>1. /\ agent' \in [Agents -> Clients]
      /\ agent'[a].request = agent[a].request
      /\ agent'[a].served = agent[a].served
      /\ agent'[a].calling = FALSE
      /\ agent'[a].outcome = outcome
      /\ \A b \in Agents \ {a} : agent'[b] = agent[b]
  BY Returns DEF IInv
<1>2. Request(a)' = Request(a) /\ Verb(a)' = Verb(a) /\ Served(a)' = Served(a)
  BY <1>1 DEF Request, Verb, Served
<1>3. Request(a) \in Requests /\ ClientInv(a) /\ Request(a).attempt.by = a
  BY DEF IInv, TypeOK, Clients, Request, ClientInv, Grounded
<1>4. late \subseteq late' /\ late' \subseteq late \cup {Request(a)}
  BY DEF Abandon
<1>5. TypeOK'
  BY <1>1, <1>3, <1>4 DEF IInv, TypeOK
<1>6. \A q \in rows \cup notes \cup late' : q.attempt.by \in Agents
  BY <1>3, <1>4 DEF IInv, TypeOK, Requests, Attempts
<1>7. \A q \in rows \cup notes \cup late' : Request(q.attempt.by)' = Request(q.attempt.by)
  BY <1>1, <1>2, <1>6 DEF Request
<1>8. Request(a).attempt.number \in Nat
  BY <1>3 DEF Requests, Attempts
<1>9. \A q \in rows \cup notes \cup late' : q.attempt.number <= Request(q.attempt.by).attempt.number
  <2> SUFFICES ASSUME NEW q \in rows \cup notes \cup late'
               PROVE  q.attempt.number <= Request(q.attempt.by).attempt.number
    OBVIOUS
  <2>1. CASE q \in rows \cup notes \cup late
    BY <2>1 DEF IInv, GateInv, Numbered
  <2>2. CASE q = Request(a)
    BY <1>3, <1>8, <2>2
  <2>3. QED
    BY <1>4, <2>1, <2>2
<1>10. Numbered'
  BY <1>7, <1>9 DEF Numbered
<1>11. CommentsFollowRows'
  <2> SUFFICES ASSUME NEW n \in notes' \cup late',
                      n.method = "learn", n.verb = "dg.comment"
               PROVE  MadeBy(n) \in rows
    BY DEF CommentsFollowRows, MadeBy
  <2>1. CASE n \in notes \cup late
    BY <2>1 DEF IInv, GateInv, CommentsFollowRows
  <2>2. CASE n = Request(a)
    BY <1>3, <2>2 DEF ClientInv, Grounded, Verb
  <2>3. QED
    BY <1>4, <2>1, <2>2
<1>12. GateInv'
  BY <1>10, <1>11 DEF IInv, GateInv, OneRowEach, RowsAreProposals, NotesAreComments
<1>13. ClientInv(a)'
  <2>1. Grounded(a)'
    BY <1>2, <1>3 DEF ClientInv, Grounded, MadeBy
  <2>2. Silent(a)' /\ Unheard(a)'
    BY <1>1 DEF Silent, Unheard
  <2>3. Ended(a)'
    BY <1>1 DEF Ended
  <2>4. QED
    BY <2>1, <2>2, <2>3 DEF ClientInv
<1>14. ASSUME NEW b \in Agents \ {a} PROVE ClientInv(b)'
  <2>1. ClientInv(b) /\ Request(b).attempt.by = b
    BY DEF IInv, ClientInv, Grounded
  <2>2. \A q \in rows' \cup late' : q \in rows \cup late \/ q.attempt # Request(b).attempt
    BY <1>3, <1>4, <2>1
  <2>3. \A n \in notes' \cup late' : n \in notes \cup late \/ n.attempt # Request(b).attempt
    BY <1>3, <1>4, <2>1
  <2>4. QED
    BY <1>1, <2>1, <2>2, <2>3, Bystander
<1>15. QED
  BY <1>5, <1>12, <1>13, <1>14 DEF IInv

(* What the gate does with a request that is a client's own or an abandoned one:
   it invents no attempt, and keeps what it had. *)
LEMMA GateLearns ==
    ASSUME IInv, NEW q \in Requests, Ingest(q) \/ Comment(q),
           q.method = "learn" /\ q.verb = "dg.comment" => MadeBy(q) \in rows
    PROVE  /\ dispatchesComment' = dispatchesComment
           /\ rows \subseteq rows' /\ rows' \subseteq rows \cup {q} /\ rows' \subseteq Requests
           /\ notes \subseteq notes' /\ notes' \subseteq notes \cup {q} /\ notes' \subseteq Requests
           /\ OneRowEach' /\ RowsAreProposals' /\ NotesAreComments'
           /\ \A n \in notes' :
                  n.method = "learn" /\ n.verb = "dg.comment" => MadeBy(n) \in rows'
           /\ q.verb = "dg.comment" => q \in notes' /\ rows' = rows /\ dispatchesComment
           /\ q.verb = "dg.ingest" /\ ~Held(q.content) => q \in rows'
           /\ q.verb = "dg.ingest" => notes' = notes
           /\ q.verb = "dg.ingest" /\ Held(q.content) => rows' = rows
<1>1. /\ OneRowEach /\ RowsAreProposals /\ NotesAreComments /\ CommentsFollowRows
      /\ rows \subseteq Requests /\ notes \subseteq Requests
  BY DEF IInv, GateInv, TypeOK
<1>2. CASE Ingest(q)
  <2>1. /\ q.verb = "dg.ingest"
        /\ dispatchesComment' = dispatchesComment /\ notes' = notes
        /\ rows' = IF Held(q.content) THEN rows ELSE rows \cup {q}
    BY <1>2 DEF Ingest
  <2>2. OneRowEach'
    BY <1>1, <2>1 DEF OneRowEach, Held
  <2>3. RowsAreProposals' /\ NotesAreComments'
    BY <1>1, <2>1 DEF RowsAreProposals, NotesAreComments
  <2>4. \A n \in notes' :
            n.method = "learn" /\ n.verb = "dg.comment" => MadeBy(n) \in rows'
    BY <1>1, <2>1 DEF CommentsFollowRows
  <2>5. QED
    BY <1>1, <2>1, <2>2, <2>3, <2>4
<1>3. CASE Comment(q)
  <2>1. /\ q.verb = "dg.comment"
        /\ dispatchesComment' = dispatchesComment /\ rows' = rows /\ dispatchesComment
        /\ notes' = notes \cup {q}
    BY <1>3 DEF Comment
  <2>2. OneRowEach' /\ RowsAreProposals' /\ NotesAreComments'
    BY <1>1, <2>1 DEF OneRowEach, RowsAreProposals, NotesAreComments
  <2>3. \A n \in notes' :
            n.method = "learn" /\ n.verb = "dg.comment" => MadeBy(n) \in rows'
    BY <1>1, <2>1 DEF CommentsFollowRows
  <2>4. QED
    BY <1>1, <2>1, <2>2, <2>3
<1>4. QED
  BY <1>2, <1>3

(* The gate takes a request of a client. *)
LEMMA ServeKeeps == ASSUME IInv, NEW a \in Agents, Serve(a) PROVE IInv'
<1> DEFINE how == IF Verb(a) = "dg.ingest" /\ Held(Request(a).content) THEN "duplicate" ELSE "new"
<1>1. /\ agent[a].calling /\ Served(a) = "waiting" /\ late' = late
      /\ Ingest(Request(a)) \/ Comment(Request(a))
      /\ agent' = [agent EXCEPT ![a].served = how]
  BY DEF Serve
<1>2. /\ agent' \in [Agents -> Clients]
      /\ agent'[a].request = agent[a].request
      /\ agent'[a].served = how
      /\ agent'[a].calling = agent[a].calling
      /\ \A b \in Agents \ {a} : agent'[b] = agent[b]
  <2>1. TypeOK
    BY DEF IInv
  <2>2. how \in {"waiting", "new", "duplicate", "refused", "unsupported"}
    OBVIOUS
  <2> HIDE DEF how
  <2>3. QED
    BY <1>1, <2>1, <2>2, Serves
<1>3. Request(a)' = Request(a) /\ Verb(a)' = Verb(a) /\ Served(a)' = how
  BY <1>2 DEF Request, Verb, Served
<1>4. /\ ClientInv(a) /\ Request(a) \in Requests /\ Request(a).attempt.by = a
      /\ Request(a).method = "learn" /\ Verb(a) = "dg.comment" => MadeBy(Request(a)) \in rows
  BY DEF IInv, TypeOK, Clients, Request, ClientInv, Grounded
<1>5. /\ dispatchesComment' = dispatchesComment
      /\ rows \subseteq rows' /\ rows' \subseteq rows \cup {Request(a)} /\ rows' \subseteq Requests
      /\ notes \subseteq notes' /\ notes' \subseteq notes \cup {Request(a)} /\ notes' \subseteq Requests
      /\ OneRowEach' /\ RowsAreProposals' /\ NotesAreComments'
      /\ \A n \in notes' :
             n.method = "learn" /\ n.verb = "dg.comment" => MadeBy(n) \in rows'
      /\ Verb(a) = "dg.comment" => Request(a) \in notes' /\ rows' = rows /\ dispatchesComment
      /\ Verb(a) = "dg.ingest" => notes' = notes
      /\ Verb(a) = "dg.ingest" /\ ~Held(Request(a).content) => Request(a) \in rows'
      /\ Verb(a) = "dg.ingest" /\ Held(Request(a).content) => rows' = rows
  BY <1>1, <1>4, GateLearns DEF Verb
<1>6. TypeOK'
  BY <1>1, <1>2, <1>5 DEF IInv, TypeOK
<1>7. CommentsFollowRows'
  <2> SUFFICES ASSUME NEW n \in notes' \cup late', n.method = "learn", n.verb = "dg.comment"
               PROVE  MadeBy(n) \in rows'
    BY DEF CommentsFollowRows, MadeBy
  <2>1. CASE n \in notes'
    BY <1>5, <2>1
  <2>2. CASE n \in late
    BY <1>5, <2>2 DEF IInv, GateInv, CommentsFollowRows
  <2>3. QED
    BY <1>1, <2>1, <2>2
<1>8. Numbered'
  <2>1. \A q \in rows' \cup notes' \cup late' : q.attempt.by \in Agents
    BY <1>1, <1>5 DEF IInv, TypeOK, Requests, Attempts
  <2>2. \A q \in rows' \cup notes' \cup late' : Request(q.attempt.by)' = Request(q.attempt.by)
    BY <1>2, <1>3, <2>1 DEF Request
  <2>3. Request(a).attempt.number \in Nat
    BY <1>4 DEF Requests, Attempts
  <2>4. \A q \in rows' \cup notes' \cup late' : q.attempt.number <= Request(q.attempt.by).attempt.number
    <3> SUFFICES ASSUME NEW q \in rows' \cup notes' \cup late'
                 PROVE  q.attempt.number <= Request(q.attempt.by).attempt.number
      OBVIOUS
    <3>1. CASE q \in rows \cup notes \cup late
      BY <3>1 DEF IInv, GateInv, Numbered
    <3>2. CASE q = Request(a)
      BY <1>4, <2>3, <3>2
    <3>3. QED
      BY <1>1, <1>5, <3>1, <3>2
  <2>5. QED
    BY <2>2, <2>4 DEF Numbered
<1>9. ClientInv(a)'
  <2>1. Verb(a) \in {"dg.ingest", "dg.comment"}
    BY <1>4 DEF Requests, Verb
  <2>2. Grounded(a)'
    <3>1. Verb(a) = "dg.comment" /\ Request(a).method = "learn" => MadeBy(Request(a)') \in rows'
      BY <1>3, <1>4, <1>5 DEF MadeBy
    <3>2. QED
      BY <1>3, <1>4, <1>5, <2>1, <3>1 DEF ClientInv, Grounded, MadeBy
  <2>3. Silent(a)'
    BY <1>1, <1>3, <1>4, <1>5 DEF ClientInv, Silent
  <2>4. Unheard(a)'
    BY <1>1, <1>3, <1>4, <1>5, <2>1 DEF ClientInv, Unheard
  <2>5. Ended(a)'
    BY <1>1, <1>2 DEF Ended
  <2>6. QED
    BY <2>2, <2>3, <2>4, <2>5 DEF ClientInv
<1>10. ASSUME NEW b \in Agents \ {a} PROVE ClientInv(b)'
  <2>1. ClientInv(b) /\ Request(b).attempt.by = b
    BY DEF IInv, ClientInv, Grounded
  <2>2. \A q \in rows' \cup late' : q \in rows \cup late \/ q.attempt # Request(b).attempt
    BY <1>1, <1>4, <1>5, <2>1
  <2>3. \A n \in notes' \cup late' : n \in notes \cup late \/ n.attempt # Request(b).attempt
    BY <1>1, <1>4, <1>5, <2>1
  <2>4. QED
    BY <1>2, <1>5, <2>1, <2>2, <2>3, Bystander
<1>11. QED
  BY <1>5, <1>6, <1>7, <1>8, <1>9, <1>10 DEF IInv, GateInv

(* An abandoned request arrives, or gets lost. *)
LEMMA ArriveKeeps == ASSUME IInv, Arrive \/ Lose PROVE IInv'
<1>1. PICK q \in late :
        /\ late' = late \ {q} /\ agent' = agent
        /\ \/ Ingest(q) \/ Comment(q)
           \/ UNCHANGED <<dispatchesComment, rows, notes>>
  BY DEF Arrive, Lose
<1>2. /\ q \in Requests
      /\ q.method = "learn" /\ q.verb = "dg.comment" => MadeBy(q) \in rows
      /\ GateInv /\ TypeOK
  BY DEF IInv, TypeOK, GateInv, CommentsFollowRows
<1>3. /\ dispatchesComment' = dispatchesComment
      /\ rows \subseteq rows' /\ rows' \subseteq rows \cup {q} /\ rows' \subseteq Requests
      /\ notes \subseteq notes' /\ notes' \subseteq notes \cup {q} /\ notes' \subseteq Requests
      /\ OneRowEach' /\ RowsAreProposals' /\ NotesAreComments'
      /\ \A n \in notes' :
             n.method = "learn" /\ n.verb = "dg.comment" => MadeBy(n) \in rows'
  <2>1. CASE Ingest(q) \/ Comment(q)
    BY <1>2, <2>1, GateLearns
  <2>2. CASE UNCHANGED <<dispatchesComment, rows, notes>>
    BY <1>2, <2>2 DEF GateInv, TypeOK, OneRowEach, RowsAreProposals, NotesAreComments,
       CommentsFollowRows
  <2>3. QED
    BY <1>1, <2>1, <2>2
<1>4. TypeOK'
  BY <1>1, <1>2, <1>3 DEF TypeOK
<1>5. /\ rows' \cup late' \subseteq rows \cup late
      /\ notes' \cup late' \subseteq notes \cup late
  BY <1>1, <1>3
<1>6. \A b : Request(b)' = Request(b)
  BY <1>1 DEF Request
<1>7. Numbered'
  BY <1>2, <1>5, <1>6 DEF GateInv, Numbered
<1>8. CommentsFollowRows'
  <2> SUFFICES ASSUME NEW n \in notes' \cup late', n.method = "learn", n.verb = "dg.comment"
               PROVE  MadeBy(n) \in rows'
    BY DEF CommentsFollowRows, MadeBy
  <2>1. CASE n \in notes'
    BY <1>3, <2>1
  <2>2. CASE n \in late
    BY <1>2, <1>3, <2>2 DEF GateInv, CommentsFollowRows
  <2>3. QED
    BY <1>1, <2>1, <2>2
<1>9. ASSUME NEW b \in Agents PROVE ClientInv(b)'
  <2>1. ClientInv(b) /\ agent'[b] = agent[b]
    BY <1>1 DEF IInv
  <2>2. QED
    BY <1>3, <1>5, <2>1, Bystander
<1>10. QED
  BY <1>3, <1>4, <1>7, <1>8, <1>9 DEF IInv, GateInv

-----------------------------------------------------------------------------
(* Every step keeps the invariant, action by action. *)
LEMMA StepIInv == IInv /\ [Next]_vars => IInv'
<1> SUFFICES ASSUME IInv, [Next]_vars PROVE IInv'
  OBVIOUS
<1>1. CASE Arrive \/ Lose
  BY <1>1, ArriveKeeps
<1>2. ASSUME NEW a \in Agents, Step(a) PROVE IInv'
  <2>1. CASE remember(a)
    BY <2>1, EnterKeeps DEF remember
  <2>2. CASE learn(a)
    BY <2>2, EnterKeeps DEF learn
  <2>3. CASE annotate(a)
    BY <2>3, EnterKeeps DEF annotate
  <2>4. CASE Serve(a)
    BY <2>4, ServeKeeps
  <2>5. CASE Refuse(a)
    BY <2>5, RefuseKeeps
  <2>6. CASE Receipt(a)
    BY <2>6, ReceiptKeeps
  <2>7. CASE Acknowledge(a)
    BY <2>7, ReturnKeeps DEF Acknowledge
  <2>8. CASE Misread(a)
    BY <2>8, ReturnKeeps DEF Misread, Unreadable
  <2>9. CASE Refused(a)
    <3>1. CASE Swallows(a)
      BY <2>9, <3>1, ReturnKeeps DEF Refused, Swallows
    <3>2. CASE ~Swallows(a)
      BY <2>9, <3>2, ReturnKeeps DEF Refused
    <3>3. QED
      BY <3>1, <3>2
  <2>10. CASE NotSent(a)
    BY <2>10, ReturnKeeps DEF NotSent
  <2>11. CASE GiveUp(a)
    BY <2>11, AbandonKeeps DEF GiveUp
  <2>12. CASE Crash(a)
    BY <2>12, AbandonKeeps DEF Crash
  <2>13. QED
    BY <1>2, <2>1, <2>2, <2>3, <2>4, <2>5, <2>6, <2>7, <2>8, <2>9, <2>10, <2>11, <2>12 DEF Step
<1>3. CASE UNCHANGED vars
  BY <1>3 DEF vars, IInv, TypeOK, GateInv, OneRowEach, RowsAreProposals, CommentsFollowRows,
     NotesAreComments, Numbered, ClientInv, Grounded, Silent, Unheard, Ended, MadeBy, Request, Verb, Served
<1>4. QED
  BY <1>1, <1>2, <1>3 DEF Next

(* The invariant holds before any call. *)
LEMMA InitIInv == Init => IInv
<1> SUFFICES ASSUME Init PROVE IInv
  OBVIOUS
<1>1. PICK c \in Contents :
        agent = [a \in Agents |->
            [request |-> [method |-> "remember", verb |-> "dg.ingest",
                          attempt |-> [by |-> a, number |-> 0],
                          content |-> c, replaces |-> NoClaim],
             calling |-> FALSE, served |-> "waiting", outcome |-> "none"]]
  BY DEF Init
<1>2. dispatchesComment \in BOOLEAN /\ rows = {} /\ notes = {} /\ late = {}
  BY DEF Init
<1>3. 0 \in 0..MaxCalls
  BY ClientAssumption
<1>4. TypeOK
  BY <1>1, <1>2, <1>3 DEF TypeOK, Clients, Requests, Attempts
<1>5. GateInv
  BY <1>2 DEF GateInv, OneRowEach, RowsAreProposals, CommentsFollowRows, NotesAreComments, Numbered
<1>6. ASSUME NEW a \in Agents PROVE ClientInv(a)
  BY <1>1, <1>2 DEF ClientInv, Grounded, Silent, Unheard, Ended, Request, Verb, Served
<1>7. QED
  BY <1>4, <1>5, <1>6 DEF IInv

(* The invariant holds throughout. *)
LEMMA Invariant == Spec => []IInv
<1>1. QED
  BY InitIInv, StepIInv, PTL DEF Spec

-----------------------------------------------------------------------------
(* Every reachable state of the clients and of the gate is well typed
   (knowledge.py 196-249, 286-295). *)
THEOREM TypeCorrect == Spec => []TypeOK
<1>1. IInv => TypeOK
  BY DEF IInv
<1>2. QED
  BY <1>1, Invariant, PTL

(* However often and by however many agents a content is learned, its row gets
   one note at most (learn asks whether its row is a duplicate). *)
THEOREM OneNote == Spec => []NoteOnce
<1>1. ASSUME IInv PROVE NoteOnce
  <2> SUFFICES ASSUME NEW n \in notes, NEW m \in notes,
                      n.method = "learn", m.method = "learn", n.content = m.content
               PROVE  n = m
    BY DEF NoteOnce
  <2>1. /\ n \in Requests /\ m \in Requests
        /\ n.verb = "dg.comment" /\ m.verb = "dg.comment"
        /\ MadeBy(n) \in rows /\ MadeBy(m) \in rows
    BY <1>1 DEF IInv, TypeOK, GateInv, NotesAreComments, CommentsFollowRows
  <2>2. MadeBy(n).content = n.content /\ MadeBy(m).content = m.content
    BY <2>1 DEF Requests, MadeBy
  <2>3. MadeBy(n) = MadeBy(m)
    BY <1>1, <2>1, <2>2 DEF IInv, GateInv, OneRowEach
  <2>4. /\ [MadeBy(n) EXCEPT !.verb = "dg.comment"] = n
        /\ [MadeBy(m) EXCEPT !.verb = "dg.comment"] = m
    BY <2>1 DEF Requests, MadeBy
  <2>5. QED
    BY <2>3, <2>4
<1>2. QED
  BY <1>1, Invariant, PTL

(* A definite failure of dg.ingest is final: no row of that call exists, and no
   request of it is on its way (Proposal.from_response, knowledge.py 59-62). *)
THEOREM FailedProposals == Spec => []FailedProposalLeavesNothing
<1>1. IInv => FailedProposalLeavesNothing
  BY DEF IInv, ClientInv, Silent, Ended, FailedProposalLeavesNothing
<1>2. QED
  BY <1>1, Invariant, PTL

(* So is one of dg.comment: nothing of it is on the record or on its way
   (decode_response, transport.py 94-106). *)
THEOREM FailedComments == Spec => []FailedCommentLeavesNothing
<1>1. ASSUME IInv PROVE FailedCommentLeavesNothing
  <2> SUFFICES ASSUME NEW a \in Agents,
                      ~agent[a].calling, agent[a].outcome = "failed", Verb(a) = "dg.comment",
                      Request(a) \in notes \cup late
               PROVE  FALSE
    BY DEF FailedCommentLeavesNothing
  <2>1. Unheard(a) /\ Ended(a)
    BY <1>1 DEF IInv, ClientInv
  <2>2. Request(a).verb = "dg.comment"
    BY DEF Verb
  <2>3. QED
    BY <2>1, <2>2 DEF Unheard, Ended
<1>2. QED
  BY <1>1, Invariant, PTL

(* So a failure without outcome_unknown is final in both calls of a method: what it
   was asked for is not there and does not come (GateError, errors.py 56-70). *)
THEOREM Failures == Spec => []FailureLeavesNothing
  BY FailedProposals, FailedComments, PTL DEF FailureLeavesNothing

(* A learning that came back without an error, and made its row, is noted
   (knowledge.py 242-247). *)
THEOREM Learned == Spec => []LearnedIsNoted
<1>1. ASSUME IInv PROVE LearnedIsNoted
  <2> SUFFICES ASSUME NEW a \in Agents,
                      ~agent[a].calling, agent[a].outcome = "ok",
                      Request(a).method = "learn", Request(a).replaces # NoClaim,
                      NEW made \in rows, made.attempt = Request(a).attempt,
                      dispatchesComment
               PROVE  Request(a) \in notes
    BY DEF LearnedIsNoted
  <2>1. Verb(a) \in {"dg.ingest", "dg.comment"} /\ ClientInv(a)
    BY <1>1 DEF IInv, TypeOK, Clients, Requests, Verb, Request
  <2>2. Verb(a) # "dg.ingest"
    BY <2>1 DEF ClientInv, Silent, Ended
  <2>3. QED
    BY <2>1, <2>2 DEF ClientInv, Grounded, Ended
<1>2. QED
  BY <1>1, Invariant, PTL

=============================================================================
