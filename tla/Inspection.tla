----------------------------- MODULE Inspection -----------------------------
(***************************************************************************)
(* The reads of client.GateClient and the programs of examples/ that are   *)
(* made of them: a snapshot of one artifact, an inspection before a        *)
(* correction, a probe of an endpoint, single look-ups.  The artifact      *)
(* moves between two calls, and any call may fail.                         *)
(*                                                                         *)
(* The state of an artifact is the number of ledger events that moved it.  *)
(***************************************************************************)
EXTENDS Naturals, Sequences

CONSTANTS
    MaxLedger,  \* bound: events of the artifact
    HitLimit    \* what a caller asks for at most

ASSUME InspectionAssumption == {MaxLedger, HitLimit} \subseteq Nat

VARIABLES
    ledger,  \* the artifact at the gate
    program, \* the program that runs, and whether it goes on after a failure
    log,     \* its calls so far
    outcome  \* what it says at its end

inspectionVars == <<ledger, program, log, outcome>>

NotReached == {"unavailable", "timeout", "redirect_refused"}
Refused == {"unauthorized", "unsupported_operation"}

(* The maintained client's reads: whether an answer is one. *)
CallAnswers == [object : BOOLEAN, named : BOOLEAN, hits : 0..(HitLimit + 1)]

status(answer) == answer.object /\ answer.named
why(answer) == answer.object /\ answer.named

recall(answer) == answer.object /\ answer.named /\ answer.hits <= HitLimit
pending(answer) == answer.object /\ answer.named /\ answer.hits <= HitLimit

Usable(call, answer) ==
    CASE call = "status" -> status(answer)
      [] call = "why" -> why(answer)
      [] call = "recall" -> recall(answer)
      [] call = "pending" -> pending(answer)
      [] OTHER -> answer.object

-----------------------------------------------------------------------------
(* The programs: their calls in order.  The first three report each failure and
   make the next call, the others end with the failure. *)

(* Faulty: the history is read before the position it should explain. *)
snapshot_backwards == {<<"why", "status">>}

read_only_snapshot == {<<"status", "why">>}
inspect_artifact == {<<"status", "why">>}
probe == {<<"discover", "tools">> \o more : more \in {<<>>, <<"recall">>, <<"status">>, <<"recall", "status">>}}

check_memory == {<<"status">>}
recall_memory == {<<"recall">>}
why_provenance == {<<"why">>}
pending_documents == {<<"pending">>}
server_catalog == {<<"discover", "tools">>}

Collecting == read_only_snapshot \cup inspect_artifact \cup probe
Single == check_memory \cup recall_memory \cup why_provenance \cup pending_documents \cup server_catalog

InspectionInit ==
    /\ ledger = 0
    /\ program \in [calls : Collecting, goes_on : {TRUE}] \cup [calls : Single, goes_on : {FALSE}]
    /\ log = <<>>
    /\ outcome = [at |-> "running"]

LedgerMoves ==
    /\ ledger < MaxLedger
    /\ outcome.at = "running"
    /\ ledger' = ledger + 1
    /\ UNCHANGED <<program, log, outcome>>

Failed(entry) == entry.kind # "ok"

CallsOver ==
    \/ Len(log) = Len(program.calls)
    \/ ~program.goes_on /\ \E i \in DOMAIN log : Failed(log[i])

(* What of an answer a property is about. *)
Seen(name) == IF name \in {"status", "why"} THEN ledger ELSE 0
Hits(name, answer) == IF name \in {"recall", "pending"} THEN answer.hits ELSE 0

(* One call: the gate answers what the artifact is at that moment, or the
   client raises a kind of its own. *)
call ==
    /\ outcome.at = "running" /\ ~CallsOver
    /\ LET name == program.calls[Len(log) + 1] IN
        \/ \E answer \in CallAnswers :
            log' = Append(log, IF Usable(name, answer)
                               THEN [kind |-> "ok", seen |-> Seen(name), hits |-> Hits(name, answer)]
                               ELSE [kind |-> "invalid_response", seen |-> 0, hits |-> 0])
        \/ \E kind \in NotReached \cup Refused :
            log' = Append(log, [kind |-> kind, seen |-> 0, hits |-> 0])
    /\ UNCHANGED <<ledger, program, outcome>>

endpoint_reached(entry) == entry.kind \notin NotReached

Finished ==
    LET failures == {i \in DOMAIN log : Failed(log[i])}
    IN  [at |-> "done", complete |-> failures = {},
         endpoint_reached |-> \A i \in failures : endpoint_reached(log[i])]

Report ==
    /\ outcome.at = "running" /\ CallsOver
    /\ outcome' = Finished
    /\ UNCHANGED <<ledger, program, log>>

InspectionNext == LedgerMoves \/ call \/ Report

InspectionSpec == InspectionInit /\ [][InspectionNext]_inspectionVars

-----------------------------------------------------------------------------
InspectionTypeOK ==
    /\ ledger \in 0..MaxLedger
    /\ Len(log) <= Len(program.calls)
    /\ \A i \in DOMAIN log :
        log[i] \in [kind : NotReached \cup Refused \cup {"ok", "invalid_response"},
                    seen : 0..MaxLedger, hits : 0..(HitLimit + 1)]

Answered(name) == {i \in DOMAIN log : program.calls[i] = name /\ ~Failed(log[i])}

(* What a program of several reads says of them is true together: the history
   it shows explains the position it shows, though the artifact may have moved
   between the two reads; a result is called complete only when every call of the
   program was made and answered; no answer holds more than was asked for; and an
   endpoint is called reached only if no call was left without an answer. *)
SnapshotIsHonest ==
    /\ \A i \in Answered("status"), j \in Answered("why") : log[i].seen <= log[j].seen
    /\ \A i \in Answered("recall") \cup Answered("pending") : log[i].hits <= HitLimit
    /\ outcome.at = "done" =>
        /\ program.goes_on => Len(log) = Len(program.calls)
        /\ outcome.complete =>
            \A i \in DOMAIN program.calls : i \in Answered(program.calls[i])
        /\ outcome.endpoint_reached => \A i \in DOMAIN log : log[i].kind \notin NotReached

=============================================================================
