---------------------------- MODULE MemoryHandle ----------------------------
(***************************************************************************)
(* `remember` of examples/starters/memory.py: reserve the handle file,     *)
(* propose, print the id, save it.  Several runs share one file, each may  *)
(* be told to replace it, may fail anywhere and may be killed anywhere.    *)
(*                                                                         *)
(* The id of a run is the run itself; Old is an id from an earlier session.*)
(* The client's answers are taken at the word of GateCall: a definite      *)
(* failure is not followed by a submission.  A GateClient says of a        *)
(* receipt without an id or a state that the outcome is unknown; another   *)
(* client a caller hands over may return it.                               *)
(***************************************************************************)
CONSTANTS Runs, Old, Absent, Empty, Garbled

ASSUME HandleAssumption ==
    /\ {Old, Absent, Empty, Garbled} \cap Runs = {}
    /\ Old \notin {Absent, Empty, Garbled}
    /\ Absent \notin {Empty, Garbled} /\ Empty # Garbled

VARIABLES
    file,    \* what the state file holds: an id, or one of the four
    run,     \* the processes
    before   \* history: what the file held before the first of them

handleVars == <<file, run, before>>

(* Status 1: raised before the call, raised by a print after it, or by one after
   the id was saved. *)
Usage == {"refused", "traceback", "untold"}
Exits == Usage \cup {"OK", "GATE_FAILURE", "OUTCOME_UNKNOWN", "HANDLE_NOT_SAVED", "killed"}
Places == {"idle", "reserve", "open", "client", "call", "look", "unlink", "print", "save", "write"}
Running == Places \ {"idle"}

(* linked: the file opened for the id is still the one under the path.
   sent and landed are what happened at the gate, met the runs that ran at the
   same time; the code reads none of the three. *)
Processes ==
    [at : Places \cup Exits, replace : BOOLEAN, created : BOOLEAN, linked : BOOLEAN,
     answer : {"none", "accepted", "failed", "unknown", "malformed"}, printed : BOOLEAN,
     landed : BOOLEAN, met : SUBSET Runs]

HandleInit ==
    /\ file \in {Absent, Old}
    /\ before = file
    /\ run \in [Runs -> [at : {"idle"}, replace : BOOLEAN, created : {FALSE}, linked : {FALSE},
                         answer : {"none"}, printed : {FALSE}, landed : {FALSE}, met : {{}}]]

Become(r, place) == run' = [run EXCEPT ![r].at = place]

(* Whatever a run ends with it prints first, and a print may raise. *)
EndsWith(r, status) == Become(r, status) \/ Become(r, "traceback")

Start(r) ==
    LET others == {q \in Runs : run[q].at \in Running}
    IN  /\ run[r].at = "idle"
        /\ run' = [q \in Runs |->
            IF q = r THEN [run[r] EXCEPT !.at = "reserve", !.met = others]
            ELSE IF q \in others THEN [run[q] EXCEPT !.met = @ \cup {r}] ELSE run[q]]
        /\ UNCHANGED file

-----------------------------------------------------------------------------
(* _reserve: is_file and access when the file may be replaced, else open 'x' *)

(* Faulty: the old handle is emptied as soon as it may be replaced. *)
ReservedEmpty == Empty

Reserved == IF file = Absent THEN Empty ELSE file

LooksFirst(r) ==
    /\ run[r].at = "reserve"
    /\ IF run[r].replace /\ file # Absent
       THEN /\ Become(r, "client") \/ Become(r, "refused")
            /\ file' = IF run'[r].at = "client" THEN Reserved ELSE file
       ELSE Become(r, "open") /\ UNCHANGED file

OpensNew(r) ==
    /\ run[r].at = "open"
    /\ \/ /\ file = Absent
          /\ run' = [run EXCEPT ![r].at = "client", ![r].created = TRUE]
          /\ file' = Reserved
       \/ /\ file # Absent
          /\ Become(r, IF run[r].replace THEN "client" ELSE "refused")
          /\ UNCHANGED file
       \/ Become(r, "refused") /\ UNCHANGED file

_reserve(r) == LooksFirst(r) \/ OpensNew(r)

-----------------------------------------------------------------------------
(* No endpoint, one that is refused, or a text that is no observation: raised
   past the handler, so that the reservation is not released. *)
MakesClient(r) ==
    /\ run[r].at = "client"
    /\ Become(r, "call") \/ Become(r, "refused")
    /\ UNCHANGED file

(* "malformed" is an answer that omits the id or the state. *)
propose(r) ==
    /\ run[r].at = "call"
    /\ \E answer \in {"accepted", "failed", "unknown", "malformed"}, landed \in BOOLEAN :
        /\ answer = "accepted" => landed
        /\ answer = "failed" => ~landed
        /\ run' = [run EXCEPT ![r].at = IF answer = "accepted" THEN "print" ELSE "look",
                              ![r].answer = answer, ![r].landed = landed]
    /\ UNCHANGED file

(* Faulty: every failure of the client is one of the gate. *)
_report_failure(answer) == "GATE_FAILURE"

_report(answer) == IF answer = "unknown" THEN "OUTCOME_UNKNOWN" ELSE "GATE_FAILURE"

(* _release: the size is looked at before the file is removed. *)
LooksAgain(r) ==
    /\ run[r].at = "look"
    /\ IF run[r].created /\ file = Empty THEN Become(r, "unlink") ELSE EndsWith(r, _report(run[r].answer))
    /\ UNCHANGED file

Unlinks(r) ==
    /\ run[r].at = "unlink"
    /\ \/ EndsWith(r, _report(run[r].answer)) /\ UNCHANGED file
       \/ /\ \E status \in {_report(run[r].answer), "traceback"} :
              run' = [q \in Runs |->
                  IF q = r THEN [run[r] EXCEPT !.at = status] ELSE [run[q] EXCEPT !.linked = FALSE]]
          /\ file' = Absent

_release(r) == LooksAgain(r) \/ Unlinks(r)

-----------------------------------------------------------------------------
Prints(r) ==
    /\ run[r].at = "print"
    /\ \/ run' = [run EXCEPT ![r].at = "save", ![r].printed = TRUE]
       \/ \E told \in BOOLEAN : run' = [run EXCEPT ![r].at = "traceback", ![r].printed = told]
    /\ UNCHANGED file

(* _save: write_text truncates, then writes. *)
Truncates(r) ==
    /\ run[r].at = "save"
    /\ \/ /\ run' = [run EXCEPT ![r].at = "write", ![r].linked = TRUE]
          /\ file' = Empty
       \/ EndsWith(r, "HANDLE_NOT_SAVED") /\ UNCHANGED file

(* What a whole record written over the file from its start leaves there: the
   tail of a longer one may stay behind it. *)
Written(r) == IF file = Empty THEN {r} ELSE {r, Garbled}

Writes(r) ==
    /\ run[r].at = "write"
    /\ \/ /\ Become(r, "OK") \/ Become(r, "untold")
          /\ IF run[r].linked THEN file' \in Written(r) ELSE UNCHANGED file
       \/ /\ EndsWith(r, "HANDLE_NOT_SAVED")
          /\ IF run[r].linked THEN file' \in {file, Garbled} ELSE UNCHANGED file

_save(r) == Truncates(r) \/ Writes(r)

Killed(r) ==
    /\ run[r].at \in Running
    /\ Become(r, "killed")
    /\ IF run[r].at = "write" /\ run[r].linked
       THEN file' \in {file, Garbled} \cup Written(r)
       ELSE UNCHANGED file

remember(r) == Start(r) \/ _reserve(r) \/ MakesClient(r) \/ propose(r) \/ _release(r) \/ Prints(r) \/ _save(r)

HandleNext == (\E r \in Runs : remember(r) \/ Killed(r)) /\ UNCHANGED before

HandleSpec == HandleInit /\ [][HandleNext]_handleVars

(* _load of a `check`: what is no record with an id is refused. *)
_load == IF file \in Runs \cup {Old} THEN file ELSE Absent

-----------------------------------------------------------------------------
HandleTypeOK ==
    /\ file \in Runs \cup {Old, Absent, Empty, Garbled}
    /\ before \in {Old, Absent}
    /\ run \in [Runs -> Processes]

(* The status a run ends with is true of the gate: after a local refusal nothing
   was submitted; GATE_FAILURE hides a submission only behind an answer without an
   id or a state, which a GateClient does not return; with OK and HANDLE_NOT_SAVED
   the submission was accepted and its id was printed; and any other submission
   that reached the gate shows as one of these or as OUTCOME_UNKNOWN, unless the
   run was killed or a print raised. *)
ExitIsTrue ==
    \A r \in Runs :
        /\ run[r].at = "refused" => ~run[r].landed
        /\ run[r].at = "GATE_FAILURE" /\ run[r].landed => run[r].answer = "malformed"
        /\ run[r].at \in {"OK", "untold", "HANDLE_NOT_SAVED"} => run[r].landed /\ run[r].printed
        /\ run[r].landed /\ run[r].at \in Exits =>
            \/ run[r].printed \/ run[r].answer = "malformed"
            \/ run[r].at \in {"OUTCOME_UNKNOWN", "killed", "traceback"}

(* A run may have cost the file what it held: it was told to replace it, and its
   own proposal was accepted first. *)
Replaces(r) == run[r].replace /\ run[r].answer = "accepted" /\ run[r].printed

Saved(id) == IF id = Old THEN before = Old ELSE run[id].at \in {"OK", "untold"}

(* The reference to an earlier submission outlives every proposal that fails, is
   refused or is killed before it has an id: a handle that was saved is gone only
   when a later run was told to replace it and has an id of its own, or when
   runs overlapped of which one was told to.  And a check never asks for an id
   that no run has printed. *)
HandleIsKept ==
    /\ \A id \in Runs \cup {Old} :
        Saved(id) /\ file # id =>
            \E q \in Runs : Replaces(q) /\ (q # id \/ run[q].met # {})
    /\ \A r \in Runs : _load = r => run[r].printed

=============================================================================
