---------------------------- MODULE Verification ----------------------------
(***************************************************************************)
(* scripts/check.py: the run that verifies a checkout.  It hashes the      *)
(* source file by file, runs the tests and builds the documentation in     *)
(* subprocesses, hashes the source again and writes a report, while the    *)
(* checkout may be edited and any of it may fail.  An edit gives a file    *)
(* content it never had.  With --preflight the run ends before the first   *)
(* hash; --test-worker is what it calls itself with to run the tests.      *)
(***************************************************************************)
EXTENDS Naturals

CONSTANTS
    Tree,      \* the files of the checkout, by directory
    Source,    \* those the run is about: not the licence, the lock file or the CI's
    Examples,  \* of these, the ones under examples/, which the tests execute
    Unread,    \* no hash of a file is known
    MaxEdits   \* bound: edits of one file

ASSUME VerificationAssumption ==
    /\ MaxEdits \in Nat
    /\ Unread \notin 0..MaxEdits
    /\ Source \subseteq Tree
    /\ Examples \subseteq Source

VARIABLES
    content, \* of each file
    check,   \* the process
    report,  \* result.json
    edited   \* history: the files edited since the first of the steps began

verificationVars == <<content, check, report, edited>>

Steps == {"tests", "docs"}
Hashes == [Tree -> 0..MaxEdits \cup {Unread}]
NoHashes == [f \in Tree |-> Unread]

(* Faulty: what the suite imports is hashed, not the programs it runs. *)
HashedWithoutExamples == Source \ Examples

(* The five files at the root that are there, and all under the five directories. *)
Hashed == Source

VerificationInit ==
    /\ content = [f \in Tree |-> 0]
    /\ \E mode \in {"whole", "preflight"} :
        check = [mode |-> mode, at |-> "preflight", before |-> NoHashes, after |-> NoHashes,
                 phase |-> "none", ran |-> [s \in Steps |-> "none"], coverage |-> "none",
                 unchanged |-> "none", exit |-> "none"]
    /\ report = "none"
    /\ edited = {}

Edit(f) ==
    /\ check.exit = "none" /\ content[f] < MaxEdits
    /\ content' = [content EXCEPT ![f] = @ + 1]
    /\ edited' = IF check.at \in {"tests", "docs"} THEN edited \cup {f} ELSE edited
    /\ UNCHANGED <<check, report>>

(* The interpreter and the checkout are looked at; that is all a run with the
   flag does.  The others need a report to begin with, which may be unwritable. *)
preflight ==
    /\ check.at = "preflight"
    /\ \/ /\ \E code \in {"1", "2"} \cup (IF check.mode = "preflight" THEN {"0"} ELSE {}) :
              check' = [check EXCEPT !.at = "done", !.exit = code]
          /\ UNCHANGED report
       \/ /\ check.mode = "whole"
          /\ check' = [check EXCEPT !.at = "snapshot"]
          /\ report' = "running"
    /\ UNCHANGED <<content, edited>>

(* The handler of the exceptions main() names: the source is hashed once more if
   it was hashed at all.  after is emptied for it. *)
Handled(c) ==
    [c EXCEPT !.phase = c.at, !.after = NoHashes,
              !.at = IF c.at = "snapshot" THEN "failed" ELSE "recheck"]

(* Anything else: finally writes what the report was, and the process ends with
   the exception. *)
Escaped(c) == [c EXCEPT !.at = "escaped"]

AllRead(hashes) == \A f \in Hashed : hashes[f] # Unread

(* The process with one more file hashed. *)
snapshot(slot) == {[check EXCEPT ![slot][f] = content[f]] : f \in {g \in Hashed : check[slot][g] = Unread}}

Same(c) == \A f \in Hashed : c.before[f] = c.after[f]

FirstSnapshot ==
    /\ check.at = "snapshot"
    /\ \E c \in snapshot("before") :
        check' = IF AllRead(c.before) THEN [c EXCEPT !.at = "tests"] ELSE c
    /\ UNCHANGED <<content, report, edited>>

Stability ==
    /\ check.at = "source_stability"
    /\ \E c \in snapshot("after") :
        check' = IF ~AllRead(c.after) THEN c
                 ELSE IF Same(c) THEN [c EXCEPT !.at = "passed"] ELSE Handled(c)
    /\ UNCHANGED <<content, report, edited>>

Recheck ==
    /\ check.at = "recheck"
    /\ \E c \in snapshot("after") :
        check' = IF ~AllRead(c.after) THEN c
                 ELSE [c EXCEPT !.at = "failed", !.unchanged = IF Same(c) THEN "yes" ELSE "no"]
    /\ UNCHANGED <<content, report, edited>>

(* A file that is missing or unreadable. *)
HashFails ==
    /\ check' = IF check.at = "recheck" THEN [check EXCEPT !.at = "failed"] ELSE Handled(check)
    /\ check.at \in {"snapshot", "source_stability", "recheck"}
    /\ UNCHANGED <<content, report, edited>>

-----------------------------------------------------------------------------
(* subprocess.run and what becomes of it; tests.xml may be missing, damaged,
   incomplete or complete whatever the exit code is. *)
Ran(s, code) == [check EXCEPT !.ran[s] = code]

coverage(c, xml) == [c EXCEPT !.coverage = IF xml \in {"incomplete", "complete"} THEN xml ELSE "none"]

Returned(s, code, xml) ==
    LET c == coverage(Ran(s, code), xml)
    IN  IF s = "tests" /\ xml = "damaged" THEN Handled(c)
        ELSE IF code # "0" THEN Handled(c)
        ELSE IF s = "docs" THEN [Ran(s, code) EXCEPT !.at = "source_stability"]
        ELSE IF xml = "complete" THEN [c EXCEPT !.at = "docs"] ELSE Handled(c)

(* It cannot be started or its log not be written; its output cannot be decoded;
   it times out, and the log of that may be unwritable too. *)
RunStep(s) ==
    /\ check.at = s
    /\ \/ \E code \in {"0", "1"}, xml \in {"missing", "damaged", "incomplete", "complete"} :
            check' = Returned(s, code, xml)
       \/ check' \in {Handled(check), Escaped(check), Handled(Ran(s, "124"))}
    /\ UNCHANGED <<content, report, edited>>

(* finally: the report is written, or not. *)
WriteReport ==
    /\ check.at \in {"passed", "failed", "escaped"}
    /\ \E written \in BOOLEAN :
        /\ report' = IF ~written \/ check.at = "escaped" THEN report ELSE check.at
        /\ check' = [check EXCEPT !.at = "done", !.exit = IF written /\ check.at = "passed" THEN "0" ELSE "1"]
    /\ UNCHANGED <<content, edited>>

main ==
    \/ preflight \/ FirstSnapshot \/ Stability \/ Recheck \/ HashFails \/ WriteReport
    \/ \E s \in Steps : RunStep(s)

VerificationNext == main \/ \E f \in Tree : Edit(f)

VerificationSpec == VerificationInit /\ [][VerificationNext]_verificationVars

-----------------------------------------------------------------------------
VerificationTypeOK ==
    /\ content \in [Tree -> 0..MaxEdits]
    /\ check \in [mode : {"whole", "preflight"}, at : Steps \cup {"preflight", "snapshot", "source_stability", "recheck", "passed",
                                   "failed", "escaped", "done"},
                  before : Hashes, after : Hashes, phase : Steps \cup {"none", "snapshot", "source_stability"},
                  ran : [Steps -> {"none", "0", "1", "124"}], coverage : {"none", "incomplete", "complete"},
                  unchanged : {"none", "yes", "no"}, exit : {"none", "0", "1", "2"}]
    /\ report \in {"none", "running", "passed", "failed"}
    /\ edited \subseteq Tree

(* A report that says "passed", and exit code 0 unless only the preflight was
   asked for, mean that the tests and the documentation build ran to the end,
   that there were tests and all of them passed, and that no file the run is about
   was edited while they ran; a failed report that calls the source unchanged is
   true of that time as well.  The hashes are not read at one moment, and edits
   may fall between any two. *)
PassedIsEarned ==
    /\ report = "passed" <=> check.exit = "0" /\ check.mode = "whole"
    /\ report = "passed" =>
        /\ check.ran = [s \in Steps |-> "0"] /\ check.coverage = "complete"
        /\ edited \cap Source = {}
    /\ check.unchanged = "yes" => edited \cap Source = {}

=============================================================================
