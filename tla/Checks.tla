------------------------------- MODULE Checks -------------------------------
(***************************************************************************)
(* A check run: check_paths of examples/starters/checks.py (its twin is    *)
(* check_many_files of the recipes) calls authoring.evaluate_file for each *)
(* path, which reads the manifest and then the content with                *)
(* package.read_bounded and matches the required texts.                    *)
(*                                                                         *)
(* Files are replaced at any time, and written to while they are open: so  *)
(* an open finds any file there is, and what it found may grow until it is *)
(* read.  A body is a sequence of tokens; a manifest is one token long,    *)
(* and so is the limit of its file.                                        *)
(***************************************************************************)
EXTENDS Naturals, Sequences

CONSTANTS
    Manifests,   \* the manifests that are valid
    LimitOf,     \* max_input_bytes ...
    RequiredOf,  \* ... and the required texts of each
    NoManifest,  \* none is loaded
    Texts,       \* tokens of a content file
    Undecodable, \* the one of them that is no UTF-8
    MaxBody,     \* bound: tokens of a file
    MaxFiles     \* bound: paths of a run

ASSUME ChecksAssumption ==
    /\ {MaxBody, MaxFiles} \subseteq Nat \ {0}
    /\ LimitOf \in [Manifests -> 1..MaxBody]
    /\ RequiredOf \in [Manifests -> SUBSET Texts]
    /\ Undecodable \in Texts /\ NoManifest \notin Manifests

VARIABLES
    reading,     \* one evaluate_file, and the read_bounded it is in
    descriptors, \* those that are open
    results,     \* one entry for each path that is done
    exit

checksVars == <<reading, descriptors, results, exit>>

BodiesOf(tokens) == UNION {[1..n -> tokens] : n \in 0..MaxBody}
Nothing == <<>>
Limit == IF reading.what = "manifest" THEN 1 ELSE LimitOf[reading.manifest]

(* opened is the file under the descriptor, data what was read of it. *)
ChecksInit ==
    /\ reading = [at |-> "open", what |-> "manifest", manifest |-> NoManifest,
                  opened |-> Nothing, data |-> Nothing]
    /\ descriptors = {}
    /\ results = <<>>
    /\ exit = "none"

Is(place) == exit = "none" /\ Len(results) < MaxFiles /\ reading.at = place

(* The next path: its manifest is loaded again.  right is history: whether the
   status is what the file as it was read deserves. *)
Enter(status, right) ==
    /\ results' = Append(results, [status |-> status, right |-> right])
    /\ reading' = [at |-> "open", what |-> "manifest", manifest |-> NoManifest,
                   opened |-> Nothing, data |-> Nothing]
    /\ UNCHANGED exit

Unevaluated == Enter("unevaluated", TRUE)

-----------------------------------------------------------------------------
(* read_bounded *)

(* Directory by directory, each opened under its parent, then the file. *)
Opens ==
    /\ Is("open")
    /\ descriptors' = descriptors \cup {"parent", "fd"}
    /\ \E body \in BodiesOf(IF reading.what = "manifest" THEN Manifests ELSE Texts) :
        reading' = [reading EXCEPT !.at = "stat", !.opened = body]
    /\ UNCHANGED <<results, exit>>

(* An unsafe path, a link, a missing or unreadable part of the path, or not a
   regular file: what was opened until then is closed. *)
OpenFails == (Is("open") \/ Is("stat")) /\ descriptors' = {} /\ Unevaluated

Stats ==
    /\ Is("stat")
    /\ IF Len(reading.opened) > Limit
       THEN descriptors' = {} /\ Unevaluated
       ELSE /\ reading' = [reading EXCEPT !.at = "read"]
            /\ descriptors' = {"parent", "stream"}
            /\ UNCHANGED <<results, exit>>

Grows ==
    /\ Is("stat") \/ Is("read")
    /\ Len(reading.opened) < MaxBody
    /\ \E token \in IF reading.what = "manifest" THEN Manifests ELSE Texts :
        reading' = [reading EXCEPT !.opened = Append(@, token)]
    /\ UNCHANGED <<descriptors, results, exit>>

(* Faulty: as much is read as the size allowed for. *)
WindowAsStated(limit) == limit

ReadWindow(limit) == limit + 1

Cut(body, length) == SubSeq(body, 1, IF Len(body) < length THEN Len(body) ELSE length)

Reads ==
    /\ Is("read")
    /\ descriptors' = {}
    /\ LET data == Cut(reading.opened, ReadWindow(Limit))
       IN  IF Len(data) > Limit THEN Unevaluated
           ELSE /\ reading' = [reading EXCEPT !.at = "take", !.data = data]
                /\ UNCHANGED <<results, exit>>

ReadFails == Is("read") /\ descriptors' = {} /\ Unevaluated

read_bounded == Opens \/ OpenFails \/ Stats \/ Reads \/ ReadFails

-----------------------------------------------------------------------------
(* load_package, and evaluate on a decoded content *)

load_package ==
    /\ Is("take") /\ reading.what = "manifest"
    /\ UNCHANGED descriptors
    /\ IF reading.data = Nothing THEN Unevaluated
       ELSE /\ reading' = [reading EXCEPT !.at = "open", !.what = "content",
                                          !.manifest = reading.data[1]]
            /\ UNCHANGED <<results, exit>>

TokensOf(body) == {body[i] : i \in DOMAIN body}

evaluate(manifest, body) ==
    IF Undecodable \in TokensOf(body) \/ Len(body) > LimitOf[manifest] THEN "unevaluated"
    ELSE IF RequiredOf[manifest] \subseteq TokensOf(body) THEN "clean" ELSE "flagged"

(* An artifact type the manifest does not name is refused like a bad content. *)
evaluate_file ==
    /\ Is("take") /\ reading.what = "content"
    /\ UNCHANGED descriptors
    /\ LET status == evaluate(reading.manifest, reading.data)
       IN  Unevaluated \/ Enter(status, status = evaluate(reading.manifest, reading.opened))

Counted(status) == {i \in DOMAIN results : results[i].status = status}

exit_status ==
    IF Counted("unevaluated") # {} THEN "UNEVALUATED"
    ELSE IF Counted("flagged") # {} THEN "FLAGGED" ELSE "OK"

Ends ==
    /\ exit = "none" /\ Len(results) = MaxFiles
    /\ exit' = exit_status
    /\ UNCHANGED <<reading, descriptors, results>>

check_paths == read_bounded \/ load_package \/ evaluate_file \/ Ends

ChecksNext == check_paths \/ Grows

ChecksSpec == ChecksInit /\ [][ChecksNext]_checksVars

-----------------------------------------------------------------------------
ChecksTypeOK ==
    /\ reading \in [at : {"open", "stat", "read", "take"}, what : {"manifest", "content"},
                    manifest : Manifests \cup {NoManifest},
                    opened : BodiesOf(Texts) \cup BodiesOf(Manifests),
                    data : BodiesOf(Texts) \cup BodiesOf(Manifests)]
    /\ descriptors \subseteq {"parent", "fd", "stream"}
    /\ \A i \in DOMAIN results :
        results[i] \in [status : {"clean", "flagged", "unevaluated"}, right : BOOLEAN]
    /\ exit \in {"none", "OK", "FLAGGED", "UNEVALUATED"}

(* Whatever grows or is swapped during the run: an outcome is that of a whole
   file, as long as it was when it was read and no longer than the manifest
   allows, so that no text is missed or found in a file that was cut; a manifest
   that was cut is never applied; what is read stays within its window; every
   descriptor is closed before the next file is opened; and OK is the status
   only of a run in which every file was clean. *)
EvidenceIsOfWhole ==
    /\ \A i \in DOMAIN results : results[i].right
    /\ reading.what = "content" => reading.manifest # NoManifest
    /\ reading.at = "take" => reading.data = reading.opened
    /\ reading.at \in {"open", "take"} => descriptors = {}
    /\ exit = "OK" => Counted("clean") = DOMAIN results

=============================================================================
