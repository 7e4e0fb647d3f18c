----------------------------- MODULE SkillBundle -----------------------------
(***************************************************************************)
(* skill_bundle.inspect_zip: an archive from anywhere is read in memory    *)
(* within limits.  What the entries say of themselves is checked first,    *)
(* for all of them, and then what comes out of each is read, which need    *)
(* not be what it said.                                                    *)
(*                                                                         *)
(* A name is the sequence of its components.  The checks of one entry that *)
(* look at neither another entry nor a limit on bytes (the letters of its  *)
(* path, its type, flags, compression and ratio) are one Boolean, plain.   *)
(***************************************************************************)
EXTENDS Naturals, Sequences, SequencesExt, FiniteSets

CONSTANTS
    Names,       \* the names an entry may have ...
    KeyOf,       \* ... and what _path makes of them, case folded
    Sizes,       \* of entries, as declared and as they turn out
    MaxArchive,  \* bound: the entries of an archive
    MaxEntries, MaxMember, MaxTotal   \* BundleLimits

ASSUME BundleAssumption ==
    /\ \A name \in Names : name # <<>>
    /\ DOMAIN KeyOf = Names
    /\ Sizes \subseteq Nat
    /\ {MaxArchive, MaxEntries, MaxMember, MaxTotal} \subseteq Nat

VARIABLES
    count,    \* how many entries the archive has
    entries,  \* those that passed, in order
    at,       \* what inspect_zip does, or how it ended
    members,  \* how many of them have been read
    held      \* the bytes that have come out of them

bundleVars == <<count, entries, at, members, held>>

Entries == [name : Names, directory : BOOLEAN, plain : BOOLEAN, file_size : Sizes]

Key(i) == KeyOf[entries[i].name]
Declared(i) == entries[i].file_size
SizeOf(some) == FoldLeft(LAMBDA sum, e : sum + e.file_size, 0, some)
SumOf(n) == SizeOf(SubSeq(entries, 1, n))
Files == {i \in DOMAIN entries : ~entries[i].directory}

BundleTypeOK ==
    /\ count \in 0..MaxArchive
    /\ entries \in Seq(Entries)
    /\ at \in {"checking", "reading", "inspected", "BundleError"}
    /\ members \in 0..Len(entries)
    /\ held \in Nat

BundleInit ==
    /\ count \in 0..MaxArchive
    /\ entries = <<>>
    /\ at = "checking"
    /\ members = 0
    /\ held = 0

Refuse ==
    /\ at' = "BundleError"
    /\ UNCHANGED <<count, entries, members, held>>

(* Faulty: only the size of the entry is compared, not their sum. *)
FitsAlone(size) == size <= MaxMember

Fits(size) == size <= MaxMember /\ SumOf(Len(entries)) + size <= MaxTotal

(* Faulty: names are compared as they are spelled. *)
TakenAsSpelled(name) == \E i \in DOMAIN entries : entries[i].name = name

Taken(name) == \E i \in DOMAIN entries : Key(i) = KeyOf[name]

Passes(entry) ==
    /\ entry.plain
    /\ ~Taken(entry.name)
    /\ entry.directory => entry.file_size = 0
    /\ Fits(entry.file_size)

(* The next entry of the archive, whatever it is. *)
CheckEntry ==
    /\ at = "checking"
    /\ count <= MaxEntries
    /\ Len(entries) < count
    /\ \E entry \in Entries :
        \/ /\ Passes(entry)
           /\ entries' = Append(entries, entry)
           /\ UNCHANGED <<count, at, members, held>>
        \/ ~Passes(entry) /\ Refuse

ParentCollision ==
    \E i \in Files, j \in DOMAIN entries : i # j /\ IsPrefix(Key(i), Key(j))

(* The checks before the first entry and after the last, where the ratio of the
   whole archive to its expansion is one Boolean too. *)
CheckAll ==
    /\ at = "checking"
    /\ \/ count > MaxEntries /\ Refuse
       \/ /\ count <= MaxEntries
          /\ Len(entries) = count
          /\ \E ratio_kept \in BOOLEAN :
                IF ParentCollision \/ ~ratio_kept
                THEN Refuse
                ELSE at' = "reading" /\ UNCHANGED <<count, entries, members, held>>

(* Faulty: as much is read as comes. *)
WindowUnbounded(size, holds) == holds

(* What read() returns of what an entry holds: a byte more than was declared
   gives it away. *)
Window(size, holds) == IF holds > size + 1 THEN size + 1 ELSE holds

ReadMember ==
    /\ at = "reading"
    /\ members < Len(entries)
    /\ \E holds \in Sizes :
        LET size == Declared(members + 1)
        IN  /\ held' = held + Window(size, holds)
            /\ IF holds = size /\ held + size <= MaxTotal
               THEN members' = members + 1 /\ UNCHANGED at
               ELSE at' = "BundleError" /\ UNCHANGED members
    /\ UNCHANGED <<count, entries>>

(* The archive is too long or no archive at all, or a member of it cannot be
   decompressed or has a wrong checksum. *)
Damaged ==
    /\ \/ at = "checking" /\ entries = <<>>
       \/ at = "reading" /\ members < Len(entries)
    /\ Refuse

IsSkill(i) == Last(entries[i].name) = "SKILL.md"

(* One SKILL.md, and everything under the directory it is in. *)
OneRoot ==
    \E i \in Files :
        /\ IsSkill(i)
        /\ \A j \in Files : IsSkill(j) => j = i
        /\ \A j \in Files : IsPrefix(Front(entries[i].name), entries[j].name)

Inspected ==
    /\ at = "reading"
    /\ members = Len(entries)
    /\ IF OneRoot
       THEN at' = "inspected" /\ UNCHANGED <<count, entries, members, held>>
       ELSE Refuse

BundleNext == CheckEntry \/ CheckAll \/ ReadMember \/ Damaged \/ Inspected

BundleSpec == BundleInit /\ [][BundleNext]_bundleVars

-----------------------------------------------------------------------------
(* Whatever an archive says of itself, what comes out of it never exceeds the
   limit by more than the one byte that gives it away; and if it is handed out,
   its files could be laid down on any file system: no two have the same folded
   name, none is the directory of another (inspect_zip and its two passes). *)
ExpansionIsBounded ==
    /\ held <= MaxTotal + 1
    /\ at = "inspected" =>
        /\ held <= MaxTotal
        /\ \A i \in Files : Declared(i) <= MaxMember
        /\ \A i, j \in DOMAIN entries : i # j => Key(i) # Key(j)
        /\ \A i \in Files, j \in DOMAIN entries : i # j => ~IsPrefix(Key(i), Key(j))

=============================================================================
