----------------------------- MODULE ImageStore -----------------------------
(***************************************************************************)
(* How an imported system image replaces the managed one on disk:          *)
(* macmu_replace_system_image_from_directory of machine_manager.cpp, one   *)
(* step per file system call.  Three directories take part: the managed    *)
(* image (systemPath), its ".importing" staging area and ".previous".  A   *)
(* call may fail, and the process may die between any two of them; the     *)
(* next import then finds what is left.                                    *)
(*                                                                         *)
(* A directory is absent, or holds version v of the image: whole, in part  *)
(* (files are missing) or torn (all files are there and the last one is    *)
(* incomplete).  system_image_exists_at looks for the files and cannot     *)
(* tell torn from whole.  Extraction verifies every file it reconstructs,  *)
(* so what it hands over is whole, or lacks files.                         *)
(***************************************************************************)
EXTENDS Naturals

CONSTANTS
    MaxImports,  \* bound: imports, each of a new version
    MaxFaults,   \* bound: file system calls that fail
    MaxCrashes   \* bound: deaths of the process

ASSUME ImageStoreAssumptions ==
    MaxImports \in Nat /\ MaxFaults \in Nat /\ MaxCrashes \in Nat

VARIABLES
    destination, importing, previous, source,  \* the four directories
    at,         \* where macmu_replace_system_image_from_directory is
    had,        \* version of the managed image when the import began, or 0
    version,    \* imports so far
    faults, crashes

vars == <<destination, importing, previous, source, at, had, version, faults, crashes>>

Versions == 0..MaxImports
Absent == [v |-> 0, kind |-> "part"]
Directories == {Absent} \cup [v : 1..MaxImports, kind : {"whole", "torn", "part"}]

\* What a remove_all that fails or dies leaves of a directory.
Remains(d) == IF d = Absent THEN {} ELSE {d, [d EXCEPT !.kind = "part"]}

\* system_image_exists_at: the required files and the metadata disk exist.
ImageExistsAt(d) == d.kind # "part"

TypeOK ==
    /\ destination \in Directories /\ importing \in Directories
    /\ previous \in Directories /\ source \in Directories
    /\ at \in {"idle", "check", "clearImporting", "clearPrevious", "stage", "copy", "validate",
               "retire", "activate", "restore", "discard", "clean"}
    /\ at = "activate" => destination = Absent
    /\ had \in Versions /\ version \in Versions
    /\ faults \in 0..MaxFaults /\ crashes \in 0..MaxCrashes

Init ==
    /\ destination = Absent /\ importing = Absent /\ previous = Absent /\ source = Absent
    /\ at = "idle" /\ had = 0 /\ version = 0 /\ faults = 0 /\ crashes = 0

-----------------------------------------------------------------------------
Goto(from, to) ==
    /\ at = from /\ at' = to
    /\ UNCHANGED <<had, version, crashes>>
NoFault == faults' = faults
Fault == faults < MaxFaults /\ faults' = faults + 1

\* macmu_extract_system_image_source has filled a temporary directory.
BeginImport ==
    /\ at = "idle" /\ version < MaxImports
    /\ at' = "check" /\ version' = version + 1
    /\ had' = IF ImageExistsAt(destination) THEN destination.v ELSE 0
    /\ \E kind \in {"whole", "part"} : source' = [v |-> version + 1, kind |-> kind]
    /\ UNCHANGED <<destination, importing, previous, faults, crashes>>

\* The source must hold the required files.
CheckSource ==
    /\ Goto("check", IF ImageExistsAt(source) THEN "clearImporting" ELSE "idle")
    /\ UNCHANGED <<destination, importing, previous, source>> /\ NoFault

\* remove_all of both leftovers; its error is ignored and may leave a part.
ClearImporting ==
    /\ Goto("clearImporting", "clearPrevious")
    /\ \/ importing' = Absent /\ NoFault
       \/ importing' \in Remains(importing) /\ Fault
    /\ UNCHANGED <<destination, previous, source>>

ClearPrevious ==
    /\ Goto("clearPrevious", "stage")
    /\ \/ previous' = Absent /\ NoFault
       \/ previous' \in Remains(previous) /\ Fault
    /\ UNCHANGED <<destination, importing, source>>

\* rename(source, importing): onto an absent directory it moves the image;
\* onto what is left of an old one, or on another error, it fails.
Stage ==
    /\ \/ /\ importing = Absent
          /\ Goto("stage", "validate")
          /\ importing' = source /\ source' = Absent /\ NoFault
       \/ /\ Goto("stage", "discard")
          /\ (importing # Absent /\ NoFault) \/ Fault
          /\ UNCHANGED <<importing, source>>
    /\ UNCHANGED <<destination, previous>>

\* EXDEV: the temporary directory is on another volume.  The copy begins;
\* files of an old staging area are overwritten.
StageAcrossVolumes ==
    /\ Goto("stage", "copy")
    /\ \E kind \in {"part", "torn"} : importing' = [source EXCEPT !.kind = kind]
    /\ UNCHANGED <<destination, previous, source>> /\ NoFault

\* Mutant: the error of the copy is ignored.
CopyUnchecked ==
    /\ \/ Goto("copy", "validate") /\ importing' = source /\ NoFault
       \/ Goto("copy", "validate") /\ UNCHANGED importing /\ Fault
    /\ UNCHANGED <<destination, previous, source>>

Copy ==
    /\ \/ Goto("copy", "validate") /\ importing' = source /\ NoFault
       \/ Goto("copy", "discard") /\ UNCHANGED importing /\ Fault
    /\ UNCHANGED <<destination, previous, source>>

\* The staged copy is checked before anything is replaced.
Validate ==
    /\ Goto("validate", IF ImageExistsAt(importing) THEN "retire" ELSE "discard")
    /\ UNCHANGED <<destination, importing, previous, source>> /\ NoFault

\* The managed image, if there is one, moves out of the way.  A previous
\* directory that could not be removed makes the rename fail.
Retire ==
    /\ \/ /\ destination = Absent
          /\ Goto("retire", "activate") /\ NoFault
          /\ UNCHANGED <<destination, previous>>
       \/ /\ destination # Absent /\ previous = Absent
          /\ Goto("retire", "activate") /\ NoFault
          /\ previous' = destination /\ destination' = Absent
       \/ /\ destination # Absent
          /\ Goto("retire", "discard")
          /\ (previous # Absent /\ NoFault) \/ Fault
          /\ UNCHANGED <<destination, previous>>
    /\ UNCHANGED <<importing, source>>

Activate ==
    /\ \/ Goto("activate", "clean") /\ NoFault
          /\ destination' = importing /\ importing' = Absent
       \/ Goto("activate", "restore") /\ Fault
          /\ UNCHANGED <<destination, importing>>
    /\ UNCHANGED <<previous, source>>

\* Mutant: the old image is not moved back.
RestoreNothing ==
    /\ Goto("restore", "discard")
    /\ UNCHANGED <<destination, importing, previous, source>> /\ NoFault

\* The activation failed: the old image is moved back; its error is ignored.
Restore ==
    /\ Goto("restore", "discard")
    /\ \/ previous # Absent /\ destination' = previous /\ previous' = Absent /\ NoFault
       \/ previous = Absent /\ UNCHANGED <<destination, previous>> /\ NoFault
       \/ previous # Absent /\ UNCHANGED <<destination, previous>> /\ Fault
    /\ UNCHANGED <<importing, source>>

\* remove_all(importing) on the way out of a failed import.
Discard ==
    /\ Goto("discard", "idle")
    /\ \/ importing' = Absent /\ NoFault
       \/ importing' \in Remains(importing) /\ Fault
    /\ UNCHANGED <<destination, previous, source>>

\* remove_all(previous) after the activation.
Clean ==
    /\ Goto("clean", "idle")
    /\ \/ previous' = Absent /\ NoFault
       \/ previous' \in Remains(previous) /\ Fault
    /\ UNCHANGED <<destination, importing, source>>

\* The process dies: a crash, or Quit, which does not wait for the import.
\* A remove_all or a copy under way leaves a part.
Crash ==
    /\ crashes < MaxCrashes
    /\ at' = "idle" /\ crashes' = crashes + 1
    /\ \/ importing' = importing
       \/ at \in {"clearImporting", "discard"} /\ importing' \in Remains(importing)
    /\ \/ previous' = previous
       \/ at \in {"clearPrevious", "clean"} /\ previous' \in Remains(previous)
    /\ UNCHANGED <<destination, source, had, version, faults>>

Next ==
    \/ BeginImport \/ CheckSource \/ ClearImporting \/ ClearPrevious \/ Stage
    \/ StageAcrossVolumes \/ Copy \/ Validate \/ Retire \/ Activate \/ Restore \/ Discard
    \/ Clean \/ Crash

Spec == Init /\ [][Next]_vars

-----------------------------------------------------------------------------
(* Properties. *)

\* What the supervisor takes for an image is whole: whichever calls fail and
\* wherever the process dies, a torn copy never becomes the managed image,
\* although the check for required files would accept it.
ActiveImageWhole == ImageExistsAt(destination) => destination.kind = "whole"

\* An import that fails leaves the image that was there, unless two of its
\* own file system calls fail (the activation and the restore after it).
FailedImportKeepsImage ==
    at = "idle" /\ crashes = 0 /\ faults <= 1 /\ had > 0 => ImageExistsAt(destination)

\* docs/IMAGE_DISTRIBUTION.md: the image directory is installed atomically.
\* An install that dies leaves the old image or the new one.
AtomicInstall == at = "idle" /\ faults = 0 /\ had > 0 => ImageExistsAt(destination)
=============================================================================
