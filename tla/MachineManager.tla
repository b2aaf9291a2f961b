--------------------------- MODULE MachineManager ---------------------------
(***************************************************************************)
(* The virtual device over the managed image: macmu_create_default_machine *)
(* and macmu_machine_exists of machine_manager.cpp, composed with the      *)
(* replacement of the image in ImageStore.  Three threads create the       *)
(* device, with no lock between them: the import job after it has replaced *)
(* the image, the supervisor's monitor when macmu_machine_exists says no,  *)
(* and the main thread when the user presses "Prepare Device".  A file     *)
(* system call may fail and the process may die between any two.           *)
(*                                                                         *)
(* A text file is absent, empty (opened with trunc, its buffer not         *)
(* flushed) or "text"; its contents depend on the options only.  The       *)
(* metadata disk is absent, torn or "disk".  A link leads into the managed *)
(* image.                                                                  *)
(***************************************************************************)
EXTENDS ImageStore

CONSTANTS
    MaxSlips,   \* bound: calls that fail while a device is created
    MaxClicks   \* bound: presses of "Prepare Device"

ASSUME MachineAssumptions == MaxSlips \in Nat /\ MaxClicks \in Nat

VARIABLES
    text,           \* [TextFiles -> {"absent", "empty", "text"}]
    links,          \* the symbolic links that exist
    metadata,       \* the device's encryptionkey.img
    step,           \* [Creators -> Steps]: where macmu_create_default_machine is
    monitor,        \* where qemuMonitorLoop is
    importFailed,   \* _imageImportFailed
    slips, clicks,
    over,           \* creators rewriting a text file of a complete or shared device
    lost            \* text files whose contents were lost in a way nobody notices

files == <<text, links, metadata>>
Ghosts == <<over, lost>>
machineVars == <<files, step, monitor, importFailed, slips, clicks, Ghosts>>
allVars == <<vars, machineVars>>

Creators == {"job", "monitor", "main"}
TextFiles == {"rootIni", "config"}
Links == {"system", "vendor"}
Steps == {"none", "directories", "rootIni", "rootIniClose", "config", "configClose",
          "system", "systemLink", "vendor", "vendorLink", "metadata", "copy", "copying", "cache"}
CloseStep == [rootIni |-> "rootIniClose", config |-> "configClose"]

\* metadata_disk_exists: the last sector of the GPT entry lies in the file, so a
\* copy that it accepts has the whole partition.
MetadataDiskExists == metadata = "disk"

\* The device has all its files; its links lead into the image.
DeviceComplete ==
    (\A f \in TextFiles : text[f] # "absent") /\ links = Links /\ MetadataDiskExists

\* macmu_machine_exists; a link counts as a file while the image is there.
MachineExists == DeviceComplete /\ ImageExistsAt(destination)

MachineInit ==
    /\ Init
    /\ text = [f \in TextFiles |-> "absent"] /\ links = {} /\ metadata = "absent"
    /\ step = [c \in Creators |-> "none"] /\ monitor = "top"
    /\ importFailed = FALSE /\ slips = 0 /\ clicks = 0 /\ over = {} /\ lost = {}

\* _imageImportInProgress: from the start of the job until its last block.
ImportInProgress == at # "idle" \/ step["job"] # "none"

-----------------------------------------------------------------------------
(* macmu_create_default_machine *)

\* From one step of c to the next.
Move(c, from, to) ==
    /\ step[c] = from /\ step' = [step EXCEPT ![c] = to]
    /\ UNCHANGED <<monitor, importFailed, clicks>>

\* The function returns to its caller.
Return(c, from, ok) ==
    /\ step[c] = from /\ step' = [step EXCEPT ![c] = "none"]
    /\ monitor' = IF c # "monitor" THEN monitor ELSE IF ok THEN "launching" ELSE "top"
    /\ importFailed' = (importFailed \/ (c = "job" /\ ~ok))
    /\ UNCHANGED clicks

NoSlip == slips' = slips
Slip == slips < MaxSlips /\ slips' = slips + 1

\* The runtime and device directories, and the image, must be there.
EnsureDirectories(c) ==
    /\ \/ ImageExistsAt(destination) /\ Move(c, "directories", "rootIni") /\ NoSlip
       \/ ~ImageExistsAt(destination) /\ Return(c, "directories", FALSE) /\ NoSlip
       \/ Return(c, "directories", FALSE) /\ Slip
    /\ UNCHANGED <<vars, files, Ghosts>>

\* write_text_file opens the file with trunc.
OpenText(c, f, from, to) ==
    /\ \/ /\ Move(c, from, to) /\ text' = [text EXCEPT ![f] = "empty"] /\ NoSlip
          /\ over' = IF DeviceComplete \/ (\E d \in Creators \ {c} : step[d] # "none")
                       THEN over \cup {c} ELSE over
       \/ Return(c, from, FALSE) /\ Slip /\ UNCHANGED <<text, over>>
    /\ UNCHANGED <<vars, links, metadata, lost>>

\* out.good() is tested before the destructor flushes the buffer: a write that
\* fails there goes unnoticed.
CloseText(c, f, from, to) ==
    /\ Move(c, from, to) /\ over' = over \ {c}
    /\ \/ text' = [text EXCEPT ![f] = "text"] /\ lost' = lost \ {f} /\ NoSlip
       \/ UNCHANGED text /\ lost' = lost \cup {f} /\ Slip
    /\ UNCHANGED <<vars, links, metadata>>

\* Mutant: the old link is not removed.
UnlinkNothing(c, l, from, to) ==
    Move(c, from, to) /\ NoSlip /\ UNCHANGED <<vars, files, Ghosts>>

\* replace_with_symlink removes what is there; its error is ignored.
Unlink(c, l, from, to) ==
    /\ Move(c, from, to)
    /\ \/ links' = links \ {l} /\ NoSlip
       \/ l \in links /\ UNCHANGED links /\ Slip
    /\ UNCHANGED <<vars, text, metadata, Ghosts>>

\* create_symlink fails on an existing link; the link must lead to a file.
Symlink(c, l, from, to) ==
    /\ \/ /\ l \notin links /\ links' = links \cup {l} /\ NoSlip
          /\ IF ImageExistsAt(destination) THEN Move(c, from, to) ELSE Return(c, from, FALSE)
       \/ l \in links /\ Return(c, from, FALSE) /\ UNCHANGED links /\ NoSlip
       \/ Return(c, from, FALSE) /\ UNCHANGED links /\ Slip
    /\ UNCHANGED <<vars, text, metadata, Ghosts>>

\* ensure_metadata_disk keeps a disk that is whole and removes anything else.
CheckMetadata(c) ==
    /\ \/ MetadataDiskExists /\ Move(c, "metadata", "cache") /\ UNCHANGED metadata
       \/ ~MetadataDiskExists /\ Move(c, "metadata", "copy") /\ metadata' = "absent"
    /\ NoSlip /\ UNCHANGED <<vars, text, links, Ghosts>>

\* copy_file opens source and destination.
OpenCopy(c) ==
    /\ \/ ImageExistsAt(destination) /\ Move(c, "copy", "copying") /\ metadata' = "torn" /\ NoSlip
       \/ ~ImageExistsAt(destination) /\ Return(c, "copy", FALSE) /\ UNCHANGED metadata /\ NoSlip
       \/ Return(c, "copy", FALSE) /\ UNCHANGED metadata /\ Slip
    /\ UNCHANGED <<vars, text, links, Ghosts>>

\* The copy ends and is checked; another copy into the same file may tear it.
CloseCopy(c) ==
    /\ \/ Move(c, "copying", "cache") /\ metadata' = "disk" /\ NoSlip
       \/ /\ Return(c, "copying", FALSE) /\ metadata' = "torn"
          /\ ((\E d \in Creators \ {c} : step[d] = "copying") /\ NoSlip) \/ Slip
    /\ UNCHANGED <<vars, text, links, Ghosts>>

\* ensure_sized_file for cache.img, which macmu_machine_exists does not look at.
EnsureCache(c) ==
    /\ \/ Return(c, "cache", TRUE) /\ NoSlip
       \/ Return(c, "cache", FALSE) /\ Slip
    /\ UNCHANGED <<vars, files, Ghosts>>

\* Mutant: the links and the metadata disk come before the text files.
CreateLinksFirst(c) ==
    \/ /\ Move(c, "directories", "system") /\ ImageExistsAt(destination) /\ NoSlip
       /\ UNCHANGED <<vars, files, Ghosts>>
    \/ Unlink(c, "system", "system", "systemLink") \/ Symlink(c, "system", "systemLink", "vendor")
    \/ Unlink(c, "vendor", "vendor", "vendorLink") \/ Symlink(c, "vendor", "vendorLink", "metadata")
    \/ CheckMetadata(c) \/ OpenCopy(c) \/ CloseCopy(c)
    \/ OpenText(c, "rootIni", "cache", "rootIniClose")
    \/ CloseText(c, "rootIni", "rootIniClose", "config")
    \/ OpenText(c, "config", "config", "configClose")
    \/ /\ step[c] = "configClose" /\ Return(c, "configClose", TRUE) /\ over' = over \ {c}
       /\ text' = [text EXCEPT !["config"] = "text"] /\ lost' = lost \ {"config"} /\ NoSlip
       /\ UNCHANGED <<vars, links, metadata>>

CreateStep(c) ==
    \/ EnsureDirectories(c)
    \/ OpenText(c, "rootIni", "rootIni", "rootIniClose")
    \/ CloseText(c, "rootIni", "rootIniClose", "config")
    \/ OpenText(c, "config", "config", "configClose")
    \/ CloseText(c, "config", "configClose", "system")
    \/ Unlink(c, "system", "system", "systemLink") \/ Symlink(c, "system", "systemLink", "vendor")
    \/ Unlink(c, "vendor", "vendor", "vendorLink") \/ Symlink(c, "vendor", "vendorLink", "metadata")
    \/ CheckMetadata(c) \/ OpenCopy(c) \/ CloseCopy(c) \/ EnsureCache(c)

-----------------------------------------------------------------------------
(* The callers *)

\* importSystemImageSource on the main thread: not under a running qemu, and
\* one job at a time.
ImportBegins ==
    /\ BeginImport /\ ~ImportInProgress /\ step["main"] = "none" /\ monitor # "running"
    /\ importFailed' = FALSE
    /\ UNCHANGED <<files, step, monitor, slips, clicks, Ghosts>>

\* The job replaces the image, and creates the device if that succeeded.
ImportStep ==
    /\ \/ /\ CheckSource \/ ClearImporting \/ ClearPrevious \/ Stage \/ StageAcrossVolumes \/ Copy
             \/ Validate \/ Retire \/ Activate \/ Restore \/ Discard
          /\ importFailed' = (at' = "idle") /\ UNCHANGED step
       \/ Clean /\ step' = [step EXCEPT !["job"] = "directories"] /\ UNCHANGED importFailed
    /\ UNCHANGED <<files, monitor, slips, clicks, Ghosts>>

\* prepareDevice: the button is there while there is an image and no device, and
\* until the block that hides it after the monitor's creation has run.
PrepareDevice ==
    /\ clicks < MaxClicks /\ clicks' = clicks + 1 /\ step["main"] = "none"
    /\ ~ImportInProgress /\ ImageExistsAt(destination)
    /\ (~MachineExists /\ monitor # "running") \/ monitor = "launching"
    /\ step' = [step EXCEPT !["main"] = "directories"]
    /\ UNCHANGED <<vars, files, monitor, importFailed, slips, Ghosts>>

\* qemuMonitorLoop tests the import flags, the image and the device in turn.
MonitorKeeps == UNCHANGED <<vars, files, importFailed, slips, clicks, Ghosts>>

TestFlags ==
    /\ monitor = "top" /\ ~ImportInProgress /\ ~importFailed
    /\ monitor' = "image" /\ UNCHANGED step /\ MonitorKeeps

TestImage ==
    /\ monitor = "image" /\ UNCHANGED step /\ MonitorKeeps
    /\ monitor' = IF ImageExistsAt(destination) THEN "machine" ELSE "top"

TestMachine ==
    /\ monitor = "machine" /\ MonitorKeeps
    /\ IF MachineExists
         THEN monitor' = "launching" /\ UNCHANGED step
         ELSE monitor' = "creating" /\ step' = [step EXCEPT !["monitor"] = "directories"]

\* launch_qemu, which may fail.
Launch ==
    /\ monitor = "launching" /\ UNCHANGED step /\ MonitorKeeps
    /\ monitor' \in {"running", "top"}

MonitorStep == TestFlags \/ TestImage \/ TestMachine \/ Launch

QemuExits ==
    /\ monitor = "running" /\ monitor' = "top"
    /\ UNCHANGED <<vars, files, step, importFailed, slips, clicks, Ghosts>>

\* The process dies, in an import or while a device is created.
Die ==
    /\ Crash /\ (at # "idle" \/ \E c \in Creators : step[c] # "none")
    /\ step' = [c \in Creators |-> "none"] /\ monitor' = "top" /\ importFailed' = FALSE
    /\ over' = {}
    /\ lost' = lost \cup {f \in TextFiles : \E c \in over : step[c] = CloseStep[f]}
    /\ UNCHANGED <<files, slips, clicks>>

MachineNext ==
    \/ ImportBegins \/ ImportStep \/ PrepareDevice \/ MonitorStep \/ QemuExits \/ Die
    \/ \E c \in Creators : CreateStep(c)

\* The threads of the shell run; nothing else is assumed.
MachineSpec ==
    /\ MachineInit /\ [][MachineNext]_allVars
    /\ WF_allVars(ImportStep) /\ WF_allVars(MonitorStep)
    /\ \A c \in Creators : WF_allVars(CreateStep(c))

-----------------------------------------------------------------------------
(* Properties *)

DeviceType ==
    /\ text \in [TextFiles -> {"absent", "empty", "text"}] /\ links \subseteq Links
    /\ metadata \in {"absent", "torn", "disk"} /\ step \in [Creators -> Steps]
    /\ monitor \in {"top", "image", "machine", "creating", "launching", "running"}
    /\ monitor = "creating" <=> step["monitor"] # "none"
    /\ over \subseteq Creators /\ lost \subseteq TextFiles
    /\ importFailed \in BOOLEAN /\ slips \in 0..MaxSlips /\ clicks \in 0..MaxClicks

\* The files of the device, the creators and the monitor are well formed.
MachineTypeOK == TypeOK /\ DeviceType

\* The contents of f are there, or they were lost in one of the two ways that
\* nobody notices, or about to be written over a complete or shared device.
Accounted(f) == text[f] = "text" \/ f \in lost \/ \E c \in over : step[c] = CloseStep[f]

\* A device that macmu_machine_exists accepts has its configuration, wherever a
\* creation died or failed before: the text files come first, the links and the
\* metadata disk last.  The exceptions are the two the code does not notice: the
\* file is being rewritten over a device that was complete or that another thread
\* creates, or a flush failed or a crash came in the middle of that.
MachineWhole == MachineExists => \A f \in TextFiles : Accounted(f)

\* Whatever a creation that failed or died left behind, a later one succeeds:
\* with an image and no failed import the monitor gets to launch qemu.
MachineComesUp ==
    []<>(monitor \in {"launching", "running"} \/ importFailed \/ ~ImageExistsAt(destination))
=============================================================================
