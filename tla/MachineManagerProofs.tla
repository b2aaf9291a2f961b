------------------------ MODULE MachineManagerProofs ------------------------
(***************************************************************************)
(* The managed image and the device on it.                                 *)
(*                                                                         *)
(* ActiveImageWhole is proved for any number of imports, failing calls and *)
(* crashes.  The property looks at the managed directory only, and the     *)
(* check that guards it cannot tell a torn image from a whole one.  What   *)
(* carries the proof is where a torn copy can be: in the staging area,     *)
(* while the copy runs or after it failed, and never there when the staged *)
(* image is checked and activated.                                         *)
(*                                                                         *)
(* The device and its creators leave the managed image alone: every step   *)
(* of MachineManager is a step of ImageStore or changes no directory.  So  *)
(* what is proved of the image holds of the composition, for any number of *)
(* imports, failing calls, crashes and clicks.                             *)
(***************************************************************************)
EXTENDS MachineManager, TLAPS

-----------------------------------------------------------------------------
(* The image store. *)

\* If system_image_exists_at accepts the directory, its image is whole.
Sound(d) == ImageExistsAt(d) => d.kind = "whole"

\* The steps before the source directory is moved or copied away.
SourceSteps == {"check", "clearImporting", "clearPrevious", "stage", "copy"}

\* The inductive strengthening of ActiveImageWhole.
StoreInv ==
    /\ TypeOK
    /\ Sound(destination) /\ Sound(previous) /\ Sound(source)
    /\ at \in {"validate", "retire", "activate"} => Sound(importing)
    /\ at \in SourceSteps => source # Absent

\* Nothing is on disk at first.
LEMMA InitStoreInv == Init => StoreInv
BY ImageStoreAssumptions
   DEF Init, StoreInv, TypeOK, Directories, Versions, Absent, Sound, ImageExistsAt, SourceSteps

\* What a failed or interrupted remove_all leaves is a directory that the
\* check rejects, or the sound one that was there.
LEMMA RemainsSound ==
    ASSUME NEW d \in Directories, NEW r \in Remains(d)
    PROVE  r \in Directories /\ (Sound(d) => Sound(r))
<1>1. r = d \/ r = [d EXCEPT !.kind = "part"]
  BY DEF Remains
<1>2. d # Absent
  BY DEF Remains
<1> QED
  BY <1>1, <1>2 DEF Directories, Sound, ImageExistsAt

\* Every step of macmu_replace_system_image_from_directory, failing or not,
\* and every crash keeps the invariant.
LEMMA StepStoreInv == StoreInv /\ [Next]_vars => StoreInv'
<1> SUFFICES ASSUME StoreInv, [Next]_vars PROVE StoreInv'
  OBVIOUS
<1> USE ImageStoreAssumptions DEF StoreInv, TypeOK, Versions, SourceSteps, Goto, NoFault, Fault
<1>0. Absent \in Directories /\ Sound(Absent) /\ Absent.v \in Versions
  BY DEF Directories, Absent, Sound, ImageExistsAt
<1>1. CASE BeginImport
  <2>1. had' \in Versions
    BY <1>0, <1>1 DEF BeginImport, Directories
  <2>2. source' \in Directories /\ source' # Absent /\ Sound(source')
    BY <1>1 DEF BeginImport, Directories, Absent, Sound, ImageExistsAt
  <2> QED
    BY <1>1, <2>1, <2>2 DEF BeginImport, Sound
<1>2. CASE CheckSource
  BY <1>2 DEF CheckSource, Sound
<1>3. CASE ClearImporting
  BY <1>0, <1>3, RemainsSound DEF ClearImporting, Sound
<1>4. CASE ClearPrevious
  BY <1>0, <1>4, RemainsSound DEF ClearPrevious, Sound
<1>5. CASE Stage
  BY <1>0, <1>5 DEF Stage, Sound
<1>6. CASE StageAcrossVolumes
  <2>1. importing' \in Directories
    BY <1>6 DEF StageAcrossVolumes, Directories
  <2> QED
    BY <1>6, <2>1 DEF StageAcrossVolumes, Sound
<1>7. CASE Copy
  BY <1>7 DEF Copy, Sound
<1>8. CASE Validate
  BY <1>8 DEF Validate, Sound
<1>9. CASE Retire
  BY <1>0, <1>9 DEF Retire, Sound
<1>10. CASE Activate
  BY <1>0, <1>10 DEF Activate, Sound
<1>11. CASE Restore
  BY <1>0, <1>11 DEF Restore, Sound
<1>12. CASE Discard
  BY <1>0, <1>12, RemainsSound DEF Discard, Sound
<1>13. CASE Clean
  BY <1>0, <1>13, RemainsSound DEF Clean, Sound
<1>14. CASE Crash
  BY <1>0, <1>14, RemainsSound DEF Crash, Sound
<1>15. CASE UNCHANGED vars
  BY <1>15 DEF vars, Sound
<1> QED
  BY <1>1, <1>2, <1>3, <1>4, <1>5, <1>6, <1>7, <1>8, <1>9, <1>10, <1>11, <1>12, <1>13,
     <1>14, <1>15 DEF Next

\* The directories keep their shape, and the managed one is out of the way
\* when the staged one is renamed onto it.
THEOREM StoreTypeCorrect == Spec => []TypeOK
<1>1. StoreInv => TypeOK
  BY DEF StoreInv
<1> QED
  BY InitStoreInv, StepStoreInv, <1>1, PTL DEF Spec

\* Whichever calls fail and wherever the process dies, the managed image is
\* whole whenever macmu_system_image_exists finds one.
THEOREM ManagedImageWhole == Spec => []ActiveImageWhole
<1>1. StoreInv => ActiveImageWhole
  BY DEF StoreInv, Sound, ActiveImageWhole
<1> QED
  BY InitStoreInv, StepStoreInv, <1>1, PTL DEF Spec

-----------------------------------------------------------------------------
(* FailedImportKeepsImage.  Between imports the property looks at the      *)
(* managed directory; while one runs the old image is either still there,  *)
(* or in ".previous" with a new one ready to take its place.               *)

\* The managed image has been moved away and nothing has replaced it yet.
Away == at \in {"activate", "restore"}

\* The inductive strengthening of FailedImportKeepsImage: the failure that the
\* property allows is spent when the old image has to be moved back.
KeepInv ==
    /\ at \in {"retire", "activate"} => ImageExistsAt(importing)
    /\ crashes = 0 /\ faults <= 1 /\ had > 0 =>
         /\ ~Away => ImageExistsAt(destination)
         /\ Away => ImageExistsAt(previous)
         /\ at = "restore" => faults = 1

\* Every step keeps it; the types rule out counts below zero.
LEMMA StepKeepInv == TypeOK /\ KeepInv /\ [Next]_vars => KeepInv'
<1> SUFFICES ASSUME TypeOK, KeepInv, [Next]_vars PROVE KeepInv'
  OBVIOUS
<1> USE ImageStoreAssumptions
        DEF TypeOK, KeepInv, Away, Versions, Goto, NoFault, Fault, ImageExistsAt
<1>1. CASE BeginImport
  BY <1>1 DEF BeginImport
<1>2. CASE CheckSource
  BY <1>2 DEF CheckSource
<1>3. CASE ClearImporting
  BY <1>3 DEF ClearImporting
<1>4. CASE ClearPrevious
  BY <1>4 DEF ClearPrevious
<1>5. CASE Stage
  BY <1>5 DEF Stage
<1>6. CASE StageAcrossVolumes
  BY <1>6 DEF StageAcrossVolumes
<1>7. CASE Copy
  BY <1>7 DEF Copy
<1>8. CASE Validate
  BY <1>8 DEF Validate
<1>9. CASE Retire
  BY <1>9 DEF Retire, Absent
<1>10. CASE Activate
  BY <1>10 DEF Activate
<1>11. CASE Restore
  BY <1>11 DEF Restore, Absent
<1>12. CASE Discard
  BY <1>12 DEF Discard
<1>13. CASE Clean
  BY <1>13 DEF Clean
<1>14. CASE Crash
  BY <1>14 DEF Crash
<1>15. CASE UNCHANGED vars
  BY <1>15 DEF vars
<1> QED
  BY <1>1, <1>2, <1>3, <1>4, <1>5, <1>6, <1>7, <1>8, <1>9, <1>10, <1>11, <1>12, <1>13,
     <1>14, <1>15 DEF Next

\* An import that fails leaves the old image in place, whatever call of
\* macmu_replace_system_image_from_directory it was that failed, for any number
\* of imports; only the failure of a second call can lose it.
THEOREM FailureKeepsImage == Spec => []FailedImportKeepsImage
<1>1. Init => KeepInv
  BY DEF Init, KeepInv, Away
<1>2. KeepInv => FailedImportKeepsImage
  BY DEF KeepInv, Away, FailedImportKeepsImage
<1> QED
  BY StoreTypeCorrect, StepKeepInv, <1>1, <1>2, PTL DEF Spec

-----------------------------------------------------------------------------
(* The device and its creators. *)

\* macmu_create_default_machine writes only files of the device.
LEMMA CreateKeepsImage ==
    ASSUME NEW c \in Creators, CreateStep(c)
    PROVE  UNCHANGED vars
BY DEF CreateStep, EnsureDirectories, OpenText, CloseText, Unlink, Symlink, CheckMetadata,
       OpenCopy, CloseCopy, EnsureCache

\* A step of the composition is a step of the image store, or none.
LEMMA MachineStepOfStore == [MachineNext]_allVars => [Next]_vars
<1> SUFFICES ASSUME [MachineNext]_allVars PROVE [Next]_vars
  OBVIOUS
<1>1. CASE ImportBegins
  BY <1>1 DEF ImportBegins, Next
<1>2. CASE ImportStep
  BY <1>2 DEF ImportStep, Next
<1>3. CASE PrepareDevice
  BY <1>3 DEF PrepareDevice
<1>4. CASE MonitorStep
  BY <1>4 DEF MonitorStep, TestFlags, TestImage, TestMachine, Launch, MonitorKeeps
<1>5. CASE QemuExits
  BY <1>5 DEF QemuExits
<1>6. CASE Die
  BY <1>6 DEF Die, Next
<1>7. CASE \E c \in Creators : CreateStep(c)
  BY <1>7, CreateKeepsImage
<1>8. CASE UNCHANGED allVars
  BY <1>8 DEF allVars
<1> QED
  BY <1>1, <1>2, <1>3, <1>4, <1>5, <1>6, <1>7, <1>8 DEF MachineNext

\* The threads that create the device and launch qemu use the image as ImageStore
\* allows: the composition implements it.
THEOREM DeviceKeepsStore == MachineSpec => Spec
<1>1. MachineInit => Init
  BY DEF MachineInit
<1> QED
  BY <1>1, MachineStepOfStore, PTL DEF MachineSpec, Spec

\* Whatever the creators of the device do meanwhile, the image that
\* macmu_system_image_exists finds is whole.
THEOREM ImageUnderDeviceWhole == MachineSpec => []ActiveImageWhole
BY DeviceKeepsStore, ManagedImageWhole, PTL

\* And an import that fails keeps the old image under a device that is being
\* created, launched or restarted.
THEOREM ImageUnderDeviceKept == MachineSpec => []FailedImportKeepsImage
BY DeviceKeepsStore, FailureKeepsImage, PTL

-----------------------------------------------------------------------------
(* MachineWhole.  The property looks at a complete device only; what makes *)
(* it inductive is where the creators are: one that is past its text files *)
(* has seen each of them written or lost, and from then on whoever opens   *)
(* one of them again is in `over'.                                         *)

\* The steps after both text files are closed.
LateSteps == {"system", "systemLink", "vendor", "vendorLink", "metadata", "copy",
              "copying", "cache"}

\* The inductive strengthening of MachineWhole.
Orderly ==
    /\ DeviceComplete => \A f \in TextFiles : Accounted(f)
    /\ \A c \in Creators : step[c] \in LateSteps => \A f \in TextFiles : Accounted(f)
    /\ \A c \in Creators : step[c] \in {"config", "configClose"} => Accounted("rootIni")
    /\ \A c \in over : step[c] \in {"rootIniClose", "configClose"}

\* A text file that somebody has opened exists, and links come after both.
Opened ==
    /\ links # {} => \A f \in TextFiles : text[f] # "absent"
    /\ \A c \in Creators :
         /\ step[c] \in LateSteps => \A f \in TextFiles : text[f] # "absent"
         /\ step[c] \in {"rootIniClose", "config", "configClose"} => text["rootIni"] # "absent"
         /\ step[c] = "configClose" => text["config"] # "absent"

DeviceInv == DeviceType /\ Orderly /\ Opened

\* There is no device at first and nobody creates one.
LEMMA InitDeviceInv == MachineInit => DeviceInv
<1> SUFFICES ASSUME MachineInit PROVE DeviceInv
  OBVIOUS
<1> USE DEF MachineInit
<1>1. DeviceType
  <2>1. slips \in 0..MaxSlips /\ clicks \in 0..MaxClicks
    BY MachineAssumptions DEF MachineAssumptions
  <2>2. step \in [Creators -> Steps] /\ step["monitor"] = "none"
    BY DEF Creators, Steps
  <2> QED
    BY <2>1, <2>2 DEF DeviceType, TextFiles, Links
<1>2. Orderly
  BY DEF Orderly, DeviceComplete, MetadataDiskExists, Creators, TextFiles, LateSteps
<1>3. Opened
  BY DEF Opened, Creators, LateSteps
<1> QED
  BY <1>1, <1>2, <1>3 DEF DeviceInv

\* A step of a creator moves it or lets it return; either keeps the types.
LEMMA StepTypes ==
    ASSUME DeviceType, NEW c \in Creators, NEW from \in Steps \ {"none"},
           NEW to \in Steps \ {"none"}, NEW ok \in BOOLEAN, Move(c, from, to) \/ Return(c, from, ok)
    PROVE  /\ step' \in [Creators -> Steps]
           /\ monitor' \in {"top", "image", "machine", "creating", "launching", "running"}
           /\ monitor' = "creating" <=> step'["monitor"] # "none"
           /\ importFailed' \in BOOLEAN /\ clicks' \in 0..MaxClicks
           /\ \A d \in Creators \ {c} : step'[d] = step[d]
           /\ step[c] = from /\ step'[c] \in {to, "none"}
<1>1. CASE Move(c, from, to)
  BY <1>1 DEF Move, DeviceType, Creators, Steps
<1>2. CASE Return(c, from, ok)
  BY <1>2 DEF Return, DeviceType, Creators, Steps
<1> QED
  BY <1>1, <1>2

\* Opening a text file: nobody is past it, or the creator is in `over'.
LEMMA OpenTextInv ==
    ASSUME DeviceInv, NEW c \in Creators,
           \/ OpenText(c, "rootIni", "rootIni", "rootIniClose")
           \/ OpenText(c, "config", "config", "configClose")
    PROVE  DeviceInv'
<1>1. PICK f \in TextFiles : OpenText(c, f, f, CloseStep[f])
  BY DEF TextFiles, CloseStep
<1>2. f \in Steps \ {"none"} /\ CloseStep[f] \in Steps \ {"none"}
  BY DEF Steps, TextFiles, CloseStep
<1>3. Move(c, f, CloseStep[f]) \/ Return(c, f, FALSE)
  BY <1>1 DEF OpenText
<1> USE DEF DeviceInv
<1>4. /\ step' \in [Creators -> Steps]
      /\ monitor' \in {"top", "image", "machine", "creating", "launching", "running"}
      /\ monitor' = "creating" <=> step'["monitor"] # "none"
      /\ importFailed' \in BOOLEAN /\ clicks' \in 0..MaxClicks
      /\ \A d \in Creators \ {c} : step'[d] = step[d]
      /\ step[c] = f /\ step'[c] \in {CloseStep[f], "none"}
  BY <1>2, <1>3, StepTypes
<1>5. DeviceType'
  <2>1. text' \in [TextFiles -> {"absent", "empty", "text"}] /\ over' \subseteq Creators
    BY <1>1 DEF OpenText, DeviceType
  <2>2. slips' \in 0..MaxSlips
    <3>1. slips \in 0..MaxSlips
      BY DEF DeviceType
    <3>2. slips' = slips \/ (slips < MaxSlips /\ slips' = slips + 1)
      BY <1>1 DEF OpenText, NoSlip, Slip
    <3> QED
      BY <3>1, <3>2, MachineAssumptions DEF MachineAssumptions
  <2>3. UNCHANGED <<links, metadata, lost>>
    BY <1>1 DEF OpenText
  <2> QED
    BY <1>4, <2>1, <2>2, <2>3 DEF DeviceType
<1>6. c \notin over
  BY <1>4 DEF Orderly, TextFiles
<1>7. ASSUME NEW g \in TextFiles, Accounted(g),
             g # f \/ DeviceComplete \/ \E d \in Creators \ {c} : step[d] # "none"
      PROVE  Accounted(g)'
  <2>0. \A d \in over : step'[d] = step[d]
    BY <1>4, <1>6 DEF DeviceType
  <2>1. CASE UNCHANGED <<text, over>>
    BY <1>1, <1>7, <2>0, <2>1 DEF OpenText, Accounted
  <2>2. CASE Move(c, f, CloseStep[f]) /\ text' = [text EXCEPT ![f] = "empty"]
    <3>1. over' = IF DeviceComplete \/ (\E d \in Creators \ {c} : step[d] # "none")
                    THEN over \cup {c} ELSE over
      BY <1>1, <2>2, <1>4 DEF OpenText, Move, Return, TextFiles, CloseStep, DeviceType
    <3>2. step'[c] = CloseStep[f]
      BY <2>2 DEF Move, DeviceType
    <3>3. CASE g = f
      BY <1>7, <3>1, <3>2, <3>3 DEF Accounted
    <3>4. CASE g # f
      BY <1>1, <1>7, <2>0, <2>2, <3>1, <3>4 DEF OpenText, Accounted, DeviceType
    <3> QED
      BY <3>3, <3>4
  <2> QED
    BY <1>1, <2>1, <2>2 DEF OpenText
<1>8. ASSUME NEW d \in Creators, step'[d] \in LateSteps \cup {"config"}
      PROVE  d # c /\ step[d] = step'[d]
  BY <1>4, <1>8 DEF LateSteps, TextFiles, CloseStep
<1>9. DeviceComplete' => DeviceComplete
  BY <1>1, <1>5 DEF OpenText, DeviceComplete, MetadataDiskExists, Opened, Links
<1>10. ASSUME NEW d \in Creators, step'[d] \in {"config", "configClose"}
       PROVE  Accounted("rootIni")'
  <2>1. CASE d = c
    BY <1>4, <1>7, <1>10, <2>1 DEF Orderly, TextFiles, CloseStep
  <2>2. CASE d # c
    BY <1>4, <1>7, <1>10, <2>2 DEF Orderly, TextFiles
  <2> QED
    BY <2>1, <2>2
<1>11. Orderly'
  <2>1. ASSUME NEW d \in Creators, step'[d] \in LateSteps PROVE \A g \in TextFiles : Accounted(g)'
    BY <1>7, <1>8, <2>1 DEF Orderly, LateSteps
  <2>2. \A d \in over' : step'[d] \in {"rootIniClose", "configClose"}
    <3>1. \A d \in over : step'[d] = step[d]
      BY <1>4, <1>6 DEF DeviceType
    <3>2. c \in over' => step'[c] = CloseStep[f]
      BY <1>1, <1>6 DEF OpenText, Move, DeviceType
    <3>3. over' \subseteq over \cup {c}
      BY <1>1 DEF OpenText
    <3> QED
      BY <3>1, <3>2, <3>3 DEF Orderly, TextFiles, CloseStep
  <2> QED
    BY <1>7, <1>9, <1>10, <2>1, <2>2 DEF Orderly
<1>12. Opened'
  <2>1. \A g \in TextFiles : text[g] # "absent" => text'[g] # "absent"
    BY <1>1 DEF OpenText, DeviceType
  <2>2. step'[c] = CloseStep[f] => text'[f] # "absent"
    BY <1>1, <1>4 DEF OpenText, Return, DeviceType, TextFiles, CloseStep
  <2>3. links' = links
    BY <1>1 DEF OpenText
  <2> QED
    BY <1>4, <2>1, <2>2, <2>3 DEF Opened, TextFiles, CloseStep, LateSteps
<1> QED
  BY <1>5, <1>11, <1>12

\* Closing a text file: its contents are written, or lost.
LEMMA CloseTextInv ==
    ASSUME DeviceInv, NEW c \in Creators,
           \/ CloseText(c, "rootIni", "rootIniClose", "config")
           \/ CloseText(c, "config", "configClose", "system")
    PROVE  DeviceInv'
<1> DEFINE After(f) == IF f = "rootIni" THEN "config" ELSE "system"
<1>1. PICK f \in TextFiles : CloseText(c, f, CloseStep[f], After(f))
  BY DEF TextFiles, CloseStep
<1>2. CloseStep[f] \in Steps \ {"none"} /\ After(f) \in Steps \ {"none"}
  BY DEF Steps, TextFiles, CloseStep
<1>3. Move(c, CloseStep[f], After(f))
  BY <1>1 DEF CloseText
<1> USE DEF DeviceInv
<1>4. /\ step' \in [Creators -> Steps]
      /\ monitor' \in {"top", "image", "machine", "creating", "launching", "running"}
      /\ monitor' = "creating" <=> step'["monitor"] # "none"
      /\ importFailed' \in BOOLEAN /\ clicks' \in 0..MaxClicks
      /\ \A d \in Creators \ {c} : step'[d] = step[d]
      /\ step[c] = CloseStep[f]
  <2> HIDE DEF After
  <2> QED
    BY <1>2, <1>3, StepTypes
<1>5. step'[c] = After(f)
  BY <1>3 DEF Move, DeviceType
<1>6. DeviceType'
  <2>1. /\ text' \in [TextFiles -> {"absent", "empty", "text"}]
        /\ over' \subseteq Creators /\ lost' \subseteq TextFiles
    BY <1>1 DEF CloseText, DeviceType
  <2>2. slips' \in 0..MaxSlips
    <3>1. slips \in 0..MaxSlips
      BY DEF DeviceType
    <3>2. slips' = slips \/ (slips < MaxSlips /\ slips' = slips + 1)
      BY <1>1 DEF CloseText, NoSlip, Slip
    <3> QED
      BY <3>1, <3>2, MachineAssumptions DEF MachineAssumptions
  <2>3. UNCHANGED <<links, metadata>>
    BY <1>1 DEF CloseText
  <2> QED
    BY <1>4, <2>1, <2>2, <2>3 DEF DeviceType
<1>7. Accounted(f)'
  BY <1>1 DEF CloseText, Accounted, DeviceType
<1>8. ASSUME NEW g \in TextFiles, Accounted(g) PROVE Accounted(g)'
  <2>1. CASE g = f
    BY <1>7, <2>1
  <2>2. CASE g # f
    <3>1. step[c] # CloseStep[g]
      BY <1>4, <2>2 DEF TextFiles, CloseStep
    <3>2. \A d \in over \ {c} : step'[d] = step[d]
      BY <1>4 DEF DeviceType
    <3>3. text'[g] = text[g] /\ (g \in lost => g \in lost') /\ over' = over \ {c}
      BY <1>1, <2>2 DEF CloseText, DeviceType
    <3> QED
      BY <1>8, <3>1, <3>2, <3>3 DEF Accounted
  <2> QED
    BY <2>1, <2>2
<1>9. \A g \in TextFiles : text[g] # "absent" => text'[g] # "absent"
  BY <1>1 DEF CloseText, DeviceType
<1>10. DeviceComplete' => DeviceComplete
  <2>1. text[f] # "absent"
    BY <1>4 DEF Opened, TextFiles, CloseStep
  <2> QED
    BY <1>1, <2>1 DEF CloseText, DeviceComplete, MetadataDiskExists, DeviceType
<1>11. step'[c] = "system" => \A g \in TextFiles : Accounted(g)'
  BY <1>4, <1>5, <1>7, <1>8 DEF Orderly, TextFiles, CloseStep
<1>12. step'[c] = "config" => Accounted("rootIni")'
  BY <1>5, <1>7 DEF TextFiles
<1>13. Orderly'
  <2>1. ASSUME NEW d \in Creators, step'[d] \in LateSteps PROVE \A g \in TextFiles : Accounted(g)'
    BY <1>4, <1>5, <1>8, <1>11, <2>1 DEF Orderly, LateSteps
  <2>2. ASSUME NEW d \in Creators, step'[d] \in {"config", "configClose"}
        PROVE  Accounted("rootIni")'
    BY <1>4, <1>5, <1>8, <1>12, <2>2 DEF Orderly, TextFiles
  <2>3. \A d \in over' : step'[d] \in {"rootIniClose", "configClose"}
    BY <1>1, <1>4 DEF CloseText, Orderly, DeviceType
  <2> QED
    BY <1>8, <1>10, <2>1, <2>2, <2>3 DEF Orderly
<1>14. Opened'
  <2>1. links' = links
    BY <1>1 DEF CloseText
  <2> QED
    BY <1>4, <1>5, <1>9, <2>1 DEF Opened, TextFiles, CloseStep, LateSteps
<1> QED
  BY <1>6, <1>13, <1>14

\* A step that touches no text file, of a creator that is past them or not yet
\* there: only one that is past them can complete the device.
LEMMA QuietStep ==
    ASSUME DeviceInv, UNCHANGED <<text, Ghosts>>, NEW c \in Creators,
           \A d \in Creators \ {c} : step'[d] = step[d],
           step[c] \notin {"rootIniClose", "configClose"},
           step'[c] \notin {"rootIniClose", "config", "configClose"},
           step'[c] \in LateSteps => step[c] \in LateSteps,
           DeviceComplete' => DeviceComplete \/ step[c] \in LateSteps,
           links' # {} => links # {} \/ step[c] \in LateSteps
    PROVE  Orderly' /\ Opened'
<1> USE DEF DeviceInv, Ghosts
<1>1. \A d \in over : d # c /\ step'[d] = step[d]
  BY DEF Orderly, DeviceType
<1>2. ASSUME NEW f \in TextFiles, Accounted(f) PROVE Accounted(f)'
  BY <1>1, <1>2 DEF Accounted
<1>3. Orderly'
  BY <1>1, <1>2 DEF Orderly, TextFiles
<1>4. Opened'
  BY DEF Opened
<1> QED
  BY <1>3, <1>4

\* A slip is counted against its bound.
LEMMA SlipType == DeviceType /\ (NoSlip \/ Slip) => slips' \in 0..MaxSlips
<1> SUFFICES ASSUME DeviceType, NoSlip \/ Slip PROVE slips' \in 0..MaxSlips
  OBVIOUS
<1>1. slips \in 0..MaxSlips
  BY DEF DeviceType
<1>2. slips' = slips \/ (slips < MaxSlips /\ slips' = slips + 1)
  BY DEF NoSlip, Slip
<1> QED
  BY <1>1, <1>2, MachineAssumptions DEF MachineAssumptions

\* The same for a step given by where it leads.
LEMMA QuietCreate ==
    ASSUME DeviceInv, NEW c \in Creators, NEW from \in LateSteps \cup {"directories"},
           NEW to \in LateSteps \cup {"rootIni"}, NEW ok \in BOOLEAN,
           Move(c, from, to) \/ Return(c, from, ok), NoSlip \/ Slip, UNCHANGED <<text, Ghosts>>,
           links' \subseteq Links, metadata' \in {"absent", "torn", "disk"},
           to \in LateSteps => from \in LateSteps,
           from = "directories" => UNCHANGED <<links, metadata>>
    PROVE  DeviceInv'
<1>1. from \in Steps \ {"none"} /\ to \in Steps \ {"none"}
  BY DEF LateSteps, Steps
<1> USE DEF DeviceInv
<1>2. /\ step' \in [Creators -> Steps]
      /\ monitor' \in {"top", "image", "machine", "creating", "launching", "running"}
      /\ monitor' = "creating" <=> step'["monitor"] # "none"
      /\ importFailed' \in BOOLEAN /\ clicks' \in 0..MaxClicks
      /\ \A d \in Creators \ {c} : step'[d] = step[d]
      /\ step[c] = from /\ step'[c] \in {to, "none"}
  BY <1>1, StepTypes
<1>3. DeviceType'
  BY <1>2, SlipType DEF DeviceType, Ghosts
<1>4. step[c] \notin {"rootIniClose", "configClose"}
  BY <1>2 DEF LateSteps
<1>5. step'[c] \notin {"rootIniClose", "config", "configClose"}
  BY <1>2 DEF LateSteps
<1>6. step'[c] \in LateSteps => step[c] \in LateSteps
  BY <1>2 DEF LateSteps
<1>7. DeviceComplete' => DeviceComplete \/ step[c] \in LateSteps
  BY <1>2 DEF DeviceComplete, MetadataDiskExists
<1>8. links' # {} => links # {} \/ step[c] \in LateSteps
  BY <1>2
<1> QED
  BY <1>2, <1>3, <1>4, <1>5, <1>6, <1>7, <1>8, QuietStep

\* Every step of macmu_create_default_machine keeps the invariant.
LEMMA CreateInv ==
    ASSUME DeviceInv, NEW c \in Creators, CreateStep(c)
    PROVE  DeviceInv'
<1> USE DEF LateSteps
<1>t. links \subseteq Links /\ metadata \in {"absent", "torn", "disk"}
  BY DEF DeviceInv, DeviceType
<1>1. CASE EnsureDirectories(c)
  <2>1. Move(c, "directories", "rootIni") \/ Return(c, "directories", FALSE)
    BY <1>1 DEF EnsureDirectories
  <2>2. UNCHANGED <<text, links, metadata, Ghosts>> /\ (NoSlip \/ Slip)
    BY <1>1 DEF EnsureDirectories, files
  <2>3. links' \subseteq Links /\ metadata' \in {"absent", "torn", "disk"}
    BY <1>t, <2>2
  <2>4. "rootIni" \notin LateSteps
    OBVIOUS
  <2> HIDE DEF LateSteps
  <2> QED
    BY <2>1, <2>2, <2>3, <2>4, QuietCreate
<1>2. CASE \/ OpenText(c, "rootIni", "rootIni", "rootIniClose")
           \/ OpenText(c, "config", "config", "configClose")
  BY <1>2, OpenTextInv
<1>3. CASE \/ CloseText(c, "rootIni", "rootIniClose", "config")
           \/ CloseText(c, "config", "configClose", "system")
  BY <1>3, CloseTextInv
<1>4. CASE Unlink(c, "system", "system", "systemLink")
  BY <1>4, <1>t, QuietCreate DEF Unlink
<1>5. CASE Unlink(c, "vendor", "vendor", "vendorLink")
  BY <1>5, <1>t, QuietCreate DEF Unlink
<1>6. CASE Symlink(c, "system", "systemLink", "vendor")
  <2>1. links' \subseteq Links /\ UNCHANGED <<text, metadata, Ghosts>> /\ (NoSlip \/ Slip)
    BY <1>6, <1>t DEF Symlink, Links
  <2>2. Move(c, "systemLink", "vendor") \/ Return(c, "systemLink", FALSE)
    BY <1>6 DEF Symlink
  <2> QED
    BY <1>t, <2>1, <2>2, QuietCreate
<1>7. CASE Symlink(c, "vendor", "vendorLink", "metadata")
  <2>1. links' \subseteq Links /\ UNCHANGED <<text, metadata, Ghosts>> /\ (NoSlip \/ Slip)
    BY <1>7, <1>t DEF Symlink, Links
  <2>2. Move(c, "vendorLink", "metadata") \/ Return(c, "vendorLink", FALSE)
    BY <1>7 DEF Symlink
  <2> QED
    BY <1>t, <2>1, <2>2, QuietCreate
<1>8. CASE CheckMetadata(c)
  BY <1>8, <1>t, QuietCreate DEF CheckMetadata, MetadataDiskExists
<1>9. CASE OpenCopy(c)
  BY <1>9, <1>t, QuietCreate DEF OpenCopy
<1>10. CASE CloseCopy(c)
  BY <1>10, <1>t, QuietCreate DEF CloseCopy
<1>11. CASE EnsureCache(c)
  BY <1>11, <1>t, QuietCreate DEF EnsureCache, files
<1> QED
  BY <1>1, <1>2, <1>3, <1>4, <1>5, <1>6, <1>7, <1>8, <1>9, <1>10, <1>11 DEF CreateStep

\* A crash ends every creator; what an `over' one had open is lost.
LEMMA DieInv == DeviceInv /\ Die => DeviceInv'
<1> SUFFICES ASSUME DeviceInv, Die PROVE DeviceInv'
  OBVIOUS
<1> USE DEF DeviceInv
<1>1. step' = [c \in Creators |-> "none"] /\ over' = {} /\ UNCHANGED files
  BY DEF Die
<1>2. ASSUME NEW f \in TextFiles, Accounted(f) PROVE Accounted(f)'
  BY <1>1, <1>2 DEF Die, Accounted, files
<1>3. DeviceType'
  <2>1. step' \in [Creators -> Steps] /\ step'["monitor"] = "none"
    BY <1>1 DEF Creators, Steps
  <2>2. lost' \subseteq TextFiles
    BY DEF Die, DeviceType
  <2> QED
    BY <1>1, <2>1, <2>2 DEF Die, DeviceType, files
<1>4. Orderly'
  BY <1>1, <1>2 DEF Orderly, DeviceComplete, MetadataDiskExists, files, LateSteps
<1>5. Opened'
  BY <1>1 DEF Opened, files, LateSteps
<1> QED
  BY <1>3, <1>4, <1>5

\* A caller lets c begin; the rest of the device is untouched.
LEMMA BeginInv ==
    ASSUME DeviceInv, UNCHANGED <<files, Ghosts>>, NEW c \in Creators,
           step' = [step EXCEPT ![c] = "directories"], step[c] = "none"
    PROVE  Orderly' /\ Opened'
<1>1. step'[c] = "directories" /\ \A d \in Creators \ {c} : step'[d] = step[d]
  BY DEF DeviceInv, DeviceType
<1>2. step[c] \notin {"rootIniClose", "configClose"}
  BY DEF LateSteps
<1> QED
  BY <1>1, <1>2, QuietStep DEF files, LateSteps, DeviceComplete, MetadataDiskExists

\* A step of a caller that leaves the creators alone.
LEMMA IdleInv ==
    ASSUME DeviceInv, UNCHANGED <<files, Ghosts, step>>
    PROVE  Orderly' /\ Opened'
BY DEF DeviceInv, Orderly, Opened, Accounted, DeviceComplete, MetadataDiskExists, files, Ghosts

\* While the job replaces the image it does not create the device.
JobInv == at # "idle" => step["job"] = "none"

\* The types survive a step of a caller.
LEMMA CallerTypes ==
    ASSUME DeviceInv, JobInv, UNCHANGED slips,
           ImportBegins \/ ImportStep \/ PrepareDevice \/ MonitorStep \/ QemuExits
    PROVE  DeviceInv' /\ JobInv'
<1> USE DEF DeviceInv, JobInv
<1>1. CASE ImportBegins
  <2>1. UNCHANGED <<files, Ghosts, step, monitor, clicks>> /\ importFailed' = FALSE
        /\ step["job"] = "none"
    BY <1>1 DEF ImportBegins, ImportInProgress
  <2> QED
    BY <2>1, IdleInv DEF DeviceType, files, Ghosts
<1>2. CASE ImportStep
  <2>1. UNCHANGED <<files, Ghosts, monitor, clicks>>
    BY <1>2 DEF ImportStep
  <2>2. at # "idle"
    BY <1>2 DEF ImportStep, CheckSource, ClearImporting, ClearPrevious, Stage, StageAcrossVolumes,
         Copy, Validate, Retire, Activate, Restore, Discard, Clean, Goto
  <2>3. CASE UNCHANGED step /\ importFailed' = (at' = "idle")
    BY <2>1, <2>2, <2>3, IdleInv DEF DeviceType, files, Ghosts
  <2>4. CASE Clean /\ step' = [step EXCEPT !["job"] = "directories"] /\ UNCHANGED importFailed
    <3>1. step' \in [Creators -> Steps] /\ step'["monitor"] = step["monitor"]
      BY <2>4 DEF DeviceType, Creators, Steps
    <3>2. at' = "idle"
      BY <2>4 DEF Clean, Goto
    <3>3. "job" \in Creators
      BY DEF Creators
    <3>4. DeviceType'
      BY <2>1, <2>4, <3>1 DEF DeviceType, files, Ghosts
    <3> QED
      BY <2>1, <2>2, <2>4, <3>2, <3>3, <3>4, BeginInv
  <2> QED
    BY <1>2, <2>3, <2>4 DEF ImportStep
<1>3. CASE PrepareDevice
  <2>1. UNCHANGED <<files, Ghosts, monitor, importFailed, at>>
    BY <1>3 DEF PrepareDevice, vars
  <2>2. step["main"] = "none" /\ step' = [step EXCEPT !["main"] = "directories"]
    BY <1>3 DEF PrepareDevice
  <2>3. /\ step' \in [Creators -> Steps] /\ step'["monitor"] = step["monitor"]
        /\ step'["job"] = step["job"] /\ "main" \in Creators
    BY <2>2 DEF DeviceType, Creators, Steps
  <2>4. clicks' \in 0..MaxClicks
    <3>1. clicks \in 0..MaxClicks
      BY DEF DeviceType
    <3> QED
      BY <1>3, <3>1, MachineAssumptions DEF PrepareDevice, MachineAssumptions
  <2>5. DeviceType'
    BY <2>1, <2>3, <2>4 DEF DeviceType, files, Ghosts
  <2> QED
    BY <2>1, <2>2, <2>3, <2>5, BeginInv
<1>4. CASE MonitorStep
  <2>1. UNCHANGED <<files, Ghosts, importFailed, clicks, at>>
    BY <1>4 DEF MonitorStep, TestFlags, TestImage, TestMachine, Launch, MonitorKeeps, vars
  <2>2. CASE /\ UNCHANGED step /\ monitor # "creating"
             /\ monitor' \in {"top", "image", "machine", "launching", "running"}
    BY <2>1, <2>2, IdleInv DEF DeviceType, files, Ghosts
  <2>3. CASE /\ monitor = "machine" /\ monitor' = "creating"
             /\ step' = [step EXCEPT !["monitor"] = "directories"]
    <3>1. /\ step' \in [Creators -> Steps] /\ step'["monitor"] = "directories"
          /\ step'["job"] = step["job"] /\ "monitor" \in Creators /\ step["monitor"] = "none"
      BY <2>3 DEF DeviceType, Creators, Steps
    <3>2. DeviceType'
      BY <2>1, <2>3, <3>1 DEF DeviceType, files, Ghosts
    <3> QED
      BY <2>1, <2>3, <3>1, <3>2, BeginInv
  <2> QED
    BY <1>4, <2>2, <2>3 DEF MonitorStep, TestFlags, TestImage, TestMachine, Launch
<1>5. CASE QemuExits
  <2>1. UNCHANGED <<files, Ghosts, step, importFailed, clicks, at>>
    BY <1>5 DEF QemuExits, vars
  <2> QED
    BY <1>5, <2>1, IdleInv DEF QemuExits, DeviceType, files, Ghosts
<1> QED
  BY <1>1, <1>2, <1>3, <1>4, <1>5

\* Every step of the composition keeps the invariant.
LEMMA StepDeviceInv == DeviceInv /\ JobInv /\ [MachineNext]_allVars => DeviceInv' /\ JobInv'
<1> SUFFICES ASSUME DeviceInv, JobInv, [MachineNext]_allVars PROVE DeviceInv' /\ JobInv'
  OBVIOUS
<1>1. CASE ImportBegins \/ ImportStep \/ PrepareDevice \/ MonitorStep \/ QemuExits
  <2>1. UNCHANGED slips
    BY <1>1 DEF ImportBegins, ImportStep, PrepareDevice, MonitorStep, TestFlags, TestImage,
         TestMachine, Launch, MonitorKeeps, QemuExits
  <2> QED
    BY <1>1, <2>1, CallerTypes
<1>2. CASE Die
  <2>1. at' = "idle"
    BY <1>2 DEF Die, Crash
  <2> QED
    BY <1>2, <2>1, DieInv DEF JobInv
<1>3. ASSUME NEW c \in Creators, CreateStep(c) PROVE DeviceInv' /\ JobInv'
  <2>1. at' = at
    BY <1>3, CreateKeepsImage DEF vars
  <2>2. step[c] # "none" /\ step'[c] \in Steps
        /\ \A d \in Creators \ {c} : step'[d] = step[d]
    BY <1>3 DEF CreateStep, EnsureDirectories, OpenText, CloseText, Unlink, Symlink,
         CheckMetadata, OpenCopy, CloseCopy, EnsureCache, Move, Return, DeviceInv, DeviceType, Steps
  <2>3. JobInv'
    BY <2>1, <2>2 DEF JobInv, Creators
  <2> QED
    BY <1>3, <2>3, CreateInv
<1>4. CASE UNCHANGED allVars
  <2>1. UNCHANGED <<files, Ghosts, step, monitor, importFailed, slips, clicks, at>>
    BY <1>4 DEF allVars, machineVars, vars
  <2> QED
    BY <2>1, IdleInv DEF DeviceInv, DeviceType, JobInv, files, Ghosts
<1> QED
  BY <1>1, <1>2, <1>3, <1>4 DEF MachineNext

\* The files of the device and the threads over them keep their types.
THEOREM MachineTypeCorrect == MachineSpec => []MachineTypeOK
<1>1. MachineInit => JobInv
  BY DEF MachineInit, Init, JobInv
<1>2. DeviceInv /\ TypeOK => MachineTypeOK
  BY DEF DeviceInv, MachineTypeOK
<1> QED
  BY <1>1, <1>2, InitDeviceInv, StepDeviceInv, DeviceKeepsStore, StoreTypeCorrect, PTL
     DEF MachineSpec

\* A device that macmu_machine_exists accepts has its configuration, for any
\* number of creators' failures, crashes and clicks, but for the two losses that
\* nobody notices.
THEOREM DeviceWhole == MachineSpec => []MachineWhole
<1>1. MachineInit => JobInv
  BY DEF MachineInit, Init, JobInv
<1>2. DeviceInv => MachineWhole
  BY DEF DeviceInv, Orderly, MachineWhole, MachineExists
<1> QED
  BY <1>1, <1>2, InitDeviceInv, StepDeviceInv, PTL DEF MachineSpec
=============================================================================
