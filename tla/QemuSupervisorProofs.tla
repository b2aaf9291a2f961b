------------------------ MODULE QemuSupervisorProofs ------------------------
(***************************************************************************)
(* Safety of the supervisor for any number of sources, imports, installs   *)
(* and crashes: no orphan, no use after free, one import at a time.        *)
(***************************************************************************)
EXTENDS QemuSupervisor, FiniteSetTheorems, TLAPS

\* The child lives exactly while the monitor is between its launch and its
\* waitpid.
ChildInv == child.state # "none" <=> monitor \in {"spawned", "published", "wait"}

\* The shutdown thread: Quit precedes it, the installs are over once it has
\* waited for them, it signals a pid that was published, and it deletes the
\* objects and lets the app exit only after the join.
DownInv ==
    /\ down.at # "none" => shuttingDown
    /\ down.at \in {"pid", "await", "join", "done"} => install = "idle"
    /\ down.at = "await" => down.pid > 0
    /\ down.at = "done" => monitor = "done"
    /\ freed \/ exited => down.at = "done"

\* A job exists only while _imageImportInProgress is set, and the main thread
\* starts one only when there is none.
JobInv ==
    /\ \A i, j \in jobs : i = j
    /\ jobs # {} => inProgress /\ main.at = "idle"
    /\ main.at = "unfail" => inProgress
    /\ main.at \in {"unfail", "handOver", "import"} => main.source \in Sources

SafeInv == ChildInv /\ DownInv /\ JobInv

SupervisorInv == TypeOK /\ SafeInv

\* applicationDidFinishLaunching establishes the invariant.
LEMMA InitSupervisorInv == Init => SupervisorInv
<1> SUFFICES ASSUME Init PROVE SupervisorInv
  OBVIOUS
<1> USE SupervisorAssumptions DEF Init
<1>1. Idle \in Mains /\ NoChild \in Children /\ NoChild.pid = 0 /\ NoChild.state = "none"
      /\ Idle.at = "idle"
  BY DEF Idle, NoChild, Mains, Children, MaxPid
<1>2. jobs \subseteq Jobs /\ (\A i, j \in jobs : i = j) /\ (jobs # {} => inProgress)
      /\ inProgress \in BOOLEAN
  <2>1. \A s \in Sources : NewJob(0, s, FALSE) \in Jobs
    BY DEF NewJob, Jobs
  <2>2. CASE inProgress = FALSE /\ jobs = {}
    BY <2>2
  <2>3. ASSUME NEW s \in Sources, inProgress = TRUE, jobs = {NewJob(0, s, FALSE)}
        PROVE  jobs \subseteq Jobs /\ (\A i, j \in jobs : i = j) /\ inProgress \in BOOLEAN
    BY <2>1, <2>3
  <2> QED
    BY <2>2, <2>3
<1>3. TypeOK
  <2>1. /\ shuttingDown \in BOOLEAN /\ freed \in BOOLEAN /\ exited \in BOOLEAN
        /\ failed \in BOOLEAN /\ panel \in BOOLEAN /\ cancelled \in BOOLEAN
        /\ image \in BOOLEAN /\ connected \in BOOLEAN
    OBVIOUS
  <2>2. down \in [at : {"none", "client", "installs", "pid", "await", "join", "done"},
                  pid : 0..MaxPid]
    BY DEF MaxPid
  <2>3. /\ qemuPid \in 0..MaxPid /\ launches \in 0..MaxPid /\ imports \in 0..MaxImports
        /\ installs \in 0..MaxInstalls /\ crashes \in 0..MaxCrashes
    BY DEF MaxPid
  <2>4. child \in Children /\ child.pid = 0 /\ child.state = "none" /\ main \in Mains
    BY <1>1
  <2>5. /\ monitor = "top" /\ install = "idle" /\ pending = NoSource
    OBVIOUS
  <2> QED
    BY <1>2, <2>1, <2>2, <2>3, <2>4, <2>5, ZenonT(20) DEF TypeOK
<1>4. SafeInv
  BY <1>1, <1>2 DEF SafeInv, ChildInv, DownInv, JobInv
<1> QED
  BY <1>3, <1>4 DEF SupervisorInv

\* What importSystemImageSource leaves has the right types.
LEMMA ImportSourceTypes ==
    ASSUME TypeOK, NEW s \in Sources, NEW h \in BOOLEAN, ImportSource(s, h)
    PROVE  /\ main' \in Mains /\ inProgress' \in BOOLEAN /\ cancelled' \in BOOLEAN
           /\ pending' \in Sources \cup {NoSource} /\ jobs' = jobs
<1> USE DEF ImportSource, TypeOK
<1>1. main' \in Mains
  <2>1. Idle \in Mains /\ [at |-> "unfail", source |-> s, handed |-> h] \in Mains
    BY DEF Mains, Idle
  <2> QED
    BY <2>1
<1>2. inProgress' \in BOOLEAN
  OBVIOUS
<1>3. cancelled' \in BOOLEAN
  OBVIOUS
<1>4. pending' \in Sources \cup {NoSource} /\ jobs' = jobs
  OBVIOUS
<1> QED
  BY <1>1, <1>2, <1>3, <1>4

\* Every step keeps the types.
LEMMA TypeStep == SupervisorInv /\ [Next]_vars => TypeOK'
<1> SUFFICES ASSUME SupervisorInv, [Next]_vars PROVE TypeOK'
  OBVIOUS
<1> USE SupervisorAssumptions DEF SupervisorInv, TypeOK, SafeInv, ChildInv, DownInv, JobInv,
        process, quitting, importing, apk, MaxPid, MainFree, ClientStopped
<1>0. Idle \in Mains /\ NoChild \in Children /\ NoChild.pid = 0 /\ NoChild.state = "none"
  BY DEF Idle, NoChild, Mains, Children
<1>1. CASE MonitorTop
  BY <1>0, <1>1 DEF MonitorTop, MonitorAt
<1>2. CASE MonitorReadsInProgress
  BY <1>0, <1>2 DEF MonitorReadsInProgress, MonitorAt
<1>3. CASE MonitorReadsFailed
  BY <1>0, <1>3 DEF MonitorReadsFailed, MonitorAt
<1>4. CASE MonitorChecksImage
  BY <1>0, <1>4 DEF MonitorChecksImage, MonitorAt
<1>5. CASE LaunchQemu
  <2>1. child' \in Children /\ (child'.pid = 0 <=> child'.state = "none")
    BY <1>5 DEF LaunchQemu, MonitorAt, Children
  <2> QED
    BY <2>1, <1>5 DEF LaunchQemu, MonitorAt
<1>6. CASE LaunchFails
  BY <1>0, <1>6 DEF LaunchFails
<1>7. CASE PublishPid
  <2>1. qemuPid' \in 0..MaxPid
    BY <1>7 DEF PublishPid, Children
  <2> QED
    BY <2>1, <1>7 DEF PublishPid, MonitorAt
<1>8. CASE MonitorRechecksQuit
  <2>1. child' \in Children /\ (child'.pid = 0 <=> child'.state = "none")
    BY <1>8 DEF MonitorRechecksQuit, MonitorAt, Terminated, Children
  <2> QED
    BY <2>1, <1>8 DEF MonitorRechecksQuit, MonitorAt, Terminated
<1>9. CASE Reap
  BY <1>0, <1>9 DEF Reap, MonitorAt
<1>10. CASE ClearPid
  BY <1>0, <1>10 DEF ClearPid, MonitorAt
<1>11. CASE MonitorDecides
  BY <1>0, <1>11 DEF MonitorDecides, MonitorAt
<1>12. CASE MonitorSyncs
  BY <1>0, <1>12 DEF MonitorSyncs, MonitorAt
<1>13. CASE InstallLocks
  BY <1>0, <1>13 DEF InstallLocks, InstallAt
<1>14. CASE InstallSends
  BY <1>0, <1>14 DEF InstallSends, InstallAt
<1>15. CASE InstallAnswered
  BY <1>0, <1>15 DEF InstallAnswered, InstallAt
<1>16. CASE ClearFailed
  <2>1. main.source \in Sources /\ main.handed \in BOOLEAN /\ imports \in 0..MaxImports
    BY <1>16 DEF ClearFailed, Mains
  <2>2. NewJob(imports, main.source, main.handed) \in Jobs
    BY <2>1 DEF NewJob, Jobs
  <2>3. jobs' \subseteq Jobs
    BY <2>2, <1>16 DEF ClearFailed
  <2>4. main' \in Mains /\ failed' \in BOOLEAN
    BY <1>0, <1>16 DEF ClearFailed
  <2> QED
    BY <2>3, <2>4, <1>16 DEF ClearFailed
<1>17. ASSUME NEW j \in jobs, ImportCompletes(j) PROVE TypeOK'
  <2>1. main' \in Mains
    <3>1. CASE pending # NoSource
      <4>1. pending \in Sources \cup {NoSource}
        OBVIOUS
      <4>2. main' = [at |-> "handOver", source |-> pending, handed |-> TRUE]
        BY <3>1, <1>17 DEF ImportCompletes
      <4> QED
        BY <4>1, <4>2 DEF Mains
    <3>2. CASE pending = NoSource
      <4>1. main' = [at |-> "unblock", source |-> NoSource, handed |-> FALSE]
        BY <3>2, <1>17 DEF ImportCompletes
      <4> QED
        BY <4>1 DEF Mains
    <3> QED
      BY <3>1, <3>2
  <2>2. failed' \in BOOLEAN
    BY <1>17 DEF ImportCompletes, Jobs
  <2>3. jobs' \subseteq Jobs
    BY <1>17 DEF ImportCompletes
  <2> QED
    BY <2>1, <2>2, <2>3, <1>17 DEF ImportCompletes
<1>18. CASE ClearInProgress
  <2>1. main' \in Mains
    <3>1. [main EXCEPT !.at = "import"] \in Mains
      BY DEF Mains
    <3> QED
      BY <1>0, <3>1, <1>18 DEF ClearInProgress
  <2>2. inProgress' \in BOOLEAN
    BY <1>18 DEF ClearInProgress
  <2> QED
    BY <2>1, <2>2, <1>18 DEF ClearInProgress
<1>19. CASE ImportPending
  <2>1. main.source \in Sources
    BY <1>19 DEF ImportPending
  <2>2. main' \in Mains /\ inProgress' \in BOOLEAN /\ cancelled' \in BOOLEAN
           /\ pending' \in Sources \cup {NoSource} /\ jobs' = jobs
    BY <2>1, ImportSourceTypes, <1>19 DEF ImportPending
  <2> QED
    BY <2>2, <1>19 DEF ImportPending
<1>20. CASE Exit
  BY <1>0, <1>20 DEF Exit
<1>21. ASSUME NEW j \in jobs, JobStarts(j) PROVE TypeOK'
  <2>1. [j EXCEPT !.at = "extract"] \in Jobs
    BY DEF Jobs
  <2>2. jobs' \subseteq Jobs
    BY <2>1, <1>21 DEF JobStarts, JobAt
  <2>3. cancelled' \in BOOLEAN
    BY <1>21 DEF JobStarts
  <2> QED
    BY <2>2, <2>3, <1>21 DEF JobStarts, JobAt
<1>22. ASSUME NEW j \in jobs, JobExtracts(j) PROVE TypeOK'
  <2>1. [j EXCEPT !.at = "install"] \in Jobs /\ [j EXCEPT !.at = "over"] \in Jobs
    BY DEF Jobs
  <2> QED
    BY <2>1, <1>22 DEF JobExtracts, JobAt
<1>23. ASSUME NEW j \in jobs, JobInstalls(j) PROVE TypeOK'
  <2>1. PICK replaced, ok \in BOOLEAN :
            /\ JobAt(j, "install", [j EXCEPT !.at = "over", !.ok = ok])
            /\ image' = (image \/ replaced)
    BY <1>23 DEF JobInstalls
  <2>2. [j EXCEPT !.at = "over", !.ok = ok] \in Jobs
    BY DEF Jobs
  <2>3. image' \in BOOLEAN
    BY <2>1
  <2> QED
    BY <2>1, <2>2, <2>3, <1>23 DEF JobInstalls, JobAt
<1>24. CASE StopClient
  <2>1. install' \in {"idle", "begun"} /\ connected' \in BOOLEAN
    BY <1>24 DEF StopClient
  <2> QED
    BY <2>1, <1>24 DEF StopClient, DownAt
<1>25. CASE WaitInstalls
  BY <1>0, <1>25 DEF WaitInstalls, DownAt
<1>26. CASE TerminateQemu
  <2>1. child' \in Children /\ (child'.pid = 0 <=> child'.state = "none")
    BY <1>26 DEF TerminateQemu, DownAt, Terminated, Children
  <2> QED
    BY <2>1, <1>26 DEF TerminateQemu, DownAt, Terminated
<1>27. CASE QemuGone
  BY <1>0, <1>27 DEF QemuGone, DownAt
<1>28. CASE KillQemu
  <2>1. child' \in Children /\ (child'.pid = 0 <=> child'.state = "none")
    BY <1>28 DEF KillQemu, DownAt, Children
  <2> QED
    BY <2>1, <1>28 DEF KillQemu, DownAt
<1>29. CASE JoinMonitor
  BY <1>0, <1>29 DEF JoinMonitor, DownAt
<1>30. CASE OpenPanel
  BY <1>0, <1>30 DEF OpenPanel
<1>31. ASSUME NEW s \in Sources, UserImports(s) PROVE TypeOK'
  <2>1. main' \in Mains /\ inProgress' \in BOOLEAN /\ cancelled' \in BOOLEAN
           /\ pending' \in Sources \cup {NoSource} /\ jobs' = jobs
    BY ImportSourceTypes, <1>31 DEF UserImports
  <2>2. imports' \in 0..MaxImports
    BY <1>31 DEF UserImports
  <2>3. panel' \in BOOLEAN
    BY <1>31 DEF UserImports
  <2> QED
    BY <2>1, <2>2, <2>3, <1>31 DEF UserImports
<1>32. CASE UserQuits
  BY <1>0, <1>32 DEF UserQuits
<1>33. CASE BeginInstall
  BY <1>0, <1>33 DEF BeginInstall, InstallAt
<1>34. CASE QemuExits
  <2>1. child' \in Children /\ (child'.pid = 0 <=> child'.state = "none")
    BY <1>34 DEF QemuExits, Children
  <2> QED
    BY <2>1, <1>34 DEF QemuExits
<1>35. CASE QemuHangs
  <2>1. child' \in Children /\ (child'.pid = 0 <=> child'.state = "none")
    BY <1>35 DEF QemuHangs, Children
  <2> QED
    BY <2>1, <1>35 DEF QemuHangs
<1>36. CASE AgentConnects
  BY <1>0, <1>36 DEF AgentConnects
<1>37. CASE AgentDisconnects
  <2>1. install' \in {"idle", "begun"} /\ connected' \in BOOLEAN
    BY <1>37 DEF AgentDisconnects
  <2> QED
    BY <2>1, <1>37 DEF AgentDisconnects
<1>38. CASE UNCHANGED vars
  BY <1>38 DEF vars
<1> QED
  BY <1>1, <1>2, <1>3, <1>4, <1>5, <1>6, <1>7, <1>8, <1>9, <1>10, <1>11, <1>12, <1>13,
     <1>14, <1>15, <1>16, <1>17, <1>18, <1>19, <1>20, <1>21, <1>22, <1>23, <1>24, <1>25,
     <1>26, <1>27, <1>28, <1>29, <1>30, <1>31, <1>32, <1>33, <1>34, <1>35, <1>36, <1>37,
     <1>38
     DEF Next, MonitorNext, InstallNext, MainNext, JobNext, DownNext, UserNext, QemuNext

\* Every step keeps the safety part.
LEMMA SafeStep == SupervisorInv /\ [Next]_vars => SafeInv'
<1> SUFFICES ASSUME SupervisorInv, [Next]_vars PROVE SafeInv'
  OBVIOUS
<1> USE SupervisorAssumptions DEF SupervisorInv, TypeOK, SafeInv, ChildInv, DownInv, JobInv,
        process, quitting, importing, apk, MainFree, ClientStopped, Children, Mains, Jobs
<1>1. CASE MonitorTop
  BY <1>1 DEF MonitorTop, MonitorAt
<1>2. CASE MonitorReadsInProgress
  BY <1>2 DEF MonitorReadsInProgress, MonitorAt
<1>3. CASE MonitorReadsFailed
  BY <1>3 DEF MonitorReadsFailed, MonitorAt
<1>4. CASE MonitorChecksImage
  BY <1>4 DEF MonitorChecksImage, MonitorAt
<1>5. CASE LaunchQemu
  BY <1>5 DEF LaunchQemu, MonitorAt
<1>6. CASE LaunchFails
  BY <1>6 DEF LaunchFails
<1>7. CASE PublishPid
  BY <1>7 DEF PublishPid, MonitorAt
<1>8. CASE MonitorRechecksQuit
  BY <1>8 DEF MonitorRechecksQuit, MonitorAt, Terminated
<1>9. CASE Reap
  BY <1>9 DEF Reap, MonitorAt, NoChild
<1>10. CASE ClearPid
  BY <1>10 DEF ClearPid, MonitorAt
<1>11. CASE MonitorDecides
  BY <1>11 DEF MonitorDecides, MonitorAt
<1>12. CASE MonitorSyncs
  BY <1>12 DEF MonitorSyncs, MonitorAt
<1>13. CASE InstallLocks
  BY <1>13 DEF InstallLocks, InstallAt
<1>14. CASE InstallSends
  BY <1>14 DEF InstallSends, InstallAt
<1>15. CASE InstallAnswered
  BY <1>15 DEF InstallAnswered, InstallAt
<1>16. CASE ClearFailed
  BY <1>16 DEF ClearFailed, Idle, NewJob
<1>17. ASSUME NEW j \in jobs, ImportCompletes(j) PROVE SafeInv'
  BY <1>17 DEF ImportCompletes
<1>18. CASE ClearInProgress
  BY <1>18 DEF ClearInProgress, Idle
<1>19. CASE ImportPending
  BY <1>19 DEF ImportPending, ImportSource, Idle
<1>20. CASE Exit
  BY <1>20 DEF Exit
<1>21. ASSUME NEW j \in jobs, JobStarts(j) PROVE SafeInv'
  BY <1>21 DEF JobStarts, JobAt
<1>22. ASSUME NEW j \in jobs, JobExtracts(j) PROVE SafeInv'
  BY <1>22 DEF JobExtracts, JobAt
<1>23. ASSUME NEW j \in jobs, JobInstalls(j) PROVE SafeInv'
  BY <1>23 DEF JobInstalls, JobAt
<1>24. CASE StopClient
  BY <1>24 DEF StopClient, DownAt
<1>25. CASE WaitInstalls
  BY <1>25 DEF WaitInstalls, DownAt
<1>26. CASE TerminateQemu
  BY <1>26 DEF TerminateQemu, DownAt, Terminated
<1>27. CASE QemuGone
  BY <1>27 DEF QemuGone, DownAt
<1>28. CASE KillQemu
  BY <1>28 DEF KillQemu, DownAt
<1>29. CASE JoinMonitor
  BY <1>29 DEF JoinMonitor, DownAt
<1>30. CASE OpenPanel
  BY <1>30 DEF OpenPanel
<1>31. ASSUME NEW s \in Sources, UserImports(s) PROVE SafeInv'
  BY <1>31 DEF UserImports, ImportSource, Idle
<1>32. CASE UserQuits
  BY <1>32 DEF UserQuits
<1>33. CASE BeginInstall
  BY <1>33 DEF BeginInstall, InstallAt
<1>34. CASE QemuExits
  BY <1>34 DEF QemuExits
<1>35. CASE QemuHangs
  BY <1>35 DEF QemuHangs
<1>36. CASE AgentConnects
  BY <1>36 DEF AgentConnects
<1>37. CASE AgentDisconnects
  BY <1>37 DEF AgentDisconnects
<1>38. CASE UNCHANGED vars
  BY <1>38 DEF vars
<1> QED
  BY <1>1, <1>2, <1>3, <1>4, <1>5, <1>6, <1>7, <1>8, <1>9, <1>10, <1>11, <1>12, <1>13,
     <1>14, <1>15, <1>16, <1>17, <1>18, <1>19, <1>20, <1>21, <1>22, <1>23, <1>24, <1>25,
     <1>26, <1>27, <1>28, <1>29, <1>30, <1>31, <1>32, <1>33, <1>34, <1>35, <1>36, <1>37,
     <1>38
     DEF Next, MonitorNext, InstallNext, MainNext, JobNext, DownNext, UserNext, QemuNext

\* The invariant holds throughout.
THEOREM Invariance == Spec => []SupervisorInv
<1>1. SupervisorInv /\ [Next]_vars => SupervisorInv'
  BY TypeStep, SafeStep DEF SupervisorInv
<1> QED
  BY InitSupervisorInv, <1>1, PTL DEF Spec

\* The state of the three threads, the child and the import jobs stays well
\* formed, whatever the order of their steps.
THEOREM SupervisorTypeCorrect == Spec => []TypeOK
BY Invariance, PTL DEF SupervisorInv

\* The app never exits leaving a qemu behind: performRuntimeShutdown lets it go
\* only after the join of the monitor, which ends only when it has reaped.
THEOREM NoOrphan == Spec => []NoOrphanQemu
<1>1. SupervisorInv => NoOrphanQemu
  BY DEF SupervisorInv, SafeInv, ChildInv, DownInv, NoOrphanQemu
<1> QED
  BY Invariance, <1>1, PTL

\* performRuntimeShutdown deletes the channel objects when neither the monitor
\* thread nor an APK install can use them.
THEOREM NoUseAfterDelete == Spec => []NoUseAfterFree
<1>1. SupervisorInv => NoUseAfterFree
  BY DEF SupervisorInv, SafeInv, DownInv, NoUseAfterFree
<1> QED
  BY Invariance, <1>1, PTL

\* importSystemImageSource never lets a second import job run beside another,
\* hand-overs and retries included.
THEOREM AtMostOneJob == Spec => []OneImportJob
<1>1. SupervisorInv => OneImportJob
  <2> SUFFICES ASSUME SupervisorInv PROVE Cardinality(jobs) <= 1
    BY DEF OneImportJob
  <2>1. CASE jobs = {}
    BY <2>1, FS_EmptySet
  <2>2. CASE jobs # {}
    <3>1. PICK j : j \in jobs
      BY <2>2
    <3>2. jobs = {j}
      BY <3>1 DEF SupervisorInv, SafeInv, JobInv
    <3> QED
      BY <3>2, FS_Singleton
  <2> QED
    BY <2>1, <2>2
<1> QED
  BY Invariance, <1>1, PTL
=============================================================================
