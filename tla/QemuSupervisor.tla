--------------------------- MODULE QemuSupervisor ---------------------------
(***************************************************************************)
(* Who runs qemu and when: the monitor thread (qemuMonitorLoop) launches   *)
(* it, publishes its pid, reaps it and starts over; the main thread takes  *)
(* the user's image imports and Quit; performRuntimeShutdown runs on a     *)
(* detached thread that stops the guest control client, terminates qemu    *)
(* and joins the monitor.  They share only atomics (_shuttingDown,         *)
(* _qemuPid, the two import flags), each load and store of which is a step *)
(* of its own here.                                                        *)
(*                                                                         *)
(* An APK install holds writeMutex_ of the guest control client while it   *)
(* sends; an import job runs on a global dispatch queue.  A qemu that      *)
(* hangs neither reads its sockets nor reacts to SIGTERM.                  *)
(***************************************************************************)
EXTENDS Naturals, FiniteSets

CONSTANTS
    Sources,       \* what the user can import
    NoSource,      \* _pendingImageImportSourceURL == nil
    MayHang,       \* whether a running qemu may hang
    MaxImports,    \* bound: sources the user picks
    MaxInstalls,   \* bound: APK installs
    MaxCrashes     \* bound: exits of qemu nobody asked for, and failed launches

ASSUME SupervisorAssumptions ==
    /\ NoSource \notin Sources
    /\ MayHang \in BOOLEAN
    /\ MaxImports \in Nat /\ MaxInstalls \in Nat /\ MaxCrashes \in Nat

\* Every launch after the first follows an exit or a failed launch.
MaxPid == 1 + MaxCrashes

VARIABLES
    monitor,     \* where qemuMonitorLoop is
    child,       \* the qemu process: [pid, state, hung]
    qemuPid,     \* _qemuPid, 0 for -1
    launches,    \* pids handed out
    shuttingDown,\* _shuttingDown
    down,        \* performRuntimeShutdown: [at, pid]
    freed,       \* the channel objects are deleted
    exited,      \* the process has ended
    main,        \* main thread: [at, source, handed]; "idle" when it takes events
    inProgress,  \* _imageImportInProgress
    failed,      \* _imageImportFailed
    pending,     \* _pendingImageImportSourceURL
    panel,       \* _imageSourcePanelOpen
    jobs,        \* import jobs dispatched and not completed: [id, source, handed, at, ok]
    cancelled,   \* gImportCancelled
    image,       \* macmu_system_image_exists
    install,     \* the APK install: "idle", "begun", "sending", "sent"
    connected,   \* clientFd_ >= 0
    imports, installs, crashes   \* counts against the bounds

vars == <<monitor, child, qemuPid, launches, shuttingDown, down, freed, exited, main,
          inProgress, failed, pending, panel, jobs, cancelled, image, install, connected,
          imports, installs, crashes>>
process == <<monitor, child, qemuPid, launches>>
quitting == <<shuttingDown, down, freed, exited>>
importing == <<main, inProgress, failed, pending, panel, jobs, cancelled, image, imports>>
apk == <<install, connected, installs>>

NoChild == [pid |-> 0, state |-> "none", hung |-> FALSE]
Idle == [at |-> "idle", source |-> NoSource, handed |-> FALSE]
NewJob(n, s, h) == [id |-> n, source |-> s, handed |-> h, at |-> "queued", ok |-> FALSE]

Children == [pid : 0..MaxPid, state : {"none", "up", "zombie"}, hung : BOOLEAN]
Mains == [at : {"idle", "unfail", "handOver", "import", "unblock"},
          source : Sources \cup {NoSource}, handed : BOOLEAN]
Jobs == [id : 0..MaxImports, source : Sources, handed : BOOLEAN,
         at : {"queued", "extract", "install", "over"}, ok : BOOLEAN]

TypeOK ==
    /\ monitor \in {"top", "gate", "gateFailed", "image", "launch", "spawned", "published",
                    "wait", "reaped", "decide", "sync", "done"}
    /\ child \in Children
    /\ child.pid = 0 <=> child.state = "none"
    /\ qemuPid \in 0..MaxPid /\ launches \in 0..MaxPid
    /\ shuttingDown \in BOOLEAN /\ freed \in BOOLEAN /\ exited \in BOOLEAN
    /\ down \in [at : {"none", "client", "installs", "pid", "await", "join", "done"},
                 pid : 0..MaxPid]
    /\ main \in Mains
    /\ inProgress \in BOOLEAN /\ failed \in BOOLEAN /\ panel \in BOOLEAN
    /\ cancelled \in BOOLEAN /\ image \in BOOLEAN /\ connected \in BOOLEAN
    /\ pending \in Sources \cup {NoSource}
    /\ jobs \subseteq Jobs
    /\ install \in {"idle", "begun", "sending", "sent"}
    /\ imports \in 0..MaxImports /\ installs \in 0..MaxInstalls /\ crashes \in 0..MaxCrashes

\* applicationDidFinishLaunching: without an image, and when asked to, the
\* first import is under way before the supervisor thread starts.
Init ==
    /\ monitor = "top" /\ child = NoChild /\ qemuPid = 0 /\ launches = 0
    /\ shuttingDown = FALSE /\ down = [at |-> "none", pid |-> 0]
    /\ freed = FALSE /\ exited = FALSE
    /\ main = Idle /\ failed = FALSE /\ pending = NoSource /\ panel = FALSE
    /\ cancelled = FALSE /\ image \in BOOLEAN
    /\ \/ inProgress = FALSE /\ jobs = {}
       \/ ~image /\ inProgress = TRUE /\ \E s \in Sources : jobs = {NewJob(0, s, FALSE)}
    /\ install = "idle" /\ connected = FALSE
    /\ imports = 0 /\ installs = 0 /\ crashes = 0

-----------------------------------------------------------------------------
(* The monitor thread. *)

MonitorAt(from, to) ==
    /\ ~exited /\ monitor = from /\ monitor' = to
    /\ UNCHANGED <<quitting, importing, apk, crashes>>

\* The loop's condition, then the two flags, read one after the other: a
\* read that says "blocked" sleeps and starts the pass again.
MonitorTop ==
    /\ MonitorAt("top", IF shuttingDown THEN "done" ELSE "gate")
    /\ UNCHANGED <<child, qemuPid, launches>>

MonitorReadsInProgress ==
    /\ MonitorAt("gate", IF inProgress THEN "top" ELSE "gateFailed")
    /\ UNCHANGED <<child, qemuPid, launches>>

MonitorReadsFailed ==
    /\ MonitorAt("gateFailed", IF failed THEN "top" ELSE "image")
    /\ UNCHANGED <<child, qemuPid, launches>>

\* No image: sleep 2 s.  No virtual device yet: create it first.
MonitorChecksImage ==
    /\ MonitorAt("image", IF image THEN "launch" ELSE "top")
    /\ UNCHANGED <<child, qemuPid, launches>>

LaunchQemu ==
    /\ MonitorAt("launch", "spawned")
    /\ launches < MaxPid /\ launches' = launches + 1
    /\ child' = [pid |-> launches + 1, state |-> "up", hung |-> FALSE]
    /\ UNCHANGED qemuPid

\* Mutant: a failed launch ends the thread.
LaunchFailsGivesUp ==
    /\ ~exited /\ monitor = "launch" /\ monitor' = "done"
    /\ crashes < MaxCrashes /\ crashes' = crashes + 1
    /\ UNCHANGED <<child, qemuPid, launches, quitting, importing, apk>>

\* The device cannot be created or posix_spawn fails: sleep 2 s and retry.
LaunchFails ==
    /\ ~exited /\ monitor = "launch" /\ monitor' = "top"
    /\ crashes < MaxCrashes /\ crashes' = crashes + 1
    /\ UNCHANGED <<child, qemuPid, launches, quitting, importing, apk>>

\* The control channel is up; _qemuPid.store(pid).
PublishPid ==
    /\ MonitorAt("spawned", "published")
    /\ qemuPid' = child.pid
    /\ UNCHANGED <<child, launches>>

Terminated(c) == IF c.state = "up" /\ ~c.hung THEN [c EXCEPT !.state = "zombie"] ELSE c

\* A Quit that read _qemuPid before it was published is made up for here.
MonitorRechecksQuit ==
    /\ MonitorAt("published", "wait")
    /\ child' = IF shuttingDown THEN Terminated(child) ELSE child
    /\ UNCHANGED <<qemuPid, launches>>

\* waitpid(pid) returns.
Reap ==
    /\ child.state = "zombie"
    /\ MonitorAt("wait", "reaped")
    /\ child' = NoChild
    /\ UNCHANGED <<qemuPid, launches>>

\* The compare-exchange of _qemuPid, the notification, and the stop of the
\* control channel, which terminates (ControlChannel).
ClearPid ==
    /\ MonitorAt("reaped", "decide")
    /\ qemuPid' = 0
    /\ UNCHANGED <<child, launches>>

MonitorDecides ==
    /\ MonitorAt("decide", IF shuttingDown THEN "done" ELSE "sync")
    /\ UNCHANGED <<child, qemuPid, launches>>

\* dispatch_sync: the monitor waits until the main thread has reset the
\* display state, then starts over.
MonitorSyncs ==
    /\ main.at = "idle"
    /\ MonitorAt("sync", "top")
    /\ UNCHANGED <<child, qemuPid, launches>>

-----------------------------------------------------------------------------
(* The qemu process and the guest agent's connection. *)

\* qemu dies on its own: a crash, or Android powers off.
QemuExits ==
    /\ child.state = "up" /\ crashes < MaxCrashes
    /\ child' = [child EXCEPT !.state = "zombie"] /\ crashes' = crashes + 1
    /\ UNCHANGED <<monitor, qemuPid, launches, quitting, importing, apk>>

QemuHangs ==
    /\ MayHang /\ child.state = "up" /\ ~child.hung
    /\ child' = [child EXCEPT !.hung = TRUE]
    /\ UNCHANGED <<monitor, qemuPid, launches, quitting, importing, apk, crashes>>

ClientStopped == down.at \notin {"none", "client"}

AgentConnects ==
    /\ ~exited /\ ~ClientStopped /\ child.state = "up" /\ ~child.hung /\ ~connected
    /\ connected' = TRUE
    /\ UNCHANGED <<process, quitting, importing, install, installs, crashes>>

\* qemu's death closes the agent's socket.  The accept thread closes the
\* descriptor under writeMutex_, so a send under way fails first, and then
\* fails what is pending.
AgentDisconnects ==
    /\ ~exited /\ connected /\ child.state # "up"
    /\ connected' = FALSE /\ install' = IF install = "begun" THEN "begun" ELSE "idle"
    /\ UNCHANGED <<process, quitting, importing, installs, crashes>>

-----------------------------------------------------------------------------
(* The APK install queue; one operation at a time. *)

InstallAt(from, to) ==
    /\ ~exited /\ install = from /\ install' = to
    /\ UNCHANGED <<process, quitting, importing, connected, crashes>>

\* installApkURLs on the main thread, then the operation's own check.
BeginInstall ==
    /\ main.at = "idle" /\ ~shuttingDown /\ connected /\ installs < MaxInstalls
    /\ InstallAt("idle", "begun")
    /\ installs' = installs + 1

\* install_apk takes writeMutex_ and re-reads the descriptor under it.
InstallLocks ==
    /\ InstallAt("begun", IF connected THEN "sending" ELSE "idle")
    /\ UNCHANGED installs

\* The header and the payload are sent; with stopRequested_ the transfer
\* gives up after the chunk it is sending.  A guest that does not read
\* blocks the send.
InstallSends ==
    /\ child.state = "up" /\ ~child.hung
    /\ InstallAt("sending", IF down.at = "client" THEN "idle" ELSE "sent")
    /\ UNCHANGED installs

\* The agent's answer, or the sweep once its deadline (10 min) has passed.
InstallAnswered ==
    /\ InstallAt("sent", "idle")
    /\ UNCHANGED installs

-----------------------------------------------------------------------------
(* The main thread: imports. *)

MainFree == ~exited /\ main.at = "idle"

\* importSystemImage: the chooser opens; it is answered whenever the user
\* answers it.
OpenPanel ==
    /\ MainFree /\ qemuPid = 0 /\ ~panel
    /\ (inProgress /\ pending = NoSource) \/ ~image
    /\ panel' = TRUE
    /\ UNCHANGED <<process, quitting, main, inProgress, failed, pending, jobs, cancelled, image,
                   imports, apk, crashes>>

\* Mutant: a second import does not wait for the first.
ImportSourceAtOnce(s, handed) ==
    \/ /\ shuttingDown \/ qemuPid > 0
       /\ main' = Idle
       /\ UNCHANGED <<inProgress, pending, cancelled, jobs>>
    \/ /\ ~shuttingDown /\ qemuPid = 0
       /\ inProgress' = TRUE
       /\ main' = [at |-> "unfail", source |-> s, handed |-> handed]
       /\ UNCHANGED <<pending, cancelled, jobs>>

\* importSystemImageSource, for the user or at the end of a hand-over.  An
\* import under way is asked to stop and the source waits for it; otherwise
\* _imageImportInProgress is set, and ClearFailed is the rest.
ImportSource(s, handed) ==
    \/ /\ shuttingDown \/ qemuPid > 0
       /\ main' = Idle
       /\ UNCHANGED <<inProgress, pending, cancelled, jobs>>
    \/ /\ ~shuttingDown /\ qemuPid = 0 /\ inProgress
       /\ main' = Idle
       /\ pending' = s /\ cancelled' = TRUE
       /\ UNCHANGED <<inProgress, jobs>>
    \/ /\ ~shuttingDown /\ qemuPid = 0 /\ ~inProgress
       /\ inProgress' = TRUE
       /\ main' = [at |-> "unfail", source |-> s, handed |-> handed]
       /\ UNCHANGED <<pending, cancelled, jobs>>

\* The user answers the chooser, or picks the official image.
UserImports(s) ==
    /\ MainFree /\ imports < MaxImports
    /\ panel \/ (~image /\ ~inProgress /\ qemuPid = 0)
    /\ panel' = FALSE /\ imports' = imports + 1
    /\ ImportSource(s, FALSE)
    /\ UNCHANGED <<process, quitting, failed, image, apk, crashes>>

\* The second store, and the dispatch of the job.
ClearFailed ==
    /\ ~exited /\ main.at = "unfail"
    /\ failed' = FALSE /\ main' = Idle
    /\ jobs' = jobs \cup {NewJob(imports, main.source, main.handed)}
    /\ UNCHANGED <<process, quitting, inProgress, pending, panel, cancelled, image, imports, apk,
                   crashes>>

\* Mutant: the waiting source is dropped with the import it waited for.
ImportCompletesAlone(j) ==
    /\ MainFree /\ j.at = "over"
    /\ jobs' = jobs \ {j}
    /\ main' = [at |-> "unblock", source |-> NoSource, handed |-> FALSE] /\ failed' = ~j.ok
    /\ pending' = NoSource
    /\ UNCHANGED <<process, quitting, inProgress, panel, cancelled, image, imports, apk, crashes>>

\* The completion block.  With a source waiting: _imageImportFailed is set,
\* _imageImportInProgress cleared, and the waiting source imported.
\* Without: the outcome is stored first, then the flag cleared.
ImportCompletes(j) ==
    /\ MainFree /\ j.at = "over"
    /\ jobs' = jobs \ {j}
    /\ IF pending # NoSource
       THEN main' = [at |-> "handOver", source |-> pending, handed |-> TRUE] /\ failed' = TRUE
       ELSE main' = [at |-> "unblock", source |-> NoSource, handed |-> FALSE] /\ failed' = ~j.ok
    /\ pending' = NoSource
    /\ UNCHANGED <<process, quitting, inProgress, panel, cancelled, image, imports, apk, crashes>>

ClearInProgress ==
    /\ ~exited /\ main.at \in {"handOver", "unblock"}
    /\ inProgress' = FALSE
    /\ main' = IF main.at = "handOver" THEN [main EXCEPT !.at = "import"] ELSE Idle
    /\ UNCHANGED <<process, quitting, failed, pending, panel, jobs, cancelled, image, imports,
                   apk, crashes>>

ImportPending ==
    /\ ~exited /\ main.at = "import"
    /\ ImportSource(main.source, TRUE)
    /\ UNCHANGED <<process, quitting, failed, panel, image, imports, apk, crashes>>

-----------------------------------------------------------------------------
(* The import job, on a queue of its own. *)

JobAt(j, from, next) ==
    /\ ~exited /\ j \in jobs /\ j.at = from
    /\ jobs' = (jobs \ {j}) \cup {next}
    /\ UNCHANGED <<process, quitting, main, inProgress, failed, pending, panel, imports, apk,
                   crashes>>

\* macmu_extract_system_image_source begins by clearing the cancel flag.
JobStarts(j) ==
    /\ JobAt(j, "queued", [j EXCEPT !.at = "extract"])
    /\ cancelled' = FALSE
    /\ UNCHANGED image

\* Download, reconstruct, validate.  A cancel fails every later task.
JobExtracts(j) ==
    /\ \/ ~cancelled /\ JobAt(j, "extract", [j EXCEPT !.at = "install"])
       \/ JobAt(j, "extract", [j EXCEPT !.at = "over"])
    /\ UNCHANGED <<cancelled, image>>

\* macmu_replace_system_image_from_directory, then the default machine; a
\* failure of the first leaves the image that was there.
JobInstalls(j) ==
    /\ \E replaced, ok \in BOOLEAN :
          /\ ok => replaced
          /\ JobAt(j, "install", [j EXCEPT !.at = "over", !.ok = ok])
          /\ image' = (image \/ replaced)
    /\ UNCHANGED cancelled

-----------------------------------------------------------------------------
(* Quit. *)

\* applicationShouldTerminate and beginAsyncTermination: the import is
\* cancelled and the shutdown goes to a thread of its own.
UserQuits ==
    /\ MainFree /\ ~shuttingDown
    /\ shuttingDown' = TRUE /\ cancelled' = TRUE
    /\ down' = [at |-> "client", pid |-> 0]
    /\ UNCHANGED <<process, freed, exited, main, inProgress, failed, pending, panel, jobs, image,
                   imports, apk, crashes>>

DownAt(from, next) ==
    /\ ~exited /\ down.at = from /\ down' = next
    /\ UNCHANGED <<monitor, qemuPid, launches, shuttingDown, exited, importing, installs, crashes>>

\* GuestControlClient::stop() needs writeMutex_ before it can shut the
\* socket down; then it joins the accept thread and fails what is pending.
StopClient ==
    /\ install # "sending"
    /\ DownAt("client", [at |-> "installs", pid |-> 0])
    /\ connected' = FALSE /\ install' = IF install = "begun" THEN "begun" ELSE "idle"
    /\ UNCHANGED <<child, freed>>

\* Mutant: the operations are cancelled and not waited for.
WaitInstallsSkipped ==
    /\ DownAt("installs", [at |-> "pid", pid |-> 0])
    /\ UNCHANGED <<child, freed, install, connected>>

WaitInstalls ==
    /\ install = "idle"
    /\ DownAt("installs", [at |-> "pid", pid |-> 0])
    /\ UNCHANGED <<child, freed, install, connected>>

\* SIGTERM to the pid that is published, if one is.
TerminateQemu ==
    /\ DownAt("pid", IF qemuPid > 0 THEN [at |-> "await", pid |-> qemuPid]
                                    ELSE [at |-> "join", pid |-> 0])
    /\ child' = IF qemuPid > 0 /\ child.pid = qemuPid THEN Terminated(child) ELSE child
    /\ UNCHANGED <<freed, install, connected>>

QemuGone ==
    /\ down.pid # qemuPid
    /\ DownAt("await", [at |-> "join", pid |-> down.pid])
    /\ UNCHANGED <<child, freed, install, connected>>

\* Mutant: no SIGKILL after the SIGTERM.
KillQemuSkipped ==
    /\ down.pid = qemuPid
    /\ DownAt("await", [at |-> "join", pid |-> down.pid])
    /\ UNCHANGED <<child, freed, install, connected>>

\* Five seconds have passed: SIGKILL.
KillQemu ==
    /\ down.pid = qemuPid
    /\ DownAt("await", [at |-> "join", pid |-> down.pid])
    /\ child' = IF child.pid = qemuPid THEN [child EXCEPT !.state = "zombie"] ELSE child
    /\ UNCHANGED <<freed, install, connected>>

\* Mutant: the monitor thread is detached.
JoinMonitorDetached ==
    /\ DownAt("join", [at |-> "done", pid |-> 0])
    /\ freed' = TRUE
    /\ UNCHANGED <<child, install, connected>>

\* The monitor is joined and the channel objects are deleted.
JoinMonitor ==
    /\ monitor = "done"
    /\ DownAt("join", [at |-> "done", pid |-> 0])
    /\ freed' = TRUE
    /\ UNCHANGED <<child, install, connected>>

\* [NSApp terminate:] on the main queue; applicationShouldTerminate answers
\* NSTerminateNow.
Exit ==
    /\ MainFree /\ down.at = "done"
    /\ exited' = TRUE
    /\ UNCHANGED <<process, shuttingDown, down, freed, importing, apk, crashes>>

-----------------------------------------------------------------------------
MonitorNext ==
    \/ MonitorTop \/ MonitorReadsInProgress \/ MonitorReadsFailed \/ MonitorChecksImage
    \/ LaunchQemu \/ LaunchFails \/ PublishPid \/ MonitorRechecksQuit \/ Reap \/ ClearPid
    \/ MonitorDecides \/ MonitorSyncs
InstallNext == InstallLocks \/ InstallSends \/ InstallAnswered
MainNext ==
    \/ ClearFailed \/ ClearInProgress \/ ImportPending \/ Exit
    \/ \E j \in jobs : ImportCompletes(j)
JobNext == \E j \in jobs : JobStarts(j) \/ JobExtracts(j) \/ JobInstalls(j)
DownNext == StopClient \/ WaitInstalls \/ TerminateQemu \/ QemuGone \/ KillQemu \/ JoinMonitor
UserNext == OpenPanel \/ (\E s \in Sources : UserImports(s)) \/ UserQuits \/ BeginInstall
QemuNext == QemuExits \/ QemuHangs \/ AgentConnects \/ AgentDisconnects

Next == MonitorNext \/ InstallNext \/ MainNext \/ JobNext \/ DownNext \/ UserNext \/ QemuNext

Spec == Init /\ [][Next]_vars

\* Threads and queues make progress; neither the user nor a qemu that is
\* asked for nothing has to act.  The accept thread notices a dead peer.
FairSpec ==
    /\ Spec
    /\ WF_vars(MonitorNext) /\ WF_vars(InstallNext) /\ WF_vars(MainNext) /\ WF_vars(JobNext)
    /\ WF_vars(DownNext) /\ WF_vars(AgentDisconnects)

-----------------------------------------------------------------------------
(* Properties. *)

\* When the app has exited no qemu is left behind, running or unreaped,
\* however Quit met a launch, an exit or a restart.
NoOrphanQemu == exited => child.state = "none"

\* performRuntimeShutdown deletes the channel objects only once neither the
\* monitor nor an APK install can use them any more.
NoUseAfterFree == freed => monitor = "done" /\ install = "idle"

\* Two import jobs never run at once: they would stage into the same
\* directories and share one cancel flag.
OneImportJob == Cardinality(jobs) <= 1

\* One import is being handed over to the next, or the next one runs.
HandedOver == main.handed \/ \E j \in jobs : j.handed

\* What the comment in the completion block promises: a hand-over leaves no
\* window in which the supervisor passes its two checks and launches qemu.
NoLaunchWindow ==
    [][monitor = "gateFailed" /\ monitor' = "image" /\ image => ~HandedOver]_vars

\* A hung qemu was not published when Quit looked for it, so it only gets
\* the SIGTERM of MonitorRechecksQuit and nobody escalates.
Unescalated == down.at = "join" /\ down.pid = 0 /\ child.state = "up" /\ child.hung

\* stop() waits for the writeMutex_ of an install whose guest reads no more.
StopBehindTransfer == down.at = "client" /\ install = "sending" /\ child.hung

\* Quit ends the app, even with a qemu that hangs, but for the two cases
\* above.
QuitCompletesOtherwise == shuttingDown ~> (exited \/ Unescalated \/ StopBehindTransfer)

\* With an image and no import in the way, qemu is running before long,
\* the first time and after every exit and failed launch.
QemuComesUp ==
    (image /\ ~inProgress /\ ~failed)
        ~> (child.state = "up" \/ inProgress \/ failed \/ shuttingDown)

\* The source s is being imported, or nothing is owed to it any more.
Served(s) ==
    \/ pending \notin {s, NoSource}
    \/ \E j \in jobs : j.source = s
    \/ qemuPid > 0
    \/ shuttingDown

\* A source picked during an import is imported in the end, unless another
\* one is picked, qemu has started or the user quits.
PendingServed == \A s \in Sources : pending = s ~> Served(s)
=============================================================================
