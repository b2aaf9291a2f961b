---------------------------- MODULE AppDisplays ----------------------------
(***************************************************************************)
(* One application, one window, one virtual display: the transaction that  *)
(* the app delegate of shell/ui/macmu_shell.mm runs over two asynchronous  *)
(* backends, qemu (DISPLAY_ADD / DISPLAY_REMOVE over the control channel)  *)
(* and the agent inside Android (launch / close over the guest control     *)
(* connection).                                                            *)
(*                                                                         *)
(* Everything the delegate does runs on the main thread, one block at a    *)
(* time; the blocks wait in one FIFO main queue.  `sh` is the delegate's   *)
(* state together with the three queues it feeds: `ctl`, the control       *)
(* requests that qemu's main looper executes in order, `cmds`, the command *)
(* lines that the single agent thread executes in order, and `main`.  A    *)
(* method that other handlers call is an operator from one value of `sh`   *)
(* to the next, so that a handler is the composition of its calls.         *)
(*                                                                         *)
(* A package has one component here, so an application stands for both.    *)
(* Left out: layout, titles, status texts, the launch profile and the      *)
(* orientation poll (they change no binding); an APK transfer shows as     *)
(* "busy", its refusal of a command line.                                  *)
(***************************************************************************)
EXTENDS Naturals, Sequences, FiniteSets

CONSTANTS
    Apps,           \* application packages
    NoApp,          \* the display is bound to no application
    MaxDisplay,     \* kMaxUserDisplayId: user display ids are 1..MaxDisplay
    AddOutcomes,    \* what DISPLAY_ADD may do in qemu, see QemuAdd
    RetryOpen,      \* the user may close a window whose failed launch is
                    \* already being cleaned up
    QuickRelaunch,  \* the user may close a window, see its display removed and
                    \* launch again on it while its 0.2 s block is still due
    MaxLaunches,    \* bound: launches that reserve a display
    MaxResizes,     \* bound: rotations
    MaxFaults       \* bound: timeouts, disconnects, channel and qemu deaths

Displays == 1..MaxDisplay

ASSUME AppDisplaysAssumptions ==
    /\ NoApp \notin Apps
    /\ MaxDisplay \in Nat \ {0}
    /\ AddOutcomes \subseteq {"ok", "refused", "halfApplied"}
    /\ RetryOpen \in BOOLEAN /\ QuickRelaunch \in BOOLEAN
    /\ MaxLaunches \in Nat /\ MaxResizes \in Nat /\ MaxFaults \in Nat

VARIABLES
    sh,         \* the delegate and its queues, see ShellType
    timers,     \* 0.2 s launch blocks that dispatch_after still holds
    exists,     \* user displays that qemu has
    task,       \* where the application's task is: Stopped, Hidden or a display
    qemu,       \* "up" or "down": the child process
    pidKnown,   \* _qemuPid > 0
    channel,    \* "alive", "dead"
    monitor,    \* qemuMonitorLoop: "waiting", "resetting", "restarting"
    agent,      \* the guest control connection: "none", "live", or "stale"
                \* when qemu has died and the client has not noticed
    launches, resizes, faults

vars == <<sh, timers, exists, task, qemu, pidKnown, channel, monitor, agent,
          launches, resizes, faults>>
backend == <<exists, task, qemu, pidKnown, channel, monitor, agent>>
bounds == <<launches, resizes, faults>>

Stopped == MaxDisplay + 1
Hidden == 0

Requests ==
    [op : {"add"}, d : Displays, app : Apps, n : 1..MaxLaunches, live : BOOLEAN]
    \cup [op : {"resize", "remove"}, d : Displays, app : {NoApp}, n : {0}, live : BOOLEAN]
Commands == [op : {"launch", "close", "cleanup"}, d : Displays, app : Apps, live : BOOLEAN]
Blocks ==
    [kind : {"add"}, d : Displays, app : Apps, n : 1..MaxLaunches,
     res : {"ok", "error", "lost"}]
    \cup [kind : {"launch", "close", "cleanup"}, d : Displays, app : Apps,
          res : {"ok", "failed", "lost"}]
    \cup [kind : {"added", "removed", "resize"}, d : Displays]
    \cup [kind : {"connected", "disconnected", "reset"}]

ShellType ==
    [windows : SUBSET Displays,                  \* _displayWindows
     binding : [Displays -> Apps \cup {NoApp}],  \* _displayAppBindings
     appDisplay : [Apps -> Displays \cup {0}],   \* _appDisplayBindings, 0: none
     pending : SUBSET Apps,                      \* _pendingAppPackages
     inFlight : SUBSET Apps,                     \* _launchRequestsInFlight
     closing : SUBSET Apps,                      \* _closingAppPackages
     launchFailed : SUBSET Displays,             \* _closingLaunchFailures
     deferred : SUBSET Displays,                 \* _deferredLaunchCleanup
     resizing : SUBSET Displays,                 \* _displayResizePending
     removal : SUBSET Displays,                  \* _displayRemovalPending
     active : SUBSET Displays,                   \* _activeUserDisplayIds
     agentConnected : BOOLEAN,                   \* _agentConnected
     ctl : Seq(Requests), cmds : Seq(Commands), main : Seq(Blocks)]

TypeOK ==
    /\ sh \in ShellType
    /\ timers \subseteq [d : Displays, app : Apps, n : 1..MaxLaunches]
    /\ exists \subseteq Displays
    /\ task \in [Apps -> Displays \cup {Stopped, Hidden}]
    /\ qemu \in {"up", "down"} /\ pidKnown \in BOOLEAN /\ channel \in {"alive", "dead"}
    /\ monitor \in {"waiting", "resetting", "restarting"}
    /\ agent \in {"none", "live", "stale"}
    /\ launches \in 0..MaxLaunches /\ resizes \in 0..MaxResizes /\ faults \in 0..MaxFaults

NoShell ==
    [windows |-> {}, binding |-> [d \in Displays |-> NoApp],
     appDisplay |-> [a \in Apps |-> 0], pending |-> {}, inFlight |-> {}, closing |-> {},
     launchFailed |-> {}, deferred |-> {}, resizing |-> {}, removal |-> {}, active |-> {},
     agentConnected |-> FALSE, ctl |-> <<>>, cmds |-> <<>>, main |-> <<>>]

\* The first qemu is up and its control channel started; Android has not
\* finished booting, so no agent has connected.
Init ==
    /\ sh = NoShell
    /\ timers = {} /\ exists = {} /\ task = [a \in Apps |-> Stopped]
    /\ qemu = "up" /\ pidKnown = TRUE /\ channel = "alive" /\ monitor = "waiting"
    /\ agent = "none"
    /\ launches = 0 /\ resizes = 0 /\ faults = 0

-----------------------------------------------------------------------------
(* Methods that handlers call: each maps the delegate's state to the next. *)

\* The enumeration of a finite set of numbers in ascending order, which is how a
\* std::map visits its keys.
InOrder(S) ==
    {o \in [1..Cardinality(S) -> S] :
        /\ \A x \in S : \E k \in 1..Cardinality(S) : o[k] = x
        /\ \A j, k \in 1..Cardinality(S) : j < k => o[j] < o[k]}

Post(s, block) == [s EXCEPT !.main = Append(@, block)]
SendRequest(s, op, d, a, n) ==
    [s EXCEPT !.ctl = Append(@, [op |-> op, d |-> d, app |-> a, n |-> n, live |-> TRUE])]

\* GuestControlClient::request(): while an APK is being transferred the line
\* is refused at once instead of being written.
GuestCommand(s, op, d, a, busy) ==
    IF busy THEN Post(s, [kind |-> op, d |-> d, app |-> a, res |-> "failed"])
    ELSE [s EXCEPT !.cmds = Append(@, [op |-> op, d |-> d, app |-> a, live |-> TRUE])]

\* GuestControlClient::ready(): the client has a descriptor.
agentReady == agent # "none"

ReleaseId(s, d) == [s EXCEPT !.active = @ \ {d}]

\* Mutant: the application's flags outlive the binding.
UnbindKeepsFlags(s, d) ==
    LET a == s.binding[d] IN
    IF a = NoApp THEN s
    ELSE [s EXCEPT !.appDisplay[a] = IF @ = d THEN 0 ELSE @, !.binding[d] = NoApp]

Unbind(s, d) ==
    LET a == s.binding[d] IN
    IF a = NoApp THEN s
    ELSE [s EXCEPT !.appDisplay[a] = IF @ = d THEN 0 ELSE @,
                   !.pending = @ \ {a}, !.inFlight = @ \ {a}, !.closing = @ \ {a},
                   !.launchFailed = @ \ {d}, !.deferred = @ \ {d}, !.resizing = @ \ {d},
                   !.binding[d] = NoApp]

\* Mutant: a removal that cannot be sent frees the id at once.
RequestRemoveNoTombstone(s, d) ==
    CASE d \in s.removal -> s
      [] d \notin s.removal /\ channel = "alive" ->
            SendRequest([s EXCEPT !.removal = @ \cup {d}], "remove", d, NoApp, 0)
      [] OTHER -> ReleaseId(Unbind(s, d), d)

\* A removal whose completion nobody can report keeps the id reserved as a
\* tombstone, unless qemu is known to have exited.
RequestRemove(s, d) ==
    CASE d \in s.removal -> s
      [] d \notin s.removal /\ channel = "alive" ->
            SendRequest([s EXCEPT !.removal = @ \cup {d}], "remove", d, NoApp, 0)
      [] d \notin s.removal /\ channel # "alive" /\ pidKnown ->
            [s EXCEPT !.removal = @ \cup {d}]
      [] OTHER -> ReleaseId(Unbind(s, d), d)

\* A queued frame or a late DISPLAY_ADDED must not resurrect a closed window.
OpenWindow(s, d) ==
    IF s.binding[d] = NoApp \/ s.binding[d] \in s.closing \/ d \in s.removal THEN s
    ELSE [s EXCEPT !.windows = @ \cup {d}, !.active = @ \cup {d}]

\* windowWillClose: for a close that the delegate itself asked for.
CloseWindowSuppressed(s, d) ==
    IF d \notin s.windows THEN s
    ELSE LET u == Unbind([s EXCEPT !.windows = @ \ {d}], d) IN
         IF d \in u.removal THEN u ELSE ReleaseId(u, d)

Rollback(s, d) == CloseWindowSuppressed(RequestRemove(Unbind(s, d), d), d)

\* cleanupFailedLaunchForDisplay: stop whatever was started, then roll back.
CleanupFailedLaunch(s, d, a, busy) ==
    IF s.binding[d] # a THEN s
    ELSE LET c == [s EXCEPT !.pending = @ \ {a}, !.inFlight = @ \ {a},
                            !.closing = @ \cup {a}, !.deferred = @ \cup {d}] IN
         IF agentReady THEN GuestCommand(c, "cleanup", d, a, busy) ELSE c

\* Mutant: without an agent the display is removed under the running task.
CloseBoundAppNoAgentCheck(s, d, busy) ==
    LET a == s.binding[d]
        c == [s EXCEPT !.pending = @ \ {a}, !.inFlight = @ \ {a},
                       !.launchFailed = @ \ {d}, !.closing = @ \cup {a}]
    IN CASE a = NoApp -> RequestRemove(s, d)
         [] a # NoApp /\ ((a \in s.pending /\ a \notin s.inFlight) \/ ~agentReady) ->
               RequestRemove(c, d)
         [] OTHER -> GuestCommand(c, "close", d, a, busy)

\* closeBoundAppAndRemoveDisplay.  An agent that is not connected leaves the
\* application open: removing the display of a running task would move the
\* task to the hidden display 0.
CloseBoundApp(s, d, busy) ==
    LET a == s.binding[d]
        c == [s EXCEPT !.pending = @ \ {a}, !.inFlight = @ \ {a},
                       !.launchFailed = @ \ {d}, !.closing = @ \cup {a}]
    IN CASE a = NoApp -> RequestRemove(s, d)
         [] a # NoApp /\ a \in s.pending /\ a \notin s.inFlight -> RequestRemove(c, d)
         [] a # NoApp /\ ~(a \in s.pending /\ a \notin s.inFlight) /\ ~agentReady ->
               OpenWindow([c EXCEPT !.closing = @ \ {a}], d)
         [] OTHER -> GuestCommand(c, "close", d, a, busy)

-----------------------------------------------------------------------------
(* What the user does. *)

\* Mutant: the search for an id runs one past kMaxUserDisplayId.
FreeIdsPastEnd == (1..(MaxDisplay + 1)) \ (sh.active \cup sh.removal)
\* The ids that allocateUserDisplayId looks for; it takes the smallest.
FreeIds == Displays \ (sh.active \cup sh.removal)

\* launchApplicationComponent, up to the DISPLAY_ADD request.  An application
\* that is bound is only brought to the front.
Launch(a) ==
    /\ launches < MaxLaunches
    /\ sh.appDisplay[a] = 0
    /\ sh.agentConnected /\ channel = "alive"
    /\ \E d \in FreeIds :
          /\ \A e \in FreeIds : d <= e
          /\ QuickRelaunch \/ \A t \in timers : t.d # d
          /\ sh' = SendRequest([sh EXCEPT !.active = @ \cup {d}, !.binding[d] = a,
                                          !.appDisplay[a] = d, !.pending = @ \cup {a}],
                               "add", d, a, launches + 1)
    /\ launches' = launches + 1
    /\ UNCHANGED <<timers, backend, resizes, faults>>

\* windowWillClose: for a close by the user.
UserCloses(d) ==
    /\ d \in sh.windows
    /\ RetryOpen \/ d \notin sh.deferred
    /\ \E busy \in BOOLEAN :
          sh' = CloseBoundApp([sh EXCEPT !.windows = @ \ {d}], d, busy)
    /\ UNCHANGED <<timers, backend, bounds>>

\* resizeDisplay: the rotation of a shown display sends DISPLAY_ADD again.
Resize(d) ==
    /\ resizes < MaxResizes
    /\ d \in sh.windows /\ d \notin sh.resizing /\ d \notin sh.removal
    /\ sh.binding[d] # NoApp
    /\ channel = "alive"
    /\ sh' = SendRequest([sh EXCEPT !.resizing = @ \cup {d}], "resize", d, NoApp, 0)
    /\ resizes' = resizes + 1
    /\ UNCHANGED <<timers, backend, launches, faults>>

-----------------------------------------------------------------------------
(* Blocks of the main queue. *)

NextBlock(kind) == sh.main # <<>> /\ Head(sh.main).kind = kind
Popped == [sh EXCEPT !.main = Tail(@)]

\* The callback of DISPLAY_ADD.  A direct error releases the id; a timeout or
\* a dead channel is ambiguous and rolls back through DISPLAY_REMOVE.
AddError(s, d) == ReleaseId(Unbind(s, d), d)
AddDone ==
    /\ NextBlock("add")
    /\ LET b == Head(sh.main)
           opened == OpenWindow(Popped, b.d)
       IN \/ /\ b.res = "error"
             /\ sh' = AddError(Popped, b.d) /\ UNCHANGED timers
          \/ /\ b.res = "lost"
             /\ sh' = Rollback(Popped, b.d) /\ UNCHANGED timers
          \/ /\ b.res = "ok" /\ sh.appDisplay[b.app] # b.d
             /\ sh' = RequestRemove(Popped, b.d) /\ UNCHANGED timers
          \/ /\ b.res = "ok" /\ sh.appDisplay[b.app] = b.d /\ b.d \notin opened.windows
             /\ sh' = Rollback(opened, b.d) /\ UNCHANGED timers
          \/ /\ b.res = "ok" /\ sh.appDisplay[b.app] = b.d /\ b.d \in opened.windows
             /\ sh' = opened
             /\ timers' = timers \cup {[d |-> b.d, app |-> b.app, n |-> b.n]}
    /\ UNCHANGED <<backend, bounds>>

\* The delayed block, and launchComponent which it calls.
StillWanted(t) == sh.binding[t.d] = t.app /\ t.app \in sh.pending /\ t.app \notin sh.closing
\* Mutant: launchComponent returns silently when the agent is gone.
TimerFiresSilently(t) ==
    /\ t \in timers
    /\ timers' = timers \ {t}
    /\ IF StillWanted(t) /\ agentReady
       THEN \E busy \in BOOLEAN :
               sh' = GuestCommand([sh EXCEPT !.inFlight = @ \cup {t.app}], "launch", t.d, t.app,
                                   busy)
       ELSE sh' = sh
    /\ UNCHANGED <<backend, bounds>>
TimerFires(t) ==
    /\ t \in timers
    /\ timers' = timers \ {t}
    /\ LET s == [sh EXCEPT !.inFlight = @ \cup {t.app}] IN
       \/ ~StillWanted(t) /\ sh' = sh
       \/ /\ StillWanted(t) /\ agentReady
          /\ \E busy \in BOOLEAN : sh' = GuestCommand(s, "launch", t.d, t.app, busy)
       \/ /\ StillWanted(t) /\ ~agentReady
          /\ sh' = CleanupFailedLaunch(s, t.d, t.app, FALSE)
    /\ UNCHANGED <<backend, bounds>>

\* The callback of the launch command.
LaunchDone ==
    /\ NextBlock("launch")
    /\ LET b == Head(sh.main)
           s == [Popped EXCEPT !.inFlight = @ \ {b.app}]
       IN \/ sh.binding[b.d] # b.app /\ sh' = s
          \/ /\ sh.binding[b.d] = b.app /\ b.app \in sh.closing
             /\ sh' = IF b.res = "failed" THEN [s EXCEPT !.launchFailed = @ \cup {b.d}] ELSE s
          \/ /\ sh.binding[b.d] = b.app /\ b.app \notin sh.closing /\ b.res # "ok"
             /\ \E busy \in BOOLEAN : sh' = CleanupFailedLaunch(s, b.d, b.app, busy)
          \/ /\ sh.binding[b.d] = b.app /\ b.app \notin sh.closing /\ b.res = "ok"
             /\ sh' = [s EXCEPT !.pending = @ \ {b.app}]
    /\ UNCHANGED <<timers, backend, bounds>>

\* The callback of the close command that windowWillClose: sent.
\* Mutant: a failed close does not bring the window back.
CloseDoneNoReopen ==
    /\ NextBlock("close")
    /\ LET b == Head(sh.main) IN
       sh' = IF sh.binding[b.d] = b.app /\ (b.res = "ok" \/ b.d \in sh.launchFailed)
             THEN RequestRemove(Popped, b.d) ELSE Popped
    /\ UNCHANGED <<timers, backend, bounds>>
CloseDone ==
    /\ NextBlock("close")
    /\ LET b == Head(sh.main) IN
       \/ sh.binding[b.d] # b.app /\ sh' = Popped
       \/ /\ sh.binding[b.d] = b.app /\ (b.res = "ok" \/ b.d \in sh.launchFailed)
          /\ sh' = RequestRemove(Popped, b.d)
       \/ /\ sh.binding[b.d] = b.app /\ b.res # "ok" /\ b.d \notin sh.launchFailed
          /\ sh' = OpenWindow([Popped EXCEPT !.closing = @ \ {b.app}], b.d)
    /\ UNCHANGED <<timers, backend, bounds>>

\* The callback of the close command that cleanupFailedLaunch sent.
CleanupDone ==
    /\ NextBlock("cleanup")
    /\ LET b == Head(sh.main)
           owned == b.d \in sh.deferred /\ sh.binding[b.d] = b.app
       IN \/ (~owned \/ b.res # "ok") /\ sh' = Popped
          \/ /\ owned /\ b.res = "ok"
             /\ sh' = Rollback([Popped EXCEPT !.deferred = @ \ {b.d}], b.d)
    /\ UNCHANGED <<timers, backend, bounds>>

\* handleControlEvent, DISPLAY_ADDED.
DisplayAdded ==
    /\ NextBlock("added")
    /\ LET d == Head(sh.main).d IN
       sh' = IF sh.binding[d] = NoApp THEN RequestRemove(Popped, d) ELSE OpenWindow(Popped, d)
    /\ UNCHANGED <<timers, backend, bounds>>

\* handleControlEvent, DISPLAY_REMOVED: the event owns the release of the id.
Removed(s, d) ==
    LET u == Unbind([s EXCEPT !.removal = @ \ {d}], d) IN
    IF d \in u.windows THEN CloseWindowSuppressed(u, d) ELSE ReleaseId(u, d)
DisplayRemoved ==
    /\ NextBlock("removed")
    /\ sh' = Removed(Popped, Head(sh.main).d)
    /\ UNCHANGED <<timers, backend, bounds>>

\* The callback of the DISPLAY_ADD that resizeDisplay sent.
ResizeDone ==
    /\ NextBlock("resize")
    /\ sh' = [Popped EXCEPT !.resizing = @ \ {Head(sh.main).d}]
    /\ UNCHANGED <<timers, backend, bounds>>

\* presentFrameForDisplay: a frame of a bound display opens its window.
PresentFrame(d) ==
    /\ d \in exists /\ sh.binding[d] # NoApp /\ d \notin sh.windows
    /\ sh' = OpenWindow(sh, d) /\ sh' # sh
    /\ UNCHANGED <<timers, backend, bounds>>

\* cleanupFailedLaunchForDisplay for each deferred cleanup; `order` lists them.
ResumeCleanups(s, order, busy) ==
    LET apps == {s.binding[d] : d \in s.deferred}
        c == [s EXCEPT !.pending = @ \ apps, !.inFlight = @ \ apps, !.closing = @ \cup apps]
    IN CASE ~agentReady -> c
         [] agentReady /\ busy ->
               [c EXCEPT !.main = @ \o [k \in DOMAIN order |->
                    [kind |-> "cleanup", d |-> order[k], app |-> s.binding[order[k]],
                     res |-> "failed"]]]
         [] OTHER ->
               [c EXCEPT !.cmds = @ \o [k \in DOMAIN order |->
                    [op |-> "cleanup", d |-> order[k], app |-> s.binding[order[k]],
                     live |-> TRUE]]]
\* The connection callback: a new agent resumes the deferred cleanups.
AgentConnected ==
    /\ NextBlock("connected")
    /\ \E busy \in BOOLEAN : \E order \in InOrder(sh.deferred) :
          sh' = ResumeCleanups([Popped EXCEPT !.agentConnected = TRUE], order, busy)
    /\ UNCHANGED <<timers, backend, bounds>>
AgentDisconnected ==
    /\ NextBlock("disconnected")
    /\ sh' = [Popped EXCEPT !.agentConnected = FALSE]
    /\ UNCHANGED <<timers, backend, bounds>>

\* resetSecondaryDisplayStateAfterQemuExit; the monitor waits for the block.
Reset(s) == [NoShell EXCEPT !.ctl = s.ctl, !.cmds = s.cmds, !.main = s.main]
ResetAfterExit ==
    /\ NextBlock("reset")
    /\ sh' = Reset(Popped)
    /\ monitor' = "restarting"
    /\ UNCHANGED <<timers, exists, task, qemu, pidKnown, channel, agent, bounds>>

-----------------------------------------------------------------------------
(* qemu: the control receiver runs ADD and REMOVE on the main looper. *)

\* What the receiver writes back is read only while the channel lives, and an
\* answer is matched only while its request is still pending.
Reply(s, request, answer, events) ==
    IF channel = "dead" THEN s
    ELSE [s EXCEPT !.main = @ \o (IF request.live THEN answer ELSE <<>>) \o events]
AddAnswer(r, res) ==
    IF r.op = "add"
    THEN [kind |-> "add", d |-> r.d, app |-> r.app, n |-> r.n, res |-> res]
    ELSE [kind |-> "resize", d |-> r.d]

\* handle_display_add.  "halfApplied": setMultiDisplay has created the display
\* when it finds no pipe to the guest service and returns -EPIPE.
QemuAdd ==
    /\ qemu = "up" /\ sh.ctl # <<>> /\ Head(sh.ctl).op \in {"add", "resize"}
    /\ LET r == Head(sh.ctl)
           s == [sh EXCEPT !.ctl = Tail(@)]
       IN \/ /\ "ok" \in AddOutcomes
             /\ exists' = exists \cup {r.d}
             /\ sh' = Reply(s, r, <<AddAnswer(r, "ok")>>, <<[kind |-> "added", d |-> r.d]>>)
          \/ /\ "refused" \in AddOutcomes
             /\ exists' = exists
             /\ sh' = Reply(s, r, <<AddAnswer(r, "error")>>, <<>>)
          \/ /\ "halfApplied" \in AddOutcomes
             /\ exists' = exists \cup {r.d}
             /\ sh' = Reply(s, r, <<AddAnswer(r, "error")>>, <<>>)
    /\ UNCHANGED <<timers, task, qemu, pidKnown, channel, monitor, agent, bounds>>

\* handle_display_remove.  A task on the display moves to display 0.  A REMOVE
\* that fails leaves no event, and the id stays a tombstone.
QemuRemove ==
    /\ qemu = "up" /\ sh.ctl # <<>> /\ Head(sh.ctl).op = "remove"
    /\ LET r == Head(sh.ctl)
           s == [sh EXCEPT !.ctl = Tail(@)]
       IN \/ /\ exists' = exists \ {r.d}
             /\ task' = [a \in Apps |-> IF task[a] = r.d THEN Hidden ELSE task[a]]
             /\ sh' = Reply(s, r, <<>>, <<[kind |-> "removed", d |-> r.d]>>)
          \/ /\ sh' = s /\ UNCHANGED <<exists, task>>
    /\ UNCHANGED <<timers, qemu, pidKnown, channel, monitor, agent, bounds>>

-----------------------------------------------------------------------------
(* The agent executes one command line at a time. *)

Answer(s, c, res) ==
    IF c.live THEN Post(s, [kind |-> c.op, d |-> c.d, app |-> c.app, res |-> res]) ELSE s

AgentLaunch ==
    /\ agent # "stale" /\ sh.cmds # <<>> /\ Head(sh.cmds).op = "launch"
    /\ LET c == Head(sh.cmds)
           s == [sh EXCEPT !.cmds = Tail(@)]
       IN \/ /\ c.d \in exists
             /\ task' = [task EXCEPT ![c.app] = c.d]
             /\ sh' = Answer(s, c, "ok")
          \/ /\ sh' = Answer(s, c, "failed") /\ UNCHANGED task
    /\ UNCHANGED <<timers, exists, qemu, pidKnown, channel, monitor, agent, bounds>>

AgentClose ==
    /\ agent # "stale" /\ sh.cmds # <<>> /\ Head(sh.cmds).op \in {"close", "cleanup"}
    /\ LET c == Head(sh.cmds)
           s == [sh EXCEPT !.cmds = Tail(@)]
       IN \/ /\ task' = [task EXCEPT ![c.app] = Stopped]
             /\ sh' = Answer(s, c, "ok")
          \/ /\ sh' = Answer(s, c, "failed") /\ UNCHANGED task
    /\ UNCHANGED <<timers, exists, qemu, pidKnown, channel, monitor, agent, bounds>>

-----------------------------------------------------------------------------
(* Faults. *)

Fault == faults < MaxFaults /\ faults' = faults + 1 /\ UNCHANGED <<launches, resizes>>

\* ControlChannel sweeps a request that qemu has not answered in time; the
\* request itself is still executed later.
AddTimesOut(i) ==
    /\ Fault
    /\ i \in DOMAIN sh.ctl /\ sh.ctl[i].live /\ sh.ctl[i].op # "remove"
    /\ sh' = Post([sh EXCEPT !.ctl[i].live = FALSE], AddAnswer(sh.ctl[i], "lost"))
    /\ UNCHANGED <<timers, backend>>

\* What the pending tables run when requests `S` of a queue fail: their callbacks,
\* oldest first.
LostCommand(c) == [kind |-> c.op, d |-> c.d, app |-> c.app, res |-> "lost"]
LostCommands(S) ==
    {[k \in 1..Cardinality(S) |-> LostCommand(sh.cmds[o[k]])] : o \in InOrder(S)}
LostRequests(S) ==
    {[k \in 1..Cardinality(S) |-> AddAnswer(sh.ctl[o[k]], "lost")] : o \in InOrder(S)}
Dead(queue, S) == [i \in DOMAIN queue |-> IF i \in S THEN [queue[i] EXCEPT !.live = FALSE]
                                          ELSE queue[i]]
LiveCommands == {i \in DOMAIN sh.cmds : sh.cmds[i].live}
\* The shell gives a REMOVE no callback: the event reports its end.
LiveRequests == {i \in DOMAIN sh.ctl : sh.ctl[i].live /\ sh.ctl[i].op # "remove"}

\* GuestControlClient does the same.  Commands are sent in the order of the
\* queue and a launch waits longest (15 s, the closes 5 s), so one sweep takes
\* with a command every earlier one whose deadline cannot be later.
Patience(op) == IF op = "launch" THEN 15 ELSE 5
CommandTimesOut(i) ==
    LET swept == {j \in LiveCommands : /\ j <= i
                                       /\ Patience(sh.cmds[j].op) <= Patience(sh.cmds[i].op)}
    IN /\ Fault
       /\ i \in LiveCommands
       /\ \E lost \in LostCommands(swept) :
             sh' = [sh EXCEPT !.cmds = Dead(@, swept), !.main = @ \o lost]
       /\ UNCHANGED <<timers, backend>>

\* The agent's connection drops: pending commands fail, the ones the agent has
\* not read are gone, and the one it is executing may still take effect.
AgentDrops ==
    /\ agentReady /\ agent' = "none"
    /\ IF agent = "live" THEN Fault ELSE UNCHANGED bounds
    /\ \E k \in {0, 1}, lost \in LostCommands(LiveCommands) :
          /\ k <= Len(sh.cmds) /\ (agent = "stale" => k = 0)
          /\ sh' = [sh EXCEPT !.main = @ \o lost \o <<[kind |-> "disconnected"]>>,
                              !.cmds = [i \in 1..k |-> [sh.cmds[i] EXCEPT !.live = FALSE]]]
    /\ UNCHANGED <<timers, exists, task, qemu, pidKnown, channel, monitor>>

\* accept_thread publishes a new connection of the (again) running agent.
AgentConnects ==
    /\ agent = "none" /\ qemu = "up"
    /\ agent' = "live"
    /\ sh' = Post(sh, [kind |-> "connected"])
    /\ UNCHANGED <<timers, exists, task, qemu, pidKnown, channel, monitor, bounds>>

\* The reader thread of the channel ends: every pending request fails.  The
\* requests that qemu has received are still executed, without an answer.
ChannelDies ==
    /\ channel = "alive" /\ channel' = "dead"
    /\ IF qemu = "up" THEN Fault ELSE UNCHANGED bounds
    /\ \E lost \in LostRequests(LiveRequests) :
          sh' = [sh EXCEPT !.main = @ \o lost,
                           !.ctl = IF qemu = "up" THEN Dead(@, DOMAIN sh.ctl) ELSE <<>>]
    /\ UNCHANGED <<timers, exists, task, qemu, pidKnown, monitor, agent>>

QemuExits ==
    /\ qemu = "up" /\ qemu' = "down"
    /\ Fault
    /\ exists' = {} /\ task' = [a \in Apps |-> Stopped]
    /\ agent' = IF agent = "live" THEN "stale" ELSE agent
    /\ sh' = IF agent = "none" THEN [sh EXCEPT !.cmds = <<>>] ELSE sh
    /\ UNCHANGED <<timers, pidKnown, channel, monitor>>

\* qemuMonitorLoop: waitpid returns and _qemuPid becomes -1 ...
MonitorReaps ==
    /\ monitor = "waiting" /\ qemu = "down" /\ pidKnown
    /\ pidKnown' = FALSE
    /\ UNCHANGED <<sh, timers, exists, task, qemu, channel, monitor, agent, bounds>>

\* ... the channel is stopped, and the reset block is posted and awaited ...
MonitorResets ==
    /\ monitor = "waiting" /\ ~pidKnown
    /\ monitor' = "resetting" /\ channel' = "dead"
    /\ \E lost \in LostRequests(IF channel = "alive" THEN LiveRequests ELSE {}) :
          sh' = [sh EXCEPT !.ctl = <<>>, !.main = @ \o lost \o <<[kind |-> "reset"]>>]
    /\ UNCHANGED <<timers, exists, task, qemu, pidKnown, agent, bounds>>

\* ... and the loop launches the next qemu with a new channel.
MonitorRestarts ==
    /\ monitor = "restarting"
    /\ monitor' = "waiting" /\ channel' = "alive" /\ pidKnown' = TRUE /\ qemu' = "up"
    /\ UNCHANGED <<sh, timers, exists, task, agent, bounds>>

-----------------------------------------------------------------------------
MainNext ==
    \/ AddDone \/ LaunchDone \/ CloseDone \/ CleanupDone \/ DisplayAdded \/ DisplayRemoved
    \/ ResizeDone \/ AgentConnected \/ AgentDisconnected \/ ResetAfterExit
TimerNext == \E t \in timers : TimerFires(t)
UserNext ==
    \/ \E a \in Apps : Launch(a)
    \/ \E d \in Displays : UserCloses(d) \/ Resize(d) \/ PresentFrame(d)
QemuNext == QemuAdd \/ QemuRemove
AgentNext == AgentLaunch \/ AgentClose
MonitorNext == MonitorReaps \/ MonitorResets \/ MonitorRestarts
FaultNext ==
    \/ \E i \in DOMAIN sh.ctl : AddTimesOut(i)
    \/ \E i \in DOMAIN sh.cmds : CommandTimesOut(i)
    \/ AgentDrops \/ AgentConnects \/ ChannelDies \/ QemuExits

Next == MainNext \/ TimerNext \/ UserNext \/ QemuNext \/ AgentNext \/ MonitorNext \/ FaultNext

Spec == Init /\ [][Next]_vars

\* The main thread, its timers, qemu's looper, the agent and the monitor thread
\* keep running, and a dead connection is noticed.  Nothing is assumed of the
\* user, of a reconnect, or of a fault.
FairSpec ==
    /\ Spec
    /\ WF_vars(MainNext) /\ WF_vars(TimerNext) /\ WF_vars(QemuNext)
    /\ WF_vars(AgentNext) /\ WF_vars(MonitorNext)
    /\ WF_vars(agent = "stale" /\ AgentDrops) /\ WF_vars(qemu = "down" /\ ChannelDies)

-----------------------------------------------------------------------------
(* Properties. *)

Reserved == sh.active \cup sh.removal
Bound == {d \in Displays : sh.binding[d] # NoApp}

\* The package/display maps are inverse to each other, every window and every
\* per-application flag belongs to a bound pair, and an id that is taken is
\* either bound or being removed: no handler order leaks an id, leaves a
\* window without an application, or a flag that would poison the next launch.
BindingsConsistent ==
    /\ \A d \in Bound : sh.appDisplay[sh.binding[d]] = d
    /\ \A a \in Apps : sh.appDisplay[a] # 0 => sh.binding[sh.appDisplay[a]] = a
    /\ sh.windows \subseteq Bound /\ Bound \subseteq Reserved
    /\ \A a \in sh.pending \cup sh.inFlight \cup sh.closing : sh.appDisplay[a] # 0
    /\ sh.launchFailed \cup sh.deferred \cup sh.resizing \subseteq Bound
    /\ sh.active \subseteq Bound \cup sh.removal

\* An id that the next launch may take is clean: qemu has no display of that
\* id, no ADD or REMOVE for it is still to be executed, and no display event
\* of its previous owner is still queued for the main thread (the comment at
\* macmu_shell.mm:2785-2788).
FreeIdClean ==
    /\ exists \subseteq Reserved
    /\ channel = "alive" =>
          /\ \A i \in DOMAIN sh.ctl : sh.ctl[i].d \in Reserved
          /\ \A i \in DOMAIN sh.main :
                sh.main[i].kind \in {"added", "removed", "add"} => sh.main[i].d \in Reserved

\* No display is removed under a running task, which Android would move to
\* the hidden display 0 (macmu_shell.mm:2869-2871).
NoHiddenTask == \A a \in Apps : task[a] # Hidden

\* "Opening..." ends: a launch becomes open, is cleaned up or rolled back.
LaunchSettles == \A a \in Apps : a \in sh.pending ~> a \notin sh.pending

\* A user who closed a window gets an outcome: the removal is on its way, the
\* application is gone, or its window is back.
Limbo(a) ==
    /\ a \in sh.closing
    /\ sh.appDisplay[a] \notin sh.windows /\ sh.appDisplay[a] \notin sh.removal
CloseSettles == \A a \in Apps : Limbo(a) ~> ~Limbo(a)
=============================================================================
