------------------------- MODULE AppDisplaysProofs -------------------------
(***************************************************************************)
(* Safety of the display transactions, for every number of applications,   *)
(* displays, launches, resizes and faults.                                 *)
(*                                                                         *)
(* The delegate's tables are only half of the state: the other half is     *)
(* what is still in the three queues.  The inductive invariant therefore   *)
(* says, for each request, command, answer, event and timer on its way,    *)
(* what it may find in the tables when it arrives.  Its parts are          *)
(* predicates of one value `s` of the delegate, so that the methods that a *)
(* handler composes can be followed one after the other.                   *)
(***************************************************************************)
EXTENDS AppDisplays, SequenceTheorems, FiniteSetTheorems, TLAPS

(* What is on its way. *)

ReservedIn(s) == s.active \cup s.removal
DisplayKinds == {"add", "added", "removed"}

\* The callback of a display's launch is still to come: its request is live or
\* its block is queued.
AddPending(s, d) ==
    \/ \E i \in DOMAIN s.ctl : s.ctl[i].op = "add" /\ s.ctl[i].live /\ s.ctl[i].d = d
    \/ \E i \in DOMAIN s.main : s.main[i].kind = "add" /\ s.main[i].d = d

\* qemu has not created the display: the request is live, or was refused.
NotCreated(s, d) ==
    \/ \E i \in DOMAIN s.ctl : s.ctl[i].op = "add" /\ s.ctl[i].live /\ s.ctl[i].d = d
    \/ \E i \in DOMAIN s.main :
          s.main[i].kind = "add" /\ s.main[i].res = "error" /\ s.main[i].d = d

\* A launch command whose answer is still to come.
LaunchPending(s, d) ==
    \/ \E i \in DOMAIN s.cmds : s.cmds[i].op = "launch" /\ s.cmds[i].live /\ s.cmds[i].d = d
    \/ \E i \in DOMAIN s.main : s.main[i].kind = "launch" /\ s.main[i].d = d

\* A launch command, answered or not, that may still start or has started a
\* task on the display.
Occupied(s, d) ==
    \/ \E a \in Apps : task[a] = d
    \/ \E i \in DOMAIN s.cmds : s.cmds[i].op = "launch" /\ s.cmds[i].d = d

\* A close command whose answer is still to come.
ClosePending(s, d) ==
    \/ \E i \in DOMAIN s.cmds : s.cmds[i].op = "close" /\ s.cmds[i].live /\ s.cmds[i].d = d
    \/ \E i \in DOMAIN s.main : s.main[i].kind = "close" /\ s.main[i].d = d

\* Nothing is started or being stopped on the display.
Unused(s, d) == ~Occupied(s, d) /\ ~LaunchPending(s, d) /\ ~ClosePending(s, d)

\* Nothing is on its way that counts on the binding of the display.
Idle(s, d) == Unused(s, d) \/ s.binding[d] = NoApp

-----------------------------------------------------------------------------
(* The parts of the invariant. *)

\* The two maps are inverse, and flags belong to bound pairs.
Tables(s) ==
    /\ \A d \in Displays : s.binding[d] # NoApp =>
          /\ s.appDisplay[s.binding[d]] = d
          /\ d \in s.active
          /\ d \in s.removal \cup s.deferred \cup s.launchFailed => s.binding[d] \notin s.pending
          /\ d \in s.deferred => s.binding[d] \in s.closing /\ s.binding[d] \notin s.inFlight
    /\ \A a \in Apps : s.appDisplay[a] # 0 => s.binding[s.appDisplay[a]] = a
    /\ \A a \in s.pending \cup s.inFlight \cup s.closing : s.appDisplay[a] # 0
    /\ \A d \in s.launchFailed \cup s.deferred \cup s.resizing : s.binding[d] # NoApp
    /\ s.pending \cap s.closing = {}

\* No id is taken for nothing, and every window shows a bound display.  A method
\* may break this for the display it works on until it returns.
SettledAt(s, d) ==
    /\ d \in s.active => s.binding[d] # NoApp \/ d \in s.removal
    /\ d \in s.windows => s.binding[d] # NoApp /\ d \notin s.removal
SettledBut(s, d) == \A e \in Displays : e # d => SettledAt(s, e)
Settled(s) == \A d \in Displays : SettledAt(s, d)

\* Nothing of a former use meets a free id.
Owned(s) ==
    /\ exists \subseteq ReservedIn(s)
    /\ qemu = "up" \/ channel = "alive" => \A i \in DOMAIN s.ctl : s.ctl[i].d \in ReservedIn(s)
    /\ channel = "alive" => \A i \in DOMAIN s.main :
          s.main[i].kind \in DisplayKinds => s.main[i].d \in ReservedIn(s)

\* A REMOVE is the last request for its display and DISPLAY_REMOVED the last event.
RemoveLast(s) ==
    /\ \A i \in DOMAIN s.ctl : s.ctl[i].op = "remove" =>
          /\ s.ctl[i].d \in s.removal
          /\ \A j \in DOMAIN s.ctl : j > i => s.ctl[j].d # s.ctl[i].d
    /\ \A i \in DOMAIN s.main : s.main[i].kind = "removed" =>
          /\ s.main[i].d \in s.removal /\ s.main[i].d \notin exists
          /\ \A j \in DOMAIN s.ctl : s.ctl[j].d # s.main[i].d
          /\ \A j \in DOMAIN s.main :
                j > i /\ s.main[j].kind \in DisplayKinds => s.main[j].d # s.main[i].d

\* An ADD that qemu has not executed, or has refused, is the only trace of its display.
AddAlone(s) ==
    /\ \A i \in DOMAIN s.ctl : s.ctl[i].op = "add" /\ s.ctl[i].live =>
          /\ s.ctl[i].d \notin exists /\ s.ctl[i].d \notin s.windows
          /\ \A j \in DOMAIN s.ctl : j # i => s.ctl[j].d # s.ctl[i].d
          /\ \A j \in DOMAIN s.main :
                s.main[j].kind \in DisplayKinds => s.main[j].d # s.ctl[i].d
    /\ \A i \in DOMAIN s.main : s.main[i].kind = "add" /\ s.main[i].res = "error" =>
          /\ s.main[i].d \notin exists /\ s.main[i].d \notin s.windows
          /\ \A j \in DOMAIN s.ctl : s.ctl[j].d # s.main[i].d
          /\ \A j \in DOMAIN s.main :
                j # i /\ s.main[j].kind \in DisplayKinds => s.main[j].d # s.main[i].d

\* Until the ADD is answered nothing is started on the display, and its
\* application is pending unless the user has closed the window meanwhile.
Fresh(s, d, a) ==
    /\ s.binding[d] \in {a, NoApp}
    /\ s.binding[d] = a => /\ a \notin s.inFlight
                           /\ a \in s.pending \/ (a \in s.closing /\ d \notin s.windows)
    /\ \A t \in timers : t.d # d
    /\ d \notin s.deferred \cup s.launchFailed
    /\ Unused(s, d)
AddsFresh(s) ==
    /\ \A i \in DOMAIN s.ctl :
          s.ctl[i].op = "add" /\ s.ctl[i].live => Fresh(s, s.ctl[i].d, s.ctl[i].app)
    /\ \A i \in DOMAIN s.main :
          s.main[i].kind = "add" => Fresh(s, s.main[i].d, s.main[i].app)
    /\ \A i, j \in DOMAIN s.main :
          i # j /\ s.main[i].kind = "add" /\ s.main[j].kind = "add" => s.main[i].d # s.main[j].d

\* A display has one 0.2 s block, and nothing runs there when it is wanted.
Wanted(s, t) == s.binding[t.d] = t.app /\ t.app \in s.pending
TimersFirst(s) ==
    /\ \A t, u \in timers : t.d = u.d => t = u
    /\ \A t \in timers : Wanted(s, t) => t.app \notin s.inFlight /\ Unused(s, t.d)

\* What was asked of the agent before a reset is answered before the delegate
\* hears of a new agent, and nothing is bound until then.
Cold(s) == (\A d \in Displays : s.binding[d] = NoApp) /\ s.agentConnected = FALSE
ColdQueue(s) ==
    /\ Cold(s) /\ agent = "stale"
    /\ \A i \in DOMAIN s.main : s.main[i].kind # "connected"
ColdBlock(s, i) ==
    Cold(s) /\ \A j \in DOMAIN s.main : j < i => s.main[j].kind # "connected"

\* A task runs, or is being started, on the display bound to its application.
Running(s, d, a) ==
    /\ s.binding[d] = a /\ d \notin s.removal /\ d \notin s.launchFailed
    /\ a \in s.pending => a \in s.inFlight
LaunchesBound(s) ==
    /\ \A a \in Apps : task[a] \in Displays => Running(s, task[a], a)
    /\ \A i \in DOMAIN s.cmds : s.cmds[i].op = "launch" =>
          Running(s, s.cmds[i].d, s.cmds[i].app) \/ ColdQueue(s)
    /\ \A i \in DOMAIN s.main : s.main[i].kind = "launch" =>
          Running(s, s.main[i].d, s.main[i].app) \/ ColdBlock(s, i)
    /\ \A d \in s.deferred : ~LaunchPending(s, d)

\* A display is launched on once, and answers come in order.
LaunchOnce(s) ==
    /\ \A i, j \in DOMAIN s.cmds :
          i # j /\ s.cmds[i].op = "launch" /\ s.cmds[j].op = "launch" => s.cmds[i].d # s.cmds[j].d
    /\ \A i, j \in DOMAIN s.main :
          i # j /\ s.main[i].kind = "launch" /\ s.main[j].kind = "launch" =>
             s.main[i].d # s.main[j].d
    /\ \A i \in DOMAIN s.cmds : s.cmds[i].op = "launch" =>
          /\ \A a \in Apps : task[a] # s.cmds[i].d
          /\ s.cmds[i].live => \A j \in DOMAIN s.main :
                s.main[j].kind = "launch" => s.main[j].d # s.cmds[i].d
          /\ ~s.cmds[i].live => \A j \in DOMAIN s.cmds : j < i => ~s.cmds[j].live
    /\ \A i \in DOMAIN s.main : s.main[i].kind = "launch" /\ s.main[i].res = "failed" =>
          ~Occupied(s, s.main[i].d)

\* While a close is under way the application is closing, without a window.
Closing(s, d, a) ==
    /\ s.binding[d] = a /\ a \in s.closing
    /\ d \notin s.windows /\ d \notin s.removal /\ d \notin s.deferred
ClosesBound(s) ==
    /\ \A i \in DOMAIN s.cmds : s.cmds[i].op = "close" /\ s.cmds[i].live =>
          /\ Closing(s, s.cmds[i].d, s.cmds[i].app) \/ ColdQueue(s)
          /\ \A j \in DOMAIN s.cmds :
                /\ j > i /\ s.cmds[j].op = "launch" => s.cmds[j].d # s.cmds[i].d
                /\ j # i /\ s.cmds[j].op = "close" /\ s.cmds[j].live =>
                      s.cmds[j].d # s.cmds[i].d
          /\ \A j \in DOMAIN s.main : s.main[j].kind = "close" => s.main[j].d # s.cmds[i].d
    /\ \A i \in DOMAIN s.main : s.main[i].kind = "close" =>
          /\ Closing(s, s.main[i].d, s.main[i].app) \/ ColdBlock(s, i)
          /\ \A j \in DOMAIN s.main :
                j # i /\ s.main[j].kind = "close" => s.main[j].d # s.main[i].d

\* When a close or a cleanup has succeeded the task is stopped, unless a later
\* launch, whose answer follows, has started it again.
StopsHold(s) ==
    \A i \in DOMAIN s.main :
        /\ s.main[i].kind = "close" /\ s.main[i].res = "ok" =>
              /\ ~Occupied(s, s.main[i].d)
              /\ \A j \in DOMAIN s.main :
                    j > i /\ s.main[j].kind = "launch" => s.main[j].d # s.main[i].d
        /\ s.main[i].kind = "cleanup" /\ s.main[i].res = "ok" =>
              \/ \E j \in DOMAIN s.main :
                    j > i /\ s.main[j].kind = "launch" /\ s.main[j].d = s.main[i].d
              \/ /\ task[s.main[i].app] # s.main[i].d
                 /\ \A j \in DOMAIN s.cmds :
                       /\ s.cmds[j].op = "launch" /\ ~s.cmds[j].live
                       /\ s.cmds[j].app = s.main[i].app
                       => s.cmds[j].d # s.main[i].d

\* The reset is the last block of the old qemu.
ResetLast(s) ==
    /\ \A i \in DOMAIN s.main : s.main[i].kind = "reset" =>
          /\ monitor = "resetting"
          /\ \A j \in DOMAIN s.main : j > i => s.main[j].kind \notin
                DisplayKinds \cup {"reset", "connected"}
    /\ monitor = "restarting" => \A i \in DOMAIN s.main :
          s.main[i].kind \notin DisplayKinds \cup {"reset"}

\* The processes.
Processes(s) ==
    /\ qemu = "up" => pidKnown
    /\ qemu = "down" => /\ exists = {} /\ (\A a \in Apps : task[a] = Stopped)
                        /\ agent # "live" /\ (agent = "none" => s.cmds = <<>>)
    /\ monitor # "waiting" => channel = "dead" /\ qemu = "down" /\ s.ctl = <<>>
    /\ channel = "dead" => \A i \in DOMAIN s.ctl : ~s.ctl[i].live
    /\ agent = "none" => \A i \in DOMAIN s.cmds : ~s.cmds[i].live

Core(s) ==
    /\ Tables(s) /\ Owned(s) /\ RemoveLast(s) /\ AddAlone(s) /\ AddsFresh(s)
    /\ TimersFirst(s) /\ LaunchesBound(s) /\ LaunchOnce(s) /\ ClosesBound(s) /\ StopsHold(s)
    /\ ResetLast(s) /\ Processes(s)
DisplaysInv == TypeOK /\ Core(sh) /\ Settled(sh) /\ NoHiddenTask

-----------------------------------------------------------------------------
(* Sequences and records. *)

\* What the queues' operators do, index by index.
LEMMA TailFacts ==
  ASSUME NEW S, NEW q \in Seq(S), q # <<>>
  PROVE  /\ Tail(q) \in Seq(S) /\ Head(q) \in S /\ Head(q) = q[1] /\ 1 \in DOMAIN q
         /\ \A i \in DOMAIN Tail(q) : i + 1 \in DOMAIN q /\ Tail(q)[i] = q[i + 1] /\ i \in Nat /\ i > 0
         /\ \A i \in DOMAIN q : i > 1 => i - 1 \in DOMAIN Tail(q)
         /\ DOMAIN q \subseteq Nat \ {0}
OBVIOUS

LEMMA AppendFacts ==
  ASSUME NEW S, NEW q \in Seq(S), NEW x \in S
  PROVE  /\ Append(q, x) \in Seq(S)
         /\ DOMAIN Append(q, x) = DOMAIN q \cup {Len(q) + 1}
         /\ \A i \in DOMAIN q : Append(q, x)[i] = q[i] /\ i < Len(q) + 1 /\ i \in Nat
         /\ Append(q, x)[Len(q) + 1] = x /\ Len(q) + 1 \in Nat
OBVIOUS

LEMMA ConcatFacts ==
  ASSUME NEW S, NEW p \in Seq(S), NEW q \in Seq(S)
  PROVE  /\ p \o q \in Seq(S)
         /\ DOMAIN p \subseteq DOMAIN (p \o q) /\ DOMAIN (p \o q) \subseteq Nat
         /\ \A i \in DOMAIN p : (p \o q)[i] = p[i] /\ i \in Nat
         /\ \A i \in DOMAIN q : /\ Len(p) + i \in DOMAIN (p \o q) /\ (p \o q)[Len(p) + i] = q[i]
                                 /\ \A j \in DOMAIN p : j < Len(p) + i
         /\ \A i \in DOMAIN (p \o q) : i \in DOMAIN p \/ \E j \in DOMAIN q : i = Len(p) + j
<1>1. p \o q \in Seq(S) /\ Len(p \o q) = Len(p) + Len(q) /\ Len(p) \in Nat /\ Len(q) \in Nat
  OBVIOUS
<1>2. DOMAIN (p \o q) = 1..(Len(p) + Len(q)) /\ DOMAIN p = 1..Len(p) /\ DOMAIN q = 1..Len(q)
  BY <1>1
<1>3. \A i \in 1..(Len(p) + Len(q)) : (p \o q)[i] = IF i <= Len(p) THEN p[i] ELSE q[i - Len(p)]
  BY ConcatProperties
<1>4. ASSUME NEW i \in DOMAIN (p \o q)
      PROVE  i \in DOMAIN p \/ \E j \in DOMAIN q : i = Len(p) + j
  <2>1. CASE i <= Len(p)
    BY <2>1, <1>1, <1>2
  <2>2. CASE ~(i <= Len(p))
    <3>1. i - Len(p) \in DOMAIN q /\ i = Len(p) + (i - Len(p))
      BY <2>2, <1>1, <1>2
    <3> QED BY <3>1
  <2> QED BY <2>1, <2>2
<1>5. \A i \in DOMAIN p : (p \o q)[i] = p[i] /\ i \in Nat
  BY <1>1, <1>2, <1>3
<1>6. ASSUME NEW i \in DOMAIN q
      PROVE  /\ Len(p) + i \in DOMAIN (p \o q) /\ (p \o q)[Len(p) + i] = q[i]
             /\ \A j \in DOMAIN p : j < Len(p) + i
  <2>1. Len(p) + i \in 1..(Len(p) + Len(q)) /\ ~(Len(p) + i <= Len(p)) /\ (Len(p) + i) - Len(p) = i
    BY <1>1, <1>2
  <2> QED BY <2>1, <1>1, <1>2, <1>3
<1> QED BY <1>1, <1>2, <1>4, <1>5, <1>6

\* The fields of what is in the queues.
LEMMA Elements ==
  ASSUME NEW s \in ShellType
  PROVE  /\ \A i \in DOMAIN s.ctl : /\ s.ctl[i] \in Requests /\ s.ctl[i].d \in Displays
                                    /\ s.ctl[i].op = "add" => s.ctl[i].app \in Apps
         /\ \A i \in DOMAIN s.cmds : /\ s.cmds[i] \in Commands /\ s.cmds[i].d \in Displays
                                     /\ s.cmds[i].app \in Apps
         /\ \A i \in DOMAIN s.main :
               /\ s.main[i] \in Blocks
               /\ s.main[i].kind \in {"add", "launch", "close", "cleanup"} =>
                     s.main[i].d \in Displays /\ s.main[i].app \in Apps
               /\ s.main[i].kind \in {"added", "removed", "resize"} => s.main[i].d \in Displays
<1>1. s.ctl \in Seq(Requests) /\ s.cmds \in Seq(Commands) /\ s.main \in Seq(Blocks)
  BY DEF ShellType
<1>2. \A b \in Blocks :
        /\ b.kind \in {"add", "launch", "close", "cleanup"} => b.d \in Displays /\ b.app \in Apps
        /\ b.kind \in {"added", "removed", "resize"} => b.d \in Displays
  BY DEF Blocks
<1>3. \A c \in Requests : c.d \in Displays /\ (c.op = "add" => c.app \in Apps)
  BY DEF Requests
<1>4. \A c \in Commands : c.d \in Displays /\ c.app \in Apps
  BY DEF Commands
<1> QED BY <1>1, <1>2, <1>3, <1>4

-----------------------------------------------------------------------------
(* A method that leaves the queues alone and changes the tables only for one *)
(* display and the application bound to it keeps the invariant if what is on *)
(* its way for that display still finds what it may expect.                  *)

SameQueues(s, r) ==
    /\ r.ctl = s.ctl /\ r.cmds = s.cmds /\ r.main = s.main
    /\ r.agentConnected = s.agentConnected

Elsewhere(s, r, d) ==
    /\ \A e \in Displays : e # d =>
          /\ r.binding[e] = s.binding[e]
          /\ e \in r.windows => e \in s.windows
          /\ e \in r.removal <=> e \in s.removal
          /\ e \in r.active <=> e \in s.active
          /\ e \in r.deferred <=> e \in s.deferred
          /\ e \in r.launchFailed <=> e \in s.launchFailed
    /\ \A a \in Apps : a # s.binding[d] =>
          /\ a \in r.pending <=> a \in s.pending
          /\ a \in r.inFlight <=> a \in s.inFlight
          /\ a \in r.closing <=> a \in s.closing
    /\ r.binding[d] \in {s.binding[d], NoApp}

\* No request and no event of the display is left to meet a free id.
NoTrace(s, d) ==
    /\ d \notin exists
    /\ qemu = "up" \/ channel = "alive" => \A i \in DOMAIN s.ctl : s.ctl[i].d # d
    /\ channel = "alive" =>
          \A i \in DOMAIN s.main : s.main[i].kind \in DisplayKinds => s.main[i].d # d
NoRemoval(s, d) ==
    /\ \A i \in DOMAIN s.ctl : s.ctl[i].op = "remove" => s.ctl[i].d # d
    /\ \A i \in DOMAIN s.main : s.main[i].kind = "removed" => s.main[i].d # d

AtDisplay(s, r, d) ==
    /\ Occupied(s, d) \/ LaunchPending(s, d) =>
          \A a \in Apps : Running(s, d, a) => Running(r, d, a)
    /\ ClosePending(s, d) => \A a \in Apps : Closing(s, d, a) => Closing(r, d, a)
    /\ AddPending(s, d) => \A a \in Apps : Fresh(s, d, a) => Fresh(r, d, a)
    /\ NotCreated(s, d) => d \notin r.windows
    /\ \A t \in timers : t.d = d /\ Wanted(r, t) => Wanted(s, t) /\ t.app \notin r.inFlight
    /\ d \in r.deferred => ~LaunchPending(s, d)
    /\ d \in ReservedIn(r) \/ NoTrace(s, d)
    /\ d \in s.removal => d \in r.removal \/ NoRemoval(s, d)

\* The predicates of the queues do not change with the tables.
LEMMA SameQueuesFacts ==
  ASSUME NEW s, NEW r, SameQueues(s, r), NEW d
  PROVE  /\ Unused(r, d) = Unused(s, d) /\ Occupied(r, d) = Occupied(s, d)
         /\ LaunchPending(r, d) = LaunchPending(s, d) /\ ClosePending(r, d) = ClosePending(s, d)
         /\ AddPending(r, d) = AddPending(s, d) /\ NotCreated(r, d) = NotCreated(s, d)
BY DEF SameQueues, Unused, Occupied, LaunchPending, ClosePending, AddPending, NotCreated

LEMMA LocalStep ==
  ASSUME NEW s \in ShellType, NEW r \in ShellType, NEW d \in Displays, TypeOK,
         SameQueues(s, r), Elsewhere(s, r, d), AtDisplay(s, r, d), Core(s), Tables(r)
  PROVE  Core(r)
<1> DEFINE a0 == s.binding[d]
<1>1. r.ctl = s.ctl /\ r.cmds = s.cmds /\ r.main = s.main /\ r.agentConnected = s.agentConnected
  BY DEF SameQueues
<1>2. \A e \in Displays, a \in Apps : e # d /\ s.binding[e] = a => a # s.binding[d]
  BY AppDisplaysAssumptions DEF Core, Tables
<1>3. \A e \in Displays, a \in Apps : e # d /\ Running(s, e, a) => Running(r, e, a)
  BY <1>2 DEF Running, Elsewhere
<1>4. \A e \in Displays, a \in Apps : e # d /\ Closing(s, e, a) => Closing(r, e, a)
  BY <1>2 DEF Closing, Elsewhere
<1>5. \A e \in Displays, a \in Apps : e # d /\ Fresh(s, e, a) => Fresh(r, e, a)
  <2>1. \A e : Unused(r, e) = Unused(s, e)
    BY SameQueuesFacts
  <2> QED BY <1>2, <2>1 DEF Fresh, Elsewhere
<1>6. Cold(s) => Cold(r)
  BY <1>1 DEF Cold, Elsewhere
<1>7. Owned(r)
  <2>1. \A e \in Displays : e \in ReservedIn(s) => e \in ReservedIn(r) \/ (e = d /\ NoTrace(s, d))
    BY DEF Elsewhere, AtDisplay, ReservedIn
  <2>2. exists \subseteq ReservedIn(r)
    BY <2>1 DEF Core, Owned, NoTrace, TypeOK
  <2>3. ASSUME qemu = "up" \/ channel = "alive", NEW i \in DOMAIN r.ctl
        PROVE  r.ctl[i].d \in ReservedIn(r)
    BY <2>1, <2>3, <1>1, Elements DEF Core, Owned, NoTrace
  <2>4. ASSUME channel = "alive", NEW i \in DOMAIN r.main, r.main[i].kind \in DisplayKinds
        PROVE  r.main[i].d \in ReservedIn(r)
    BY <2>1, <2>4, <1>1, Elements DEF Core, Owned, NoTrace, DisplayKinds
  <2> QED BY <2>2, <2>3, <2>4 DEF Owned
<1>8. RemoveLast(r)
  <2>1. \A e \in Displays : e \in s.removal => e \in r.removal \/ (e = d /\ NoRemoval(s, d))
    BY DEF Elsewhere, AtDisplay
  <2> QED BY <2>1, <1>1, Elements DEF Core, RemoveLast, NoRemoval
<1>9. AddAlone(r)
  <2>1. \A e \in Displays : e \in r.windows => e \in s.windows \/ (e = d /\ ~NotCreated(s, d))
    BY DEF Elsewhere, AtDisplay
  <2> QED BY <2>1, <1>1, Elements DEF Core, AddAlone, NotCreated
<1>10. AddsFresh(r)
  <2>1. \A e \in Displays, a \in Apps : Fresh(s, e, a) /\ AddPending(s, e) => Fresh(r, e, a)
    BY <1>5 DEF AtDisplay
  <2>2. ASSUME NEW i \in DOMAIN s.ctl, s.ctl[i].op = "add", s.ctl[i].live
        PROVE  Fresh(r, s.ctl[i].d, s.ctl[i].app)
    <3>1. AddPending(s, s.ctl[i].d)
      BY <2>2 DEF AddPending
    <3>2. Fresh(s, s.ctl[i].d, s.ctl[i].app)
      BY <2>2 DEF Core, AddsFresh
    <3> QED BY <2>1, <2>2, <3>1, <3>2, Elements
  <2>3. ASSUME NEW i \in DOMAIN s.main, s.main[i].kind = "add"
        PROVE  Fresh(r, s.main[i].d, s.main[i].app)
    <3>1. AddPending(s, s.main[i].d)
      BY <2>3 DEF AddPending
    <3>2. Fresh(s, s.main[i].d, s.main[i].app)
      BY <2>3 DEF Core, AddsFresh
    <3> QED BY <2>1, <2>3, <3>1, <3>2, Elements
  <2> QED BY <2>2, <2>3, <1>1 DEF Core, AddsFresh
<1>11. TimersFirst(r)
  <2>1. ASSUME NEW t \in timers, Wanted(r, t)
        PROVE  t.app \notin r.inFlight /\ Unused(r, t.d)
    <3>1. t.d \in Displays /\ t.app \in Apps
      BY DEF TypeOK
    <3>2. CASE t.d = d
      BY <2>1, <3>2, SameQueuesFacts DEF AtDisplay, Core, TimersFirst
    <3>3. CASE t.d # d
      <4>1. Wanted(s, t) /\ t.app # s.binding[d]
        BY <2>1, <3>1, <3>3, <1>2 DEF Wanted, Elsewhere
      <4> QED BY <4>1, <3>1, SameQueuesFacts DEF Core, TimersFirst, Elsewhere
    <3> QED BY <3>2, <3>3
  <2> QED BY <2>1 DEF Core, TimersFirst
<1>12. LaunchesBound(r)
  <2>1. \A e \in Displays, a \in Apps :
          Running(s, e, a) /\ (Occupied(s, e) \/ LaunchPending(s, e)) => Running(r, e, a)
    BY <1>3 DEF AtDisplay
  <2>2. ASSUME NEW a \in Apps, task[a] \in Displays
        PROVE  Running(r, task[a], a)
    BY <2>1, <2>2 DEF Core, LaunchesBound, Occupied
  <2>3. ASSUME NEW i \in DOMAIN s.cmds, s.cmds[i].op = "launch"
        PROVE  Running(r, s.cmds[i].d, s.cmds[i].app) \/ ColdQueue(r)
    <3>1. Occupied(s, s.cmds[i].d)
      BY <2>3 DEF Occupied
    <3>2. ColdQueue(s) => ColdQueue(r)
      BY <1>1, <1>6 DEF ColdQueue
    <3> QED BY <2>1, <2>3, <3>1, <3>2, Elements DEF Core, LaunchesBound
  <2>4. ASSUME NEW i \in DOMAIN s.main, s.main[i].kind = "launch"
        PROVE  Running(r, s.main[i].d, s.main[i].app) \/ ColdBlock(r, i)
    <3>1. LaunchPending(s, s.main[i].d)
      BY <2>4 DEF LaunchPending
    <3>2. ColdBlock(s, i) => ColdBlock(r, i)
      BY <1>1, <1>6 DEF ColdBlock
    <3> QED BY <2>1, <2>4, <3>1, <3>2, Elements DEF Core, LaunchesBound
  <2>5. ASSUME NEW e \in r.deferred
        PROVE  ~LaunchPending(r, e)
    <3>1. e \in Displays
      BY DEF ShellType
    <3> QED BY <3>1, SameQueuesFacts DEF Core, LaunchesBound, AtDisplay, Elsewhere
  <2> QED BY <2>2, <2>3, <2>4, <2>5, <1>1 DEF LaunchesBound
<1>13. LaunchOnce(r)
  BY <1>1 DEF Core, LaunchOnce, Occupied
<1>14. ClosesBound(r)
  <2>1. \A e \in Displays, a \in Apps : Closing(s, e, a) /\ ClosePending(s, e) => Closing(r, e, a)
    BY <1>4 DEF AtDisplay
  <2>2. ASSUME NEW i \in DOMAIN s.cmds, s.cmds[i].op = "close", s.cmds[i].live
        PROVE  Closing(r, s.cmds[i].d, s.cmds[i].app) \/ ColdQueue(r)
    <3>1. ClosePending(s, s.cmds[i].d)
      BY <2>2 DEF ClosePending
    <3>2. ColdQueue(s) => ColdQueue(r)
      BY <1>1, <1>6 DEF ColdQueue
    <3>3. Closing(s, s.cmds[i].d, s.cmds[i].app) \/ ColdQueue(s)
      BY <2>2 DEF Core, ClosesBound
    <3> QED BY <2>1, <3>1, <3>2, <3>3, Elements
  <2>3. ASSUME NEW i \in DOMAIN s.main, s.main[i].kind = "close"
        PROVE  Closing(r, s.main[i].d, s.main[i].app) \/ ColdBlock(r, i)
    <3>1. ClosePending(s, s.main[i].d)
      BY <2>3 DEF ClosePending
    <3>2. ColdBlock(s, i) => ColdBlock(r, i)
      BY <1>1, <1>6 DEF ColdBlock
    <3>3. Closing(s, s.main[i].d, s.main[i].app) \/ ColdBlock(s, i)
      BY <2>3 DEF Core, ClosesBound
    <3> QED BY <2>1, <2>3, <3>1, <3>2, <3>3, Elements
  <2> QED BY <2>2, <2>3, <1>1 DEF Core, ClosesBound
<1>15. StopsHold(r)
  BY <1>1 DEF Core, StopsHold, Occupied
<1>16. ResetLast(r) /\ Processes(r)
  BY <1>1 DEF Core, ResetLast, Processes
<1> QED
  BY <1>7, <1>8, <1>9, <1>10, <1>11, <1>12, <1>13, <1>14, <1>15, <1>16 DEF Core

-----------------------------------------------------------------------------
(* The methods, field by field. *)

LEMMA UnbindFields ==
  ASSUME NEW s \in ShellType, NEW d \in Displays, s.binding[d] # NoApp
  PROVE  LET r == Unbind(s, d)
             a == s.binding[d]
         IN /\ r \in ShellType /\ a \in Apps /\ SameQueues(s, r)
            /\ r.windows = s.windows /\ r.removal = s.removal /\ r.active = s.active
            /\ r.pending = s.pending \ {a} /\ r.inFlight = s.inFlight \ {a}
            /\ r.closing = s.closing \ {a}
            /\ r.launchFailed = s.launchFailed \ {d} /\ r.deferred = s.deferred \ {d}
            /\ r.resizing = s.resizing \ {d}
            /\ r.binding[d] = NoApp
            /\ \A e \in Displays : e # d => r.binding[e] = s.binding[e]
            /\ r.appDisplay[a] = IF s.appDisplay[a] = d THEN 0 ELSE s.appDisplay[a]
            /\ \A b \in Apps : b # a => r.appDisplay[b] = s.appDisplay[b]
<1> DEFINE r == Unbind(s, d)
           a == s.binding[d]
<1>1. a \in Apps
  BY DEF ShellType
<1>2. r = [s EXCEPT !.appDisplay[a] = IF @ = d THEN 0 ELSE @,
                    !.pending = @ \ {a}, !.inFlight = @ \ {a}, !.closing = @ \ {a},
                    !.launchFailed = @ \ {d}, !.deferred = @ \ {d}, !.resizing = @ \ {d},
                    !.binding[d] = NoApp]
  BY DEF Unbind
<1> DEFINE nb == [s.binding EXCEPT ![d] = NoApp]
           na == [s.appDisplay EXCEPT ![a] = IF @ = d THEN 0 ELSE @]
<1>3. r = [windows |-> s.windows, binding |-> nb, appDisplay |-> na,
           pending |-> s.pending \ {a}, inFlight |-> s.inFlight \ {a},
           closing |-> s.closing \ {a}, launchFailed |-> s.launchFailed \ {d},
           deferred |-> s.deferred \ {d}, resizing |-> s.resizing \ {d},
           removal |-> s.removal, active |-> s.active,
           agentConnected |-> s.agentConnected, ctl |-> s.ctl, cmds |-> s.cmds,
           main |-> s.main]
  <2> HIDE DEF r
  <2> QED BY <1>2 DEF ShellType
<1>4. /\ nb \in [Displays -> Apps \cup {NoApp}] /\ nb[d] = NoApp
      /\ \A e \in Displays : e # d => nb[e] = s.binding[e]
  BY DEF ShellType
<1>5. /\ na \in [Apps -> Displays \cup {0}]
      /\ na[a] = IF s.appDisplay[a] = d THEN 0 ELSE s.appDisplay[a]
      /\ \A b \in Apps : b # a => na[b] = s.appDisplay[b]
  BY <1>1 DEF ShellType
<1> HIDE DEF r, nb, na
<1>6. r \in ShellType
  BY <1>3, <1>4, <1>5 DEF ShellType
<1> QED BY <1>1, <1>3, <1>4, <1>5, <1>6 DEF SameQueues, r

LEMMA RequestRemoveCases ==
  ASSUME NEW s, NEW d
  PROVE  /\ d \in s.removal => RequestRemove(s, d) = s
         /\ d \notin s.removal /\ channel = "alive" => RequestRemove(s, d) =
               SendRequest([s EXCEPT !.removal = @ \cup {d}], "remove", d, NoApp, 0)
         /\ d \notin s.removal /\ channel # "alive" /\ pidKnown =>
               RequestRemove(s, d) = [s EXCEPT !.removal = @ \cup {d}]
         /\ d \notin s.removal /\ channel # "alive" /\ ~pidKnown =>
               RequestRemove(s, d) = ReleaseId(Unbind(s, d), d)
BY DEF RequestRemove

-----------------------------------------------------------------------------
(* The methods keep the invariant. *)

\* What Owned says of an id that is free.
LEMMA FreeIdHasNoTrace ==
  ASSUME NEW s \in ShellType, NEW d \in Displays, Owned(s), d \notin ReservedIn(s)
  PROVE  NoTrace(s, d)
BY DEF Owned, NoTrace

\* A display that qemu has not created has no window.
LEMMA NotCreatedHidden ==
  ASSUME NEW s, NEW d, Core(s), NotCreated(s, d)
  PROVE  d \notin s.windows
BY DEF Core, AddAlone, NotCreated

LEMMA UnbindStep ==
  ASSUME NEW s \in ShellType, NEW d \in Displays, TypeOK, Core(s), Idle(s, d)
  PROVE  Core(Unbind(s, d))
<1> DEFINE r == Unbind(s, d)
           a == s.binding[d]
<1>1. CASE a = NoApp
  BY <1>1 DEF Unbind
<1>2. CASE a # NoApp
  <2>1. /\ r \in ShellType /\ a \in Apps /\ SameQueues(s, r)
        /\ r.windows = s.windows /\ r.removal = s.removal /\ r.active = s.active
        /\ r.pending = s.pending \ {a} /\ r.inFlight = s.inFlight \ {a}
        /\ r.closing = s.closing \ {a}
        /\ r.launchFailed = s.launchFailed \ {d} /\ r.deferred = s.deferred \ {d}
        /\ r.resizing = s.resizing \ {d}
        /\ r.binding[d] = NoApp /\ \A e \in Displays : e # d => r.binding[e] = s.binding[e]
        /\ \A b \in Apps : b # a => r.appDisplay[b] = s.appDisplay[b]
    BY <1>2, UnbindFields
  <2>2. s.appDisplay[a] = d /\ r.appDisplay[a] = 0
    <3>1. s.appDisplay[a] = d
      BY <1>2 DEF Core, Tables
    <3> QED BY <1>2, <3>1, UnbindFields
  <2> HIDE DEF r
  <2>3. Elsewhere(s, r, d)
    BY <2>1, <2>2 DEF Elsewhere
  <2>4. Tables(r)
    <3>1. \A e \in Displays : e # d /\ s.binding[e] # NoApp => s.binding[e] \in Apps /\ s.binding[e] # a
      BY <1>2 DEF Core, Tables, ShellType
    <3>2. \A b \in Apps : b # a /\ s.appDisplay[b] # 0 => s.appDisplay[b] \in Displays /\ s.appDisplay[b] # d
      BY <1>2 DEF Core, Tables, ShellType
    <3>3. s.launchFailed \cup s.deferred \cup s.resizing \subseteq Displays
          /\ s.pending \cup s.inFlight \cup s.closing \subseteq Apps
      BY DEF ShellType
    <3>4. Tables(s)
      BY DEF Core
    <3> QED BY <2>1, <2>2, <3>1, <3>2, <3>3, <3>4 DEF Tables, ReservedIn
  <2>5. AtDisplay(s, r, d)
    <3>1. NoApp \notin Apps
      BY AppDisplaysAssumptions
    <3>2. d \in ReservedIn(r) \/ NoTrace(s, d)
      BY <2>1, FreeIdHasNoTrace DEF Core, ReservedIn
    <3>3. \A b \in Apps : Fresh(s, d, b) => Fresh(r, d, b)
      BY <2>1, <2>2, <3>1, SameQueuesFacts DEF Fresh
    <3>4. \A t \in timers : t.d = d => ~Wanted(r, t)
      BY <2>1, <3>1 DEF Wanted, TypeOK
    <3> QED BY <1>2, <2>1, <3>2, <3>3, <3>4, NotCreatedHidden DEF AtDisplay, Idle, Unused
  <2> QED BY <2>1, <2>3, <2>4, <2>5, LocalStep DEF r
<1> QED BY <1>1, <1>2

LEMMA ReleaseStep ==
  ASSUME NEW s \in ShellType, NEW d \in Displays, TypeOK, Core(s), s.binding[d] = NoApp,
         d \in s.removal \/ NoTrace(s, d)
  PROVE  ReleaseId(s, d) \in ShellType /\ Core(ReleaseId(s, d))
<1> DEFINE r == ReleaseId(s, d)
<1>1. /\ r \in ShellType /\ SameQueues(s, r) /\ r.windows = s.windows /\ r.binding = s.binding
      /\ r.appDisplay = s.appDisplay /\ r.pending = s.pending /\ r.inFlight = s.inFlight
      /\ r.closing = s.closing /\ r.launchFailed = s.launchFailed /\ r.deferred = s.deferred
      /\ r.resizing = s.resizing /\ r.removal = s.removal /\ r.active = s.active \ {d}
  BY DEF ReleaseId, ShellType, SameQueues
<1> HIDE DEF r
<1>2. Elsewhere(s, r, d)
  BY <1>1 DEF Elsewhere
<1>3. Tables(s)
  BY DEF Core
<1>4. Tables(r)
  BY <1>1, <1>3 DEF Tables, ReservedIn
<1>5. AtDisplay(s, r, d)
  <2>1. \A b \in Apps : Running(s, d, b) = Running(r, d, b) /\ Closing(s, d, b) = Closing(r, d, b)
    BY <1>1 DEF Running, Closing
  <2>2. \A b \in Apps : Fresh(s, d, b) = Fresh(r, d, b)
    BY <1>1, SameQueuesFacts DEF Fresh
  <2>3. NotCreated(s, d) => d \notin s.windows
    BY NotCreatedHidden
  <2>4. \A t \in timers : t.d = d => ~Wanted(r, t)
    BY <1>1, AppDisplaysAssumptions DEF Wanted, TypeOK
  <2>5. d \notin s.deferred
    BY <1>3 DEF Tables
  <2> QED BY <1>1, <2>1, <2>2, <2>3, <2>4, <2>5 DEF AtDisplay, ReservedIn
<1> QED BY <1>1, <1>2, <1>4, <1>5, LocalStep DEF r

LEMMA UnbindRelease ==
  ASSUME NEW s \in ShellType, NEW d \in Displays, TypeOK, Core(s), Idle(s, d),
         d \in s.removal \/ NoTrace(s, d)
  PROVE  LET r == ReleaseId(Unbind(s, d), d)
         IN /\ r \in ShellType /\ Core(r) /\ SameQueues(s, r)
            /\ r.windows = s.windows /\ r.removal = s.removal
            /\ r.binding[d] = NoApp /\ d \notin r.active
            /\ SettledBut(s, d) => SettledBut(r, d)
<1> DEFINE u == Unbind(s, d)
           r == ReleaseId(u, d)
<1>1. /\ u \in ShellType /\ u.binding[d] = NoApp /\ u.removal = s.removal /\ u.active = s.active
      /\ u.windows = s.windows /\ SameQueues(s, u)
      /\ \A e \in Displays : e # d => u.binding[e] = s.binding[e]
  <2>1. CASE s.binding[d] = NoApp
    BY <2>1 DEF Unbind, SameQueues
  <2>2. CASE s.binding[d] # NoApp
    BY <2>2, UnbindFields
  <2> QED BY <2>1, <2>2
<1>2. Core(u)
  BY UnbindStep
<1> HIDE DEF u
<1>3. d \in u.removal \/ NoTrace(u, d)
  BY <1>1 DEF SameQueues, NoTrace
<1>4. r \in ShellType /\ Core(r)
  BY <1>1, <1>2, <1>3, ReleaseStep
<1>5. /\ SameQueues(u, r) /\ r.active = u.active \ {d} /\ r.binding = u.binding
      /\ r.removal = u.removal /\ r.windows = u.windows
  BY <1>1 DEF ReleaseId, ShellType, SameQueues
<1>6. SettledBut(s, d) => SettledBut(r, d)
  <2> HIDE DEF r
  <2> QED BY <1>1, <1>5 DEF SettledBut, SettledAt
<1>7. SameQueues(s, r)
  BY <1>1, <1>5 DEF SameQueues
<1> QED BY <1>1, <1>4, <1>5, <1>6, <1>7 DEF u

\* A request goes to the end of the queue.  An ADD needs an id without a trace, no
\* request follows a REMOVE, and none joins an ADD that qemu has not executed.
RequestFits(s, x) ==
    /\ x.live /\ x.d \in ReservedIn(s) /\ ~NotCreated(s, x.d) /\ NoRemoval(s, x.d)
    /\ x.op = "remove" => x.d \in s.removal
    /\ x.op = "add" =>
          /\ Fresh(s, x.d, x.app) /\ NoTrace(s, x.d) /\ x.d \notin s.windows

LEMMA SendRequestStep ==
  ASSUME NEW s \in ShellType, Core(s), channel = "alive", NEW x \in Requests, RequestFits(s, x)
  PROVE  LET r == [s EXCEPT !.ctl = Append(@, x)]
         IN /\ r \in ShellType /\ Core(r) /\ r.main = s.main /\ r.cmds = s.cmds
            /\ r.windows = s.windows /\ r.binding = s.binding /\ r.active = s.active
            /\ r.removal = s.removal /\ r.agentConnected = s.agentConnected
<1> DEFINE r == [s EXCEPT !.ctl = Append(@, x)]
<1>1. s.ctl \in Seq(Requests)
  BY DEF ShellType
<1>2. /\ r \in ShellType /\ r.windows = s.windows /\ r.binding = s.binding
      /\ r.appDisplay = s.appDisplay /\ r.pending = s.pending /\ r.inFlight = s.inFlight
      /\ r.closing = s.closing /\ r.launchFailed = s.launchFailed /\ r.deferred = s.deferred
      /\ r.resizing = s.resizing /\ r.removal = s.removal /\ r.active = s.active
      /\ r.agentConnected = s.agentConnected /\ r.main = s.main /\ r.cmds = s.cmds
      /\ r.ctl = Append(s.ctl, x)
  <2>1. r = [s EXCEPT !.ctl = Append(s.ctl, x)] /\ Append(s.ctl, x) \in Seq(Requests)
    BY <1>1, AppendFacts
  <2> HIDE DEF r
  <2> QED BY <2>1 DEF ShellType
<1> DEFINE n == Len(s.ctl) + 1
<1>3. /\ DOMAIN r.ctl = DOMAIN s.ctl \cup {n} /\ r.ctl[n] = x /\ n \in Nat
      /\ \A i \in DOMAIN s.ctl : r.ctl[i] = s.ctl[i] /\ i < n /\ i \in Nat
  BY <1>1, <1>2, AppendFacts
<1> HIDE DEF r, n
<1>4. Tables(r)
  BY <1>2 DEF Core, Tables, ReservedIn
<1>5. Owned(r)
  BY <1>2, <1>3 DEF Core, Owned, ReservedIn, RequestFits
<1>6. RemoveLast(r)
  BY <1>2, <1>3 DEF Core, RemoveLast, NoRemoval, RequestFits
<1>7. AddAlone(r)
  <2>1. \A j \in DOMAIN s.ctl : s.ctl[j].op = "add" /\ s.ctl[j].live => s.ctl[j].d # x.d
    BY DEF RequestFits, NotCreated
  <2>2. \A j \in DOMAIN s.main :
           s.main[j].kind = "add" /\ s.main[j].res = "error" => s.main[j].d # x.d
    BY DEF RequestFits, NotCreated
  <2>3. x.op = "add" =>
          /\ x.d \notin exists /\ x.d \notin s.windows
          /\ \A j \in DOMAIN s.ctl : s.ctl[j].d # x.d
          /\ \A j \in DOMAIN s.main : s.main[j].kind \in DisplayKinds => s.main[j].d # x.d
    BY DEF RequestFits, NoTrace
  <2> QED BY <1>2, <1>3, <2>1, <2>2, <2>3 DEF Core, AddAlone
<1>8. AddsFresh(r)
  <2>1. \A e, b : Fresh(r, e, b) = Fresh(s, e, b)
    BY <1>2 DEF Fresh, Unused, Occupied, LaunchPending, ClosePending
  <2>2. x.op = "add" => Fresh(s, x.d, x.app)
    BY DEF RequestFits
  <2> QED BY <1>2, <1>3, <2>1, <2>2 DEF Core, AddsFresh
<1>9. TimersFirst(r)
  BY <1>2 DEF Core, TimersFirst, Wanted, Unused, Occupied, LaunchPending, ClosePending
<1>10. LaunchesBound(r)
  <2>1. \A e, b : Running(r, e, b) = Running(s, e, b) /\ LaunchPending(r, e) = LaunchPending(s, e)
    BY <1>2 DEF Running, LaunchPending
  <2> QED BY <1>2, <2>1 DEF Core, LaunchesBound, ColdQueue, ColdBlock, Cold
<1>11. LaunchOnce(r)
  BY <1>2 DEF Core, LaunchOnce, Occupied
<1>12. ClosesBound(r)
  <2>1. \A e, b : Closing(r, e, b) = Closing(s, e, b)
    BY <1>2 DEF Closing
  <2> QED BY <1>2, <2>1 DEF Core, ClosesBound, ColdQueue, ColdBlock, Cold
<1>13. StopsHold(r)
  BY <1>2 DEF Core, StopsHold, Occupied
<1>14. ResetLast(r) /\ Processes(r)
  BY <1>2 DEF Core, ResetLast, Processes
<1>15. Core(r)
  BY <1>4, <1>5, <1>6, <1>7, <1>8, <1>9, <1>10, <1>11, <1>12, <1>13, <1>14 DEF Core
<1> QED BY <1>2, <1>15 DEF r

LEMMA SendRemoveStep ==
  ASSUME NEW s \in ShellType, NEW d \in Displays, Core(s), channel = "alive",
         d \in s.removal, NoRemoval(s, d), ~NotCreated(s, d)
  PROVE  LET r == SendRequest(s, "remove", d, NoApp, 0)
         IN /\ r \in ShellType /\ Core(r) /\ r.main = s.main /\ r.cmds = s.cmds
            /\ r.windows = s.windows /\ r.binding = s.binding /\ r.active = s.active
            /\ r.removal = s.removal /\ r.agentConnected = s.agentConnected
<1> DEFINE x == [op |-> "remove", d |-> d, app |-> NoApp, n |-> 0, live |-> TRUE]
           r == [s EXCEPT !.ctl = Append(@, x)]
<1>1. x \in Requests /\ RequestFits(s, x)
  BY DEF Requests, RequestFits, ReservedIn
<1>2. SendRequest(s, "remove", d, NoApp, 0) = r
  BY DEF SendRequest
<1> HIDE DEF x
<1>3. /\ r \in ShellType /\ Core(r) /\ r.main = s.main /\ r.cmds = s.cmds
      /\ r.windows = s.windows /\ r.binding = s.binding /\ r.active = s.active
      /\ r.removal = s.removal /\ r.agentConnected = s.agentConnected
  BY <1>1, SendRequestStep
<1> HIDE DEF r
<1> QED BY <1>2, <1>3

LEMMA RequestRemoveStep ==
  ASSUME NEW s \in ShellType, NEW d \in Displays, TypeOK, Core(s),
         Idle(s, d), ~NotCreated(s, d), s.binding[d] \notin s.pending
  PROVE  LET r == RequestRemove(s, d)
         IN /\ r \in ShellType /\ Core(r) /\ r.main = s.main /\ r.cmds = s.cmds
            /\ r.windows = s.windows /\ r.agentConnected = s.agentConnected
            /\ r.binding[d] \in {s.binding[d], NoApp}
            /\ d \in r.removal \/ (d \notin r.active /\ NoTrace(r, d) /\ r.binding[d] = NoApp)
            /\ SettledBut(s, d) => SettledBut(r, d)
<1> DEFINE m == [s EXCEPT !.removal = @ \cup {d}]
<1>1. CASE d \in s.removal
  BY ZenonT(40), <1>1, RequestRemoveCases
<1>2. ASSUME d \notin s.removal
      PROVE  /\ m \in ShellType /\ Core(m) /\ m.removal = s.removal \cup {d}
             /\ SameQueues(s, m) /\ m.windows = s.windows /\ m.active = s.active
             /\ m.binding = s.binding
             /\ SettledBut(s, d) => SettledBut(m, d)
  <2>1. /\ m \in ShellType /\ SameQueues(s, m) /\ m.windows = s.windows /\ m.binding = s.binding
        /\ m.appDisplay = s.appDisplay /\ m.pending = s.pending /\ m.inFlight = s.inFlight
        /\ m.closing = s.closing /\ m.launchFailed = s.launchFailed /\ m.deferred = s.deferred
        /\ m.resizing = s.resizing /\ m.removal = s.removal \cup {d} /\ m.active = s.active
    BY DEF ShellType, SameQueues
  <2> HIDE DEF m
  <2>2. Elsewhere(s, m, d)
    BY <2>1 DEF Elsewhere
  <2>3. Tables(m)
    <3>1. Tables(s)
      BY DEF Core
    <3> QED BY <2>1, <3>1 DEF Tables, ReservedIn
  <2>4. AtDisplay(s, m, d)
    <3>1. \A b \in Apps : Fresh(s, d, b) = Fresh(m, d, b)
      BY <2>1, SameQueuesFacts DEF Fresh
    <3>2. \A t \in timers : t.d = d => ~Wanted(m, t)
      BY <2>1, AppDisplaysAssumptions DEF Wanted, TypeOK
    <3>3. \A b \in Apps : Occupied(s, d) \/ LaunchPending(s, d) => ~Running(s, d, b)
      BY AppDisplaysAssumptions DEF Idle, Unused, Running
    <3>4. \A b \in Apps : ClosePending(s, d) => ~Closing(s, d, b)
      BY AppDisplaysAssumptions DEF Idle, Unused, Closing
    <3>5. d \in s.deferred => ~LaunchPending(s, d)
      BY DEF Core, LaunchesBound
    <3> QED BY <2>1, <3>1, <3>2, <3>3, <3>4, <3>5, NotCreatedHidden DEF AtDisplay, ReservedIn
  <2>5. Core(m)
    BY <2>1, <2>2, <2>3, <2>4, LocalStep
  <2>6. SettledBut(s, d) => SettledBut(m, d)
    BY <2>1 DEF SettledBut, SettledAt
  <2> QED BY <2>1, <2>5, <2>6
<1>3. CASE d \notin s.removal /\ channel = "alive"
  <2> HIDE DEF m
  <2>1. NoRemoval(m, d) /\ ~NotCreated(m, d)
    <3>1. NoRemoval(s, d)
      BY <1>3 DEF Core, RemoveLast, NoRemoval
    <3> QED BY <1>2, <1>3, <3>1, SameQueuesFacts DEF NoRemoval, SameQueues
  <2> DEFINE r == SendRequest(m, "remove", d, NoApp, 0)
  <2>2. /\ r \in ShellType /\ Core(r) /\ r.main = m.main /\ r.cmds = m.cmds
        /\ r.windows = m.windows /\ r.binding = m.binding /\ r.active = m.active
        /\ r.removal = m.removal /\ r.agentConnected = m.agentConnected
    BY <1>2, <1>3, <2>1, SendRemoveStep
  <2>3. RequestRemove(s, d) = r
    BY <1>3, RequestRemoveCases DEF m
  <2> HIDE DEF r
  <2>4. SettledBut(m, d) => SettledBut(r, d)
    BY <2>2 DEF SettledBut, SettledAt
  <2> QED BY <1>2, <1>3, <2>2, <2>3, <2>4 DEF SameQueues
<1>4. CASE d \notin s.removal /\ channel # "alive" /\ pidKnown
  <2>1. RequestRemove(s, d) = m
    BY <1>4, RequestRemoveCases
  <2> HIDE DEF m
  <2> QED BY <1>2, <1>4, <2>1 DEF SameQueues
<1>5. CASE d \notin s.removal /\ channel # "alive" /\ ~pidKnown
  <2> DEFINE r == ReleaseId(Unbind(s, d), d)
  <2>1. NoTrace(s, d)
    BY <1>5 DEF Core, Processes, NoTrace, TypeOK
  <2>2. RequestRemove(s, d) = r
    BY <1>5, RequestRemoveCases
  <2>3. /\ r \in ShellType /\ Core(r) /\ SameQueues(s, r) /\ r.windows = s.windows
        /\ r.binding[d] = NoApp /\ d \notin r.active
        /\ SettledBut(s, d) => SettledBut(r, d)
    BY <2>1, UnbindRelease
  <2> HIDE DEF r
  <2>4. NoTrace(r, d)
    BY <2>1, <2>3 DEF NoTrace, SameQueues
  <2> QED BY <2>2, <2>3, <2>4 DEF SameQueues
<1> QED BY <1>1, <1>3, <1>4, <1>5 DEF TypeOK

\* A window that closes disturbs nothing.
LEMMA HideWindow ==
  ASSUME NEW s \in ShellType, NEW d \in Displays, TypeOK, Core(s)
  PROVE  LET w == [s EXCEPT !.windows = @ \ {d}]
         IN /\ w \in ShellType /\ Core(w) /\ SameQueues(s, w) /\ w.windows = s.windows \ {d}
            /\ w.binding = s.binding /\ w.appDisplay = s.appDisplay /\ w.pending = s.pending
            /\ w.inFlight = s.inFlight /\ w.closing = s.closing
            /\ w.launchFailed = s.launchFailed /\ w.deferred = s.deferred
            /\ w.resizing = s.resizing /\ w.removal = s.removal /\ w.active = s.active
<1> DEFINE w == [s EXCEPT !.windows = @ \ {d}]
<1>1. /\ w \in ShellType /\ SameQueues(s, w) /\ w.windows = s.windows \ {d}
      /\ w.binding = s.binding /\ w.appDisplay = s.appDisplay /\ w.pending = s.pending
      /\ w.inFlight = s.inFlight /\ w.closing = s.closing
      /\ w.launchFailed = s.launchFailed /\ w.deferred = s.deferred
      /\ w.resizing = s.resizing /\ w.removal = s.removal /\ w.active = s.active
  BY DEF ShellType, SameQueues
<1> HIDE DEF w
<1>2. Elsewhere(s, w, d)
  BY <1>1 DEF Elsewhere
<1>3. Tables(s)
  BY DEF Core
<1>4. Tables(w)
  BY <1>1, <1>3 DEF Tables, ReservedIn
<1>5. AtDisplay(s, w, d)
  <2>1. \A b \in Apps : Running(s, d, b) = Running(w, d, b) /\ (Closing(s, d, b) => Closing(w, d, b))
    BY <1>1 DEF Running, Closing
  <2>2. \A b \in Apps : Fresh(s, d, b) => Fresh(w, d, b)
    BY <1>1, SameQueuesFacts DEF Fresh
  <2>3. \A t \in timers : Wanted(w, t) => Wanted(s, t)
    BY <1>1 DEF Wanted
  <2>4. \A t \in timers : Wanted(s, t) => t.app \notin s.inFlight
    BY DEF Core, TimersFirst
  <2>5. d \in s.deferred => ~LaunchPending(s, d)
    BY DEF Core, LaunchesBound
  <2>6. d \in ReservedIn(w) \/ NoTrace(s, d)
    BY <1>1, FreeIdHasNoTrace DEF Core, ReservedIn
  <2> QED BY <1>1, <2>1, <2>2, <2>3, <2>4, <2>5, <2>6 DEF AtDisplay
<1>6. Core(w)
  BY <1>1, <1>2, <1>4, <1>5, LocalStep
<1> QED BY <1>1, <1>6 DEF w

LEMMA CloseWindowStep ==
  ASSUME NEW s \in ShellType, NEW d \in Displays, TypeOK, Core(s), s.binding[d] = NoApp,
         d \in s.removal \/ (d \notin s.active /\ NoTrace(s, d)), SettledBut(s, d)
  PROVE  LET r == CloseWindowSuppressed(s, d)
         IN r \in ShellType /\ Core(r) /\ Settled(r) /\ SameQueues(s, r)
<1> DEFINE w == [s EXCEPT !.windows = @ \ {d}]
           r == CloseWindowSuppressed(s, d)
<1>1. CASE d \notin s.windows
  <2>1. r = s
    BY <1>1 DEF CloseWindowSuppressed
  <2>2. Settled(s)
    BY <1>1 DEF Settled, SettledBut, SettledAt
  <2> QED BY <2>1, <2>2 DEF SameQueues
<1>2. CASE d \in s.windows
  <2>1. /\ w \in ShellType /\ Core(w) /\ SameQueues(s, w) /\ w.windows = s.windows \ {d}
        /\ w.binding = s.binding /\ w.removal = s.removal /\ w.active = s.active
    BY HideWindow
  <2>2. Unbind(w, d) = w
    BY <2>1 DEF Unbind
  <2>3. r = IF d \in w.removal THEN w ELSE ReleaseId(w, d)
    BY <1>2, <2>2 DEF CloseWindowSuppressed
  <2>4. SettledBut(w, d) /\ d \notin w.windows /\ (d \in w.active => d \in w.removal)
    BY <2>1 DEF SettledBut, SettledAt
  <2> HIDE DEF w
  <2>5. CASE d \in w.removal
    <3>1. r = w
      BY <2>3, <2>5
    <3>2. Settled(w)
      BY <2>4 DEF Settled, SettledBut, SettledAt
    <3> QED BY <2>1, <3>1, <3>2
  <2>6. CASE d \notin w.removal
    <3>1. r = ReleaseId(w, d)
      BY <2>3, <2>6
    <3>2. NoTrace(w, d)
      BY <2>1, <2>6 DEF NoTrace, SameQueues
    <3>3. r \in ShellType /\ Core(r)
      BY <2>1, <3>1, <3>2, ReleaseStep
    <3>4. /\ r.windows = w.windows /\ r.binding = w.binding /\ r.removal = w.removal
          /\ r.active = w.active \ {d} /\ SameQueues(w, r)
      BY <2>1, <3>1 DEF ReleaseId, ShellType, SameQueues
    <3> HIDE DEF r
    <3>5. Settled(r)
      BY <2>4, <3>4 DEF Settled, SettledBut, SettledAt
    <3>6. SameQueues(s, r)
      BY <2>1, <3>4 DEF SameQueues
    <3> QED BY <3>3, <3>5, <3>6 DEF r
  <2> QED BY <2>5, <2>6
<1> QED BY <1>1, <1>2

LEMMA RollbackStep ==
  ASSUME NEW s \in ShellType, NEW d \in Displays, TypeOK, Core(s), Unused(s, d),
         ~NotCreated(s, d), SettledBut(s, d)
  PROVE  LET r == Rollback(s, d)
         IN /\ r \in ShellType /\ Core(r) /\ Settled(r) /\ r.main = s.main /\ r.cmds = s.cmds
            /\ r.agentConnected = s.agentConnected
<1> DEFINE u == Unbind(s, d)
           q == RequestRemove(u, d)
           r == CloseWindowSuppressed(q, d)
<1>1. /\ u \in ShellType /\ u.binding[d] = NoApp /\ SameQueues(s, u) /\ u.windows = s.windows
      /\ u.removal = s.removal /\ u.active = s.active
      /\ \A e \in Displays : e # d => u.binding[e] = s.binding[e]
  <2>1. CASE s.binding[d] = NoApp
    BY <2>1 DEF Unbind, SameQueues
  <2>2. CASE s.binding[d] # NoApp
    BY <2>2, UnbindFields
  <2> QED BY <2>1, <2>2
<1>2. Core(u)
  BY UnbindStep DEF Idle
<1> HIDE DEF u
<1>3. Unused(u, d) /\ ~NotCreated(u, d) /\ u.binding[d] \notin u.pending /\ SettledBut(u, d)
  <2>1. u.pending \subseteq Apps
    BY <1>1 DEF ShellType
  <2>2. SettledBut(u, d)
    BY <1>1 DEF SettledBut, SettledAt
  <2> QED BY <1>1, <2>1, <2>2, SameQueuesFacts, AppDisplaysAssumptions
<1>4. /\ q \in ShellType /\ Core(q) /\ q.main = u.main /\ q.cmds = u.cmds
      /\ q.agentConnected = u.agentConnected /\ q.binding[d] \in {u.binding[d], NoApp}
      /\ d \in q.removal \/ (d \notin q.active /\ NoTrace(q, d))
      /\ SettledBut(q, d)
  BY <1>1, <1>2, <1>3, RequestRemoveStep DEF Idle
<1> HIDE DEF q
<1>5. r \in ShellType /\ Core(r) /\ Settled(r) /\ SameQueues(q, r)
  BY <1>1, <1>4, CloseWindowStep
<1>6. Rollback(s, d) = r
  BY DEF Rollback, q, u
<1> HIDE DEF r
<1> QED BY <1>1, <1>4, <1>5, <1>6 DEF SameQueues

\* A window that opens.
LEMMA OpenWindowStep ==
  ASSUME NEW s \in ShellType, NEW d \in Displays, TypeOK, Core(s), Settled(s),
         ~NotCreated(s, d)
  PROVE  LET r == OpenWindow(s, d)
         IN /\ r \in ShellType /\ Core(r) /\ Settled(r) /\ SameQueues(s, r)
            /\ r.binding = s.binding /\ r.appDisplay = s.appDisplay /\ r.pending = s.pending
            /\ r.inFlight = s.inFlight /\ r.closing = s.closing
            /\ r.launchFailed = s.launchFailed /\ r.deferred = s.deferred
            /\ d \in r.windows => s.binding[d] # NoApp /\ d \notin s.removal
            /\ d \in r.windows \ s.windows => s.binding[d] \notin s.closing
<1> DEFINE r == OpenWindow(s, d)
           a == s.binding[d]
<1>1. CASE a = NoApp \/ a \in s.closing \/ d \in s.removal
  <2>1. r = s
    BY <1>1 DEF OpenWindow
  <2> QED BY <2>1 DEF SameQueues, Settled, SettledAt
<1>2. CASE ~(a = NoApp \/ a \in s.closing \/ d \in s.removal)
  <2>1. /\ r \in ShellType /\ SameQueues(s, r) /\ r.windows = s.windows \cup {d}
        /\ r.active = s.active \cup {d}
        /\ r.binding = s.binding /\ r.appDisplay = s.appDisplay /\ r.pending = s.pending
        /\ r.inFlight = s.inFlight /\ r.closing = s.closing
        /\ r.launchFailed = s.launchFailed /\ r.deferred = s.deferred
        /\ r.resizing = s.resizing /\ r.removal = s.removal
    <3>1. r = [s EXCEPT !.windows = @ \cup {d}, !.active = @ \cup {d}]
      BY <1>2 DEF OpenWindow
    <3> HIDE DEF r
    <3> QED BY <3>1 DEF ShellType, SameQueues
  <2> HIDE DEF r
  <2>2. Elsewhere(s, r, d)
    BY <2>1 DEF Elsewhere
  <2>3. Tables(s)
    BY DEF Core
  <2>4. Tables(r)
    BY <2>1, <2>3 DEF Tables, ReservedIn
  <2>5. AtDisplay(s, r, d)
    <3>1. \A b \in Apps : Running(s, d, b) = Running(r, d, b) /\ (Closing(s, d, b) => Closing(r, d, b))
      BY <1>2, <2>1 DEF Running, Closing
    <3>2. \A b \in Apps : Fresh(s, d, b) => Fresh(r, d, b)
      BY <1>2, <2>1, SameQueuesFacts DEF Fresh
    <3>3. \A t \in timers : Wanted(r, t) => Wanted(s, t)
      BY <2>1 DEF Wanted
    <3>4. \A t \in timers : Wanted(s, t) => t.app \notin s.inFlight
      BY DEF Core, TimersFirst
    <3>5. d \in s.deferred => ~LaunchPending(s, d)
      BY DEF Core, LaunchesBound
    <3> QED BY <2>1, <3>1, <3>2, <3>3, <3>4, <3>5 DEF AtDisplay, ReservedIn
  <2>6. Core(r)
    BY <2>1, <2>2, <2>4, <2>5, LocalStep
  <2>7. Settled(r)
    BY <1>2, <2>1 DEF Settled, SettledAt
  <2> QED BY <1>2, <2>1, <2>6, <2>7 DEF r
<1> QED BY <1>1, <1>2

-----------------------------------------------------------------------------
(* The main queue. *)

\* Two states that differ in their queues only.
SameTables(s, r) ==
    /\ r.windows = s.windows /\ r.binding = s.binding /\ r.appDisplay = s.appDisplay
    /\ r.pending = s.pending /\ r.inFlight = s.inFlight /\ r.closing = s.closing
    /\ r.launchFailed = s.launchFailed /\ r.deferred = s.deferred
    /\ r.resizing = s.resizing /\ r.removal = s.removal /\ r.active = s.active
    /\ r.agentConnected = s.agentConnected

LEMMA SameTablesFacts ==
  ASSUME NEW s, NEW r, SameTables(s, r)
  PROVE  /\ Tables(r) = Tables(s) /\ Cold(r) = Cold(s) /\ ReservedIn(r) = ReservedIn(s)
         /\ Settled(r) = Settled(s)
         /\ \A d : SettledBut(r, d) = SettledBut(s, d)
         /\ \A d, a : Running(r, d, a) = Running(s, d, a) /\ Closing(r, d, a) = Closing(s, d, a)
         /\ \A t : Wanted(r, t) = Wanted(s, t)
<1>1. Tables(r) = Tables(s)
  BY DEF SameTables, Tables
<1>2. Settled(r) = Settled(s) /\ \A d : SettledBut(r, d) = SettledBut(s, d)
  BY DEF SameTables, Settled, SettledBut, SettledAt
<1> QED BY <1>1, <1>2 DEF SameTables, Cold, ReservedIn, Running, Closing, Wanted

\* The main thread takes the first block.
LEMMA PopStep ==
  ASSUME NEW s \in ShellType, Core(s), s.main # <<>>
  PROVE  LET r == [s EXCEPT !.main = Tail(@)]
         IN /\ r \in ShellType /\ Core(r) /\ SameTables(s, r)
            /\ r.ctl = s.ctl /\ r.cmds = s.cmds
            /\ 1 \in DOMAIN s.main /\ Head(s.main) = s.main[1]
            /\ \A i \in DOMAIN r.main :
                  i + 1 \in DOMAIN s.main /\ r.main[i] = s.main[i + 1] /\ i \in Nat /\ i > 0
<1> DEFINE r == [s EXCEPT !.main = Tail(@)]
<1>1. s.main \in Seq(Blocks)
  BY DEF ShellType
<1>2. r \in ShellType /\ SameTables(s, r) /\ r.ctl = s.ctl /\ r.cmds = s.cmds /\ r.main = Tail(s.main)
  <2>1. Tail(s.main) \in Seq(Blocks)
    BY <1>1
  <2> QED BY <2>1 DEF ShellType, SameTables
<1> HIDE DEF r
<1>3. /\ \A i \in DOMAIN r.main : i + 1 \in DOMAIN s.main /\ r.main[i] = s.main[i + 1] /\ i \in Nat /\ i > 0
      /\ \A i \in DOMAIN s.main : i > 1 => i - 1 \in DOMAIN r.main
      /\ DOMAIN s.main \subseteq Nat \ {0}
      /\ 1 \in DOMAIN s.main /\ Head(s.main) = s.main[1]
  BY <1>1, <1>2, TailFacts
<1>4. /\ Tables(r) /\ Cold(r) = Cold(s) /\ ReservedIn(r) = ReservedIn(s)
      /\ \A d, a : Running(r, d, a) = Running(s, d, a) /\ Closing(r, d, a) = Closing(s, d, a)
      /\ \A t : Wanted(r, t) = Wanted(s, t)
      /\ r.removal = s.removal /\ r.windows = s.windows /\ r.deferred = s.deferred
      /\ r.inFlight = s.inFlight
  BY <1>2, SameTablesFacts DEF Core, SameTables
<1>5. \A d : /\ Occupied(r, d) = Occupied(s, d)
             /\ LaunchPending(r, d) => LaunchPending(s, d)
             /\ ClosePending(r, d) => ClosePending(s, d)
             /\ Unused(s, d) => Unused(r, d)
  BY <1>2, <1>3 DEF Occupied, LaunchPending, ClosePending, Unused
<1>6. Owned(r)
  BY <1>2, <1>3, <1>4 DEF Core, Owned
<1>7. RemoveLast(r)
  <2>1. RemoveLast(s)
    BY DEF Core
  <2>2. ASSUME NEW i \in DOMAIN r.main, r.main[i].kind = "removed"
        PROVE  /\ r.main[i].d \in r.removal /\ r.main[i].d \notin exists
               /\ \A j \in DOMAIN r.ctl : r.ctl[j].d # r.main[i].d
               /\ \A j \in DOMAIN r.main :
                     j > i /\ r.main[j].kind \in DisplayKinds => r.main[j].d # r.main[i].d
    <3>1. i + 1 \in DOMAIN s.main /\ s.main[i + 1].kind = "removed" /\ r.main[i] = s.main[i + 1] /\ i \in Nat
      BY <1>3, <2>2
    <3>2. \A j \in DOMAIN r.main : j > i => j + 1 > i + 1 /\ j + 1 \in DOMAIN s.main /\ r.main[j] = s.main[j + 1]
      BY <1>3, <3>1
    <3> QED BY <1>2, <1>4, <2>1, <3>1, <3>2 DEF RemoveLast
  <2> QED BY <1>2, <1>4, <2>1, <2>2 DEF RemoveLast
<1>8. AddAlone(r)
  <2>1. AddAlone(s)
    BY DEF Core
  <2>2. \A i, j \in DOMAIN r.main : i # j => i + 1 # j + 1
    BY <1>3
  <2> QED BY <1>2, <1>3, <1>4, <2>1, <2>2 DEF AddAlone
<1>9. AddsFresh(r)
  <2>1. \A d, a : Fresh(s, d, a) => Fresh(r, d, a)
    BY <1>2, <1>5 DEF Fresh, SameTables
  <2>2. AddsFresh(s)
    BY DEF Core
  <2>3. \A i, j \in DOMAIN r.main : i # j => i + 1 # j + 1
    BY <1>3
  <2> QED BY <1>2, <1>3, <2>1, <2>2, <2>3 DEF AddsFresh
<1>10. TimersFirst(r)
  BY <1>4, <1>5 DEF Core, TimersFirst
<1>11. LaunchesBound(r)
  <2>1. LaunchesBound(s)
    BY DEF Core
  <2>2. ColdQueue(s) => ColdQueue(r)
    BY <1>3, <1>4 DEF ColdQueue
  <2>3. \A i \in DOMAIN r.main : ColdBlock(s, i + 1) => ColdBlock(r, i)
    <3>1. \A i, j \in DOMAIN r.main : j < i => j + 1 < i + 1
      BY <1>3
    <3> QED BY <1>3, <1>4, <3>1 DEF ColdBlock
  <2> QED BY <1>2, <1>3, <1>4, <1>5, <2>1, <2>2, <2>3 DEF LaunchesBound
<1>12. LaunchOnce(r)
  <2>1. LaunchOnce(s)
    BY DEF Core
  <2>2. \A i, j \in DOMAIN r.main : i # j => i + 1 # j + 1
    BY <1>3
  <2> QED BY <1>2, <1>3, <1>5, <2>1, <2>2 DEF LaunchOnce
<1>13. ClosesBound(r)
  <2>1. ClosesBound(s)
    BY DEF Core
  <2>2. ColdQueue(s) => ColdQueue(r)
    BY <1>3, <1>4 DEF ColdQueue
  <2>3. \A i \in DOMAIN r.main : ColdBlock(s, i + 1) => ColdBlock(r, i)
    <3>1. \A i, j \in DOMAIN r.main : j < i => j + 1 < i + 1
      BY <1>3
    <3> QED BY <1>3, <1>4, <3>1 DEF ColdBlock
  <2>4. \A i, j \in DOMAIN r.main : i # j => i + 1 # j + 1
    BY <1>3
  <2> QED BY <1>2, <1>3, <1>4, <2>1, <2>2, <2>3, <2>4 DEF ClosesBound
<1>14. StopsHold(r)
  <2>1. StopsHold(s)
    BY DEF Core
  <2>2. ASSUME NEW i \in DOMAIN r.main, r.main[i].kind = "close", r.main[i].res = "ok"
        PROVE  /\ ~Occupied(r, r.main[i].d)
               /\ \A j \in DOMAIN r.main :
                     j > i /\ r.main[j].kind = "launch" => r.main[j].d # r.main[i].d
    <3>1. \A j \in DOMAIN r.main : j > i => j + 1 > i + 1
      BY <1>3
    <3> QED BY <1>3, <1>5, <2>1, <2>2, <3>1 DEF StopsHold
  <2>3. ASSUME NEW i \in DOMAIN r.main, r.main[i].kind = "cleanup", r.main[i].res = "ok"
        PROVE  \/ \E j \in DOMAIN r.main :
                     j > i /\ r.main[j].kind = "launch" /\ r.main[j].d = r.main[i].d
               \/ /\ task[r.main[i].app] # r.main[i].d
                  /\ \A j \in DOMAIN r.cmds :
                        /\ r.cmds[j].op = "launch" /\ ~r.cmds[j].live
                        /\ r.cmds[j].app = r.main[i].app
                        => r.cmds[j].d # r.main[i].d
    <3>1. i + 1 \in DOMAIN s.main /\ s.main[i + 1] = r.main[i] /\ i \in Nat /\ i > 0
      BY <1>3
    <3>2. ASSUME NEW j \in DOMAIN s.main, j > i + 1
          PROVE  j - 1 \in DOMAIN r.main /\ r.main[j - 1] = s.main[j] /\ j - 1 > i
      <4>1. j \in Nat /\ j > 1 /\ (j - 1) + 1 = j /\ j - 1 > i
        BY <1>3, <3>1, <3>2
      <4>2. j - 1 \in DOMAIN r.main
        BY <1>3, <4>1
      <4>3. r.main[j - 1] = s.main[(j - 1) + 1]
        BY <1>3, <4>2
      <4> QED BY <4>1, <4>2, <4>3
    <3>3. CASE \E j \in DOMAIN s.main :
                  j > i + 1 /\ s.main[j].kind = "launch" /\ s.main[j].d = s.main[i + 1].d
      <4>1. PICK j \in DOMAIN s.main :
                  j > i + 1 /\ s.main[j].kind = "launch" /\ s.main[j].d = s.main[i + 1].d
        BY <3>3
      <4>2. j - 1 \in DOMAIN r.main /\ r.main[j - 1] = s.main[j] /\ j - 1 > i
        BY <3>2, <4>1
      <4> QED BY <3>1, <4>1, <4>2
    <3>4. CASE ~ \E j \in DOMAIN s.main :
                  j > i + 1 /\ s.main[j].kind = "launch" /\ s.main[j].d = s.main[i + 1].d
      BY <1>2, <2>1, <2>3, <3>1, <3>4 DEF StopsHold
    <3> QED BY <3>3, <3>4
  <2> QED BY <2>2, <2>3 DEF StopsHold
<1>15. ResetLast(r)
  <2>1. ResetLast(s)
    BY DEF Core
  <2>2. \A i, j \in DOMAIN r.main : j > i => j + 1 > i + 1
    BY <1>3
  <2> QED BY <1>3, <2>1, <2>2 DEF ResetLast
<1>16. Processes(r)
  BY <1>2 DEF Core, Processes
<1>17. Core(r)
  BY <1>4, <1>6, <1>7, <1>8, <1>9, <1>10, <1>11, <1>12, <1>13, <1>14, <1>15, <1>16 DEF Core
<1> QED BY <1>2, <1>3, <1>17 DEF r

\* What a block may be posted: its handler will find what it expects.
Fits(s, x) ==
    /\ x.kind \in DisplayKinds =>
          /\ channel = "alive" => x.d \in ReservedIn(s)
          /\ ~NotCreated(s, x.d)
          /\ \A i \in DOMAIN s.main : s.main[i].kind = "removed" => s.main[i].d # x.d
          /\ monitor # "restarting"
    /\ x.kind \in DisplayKinds \cup {"connected"} =>
          \A i \in DOMAIN s.main : s.main[i].kind # "reset"
    /\ x.kind = "connected" => agent # "stale"
    /\ x.kind = "reset" =>
          monitor = "resetting" /\ \A i \in DOMAIN s.main : s.main[i].kind # "reset"
    /\ x.kind = "add" =>
          /\ Fresh(s, x.d, x.app)
          /\ \A i \in DOMAIN s.main : s.main[i].kind = "add" => s.main[i].d # x.d
          /\ x.res = "error" =>
                /\ x.d \notin exists /\ x.d \notin s.windows
                /\ \A i \in DOMAIN s.ctl : s.ctl[i].d # x.d
                /\ \A i \in DOMAIN s.main : s.main[i].kind \in DisplayKinds => s.main[i].d # x.d
    /\ x.kind = "removed" =>
          x.d \in s.removal /\ x.d \notin exists /\ \A i \in DOMAIN s.ctl : s.ctl[i].d # x.d
    /\ x.kind \in {"launch", "close"} =>
          /\ ~AddPending(s, x.d) /\ \A t \in timers : t.d = x.d => ~Wanted(s, t)
    /\ x.kind = "launch" =>
          /\ \/ Running(s, x.d, x.app)
             \/ Cold(s) /\ \A i \in DOMAIN s.main : s.main[i].kind # "connected"
          /\ x.d \notin s.deferred /\ ~LaunchPending(s, x.d)
          /\ x.res = "failed" => ~Occupied(s, x.d)
          /\ \A i \in DOMAIN s.main :
                s.main[i].kind = "close" /\ s.main[i].res = "ok" => s.main[i].d # x.d
    /\ x.kind = "close" =>
          /\ \/ Closing(s, x.d, x.app)
             \/ Cold(s) /\ \A i \in DOMAIN s.main : s.main[i].kind # "connected"
          /\ ~ClosePending(s, x.d)
          /\ x.res = "ok" => ~Occupied(s, x.d)
    /\ x.kind = "cleanup" /\ x.res = "ok" =>
          /\ task[x.app] # x.d
          /\ \A j \in DOMAIN s.cmds :
                s.cmds[j].op = "launch" /\ ~s.cmds[j].live /\ s.cmds[j].app = x.app =>
                   s.cmds[j].d # x.d

\* Blocks that are posted together do not meet.
Alone(x) ==
    \/ x.kind \in {"removed", "connected", "reset"}
    \/ x.kind = "add" /\ x.res = "error"
    \/ x.kind = "close" /\ x.res = "ok"
Apart(x, y) ==
    /\ ~Alone(x) /\ ~Alone(y)
    /\ x.kind = y.kind /\ x.kind \in {"add", "launch", "close"} => x.d # y.d
    /\ x.kind = "add" => y.kind \notin {"launch", "close"}

LEMMA PostStep ==
  ASSUME NEW s \in ShellType, Core(s), NEW q \in Seq(Blocks),
         \A k \in DOMAIN q : Fits(s, q[k]),
         \A j, k \in DOMAIN q : j # k => Apart(q[j], q[k])
  PROVE  LET r == [s EXCEPT !.main = @ \o q]
         IN /\ r \in ShellType /\ Core(r) /\ SameTables(s, r)
            /\ r.ctl = s.ctl /\ r.cmds = s.cmds /\ r.main = s.main \o q
<1> DEFINE r == [s EXCEPT !.main = @ \o q]
           New == DOMAIN r.main \ DOMAIN s.main
<1>1. s.main \in Seq(Blocks)
  BY DEF ShellType
<1>2. r \in ShellType /\ SameTables(s, r) /\ r.ctl = s.ctl /\ r.cmds = s.cmds /\ r.main = s.main \o q
  <2>1. s.main \o q \in Seq(Blocks)
    BY <1>1, ConcatFacts
  <2> QED BY <2>1 DEF ShellType, SameTables
<1> HIDE DEF r
<1>3. /\ \A i \in DOMAIN s.main : i \in DOMAIN r.main /\ r.main[i] = s.main[i] /\ i \in Nat
      /\ DOMAIN r.main \subseteq Nat
      /\ \A i \in New : \E k \in DOMAIN q : i = Len(s.main) + k /\ r.main[i] = q[k]
      /\ \A i \in New, j \in DOMAIN s.main : j < i
  <2>1. /\ DOMAIN s.main \subseteq DOMAIN r.main /\ DOMAIN r.main \subseteq Nat
        /\ \A i \in DOMAIN s.main : r.main[i] = s.main[i] /\ i \in Nat
        /\ \A i \in DOMAIN q : /\ r.main[Len(s.main) + i] = q[i]
                               /\ \A j \in DOMAIN s.main : j < Len(s.main) + i
        /\ \A i \in DOMAIN r.main : i \in DOMAIN s.main \/ \E j \in DOMAIN q : i = Len(s.main) + j
    BY <1>1, <1>2, ConcatFacts
  <2> QED BY <2>1
<1>4. /\ \A i \in New : Fits(s, r.main[i])
      /\ \A i, j \in New : i # j => Apart(r.main[i], r.main[j])
  BY <1>3
<1> HIDE DEF New
<1>5. \A i \in DOMAIN r.main : i \in DOMAIN s.main \/ i \in New
  BY DEF New
<1>6. /\ Tables(r) /\ Cold(r) = Cold(s) /\ ReservedIn(r) = ReservedIn(s)
      /\ \A d, a : Running(r, d, a) = Running(s, d, a) /\ Closing(r, d, a) = Closing(s, d, a)
      /\ \A t : Wanted(r, t) = Wanted(s, t)
      /\ r.removal = s.removal /\ r.windows = s.windows /\ r.deferred = s.deferred
      /\ r.inFlight = s.inFlight
  BY <1>2, SameTablesFacts DEF Core, SameTables
<1>7. \A d : /\ Occupied(r, d) = Occupied(s, d)
             /\ LaunchPending(r, d) =>
                   LaunchPending(s, d) \/ \E i \in New : r.main[i].kind = "launch" /\ r.main[i].d = d
             /\ ClosePending(r, d) =>
                   ClosePending(s, d) \/ \E i \in New : r.main[i].kind = "close" /\ r.main[i].d = d
             /\ Unused(s, d) => Unused(r, d)
                   \/ \E i \in New : r.main[i].kind \in {"launch", "close"} /\ r.main[i].d = d
  BY SMTT(40), <1>2, <1>3, <1>5 DEF Occupied, LaunchPending, ClosePending, Unused
<1>8. Owned(r)
  BY <1>2, <1>3, <1>4, <1>5, <1>6 DEF Core, Owned, Fits
<1>9. RemoveLast(r)
  <2>1. RemoveLast(s)
    BY DEF Core
  <2>2. ASSUME NEW i \in DOMAIN r.main, r.main[i].kind = "removed"
        PROVE  /\ r.main[i].d \in r.removal /\ r.main[i].d \notin exists
               /\ \A j \in DOMAIN r.ctl : r.ctl[j].d # r.main[i].d
               /\ \A j \in DOMAIN r.main :
                     j > i /\ r.main[j].kind \in DisplayKinds => r.main[j].d # r.main[i].d
    <3>1. CASE i \in DOMAIN s.main
      BY SMTT(40), <1>2, <1>3, <1>4, <1>5, <1>6, <2>1, <2>2, <3>1 DEF RemoveLast, Fits
    <3>2. CASE i \in New
      <4>1. \A j \in DOMAIN r.main : j = i \/ j < i
        <5>1. \A j \in New : j = i
          BY <1>4, <2>2, <3>2 DEF Apart, Alone
        <5> QED BY <1>3, <1>5, <3>2, <5>1
      <4>2. i \in Nat /\ \A j \in DOMAIN r.main : ~(j > i)
        BY <1>3, <4>1
      <4> QED BY <1>2, <1>4, <1>6, <2>2, <3>2, <4>2 DEF Fits
    <3> QED BY <1>5, <3>1, <3>2
  <2> QED BY <1>2, <1>6, <2>1, <2>2 DEF RemoveLast
<1>10. AddAlone(r)
  <2>1. AddAlone(s)
    BY DEF Core
  <2>2. ASSUME NEW i \in DOMAIN s.ctl, s.ctl[i].op = "add", s.ctl[i].live
        PROVE  \A j \in DOMAIN r.main :
                  r.main[j].kind \in DisplayKinds => r.main[j].d # s.ctl[i].d
    BY <1>3, <1>4, <1>5, <2>1, <2>2 DEF AddAlone, Fits, NotCreated
  <2>3. ASSUME NEW i \in DOMAIN r.main, r.main[i].kind = "add", r.main[i].res = "error"
        PROVE  /\ r.main[i].d \notin exists /\ r.main[i].d \notin r.windows
               /\ \A j \in DOMAIN r.ctl : r.ctl[j].d # r.main[i].d
               /\ \A j \in DOMAIN r.main :
                     j # i /\ r.main[j].kind \in DisplayKinds => r.main[j].d # r.main[i].d
    <3>1. CASE i \in DOMAIN s.main
      BY SMTT(40), <1>2, <1>3, <1>4, <1>5, <1>6, <2>1, <2>3, <3>1 DEF AddAlone, Fits, NotCreated
    <3>2. CASE i \in New
      <4>1. \A j \in New : j = i
        BY <1>4, <2>3, <3>2 DEF Apart, Alone
      <4> QED BY <1>2, <1>3, <1>4, <1>5, <1>6, <2>3, <3>2, <4>1 DEF Fits
    <3> QED BY <1>5, <3>1, <3>2
  <2> QED BY <1>2, <1>6, <2>1, <2>2, <2>3 DEF AddAlone
<1>11. AddsFresh(r)
  <2>1. AddsFresh(s)
    BY DEF Core
  <2>2. \A d, a : Fresh(s, d, a) /\ AddPending(s, d) => Fresh(r, d, a)
    <3>1. \A d : AddPending(s, d) =>
             ~ \E i \in New : r.main[i].kind \in {"launch", "close"} /\ r.main[i].d = d
      BY <1>4 DEF Fits
    <3> QED BY <1>2, <1>7, <3>1 DEF Fresh, SameTables
  <2>3. ASSUME NEW i \in New, r.main[i].kind = "add"
        PROVE  Fresh(r, r.main[i].d, r.main[i].app)
    <3>1. Fresh(s, r.main[i].d, r.main[i].app)
      BY <1>4, <2>3 DEF Fits
    <3>2. ~ \E j \in New : r.main[j].kind \in {"launch", "close"} /\ r.main[j].d = r.main[i].d
      BY <1>4, <2>3 DEF Apart
    <3> QED BY <1>2, <1>7, <3>1, <3>2 DEF Fresh, SameTables
  <2>4. ASSUME NEW i \in DOMAIN s.ctl, s.ctl[i].op = "add", s.ctl[i].live
        PROVE  Fresh(r, s.ctl[i].d, s.ctl[i].app)
    BY <2>1, <2>2, <2>4 DEF AddsFresh, AddPending
  <2>5. ASSUME NEW i \in DOMAIN s.main, s.main[i].kind = "add"
        PROVE  Fresh(r, s.main[i].d, s.main[i].app)
    BY <2>1, <2>2, <2>5 DEF AddsFresh, AddPending
  <2>6. ASSUME NEW i \in DOMAIN r.main, NEW j \in DOMAIN r.main, i # j,
               r.main[i].kind = "add", r.main[j].kind = "add"
        PROVE  r.main[i].d # r.main[j].d
    BY <1>3, <1>4, <1>5, <2>1, <2>6 DEF AddsFresh, Fits, Apart
  <2> QED BY <1>2, <1>3, <1>5, <2>3, <2>4, <2>5, <2>6 DEF AddsFresh
<1>12. TimersFirst(r)
  <2>1. TimersFirst(s)
    BY DEF Core
  <2>2. \A t \in timers : Wanted(s, t) =>
           ~ \E i \in New : r.main[i].kind \in {"launch", "close"} /\ r.main[i].d = t.d
    BY <1>4 DEF Fits
  <2> QED BY <1>6, <1>7, <2>1, <2>2 DEF TimersFirst
<1>13. /\ (\A i \in New : r.main[i].kind # "connected") \/ agent # "stale"
       /\ \A i \in New : r.main[i].kind \in {"launch", "close"} =>
             \A j \in New : r.main[j].kind # "connected"
  <2>1. \A i \in New : r.main[i].kind = "connected" => agent # "stale"
    BY <1>4 DEF Fits
  <2>2. \A i, j \in New : r.main[i].kind \in {"launch", "close"} /\ r.main[j].kind = "connected" => i # j
    OBVIOUS
  <2>3. \A i, j \in New : i # j => r.main[j].kind # "connected"
    BY <1>4 DEF Apart, Alone
  <2> QED BY <2>1, <2>2, <2>3
<1>14. ColdQueue(s) => ColdQueue(r)
  BY <1>3, <1>5, <1>6, <1>13 DEF ColdQueue
<1>15. \A i \in DOMAIN s.main : ColdBlock(s, i) => ColdBlock(r, i)
  <2>1. \A i \in DOMAIN s.main, j \in New : ~(j < i)
    <3>1. New \subseteq Nat /\ DOMAIN s.main \subseteq Nat
      BY <1>3 DEF New
    <3> QED BY <1>3, <3>1
  <2> QED BY <1>3, <1>5, <1>6, <2>1 DEF ColdBlock
<1>16. \A i \in New : /\ r.main[i].kind \in {"launch", "close"}
                      /\ Cold(s) /\ \A j \in DOMAIN s.main : s.main[j].kind # "connected"
                      => ColdBlock(r, i)
  BY <1>3, <1>5, <1>6, <1>13 DEF ColdBlock
<1>17. LaunchesBound(r)
  <2>1. LaunchesBound(s)
    BY DEF Core
  <2>2. ASSUME NEW i \in DOMAIN r.main, r.main[i].kind = "launch"
        PROVE  Running(r, r.main[i].d, r.main[i].app) \/ ColdBlock(r, i)
    <3>1. CASE i \in DOMAIN s.main
      BY <1>3, <1>6, <1>15, <2>1, <2>2, <3>1 DEF LaunchesBound
    <3>2. CASE i \in New
      BY <1>4, <1>6, <1>16, <2>2, <3>2 DEF Fits
    <3> QED BY <1>5, <3>1, <3>2
  <2>3. ASSUME NEW d \in r.deferred
        PROVE  ~LaunchPending(r, d)
    BY <1>4, <1>6, <1>7, <2>1 DEF LaunchesBound, Fits
  <2> QED BY <1>2, <1>6, <1>14, <2>1, <2>2, <2>3 DEF LaunchesBound
<1>18. LaunchOnce(r)
  <2>1. LaunchOnce(s)
    BY DEF Core
  <2>2. ASSUME NEW i \in DOMAIN r.main, NEW j \in DOMAIN r.main, i # j,
               r.main[i].kind = "launch", r.main[j].kind = "launch"
        PROVE  r.main[i].d # r.main[j].d
    BY <1>3, <1>4, <1>5, <2>1, <2>2 DEF LaunchOnce, Fits, Apart, LaunchPending
  <2>3. ASSUME NEW i \in DOMAIN s.cmds, s.cmds[i].op = "launch", s.cmds[i].live,
               NEW j \in DOMAIN r.main, r.main[j].kind = "launch"
        PROVE  r.main[j].d # s.cmds[i].d
    BY <1>3, <1>4, <1>5, <2>1, <2>3 DEF LaunchOnce, Fits, LaunchPending
  <2>4. ASSUME NEW i \in DOMAIN r.main, r.main[i].kind = "launch", r.main[i].res = "failed"
        PROVE  ~Occupied(r, r.main[i].d)
    BY <1>3, <1>4, <1>5, <1>7, <2>1, <2>4 DEF LaunchOnce, Fits
  <2> QED BY <1>2, <2>1, <2>2, <2>3, <2>4 DEF LaunchOnce
<1>19. ClosesBound(r)
  <2>1. ClosesBound(s)
    BY DEF Core
  <2>2. ASSUME NEW i \in DOMAIN s.cmds, s.cmds[i].op = "close", s.cmds[i].live,
               NEW j \in DOMAIN r.main, r.main[j].kind = "close"
        PROVE  r.main[j].d # s.cmds[i].d
    BY <1>3, <1>4, <1>5, <2>1, <2>2 DEF ClosesBound, Fits, ClosePending
  <2>3. ASSUME NEW i \in DOMAIN r.main, r.main[i].kind = "close"
        PROVE  Closing(r, r.main[i].d, r.main[i].app) \/ ColdBlock(r, i)
    <3>1. CASE i \in DOMAIN s.main
      BY <1>3, <1>6, <1>15, <2>1, <2>3, <3>1 DEF ClosesBound
    <3>2. CASE i \in New
      BY <1>4, <1>6, <1>16, <2>3, <3>2 DEF Fits
    <3> QED BY <1>5, <3>1, <3>2
  <2>4. ASSUME NEW i \in DOMAIN r.main, NEW j \in DOMAIN r.main, j # i,
               r.main[i].kind = "close", r.main[j].kind = "close"
        PROVE  r.main[j].d # r.main[i].d
    BY SMTT(40), <1>3, <1>4, <1>5, <2>1, <2>4 DEF ClosesBound, Fits, Apart, ClosePending
  <2>5. ASSUME NEW i \in DOMAIN r.cmds, r.cmds[i].op = "close", r.cmds[i].live
        PROVE  /\ Closing(r, r.cmds[i].d, r.cmds[i].app) \/ ColdQueue(r)
               /\ \A j \in DOMAIN r.cmds :
                     /\ j > i /\ r.cmds[j].op = "launch" => r.cmds[j].d # r.cmds[i].d
                     /\ j # i /\ r.cmds[j].op = "close" /\ r.cmds[j].live =>
                           r.cmds[j].d # r.cmds[i].d
    BY <1>2, <1>6, <1>14, <2>1, <2>5 DEF ClosesBound
  <2> QED BY ZenonT(40), <1>2, <2>2, <2>3, <2>4, <2>5 DEF ClosesBound
<1>20. StopsHold(r)
  <2>1. StopsHold(s)
    BY DEF Core
  <2>2. ASSUME NEW i \in DOMAIN r.main, r.main[i].kind = "close", r.main[i].res = "ok"
        PROVE  /\ ~Occupied(r, r.main[i].d)
               /\ \A j \in DOMAIN r.main :
                     j > i /\ r.main[j].kind = "launch" => r.main[j].d # r.main[i].d
    <3>1. CASE i \in DOMAIN s.main
      BY <1>3, <1>4, <1>5, <1>7, <2>1, <2>2, <3>1 DEF StopsHold, Fits
    <3>2. CASE i \in New
      <4>1. \A j \in New : j = i
        BY <1>4, <2>2, <3>2 DEF Apart, Alone
      <4>2. \A j \in DOMAIN s.main : ~(j > i)
        <5>1. New \subseteq Nat /\ DOMAIN s.main \subseteq Nat
          BY <1>3 DEF New
        <5> QED BY <1>3, <3>2, <5>1
      <4> QED BY <1>3, <1>4, <1>5, <1>7, <2>2, <3>2, <4>1, <4>2 DEF Fits
    <3> QED BY <1>5, <3>1, <3>2
  <2>3. ASSUME NEW i \in DOMAIN r.main, r.main[i].kind = "cleanup", r.main[i].res = "ok"
        PROVE  \/ \E j \in DOMAIN r.main :
                     j > i /\ r.main[j].kind = "launch" /\ r.main[j].d = r.main[i].d
               \/ /\ task[r.main[i].app] # r.main[i].d
                  /\ \A j \in DOMAIN r.cmds :
                        /\ r.cmds[j].op = "launch" /\ ~r.cmds[j].live
                        /\ r.cmds[j].app = r.main[i].app
                        => r.cmds[j].d # r.main[i].d
    <3>1. CASE i \in DOMAIN s.main
      BY <1>2, <1>3, <2>1, <2>3, <3>1 DEF StopsHold
    <3>2. CASE i \in New
      BY <1>2, <1>4, <2>3, <3>2 DEF Fits
    <3> QED BY <1>5, <3>1, <3>2
  <2> QED BY <2>2, <2>3 DEF StopsHold
<1>21. ResetLast(r)
  <2>1. ResetLast(s)
    BY DEF Core
  <2>2. \A i \in New : /\ r.main[i].kind = "reset" => monitor = "resetting"
                       /\ r.main[i].kind \in DisplayKinds => monitor # "restarting"
                       /\ \A j \in DOMAIN s.main : s.main[j].kind = "reset" =>
                             r.main[i].kind \notin DisplayKinds \cup {"reset", "connected"}
    BY <1>4 DEF Fits
  <2>3. \A i, j \in New : r.main[i].kind = "reset" => i = j
    BY <1>4 DEF Apart, Alone
  <2>4. \A i \in New, j \in DOMAIN s.main : ~(j > i)
    BY <1>3, <1>5 DEF New
  <2>5. \A i \in New : ~(i > i)
    BY <1>3 DEF New
  <2>6. \A i \in DOMAIN r.main : r.main[i].kind = "reset" =>
          /\ monitor = "resetting"
          /\ \A j \in DOMAIN r.main : j > i => r.main[j].kind \notin
                DisplayKinds \cup {"reset", "connected"}
    BY <1>3, <1>5, <2>1, <2>2, <2>3, <2>4, <2>5 DEF ResetLast
  <2>7. monitor = "restarting" => \A i \in DOMAIN r.main :
          r.main[i].kind \notin DisplayKinds \cup {"reset"}
    BY <1>3, <1>5, <2>1, <2>2 DEF ResetLast
  <2> QED BY <2>6, <2>7 DEF ResetLast
<1>22. Processes(r)
  BY <1>2 DEF Core, Processes
<1>23. Core(r)
  BY <1>6, <1>8, <1>9, <1>10, <1>11, <1>12, <1>17, <1>18, <1>19, <1>20, <1>21, <1>22 DEF Core
<1> QED BY <1>2, <1>23 DEF r

-----------------------------------------------------------------------------
(* The requests and the commands.  `f` says where in the old queue an entry of *)
(* the new one was.                                                            *)

LEMMA EmptyQueue ==
  ASSUME NEW S, NEW q \in Seq(S), \A i \in DOMAIN q : FALSE
  PROVE  q = <<>>
<1>1. DOMAIN q = 1..Len(q) /\ Len(q) \in Nat
  OBVIOUS
<1>2. Len(q) = 0
  <2> SUFFICES ASSUME Len(q) # 0 PROVE FALSE
    OBVIOUS
  <2>1. 1 \in DOMAIN q
    BY <1>1
  <2> QED BY <2>1
<1> QED BY <1>2

\* qemu executes the first request, or requests are given up.
OldRequests(s, x, f) ==
    /\ \A i \in DOMAIN x :
          /\ f[i] \in DOMAIN s.ctl /\ x[i].op = s.ctl[f[i]].op /\ x[i].d = s.ctl[f[i]].d
          /\ x[i].app = s.ctl[f[i]].app /\ (x[i].live => s.ctl[f[i]].live)
    /\ \A i, j \in DOMAIN x : (i > j => f[i] > f[j]) /\ (i # j => f[i] # f[j])

LEMMA FewerRequests ==
  ASSUME NEW s \in ShellType, Core(s), NEW x \in Seq(Requests), NEW f, OldRequests(s, x, f)
  PROVE  LET r == [s EXCEPT !.ctl = x]
         IN /\ r \in ShellType /\ Core(r) /\ SameTables(s, r)
            /\ r.ctl = x /\ r.cmds = s.cmds /\ r.main = s.main
<1> DEFINE r == [s EXCEPT !.ctl = x]
<1>1. r \in ShellType /\ SameTables(s, r) /\ r.ctl = x /\ r.cmds = s.cmds /\ r.main = s.main
  BY DEF ShellType, SameTables
<1> HIDE DEF r
<1> USE DEF OldRequests
<1>2. /\ Tables(r) /\ Cold(r) = Cold(s) /\ ReservedIn(r) = ReservedIn(s)
      /\ \A d, a : Running(r, d, a) = Running(s, d, a) /\ Closing(r, d, a) = Closing(s, d, a)
      /\ \A t : Wanted(r, t) = Wanted(s, t)
      /\ r.removal = s.removal /\ r.windows = s.windows /\ r.deferred = s.deferred
      /\ r.inFlight = s.inFlight
  BY <1>1, SameTablesFacts DEF Core, SameTables
<1>3. \A d : /\ Occupied(r, d) = Occupied(s, d) /\ LaunchPending(r, d) = LaunchPending(s, d)
             /\ ClosePending(r, d) = ClosePending(s, d) /\ Unused(r, d) = Unused(s, d)
  BY <1>1 DEF Occupied, LaunchPending, ClosePending, Unused
<1>4. Owned(r)
  BY <1>1, <1>2 DEF Core, Owned
<1>5. RemoveLast(r)
  <2>1. RemoveLast(s)
    BY DEF Core
  <2>2. ASSUME NEW i \in DOMAIN x, x[i].op = "remove"
        PROVE  x[i].d \in s.removal /\ \A j \in DOMAIN x : j > i => x[j].d # x[i].d
    BY <2>1, <2>2 DEF RemoveLast
  <2>3. \A i \in DOMAIN s.main : s.main[i].kind = "removed" =>
           \A j \in DOMAIN x : x[j].d # s.main[i].d
    BY <2>1 DEF RemoveLast
  <2> QED BY <1>1, <1>2, <2>1, <2>2, <2>3 DEF RemoveLast
<1>6. AddAlone(r)
  <2>1. AddAlone(s)
    BY DEF Core
  <2>2. ASSUME NEW i \in DOMAIN x, x[i].op = "add", x[i].live
        PROVE  /\ x[i].d \notin exists /\ x[i].d \notin s.windows
               /\ \A j \in DOMAIN x : j # i => x[j].d # x[i].d
               /\ \A j \in DOMAIN s.main : s.main[j].kind \in DisplayKinds => s.main[j].d # x[i].d
    BY <2>1, <2>2 DEF AddAlone
  <2>3. \A i \in DOMAIN s.main : s.main[i].kind = "add" /\ s.main[i].res = "error" =>
           \A j \in DOMAIN x : x[j].d # s.main[i].d
    BY <2>1 DEF AddAlone
  <2> QED BY <1>1, <1>2, <2>1, <2>2, <2>3 DEF AddAlone
<1>7. AddsFresh(r)
  <2>1. \A d, a : Fresh(r, d, a) = Fresh(s, d, a)
    BY <1>1, <1>3 DEF Fresh, SameTables
  <2> QED BY <1>1, <2>1 DEF Core, AddsFresh
<1>8. TimersFirst(r)
  BY <1>2, <1>3 DEF Core, TimersFirst
<1>9. /\ ColdQueue(r) = ColdQueue(s) /\ \A i : ColdBlock(r, i) = ColdBlock(s, i)
  BY <1>1, <1>2 DEF ColdQueue, ColdBlock
<1>10. LaunchesBound(r)
  BY <1>1, <1>2, <1>3, <1>9 DEF Core, LaunchesBound
<1>11. LaunchOnce(r)
  BY <1>1, <1>3 DEF Core, LaunchOnce
<1>12. ClosesBound(r)
  BY <1>1, <1>2, <1>9 DEF Core, ClosesBound
<1>13. StopsHold(r) /\ ResetLast(r)
  BY <1>1, <1>3 DEF Core, StopsHold, ResetLast
<1>14. Processes(r)
  <2>1. s.ctl = <<>> => x = <<>>
    <3>1. ASSUME s.ctl = <<>> PROVE \A i \in DOMAIN x : FALSE
      BY <3>1
    <3> QED BY <3>1, EmptyQueue
  <2> QED BY <1>1, <2>1 DEF Core, Processes
<1>15. Core(r)
  BY <1>2, <1>4, <1>5, <1>6, <1>7, <1>8, <1>10, <1>11, <1>12, <1>13, <1>14 DEF Core
<1> QED BY <1>1, <1>15 DEF r

\* The agent executes the first command, or commands that nobody waits for are
\* gone.
OldCommands(s, x, f) ==
    /\ \A i \in DOMAIN x :
          /\ f[i] \in DOMAIN s.cmds /\ x[i].op = s.cmds[f[i]].op /\ x[i].d = s.cmds[f[i]].d
          /\ x[i].app = s.cmds[f[i]].app /\ x[i].live = s.cmds[f[i]].live
    /\ \A i, j \in DOMAIN x : (j > i => f[j] > f[i]) /\ (i # j => f[i] # f[j])
                               /\ (j < i => f[j] < f[i])

LEMMA FewerCommands ==
  ASSUME NEW s \in ShellType, Core(s), NEW x \in Seq(Commands), NEW f, OldCommands(s, x, f)
  PROVE  LET r == [s EXCEPT !.cmds = x]
         IN /\ r \in ShellType /\ Core(r) /\ SameTables(s, r)
            /\ r.ctl = s.ctl /\ r.cmds = x /\ r.main = s.main
<1> DEFINE r == [s EXCEPT !.cmds = x]
<1>1. r \in ShellType /\ SameTables(s, r) /\ r.ctl = s.ctl /\ r.cmds = x /\ r.main = s.main
  BY DEF ShellType, SameTables
<1> HIDE DEF r
<1> USE DEF OldCommands
<1>2. /\ Tables(r) /\ Cold(r) = Cold(s) /\ ReservedIn(r) = ReservedIn(s)
      /\ \A d, a : Running(r, d, a) = Running(s, d, a) /\ Closing(r, d, a) = Closing(s, d, a)
      /\ \A t : Wanted(r, t) = Wanted(s, t)
      /\ r.removal = s.removal /\ r.windows = s.windows /\ r.deferred = s.deferred
      /\ r.inFlight = s.inFlight
  BY <1>1, SameTablesFacts DEF Core, SameTables
<1>3. \A d : /\ Occupied(r, d) => Occupied(s, d)
             /\ LaunchPending(r, d) => LaunchPending(s, d)
             /\ ClosePending(r, d) => ClosePending(s, d)
             /\ Unused(s, d) => Unused(r, d)
  BY <1>1 DEF Occupied, LaunchPending, ClosePending, Unused
<1>4. Owned(r) /\ RemoveLast(r) /\ AddAlone(r) /\ ResetLast(r)
  BY <1>1, <1>2 DEF Core, Owned, RemoveLast, AddAlone, ResetLast
<1>5. AddsFresh(r)
  <2>1. \A d, a : Fresh(s, d, a) => Fresh(r, d, a)
    BY <1>1, <1>3 DEF Fresh, SameTables
  <2> QED BY <1>1, <2>1 DEF Core, AddsFresh
<1>6. TimersFirst(r)
  BY <1>2, <1>3 DEF Core, TimersFirst
<1>7. /\ ColdQueue(r) = ColdQueue(s) /\ \A i : ColdBlock(r, i) = ColdBlock(s, i)
  BY <1>1, <1>2 DEF ColdQueue, ColdBlock
<1>8. LaunchesBound(r)
  BY <1>1, <1>2, <1>3, <1>7 DEF Core, LaunchesBound
<1>9. LaunchOnce(r)
  <2>1. LaunchOnce(s)
    BY DEF Core
  <2>2. ASSUME NEW i \in DOMAIN x, x[i].op = "launch"
        PROVE  /\ \A a \in Apps : task[a] # x[i].d
               /\ x[i].live => \A j \in DOMAIN s.main :
                     s.main[j].kind = "launch" => s.main[j].d # x[i].d
               /\ ~x[i].live => \A j \in DOMAIN x : j < i => ~x[j].live
    BY <2>1, <2>2 DEF LaunchOnce
  <2>3. \A i, j \in DOMAIN x : i # j /\ x[i].op = "launch" /\ x[j].op = "launch" => x[i].d # x[j].d
    BY <2>1 DEF LaunchOnce
  <2> QED BY <1>1, <1>3, <2>1, <2>2, <2>3 DEF LaunchOnce
<1>10. ClosesBound(r)
  <2>1. ClosesBound(s)
    BY DEF Core
  <2>2. ASSUME NEW i \in DOMAIN x, x[i].op = "close", x[i].live
        PROVE  /\ Closing(s, x[i].d, x[i].app) \/ ColdQueue(s)
               /\ \A j \in DOMAIN x :
                     /\ j > i /\ x[j].op = "launch" => x[j].d # x[i].d
                     /\ j # i /\ x[j].op = "close" /\ x[j].live => x[j].d # x[i].d
               /\ \A j \in DOMAIN s.main : s.main[j].kind = "close" => s.main[j].d # x[i].d
    BY <2>1, <2>2 DEF ClosesBound
  <2> QED BY <1>1, <1>2, <1>7, <2>1, <2>2 DEF ClosesBound
<1>11. StopsHold(r)
  <2>1. \A a, d : (\A j \in DOMAIN s.cmds : s.cmds[j].op = "launch" /\ ~s.cmds[j].live
                       /\ s.cmds[j].app = a => s.cmds[j].d # d)
                  => \A j \in DOMAIN x : x[j].op = "launch" /\ ~x[j].live /\ x[j].app = a => x[j].d # d
    OBVIOUS
  <2> QED BY <1>1, <1>3, <2>1 DEF Core, StopsHold
<1>12. Processes(r)
  <2>1. s.cmds = <<>> => x = <<>>
    <3>1. ASSUME s.cmds = <<>> PROVE \A i \in DOMAIN x : FALSE
      BY <3>1
    <3> QED BY <3>1, EmptyQueue
  <2>2. (\A i \in DOMAIN s.cmds : ~s.cmds[i].live) => \A i \in DOMAIN x : ~x[i].live
    OBVIOUS
  <2> QED BY <1>1, <2>1, <2>2 DEF Core, Processes
<1>13. Core(r)
  BY <1>2, <1>4, <1>5, <1>6, <1>8, <1>9, <1>10, <1>11, <1>12 DEF Core
<1> QED BY <1>1, <1>13 DEF r

\* What a command may find when it is written to the agent.
CommandFits(s, c) ==
    /\ c.live
    /\ c.op \in {"launch", "close"} =>
          /\ ~AddPending(s, c.d) /\ ~ClosePending(s, c.d)
          /\ \A t \in timers : t.d = c.d => ~Wanted(s, t)
    /\ c.op = "launch" => Running(s, c.d, c.app) /\ Unused(s, c.d) /\ c.d \notin s.deferred
    /\ c.op = "close" => Closing(s, c.d, c.app)

LEMMA SendStep ==
  ASSUME NEW s \in ShellType, Core(s), agent # "none", NEW q \in Seq(Commands),
         \A k \in DOMAIN q : CommandFits(s, q[k]),
         \A j, k \in DOMAIN q : j # k => q[j].op = "cleanup"
  PROVE  LET r == [s EXCEPT !.cmds = @ \o q]
         IN /\ r \in ShellType /\ Core(r) /\ SameTables(s, r)
            /\ r.ctl = s.ctl /\ r.cmds = s.cmds \o q /\ r.main = s.main
<1> DEFINE r == [s EXCEPT !.cmds = @ \o q]
           New == DOMAIN r.cmds \ DOMAIN s.cmds
<1>1. s.cmds \in Seq(Commands)
  BY DEF ShellType
<1>2. r \in ShellType /\ SameTables(s, r) /\ r.ctl = s.ctl /\ r.cmds = s.cmds \o q /\ r.main = s.main
  <2>1. s.cmds \o q \in Seq(Commands)
    BY <1>1, ConcatFacts
  <2> QED BY <2>1 DEF ShellType, SameTables
<1> HIDE DEF r
<1>3. /\ \A i \in DOMAIN s.cmds : i \in DOMAIN r.cmds /\ r.cmds[i] = s.cmds[i] /\ i \in Nat
      /\ DOMAIN r.cmds \subseteq Nat
      /\ \A i \in New : \E k \in DOMAIN q : i = Len(s.cmds) + k /\ r.cmds[i] = q[k]
      /\ \A i \in New, j \in DOMAIN s.cmds : j < i
  <2>1. /\ DOMAIN s.cmds \subseteq DOMAIN r.cmds /\ DOMAIN r.cmds \subseteq Nat
        /\ \A i \in DOMAIN s.cmds : r.cmds[i] = s.cmds[i] /\ i \in Nat
        /\ \A i \in DOMAIN q : /\ r.cmds[Len(s.cmds) + i] = q[i]
                               /\ \A j \in DOMAIN s.cmds : j < Len(s.cmds) + i
        /\ \A i \in DOMAIN r.cmds : i \in DOMAIN s.cmds \/ \E j \in DOMAIN q : i = Len(s.cmds) + j
    BY SMTT(40), <1>1, <1>2, ConcatFacts
  <2> QED BY <2>1
<1>4. /\ \A i \in New : CommandFits(s, r.cmds[i])
      /\ \A i, j \in New : i # j => r.cmds[i].op = "cleanup"
  BY <1>3
<1>5. \A i \in New, j \in DOMAIN s.cmds : j < i /\ ~(i < j) /\ i # j
  BY <1>3 DEF New
<1> HIDE DEF New
<1>6. \A i \in DOMAIN r.cmds : i \in DOMAIN s.cmds \/ i \in New
  BY DEF New
<1>7. /\ Tables(r) /\ Cold(r) = Cold(s) /\ ReservedIn(r) = ReservedIn(s)
      /\ \A d, a : Running(r, d, a) = Running(s, d, a) /\ Closing(r, d, a) = Closing(s, d, a)
      /\ \A t : Wanted(r, t) = Wanted(s, t)
      /\ r.removal = s.removal /\ r.windows = s.windows /\ r.deferred = s.deferred
      /\ r.inFlight = s.inFlight
  BY <1>2, SameTablesFacts DEF Core, SameTables
<1>8. \A d : /\ Occupied(r, d) =>
                   Occupied(s, d) \/ \E i \in New : r.cmds[i].op = "launch" /\ r.cmds[i].d = d
             /\ LaunchPending(r, d) =>
                   LaunchPending(s, d) \/ \E i \in New : r.cmds[i].op = "launch" /\ r.cmds[i].d = d
             /\ Unused(s, d) => Unused(r, d)
                   \/ \E i \in New : r.cmds[i].op \in {"launch", "close"} /\ r.cmds[i].d = d
  BY SMTT(40), <1>2, <1>3, <1>6 DEF Occupied, LaunchPending, ClosePending, Unused
<1>9. Owned(r) /\ RemoveLast(r) /\ AddAlone(r) /\ ResetLast(r)
  BY <1>2, <1>7 DEF Core, Owned, RemoveLast, AddAlone, ResetLast
<1>10. AddsFresh(r)
  <2>1. \A d, a : Fresh(s, d, a) /\ AddPending(s, d) => Fresh(r, d, a)
    <3>1. \A d : AddPending(s, d) =>
             ~ \E i \in New : r.cmds[i].op \in {"launch", "close"} /\ r.cmds[i].d = d
      BY <1>4 DEF CommandFits
    <3> QED BY <1>2, <1>8, <3>1 DEF Fresh, SameTables
  <2>2. AddsFresh(s)
    BY DEF Core
  <2>3. ASSUME NEW i \in DOMAIN s.ctl, s.ctl[i].op = "add", s.ctl[i].live
        PROVE  Fresh(r, s.ctl[i].d, s.ctl[i].app)
    BY <2>1, <2>2, <2>3 DEF AddsFresh, AddPending
  <2>4. ASSUME NEW i \in DOMAIN s.main, s.main[i].kind = "add"
        PROVE  Fresh(r, s.main[i].d, s.main[i].app)
    BY <2>1, <2>2, <2>4 DEF AddsFresh, AddPending
  <2> QED BY <1>2, <2>2, <2>3, <2>4 DEF AddsFresh
<1>11. TimersFirst(r)
  <2>1. \A t \in timers : Wanted(s, t) =>
           ~ \E i \in New : r.cmds[i].op \in {"launch", "close"} /\ r.cmds[i].d = t.d
    BY <1>4 DEF CommandFits
  <2> QED BY <1>7, <1>8, <2>1 DEF Core, TimersFirst
<1>12. /\ ColdQueue(r) = ColdQueue(s) /\ \A i : ColdBlock(r, i) = ColdBlock(s, i)
  BY <1>2, <1>7 DEF ColdQueue, ColdBlock
<1>13. LaunchesBound(r)
  <2>1. LaunchesBound(s)
    BY DEF Core
  <2>2. ASSUME NEW i \in DOMAIN r.cmds, r.cmds[i].op = "launch"
        PROVE  Running(r, r.cmds[i].d, r.cmds[i].app) \/ ColdQueue(r)
    BY <1>3, <1>4, <1>6, <1>7, <1>12, <2>1, <2>2 DEF LaunchesBound, CommandFits
  <2>3. ASSUME NEW d \in r.deferred
        PROVE  ~LaunchPending(r, d)
    BY <1>4, <1>7, <1>8, <2>1 DEF LaunchesBound, CommandFits
  <2> QED BY <1>2, <1>7, <1>12, <2>1, <2>2, <2>3 DEF LaunchesBound
<1>14. LaunchOnce(r)
  <2>1. LaunchOnce(s)
    BY DEF Core
  <2>2. \A i \in New : r.cmds[i].op = "launch" => Unused(s, r.cmds[i].d) /\ r.cmds[i].live
    BY <1>4 DEF CommandFits
  <2>3. ASSUME NEW i \in DOMAIN r.cmds, NEW j \in DOMAIN r.cmds, i # j,
               r.cmds[i].op = "launch", r.cmds[j].op = "launch"
        PROVE  r.cmds[i].d # r.cmds[j].d
    BY <1>3, <1>4, <1>6, <2>1, <2>2, <2>3 DEF LaunchOnce, Unused, Occupied
  <2>4. ASSUME NEW i \in DOMAIN r.cmds, r.cmds[i].op = "launch"
        PROVE  /\ \A a \in Apps : task[a] # r.cmds[i].d
               /\ r.cmds[i].live => \A j \in DOMAIN s.main :
                     s.main[j].kind = "launch" => s.main[j].d # r.cmds[i].d
               /\ ~r.cmds[i].live => \A j \in DOMAIN r.cmds : j < i => ~r.cmds[j].live
    <3>1. CASE i \in DOMAIN s.cmds
      BY <1>3, <1>5, <1>6, <2>1, <2>4, <3>1 DEF LaunchOnce
    <3>2. CASE i \in New
      BY <2>2, <2>4, <3>2 DEF Unused, Occupied, LaunchPending
    <3> QED BY <1>6, <3>1, <3>2
  <2>5. ASSUME NEW i \in DOMAIN s.main, s.main[i].kind = "launch", s.main[i].res = "failed"
        PROVE  ~Occupied(r, s.main[i].d)
    BY <1>8, <2>1, <2>2, <2>5 DEF LaunchOnce, Unused, LaunchPending
  <2> QED BY <1>2, <2>1, <2>3, <2>4, <2>5 DEF LaunchOnce
<1>15. ClosesBound(r)
  <2>1. ClosesBound(s)
    BY DEF Core
  <2>2. \A i \in New : r.cmds[i].op = "launch" => ~ClosePending(s, r.cmds[i].d)
    BY <1>4 DEF CommandFits
  <2>3. \A i \in New : r.cmds[i].op = "close" =>
           ~ClosePending(s, r.cmds[i].d) /\ Closing(s, r.cmds[i].d, r.cmds[i].app)
    BY <1>4 DEF CommandFits
  <2>4. ASSUME NEW i \in DOMAIN r.cmds, r.cmds[i].op = "close", r.cmds[i].live
        PROVE  /\ Closing(s, r.cmds[i].d, r.cmds[i].app) \/ ColdQueue(s)
               /\ \A j \in DOMAIN r.cmds :
                     /\ j > i /\ r.cmds[j].op = "launch" => r.cmds[j].d # r.cmds[i].d
                     /\ j # i /\ r.cmds[j].op = "close" /\ r.cmds[j].live =>
                           r.cmds[j].d # r.cmds[i].d
               /\ \A j \in DOMAIN s.main : s.main[j].kind = "close" => s.main[j].d # r.cmds[i].d
    <3>1. CASE i \in DOMAIN s.cmds
      BY <1>3, <1>6, <2>1, <2>2, <2>3, <2>4, <3>1 DEF ClosesBound, ClosePending
    <3>2. CASE i \in New
      <4>1. \A j \in New : j # i => r.cmds[j].op = "cleanup"
        BY <1>4, <3>2
      <4>2. \A j \in DOMAIN s.cmds : ~(j > i)
        BY <1>5, <3>2
      <4> QED BY <1>3, <1>6, <2>3, <2>4, <3>2, <4>1, <4>2 DEF ClosePending
    <3> QED BY <1>6, <3>1, <3>2
  <2> QED BY SMTT(40), <1>2, <1>7, <1>12, <2>1, <2>4 DEF ClosesBound
<1>16. StopsHold(r)
  <2>1. \A i \in New : r.cmds[i].op = "launch" => ~ClosePending(s, r.cmds[i].d)
    BY <1>4 DEF CommandFits
  <2>2. \A i \in New : r.cmds[i].live
    BY <1>4 DEF CommandFits
  <2>3. ASSUME NEW i \in DOMAIN s.main, s.main[i].kind = "close", s.main[i].res = "ok"
        PROVE  ~Occupied(r, s.main[i].d)
    BY <1>8, <2>1, <2>3 DEF Core, StopsHold, ClosePending
  <2>4. \A a, d : (\A j \in DOMAIN s.cmds : s.cmds[j].op = "launch" /\ ~s.cmds[j].live
                       /\ s.cmds[j].app = a => s.cmds[j].d # d)
                  => \A j \in DOMAIN r.cmds : r.cmds[j].op = "launch" /\ ~r.cmds[j].live
                        /\ r.cmds[j].app = a => r.cmds[j].d # d
    BY <1>3, <1>6, <2>2
  <2>5. StopsHold(s)
    BY DEF Core
  <2>6. ASSUME NEW i \in DOMAIN s.main, s.main[i].kind = "cleanup", s.main[i].res = "ok"
        PROVE  \/ \E j \in DOMAIN s.main :
                     j > i /\ s.main[j].kind = "launch" /\ s.main[j].d = s.main[i].d
               \/ /\ task[s.main[i].app] # s.main[i].d
                  /\ \A j \in DOMAIN r.cmds :
                        /\ r.cmds[j].op = "launch" /\ ~r.cmds[j].live
                        /\ r.cmds[j].app = s.main[i].app
                        => r.cmds[j].d # s.main[i].d
    BY <2>4, <2>5, <2>6 DEF StopsHold
  <2>7. \A i \in DOMAIN s.main : s.main[i].kind = "close" /\ s.main[i].res = "ok" =>
           \A j \in DOMAIN s.main :
              j > i /\ s.main[j].kind = "launch" => s.main[j].d # s.main[i].d
    BY <2>5 DEF StopsHold
  <2> HIDE DEF New
  <2> QED BY <1>2, <2>3, <2>6, <2>7 DEF StopsHold
<1>17. Processes(r)
  BY <1>2 DEF Core, Processes
<1>18. Core(r)
  BY <1>7, <1>9, <1>10, <1>11, <1>13, <1>14, <1>15, <1>16, <1>17 DEF Core
<1> QED BY <1>2, <1>18 DEF r

\* Commands `S` fail: nobody waits for them any more, a launch only with all
\* that were sent before it; `x` is what is left of the commands and `q` are
\* their callbacks, of the commands `o`.
Given(s, S) ==
    /\ S \subseteq DOMAIN s.cmds /\ \A i \in S : s.cmds[i].live
    /\ \A i \in S : s.cmds[i].op = "launch" =>
          \A j \in DOMAIN s.cmds : j < i /\ s.cmds[j].live => j \in S
Left(s, S, x) ==
    /\ DOMAIN x = DOMAIN s.cmds
    /\ \A i \in DOMAIN x : /\ x[i].op = s.cmds[i].op /\ x[i].d = s.cmds[i].d
                           /\ x[i].app = s.cmds[i].app
                           /\ x[i].live <=> s.cmds[i].live /\ i \notin S
Callbacks(s, S, q, o) ==
    /\ \A k \in DOMAIN q : o[k] \in S /\ q[k] = LostCommand(s.cmds[o[k]])
    /\ \A j, k \in DOMAIN q : j # k => o[j] # o[k]
    /\ \A i \in S : \E k \in DOMAIN q : o[k] = i

LEMMA SweepStep ==
  ASSUME NEW s \in ShellType, Core(s), NEW S, Given(s, S),
         NEW x \in Seq(Commands), Left(s, S, x),
         NEW q \in Seq(Blocks), NEW o, Callbacks(s, S, q, o)
  PROVE  LET r == [s EXCEPT !.cmds = x, !.main = @ \o q]
         IN /\ r \in ShellType /\ Core(r) /\ SameTables(s, r)
            /\ r.ctl = s.ctl /\ r.cmds = x /\ r.main = s.main \o q
<1> DEFINE r == [s EXCEPT !.cmds = x, !.main = @ \o q]
           New == DOMAIN r.main \ DOMAIN s.main
<1>1. s.main \in Seq(Blocks)
  BY DEF ShellType
<1>2. r \in ShellType /\ SameTables(s, r) /\ r.ctl = s.ctl /\ r.cmds = x /\ r.main = s.main \o q
  <2>1. s.main \o q \in Seq(Blocks)
    BY <1>1, ConcatFacts
  <2> QED BY <2>1 DEF ShellType, SameTables
<1> HIDE DEF r
<1>3. /\ \A i \in DOMAIN s.main : i \in DOMAIN r.main /\ r.main[i] = s.main[i]
      /\ \A i \in New : \E k \in DOMAIN q : i = Len(s.main) + k /\ r.main[i] = q[k]
      /\ \A k \in DOMAIN q : Len(s.main) + k \in New /\ r.main[Len(s.main) + k] = q[k]
      /\ \A i \in New, j \in DOMAIN s.main : j < i /\ ~(i < j) /\ i # j
  <2>1. /\ DOMAIN s.main \subseteq DOMAIN r.main /\ DOMAIN r.main \subseteq Nat
        /\ \A i \in DOMAIN s.main : r.main[i] = s.main[i] /\ i \in Nat
        /\ \A i \in DOMAIN q : /\ Len(s.main) + i \in DOMAIN r.main
                               /\ r.main[Len(s.main) + i] = q[i]
                               /\ \A j \in DOMAIN s.main : j < Len(s.main) + i
        /\ \A i \in DOMAIN r.main : i \in DOMAIN s.main \/ \E j \in DOMAIN q : i = Len(s.main) + j
    BY SMTT(40), <1>1, <1>2, ConcatFacts
  <2> QED BY <2>1
<1>3a. \A i \in DOMAIN s.main : i \in DOMAIN r.main /\ r.main[i] = s.main[i]
  BY <1>3
<1>3b. \A i \in New, j \in DOMAIN s.main : j < i /\ ~(i < j) /\ i # j
  BY <1>3
<1> DEFINE of == [i \in New |-> o[CHOOSE k \in DOMAIN q : i = Len(s.main) + k /\ r.main[i] = q[k]]]
<1>4. /\ \A i \in New : of[i] \in S /\ r.main[i] = LostCommand(s.cmds[of[i]])
      /\ \A i, j \in New : i # j => of[i] # of[j]
      /\ \A i \in S : \E k \in New : of[k] = i
  <2>1. \A i \in New : \E k \in DOMAIN q : i = Len(s.main) + k /\ r.main[i] = q[k] /\ of[i] = o[k]
    BY <1>3
  <2>2. /\ \A i \in New : of[i] \in S /\ r.main[i] = LostCommand(s.cmds[of[i]])
        /\ \A i, j \in New : i # j => of[i] # of[j]
    <3> HIDE DEF of
    <3> QED BY <2>1 DEF Callbacks
  <2>3. ASSUME NEW i \in S PROVE \E k \in New : of[k] = i
    <3>1. PICK k \in DOMAIN q : o[k] = i
      BY DEF Callbacks
    <3>2. Len(s.main) + k \in New
      BY <1>3
    <3>3. PICK m \in DOMAIN q : Len(s.main) + k = Len(s.main) + m /\ of[Len(s.main) + k] = o[m]
      <4> HIDE DEF of
      <4> QED BY <2>1, <3>2
    <3>4. m = k
      <4>1. Len(s.main) \in Nat /\ DOMAIN q \subseteq Nat
        BY <1>1
      <4> QED BY <3>3, <4>1
    <3> HIDE DEF of
    <3> QED BY <3>1, <3>2, <3>3, <3>4
  <2> QED BY <2>2, <2>3
<1> HIDE DEF of
<1>5. \A i \in New : /\ of[i] \in S /\ of[i] \in DOMAIN s.cmds /\ r.main[i].kind = s.cmds[of[i]].op
                     /\ r.main[i].d = s.cmds[of[i]].d /\ r.main[i].app = s.cmds[of[i]].app
                     /\ r.main[i].res = "lost" /\ s.cmds[of[i]].live
                     /\ r.main[i].kind \in {"launch", "close", "cleanup"}
  <2>1. \A c \in Commands : c.op \in {"launch", "close", "cleanup"}
    BY DEF Commands
  <2>2. \A i \in S : i \in DOMAIN s.cmds /\ s.cmds[i] \in Commands /\ s.cmds[i].live
    BY Elements DEF Given
  <2>3. \A c \in Commands : /\ LostCommand(c).kind = c.op /\ LostCommand(c).d = c.d
                            /\ LostCommand(c).app = c.app /\ LostCommand(c).res = "lost"
    BY DEF LostCommand
  <2> QED BY <1>4, <2>1, <2>2, <2>3
<1> HIDE DEF New
<1>6. \A i \in DOMAIN r.main : i \in DOMAIN s.main \/ i \in New
  BY DEF New
<1>6a. New \subseteq DOMAIN r.main
  BY DEF New
<1>6b. /\ DOMAIN x = DOMAIN s.cmds
       /\ \A i \in DOMAIN x : /\ x[i].op = s.cmds[i].op /\ x[i].d = s.cmds[i].d
                              /\ x[i].app = s.cmds[i].app
                              /\ x[i].live => s.cmds[i].live /\ i \notin S
  BY DEF Left
<1>7. /\ Tables(r) /\ Cold(r) = Cold(s) /\ ReservedIn(r) = ReservedIn(s)
      /\ \A d, a : Running(r, d, a) = Running(s, d, a) /\ Closing(r, d, a) = Closing(s, d, a)
      /\ \A t : Wanted(r, t) = Wanted(s, t)
      /\ r.removal = s.removal /\ r.windows = s.windows /\ r.deferred = s.deferred
      /\ r.inFlight = s.inFlight
  BY <1>2, SameTablesFacts DEF Core, SameTables
<1>8. \A d : /\ Occupied(r, d) = Occupied(s, d)
             /\ LaunchPending(r, d) => LaunchPending(s, d)
             /\ ClosePending(r, d) => ClosePending(s, d)
             /\ Unused(s, d) => Unused(r, d)
  <2>1. \A d : Occupied(r, d) = Occupied(s, d)
    BY <1>2, <1>6b DEF Occupied
  <2>2. ASSUME NEW d, LaunchPending(r, d) PROVE LaunchPending(s, d)
    <3>1. CASE \E i \in DOMAIN x : x[i].op = "launch" /\ x[i].live /\ x[i].d = d
      BY <1>6b, <3>1 DEF LaunchPending
    <3>2. CASE \E i \in DOMAIN r.main : r.main[i].kind = "launch" /\ r.main[i].d = d
      <4>1. PICK i \in DOMAIN r.main : r.main[i].kind = "launch" /\ r.main[i].d = d
        BY <3>2
      <4>2. CASE i \in DOMAIN s.main
        BY <1>3a, <4>1, <4>2 DEF LaunchPending
      <4>3. CASE i \in New
        BY <1>5, <4>1, <4>3 DEF LaunchPending
      <4> QED BY <1>6, <4>2, <4>3
    <3> QED BY <1>2, <2>2, <3>1, <3>2 DEF LaunchPending
  <2>3. ASSUME NEW d, ClosePending(r, d) PROVE ClosePending(s, d)
    <3>1. CASE \E i \in DOMAIN x : x[i].op = "close" /\ x[i].live /\ x[i].d = d
      BY <1>6b, <3>1 DEF ClosePending
    <3>2. CASE \E i \in DOMAIN r.main : r.main[i].kind = "close" /\ r.main[i].d = d
      <4>1. PICK i \in DOMAIN r.main : r.main[i].kind = "close" /\ r.main[i].d = d
        BY <3>2
      <4>2. CASE i \in DOMAIN s.main
        BY <1>3a, <4>1, <4>2 DEF ClosePending
      <4>3. CASE i \in New
        BY <1>5, <4>1, <4>3 DEF ClosePending
      <4> QED BY <1>6, <4>2, <4>3
    <3> QED BY <1>2, <2>3, <3>1, <3>2 DEF ClosePending
  <2> QED BY <2>1, <2>2, <2>3 DEF Unused
<1>9. \A i \in New : r.main[i].kind \notin DisplayKinds \cup {"connected", "reset"}
  BY <1>5 DEF DisplayKinds
<1>10. Owned(r) /\ RemoveLast(r)
  <2>1. Owned(r)
    BY <1>2, <1>3a, <1>6, <1>7, <1>9 DEF Core, Owned
  <2>2. RemoveLast(r)
    BY SMTT(40), <1>2, <1>3a, <1>6, <1>7, <1>9 DEF Core, RemoveLast, DisplayKinds
  <2> QED BY <2>1, <2>2
<1>11. AddAlone(r)
  BY SMTT(40), <1>2, <1>3a, <1>6, <1>7, <1>9 DEF Core, AddAlone, DisplayKinds
<1>12. AddsFresh(r)
  <2>1. \A d, a : Fresh(s, d, a) => Fresh(r, d, a)
    BY <1>2, <1>8 DEF Fresh, SameTables
  <2> QED BY <1>2, <1>3a, <1>6, <1>9, <2>1 DEF Core, AddsFresh, DisplayKinds
<1>13. TimersFirst(r)
  BY <1>7, <1>8 DEF Core, TimersFirst
<1>14. ColdQueue(s) => ColdQueue(r)
  BY <1>3a, <1>6, <1>7, <1>9 DEF ColdQueue
<1>15. \A i \in DOMAIN r.main : i \in DOMAIN s.main /\ ColdBlock(s, i) => ColdBlock(r, i)
  BY <1>3a, <1>3b, <1>6, <1>7 DEF ColdBlock
<1>16. \A i \in DOMAIN r.main : ColdQueue(s) => ColdBlock(r, i)
  BY <1>3a, <1>6, <1>7, <1>9 DEF ColdBlock, ColdQueue
<1>17. LaunchesBound(r)
  <2>1. LaunchesBound(s)
    BY DEF Core
  <2>2. ASSUME NEW i \in DOMAIN r.main, r.main[i].kind = "launch"
        PROVE  Running(r, r.main[i].d, r.main[i].app) \/ ColdBlock(r, i)
    <3>1. CASE i \in DOMAIN s.main
      BY <1>3a, <1>7, <1>15, <2>1, <2>2, <3>1 DEF LaunchesBound
    <3>2. CASE i \in New
      BY <1>5, <1>7, <1>16, <2>1, <2>2, <3>2 DEF LaunchesBound
    <3> QED BY <1>6, <3>1, <3>2
  <2>3. ASSUME NEW i \in DOMAIN x, x[i].op = "launch"
        PROVE  Running(r, x[i].d, x[i].app) \/ ColdQueue(r)
    BY <1>6b, <1>7, <1>14, <2>1, <2>3 DEF LaunchesBound
  <2> QED BY <1>2, <1>7, <1>8, <2>1, <2>2, <2>3 DEF LaunchesBound
<1>18. LaunchOnce(r)
  <2>1. LaunchOnce(s)
    BY DEF Core
  <2>2. \A i, j \in DOMAIN x : i # j /\ x[i].op = "launch" /\ x[j].op = "launch" => x[i].d # x[j].d
    BY <1>6b, <2>1 DEF LaunchOnce
  <2>3. ASSUME NEW i \in DOMAIN r.main, NEW j \in DOMAIN r.main, i # j,
               r.main[i].kind = "launch", r.main[j].kind = "launch"
        PROVE  r.main[i].d # r.main[j].d
    <3>1. CASE i \in DOMAIN s.main /\ j \in DOMAIN s.main
      BY <1>3a, <2>1, <2>3, <3>1 DEF LaunchOnce
    <3>2. CASE i \in DOMAIN s.main /\ j \in New
      BY <1>3a, <1>5, <2>1, <2>3, <3>2 DEF LaunchOnce
    <3>3. CASE i \in New /\ j \in DOMAIN s.main
      BY <1>3a, <1>5, <2>1, <2>3, <3>3 DEF LaunchOnce
    <3>4. CASE i \in New /\ j \in New
      BY <1>4, <1>5, <2>1, <2>3, <3>4 DEF LaunchOnce
    <3> QED BY <1>6, <3>1, <3>2, <3>3, <3>4
  <2>4. ASSUME NEW i \in DOMAIN x, x[i].op = "launch"
        PROVE  /\ \A a \in Apps : task[a] # x[i].d
               /\ x[i].live => \A j \in DOMAIN r.main :
                     r.main[j].kind = "launch" => r.main[j].d # x[i].d
               /\ ~x[i].live => \A j \in DOMAIN x : j < i => ~x[j].live
    <3>1. \A a \in Apps : task[a] # x[i].d
      BY <1>6b, <2>1, <2>4 DEF LaunchOnce
    <3>2. ASSUME x[i].live, NEW j \in DOMAIN r.main, r.main[j].kind = "launch"
          PROVE  r.main[j].d # x[i].d
      <4>1. CASE j \in DOMAIN s.main
        BY <1>3a, <1>6b, <2>1, <2>4, <3>2, <4>1 DEF LaunchOnce
      <4>2. CASE j \in New
        BY <1>5, <1>6b, <2>1, <2>4, <3>2, <4>2 DEF LaunchOnce
      <4> QED BY <1>6, <4>1, <4>2
    <3>3. ASSUME ~x[i].live, NEW j \in DOMAIN x, j < i
          PROVE  ~x[j].live
      BY <2>1, <2>4, <3>3 DEF LaunchOnce, Left, Given
    <3> QED BY <3>1, <3>2, <3>3
  <2>5. ASSUME NEW i \in DOMAIN r.main, r.main[i].kind = "launch", r.main[i].res = "failed"
        PROVE  ~Occupied(r, r.main[i].d)
    BY <1>3a, <1>5, <1>6, <1>8, <2>1, <2>5 DEF LaunchOnce
  <2> QED BY <1>2, <2>2, <2>3, <2>4, <2>5 DEF LaunchOnce
<1>19. ClosesBound(r)
  <2>1. ClosesBound(s)
    BY DEF Core
  <2>2. ASSUME NEW i \in DOMAIN x, x[i].op = "close", x[i].live
        PROVE  /\ Closing(r, x[i].d, x[i].app) \/ ColdQueue(r)
               /\ \A j \in DOMAIN x :
                     /\ j > i /\ x[j].op = "launch" => x[j].d # x[i].d
                     /\ j # i /\ x[j].op = "close" /\ x[j].live => x[j].d # x[i].d
               /\ \A j \in DOMAIN r.main : r.main[j].kind = "close" => r.main[j].d # x[i].d
    <3>1. /\ Closing(r, x[i].d, x[i].app) \/ ColdQueue(r)
          /\ \A j \in DOMAIN x :
                /\ j > i /\ x[j].op = "launch" => x[j].d # x[i].d
                /\ j # i /\ x[j].op = "close" /\ x[j].live => x[j].d # x[i].d
      BY <1>6b, <1>7, <1>14, <2>1, <2>2 DEF ClosesBound
    <3>2. ASSUME NEW j \in DOMAIN r.main, r.main[j].kind = "close"
          PROVE  r.main[j].d # x[i].d
      <4>1. CASE j \in DOMAIN s.main
        BY <1>3a, <1>6b, <2>1, <2>2, <3>2, <4>1 DEF ClosesBound
      <4>2. CASE j \in New
        BY <1>5, <1>6b, <2>1, <2>2, <3>2, <4>2 DEF ClosesBound
      <4> QED BY <1>6, <4>1, <4>2
    <3> QED BY <3>1, <3>2
  <2>3. ASSUME NEW i \in DOMAIN r.main, r.main[i].kind = "close"
        PROVE  Closing(r, r.main[i].d, r.main[i].app) \/ ColdBlock(r, i)
    <3>1. CASE i \in DOMAIN s.main
      BY <1>3a, <1>7, <1>15, <2>1, <2>3, <3>1 DEF ClosesBound
    <3>2. CASE i \in New
      BY <1>5, <1>7, <1>16, <2>1, <2>3, <3>2 DEF ClosesBound
    <3> QED BY <1>6, <3>1, <3>2
  <2>4. ASSUME NEW i \in DOMAIN r.main, NEW j \in DOMAIN r.main, j # i,
               r.main[i].kind = "close", r.main[j].kind = "close"
        PROVE  r.main[j].d # r.main[i].d
    <3>1. CASE i \in DOMAIN s.main /\ j \in DOMAIN s.main
      BY <1>3a, <2>1, <2>4, <3>1 DEF ClosesBound
    <3>2. CASE i \in DOMAIN s.main /\ j \in New
      BY <1>3a, <1>5, <2>1, <2>4, <3>2 DEF ClosesBound
    <3>3. CASE i \in New /\ j \in DOMAIN s.main
      BY <1>3a, <1>5, <2>1, <2>4, <3>3 DEF ClosesBound
    <3>4. CASE i \in New /\ j \in New
      BY <1>4, <1>5, <2>1, <2>4, <3>4 DEF ClosesBound
    <3> QED BY <1>6, <3>1, <3>2, <3>3, <3>4
  <2> QED BY <1>2, <2>2, <2>3, <2>4 DEF ClosesBound
<1>20. StopsHold(r)
  <2>1. StopsHold(s)
    BY DEF Core
  <2>2. ASSUME NEW i \in DOMAIN r.main, r.main[i].kind = "close", r.main[i].res = "ok"
        PROVE  /\ ~Occupied(r, r.main[i].d)
               /\ \A j \in DOMAIN r.main :
                     j > i /\ r.main[j].kind = "launch" => r.main[j].d # r.main[i].d
    <3>1. i \in DOMAIN s.main /\ s.main[i] = r.main[i]
      BY <1>3a, <1>5, <1>6, <2>2
    <3>2. ~Occupied(s, r.main[i].d)
      BY <2>1, <2>2, <3>1 DEF StopsHold
    <3>3. \A j \in New : r.main[j].kind = "launch" => r.main[j].d # r.main[i].d
      BY <1>5, <3>2 DEF Occupied
    <3> QED BY <1>3a, <1>6, <1>8, <2>1, <2>2, <3>1, <3>2, <3>3 DEF StopsHold
  <2>3. ASSUME NEW i \in DOMAIN r.main, r.main[i].kind = "cleanup", r.main[i].res = "ok"
        PROVE  \/ \E j \in DOMAIN r.main :
                     j > i /\ r.main[j].kind = "launch" /\ r.main[j].d = r.main[i].d
               \/ /\ task[r.main[i].app] # r.main[i].d
                  /\ \A j \in DOMAIN x :
                        /\ x[j].op = "launch" /\ ~x[j].live /\ x[j].app = r.main[i].app
                        => x[j].d # r.main[i].d
    <3>1. i \in DOMAIN s.main /\ s.main[i] = r.main[i]
      BY <1>3a, <1>5, <1>6, <2>3
    <3>2. CASE \E j \in S : s.cmds[j].op = "launch" /\ s.cmds[j].d = r.main[i].d
      <4>1. PICK j \in S : s.cmds[j].op = "launch" /\ s.cmds[j].d = r.main[i].d
        BY <3>2
      <4>2. PICK k \in New : of[k] = j
        BY <1>4
      <4>3. k \in DOMAIN r.main /\ k > i /\ r.main[k].kind = "launch" /\ r.main[k].d = r.main[i].d
        BY <1>3a, <1>3b, <1>5, <1>6a, <3>1, <4>1, <4>2
      <4> QED BY <4>3
    <3>3. CASE ~ \E j \in S : s.cmds[j].op = "launch" /\ s.cmds[j].d = r.main[i].d
      <4>1. CASE \E j \in DOMAIN s.main :
                     j > i /\ s.main[j].kind = "launch" /\ s.main[j].d = s.main[i].d
        BY <1>3a, <3>1, <4>1
      <4>2. CASE ~ \E j \in DOMAIN s.main :
                     j > i /\ s.main[j].kind = "launch" /\ s.main[j].d = s.main[i].d
        <5>1. /\ task[s.main[i].app] # s.main[i].d
              /\ \A j \in DOMAIN s.cmds :
                    /\ s.cmds[j].op = "launch" /\ ~s.cmds[j].live
                    /\ s.cmds[j].app = s.main[i].app
                    => s.cmds[j].d # s.main[i].d
          BY <2>1, <2>3, <3>1, <4>2 DEF StopsHold
        <5> QED BY <3>1, <3>3, <5>1 DEF Left
      <4> QED BY <4>1, <4>2
    <3> QED BY <3>2, <3>3
  <2>4. \A i \in DOMAIN r.main : r.main[i].kind = "cleanup" /\ r.main[i].res = "ok" =>
              \/ \E j \in DOMAIN r.main :
                    j > i /\ r.main[j].kind = "launch" /\ r.main[j].d = r.main[i].d
              \/ /\ task[r.main[i].app] # r.main[i].d
                 /\ \A j \in DOMAIN r.cmds :
                       /\ r.cmds[j].op = "launch" /\ ~r.cmds[j].live
                       /\ r.cmds[j].app = r.main[i].app
                       => r.cmds[j].d # r.main[i].d
    BY <1>2, <2>3
  <2> QED BY <2>2, <2>4 DEF StopsHold
<1>21. ResetLast(r)
  BY <1>3a, <1>6, <1>9 DEF Core, ResetLast
<1>22. Processes(r)
  <2>1. s.cmds = <<>> => x = <<>>
    <3>1. ASSUME s.cmds = <<>> PROVE \A i \in DOMAIN x : FALSE
      BY <1>6b, <3>1
    <3> QED BY <3>1, EmptyQueue
  <2> QED BY <1>2, <1>6b, <2>1 DEF Core, Processes
<1>23. Core(r)
  BY <1>7, <1>10, <1>11, <1>12, <1>13, <1>17, <1>18, <1>19, <1>20, <1>21, <1>22 DEF Core
<1> QED BY <1>2, <1>23 DEF r

-----------------------------------------------------------------------------
(* The flags of one application. *)

\* Two states that differ in the flags of display d and of its application.
FlagsOf(s, r, d) ==
    /\ SameQueues(s, r)
    /\ r.windows = s.windows /\ r.binding = s.binding /\ r.appDisplay = s.appDisplay
    /\ r.resizing = s.resizing /\ r.removal = s.removal /\ r.active = s.active
    /\ \A e \in Displays : e # d =>
          (e \in r.deferred <=> e \in s.deferred) /\ (e \in r.launchFailed <=> e \in s.launchFailed)
    /\ \A a \in Apps : a # s.binding[d] =>
          /\ a \in r.pending <=> a \in s.pending
          /\ a \in r.inFlight <=> a \in s.inFlight
          /\ a \in r.closing <=> a \in s.closing

LEMMA FlagStep ==
  ASSUME NEW s \in ShellType, NEW r \in ShellType, NEW d \in Displays, TypeOK, Core(s),
         FlagsOf(s, r, d), NEW a, s.binding[d] = a, a # NoApp,
         a \in r.pending => a \notin r.closing /\ d \notin s.removal \cup r.deferred \cup r.launchFailed,
         d \in r.deferred => a \in r.closing /\ a \notin r.inFlight /\ ~LaunchPending(s, d),
         Occupied(s, d) \/ LaunchPending(s, d) => (Running(s, d, a) => Running(r, d, a)),
         ClosePending(s, d) => (Closing(s, d, a) => Closing(r, d, a)),
         AddPending(s, d) => (Fresh(s, d, a) => Fresh(r, d, a)),
         \A t \in timers : t.d = d /\ Wanted(r, t) => Wanted(s, t) /\ t.app \notin r.inFlight
  PROVE  Core(r) /\ (Settled(s) => Settled(r)) /\ (SettledBut(s, d) => SettledBut(r, d))
<1>1. Elsewhere(s, r, d)
  BY DEF FlagsOf, Elsewhere
<1>2. a \in Apps
  BY DEF ShellType
<1>3. Tables(r)
  <2>1. Tables(s)
    BY DEF Core
  <2>2. \A e \in Displays : e # d /\ s.binding[e] # NoApp => s.binding[e] \in Apps /\ s.binding[e] # a
    BY <2>1 DEF Tables, ShellType
  <2>3. /\ r.launchFailed \cup r.deferred \cup r.resizing \subseteq Displays
        /\ r.pending \cup r.inFlight \cup r.closing \subseteq Apps
    BY DEF ShellType
  <2>4. \A e \in Displays : r.binding[e] # NoApp =>
          /\ r.appDisplay[r.binding[e]] = e
          /\ e \in r.active
          /\ e \in r.removal \cup r.deferred \cup r.launchFailed => r.binding[e] \notin r.pending
          /\ e \in r.deferred => r.binding[e] \in r.closing /\ r.binding[e] \notin r.inFlight
    BY <2>1, <2>2 DEF Tables, FlagsOf
  <2>5. \A b \in r.pending \cup r.inFlight \cup r.closing : r.appDisplay[b] # 0
    <3>1. s.appDisplay[a] # 0
      BY <2>1 DEF Tables, Displays
    <3> QED BY <2>1, <2>3, <3>1 DEF Tables, FlagsOf
  <2>6. \A e \in r.launchFailed \cup r.deferred \cup r.resizing : r.binding[e] # NoApp
    BY <2>1, <2>3 DEF Tables, FlagsOf
  <2>7. r.pending \cap r.closing = {}
    BY <1>2, <2>1, <2>3 DEF Tables, FlagsOf
  <2>8. \A b \in Apps : r.appDisplay[b] # 0 => r.binding[r.appDisplay[b]] = b
    BY <2>1 DEF Tables, FlagsOf
  <2> QED BY <2>4, <2>5, <2>6, <2>7, <2>8 DEF Tables
<1>4. AtDisplay(s, r, d)
  <2>1. \A b \in Apps : (Running(s, d, b) => b = a) /\ (Closing(s, d, b) => b = a)
    BY DEF Running, Closing
  <2>2. \A b \in Apps : Fresh(s, d, b) => b = a
    BY DEF Fresh
  <2>3. NotCreated(s, d) => d \notin r.windows
    BY NotCreatedHidden DEF FlagsOf
  <2>4. d \in ReservedIn(r) \/ NoTrace(s, d)
    BY FreeIdHasNoTrace DEF Core, ReservedIn, FlagsOf
  <2>5. d \in s.removal => d \in r.removal
    BY DEF FlagsOf
  <2> QED BY <2>1, <2>2, <2>3, <2>4, <2>5 DEF AtDisplay
<1>5. Core(r)
  BY <1>1, <1>3, <1>4, LocalStep DEF FlagsOf
<1>6. (Settled(s) => Settled(r)) /\ (SettledBut(s, d) => SettledBut(r, d))
  BY DEF FlagsOf, Settled, SettledBut, SettledAt
<1> QED BY <1>5, <1>6

\* closeBoundAppAndRemoveDisplay marks the application as closing.
LEMMA BeginCloseStep ==
  ASSUME NEW s \in ShellType, NEW d \in Displays, TypeOK, Core(s), NEW a, s.binding[d] = a,
         a # NoApp, d \notin s.windows, d \notin s.deferred
  PROVE  LET r == [s EXCEPT !.pending = @ \ {a}, !.inFlight = @ \ {a},
                            !.launchFailed = @ \ {d}, !.closing = @ \cup {a}]
         IN /\ r \in ShellType /\ Core(r) /\ FlagsOf(s, r, d) /\ a \in Apps
            /\ r.pending = s.pending \ {a} /\ r.inFlight = s.inFlight \ {a}
            /\ r.launchFailed = s.launchFailed \ {d} /\ r.closing = s.closing \cup {a}
            /\ r.deferred = s.deferred
            /\ SettledBut(s, d) => SettledBut(r, d)
<1> DEFINE r == [s EXCEPT !.pending = @ \ {a}, !.inFlight = @ \ {a},
                          !.launchFailed = @ \ {d}, !.closing = @ \cup {a}]
<1>1. a \in Apps
  BY DEF ShellType
<1>2. /\ r \in ShellType /\ SameQueues(s, r) /\ r.windows = s.windows /\ r.binding = s.binding
      /\ r.appDisplay = s.appDisplay /\ r.resizing = s.resizing /\ r.removal = s.removal
      /\ r.active = s.active /\ r.pending = s.pending \ {a} /\ r.inFlight = s.inFlight \ {a}
      /\ r.launchFailed = s.launchFailed \ {d} /\ r.closing = s.closing \cup {a}
      /\ r.deferred = s.deferred
  BY <1>1 DEF ShellType, SameQueues
<1> HIDE DEF r
<1>3. FlagsOf(s, r, d)
  BY <1>2 DEF FlagsOf
<1>4. (Running(s, d, a) => Running(r, d, a)) /\ (Closing(s, d, a) => Closing(r, d, a))
  BY <1>2 DEF Running, Closing
<1>5. Fresh(s, d, a) => Fresh(r, d, a)
  BY <1>2, SameQueuesFacts DEF Fresh
<1>6. \A t \in timers : t.d = d => ~Wanted(r, t)
  BY <1>2 DEF Wanted
<1>7. Core(r) /\ (SettledBut(s, d) => SettledBut(r, d))
  BY <1>2, <1>3, <1>4, <1>5, <1>6, FlagStep
<1> QED BY <1>1, <1>2, <1>3, <1>7 DEF r

\* cleanupFailedLaunchForDisplay takes the display over.
LEMMA CleanupFlagsStep ==
  ASSUME NEW s \in ShellType, NEW d \in Displays, TypeOK, Core(s), Settled(s), NEW a,
         s.binding[d] = a, a # NoApp, ~LaunchPending(s, d), ~ClosePending(s, d), ~AddPending(s, d)
  PROVE  LET r == [s EXCEPT !.pending = @ \ {a}, !.inFlight = @ \ {a},
                            !.closing = @ \cup {a}, !.deferred = @ \cup {d}]
         IN /\ r \in ShellType /\ Core(r) /\ Settled(r) /\ FlagsOf(s, r, d) /\ a \in Apps
            /\ r.pending = s.pending \ {a}
<1> DEFINE r == [s EXCEPT !.pending = @ \ {a}, !.inFlight = @ \ {a},
                          !.closing = @ \cup {a}, !.deferred = @ \cup {d}]
<1>1. a \in Apps
  BY DEF ShellType
<1>2. /\ r \in ShellType /\ SameQueues(s, r) /\ r.windows = s.windows /\ r.binding = s.binding
      /\ r.appDisplay = s.appDisplay /\ r.resizing = s.resizing /\ r.removal = s.removal
      /\ r.active = s.active /\ r.pending = s.pending \ {a} /\ r.inFlight = s.inFlight \ {a}
      /\ r.launchFailed = s.launchFailed /\ r.closing = s.closing \cup {a}
      /\ r.deferred = s.deferred \cup {d}
  BY <1>1 DEF ShellType, SameQueues
<1> HIDE DEF r
<1>3. FlagsOf(s, r, d)
  BY <1>2 DEF FlagsOf
<1>4. Running(s, d, a) => Running(r, d, a)
  BY <1>2 DEF Running
<1>5. \A t \in timers : t.d = d => ~Wanted(r, t)
  BY <1>2 DEF Wanted
<1>6. Core(r) /\ Settled(r)
  BY <1>2, <1>3, <1>4, <1>5, FlagStep
<1> QED BY <1>1, <1>2, <1>3, <1>6 DEF r

\* A close that was given up.
LEMMA UncloseStep ==
  ASSUME NEW s \in ShellType, NEW d \in Displays, TypeOK, Core(s), NEW a, s.binding[d] = a,
         a # NoApp, a \notin s.pending, d \notin s.deferred, ~ClosePending(s, d), ~AddPending(s, d)
  PROVE  LET r == [s EXCEPT !.closing = @ \ {a}]
         IN /\ r \in ShellType /\ Core(r) /\ FlagsOf(s, r, d)
            /\ Settled(s) => Settled(r)
<1> DEFINE r == [s EXCEPT !.closing = @ \ {a}]
<1>1. a \in Apps
  BY DEF ShellType
<1>2. /\ r \in ShellType /\ SameQueues(s, r) /\ r.windows = s.windows /\ r.binding = s.binding
      /\ r.appDisplay = s.appDisplay /\ r.resizing = s.resizing /\ r.removal = s.removal
      /\ r.active = s.active /\ r.pending = s.pending /\ r.inFlight = s.inFlight
      /\ r.launchFailed = s.launchFailed /\ r.closing = s.closing \ {a}
      /\ r.deferred = s.deferred
  BY <1>1 DEF ShellType, SameQueues
<1> HIDE DEF r
<1>3. FlagsOf(s, r, d)
  BY <1>2 DEF FlagsOf
<1>4. Running(s, d, a) => Running(r, d, a)
  BY <1>2 DEF Running
<1>5. \A t \in timers : t.d = d => ~Wanted(r, t)
  BY <1>2 DEF Wanted
<1>6. Core(r) /\ (Settled(s) => Settled(r))
  BY <1>2, <1>3, <1>4, <1>5, FlagStep
<1> QED BY <1>2, <1>3, <1>6 DEF r

\* The launch was answered: the application is open, or its close goes on.
LEMMA AnsweredStep ==
  ASSUME NEW s \in ShellType, NEW r \in ShellType, NEW d \in Displays, TypeOK, Core(s), Settled(s),
         NEW a, s.binding[d] = a, a # NoApp, ~AddPending(s, d), ~LaunchPending(s, d),
         FlagsOf(s, r, d), a \notin r.pending, r.closing = s.closing, r.deferred = s.deferred,
         r.inFlight = s.inFlight \ {a},
         r.launchFailed = s.launchFailed \/ ~Occupied(s, d)
  PROVE  Core(r) /\ Settled(r)
<1>1. Occupied(s, d) => (Running(s, d, a) => Running(r, d, a))
  BY DEF Running, FlagsOf
<1>2. Closing(s, d, a) => Closing(r, d, a)
  BY DEF Closing, FlagsOf
<1>3. \A t \in timers : t.d = d => ~Wanted(r, t)
  BY DEF Wanted, FlagsOf
<1>4. d \in s.deferred => a \in s.closing /\ a \notin s.inFlight
  BY DEF Core, Tables
<1> QED BY <1>1, <1>2, <1>3, <1>4, FlagStep

\* DISPLAY_REMOVED: the tombstone is gone, and then all the rest.
LEMMA RemovedStep ==
  ASSUME NEW s \in ShellType, NEW d \in Displays, TypeOK, Core(s), Settled(s),
         d \in s.removal, Idle(s, d), NoTrace(s, d), NoRemoval(s, d), ~NotCreated(s, d)
  PROVE  Removed(s, d) \in ShellType /\ Core(Removed(s, d)) /\ Settled(Removed(s, d))
<1> DEFINE m == [s EXCEPT !.removal = @ \ {d}]
           u == Unbind(m, d)
           r == ReleaseId(u, d)
<1>1. /\ m \in ShellType /\ SameQueues(s, m) /\ m.windows = s.windows /\ m.binding = s.binding
      /\ m.appDisplay = s.appDisplay /\ m.pending = s.pending /\ m.inFlight = s.inFlight
      /\ m.closing = s.closing /\ m.launchFailed = s.launchFailed /\ m.deferred = s.deferred
      /\ m.resizing = s.resizing /\ m.removal = s.removal \ {d} /\ m.active = s.active
  BY DEF ShellType, SameQueues
<1> HIDE DEF m
<1>2. Elsewhere(s, m, d)
  BY <1>1 DEF Elsewhere
<1>3. Tables(s)
  BY DEF Core
<1>4. Tables(m)
  BY <1>1, <1>3 DEF Tables
<1>5. AtDisplay(s, m, d)
  <2>1. \A b \in Apps : Fresh(s, d, b) = Fresh(m, d, b)
    BY <1>1, SameQueuesFacts DEF Fresh
  <2>2. \A t \in timers : t.d = d => ~Wanted(m, t)
    BY <1>1, <1>3, AppDisplaysAssumptions DEF Wanted, Tables, TypeOK
  <2>3. d \in s.deferred => ~LaunchPending(s, d)
    BY DEF Core, LaunchesBound
  <2>4. \A b \in Apps : (Running(s, d, b) => Running(m, d, b)) /\ (Closing(s, d, b) => Closing(m, d, b))
    BY <1>1 DEF Running, Closing
  <2> QED BY <1>1, <2>1, <2>2, <2>3, <2>4 DEF AtDisplay
<1>6. Core(m)
  BY <1>1, <1>2, <1>4, <1>5, LocalStep
<1>7. Idle(m, d) /\ NoTrace(m, d) /\ SettledBut(m, d) /\ d \notin m.windows
  <2>1. NoTrace(m, d)
    BY <1>1 DEF NoTrace, SameQueues
  <2>2. SettledBut(m, d) /\ d \notin m.windows
    BY <1>1 DEF Settled, SettledBut, SettledAt
  <2> QED BY <1>1, <2>1, <2>2, SameQueuesFacts DEF Idle
<1>8. /\ r \in ShellType /\ Core(r) /\ r.windows = m.windows /\ d \notin r.active
      /\ SettledBut(r, d)
  BY <1>1, <1>6, <1>7, UnbindRelease
<1>9. u.windows = m.windows
  <2>1. CASE m.binding[d] = NoApp
    BY <2>1 DEF Unbind
  <2>2. CASE m.binding[d] # NoApp
    BY <1>1, <2>2, UnbindFields
  <2> QED BY <2>1, <2>2
<1>10. Removed(s, d) = r
  BY <1>7, <1>9 DEF Removed, m
<1> HIDE DEF r
<1>11. Settled(r)
  BY <1>7, <1>8 DEF Settled, SettledBut, SettledAt
<1> QED BY <1>8, <1>10, <1>11

\* Rotations in progress.
LEMMA ResizingStep ==
  ASSUME NEW s \in ShellType, TypeOK, Core(s), NEW x \in SUBSET Displays,
         \A d \in x : s.binding[d] # NoApp
  PROVE  LET r == [s EXCEPT !.resizing = x]
         IN /\ r \in ShellType /\ Core(r) /\ (Settled(s) => Settled(r)) /\ SameQueues(s, r)
            /\ r.windows = s.windows /\ r.binding = s.binding /\ r.removal = s.removal
            /\ r.active = s.active
<1> DEFINE r == [s EXCEPT !.resizing = x]
<1>1. /\ r \in ShellType /\ SameQueues(s, r) /\ r.windows = s.windows /\ r.binding = s.binding
      /\ r.appDisplay = s.appDisplay /\ r.pending = s.pending /\ r.inFlight = s.inFlight
      /\ r.closing = s.closing /\ r.launchFailed = s.launchFailed /\ r.deferred = s.deferred
      /\ r.resizing = x /\ r.removal = s.removal /\ r.active = s.active
  BY DEF ShellType, SameQueues
<1> HIDE DEF r
<1>2. PICK d \in Displays : TRUE
  BY AppDisplaysAssumptions DEF Displays
<1>3. Elsewhere(s, r, d)
  BY <1>1 DEF Elsewhere
<1>4. Tables(s)
  BY DEF Core
<1>5. Tables(r)
  BY <1>1, <1>4 DEF Tables
<1>6. AtDisplay(s, r, d)
  <2>1. \A b \in Apps : Running(s, d, b) = Running(r, d, b) /\ Closing(s, d, b) = Closing(r, d, b)
    BY <1>1 DEF Running, Closing
  <2>2. \A b \in Apps : Fresh(s, d, b) = Fresh(r, d, b)
    BY <1>1, SameQueuesFacts DEF Fresh
  <2>3. \A t \in timers : Wanted(r, t) = Wanted(s, t)
    BY <1>1 DEF Wanted
  <2>4. \A t \in timers : Wanted(s, t) => t.app \notin s.inFlight
    BY DEF Core, TimersFirst
  <2>5. d \in s.deferred => ~LaunchPending(s, d)
    BY DEF Core, LaunchesBound
  <2>6. d \in ReservedIn(r) \/ NoTrace(s, d)
    BY <1>1, FreeIdHasNoTrace DEF Core, ReservedIn
  <2> QED BY <1>1, <2>1, <2>2, <2>3, <2>4, <2>5, <2>6, NotCreatedHidden DEF AtDisplay
<1>7. Core(r)
  BY <1>1, <1>3, <1>5, <1>6, LocalStep
<1>8. Settled(s) => Settled(r)
  BY <1>1 DEF Settled, SettledAt
<1> QED BY <1>1, <1>7, <1>8 DEF r

\* Nothing of before a reset is on its way.
NoneCold(s) ==
    /\ \A i \in DOMAIN s.cmds :
          /\ s.cmds[i].op = "launch" => Running(s, s.cmds[i].d, s.cmds[i].app)
          /\ s.cmds[i].op = "close" /\ s.cmds[i].live => Closing(s, s.cmds[i].d, s.cmds[i].app)
    /\ \A i \in DOMAIN s.main :
          /\ s.main[i].kind = "launch" => Running(s, s.main[i].d, s.main[i].app)
          /\ s.main[i].kind = "close" => Closing(s, s.main[i].d, s.main[i].app)

\* The delegate hears of the connection.
LEMMA ConnectionStep ==
  ASSUME NEW s \in ShellType, Core(s), NEW b \in BOOLEAN, b = FALSE \/ NoneCold(s)
  PROVE  LET r == [s EXCEPT !.agentConnected = b]
         IN /\ r \in ShellType /\ Core(r) /\ (Settled(s) => Settled(r))
            /\ r.ctl = s.ctl /\ r.cmds = s.cmds /\ r.main = s.main
            /\ r.binding = s.binding /\ r.deferred = s.deferred /\ r.pending = s.pending
            /\ r.inFlight = s.inFlight /\ r.closing = s.closing
<1> DEFINE r == [s EXCEPT !.agentConnected = b]
<1>1. /\ r \in ShellType /\ r.windows = s.windows /\ r.binding = s.binding
      /\ r.appDisplay = s.appDisplay /\ r.pending = s.pending /\ r.inFlight = s.inFlight
      /\ r.closing = s.closing /\ r.launchFailed = s.launchFailed /\ r.deferred = s.deferred
      /\ r.resizing = s.resizing /\ r.removal = s.removal /\ r.active = s.active
      /\ r.ctl = s.ctl /\ r.cmds = s.cmds /\ r.main = s.main /\ r.agentConnected = b
  BY DEF ShellType
<1> HIDE DEF r
<1>2. Tables(r) /\ Owned(r) /\ RemoveLast(r) /\ AddAlone(r)
  BY <1>1 DEF Core, Tables, Owned, RemoveLast, AddAlone, ReservedIn
<1>3. \A d : /\ Occupied(r, d) = Occupied(s, d) /\ LaunchPending(r, d) = LaunchPending(s, d)
             /\ ClosePending(r, d) = ClosePending(s, d) /\ Unused(r, d) = Unused(s, d)
  BY <1>1 DEF Occupied, LaunchPending, ClosePending, Unused
<1>4. \A d, a : /\ Running(r, d, a) = Running(s, d, a) /\ Closing(r, d, a) = Closing(s, d, a)
                /\ Fresh(r, d, a) = Fresh(s, d, a)
  BY <1>1, <1>3 DEF Running, Closing, Fresh
<1>5. AddsFresh(r) /\ TimersFirst(r)
  BY <1>1, <1>3, <1>4 DEF Core, AddsFresh, TimersFirst, Wanted
<1>6. LaunchOnce(r) /\ StopsHold(r) /\ ResetLast(r) /\ Processes(r)
  BY <1>1, <1>3 DEF Core, LaunchOnce, StopsHold, ResetLast, Processes
<1>7. b = FALSE => (ColdQueue(s) => ColdQueue(r)) /\ \A i : ColdBlock(s, i) => ColdBlock(r, i)
  BY <1>1 DEF ColdQueue, ColdBlock, Cold
<1>8. LaunchesBound(r)
  <2>1. CASE b = FALSE
    BY <1>1, <1>3, <1>4, <1>7, <2>1 DEF Core, LaunchesBound
  <2>2. CASE NoneCold(s)
    BY <1>1, <1>3, <1>4, <2>2 DEF Core, LaunchesBound, NoneCold
  <2> QED BY <2>1, <2>2
<1>9. ClosesBound(r)
  <2>1. CASE b = FALSE
    BY <1>1, <1>4, <1>7, <2>1 DEF Core, ClosesBound
  <2>2. CASE NoneCold(s)
    BY <1>1, <1>4, <2>2 DEF Core, ClosesBound, NoneCold
  <2> QED BY <2>1, <2>2
<1>10. Core(r)
  BY <1>2, <1>5, <1>6, <1>8, <1>9 DEF Core
<1>11. Settled(s) => Settled(r)
  BY <1>1 DEF Settled, SettledAt
<1> QED BY <1>1, <1>10, <1>11 DEF r

-----------------------------------------------------------------------------
(* The blocks of the main queue.  The other processes do not move. *)

Kept(r) == r \in ShellType /\ Core(r) /\ Settled(r)

LEMMA Taken ==
  ASSUME TypeOK, Core(sh), Settled(sh), sh.main # <<>>
  PROVE  /\ Kept(Popped) /\ SameTables(sh, Popped) /\ Popped.ctl = sh.ctl /\ Popped.cmds = sh.cmds
         /\ 1 \in DOMAIN sh.main /\ Head(sh.main) = sh.main[1]
         /\ \A i \in DOMAIN Popped.main :
               i + 1 \in DOMAIN sh.main /\ Popped.main[i] = sh.main[i + 1] /\ i \in Nat /\ i > 0
<1>1. sh \in ShellType
  BY DEF TypeOK
<1>2. /\ Popped \in ShellType /\ Core(Popped) /\ SameTables(sh, Popped)
      /\ Popped.ctl = sh.ctl /\ Popped.cmds = sh.cmds
      /\ 1 \in DOMAIN sh.main /\ Head(sh.main) = sh.main[1]
      /\ \A i \in DOMAIN Popped.main :
            i + 1 \in DOMAIN sh.main /\ Popped.main[i] = sh.main[i + 1] /\ i \in Nat /\ i > 0
  BY <1>1, PopStep DEF Popped
<1>3. Settled(Popped)
  BY <1>2, SameTablesFacts
<1> QED BY <1>2, <1>3 DEF Kept

LEMMA ResizeDoneKeeps ==
  ASSUME TypeOK, Core(sh), Settled(sh), ResizeDone
  PROVE  Kept(sh')
<1>1. sh.main # <<>> /\ sh' = [Popped EXCEPT !.resizing = @ \ {Head(sh.main).d}]
  BY DEF ResizeDone, NextBlock
<1>2. Kept(Popped)
  BY <1>1, Taken
<1>3. Popped.resizing \ {Head(sh.main).d} \in SUBSET Displays
  BY <1>2 DEF Kept, ShellType
<1>4. \A d \in Popped.resizing \ {Head(sh.main).d} : Popped.binding[d] # NoApp
  BY <1>2 DEF Kept, Core, Tables
<1> QED BY <1>1, <1>2, <1>3, <1>4, ResizingStep DEF Kept

LEMMA AgentDisconnectedKeeps ==
  ASSUME TypeOK, Core(sh), Settled(sh), AgentDisconnected
  PROVE  Kept(sh')
<1>1. sh.main # <<>> /\ sh' = [Popped EXCEPT !.agentConnected = FALSE]
  BY DEF AgentDisconnected, NextBlock
<1>2. Kept(Popped)
  BY <1>1, Taken
<1> QED BY <1>1, <1>2, ConnectionStep DEF Kept

\* A hidden display is removed.
LEMMA RemoveHidden ==
  ASSUME NEW s \in ShellType, NEW d \in Displays, TypeOK, Core(s), SettledBut(s, d),
         Idle(s, d), ~NotCreated(s, d), s.binding[d] \notin s.pending, d \notin s.windows
  PROVE  Kept(RequestRemove(s, d))
<1> DEFINE r == RequestRemove(s, d)
<1>1. /\ r \in ShellType /\ Core(r) /\ r.windows = s.windows
      /\ d \in r.removal \/ d \notin r.active
      /\ SettledBut(r, d)
  BY RequestRemoveStep
<1> HIDE DEF r
<1>2. Settled(r)
  BY <1>1 DEF Settled, SettledBut, SettledAt
<1> QED BY <1>1, <1>2 DEF Kept, r

\* The block of a launch is the only one, and its display is still unused.
LEMMA AddTaken ==
  ASSUME TypeOK, Core(sh), Settled(sh), NextBlock("add")
  PROVE  LET b == Head(sh.main)
         IN /\ b.d \in Displays /\ b.app \in Apps /\ b \in Blocks
            /\ Fresh(sh, b.d, b.app) /\ Unused(Popped, b.d)
            /\ ~AddPending(Popped, b.d) /\ ~NotCreated(Popped, b.d)
            /\ b.res = "error" => NoTrace(Popped, b.d) /\ b.d \notin Popped.windows
<1> DEFINE b == Head(sh.main)
<1>1. sh.main # <<>> /\ b.kind = "add" /\ sh \in ShellType
  BY DEF NextBlock, TypeOK
<1>2. /\ Kept(Popped) /\ SameTables(sh, Popped) /\ Popped.ctl = sh.ctl /\ Popped.cmds = sh.cmds
      /\ 1 \in DOMAIN sh.main /\ b = sh.main[1]
      /\ \A i \in DOMAIN Popped.main :
            i + 1 \in DOMAIN sh.main /\ Popped.main[i] = sh.main[i + 1] /\ i + 1 # 1
  BY <1>1, Taken
<1> HIDE DEF b
<1>3. b.d \in Displays /\ b.app \in Apps /\ b \in Blocks
  BY <1>1, <1>2, Elements
<1>4. Fresh(sh, b.d, b.app)
  BY <1>1, <1>2 DEF Core, AddsFresh
<1>5. Unused(Popped, b.d)
  BY <1>2, <1>4 DEF Fresh, Unused, Occupied, LaunchPending, ClosePending
<1>6. ~AddPending(Popped, b.d)
  <2>1. \A i \in DOMAIN sh.ctl : sh.ctl[i].op = "add" /\ sh.ctl[i].live => sh.ctl[i].d # b.d
    BY <1>1, <1>2 DEF Core, AddAlone, DisplayKinds
  <2>2. \A i \in DOMAIN Popped.main : Popped.main[i].kind = "add" => Popped.main[i].d # b.d
    BY <1>1, <1>2 DEF Core, AddsFresh
  <2> QED BY <1>2, <2>1, <2>2 DEF AddPending
<1>7. ~NotCreated(Popped, b.d)
  BY <1>6 DEF AddPending, NotCreated
<1>8. ASSUME b.res = "error"
      PROVE  NoTrace(Popped, b.d) /\ b.d \notin Popped.windows
  <2>1. /\ b.d \notin exists /\ b.d \notin sh.windows
        /\ \A j \in DOMAIN sh.ctl : sh.ctl[j].d # b.d
        /\ \A j \in DOMAIN sh.main :
              j # 1 /\ sh.main[j].kind \in DisplayKinds => sh.main[j].d # b.d
    BY <1>1, <1>2, <1>8 DEF Core, AddAlone
  <2> QED BY <1>2, <2>1 DEF NoTrace, SameTables
<1> QED BY <1>3, <1>4, <1>5, <1>6, <1>7, <1>8 DEF b

LEMMA AddDoneKeeps ==
  ASSUME TypeOK, Core(sh), Settled(sh), AddDone
  PROVE  /\ Kept(sh')
         /\ \/ UNCHANGED timers
            \/ LET b == Head(sh.main)
               IN /\ timers' = timers \cup {[d |-> b.d, app |-> b.app, n |-> b.n]}
                  /\ Fresh(sh', b.d, b.app) /\ ~AddPending(sh', b.d)
<1> DEFINE b == Head(sh.main)
           opened == OpenWindow(Popped, b.d)
<1>1. NextBlock("add") /\ sh.main # <<>> /\ sh \in ShellType
  BY DEF AddDone, NextBlock, TypeOK
<1>2. /\ b.d \in Displays /\ b.app \in Apps /\ b \in Blocks
      /\ Fresh(sh, b.d, b.app) /\ Unused(Popped, b.d)
      /\ ~AddPending(Popped, b.d) /\ ~NotCreated(Popped, b.d)
      /\ b.res = "error" => NoTrace(Popped, b.d) /\ b.d \notin Popped.windows
  BY <1>1, AddTaken
<1>3. Kept(Popped) /\ SameTables(sh, Popped)
  BY <1>1, Taken
<1>4. Popped \in ShellType /\ Core(Popped) /\ Settled(Popped) /\ SettledBut(Popped, b.d)
  BY <1>3 DEF Kept, Settled, SettledBut
<1>5. /\ opened \in ShellType /\ Core(opened) /\ Settled(opened) /\ SameQueues(Popped, opened)
      /\ opened.binding = Popped.binding /\ opened.pending = Popped.pending
      /\ opened.inFlight = Popped.inFlight /\ opened.closing = Popped.closing
      /\ opened.launchFailed = Popped.launchFailed /\ opened.deferred = Popped.deferred
      /\ b.d \in opened.windows \ Popped.windows => Popped.binding[b.d] \notin Popped.closing
  BY <1>2, <1>4, OpenWindowStep
<1> DEFINE e == AddError(Popped, b.d)
           l == Rollback(Popped, b.d)
           q == RequestRemove(Popped, b.d)
           o == Rollback(opened, b.d)
           t == [d |-> b.d, app |-> b.app, n |-> b.n]
<1>6. \/ b.res = "error" /\ sh' = e /\ UNCHANGED timers
      \/ b.res = "lost" /\ sh' = l /\ UNCHANGED timers
      \/ b.res = "ok" /\ sh.appDisplay[b.app] # b.d /\ sh' = q /\ UNCHANGED timers
      \/ sh' = o /\ UNCHANGED timers
      \/ b.d \in opened.windows /\ sh' = opened /\ timers' = timers \cup {t}
  BY DEF AddDone
<1> HIDE DEF b, opened
<1>7. b.res = "error" => Kept(e)
  <2>1. SUFFICES ASSUME b.res = "error" PROVE Kept(e)
    OBVIOUS
  <2>2. /\ e \in ShellType /\ Core(e) /\ e.windows = Popped.windows /\ b.d \notin e.active
        /\ SettledBut(e, b.d)
    BY <1>2, <1>4, <2>1, UnbindRelease DEF AddError, Idle
  <2> HIDE DEF e
  <2>3. Settled(e)
    BY <1>2, <2>1, <2>2 DEF Settled, SettledBut, SettledAt
  <2> QED BY <2>2, <2>3 DEF Kept
<1>8. Kept(l)
  BY <1>2, <1>4, RollbackStep DEF Kept
<1>9. sh.appDisplay[b.app] # b.d => Kept(q)
  <2>1. SUFFICES ASSUME sh.appDisplay[b.app] # b.d PROVE Kept(q)
    OBVIOUS
  <2>2. Popped.binding[b.d] = NoApp
    BY <1>2, <1>3, <2>1, AppDisplaysAssumptions DEF Fresh, SameTables, Core, Tables
  <2>3. Popped.binding[b.d] \notin Popped.pending /\ b.d \notin Popped.windows
    BY <1>2, <1>4, <2>2, AppDisplaysAssumptions DEF Settled, SettledAt, ShellType
  <2> QED BY <1>2, <1>4, <2>3, RemoveHidden DEF Idle
<1>10. Kept(o)
  <2>1. Unused(opened, b.d) /\ ~NotCreated(opened, b.d) /\ SettledBut(opened, b.d)
    BY <1>2, <1>5, SameQueuesFacts DEF Settled, SettledBut
  <2> QED BY <1>2, <1>5, <2>1, RollbackStep DEF Kept
<1>11. Kept(opened)
  BY <1>5 DEF Kept
<1>12. b.d \in opened.windows => Fresh(opened, b.d, b.app) /\ ~AddPending(opened, b.d)
  <2>1. SUFFICES ASSUME b.d \in opened.windows
                 PROVE  Fresh(opened, b.d, b.app) /\ ~AddPending(opened, b.d)
    OBVIOUS
  <2>2. Unused(opened, b.d) /\ ~AddPending(opened, b.d)
    BY <1>2, <1>5, SameQueuesFacts
  <2>3. opened.binding[b.d] = b.app => b.app \in opened.pending
    BY <1>2, <1>3, <1>5, <2>1 DEF Fresh, SameTables
  <2> QED BY <1>2, <1>3, <1>5, <2>2, <2>3 DEF Fresh, SameTables
<1> HIDE DEF e, l, q, o
<1> QED BY <1>6, <1>7, <1>8, <1>9, <1>10, <1>11, <1>12 DEF b

\* One entry at the end of a queue.
LEMMA OneMore ==
  ASSUME NEW S, NEW q \in Seq(S), NEW x \in S
  PROVE  /\ <<x>> \in Seq(S) /\ DOMAIN <<x>> = {1} /\ <<x>>[1] = x
         /\ Append(q, x) = q \o <<x>>
<1>1. <<x>> \in Seq(S) /\ DOMAIN <<x>> = {1} /\ <<x>>[1] = x /\ Len(<<x>>) = 1
  OBVIOUS
<1>2. Append(q, x) = q \o <<x>>
  BY AppendIsConcat
<1> QED BY <1>1, <1>2

LEMMA PostOne ==
  ASSUME NEW s \in ShellType, Core(s), NEW x \in Blocks, Fits(s, x)
  PROVE  LET r == Post(s, x)
         IN /\ r \in ShellType /\ Core(r) /\ SameTables(s, r) /\ (Settled(s) => Settled(r))
            /\ r.ctl = s.ctl /\ r.cmds = s.cmds /\ r.main = Append(s.main, x)
<1> DEFINE q == <<x>>
           r == [s EXCEPT !.main = @ \o q]
<1>1. s.main \in Seq(Blocks)
  BY DEF ShellType
<1>2. q \in Seq(Blocks) /\ DOMAIN q = {1} /\ q[1] = x /\ Append(s.main, x) = s.main \o q
  BY <1>1, OneMore
<1> HIDE DEF q
<1>3. /\ r \in ShellType /\ Core(r) /\ SameTables(s, r) /\ r.ctl = s.ctl /\ r.cmds = s.cmds
      /\ r.main = s.main \o q
  BY <1>2, PostStep
<1>4. Post(s, x) = r
  BY <1>2 DEF Post
<1> HIDE DEF r
<1> QED BY <1>2, <1>3, <1>4, SameTablesFacts

LEMMA SendOne ==
  ASSUME NEW s \in ShellType, Core(s), NEW c \in Commands, CommandFits(s, c), agent # "none"
  PROVE  LET r == [s EXCEPT !.cmds = Append(@, c)]
         IN /\ r \in ShellType /\ Core(r) /\ SameTables(s, r) /\ (Settled(s) => Settled(r))
            /\ r.ctl = s.ctl /\ r.cmds = Append(s.cmds, c) /\ r.main = s.main
<1> DEFINE q == <<c>>
           r == [s EXCEPT !.cmds = @ \o q]
<1>1. s.cmds \in Seq(Commands)
  BY DEF ShellType
<1>2. q \in Seq(Commands) /\ DOMAIN q = {1} /\ q[1] = c /\ Append(s.cmds, c) = s.cmds \o q
  BY <1>1, OneMore
<1> HIDE DEF q
<1>3. /\ r \in ShellType /\ Core(r) /\ SameTables(s, r) /\ r.ctl = s.ctl /\ r.main = s.main
      /\ r.cmds = s.cmds \o q
  BY <1>2, SendStep
<1>4. [s EXCEPT !.cmds = Append(@, c)] = r
  BY <1>2
<1> HIDE DEF r
<1> QED BY <1>2, <1>3, <1>4, SameTablesFacts

\* A command line: written, or refused while an APK is sent.
LEMMA GuestCommandStep ==
  ASSUME NEW s \in ShellType, Core(s), Settled(s), NEW d \in Displays, NEW a \in Apps,
         NEW op \in {"launch", "close", "cleanup"}, NEW busy \in BOOLEAN, agent # "none",
         Fits(s, [kind |-> op, d |-> d, app |-> a, res |-> "failed"]),
         CommandFits(s, [op |-> op, d |-> d, app |-> a, live |-> TRUE])
  PROVE  LET r == GuestCommand(s, op, d, a, busy)
         IN Kept(r) /\ SameTables(s, r) /\ r.ctl = s.ctl
<1> DEFINE x == [kind |-> op, d |-> d, app |-> a, res |-> "failed"]
           c == [op |-> op, d |-> d, app |-> a, live |-> TRUE]
           p == Post(s, x)
           w == [s EXCEPT !.cmds = Append(@, c)]
<1>1. x \in Blocks /\ c \in Commands
  BY DEF Blocks, Commands
<1>2. GuestCommand(s, op, d, a, busy) = IF busy THEN p ELSE w
  BY DEF GuestCommand
<1>3. Fits(s, x) /\ CommandFits(s, c)
  OBVIOUS
<1> HIDE DEF x, c
<1>4. p \in ShellType /\ Core(p) /\ Settled(p) /\ SameTables(s, p) /\ p.ctl = s.ctl
  BY <1>1, <1>3, PostOne
<1>5. w \in ShellType /\ Core(w) /\ Settled(w) /\ SameTables(s, w) /\ w.ctl = s.ctl
  BY <1>1, <1>3, SendOne
<1> QED BY <1>2, <1>4, <1>5 DEF Kept

LEMMA SendCleanupStep ==
  ASSUME NEW s \in ShellType, Core(s), Settled(s), NEW d \in Displays, NEW a \in Apps,
         agent # "none", NEW busy \in BOOLEAN
  PROVE  Kept(GuestCommand(s, "cleanup", d, a, busy))
<1>1. Fits(s, [kind |-> "cleanup", d |-> d, app |-> a, res |-> "failed"])
  BY DEF Fits, DisplayKinds
<1>2. CommandFits(s, [op |-> "cleanup", d |-> d, app |-> a, live |-> TRUE])
  BY DEF CommandFits
<1> QED BY <1>1, <1>2, GuestCommandStep

LEMMA CleanupFailedLaunchStep ==
  ASSUME NEW s \in ShellType, NEW d \in Displays, TypeOK, Core(s), Settled(s), NEW a,
         s.binding[d] = a, a # NoApp, ~LaunchPending(s, d), ~ClosePending(s, d), ~AddPending(s, d),
         NEW busy \in BOOLEAN
  PROVE  Kept(CleanupFailedLaunch(s, d, a, busy))
<1> DEFINE c == [s EXCEPT !.pending = @ \ {a}, !.inFlight = @ \ {a},
                          !.closing = @ \cup {a}, !.deferred = @ \cup {d}]
<1>1. c \in ShellType /\ Core(c) /\ Settled(c) /\ a \in Apps
  BY CleanupFlagsStep
<1>2. CleanupFailedLaunch(s, d, a, busy) =
         IF agent # "none" THEN GuestCommand(c, "cleanup", d, a, busy) ELSE c
  BY DEF CleanupFailedLaunch, agentReady
<1> HIDE DEF c
<1>3. agent # "none" => Kept(GuestCommand(c, "cleanup", d, a, busy))
  BY <1>1, SendCleanupStep
<1> QED BY <1>1, <1>2, <1>3 DEF Kept

\* A bound display is not cold.
LEMMA BoundIsWarm ==
  ASSUME NEW s, NEW d \in Displays, s.binding[d] # NoApp
  PROVE  ~Cold(s) /\ ~ColdQueue(s) /\ \A i : ~ColdBlock(s, i)
BY DEF Cold, ColdQueue, ColdBlock

\* What a task, a launch or a close on a bound display tells of it.
LEMMA BoundUse ==
  ASSUME NEW s \in ShellType, NEW d \in Displays, Core(s), s.binding[d] # NoApp
  PROVE  /\ Occupied(s, d) \/ LaunchPending(s, d) => Running(s, d, s.binding[d])
         /\ ClosePending(s, d) => Closing(s, d, s.binding[d])
<1>1. ~ColdQueue(s) /\ \A i : ~ColdBlock(s, i)
  BY BoundIsWarm
<1>2. \A a : (Running(s, d, a) => a = s.binding[d]) /\ (Closing(s, d, a) => a = s.binding[d])
  BY DEF Running, Closing
<1>3. Occupied(s, d) => Running(s, d, s.binding[d])
  BY <1>1, <1>2 DEF Occupied, Core, LaunchesBound
<1>4. LaunchPending(s, d) => Running(s, d, s.binding[d])
  BY <1>1, <1>2 DEF LaunchPending, Core, LaunchesBound
<1>5. ClosePending(s, d) => Closing(s, d, s.binding[d])
  BY <1>1, <1>2 DEF ClosePending, Core, ClosesBound
<1> QED BY <1>3, <1>4, <1>5

\* Until a launch is answered nothing else happens on its display.
LEMMA AddIsFresh ==
  ASSUME NEW s \in ShellType, NEW d, Core(s), AddPending(s, d)
  PROVE  \E a \in Apps : Fresh(s, d, a)
BY Elements DEF AddPending, Core, AddsFresh

\* Answers to a launch and to a close: the only ones for their display.
LEMMA AnswerTaken ==
  ASSUME TypeOK, Core(sh), Settled(sh), NEW kind \in {"launch", "close"}, NextBlock(kind)
  PROVE  LET b == Head(sh.main)
         IN /\ b.d \in Displays /\ b.app \in Apps /\ b = sh.main[1] /\ b.kind = kind
            /\ ~AddPending(Popped, b.d)
            /\ kind = "launch" => ~LaunchPending(Popped, b.d)
            /\ kind = "close" => ~ClosePending(Popped, b.d)
<1> DEFINE b == Head(sh.main)
<1>1. sh.main # <<>> /\ b.kind = kind /\ sh \in ShellType
  BY DEF NextBlock, TypeOK
<1>2. /\ Kept(Popped) /\ SameTables(sh, Popped) /\ Popped.ctl = sh.ctl /\ Popped.cmds = sh.cmds
      /\ 1 \in DOMAIN sh.main /\ b = sh.main[1]
      /\ \A i \in DOMAIN Popped.main :
            i + 1 \in DOMAIN sh.main /\ Popped.main[i] = sh.main[i + 1] /\ i + 1 # 1
  BY <1>1, Taken
<1> HIDE DEF b
<1>3. b.d \in Displays /\ b.app \in Apps
  BY <1>1, <1>2, Elements
<1>4. ~AddPending(Popped, b.d)
  <2>1. ~Unused(sh, b.d)
    BY <1>1, <1>2 DEF Unused, LaunchPending, ClosePending
  <2>2. ~AddPending(sh, b.d)
    BY <1>1, <2>1, AddIsFresh DEF Fresh
  <2> QED BY <1>2, <2>2 DEF AddPending
<1>5. kind = "launch" => ~LaunchPending(Popped, b.d)
  BY <1>1, <1>2 DEF LaunchPending, Core, LaunchOnce
<1>6. kind = "close" => ~ClosePending(Popped, b.d)
  BY <1>1, <1>2 DEF ClosePending, Core, ClosesBound
<1> QED BY <1>1, <1>2, <1>3, <1>4, <1>5, <1>6 DEF b

LEMMA LaunchDoneKeeps ==
  ASSUME TypeOK, Core(sh), Settled(sh), LaunchDone
  PROVE  Kept(sh')
<1> DEFINE b == Head(sh.main)
           d == b.d
           a == b.app
           s == [Popped EXCEPT !.inFlight = @ \ {a}]
           f == [s EXCEPT !.launchFailed = @ \cup {d}]
           p == [s EXCEPT !.pending = @ \ {a}]
<1>1. NextBlock("launch") /\ sh.main # <<>> /\ sh \in ShellType
  BY DEF LaunchDone, NextBlock, TypeOK
<1>2. /\ d \in Displays /\ a \in Apps /\ b = sh.main[1] /\ b.kind = "launch"
      /\ ~AddPending(Popped, d) /\ ~LaunchPending(Popped, d)
  BY <1>1, AnswerTaken
<1>3. /\ Kept(Popped) /\ SameTables(sh, Popped) /\ Popped.cmds = sh.cmds
      /\ Popped \in ShellType /\ Core(Popped) /\ Settled(Popped) /\ 1 \in DOMAIN sh.main
  BY <1>1, Taken DEF Kept
<1>4. \/ sh.binding[d] # a /\ sh' = s
      \/ sh.binding[d] = a /\ a \in sh.closing /\ b.res = "failed" /\ sh' = f
      \/ sh.binding[d] = a /\ a \in sh.closing /\ sh' = s
      \/ /\ sh.binding[d] = a /\ a \notin sh.closing
         /\ \E busy \in BOOLEAN : sh' = CleanupFailedLaunch(s, d, a, busy)
      \/ sh.binding[d] = a /\ a \notin sh.closing /\ sh' = p
  BY DEF LaunchDone
<1>5. /\ s \in ShellType /\ SameQueues(Popped, s) /\ s.windows = Popped.windows
      /\ s.binding = Popped.binding /\ s.appDisplay = Popped.appDisplay
      /\ s.resizing = Popped.resizing /\ s.removal = Popped.removal /\ s.active = Popped.active
      /\ s.pending = Popped.pending /\ s.inFlight = Popped.inFlight \ {a}
      /\ s.launchFailed = Popped.launchFailed /\ s.closing = Popped.closing
      /\ s.deferred = Popped.deferred
  BY <1>3 DEF ShellType, SameQueues
<1>6. /\ f \in ShellType /\ SameQueues(Popped, f) /\ f.windows = Popped.windows
      /\ f.binding = Popped.binding /\ f.appDisplay = Popped.appDisplay
      /\ f.resizing = Popped.resizing /\ f.removal = Popped.removal /\ f.active = Popped.active
      /\ f.pending = Popped.pending /\ f.inFlight = Popped.inFlight \ {a}
      /\ f.launchFailed = Popped.launchFailed \cup {d} /\ f.closing = Popped.closing
      /\ f.deferred = Popped.deferred
  BY <1>2, <1>3 DEF ShellType, SameQueues
<1>7. /\ p \in ShellType /\ SameQueues(Popped, p) /\ p.windows = Popped.windows
      /\ p.binding = Popped.binding /\ p.appDisplay = Popped.appDisplay
      /\ p.resizing = Popped.resizing /\ p.removal = Popped.removal /\ p.active = Popped.active
      /\ p.pending = Popped.pending \ {a} /\ p.inFlight = Popped.inFlight \ {a}
      /\ p.launchFailed = Popped.launchFailed /\ p.closing = Popped.closing
      /\ p.deferred = Popped.deferred
  BY <1>2, <1>3 DEF ShellType, SameQueues
<1>8. NoApp \notin Apps
  BY AppDisplaysAssumptions
<1>9. CASE sh.binding[d] # a /\ sh' = s
  <2>1. ColdBlock(sh, 1)
    BY <1>2, <1>3, <1>9 DEF Core, LaunchesBound, Running
  <2>2. Popped.inFlight = {}
    BY <1>3, <1>8, <2>1 DEF ColdBlock, Cold, SameTables, Core, Tables, ShellType
  <2>3. s = Popped
    <3>1. Popped.inFlight \ {a} = Popped.inFlight
      BY <2>2
    <3> HIDE DEF a
    <3> QED BY <1>3, <3>1 DEF ShellType
  <2> QED BY <1>3, <1>9, <2>3
<1>10. sh.binding[d] = a => Popped.binding[d] = a /\ a # NoApp
  BY <1>2, <1>3, <1>8 DEF SameTables
<1>11. CASE sh.binding[d] = a /\ a \in sh.closing /\ b.res = "failed" /\ sh' = f
  <2>1. ~Occupied(Popped, d)
    BY <1>2, <1>3, <1>11 DEF Core, LaunchOnce, Occupied
  <2>2. a \notin Popped.pending
    BY <1>3, <1>11 DEF Core, Tables, SameTables
  <2> HIDE DEF f, d, a
  <2>3. FlagsOf(Popped, f, d)
    BY <1>6, <1>10, <1>11 DEF FlagsOf
  <2> QED BY <1>2, <1>3, <1>6, <1>10, <1>11, <2>1, <2>2, <2>3, AnsweredStep DEF Kept
<1>12. CASE sh.binding[d] = a /\ a \in sh.closing /\ sh' = s
  <2>1. a \notin Popped.pending
    BY <1>3, <1>12 DEF Core, Tables, SameTables
  <2> HIDE DEF s, d, a
  <2>2. FlagsOf(Popped, s, d)
    BY <1>5, <1>10, <1>12 DEF FlagsOf
  <2> QED BY <1>2, <1>3, <1>5, <1>10, <1>12, <2>1, <2>2, AnsweredStep DEF Kept
<1>13. CASE sh.binding[d] = a /\ a \notin sh.closing /\ sh' = p
  <2> HIDE DEF p, d, a
  <2>2. FlagsOf(Popped, p, d)
    BY <1>7, <1>10, <1>13 DEF FlagsOf
  <2> QED BY <1>2, <1>3, <1>7, <1>10, <1>13, <2>2, AnsweredStep DEF Kept
<1>14. ASSUME sh.binding[d] = a, a \notin sh.closing, NEW busy \in BOOLEAN,
              sh' = CleanupFailedLaunch(s, d, a, busy)
       PROVE  Kept(sh')
  <2>1. CleanupFailedLaunch(s, d, a, busy) = CleanupFailedLaunch(Popped, d, a, busy)
    <3> DEFINE c == [s EXCEPT !.pending = @ \ {a}, !.inFlight = @ \ {a},
                              !.closing = @ \cup {a}, !.deferred = @ \cup {d}]
               e == [Popped EXCEPT !.pending = @ \ {a}, !.inFlight = @ \ {a},
                                   !.closing = @ \cup {a}, !.deferred = @ \cup {d}]
    <3>1. c = e
      <4>1. (Popped.inFlight \ {a}) \ {a} = Popped.inFlight \ {a}
        OBVIOUS
      <4> HIDE DEF a, d
      <4> QED BY <1>3, <4>1 DEF ShellType
    <3>2. s.binding[d] = a /\ Popped.binding[d] = a
      BY <1>5, <1>10, <1>14
    <3>3. CleanupFailedLaunch(s, d, a, busy) =
             IF agentReady THEN GuestCommand(c, "cleanup", d, a, busy) ELSE c
      BY <3>2 DEF CleanupFailedLaunch
    <3>4. CleanupFailedLaunch(Popped, d, a, busy) =
             IF agentReady THEN GuestCommand(e, "cleanup", d, a, busy) ELSE e
      BY <3>2 DEF CleanupFailedLaunch
    <3> HIDE DEF c, e
    <3> QED BY <3>1, <3>3, <3>4
  <2>2. ~ClosePending(Popped, d)
    BY <1>2, <1>3, <1>10, <1>14, BoundUse DEF Closing, SameTables
  <2> HIDE DEF s, d, a
  <2> QED BY <1>2, <1>3, <1>10, <1>14, <2>1, <2>2, CleanupFailedLaunchStep
<1> HIDE DEF s, f, p, d, a
<1> QED BY <1>4, <1>9, <1>11, <1>12, <1>13, <1>14

LEMMA CloseDoneKeeps ==
  ASSUME TypeOK, Core(sh), Settled(sh), CloseDone
  PROVE  Kept(sh')
<1> DEFINE b == Head(sh.main)
           d == b.d
           a == b.app
           u == [Popped EXCEPT !.closing = @ \ {a}]
<1>1. NextBlock("close") /\ sh.main # <<>> /\ sh \in ShellType
  BY DEF CloseDone, NextBlock, TypeOK
<1>2. /\ d \in Displays /\ a \in Apps /\ b = sh.main[1] /\ b.kind = "close"
      /\ ~AddPending(Popped, d) /\ ~ClosePending(Popped, d)
  BY <1>1, AnswerTaken
<1>3. /\ Kept(Popped) /\ SameTables(sh, Popped) /\ Popped.cmds = sh.cmds
      /\ Popped \in ShellType /\ Core(Popped) /\ Settled(Popped) /\ 1 \in DOMAIN sh.main
      /\ \A i \in DOMAIN Popped.main :
            i + 1 \in DOMAIN sh.main /\ Popped.main[i] = sh.main[i + 1] /\ i + 1 > 1
  BY <1>1, Taken DEF Kept
<1>4. \/ sh' = Popped
      \/ /\ sh.binding[d] = a /\ (b.res = "ok" \/ d \in sh.launchFailed)
         /\ sh' = RequestRemove(Popped, d)
      \/ sh.binding[d] = a /\ sh' = OpenWindow(u, d)
  BY DEF CloseDone
<1> HIDE DEF b, d, a
<1>5. ASSUME sh.binding[d] = a
      PROVE  /\ Popped.binding[d] = a /\ a # NoApp /\ a \in Popped.closing
             /\ a \notin Popped.pending /\ d \notin Popped.windows /\ d \notin Popped.removal
             /\ d \notin Popped.deferred
  <2>1. a # NoApp
    BY <1>2, AppDisplaysAssumptions
  <2>2. Closing(sh, d, a)
    BY <1>2, <1>3, <1>5, <2>1, BoundIsWarm DEF Core, ClosesBound, d, a
  <2>3. Popped.pending \cap Popped.closing = {}
    BY <1>3 DEF Core, Tables
  <2> QED BY <1>3, <2>1, <2>2, <2>3 DEF Closing, SameTables
<1>6. ~NotCreated(Popped, d)
  BY <1>2 DEF NotCreated, AddPending
<1>7. CASE sh.binding[d] = a /\ (b.res = "ok" \/ d \in sh.launchFailed)
           /\ sh' = RequestRemove(Popped, d)
  <2>1. ~Occupied(Popped, d) /\ ~LaunchPending(Popped, d)
    <3>1. CASE b.res = "ok"
      <4>1. /\ ~Occupied(sh, d)
            /\ \A j \in DOMAIN sh.main : j > 1 /\ sh.main[j].kind = "launch" => sh.main[j].d # d
        BY <1>2, <1>3, <3>1 DEF Core, StopsHold, d
      <4> QED BY <1>3, <4>1 DEF Occupied, LaunchPending
    <3>2. CASE d \in sh.launchFailed
      <4>1. ~Running(Popped, d, a)
        BY <1>3, <3>2 DEF Running, SameTables
      <4> QED BY <1>2, <1>3, <1>5, <1>7, <4>1, BoundUse
    <3> QED BY <1>7, <3>1, <3>2
  <2>2. Idle(Popped, d)
    BY <1>2, <2>1 DEF Idle, Unused
  <2>3. SettledBut(Popped, d)
    BY <1>3 DEF Settled, SettledBut
  <2> QED BY <1>2, <1>3, <1>5, <1>6, <1>7, <2>2, <2>3, RemoveHidden
<1>8. CASE sh.binding[d] = a /\ sh' = OpenWindow(u, d)
  <2>1. u \in ShellType /\ Core(u) /\ Settled(u) /\ FlagsOf(Popped, u, d)
    BY <1>2, <1>3, <1>5, <1>8, UncloseStep
  <2> HIDE DEF u
  <2>2. ~NotCreated(u, d)
    BY <1>6, <2>1, SameQueuesFacts DEF FlagsOf
  <2> QED BY <1>2, <1>8, <2>1, <2>2, OpenWindowStep DEF Kept
<1> QED BY <1>3, <1>4, <1>7, <1>8

LEMMA CleanupDoneKeeps ==
  ASSUME TypeOK, Core(sh), Settled(sh), CleanupDone
  PROVE  Kept(sh')
<1> DEFINE b == Head(sh.main)
           d == b.d
           a == b.app
           u == [Popped EXCEPT !.deferred = @ \ {d}]
<1>1. sh.main # <<>> /\ sh \in ShellType /\ b.kind = "cleanup"
  BY DEF CleanupDone, NextBlock, TypeOK
<1>2. /\ Kept(Popped) /\ SameTables(sh, Popped) /\ Popped.cmds = sh.cmds /\ Popped.ctl = sh.ctl
      /\ Popped \in ShellType /\ Core(Popped) /\ Settled(Popped)
      /\ 1 \in DOMAIN sh.main /\ b = sh.main[1]
      /\ \A i \in DOMAIN Popped.main :
            i + 1 \in DOMAIN sh.main /\ Popped.main[i] = sh.main[i + 1]
  BY <1>1, Taken DEF Kept
<1>3. d \in Displays /\ a \in Apps /\ a # NoApp
  BY <1>1, <1>2, Elements, AppDisplaysAssumptions
<1>4. \/ sh' = Popped
      \/ b.res = "ok" /\ d \in sh.deferred /\ sh.binding[d] = a /\ sh' = Rollback(u, d)
  BY DEF CleanupDone
<1> HIDE DEF b, d, a
<1>5. CASE b.res = "ok" /\ d \in sh.deferred /\ sh.binding[d] = a /\ sh' = Rollback(u, d)
  <2>1. ~LaunchPending(sh, d)
    BY <1>5 DEF Core, LaunchesBound
  <2>2. /\ task[a] # d
        /\ \A j \in DOMAIN sh.cmds :
              sh.cmds[j].op = "launch" /\ ~sh.cmds[j].live /\ sh.cmds[j].app = a => sh.cmds[j].d # d
    <3>1. ~ \E j \in DOMAIN sh.main : j > 1 /\ sh.main[j].kind = "launch" /\ sh.main[j].d = d
      BY <2>1 DEF LaunchPending
    <3> QED BY <1>1, <1>2, <1>5, <3>1 DEF Core, StopsHold, d, a
  <2>3. ~Occupied(sh, d)
    <3>1. \A e \in Apps : task[e] = d => e = a
      BY <1>3, <1>5 DEF Core, LaunchesBound, Running
    <3>2. \A j \in DOMAIN sh.cmds : sh.cmds[j].op = "launch" /\ sh.cmds[j].d = d =>
             sh.cmds[j].app = a /\ ~sh.cmds[j].live
      <4>1. ~ColdQueue(sh)
        BY <1>3, <1>5, BoundIsWarm
      <4> QED BY <1>5, <2>1, <4>1 DEF Core, LaunchesBound, Running, LaunchPending
    <3> QED BY <2>2, <3>1, <3>2 DEF Occupied
  <2>4. ~ClosePending(sh, d)
    BY <1>1, <1>3, <1>5, BoundUse DEF Closing
  <2>5. Unused(Popped, d)
    BY <1>2, <2>1, <2>3, <2>4 DEF Unused, Occupied, LaunchPending, ClosePending
  <2>6. ~NotCreated(Popped, d)
    <3>1. ~AddPending(sh, d)
      BY <1>1, <1>5, AddIsFresh DEF Fresh
    <3> QED BY <1>2, <3>1 DEF NotCreated, AddPending
  <2>7. Rollback(u, d) = Rollback(Popped, d)
    <3>1. Popped.binding[d] = a /\ u.binding[d] = a /\ a # NoApp
      <4>1. u.binding = Popped.binding
        BY <1>2 DEF ShellType
      <4> HIDE DEF u
      <4> QED BY <1>2, <1>3, <1>5, <4>1 DEF SameTables
    <3>2. Unbind(u, d) = Unbind(Popped, d)
      <4> DEFINE v == [u EXCEPT !.appDisplay[a] = IF @ = d THEN 0 ELSE @,
                          !.pending = @ \ {a}, !.inFlight = @ \ {a}, !.closing = @ \ {a},
                          !.launchFailed = @ \ {d}, !.deferred = @ \ {d}, !.resizing = @ \ {d},
                          !.binding[d] = NoApp]
                 w == [Popped EXCEPT !.appDisplay[a] = IF @ = d THEN 0 ELSE @,
                          !.pending = @ \ {a}, !.inFlight = @ \ {a}, !.closing = @ \ {a},
                          !.launchFailed = @ \ {d}, !.deferred = @ \ {d}, !.resizing = @ \ {d},
                          !.binding[d] = NoApp]
      <4>1. Unbind(u, d) = v /\ Unbind(Popped, d) = w
        <5> HIDE DEF u
        <5> QED BY <3>1 DEF Unbind
      <4>2. v = w
        <5>1. (Popped.deferred \ {d}) \ {d} = Popped.deferred \ {d}
          OBVIOUS
        <5> QED BY ZenonT(40), <1>2, <5>1 DEF ShellType
      <4> HIDE DEF v, w
      <4> QED BY <4>1, <4>2
    <3> QED BY <3>2 DEF Rollback
  <2>8. SettledBut(Popped, d)
    BY <1>2 DEF Settled, SettledBut
  <2> HIDE DEF u
  <2> QED BY <1>2, <1>3, <1>5, <2>5, <2>6, <2>7, <2>8, RollbackStep DEF Kept
<1> QED BY <1>2, <1>4, <1>5

LEMMA DisplayAddedKeeps ==
  ASSUME TypeOK, Core(sh), Settled(sh), DisplayAdded
  PROVE  Kept(sh')
<1> DEFINE d == Head(sh.main).d
<1>1. sh.main # <<>> /\ sh \in ShellType /\ Head(sh.main).kind = "added"
  BY DEF DisplayAdded, NextBlock, TypeOK
<1>2. /\ Kept(Popped) /\ SameTables(sh, Popped) /\ Popped.ctl = sh.ctl
      /\ Popped \in ShellType /\ Core(Popped) /\ Settled(Popped)
      /\ 1 \in DOMAIN sh.main /\ Head(sh.main) = sh.main[1]
      /\ \A i \in DOMAIN Popped.main :
            i + 1 \in DOMAIN sh.main /\ Popped.main[i] = sh.main[i + 1] /\ i + 1 # 1
  BY <1>1, Taken DEF Kept
<1>3. d \in Displays
  BY <1>1, <1>2, Elements
<1>4. sh' = IF sh.binding[d] = NoApp THEN RequestRemove(Popped, d) ELSE OpenWindow(Popped, d)
  BY DEF DisplayAdded
<1>5. ~NotCreated(Popped, d)
  <2>1. ~NotCreated(sh, d)
    BY <1>1, <1>2 DEF NotCreated, Core, AddAlone, DisplayKinds
  <2> QED BY <1>2, <2>1 DEF NotCreated
<1> HIDE DEF d
<1>6. CASE sh.binding[d] = NoApp
  <2>1. /\ Popped.binding[d] = NoApp /\ NoApp \notin Popped.pending /\ d \notin Popped.windows
        /\ SettledBut(Popped, d)
    BY <1>2, <1>3, <1>6, AppDisplaysAssumptions
       DEF SameTables, Settled, SettledAt, SettledBut, ShellType
  <2> QED BY <1>2, <1>3, <1>4, <1>5, <1>6, <2>1, RemoveHidden DEF Idle
<1>7. CASE sh.binding[d] # NoApp
  BY <1>2, <1>3, <1>4, <1>5, <1>7, OpenWindowStep DEF Kept
<1> QED BY <1>6, <1>7

LEMMA DisplayRemovedKeeps ==
  ASSUME TypeOK, Core(sh), Settled(sh), DisplayRemoved
  PROVE  Kept(sh')
<1> DEFINE d == Head(sh.main).d
<1>1. /\ sh.main # <<>> /\ sh \in ShellType /\ Head(sh.main).kind = "removed"
      /\ sh' = Removed(Popped, d)
  BY DEF DisplayRemoved, NextBlock, TypeOK
<1>2. /\ Kept(Popped) /\ SameTables(sh, Popped) /\ Popped.ctl = sh.ctl
      /\ Popped \in ShellType /\ Core(Popped) /\ Settled(Popped)
      /\ 1 \in DOMAIN sh.main /\ Head(sh.main) = sh.main[1]
      /\ \A i \in DOMAIN Popped.main :
            i + 1 \in DOMAIN sh.main /\ Popped.main[i] = sh.main[i + 1] /\ i + 1 > 1
  BY <1>1, Taken DEF Kept
<1>3. d \in Displays
  BY <1>1, <1>2, Elements
<1>4. /\ d \in sh.removal /\ d \notin exists
      /\ \A j \in DOMAIN sh.ctl : sh.ctl[j].d # d
      /\ \A j \in DOMAIN sh.main : j > 1 /\ sh.main[j].kind \in DisplayKinds => sh.main[j].d # d
  BY <1>1, <1>2 DEF Core, RemoveLast
<1> HIDE DEF d
<1>5. d \in Popped.removal /\ NoTrace(Popped, d) /\ NoRemoval(Popped, d) /\ ~NotCreated(Popped, d)
  BY <1>2, <1>4 DEF SameTables, NoTrace, NoRemoval, NotCreated, DisplayKinds
<1>6. Idle(Popped, d)
  <2>1. SUFFICES ASSUME Popped.binding[d] # NoApp PROVE Unused(Popped, d)
    BY DEF Idle
  <2> QED BY <1>2, <1>3, <1>5, <2>1, BoundUse DEF Unused, Running, Closing
<1> QED BY <1>1, <1>2, <1>3, <1>5, <1>6, RemovedStep DEF Kept

\* A new agent: the commands of the one before have been answered.
LEMMA HeardOfAgent ==
  ASSUME TypeOK, Core(sh), NextBlock("connected")
  PROVE  NoneCold(Popped)
<1>1. sh.main # <<>> /\ sh \in ShellType /\ Head(sh.main).kind = "connected"
  BY DEF NextBlock, TypeOK
<1>2. /\ SameTables(sh, Popped) /\ Popped.cmds = sh.cmds
      /\ 1 \in DOMAIN sh.main /\ Head(sh.main) = sh.main[1]
      /\ \A i \in DOMAIN Popped.main :
            i + 1 \in DOMAIN sh.main /\ Popped.main[i] = sh.main[i + 1] /\ i + 1 > 1
  BY <1>1, PopStep DEF Popped
<1>3. \A d, a : Running(Popped, d, a) = Running(sh, d, a) /\ Closing(Popped, d, a) = Closing(sh, d, a)
  BY <1>2, SameTablesFacts
<1>4. ~ColdQueue(sh) /\ \A i : i > 1 => ~ColdBlock(sh, i)
  BY <1>1, <1>2 DEF ColdQueue, ColdBlock
<1> QED BY <1>2, <1>3, <1>4 DEF NoneCold, Core, LaunchesBound, ClosesBound

\* The list of a set of displays.
LEMMA OrderOfDisplays ==
  ASSUME NEW S \in SUBSET Displays, NEW o \in InOrder(S)
  PROVE  Cardinality(S) \in Nat /\ DOMAIN o = 1..Cardinality(S) /\ \A k \in DOMAIN o : o[k] \in S
<1>1. IsFiniteSet(Displays)
  <2>1. 1 \in Int /\ MaxDisplay \in Int
    BY AppDisplaysAssumptions
  <2> QED BY <2>1, FS_Interval DEF Displays
<1>2. Cardinality(S) \in Nat
  BY <1>1, FS_Subset, FS_CardinalityType
<1>3. o \in [1..Cardinality(S) -> S]
  BY DEF InOrder
<1> QED BY <1>2, <1>3

LEMMA ResumeCleanupsStep ==
  ASSUME NEW s \in ShellType, Core(s), Settled(s), NEW o \in InOrder(s.deferred),
         NEW busy \in BOOLEAN
  PROVE  Kept(ResumeCleanups(s, o, busy))
<1> DEFINE apps == {s.binding[d] : d \in s.deferred}
           c == [s EXCEPT !.pending = @ \ apps, !.inFlight = @ \ apps, !.closing = @ \cup apps]
           n == Cardinality(s.deferred)
           q == [k \in DOMAIN o |-> [kind |-> "cleanup", d |-> o[k], app |-> s.binding[o[k]],
                                     res |-> "failed"]]
           w == [k \in DOMAIN o |-> [op |-> "cleanup", d |-> o[k], app |-> s.binding[o[k]],
                                     live |-> TRUE]]
<1>1. ResumeCleanups(s, o, busy) =
         IF agent = "none" THEN c
         ELSE IF busy THEN [c EXCEPT !.main = @ \o q] ELSE [c EXCEPT !.cmds = @ \o w]
  BY DEF ResumeCleanups, agentReady
<1>2. \A d \in s.deferred : /\ d \in Displays /\ s.binding[d] \in Apps
                            /\ s.binding[d] \notin s.pending
                            /\ s.binding[d] \notin s.inFlight
                            /\ s.binding[d] \in s.closing
  BY DEF Core, Tables, ShellType
<1>3. c = s
  <2>1. s.pending \ apps = s.pending /\ s.inFlight \ apps = s.inFlight
        /\ s.closing \cup apps = s.closing
    BY <1>2
  <2> HIDE DEF apps
  <2>2. c = [s EXCEPT !.pending = s.pending, !.inFlight = s.inFlight, !.closing = s.closing]
    BY <2>1
  <2>3. [s EXCEPT !.pending = s.pending, !.inFlight = s.inFlight, !.closing = s.closing] = s
    BY DEF ShellType
  <2> QED BY <2>2, <2>3
<1>4. n \in Nat /\ DOMAIN o = 1..n /\ \A k \in DOMAIN o : o[k] \in s.deferred
  <2>1. s.deferred \in SUBSET Displays
    BY DEF ShellType
  <2> QED BY <2>1, OrderOfDisplays
<1> HIDE DEF n
<1>5. q \in Seq(Blocks) /\ w \in Seq(Commands)
  <2>1. \A k \in 1..n : /\ q[k] \in Blocks /\ q[k].kind = "cleanup"
                        /\ w[k] \in Commands /\ w[k].op = "cleanup"
    BY <1>2, <1>4 DEF Blocks, Commands
  <2>2. q = [k \in 1..n |-> q[k]] /\ w = [k \in 1..n |-> w[k]]
    BY <1>4
  <2> HIDE DEF q, w
  <2>3. q \in [1..n -> Blocks] /\ w \in [1..n -> Commands]
    BY <2>1, <2>2
  <2> QED BY <1>4, <2>3
<1>6. /\ \A k \in DOMAIN q : q[k].kind = "cleanup" /\ q[k].res = "failed"
      /\ \A k \in DOMAIN w : w[k].op = "cleanup" /\ w[k].live
  OBVIOUS
<1> HIDE DEF c, q, w
<1>7. (\A k \in DOMAIN q : Fits(s, q[k])) /\ \A j, k \in DOMAIN q : j # k => Apart(q[j], q[k])
  BY <1>6 DEF Fits, DisplayKinds, Apart, Alone
<1>8. \A k \in DOMAIN w : CommandFits(s, w[k])
  BY <1>6 DEF CommandFits
<1>9. Kept([s EXCEPT !.main = @ \o q])
  <2> DEFINE r == [s EXCEPT !.main = @ \o q]
  <2>1. r \in ShellType /\ Core(r) /\ SameTables(s, r)
    BY <1>5, <1>7, PostStep
  <2> HIDE DEF r
  <2>2. Kept(r)
    BY <2>1, SameTablesFacts DEF Kept
  <2> QED BY <2>2 DEF r
<1>10. agent # "none" => Kept([s EXCEPT !.cmds = @ \o w])
  <2> DEFINE r == [s EXCEPT !.cmds = @ \o w]
  <2>1. agent # "none" => r \in ShellType /\ Core(r) /\ SameTables(s, r)
    BY <1>5, <1>6, <1>8, SendStep
  <2> HIDE DEF r
  <2>2. agent # "none" => Kept(r)
    BY <2>1, SameTablesFacts DEF Kept
  <2> QED BY <2>2 DEF r
<1> QED BY <1>1, <1>3, <1>9, <1>10 DEF Kept

LEMMA AgentConnectedKeeps ==
  ASSUME TypeOK, Core(sh), Settled(sh), AgentConnected
  PROVE  Kept(sh')
<1> DEFINE p == [Popped EXCEPT !.agentConnected = TRUE]
<1>1. sh.main # <<>> /\ NextBlock("connected")
  BY DEF AgentConnected, NextBlock
<1>2. PICK busy \in BOOLEAN : \E o \in InOrder(sh.deferred) : sh' = ResumeCleanups(p, o, busy)
  BY DEF AgentConnected
<1>3. PICK o \in InOrder(sh.deferred) : sh' = ResumeCleanups(p, o, busy)
  BY <1>2
<1>4. Kept(Popped) /\ SameTables(sh, Popped)
  BY <1>1, Taken
<1>5. p \in ShellType /\ Core(p) /\ Settled(p) /\ p.deferred = Popped.deferred
  BY <1>1, <1>4, HeardOfAgent, ConnectionStep DEF Kept
<1>6. o \in InOrder(p.deferred)
  BY <1>4, <1>5 DEF SameTables
<1> HIDE DEF p
<1> QED BY <1>3, <1>5, <1>6, ResumeCleanupsStep

-----------------------------------------------------------------------------
(* The user. *)

LEMMA PresentFrameKeeps ==
  ASSUME TypeOK, Core(sh), Settled(sh), NEW d \in Displays, PresentFrame(d)
  PROVE  Kept(sh')
<1>1. sh \in ShellType /\ d \in exists /\ sh' = OpenWindow(sh, d)
  BY DEF TypeOK, PresentFrame
<1>2. ~NotCreated(sh, d)
  BY <1>1 DEF NotCreated, Core, AddAlone
<1> QED BY <1>1, <1>2, OpenWindowStep DEF Kept

LEMMA ResizeKeeps ==
  ASSUME TypeOK, Core(sh), Settled(sh), NEW d \in Displays, Resize(d)
  PROVE  Kept(sh')
<1> DEFINE s == [sh EXCEPT !.resizing = @ \cup {d}]
           x == [op |-> "resize", d |-> d, app |-> NoApp, n |-> 0, live |-> TRUE]
           r == [s EXCEPT !.ctl = Append(@, x)]
<1>1. /\ sh \in ShellType /\ d \in sh.windows /\ d \notin sh.removal /\ sh.binding[d] # NoApp
      /\ channel = "alive"
  BY DEF TypeOK, Resize
<1>2. sh' = r
  BY DEF Resize, SendRequest
<1>3. /\ s \in ShellType /\ Core(s) /\ Settled(s) /\ SameQueues(sh, s)
      /\ s.windows = sh.windows /\ s.binding = sh.binding /\ s.removal = sh.removal
      /\ s.active = sh.active
  <2>1. sh.resizing \cup {d} \in SUBSET Displays /\ \A e \in sh.resizing \cup {d} : sh.binding[e] # NoApp
    BY <1>1 DEF ShellType, Core, Tables
  <2> QED BY <1>1, <2>1, ResizingStep
<1>4. x \in Requests /\ x.d = d /\ x.op = "resize" /\ x.live
  BY DEF Requests
<1> HIDE DEF s, x
<1>5. RequestFits(s, x)
  <2>1. ~NotCreated(s, d)
    BY <1>1, <1>3, NotCreatedHidden
  <2>2. NoRemoval(s, d)
    BY <1>1, <1>3 DEF NoRemoval, Core, RemoveLast
  <2>3. d \in ReservedIn(s)
    BY <1>1, <1>3 DEF ReservedIn, Core, Tables
  <2> QED BY <1>4, <2>1, <2>2, <2>3 DEF RequestFits
<1>6. /\ r \in ShellType /\ Core(r) /\ r.windows = s.windows /\ r.binding = s.binding
      /\ r.active = s.active /\ r.removal = s.removal
  BY <1>1, <1>3, <1>4, <1>5, SendRequestStep
<1> HIDE DEF r
<1>7. Settled(r)
  BY <1>3, <1>6 DEF Settled, SettledAt
<1> QED BY <1>2, <1>6, <1>7 DEF Kept

\* A free id takes a new binding: everything on its way belongs to other displays.
LEMMA BindStep ==
  ASSUME NEW s \in ShellType, TypeOK, Core(s), Settled(s), NEW d \in Displays, d \notin ReservedIn(s),
         NEW a \in Apps, s.appDisplay[a] = 0, s.agentConnected, channel = "alive",
         \A t \in timers : t.d # d
  PROVE  LET r == [s EXCEPT !.active = @ \cup {d}, !.binding[d] = a, !.appDisplay[a] = d,
                            !.pending = @ \cup {a}]
         IN /\ r \in ShellType /\ Core(r) /\ Settled(r)
            /\ d \in r.active /\ NoTrace(r, d) /\ Fresh(r, d, a) /\ d \notin r.windows
<1> DEFINE r == [s EXCEPT !.active = @ \cup {d}, !.binding[d] = a, !.appDisplay[a] = d,
                          !.pending = @ \cup {a}]
<1>1. /\ r \in ShellType /\ r.windows = s.windows /\ r.inFlight = s.inFlight
      /\ r.closing = s.closing /\ r.launchFailed = s.launchFailed /\ r.deferred = s.deferred
      /\ r.resizing = s.resizing /\ r.removal = s.removal /\ SameQueues(s, r)
      /\ r.active = s.active \cup {d} /\ r.pending = s.pending \cup {a}
      /\ r.binding[d] = a /\ \A e \in Displays : e # d => r.binding[e] = s.binding[e]
      /\ r.appDisplay[a] = d /\ \A b \in Apps : b # a => r.appDisplay[b] = s.appDisplay[b]
  BY DEF ShellType, SameQueues
<1> HIDE DEF r
<1>2. r.ctl = s.ctl /\ r.cmds = s.cmds /\ r.main = s.main /\ r.agentConnected = s.agentConnected
  BY <1>1 DEF SameQueues
<1>3. /\ s.binding[d] = NoApp /\ NoTrace(s, d)
      /\ a \notin s.pending /\ a \notin s.inFlight /\ a \notin s.closing
      /\ \A e \in Displays : s.binding[e] # a
      /\ d \notin s.removal /\ d \notin s.deferred /\ d \notin s.launchFailed
      /\ d \notin s.resizing
      /\ d \notin s.windows
  <2>1. s.binding[d] = NoApp
    BY DEF Core, Tables, ReservedIn
  <2>2. \A e \in Displays : s.binding[e] # a
    BY AppDisplaysAssumptions DEF Core, Tables, Displays
  <2> QED BY <2>1, <2>2, FreeIdHasNoTrace DEF Core, Tables, ReservedIn, Settled, SettledAt
<1>4. /\ \A e \in Displays, b \in Apps : Running(s, e, b) => Running(r, e, b)
      /\ \A e \in Displays, b \in Apps : Closing(s, e, b) => Closing(r, e, b)
      /\ \A e \in Displays, b \in Apps : e # d /\ Fresh(s, e, b) => Fresh(r, e, b)
  <2>1. \A e \in Displays, b \in Apps : s.binding[e] = b => e # d /\ b # a
    BY <1>3, AppDisplaysAssumptions
  <2>2. \A e : Unused(r, e) = Unused(s, e)
    BY <1>1, SameQueuesFacts
  <2>3. \A e \in Displays, b \in Apps : Running(s, e, b) => Running(r, e, b)
    BY <1>1, <2>1 DEF Running
  <2>4. \A e \in Displays, b \in Apps : Closing(s, e, b) => Closing(r, e, b)
    BY <1>1, <2>1 DEF Closing
  <2>5. \A e \in Displays, b \in Apps : e # d /\ Fresh(s, e, b) => Fresh(r, e, b)
    BY <1>1, <2>1, <2>2 DEF Fresh
  <2> QED BY <2>3, <2>4, <2>5
<1>5. ~Cold(s) /\ ~ColdQueue(s) /\ \A i : ~ColdBlock(s, i)
  BY DEF Cold, ColdQueue, ColdBlock
<1>6. Unused(s, d)
  <2>1. \A b \in Apps : ~Running(s, d, b) /\ ~Closing(s, d, b)
    BY <1>3, AppDisplaysAssumptions DEF Running, Closing
  <2>2. ~Occupied(s, d)
    BY <1>5, <2>1, Elements DEF Occupied, Core, LaunchesBound
  <2>3. ~LaunchPending(s, d)
    BY <1>5, <2>1, Elements DEF LaunchPending, Core, LaunchesBound
  <2>4. ~ClosePending(s, d)
    BY <1>5, <2>1, Elements DEF ClosePending, Core, ClosesBound
  <2> QED BY <2>2, <2>3, <2>4 DEF Unused
<1>7. Tables(r)
  <2>1. \A e \in Displays : s.binding[e] # NoApp => e # d /\ s.binding[e] \in Apps /\ s.binding[e] # a
    BY <1>3 DEF ShellType
  <2>2. d # 0 /\ a # NoApp
    BY AppDisplaysAssumptions DEF Displays
  <2>3. Tables(s)
    BY DEF Core
  <2>4. s.launchFailed \cup s.deferred \cup s.resizing \subseteq Displays
    BY DEF ShellType
  <2>5. \A e \in Displays : r.binding[e] # NoApp =>
          /\ r.appDisplay[r.binding[e]] = e
          /\ e \in r.active
          /\ e \in r.removal \cup r.deferred \cup r.launchFailed => r.binding[e] \notin r.pending
          /\ e \in r.deferred => r.binding[e] \in r.closing /\ r.binding[e] \notin r.inFlight
    BY <1>1, <1>3, <2>1, <2>3 DEF Tables
  <2>6. \A b \in Apps : r.appDisplay[b] # 0 => r.binding[r.appDisplay[b]] = b
    <3>1. \A b \in Apps : b # a /\ s.appDisplay[b] # 0 =>
             s.appDisplay[b] \in Displays /\ s.appDisplay[b] # d
      BY <1>3, <2>3, AppDisplaysAssumptions DEF Tables, ShellType
    <3> QED BY <1>1, <2>3, <3>1 DEF Tables
  <2>7. \A b \in r.pending \cup r.inFlight \cup r.closing : r.appDisplay[b] # 0
    <3>1. s.pending \cup s.inFlight \cup s.closing \subseteq Apps
      BY DEF ShellType
    <3> QED BY <1>1, <2>2, <2>3, <3>1 DEF Tables
  <2>8. \A e \in r.launchFailed \cup r.deferred \cup r.resizing : r.binding[e] # NoApp
    BY <1>1, <1>3, <2>3, <2>4 DEF Tables
  <2>9. r.pending \cap r.closing = {}
    BY <1>1, <1>3, <2>3 DEF Tables
  <2> QED BY <2>5, <2>6, <2>7, <2>8, <2>9 DEF Tables
<1>8. Owned(r) /\ RemoveLast(r) /\ AddAlone(r)
  <2>1. Owned(r)
    BY <1>1, <1>2 DEF Core, Owned, ReservedIn
  <2>2. RemoveLast(r)
    BY <1>1, <1>2 DEF Core, RemoveLast
  <2>3. AddAlone(r)
    BY <1>1, <1>2 DEF Core, AddAlone
  <2> QED BY <2>1, <2>2, <2>3
<1>9. AddsFresh(r)
  <2>1. \A i \in DOMAIN s.ctl : s.ctl[i].d # d
    BY <1>3 DEF NoTrace
  <2>2. \A i \in DOMAIN s.main : s.main[i].kind = "add" => s.main[i].d # d
    BY <1>3 DEF NoTrace, DisplayKinds
  <2>3. AddsFresh(s)
    BY DEF Core
  <2> QED BY <1>2, <1>4, <2>1, <2>2, <2>3, Elements DEF AddsFresh
<1>10. TimersFirst(r)
  <2>1. \A t \in timers : t.d \in Displays /\ t.app \in Apps
    BY DEF TypeOK
  <2>2. \A t \in timers : Wanted(r, t) => Wanted(s, t)
    BY <1>1, <1>3, <2>1 DEF Wanted
  <2>3. \A e : Unused(r, e) = Unused(s, e)
    BY <1>1, SameQueuesFacts
  <2> QED BY <1>1, <2>2, <2>3 DEF Core, TimersFirst
<1>11. LaunchesBound(r)
  <2>1. \A e : LaunchPending(r, e) = LaunchPending(s, e)
    BY <1>1, SameQueuesFacts
  <2> QED BY <1>1, <1>2, <1>4, <1>5, <2>1, Elements DEF Core, LaunchesBound
<1>12. LaunchOnce(r) /\ StopsHold(r) /\ ResetLast(r) /\ Processes(r)
  <2>1. \A e : Occupied(r, e) = Occupied(s, e)
    BY <1>1, SameQueuesFacts
  <2> QED BY <1>2, <2>1 DEF Core, LaunchOnce, StopsHold, ResetLast, Processes
<1>13. ClosesBound(r)
  BY <1>2, <1>4, <1>5, Elements DEF Core, ClosesBound
<1>14. Core(r)
  BY <1>7, <1>8, <1>9, <1>10, <1>11, <1>12, <1>13 DEF Core
<1>15. Settled(r)
  BY <1>1, <1>3, AppDisplaysAssumptions DEF Settled, SettledAt
<1>16. NoTrace(r, d)
  BY <1>2, <1>3 DEF NoTrace
<1>17. Fresh(r, d, a)
  <2>1. Unused(r, d)
    BY <1>1, <1>6, SameQueuesFacts
  <2> QED BY <1>1, <1>3, <2>1 DEF Fresh
<1> QED BY <1>1, <1>3, <1>14, <1>15, <1>16, <1>17 DEF r

LEMMA LaunchKeeps ==
  ASSUME QuickRelaunch = FALSE, TypeOK, Core(sh), Settled(sh), NEW a \in Apps, Launch(a)
  PROVE  Kept(sh')
<1>1. /\ sh \in ShellType /\ sh.appDisplay[a] = 0 /\ sh.agentConnected /\ channel = "alive"
      /\ launches < MaxLaunches /\ launches \in Nat
  BY DEF TypeOK, Launch
<1>2. PICK d \in FreeIds :
        /\ \A t \in timers : t.d # d
        /\ sh' = SendRequest([sh EXCEPT !.active = @ \cup {d}, !.binding[d] = a,
                                        !.appDisplay[a] = d, !.pending = @ \cup {a}],
                             "add", d, a, launches + 1)
  BY DEF Launch
<1> DEFINE s == [sh EXCEPT !.active = @ \cup {d}, !.binding[d] = a, !.appDisplay[a] = d,
                           !.pending = @ \cup {a}]
           x == [op |-> "add", d |-> d, app |-> a, n |-> launches + 1, live |-> TRUE]
           r == [s EXCEPT !.ctl = Append(@, x)]
<1>3. d \in Displays /\ d \notin ReservedIn(sh)
  BY DEF FreeIds, ReservedIn
<1>4. /\ s \in ShellType /\ Core(s) /\ Settled(s)
      /\ d \in s.active /\ NoTrace(s, d) /\ Fresh(s, d, a) /\ d \notin s.windows
  BY <1>1, <1>2, <1>3, BindStep
<1>5. x \in Requests /\ x.d = d /\ x.app = a /\ x.live /\ x.op = "add"
  <2>1. launches + 1 \in 1..MaxLaunches
    BY <1>1, AppDisplaysAssumptions
  <2> QED BY <1>3, <2>1 DEF Requests
<1>6. sh' = r
  BY <1>2 DEF SendRequest
<1> HIDE DEF s, x
<1>7. RequestFits(s, x)
  <2>1. ~NotCreated(s, d) /\ NoRemoval(s, d)
    BY <1>1, <1>4 DEF NoTrace, NotCreated, NoRemoval, DisplayKinds
  <2> QED BY <1>4, <1>5, <2>1 DEF RequestFits, ReservedIn
<1>8. /\ r \in ShellType /\ Core(r) /\ r.windows = s.windows /\ r.binding = s.binding
      /\ r.active = s.active /\ r.removal = s.removal
  BY <1>1, <1>4, <1>5, <1>7, SendRequestStep
<1> HIDE DEF r
<1>9. Settled(r)
  BY <1>4, <1>8 DEF Settled, SettledAt
<1> QED BY <1>6, <1>8, <1>9 DEF Kept

\* The user closes a window.  Its application is asked to stop unless it was not
\* launched yet, so that no task is left on a display that is removed.
LEMMA UserClosesKeeps ==
  ASSUME RetryOpen = FALSE, TypeOK, Core(sh), Settled(sh), NEW d \in Displays, UserCloses(d)
  PROVE  Kept(sh')
<1> DEFINE w == [sh EXCEPT !.windows = @ \ {d}]
           a == w.binding[d]
           c == [w EXCEPT !.pending = @ \ {a}, !.inFlight = @ \ {a},
                          !.launchFailed = @ \ {d}, !.closing = @ \cup {a}]
           u == [c EXCEPT !.closing = @ \ {a}]
           early == a \in w.pending /\ a \notin w.inFlight
<1>1. sh \in ShellType /\ d \in sh.windows /\ d \notin sh.deferred
  BY DEF TypeOK, UserCloses
<1>2. PICK busy \in BOOLEAN : sh' = CloseBoundApp(w, d, busy)
  BY DEF UserCloses
<1>3. /\ w \in ShellType /\ Core(w) /\ SameQueues(sh, w) /\ w.windows = sh.windows \ {d}
      /\ w.binding = sh.binding /\ w.appDisplay = sh.appDisplay /\ w.pending = sh.pending
      /\ w.inFlight = sh.inFlight /\ w.closing = sh.closing
      /\ w.deferred = sh.deferred /\ w.removal = sh.removal /\ w.active = sh.active
  BY <1>1, HideWindow
<1>4. sh.binding[d] # NoApp /\ d \notin sh.removal
  BY <1>1 DEF Settled, SettledAt
<1>5. CloseBoundApp(w, d, busy) =
         IF early THEN RequestRemove(c, d)
         ELSE IF agent = "none" THEN OpenWindow(u, d) ELSE GuestCommand(c, "close", d, a, busy)
  <2>1. a # NoApp
    BY <1>3, <1>4
  <2> QED BY <2>1 DEF CloseBoundApp, agentReady
<1> HIDE DEF w
<1>6. a # NoApp /\ d \notin w.windows /\ d \notin w.deferred /\ d \notin w.removal
  BY <1>1, <1>3, <1>4
<1>7. ~NotCreated(w, d) /\ ~ClosePending(w, d) /\ (~early => ~AddPending(w, d))
  <2>1. ~NotCreated(sh, d)
    BY <1>1, NotCreatedHidden
  <2>2. ~ClosePending(sh, d)
    BY <1>1, <1>4, BoundUse DEF Closing
  <2>3. AddPending(sh, d) => sh.binding[d] \in sh.pending /\ sh.binding[d] \notin sh.inFlight
    BY <1>1, <1>4, AddIsFresh DEF Fresh
  <2> QED BY <1>3, <2>1, <2>2, <2>3, SameQueuesFacts
<1>8. Settled(w) /\ SettledBut(w, d)
  BY <1>3, <1>6 DEF Settled, SettledAt, SettledBut
<1>9. /\ c \in ShellType /\ Core(c) /\ FlagsOf(w, c, d) /\ a \in Apps
      /\ c.pending = w.pending \ {a} /\ c.closing = w.closing \cup {a} /\ c.deferred = w.deferred
      /\ SettledBut(c, d)
  BY ZenonT(40), <1>3, <1>6, <1>8, BeginCloseStep
<1> HIDE DEF c
<1>10. /\ SameQueues(w, c) /\ c.windows = w.windows /\ c.binding = w.binding
       /\ c.removal = w.removal /\ c.active = w.active
  BY <1>9 DEF FlagsOf
<1>11. /\ ~NotCreated(c, d) /\ ~ClosePending(c, d) /\ (~early => ~AddPending(c, d))
       /\ Unused(c, d) = Unused(w, d)
  BY <1>7, <1>10, SameQueuesFacts
<1>12. Settled(c)
  BY <1>8, <1>10 DEF Settled, SettledAt
<1>13. c.binding[d] = a /\ a \notin c.pending /\ d \notin c.windows /\ d \notin c.deferred
       /\ a \in c.closing /\ d \notin c.removal
  BY <1>6, <1>9, <1>10
<1>14. CASE early
  <2>1. Unused(w, d)
    BY <1>3, <1>6, <1>7, <1>14, BoundUse DEF Unused, Running
  <2> HIDE DEF a
  <2>2. Idle(c, d) /\ c.binding[d] \notin c.pending
    BY <1>11, <1>13, <2>1 DEF Idle
  <2>3. Kept(RequestRemove(c, d))
    BY <1>9, <1>11, <1>13, <2>2, RemoveHidden
  <2> QED BY <1>2, <1>5, <1>14, <2>3
<1>15. CASE ~early /\ agent = "none"
  <2> HIDE DEF a
  <2>1. u \in ShellType /\ Core(u) /\ Settled(u) /\ FlagsOf(c, u, d)
    BY <1>6, <1>9, <1>11, <1>12, <1>13, <1>15, UncloseStep
  <2> HIDE DEF u
  <2>2. ~NotCreated(u, d)
    BY <1>11, <2>1, SameQueuesFacts DEF FlagsOf
  <2> QED BY <1>2, <1>5, <1>15, <2>1, <2>2, OpenWindowStep DEF Kept
<1>16. CASE ~early /\ agent # "none"
  <2> HIDE DEF a
  <2>1. Closing(c, d, a)
    BY <1>13 DEF Closing
  <2>2. \A t \in timers : t.d = d => ~Wanted(c, t)
    BY <1>13 DEF Wanted
  <2>3. Fits(c, [kind |-> "close", d |-> d, app |-> a, res |-> "failed"])
    BY <1>11, <1>16, <2>1, <2>2 DEF Fits, DisplayKinds
  <2>4. CommandFits(c, [op |-> "close", d |-> d, app |-> a, live |-> TRUE])
    BY <1>11, <1>16, <2>1, <2>2 DEF CommandFits
  <2>5. Kept(GuestCommand(c, "close", d, a, busy))
    BY <1>9, <1>12, <1>16, <2>3, <2>4, GuestCommandStep
  <2> QED BY <1>2, <1>5, <1>16, <2>5
<1> QED BY <1>14, <1>15, <1>16

-----------------------------------------------------------------------------
(* The other processes.  The lemmas above follow the delegate while the rest *)
(* of the state stands still; a part of the invariant carries over to a step *)
(* that leaves alone the variables which the part reads.                     *)

LEMMA CoreFrame ==
  /\ Tables(sh') => Tables(sh)'
  /\ Owned(sh') /\ UNCHANGED <<exists, qemu, channel>> => Owned(sh)'
  /\ RemoveLast(sh') /\ UNCHANGED exists => RemoveLast(sh)'
  /\ AddAlone(sh') /\ UNCHANGED exists => AddAlone(sh)'
  /\ AddsFresh(sh') /\ UNCHANGED <<timers, task>> => AddsFresh(sh)'
  /\ TimersFirst(sh') /\ UNCHANGED <<timers, task>> => TimersFirst(sh)'
  /\ LaunchesBound(sh') /\ UNCHANGED <<task, agent>> => LaunchesBound(sh)'
  /\ LaunchOnce(sh') /\ UNCHANGED task => LaunchOnce(sh)'
  /\ ClosesBound(sh') /\ UNCHANGED agent => ClosesBound(sh)'
  /\ StopsHold(sh') /\ UNCHANGED task => StopsHold(sh)'
  /\ ResetLast(sh') /\ UNCHANGED monitor => ResetLast(sh)'
  /\ Processes(sh') /\ UNCHANGED backend => Processes(sh)'
<1>1. Tables(sh') => Tables(sh)'
  BY DEF Tables
<1>2. Owned(sh') /\ UNCHANGED <<exists, qemu, channel>> => Owned(sh)'
  BY DEF Owned, ReservedIn
<1>3. RemoveLast(sh') /\ UNCHANGED exists => RemoveLast(sh)'
  BY DEF RemoveLast
<1>4. AddAlone(sh') /\ UNCHANGED exists => AddAlone(sh)'
  BY DEF AddAlone
<1>5. AddsFresh(sh') /\ UNCHANGED <<timers, task>> => AddsFresh(sh)'
  BY DEF AddsFresh, Fresh, Unused, Occupied, LaunchPending, ClosePending
<1>6. TimersFirst(sh') /\ UNCHANGED <<timers, task>> => TimersFirst(sh)'
  BY DEF TimersFirst, Wanted, Unused, Occupied, LaunchPending, ClosePending
<1>7. LaunchesBound(sh') /\ UNCHANGED <<task, agent>> => LaunchesBound(sh)'
  BY DEF LaunchesBound, Running, ColdQueue, ColdBlock, Cold, LaunchPending
<1>8. LaunchOnce(sh') /\ UNCHANGED task => LaunchOnce(sh)'
  BY DEF LaunchOnce, Occupied
<1>9. ClosesBound(sh') /\ UNCHANGED agent => ClosesBound(sh)'
  BY DEF ClosesBound, Closing, ColdQueue, ColdBlock, Cold
<1>10. StopsHold(sh') /\ UNCHANGED task => StopsHold(sh)'
  BY DEF StopsHold, Occupied
<1>11. ResetLast(sh') /\ UNCHANGED monitor => ResetLast(sh)'
  BY DEF ResetLast
<1>12. Processes(sh') /\ UNCHANGED backend => Processes(sh)'
  BY DEF Processes, backend
<1> QED BY <1>1, <1>2, <1>3, <1>4, <1>5, <1>6, <1>7, <1>8, <1>9, <1>10, <1>11, <1>12

LEMMA SettledFrame ==
  ASSUME Settled(sh')
  PROVE  Settled(sh)'
BY DEF Settled, SettledAt

\* The delegate moves alone.
LEMMA DelegateAlone ==
  ASSUME Kept(sh'), UNCHANGED <<timers, backend>>
  PROVE  Core(sh)' /\ Settled(sh)'
<1>1. Core(sh') /\ Settled(sh')
  BY DEF Kept
<1>2. UNCHANGED timers /\ UNCHANGED <<exists, task, qemu, pidKnown, channel, monitor, agent>>
  BY DEF backend
<1>3. Core(sh)'
  BY <1>1, <1>2, CoreFrame DEF Core
<1> QED BY <1>1, <1>3, SettledFrame

\* New 0.2 s blocks and tasks leave the displays `P` of unanswered launches alone.
LEMMA AddsFreshAfter ==
  ASSUME AddsFresh(sh'), NEW P,
         \A i \in DOMAIN sh'.ctl : sh'.ctl[i].op = "add" /\ sh'.ctl[i].live => sh'.ctl[i].d \in P,
         \A i \in DOMAIN sh'.main : sh'.main[i].kind = "add" => sh'.main[i].d \in P,
         \A t \in timers' : t \in timers \/ t.d \notin P,
         \A a \in Apps : task'[a] = task[a] \/ task'[a] \notin P
  PROVE  AddsFresh(sh)'
<1>1. PICK v : v = sh'
  OBVIOUS
<1>2. /\ AddsFresh(v)
      /\ \A i \in DOMAIN v.ctl : v.ctl[i].op = "add" /\ v.ctl[i].live => v.ctl[i].d \in P
      /\ \A i \in DOMAIN v.main : v.main[i].kind = "add" => v.main[i].d \in P
  BY <1>1
<1>3. ASSUME NEW e \in P, NEW a, Fresh(v, e, a)
      PROVE  Fresh(v, e, a)'
  <2>1. ~Occupied(v, e)'
    BY <1>3 DEF Fresh, Unused, Occupied
  <2>2. ~LaunchPending(v, e)' /\ ~ClosePending(v, e)'
    BY <1>3 DEF Fresh, Unused, LaunchPending, ClosePending
  <2>3. Unused(v, e)'
    BY <2>1, <2>2 DEF Unused
  <2> QED BY <1>3, <2>3 DEF Fresh
<1>4. AddsFresh(v)'
  BY <1>2, <1>3 DEF AddsFresh
<1> QED BY <1>1, <1>4

\* A display's launch is answered: its 0.2 s block is the only one.
LEMMA AddDoneSafe ==
  ASSUME TypeOK, Core(sh), Settled(sh), AddDone
  PROVE  Kept(sh') /\ Core(sh)' /\ Settled(sh)'
<1> DEFINE b == Head(sh.main)
           t == [d |-> b.d, app |-> b.app, n |-> b.n]
<1>1. Kept(sh') /\ UNCHANGED backend
  BY AddDoneKeeps DEF AddDone
<1>2. CASE UNCHANGED timers
  BY <1>1, <1>2, DelegateAlone
<1>3. CASE timers' = timers \cup {t} /\ Fresh(sh', b.d, b.app) /\ ~AddPending(sh', b.d)
  <2>1. Core(sh') /\ Settled(sh') /\ UNCHANGED <<exists, task, qemu, pidKnown, channel, monitor, agent>>
    BY <1>1 DEF Kept, backend
  <2>2. t.d = b.d /\ t.app = b.app
    OBVIOUS
  <2> HIDE DEF b, t
  <2>3. AddsFresh(sh)'
    <3>1. AddsFresh(sh')
      BY <2>1 DEF Core
    <3>2. /\ \A i \in DOMAIN sh'.ctl : sh'.ctl[i].op = "add" /\ sh'.ctl[i].live => sh'.ctl[i].d # t.d
          /\ \A i \in DOMAIN sh'.main : sh'.main[i].kind = "add" => sh'.main[i].d # t.d
      BY <1>3, <2>2 DEF AddPending
    <3> DEFINE P == {e \in Displays : e # t.d}
    <3>3. sh' \in ShellType
      BY <1>1 DEF Kept
    <3>4. /\ \A i \in DOMAIN sh'.ctl : sh'.ctl[i].op = "add" /\ sh'.ctl[i].live => sh'.ctl[i].d \in P
          /\ \A i \in DOMAIN sh'.main : sh'.main[i].kind = "add" => sh'.main[i].d \in P
      BY <3>2, <3>3, Elements
    <3>5. /\ \A u \in timers' : u \in timers \/ u.d \notin P
          /\ \A a \in Apps : task'[a] = task[a] \/ task'[a] \notin P
      BY <1>3, <2>1
    <3> HIDE DEF P
    <3> QED BY <3>1, <3>4, <3>5, AddsFreshAfter
  <2>4. TimersFirst(sh)'
    <3>1. TimersFirst(sh')
      BY <2>1 DEF Core
    <3>2. Wanted(sh', t) => t.app \notin sh'.inFlight /\ Unused(sh', t.d)
      BY <1>3, <2>2 DEF Fresh, Wanted
    <3>3. \A u \in timers : u.d # t.d
      BY <1>3, <2>2 DEF Fresh
    <3> QED BY <1>3, <2>1, <3>1, <3>2, <3>3
            DEF TimersFirst, Wanted, Unused, Occupied, LaunchPending, ClosePending
  <2>5. Core(sh)'
    BY <1>1, <2>1, <2>3, <2>4, CoreFrame DEF Core
  <2> QED BY <1>1, <2>1, <2>5, SettledFrame
<1> QED BY <1>2, <1>3, AddDoneKeeps

LEMMA FewerTimers ==
  ASSUME Kept(sh'), UNCHANGED backend, timers' \subseteq timers
  PROVE  Core(sh)' /\ Settled(sh)'
<1>1. Core(sh') /\ Settled(sh') /\ UNCHANGED <<exists, task, qemu, pidKnown, channel, monitor, agent>>
  BY DEF Kept, backend
<1>2. AddsFresh(sh)'
  BY <1>1 DEF Core, AddsFresh, Fresh, Unused, Occupied, LaunchPending, ClosePending
<1>3. TimersFirst(sh)'
  BY <1>1 DEF Core, TimersFirst, Wanted, Unused, Occupied, LaunchPending, ClosePending
<1>4. Core(sh)'
  BY <1>1, <1>2, <1>3, CoreFrame DEF Core
<1> QED BY <1>1, <1>4, SettledFrame

\* A wanted launch is the first use of its display.
LEMMA FirstLaunch ==
  ASSUME TypeOK, Core(sh), NEW t \in timers, StillWanted(t)
  PROVE  /\ t.d \in Displays /\ t.app \in Apps /\ t.app # NoApp
         /\ sh.binding[t.d] = t.app /\ t.app \in sh.pending /\ t.app \notin sh.closing
         /\ t.app \notin sh.inFlight /\ Unused(sh, t.d) /\ ~AddPending(sh, t.d)
         /\ t.d \notin sh.removal /\ t.d \notin sh.deferred /\ t.d \notin sh.launchFailed
         /\ \A u \in timers : u.d = t.d => u = t
<1>1. t.d \in Displays /\ t.app \in Apps /\ sh \in ShellType
  BY DEF TypeOK
<1>2. sh.binding[t.d] = t.app /\ t.app \in sh.pending /\ t.app \notin sh.closing
  BY DEF StillWanted
<1>3. t.app # NoApp
  BY <1>1, AppDisplaysAssumptions
<1>4. t.app \notin sh.inFlight /\ Unused(sh, t.d) /\ \A u \in timers : u.d = t.d => u = t
  BY <1>2 DEF Core, TimersFirst, Wanted
<1>5. ~AddPending(sh, t.d)
  BY <1>1, AddIsFresh DEF Fresh
<1>6. t.d \notin sh.removal /\ t.d \notin sh.deferred /\ t.d \notin sh.launchFailed
  BY <1>1, <1>2, <1>3 DEF Core, Tables
<1> QED BY <1>1, <1>2, <1>3, <1>4, <1>5, <1>6

\* The delegate with one application more that is pending.
Opening(s, r, a) ==
    /\ r.windows = s.windows /\ r.binding = s.binding /\ r.appDisplay = s.appDisplay
    /\ r.pending = s.pending \cup {a} /\ r.inFlight = s.inFlight /\ r.closing = s.closing
    /\ r.launchFailed = s.launchFailed /\ r.deferred = s.deferred
    /\ r.resizing = s.resizing /\ r.removal = s.removal /\ r.active = s.active
    /\ r.agentConnected = s.agentConnected
    /\ r.ctl = s.ctl /\ r.cmds = s.cmds /\ r.main = s.main

\* An application whose launch is in flight may be pending once its block is gone.
LEMMA BlockGone ==
  ASSUME TypeOK, NEW s1 \in ShellType, Core(s1), Settled(s1), NEW t \in timers,
         timers' = timers \ {t}, UNCHANGED backend, Opening(s1, sh', t.app),
         s1.binding[t.d] = t.app, t.app \in s1.inFlight, t.app \notin s1.closing,
         t.d \notin s1.removal \cup s1.deferred \cup s1.launchFailed
  PROVE  Core(sh)' /\ Settled(sh)'
<1> DEFINE d == t.d
           a == t.app
<1>1. /\ d \in Displays /\ a \in Apps /\ a # NoApp /\ s1.binding[d] = a /\ a \in s1.inFlight
      /\ a \notin s1.closing /\ d \notin s1.removal /\ d \notin s1.deferred
      /\ d \notin s1.launchFailed
  BY AppDisplaysAssumptions DEF TypeOK
<1> DEFINE r == sh'
<1>5. /\ r.windows = s1.windows /\ r.binding = s1.binding /\ r.appDisplay = s1.appDisplay
      /\ r.pending = s1.pending \cup {a} /\ r.inFlight = s1.inFlight /\ r.closing = s1.closing
      /\ r.launchFailed = s1.launchFailed /\ r.deferred = s1.deferred
      /\ r.resizing = s1.resizing /\ r.removal = s1.removal /\ r.active = s1.active
      /\ r.agentConnected = s1.agentConnected
      /\ r.ctl = s1.ctl /\ r.cmds = s1.cmds /\ r.main = s1.main
  BY DEF Opening
<1>6. \A u \in timers' : u \in timers /\ u.d # d /\ u.d \in Displays
  BY DEF Core, TimersFirst, TypeOK
<1> HIDE DEF d, a, r
<1>10. Tables(r)
  <2>1. Tables(s1) /\ s1.appDisplay[a] # 0
    BY <1>1, <1>1 DEF Core, Tables, Displays
  <2>2. \A e \in Displays : s1.binding[e] = a => e = d
    BY <1>1, <2>1 DEF Tables
  <2>3. \A e \in Displays : r.binding[e] # NoApp =>
          /\ r.appDisplay[r.binding[e]] = e
          /\ e \in r.active
          /\ e \in r.removal \cup r.deferred \cup r.launchFailed => r.binding[e] \notin r.pending
          /\ e \in r.deferred => r.binding[e] \in r.closing /\ r.binding[e] \notin r.inFlight
    BY <1>1, <1>5, <2>1, <2>2 DEF Tables
  <2>4. r.pending \cap r.closing = {}
    BY <1>1, <1>5, <2>1 DEF Tables
  <2> QED BY <1>5, <2>1, <2>3, <2>4 DEF Tables
<1>11. Owned(r) /\ RemoveLast(r) /\ AddAlone(r)
  BY <1>5, <1>1 DEF Core, Owned, RemoveLast, AddAlone, ReservedIn
<1>12. \A e : /\ Unused(r, e) = Unused(s1, e) /\ Occupied(r, e) = Occupied(s1, e)
              /\ LaunchPending(r, e) = LaunchPending(s1, e)
  BY <1>5 DEF Unused, Occupied, LaunchPending, ClosePending
<1>13. AddsFresh(r)
  <2>1. \A e, b : Fresh(s1, e, b) => Fresh(r, e, b)
    BY <1>5, <1>12 DEF Fresh
  <2> QED BY <1>5, <2>1 DEF Core, AddsFresh
<1>14. LaunchesBound(r)
  <2>1. \A e, b : Running(s1, e, b) => Running(r, e, b)
    BY <1>1, <1>5 DEF Running
  <2>2. Cold(r) = Cold(s1)
    BY <1>5 DEF Cold
  <2> QED BY <1>5, <1>12, <2>1, <2>2 DEF Core, LaunchesBound, ColdQueue, ColdBlock
<1>15. LaunchOnce(r) /\ StopsHold(r) /\ ResetLast(r) /\ Processes(r)
  BY <1>5, <1>12 DEF Core, LaunchOnce, StopsHold, ResetLast, Processes
<1>16. ClosesBound(r)
  <2>1. \A e, b : Closing(r, e, b) = Closing(s1, e, b)
    BY <1>5 DEF Closing
  <2>2. Cold(r) = Cold(s1)
    BY <1>5 DEF Cold
  <2> QED BY <1>5, <2>1, <2>2 DEF Core, ClosesBound, ColdQueue, ColdBlock
<1>17. UNCHANGED <<exists, task, qemu, pidKnown, channel, monitor, agent>>
  BY DEF backend
<1>18. AddsFresh(sh)'
  <2>1. AddsFresh(sh')
    BY <1>13 DEF r
  <2>2. timers' \subseteq timers
    OBVIOUS
  <2> QED BY <1>17, <2>1, <2>2
          DEF AddsFresh, Fresh, Unused, Occupied, LaunchPending, ClosePending
<1>19. TimersFirst(sh)'
  <2>2. \A e \in Displays : s1.binding[e] = a => e = d
    BY <1>1 DEF Core, Tables
  <2>3. \A u \in timers' : Wanted(r, u) => Wanted(s1, u)
    BY <1>5, <1>6, <2>2 DEF Wanted
  <2>4. \A u \in timers' : Wanted(sh', u) => u.app \notin sh'.inFlight /\ Unused(sh', u.d)
    <3>1. \A u \in timers' : Wanted(r, u) => u.app \notin r.inFlight /\ Unused(r, u.d)
      BY <1>5, <1>6, <1>12, <2>3 DEF Core, TimersFirst
    <3> QED BY <3>1 DEF r
  <2>5. \A u, v \in timers' : u.d = v.d => u = v
    BY <1>6 DEF Core, TimersFirst
  <2> QED BY <1>17, <2>4, <2>5
          DEF TimersFirst, Wanted, Unused, Occupied, LaunchPending, ClosePending
<1>20. /\ Tables(sh') /\ Owned(sh') /\ RemoveLast(sh') /\ AddAlone(sh') /\ LaunchesBound(sh')
       /\ LaunchOnce(sh') /\ StopsHold(sh') /\ ResetLast(sh') /\ Processes(sh') /\ ClosesBound(sh')
  BY <1>10, <1>11, <1>14, <1>15, <1>16 DEF r
<1>21. Core(sh)'
  BY <1>17, <1>18, <1>19, <1>20, CoreFrame DEF Core
<1>22. Settled(r)
  BY <1>5 DEF Settled, SettledAt
<1> QED BY <1>21, <1>22, SettledFrame DEF r

\* The launch goes out: the flag of the flight and the command appear together,
\* and the block that sent it is gone.
LEMMA TimerSendsLaunch ==
  ASSUME TypeOK, Core(sh), Settled(sh), NEW t \in timers, StillWanted(t), agent # "none",
         NEW busy \in BOOLEAN, timers' = timers \ {t}, UNCHANGED backend,
         sh' = GuestCommand([sh EXCEPT !.inFlight = @ \cup {t.app}], "launch", t.d, t.app, busy)
  PROVE  sh' \in ShellType /\ Core(sh)' /\ Settled(sh)'
<1> DEFINE d == t.d
           a == t.app
           s0 == [sh EXCEPT !.pending = @ \ {a}, !.inFlight = @ \cup {a}]
           s1 == GuestCommand(s0, "launch", d, a, busy)
<1>1. /\ d \in Displays /\ a \in Apps /\ a # NoApp
      /\ sh.binding[d] = a /\ a \in sh.pending /\ a \notin sh.closing
      /\ a \notin sh.inFlight /\ Unused(sh, d) /\ ~AddPending(sh, d)
      /\ d \notin sh.removal /\ d \notin sh.deferred /\ d \notin sh.launchFailed
      /\ \A u \in timers : u.d = d => u = t
  BY FirstLaunch
<1>2. sh \in ShellType
  BY DEF TypeOK
<1> HIDE DEF d, a
<1>3. /\ s0 \in ShellType /\ SameQueues(sh, s0) /\ s0.windows = sh.windows /\ s0.binding = sh.binding
      /\ s0.appDisplay = sh.appDisplay /\ s0.pending = sh.pending \ {a}
      /\ s0.inFlight = sh.inFlight \cup {a} /\ s0.closing = sh.closing
      /\ s0.launchFailed = sh.launchFailed /\ s0.deferred = sh.deferred
      /\ s0.resizing = sh.resizing /\ s0.removal = sh.removal /\ s0.active = sh.active
  BY <1>1, <1>2 DEF ShellType, SameQueues
<1>4. sh' \in ShellType
  <2> DEFINE x == [kind |-> "launch", d |-> d, app |-> a, res |-> "failed"]
             c == [op |-> "launch", d |-> d, app |-> a, live |-> TRUE]
             s == [sh EXCEPT !.inFlight = @ \cup {a}]
  <2>1. x \in Blocks /\ c \in Commands
    BY <1>1 DEF Blocks, Commands
  <2>2. s \in ShellType
    BY <1>1, <1>2 DEF ShellType
  <2>3. sh' = IF busy THEN [s EXCEPT !.main = Append(s.main, x)]
              ELSE [s EXCEPT !.cmds = Append(s.cmds, c)]
    BY DEF GuestCommand, Post, a, d
  <2> HIDE DEF x, c, s
  <2>4. Append(s.main, x) \in Seq(Blocks) /\ Append(s.cmds, c) \in Seq(Commands)
    BY <2>1, <2>2 DEF ShellType
  <2> QED BY ZenonT(40), <2>2, <2>3, <2>4 DEF ShellType
<1>5. /\ sh'.windows = s1.windows /\ sh'.binding = s1.binding /\ sh'.appDisplay = s1.appDisplay
      /\ sh'.pending = s1.pending \cup {a} /\ sh'.inFlight = s1.inFlight /\ sh'.closing = s1.closing
      /\ sh'.launchFailed = s1.launchFailed /\ sh'.deferred = s1.deferred
      /\ sh'.resizing = s1.resizing /\ sh'.removal = s1.removal /\ sh'.active = s1.active
      /\ sh'.agentConnected = s1.agentConnected
      /\ sh'.ctl = s1.ctl /\ sh'.cmds = s1.cmds /\ sh'.main = s1.main
  <2>1. CASE busy
    BY <1>1, <1>2, <2>1 DEF GuestCommand, Post, ShellType, a, d
  <2>2. CASE ~busy
    BY <1>1, <1>2, <2>2 DEF GuestCommand, ShellType, a, d
  <2> QED BY <2>1, <2>2
<1> HIDE DEF s0
<1>6. Core(s0) /\ Settled(s0)
  <2>1. FlagsOf(sh, s0, d)
    BY <1>1, <1>3 DEF FlagsOf
  <2>2. \A u \in timers : u.d = d => ~Wanted(s0, u)
    BY <1>1, <1>3 DEF Wanted
  <2>3. ~Occupied(sh, d) /\ ~LaunchPending(sh, d) /\ ~ClosePending(sh, d)
    BY <1>1 DEF Unused
  <2>4. a \notin s0.pending /\ d \notin s0.deferred
    BY <1>1, <1>3
  <2> QED BY <1>1, <1>2, <1>3, <2>1, <2>2, <2>3, <2>4, FlagStep
<1>7. Kept(s1) /\ SameTables(s0, s1)
  <2>1. Unused(s0, d) /\ ~AddPending(s0, d)
    BY <1>1, <1>3, SameQueuesFacts
  <2>2. ~LaunchPending(s0, d) /\ ~Occupied(s0, d) /\ ~ClosePending(s0, d)
    BY <2>1 DEF Unused
  <2>3. Running(s0, d, a) /\ d \notin s0.deferred
    BY <1>1, <1>3 DEF Running
  <2>4. \A u \in timers : u.d = d => ~Wanted(s0, u)
    BY <1>1, <1>3 DEF Wanted
  <2>5. \A i \in DOMAIN s0.main : s0.main[i].kind = "close" => s0.main[i].d # d
    BY <2>2 DEF ClosePending
  <2>6. Fits(s0, [kind |-> "launch", d |-> d, app |-> a, res |-> "failed"])
    BY <2>1, <2>2, <2>3, <2>4, <2>5 DEF Fits, DisplayKinds
  <2>7. CommandFits(s0, [op |-> "launch", d |-> d, app |-> a, live |-> TRUE])
    BY <2>1, <2>2, <2>3, <2>4 DEF CommandFits
  <2> QED BY <1>1, <1>3, <1>6, <2>6, <2>7, GuestCommandStep
<1>8. /\ s1.binding[d] = a /\ a \in s1.inFlight /\ a \notin s1.closing
      /\ d \notin s1.removal \cup s1.deferred \cup s1.launchFailed
  BY <1>1, <1>3, <1>7 DEF SameTables
<1>9. Opening(s1, sh', a)
  BY <1>5 DEF Opening
<1> HIDE DEF s1
<1>10. Core(s1) /\ Settled(s1) /\ s1 \in ShellType
  BY <1>7 DEF Kept
<1>11. Core(sh)' /\ Settled(sh)'
  BY <1>8, <1>9, <1>10, BlockGone DEF a, d
<1> QED BY <1>4, <1>11

LEMMA TimerFiresSafe ==
  ASSUME TypeOK, Core(sh), Settled(sh), NEW t \in timers, TimerFires(t)
  PROVE  sh' \in ShellType /\ Core(sh)' /\ Settled(sh)'
<1> DEFINE d == t.d
           a == t.app
           s == [sh EXCEPT !.inFlight = @ \cup {a}]
           c == [sh EXCEPT !.pending = @ \ {a}, !.inFlight = @ \ {a},
                           !.closing = @ \cup {a}, !.deferred = @ \cup {d}]
<1>1. timers' = timers \ {t} /\ UNCHANGED backend /\ sh \in ShellType
  BY DEF TimerFires, TypeOK
<1>2. CASE ~StillWanted(t) /\ sh' = sh
  <2>1. Kept(sh')
    BY <1>1, <1>2 DEF Kept
  <2> QED BY <1>1, <2>1, FewerTimers DEF Kept
<1>3. CASE StillWanted(t) /\ agent # "none"
  <2>1. PICK busy \in BOOLEAN : sh' = GuestCommand(s, "launch", d, a, busy)
    BY <1>3 DEF TimerFires, agentReady
  <2> QED BY <1>1, <1>3, <2>1, TimerSendsLaunch
<1>4. CASE StillWanted(t) /\ agent = "none"
  <2>1. /\ d \in Displays /\ a \in Apps /\ a # NoApp
        /\ sh.binding[d] = a /\ Unused(sh, d) /\ ~AddPending(sh, d)
    BY <1>4, FirstLaunch
  <2>2. sh' = CleanupFailedLaunch(s, d, a, FALSE)
    BY <1>4 DEF TimerFires, agentReady
  <2> HIDE DEF d, a
  <2>3. CleanupFailedLaunch(s, d, a, FALSE) =
           [s EXCEPT !.pending = @ \ {a}, !.inFlight = @ \ {a},
                     !.closing = @ \cup {a}, !.deferred = @ \cup {d}]
    BY <1>1, <1>4, <2>1 DEF CleanupFailedLaunch, agentReady, ShellType
  <2>4. [s EXCEPT !.pending = @ \ {a}, !.inFlight = @ \ {a},
                  !.closing = @ \cup {a}, !.deferred = @ \cup {d}] = c
    <3>1. (sh.inFlight \cup {a}) \ {a} = sh.inFlight \ {a}
      OBVIOUS
    <3> QED BY <1>1, <3>1 DEF ShellType
  <2>5. Kept(c)
    <3>1. ~LaunchPending(sh, d) /\ ~ClosePending(sh, d)
      BY <2>1 DEF Unused
    <3> QED BY <1>1, <2>1, <3>1, CleanupFlagsStep DEF Kept
  <2>6. Kept(sh')
    BY <2>2, <2>3, <2>4, <2>5
  <2> QED BY <1>1, <2>6, FewerTimers DEF Kept
<1> QED BY <1>2, <1>3, <1>4 DEF TimerFires, agentReady

\* A block that a process posts after it has moved: PostOne holds in every state,
\* so also in the next one.
PostLaw == \A s \in ShellType, x \in Blocks : Core(s) /\ Fits(s, x) => Core(Post(s, x))
LEMMA PostAlways == PostLaw
BY PostOne DEF PostLaw

LEMMA PostNext == PostLaw'
BY PostAlways, PTL

LEMMA PostAfter ==
  ASSUME NEW s \in ShellType, NEW x \in Blocks, Core(s)', Fits(s, x)', sh' = Post(s, x)
  PROVE  Core(sh)'
<1>1. Core(Post(s, x))'
  BY PostNext DEF PostLaw
<1>2. PICK r : r = Post(s, x) /\ Core(r)'
  BY <1>1
<1>3. r = sh'
  BY <1>2
<1> QED BY <1>2, <1>3

\* The reset: what is left in the queues belongs to the old agent.
LEMMA ResetStep ==
  ASSUME TypeOK, Core(sh), Settled(sh), NextBlock("reset")
  PROVE  LET r == Reset(Popped)
         IN /\ r \in ShellType /\ Core(r) /\ Settled(r) /\ monitor = "resetting"
            /\ \A i \in DOMAIN r.main : r.main[i].kind \notin DisplayKinds \cup {"reset"}
<1> DEFINE p == Popped
           r == Reset(p)
<1>1. sh.main # <<>> /\ sh \in ShellType /\ Head(sh.main).kind = "reset"
  BY DEF NextBlock, TypeOK
<1>2. /\ p \in ShellType /\ Core(p) /\ p.ctl = sh.ctl /\ p.cmds = sh.cmds
      /\ 1 \in DOMAIN sh.main /\ Head(sh.main) = sh.main[1]
      /\ \A i \in DOMAIN p.main : i + 1 \in DOMAIN sh.main /\ p.main[i] = sh.main[i + 1] /\ i + 1 > 1
  BY <1>1, PopStep DEF Popped
<1> HIDE DEF p
<1>3. /\ r \in ShellType /\ r.windows = {} /\ r.pending = {} /\ r.inFlight = {} /\ r.closing = {}
      /\ r.launchFailed = {} /\ r.deferred = {} /\ r.resizing = {} /\ r.removal = {}
      /\ r.active = {} /\ r.agentConnected = FALSE
      /\ r.ctl = p.ctl /\ r.cmds = p.cmds /\ r.main = p.main
      /\ \A d \in Displays : r.binding[d] = NoApp
      /\ \A a \in Apps : r.appDisplay[a] = 0
  BY <1>2 DEF Reset, NoShell, ShellType
<1> HIDE DEF r
<1>4. /\ monitor = "resetting"
      /\ \A i \in DOMAIN p.main : p.main[i].kind \notin DisplayKinds \cup {"reset", "connected"}
  BY <1>1, <1>2 DEF Core, ResetLast
<1>5. /\ channel = "dead" /\ qemu = "down" /\ p.ctl = <<>> /\ exists = {} /\ agent # "live"
      /\ (\A a \in Apps : task[a] = Stopped) /\ (agent = "none" => p.cmds = <<>>)
  BY <1>2, <1>4 DEF Core, Processes
<1>6. /\ \A i \in DOMAIN r.main : r.main[i].kind \notin DisplayKinds \cup {"reset", "connected"}
      /\ r.ctl = <<>> /\ (agent = "none" => r.cmds = <<>>)
  BY <1>3, <1>4, <1>5
<1>7. DOMAIN r.ctl = {} /\ (agent = "none" => DOMAIN r.cmds = {})
  BY <1>6
<1>8. Tables(r)
  BY <1>3, AppDisplaysAssumptions DEF Tables
<1>9. Owned(r) /\ RemoveLast(r) /\ AddAlone(r) /\ AddsFresh(r)
  BY <1>5, <1>6, <1>7 DEF Owned, RemoveLast, AddAlone, AddsFresh, DisplayKinds
<1>10. TimersFirst(r)
  BY <1>2, <1>3 DEF Core, TimersFirst, Wanted
<1>11. Cold(r) /\ (agent = "stale" => ColdQueue(r)) /\ \A i : ColdBlock(r, i)
  BY <1>3, <1>6 DEF Cold, ColdQueue, ColdBlock
<1>12. DOMAIN r.cmds # {} => agent = "stale"
  BY <1>5, <1>7 DEF TypeOK
<1>13. LaunchesBound(r)
  <2>1. \A a \in Apps : task[a] \notin Displays
    BY <1>5, AppDisplaysAssumptions DEF Stopped, Displays
  <2> QED BY <1>3, <1>11, <1>12, <2>1 DEF LaunchesBound
<1>14. LaunchOnce(r) /\ StopsHold(r)
  <2>1. \A d : Occupied(r, d) = Occupied(p, d)
    BY <1>3 DEF Occupied
  <2> QED BY <1>2, <1>3, <2>1 DEF Core, LaunchOnce, StopsHold
<1>15. ClosesBound(r)
  BY <1>2, <1>3, <1>11, <1>12 DEF Core, ClosesBound
<1>16. ResetLast(r) /\ Processes(r)
  BY <1>2, <1>3, <1>4, <1>6 DEF Core, ResetLast, Processes
<1>17. Core(r)
  BY <1>8, <1>9, <1>10, <1>13, <1>14, <1>15, <1>16 DEF Core
<1>18. Settled(r)
  BY <1>3 DEF Settled, SettledAt
<1> QED BY <1>3, <1>4, <1>6, <1>17, <1>18 DEF r, p

LEMMA ResetAfterExitSafe ==
  ASSUME TypeOK, Core(sh), Settled(sh), ResetAfterExit
  PROVE  sh' \in ShellType /\ Core(sh)' /\ Settled(sh)'
<1>1. /\ sh' \in ShellType /\ Core(sh') /\ Settled(sh') /\ monitor = "resetting"
      /\ \A i \in DOMAIN sh'.main : sh'.main[i].kind \notin DisplayKinds \cup {"reset"}
  <2>1. NextBlock("reset") /\ sh' = Reset(Popped)
    BY DEF ResetAfterExit
  <2> QED BY <2>1, ResetStep
<1>2. monitor' = "restarting" /\ UNCHANGED <<timers, exists, task, qemu, pidKnown, channel, agent>>
  BY DEF ResetAfterExit
<1>3. ResetLast(sh)'
  BY <1>1, <1>2 DEF ResetLast
<1>4. Processes(sh)'
  BY <1>1, <1>2 DEF Core, Processes
<1>5. Core(sh)'
  BY <1>1, <1>2, <1>3, <1>4, CoreFrame DEF Core
<1> QED BY <1>1, <1>5, SettledFrame

LEMMA MonitorReapsSafe ==
  ASSUME TypeOK, Core(sh), Settled(sh), MonitorReaps
  PROVE  sh' \in ShellType /\ Core(sh)' /\ Settled(sh)'
<1>1. /\ sh' = sh /\ qemu = "down" /\ pidKnown' = FALSE
      /\ UNCHANGED <<timers, exists, task, qemu, channel, monitor, agent>>
  BY DEF MonitorReaps
<1>2. sh' \in ShellType /\ Core(sh') /\ Settled(sh')
  BY <1>1 DEF TypeOK
<1>3. Processes(sh)'
  BY <1>1, <1>2 DEF Core, Processes
<1>4. Core(sh)'
  BY <1>1, <1>2, <1>3, CoreFrame DEF Core
<1> QED BY <1>2, <1>4, SettledFrame

\* The next qemu starts with empty queues.
LEMMA MonitorRestartsSafe ==
  ASSUME TypeOK, Core(sh), Settled(sh), MonitorRestarts
  PROVE  sh' \in ShellType /\ Core(sh)' /\ Settled(sh)'
<1>1. /\ sh' = sh /\ monitor = "restarting" /\ monitor' = "waiting" /\ channel' = "alive"
      /\ pidKnown' = TRUE /\ qemu' = "up" /\ UNCHANGED <<timers, exists, task, agent>>
  BY DEF MonitorRestarts
<1>2. sh' \in ShellType /\ Core(sh') /\ Settled(sh')
  BY <1>1 DEF TypeOK
<1>3. /\ exists = {} /\ sh'.ctl = <<>>
      /\ \A i \in DOMAIN sh'.main : sh'.main[i].kind \notin DisplayKinds \cup {"reset"}
  BY <1>1, <1>2 DEF Core, Processes, ResetLast
<1>4. Owned(sh)'
  BY <1>1, <1>3 DEF Owned
<1>5. ResetLast(sh)' /\ Processes(sh)'
  BY <1>1, <1>2, <1>3 DEF Core, ResetLast, Processes
<1>6. Core(sh)'
  BY <1>1, <1>2, <1>4, <1>5, CoreFrame DEF Core
<1> QED BY <1>2, <1>6, SettledFrame

LEMMA AgentConnectsSafe ==
  ASSUME TypeOK, Core(sh), Settled(sh), AgentConnects
  PROVE  sh' \in ShellType /\ Core(sh)' /\ Settled(sh)'
<1> DEFINE x == [kind |-> "connected"]
<1>1. /\ sh \in ShellType /\ agent = "none" /\ qemu = "up" /\ agent' = "live" /\ sh' = Post(sh, x)
      /\ UNCHANGED <<timers, exists, task, qemu, pidKnown, channel, monitor>>
  BY DEF AgentConnects, TypeOK
<1>2. \A i \in DOMAIN sh.main : sh.main[i].kind # "reset"
  BY <1>1 DEF Core, ResetLast, Processes
<1>3. x \in Blocks /\ Fits(sh, x)
  BY <1>1, <1>2 DEF Blocks, Fits, DisplayKinds
<1> HIDE DEF x
<1>4. sh' \in ShellType /\ Core(sh') /\ Settled(sh')
  BY <1>1, <1>3, PostOne
<1>5. LaunchesBound(sh)'
  BY <1>1, <1>4 DEF Core, LaunchesBound, Running, ColdQueue, ColdBlock, Cold, LaunchPending
<1>6. ClosesBound(sh)'
  BY <1>1, <1>4 DEF Core, ClosesBound, Closing, ColdQueue, ColdBlock, Cold
<1>7. Processes(sh)'
  BY <1>1, <1>4 DEF Core, Processes
<1>8. Core(sh)'
  BY <1>1, <1>4, <1>5, <1>6, <1>7, CoreFrame DEF Core
<1> QED BY <1>4, <1>8, SettledFrame

\* qemu dies: its displays and the tasks in Android are gone.
LEMMA QemuExitsSafe ==
  ASSUME TypeOK, Core(sh), Settled(sh), QemuExits
  PROVE  sh' \in ShellType /\ Core(sh)' /\ Settled(sh)'
<1>1. /\ sh \in ShellType /\ qemu = "up" /\ qemu' = "down" /\ exists' = {}
      /\ task' = [a \in Apps |-> Stopped]
      /\ agent' = (IF agent = "live" THEN "stale" ELSE agent)
      /\ sh' = (IF agent = "none" THEN [sh EXCEPT !.cmds = <<>>] ELSE sh)
      /\ UNCHANGED <<timers, pidKnown, channel, monitor>>
  BY DEF QemuExits, TypeOK
<1>2. /\ sh' \in ShellType /\ Core(sh') /\ Settled(sh')
      /\ agent = "none" => sh'.cmds = <<>>
  <2>1. CASE agent # "none"
    BY <1>1, <2>1
  <2>2. CASE agent = "none"
    <3> DEFINE x == <<>>
               r == [sh EXCEPT !.cmds = x]
    <3>1. x \in Seq(Commands) /\ DOMAIN x = {}
      OBVIOUS
    <3> HIDE DEF x
    <3>5. OldCommands(sh, x, <<>>)
      BY <3>1 DEF OldCommands
    <3>2. r \in ShellType /\ Core(r) /\ SameTables(sh, r) /\ r.cmds = x
      BY <1>1, <3>1, <3>5, FewerCommands
    <3>3. sh' = r
      BY <1>1, <2>2 DEF x
    <3> HIDE DEF r
    <3>4. Settled(r)
      BY <3>2, SameTablesFacts
    <3> QED BY <3>2, <3>3, <3>4 DEF x
  <2> QED BY <2>1, <2>2
<1>3. /\ \A i \in DOMAIN sh'.ctl : sh'.ctl[i].d \in Displays
      /\ \A i \in DOMAIN sh'.cmds : sh'.cmds[i].d \in Displays /\ sh'.cmds[i].app \in Apps
      /\ \A i \in DOMAIN sh'.main :
            sh'.main[i].kind \in {"add", "launch", "close", "cleanup"} =>
               sh'.main[i].d \in Displays /\ sh'.main[i].app \in Apps
  BY <1>2, Elements
<1>4. /\ Stopped \notin Displays
      /\ \A a \in Apps : task'[a] = Stopped
      /\ \A t \in timers : t.d \in Displays
  BY <1>1, AppDisplaysAssumptions DEF Stopped, Displays, TypeOK
<1>5. monitor = "waiting"
  BY <1>1 DEF Core, Processes, TypeOK
<1>6. Owned(sh)'
  BY <1>1, <1>2 DEF Core, Owned, ReservedIn
<1>7. RemoveLast(sh)' /\ AddAlone(sh)'
  BY <1>1, <1>2 DEF Core, RemoveLast, AddAlone
<1>8. AddsFresh(sh)'
  <2>1. AddsFresh(sh')
    BY <1>2 DEF Core
  <2>2. /\ \A t \in timers' : t \in timers \/ t.d \notin Displays
        /\ \A a \in Apps : task'[a] = task[a] \/ task'[a] \notin Displays
    BY <1>1, <1>4
  <2> QED BY <1>3, <2>1, <2>2, AddsFreshAfter
<1>9. TimersFirst(sh)'
  BY <1>1, <1>2, <1>4 DEF Core, TimersFirst, Wanted, Unused, Occupied, LaunchPending, ClosePending
<1>10. LaunchesBound(sh)'
  BY <1>1, <1>2, <1>4 DEF Core, LaunchesBound, Running, ColdQueue, ColdBlock, Cold, LaunchPending
<1>11. LaunchOnce(sh)'
  BY <1>1, <1>2, <1>3, <1>4 DEF Core, LaunchOnce, Occupied
<1>12. ClosesBound(sh)'
  BY <1>1, <1>2 DEF Core, ClosesBound, Closing, ColdQueue, ColdBlock, Cold
<1>13. StopsHold(sh)'
  BY <1>1, <1>2, <1>3, <1>4 DEF Core, StopsHold, Occupied
<1>14. Processes(sh)'
  BY <1>1, <1>2, <1>4, <1>5 DEF Core, Processes
<1>15. Core(sh)'
  BY <1>1, <1>2, <1>6, <1>7, <1>8, <1>9, <1>10, <1>11, <1>12, <1>13, <1>14, CoreFrame DEF Core
<1> QED BY <1>2, <1>15, SettledFrame

-----------------------------------------------------------------------------
(* qemu executes a request. *)

\* What the receiver's answer and event do to the main queue.
LEMMA ReplyCases ==
  ASSUME NEW s \in ShellType, NEW r \in Requests, NEW x \in Blocks, NEW y \in Blocks
  PROVE  /\ Reply(s, r, <<x>>, <<y>>) =
               IF channel = "dead" THEN s
               ELSE IF r.live THEN Post(Post(s, x), y) ELSE Post(s, y)
         /\ Reply(s, r, <<x>>, <<>>) =
               IF channel = "dead" THEN s ELSE IF r.live THEN Post(s, x) ELSE s
         /\ Reply(s, r, <<>>, <<y>>) = IF channel = "dead" THEN s ELSE Post(s, y)
<1> DEFINE m == s.main
<1>1. m \in Seq(Blocks)
  BY DEF ShellType
<1>2. /\ Append(m, x) = m \o <<x>> /\ Append(m, y) = m \o <<y>> /\ Append(m, x) \in Seq(Blocks)
      /\ m \o <<>> = m
  <2>1. \A q \in Seq(Blocks), z \in Blocks : Append(q, z) = q \o <<z>>
    BY OneMore
  <2>2. Append(m, x) \in Seq(Blocks) /\ m \o <<>> = m
    BY <1>1
  <2> HIDE DEF m
  <2> QED BY <1>1, <2>1, <2>2
<1>3. Append(Append(m, x), y) = Append(m, x) \o <<y>>
  BY <1>2, OneMore
<1>4. m \o <<x>> \o <<>> = m \o <<x>> /\ m \o <<>> \o <<>> = m /\ m \o <<>> \o <<y>> = m \o <<y>>
  <2>1. m \o <<x>> \o <<>> = m \o <<x>>
    <3>1. \A z \in Seq(Blocks) : z \o <<>> = z
      OBVIOUS
    <3> QED BY <1>2, <3>1
  <2> QED BY <1>2, <2>1
<1>5. /\ Post(s, x) = [s EXCEPT !.main = m \o <<x>>] /\ Post(s, y) = [s EXCEPT !.main = m \o <<y>>]
      /\ Post(Post(s, x), y) = [s EXCEPT !.main = m \o <<x>> \o <<y>>]
      /\ [s EXCEPT !.main = m] = s
  <2>1. [s EXCEPT !.main = m] = s
    BY DEF ShellType
  <2>2. Post(s, x) = [s EXCEPT !.main = Append(m, x)] /\ Post(s, y) = [s EXCEPT !.main = Append(m, y)]
    BY DEF Post
  <2>3. Post(Post(s, x), y) = [s EXCEPT !.main = Append(Append(m, x), y)]
    BY DEF Post, ShellType
  <2> HIDE DEF m
  <2> QED BY <1>2, <1>3, <2>1, <2>2, <2>3
<1>6. \A p, q : /\ channel = "dead" => Reply(s, r, p, q) = s
                /\ channel # "dead" /\ r.live =>
                      Reply(s, r, p, q) = [s EXCEPT !.main = m \o p \o q]
                /\ channel # "dead" /\ ~r.live =>
                      Reply(s, r, p, q) = [s EXCEPT !.main = m \o <<>> \o q]
  BY DEF Reply
<1> HIDE DEF m
<1>7. Reply(s, r, <<x>>, <<y>>) =
         IF channel = "dead" THEN s ELSE IF r.live THEN Post(Post(s, x), y) ELSE Post(s, y)
  BY <1>4, <1>5, <1>6
<1>8. Reply(s, r, <<x>>, <<>>) =
         IF channel = "dead" THEN s ELSE IF r.live THEN Post(s, x) ELSE s
  <2>1. CASE channel = "dead"
    BY <1>6, <2>1
  <2>2. CASE channel # "dead" /\ r.live
    <3>1. Reply(s, r, <<x>>, <<>>) = [s EXCEPT !.main = m \o <<x>> \o <<>>]
      BY <2>2 DEF Reply, m
    <3> QED BY <1>4, <1>5, <2>2, <3>1
  <2>3. CASE channel # "dead" /\ ~r.live
    BY <1>4, <1>5, <1>6, <2>3
  <2> QED BY <2>1, <2>2, <2>3
<1>9. Reply(s, r, <<>>, <<y>>) = IF channel = "dead" THEN s ELSE Post(s, y)
  <2>1. CASE channel = "dead"
    BY <1>6, <2>1
  <2>2. CASE channel # "dead" /\ r.live
    <3>1. Reply(s, r, <<>>, <<y>>) = [s EXCEPT !.main = m \o <<>> \o <<y>>]
      BY <2>2 DEF Reply, m
    <3> QED BY <1>4, <1>5, <2>2, <3>1
  <2>3. CASE channel # "dead" /\ ~r.live
    BY <1>4, <1>5, <1>6, <2>3
  <2> QED BY <2>1, <2>2, <2>3
<1> QED BY <1>7, <1>8, <1>9

\* The entries of a queue with one block more.
LEMMA PostedBlocks ==
  ASSUME NEW s \in ShellType, NEW x \in Blocks
  PROVE  \A i \in DOMAIN Post(s, x).main : Post(s, x).main[i] = x \/
            (i \in DOMAIN s.main /\ Post(s, x).main[i] = s.main[i])
<1>1. s.main \in Seq(Blocks) /\ Post(s, x).main = Append(s.main, x)
  BY DEF ShellType, Post
<1> QED BY <1>1, AppendFacts

\* The first request: its display is reserved and, once the request is executed,
\* no other request or event says that qemu has not created it.
LEMMA RequestTaken ==
  ASSUME TypeOK, Core(sh), Settled(sh), qemu = "up", sh.ctl # <<>>
  PROVE  LET c == Head(sh.ctl)
             s == [sh EXCEPT !.ctl = Tail(@)]
         IN /\ s \in ShellType /\ Core(s) /\ Settled(s) /\ SameTables(sh, s)
            /\ s.cmds = sh.cmds /\ s.main = sh.main
            /\ c \in Requests /\ c.d \in Displays /\ c.d \in ReservedIn(s)
            /\ 1 \in DOMAIN sh.ctl /\ c = sh.ctl[1]
            /\ monitor = "waiting" /\ \A i \in DOMAIN s.main : s.main[i].kind # "reset"
            /\ ~NotCreated(s, c.d)
            /\ \A i \in DOMAIN s.main : s.main[i].kind = "removed" => s.main[i].d # c.d
            /\ c.op = "add" /\ c.live =>
                  /\ c.d \notin exists /\ c.d \notin s.windows /\ Fresh(s, c.d, c.app)
                  /\ \A j \in DOMAIN s.ctl : s.ctl[j].d # c.d
                  /\ \A j \in DOMAIN s.main : s.main[j].kind \in DisplayKinds => s.main[j].d # c.d
            /\ c.op = "remove" => /\ c.d \in s.removal
                                  /\ \A j \in DOMAIN s.ctl : s.ctl[j].d # c.d
<1> DEFINE c == Head(sh.ctl)
           x == Tail(sh.ctl)
           s == [sh EXCEPT !.ctl = x]
           f == [i \in DOMAIN x |-> i + 1]
<1>1. sh \in ShellType /\ sh.ctl \in Seq(Requests)
  BY DEF TypeOK, ShellType
<1>2. /\ x \in Seq(Requests) /\ c \in Requests /\ c = sh.ctl[1] /\ 1 \in DOMAIN sh.ctl
      /\ \A i \in DOMAIN x : i + 1 \in DOMAIN sh.ctl /\ x[i] = sh.ctl[i + 1] /\ i \in Nat /\ i > 0
  BY <1>1, TailFacts
<1> HIDE DEF x, c
<1>3. /\ \A i \in DOMAIN x : f[i] = i + 1 /\ f[i] > 1
      /\ \A i, j \in DOMAIN x : (i > j => f[i] > f[j]) /\ (i # j => f[i] # f[j])
  BY <1>2
<1>4. \A i \in DOMAIN x : f[i] \in DOMAIN sh.ctl /\ x[i] = sh.ctl[f[i]] /\ f[i] # 1 /\ f[i] > 1
  BY <1>2, <1>3
<1> HIDE DEF f
<1>15. OldRequests(sh, x, f)
  BY <1>3, <1>4 DEF OldRequests
<1>5. /\ s \in ShellType /\ Core(s) /\ SameTables(sh, s) /\ s.ctl = x /\ s.cmds = sh.cmds
      /\ s.main = sh.main
  BY <1>1, <1>2, <1>15, FewerRequests
<1>6. s = [sh EXCEPT !.ctl = Tail(@)]
  BY DEF x
<1> HIDE DEF s
<1>7. Settled(s) /\ ReservedIn(s) = ReservedIn(sh)
  BY <1>5, SameTablesFacts
<1>8. c.d \in Displays
  BY <1>1, <1>2, Elements
<1>9. c.d \in ReservedIn(s)
  BY <1>2, <1>7 DEF Core, Owned
<1>10. monitor = "waiting" /\ \A i \in DOMAIN s.main : s.main[i].kind # "reset"
  BY <1>5 DEF Core, Processes, ResetLast, TypeOK
<1>11. ~NotCreated(s, c.d)
  <2>1. \A i \in DOMAIN s.ctl : s.ctl[i].op = "add" /\ s.ctl[i].live => s.ctl[i].d # c.d
    BY <1>2, <1>4, <1>5 DEF Core, AddAlone
  <2>2. \A i \in DOMAIN s.main :
           s.main[i].kind = "add" /\ s.main[i].res = "error" => s.main[i].d # c.d
    BY <1>2, <1>5 DEF Core, AddAlone
  <2> QED BY <2>1, <2>2 DEF NotCreated
<1>12. \A i \in DOMAIN s.main : s.main[i].kind = "removed" => s.main[i].d # c.d
  BY <1>2, <1>5 DEF Core, RemoveLast
<1>13. c.op = "add" /\ c.live =>
         /\ c.d \notin exists /\ c.d \notin s.windows /\ Fresh(s, c.d, c.app)
         /\ \A j \in DOMAIN s.ctl : s.ctl[j].d # c.d
         /\ \A j \in DOMAIN s.main : s.main[j].kind \in DisplayKinds => s.main[j].d # c.d
  <2>1. c.op = "add" /\ c.live => Fresh(sh, c.d, c.app)
    BY <1>2 DEF Core, AddsFresh
  <2>2. Fresh(sh, c.d, c.app) => Fresh(s, c.d, c.app)
    BY <1>5 DEF SameTables, Fresh, Unused, Occupied, LaunchPending, ClosePending
  <2>3. c.op = "add" /\ c.live =>
          /\ c.d \notin exists /\ c.d \notin sh.windows
          /\ \A j \in DOMAIN sh.ctl : j # 1 => sh.ctl[j].d # c.d
          /\ \A j \in DOMAIN sh.main : sh.main[j].kind \in DisplayKinds => sh.main[j].d # c.d
    BY <1>2 DEF Core, AddAlone
  <2>4. s.windows = sh.windows
    BY <1>5 DEF SameTables
  <2> QED BY <1>4, <1>5, <2>1, <2>2, <2>3, <2>4
<1>14. c.op = "remove" => c.d \in s.removal /\ \A j \in DOMAIN s.ctl : s.ctl[j].d # c.d
  BY <1>2, <1>4, <1>5 DEF Core, RemoveLast, SameTables
<1> QED BY <1>2, <1>5, <1>6, <1>7, <1>8, <1>9, <1>10, <1>11, <1>12, <1>13, <1>14 DEF c

\* The answer of the first request fits, whether qemu has created the display or not.
LEMMA AnswerFits ==
  ASSUME TypeOK, Core(sh), Settled(sh), qemu = "up", sh.ctl # <<>>,
         Head(sh.ctl).op \in {"add", "resize"}, NEW res \in {"ok", "error"}
  PROVE  LET c == Head(sh.ctl)
             s == [sh EXCEPT !.ctl = Tail(@)]
         IN /\ AddAnswer(c, res) \in Blocks
            /\ c.live => Fits(s, AddAnswer(c, res))
<1> DEFINE c == Head(sh.ctl)
           s == [sh EXCEPT !.ctl = Tail(@)]
<1>1. /\ c \in Requests /\ c.d \in ReservedIn(s) /\ monitor = "waiting"
      /\ \A i \in DOMAIN s.main : s.main[i].kind # "reset"
      /\ ~NotCreated(s, c.d)
      /\ \A i \in DOMAIN s.main : s.main[i].kind = "removed" => s.main[i].d # c.d
      /\ c.op = "add" /\ c.live =>
            /\ c.d \notin exists /\ c.d \notin s.windows /\ Fresh(s, c.d, c.app)
            /\ \A j \in DOMAIN s.ctl : s.ctl[j].d # c.d
            /\ \A j \in DOMAIN s.main : s.main[j].kind \in DisplayKinds => s.main[j].d # c.d
  BY RequestTaken
<1>2. c.op \in {"add", "resize"}
  OBVIOUS
<1> HIDE DEF c, s
<1>3. CASE c.op = "add"
  <2>1. AddAnswer(c, res) = [kind |-> "add", d |-> c.d, app |-> c.app, n |-> c.n, res |-> res]
    BY <1>3 DEF AddAnswer
  <2>2. AddAnswer(c, res) \in Blocks
    BY <1>1, <1>3, <2>1 DEF Requests, Blocks
  <2>3. c.live => Fits(s, AddAnswer(c, res))
    BY <1>1, <1>3, <2>1 DEF Fits, DisplayKinds
  <2> QED BY <2>1, <2>2, <2>3 DEF c, s
<1>4. CASE c.op = "resize"
  <2>1. AddAnswer(c, res) = [kind |-> "resize", d |-> c.d]
    BY <1>4 DEF AddAnswer
  <2>2. AddAnswer(c, res) \in Blocks
    BY <1>1, <1>4, <2>1 DEF Requests, Blocks
  <2>3. Fits(s, AddAnswer(c, res))
    BY <2>1 DEF Fits, DisplayKinds
  <2> QED BY <2>1, <2>2, <2>3 DEF c, s
<1> QED BY <1>2, <1>3, <1>4

\* Answers to a request, and the event that may follow one.
LEMMA RequestAnswered ==
  ASSUME TypeOK, Core(sh), Settled(sh), qemu = "up", sh.ctl # <<>>,
         Head(sh.ctl).op \in {"add", "resize"}
  PROVE  LET c == Head(sh.ctl)
             s == [sh EXCEPT !.ctl = Tail(@)]
             y == [kind |-> "added", d |-> c.d]
             r == Reply(s, c, <<AddAnswer(c, "ok")>>, <<y>>)
         IN /\ Kept(Reply(s, c, <<AddAnswer(c, "error")>>, <<>>))
            /\ Kept(r) /\ c.d \in Displays /\ c.d \in ReservedIn(r) /\ ~NotCreated(r, c.d)
            /\ \A i \in DOMAIN r.main : r.main[i].kind = "removed" => r.main[i].d # c.d
<1> DEFINE c == Head(sh.ctl)
           s == [sh EXCEPT !.ctl = Tail(@)]
           y == [kind |-> "added", d |-> c.d]
           x == AddAnswer(c, "ok")
           e == AddAnswer(c, "error")
           u == Post(s, x)
           d == c.d
<1>1. /\ s \in ShellType /\ Core(s) /\ Settled(s) /\ c \in Requests /\ d \in Displays
      /\ d \in ReservedIn(s) /\ monitor = "waiting"
      /\ \A i \in DOMAIN s.main : s.main[i].kind # "reset"
      /\ ~NotCreated(s, d)
      /\ \A i \in DOMAIN s.main : s.main[i].kind = "removed" => s.main[i].d # d
  BY RequestTaken
<1>2. /\ x \in Blocks /\ (c.live => Fits(s, x)) /\ x.kind # "removed" /\ x.kind # "reset"
      /\ ~(x.kind = "add" /\ x.res = "error")
  <2>1. x \in Blocks /\ (c.live => Fits(s, x))
    BY AnswerFits
  <2>2. x.kind # "removed" /\ x.kind # "reset" /\ ~(x.kind = "add" /\ x.res = "error")
    BY DEF AddAnswer
  <2> QED BY <2>1, <2>2
<1>3. e \in Blocks /\ (c.live => Fits(s, e))
  BY AnswerFits
<1>4. y \in Blocks /\ y.kind = "added" /\ y.d = d
  BY <1>1 DEF Blocks
<1> HIDE DEF c, s, x, e, y, d
<1>5. \A v \in ShellType :
        /\ d \in ReservedIn(v) /\ ~NotCreated(v, d)
        /\ \A i \in DOMAIN v.main : v.main[i].kind # "reset"
        /\ \A i \in DOMAIN v.main : v.main[i].kind = "removed" => v.main[i].d # d
        => Fits(v, y)
  BY <1>1, <1>4 DEF Fits, DisplayKinds
<1>6. /\ Kept(s) /\ Fits(s, y)
      /\ c.live => Kept(u) /\ Kept(Post(s, e))
  <2>1. c.live => u \in ShellType /\ Core(u) /\ Settled(u)
    BY <1>1, <1>2, PostOne
  <2>2. c.live => Kept(Post(s, e))
    <3> DEFINE v == Post(s, e)
    <3>1. c.live => v \in ShellType /\ Core(v) /\ Settled(v)
      BY <1>1, <1>3, PostOne
    <3> HIDE DEF v
    <3>2. c.live => Kept(v)
      BY <3>1 DEF Kept
    <3> QED BY <3>2 DEF v
  <2> QED BY <1>1, <1>5, <2>1, <2>2 DEF Kept
<1>7. c.live => /\ d \in ReservedIn(u) /\ ~NotCreated(u, d)
                /\ \A i \in DOMAIN u.main : u.main[i].kind # "reset"
                /\ \A i \in DOMAIN u.main : u.main[i].kind = "removed" => u.main[i].d # d
  <2>1. c.live => SameTables(s, u) /\ u.ctl = s.ctl
    BY <1>1, <1>2, PostOne
  <2>2. \A i \in DOMAIN u.main : u.main[i] = x \/ (i \in DOMAIN s.main /\ u.main[i] = s.main[i])
    BY <1>1, <1>2, PostedBlocks
  <2> HIDE DEF u
  <2>3. c.live => d \in ReservedIn(u)
    BY <1>1, <2>1, SameTablesFacts
  <2>4. c.live => ~NotCreated(u, d)
    BY <1>1, <1>2, <2>1, <2>2 DEF NotCreated
  <2> QED BY <1>1, <1>2, <2>2, <2>3, <2>4
<1> HIDE DEF u
<1>8. \A v \in ShellType : Core(v) /\ Settled(v) /\ d \in ReservedIn(v) /\ ~NotCreated(v, d)
        /\ Fits(v, y) /\ (\A i \in DOMAIN v.main : v.main[i].kind = "removed" => v.main[i].d # d)
        => /\ Kept(Post(v, y)) /\ d \in ReservedIn(Post(v, y)) /\ ~NotCreated(Post(v, y), d)
           /\ \A i \in DOMAIN Post(v, y).main :
                 Post(v, y).main[i].kind = "removed" => Post(v, y).main[i].d # d
  <2> SUFFICES ASSUME NEW v \in ShellType, Core(v), Settled(v), d \in ReservedIn(v),
                      ~NotCreated(v, d), Fits(v, y),
                      \A i \in DOMAIN v.main : v.main[i].kind = "removed" => v.main[i].d # d
               PROVE  /\ Kept(Post(v, y)) /\ d \in ReservedIn(Post(v, y))
                      /\ ~NotCreated(Post(v, y), d)
                      /\ \A i \in DOMAIN Post(v, y).main :
                            Post(v, y).main[i].kind = "removed" => Post(v, y).main[i].d # d
    OBVIOUS
  <2> DEFINE w == Post(v, y)
  <2>1. w \in ShellType /\ Core(w) /\ Settled(w) /\ SameTables(v, w) /\ w.ctl = v.ctl
    BY <1>4, PostOne
  <2>2. \A i \in DOMAIN w.main : w.main[i] = y \/ (i \in DOMAIN v.main /\ w.main[i] = v.main[i])
    BY <1>4, PostedBlocks
  <2> HIDE DEF w
  <2>3. Kept(w) /\ d \in ReservedIn(w)
    BY <2>1, SameTablesFacts DEF Kept
  <2>4. ~NotCreated(w, d)
    BY <1>4, <2>1, <2>2 DEF NotCreated
  <2>5. \A i \in DOMAIN w.main : w.main[i].kind = "removed" => w.main[i].d # d
    BY <1>4, <2>2
  <2> QED BY <2>3, <2>4, <2>5 DEF w
<1>9. Kept(Reply(s, c, <<e>>, <<>>))
  BY <1>1, <1>3, <1>4, <1>6, ReplyCases
<1> DEFINE r == Reply(s, c, <<x>>, <<y>>)
<1>10. r = IF channel = "dead" THEN s ELSE IF c.live THEN Post(u, y) ELSE Post(s, y)
  BY <1>1, <1>2, <1>4, ReplyCases DEF u
<1> HIDE DEF r
<1>11. /\ Kept(r) /\ d \in ReservedIn(r) /\ ~NotCreated(r, d)
       /\ \A i \in DOMAIN r.main : r.main[i].kind = "removed" => r.main[i].d # d
  <2>1. CASE channel = "dead"
    BY <1>1, <1>6, <1>10, <2>1
  <2>2. CASE channel # "dead" /\ ~c.live
    BY <1>1, <1>6, <1>8, <1>10, <2>2
  <2>3. CASE channel # "dead" /\ c.live
    <3>1. u \in ShellType /\ Core(u) /\ Settled(u)
      BY <1>6, <2>3 DEF Kept
    <3>2. Fits(u, y)
      BY <1>5, <1>7, <2>3, <3>1
    <3> QED BY <1>7, <1>8, <1>10, <2>3, <3>1, <3>2
  <2> QED BY <2>1, <2>2, <2>3
<1> QED BY <1>1, <1>9, <1>11 DEF r, c, s, x, e, y, d

\* qemu has created the display.
LEMMA QemuAddSafe ==
  ASSUME "halfApplied" \notin AddOutcomes, TypeOK, Core(sh), Settled(sh), QemuAdd
  PROVE  sh' \in ShellType /\ Core(sh)' /\ Settled(sh)'
<1> DEFINE c == Head(sh.ctl)
           s == [sh EXCEPT !.ctl = Tail(@)]
           y == [kind |-> "added", d |-> c.d]
           d == c.d
<1>1. /\ qemu = "up" /\ sh.ctl # <<>> /\ Head(sh.ctl).op \in {"add", "resize"}
      /\ UNCHANGED <<timers, task, qemu, pidKnown, channel, monitor, agent>>
  BY DEF QemuAdd
<1>2. CASE exists' = exists /\ sh' = Reply(s, c, <<AddAnswer(c, "error")>>, <<>>)
  <2>1. Kept(sh')
    BY <1>1, <1>2, RequestAnswered
  <2>2. UNCHANGED <<timers, backend>>
    BY <1>1, <1>2 DEF backend
  <2> QED BY <2>1, <2>2, DelegateAlone DEF Kept
<1>3. CASE exists' = exists \cup {d} /\ sh' = Reply(s, c, <<AddAnswer(c, "ok")>>, <<y>>)
  <2>1. /\ Kept(sh') /\ d \in ReservedIn(sh') /\ ~NotCreated(sh', d)
        /\ \A i \in DOMAIN sh'.main : sh'.main[i].kind = "removed" => sh'.main[i].d # d
    BY <1>1, <1>3, RequestAnswered
  <2> HIDE DEF d
  <2>2. exists' = exists \cup {d}
    BY <1>3
  <2>3. sh' \in ShellType /\ Core(sh') /\ Settled(sh')
    BY <2>1 DEF Kept
  <2>4. Owned(sh)'
    BY <1>1, <2>1, <2>2, <2>3 DEF Core, Owned, ReservedIn
  <2>5. RemoveLast(sh)'
    BY <2>1, <2>2, <2>3 DEF Core, RemoveLast
  <2>6. AddAlone(sh)'
    BY <2>1, <2>2, <2>3 DEF Core, AddAlone, NotCreated
  <2>7. Processes(sh)'
    BY <1>1, <2>3 DEF Core, Processes
  <2>8. Core(sh)'
    BY <1>1, <2>3, <2>4, <2>5, <2>6, <2>7, CoreFrame DEF Core
  <2> QED BY <2>3, <2>8, SettledFrame
<1> QED BY <1>2, <1>3 DEF QemuAdd

\* Displays that go and tasks that stop leave the invariant of the delegate alone.
LEMMA LessRunsParts ==
  ASSUME NEW v \in ShellType, TypeOK, Core(v), exists' \subseteq exists,
         \A a \in Apps : task'[a] = task[a] \/ task'[a] = Stopped, UNCHANGED <<timers, agent>>
  PROVE  /\ Tables(v)' /\ RemoveLast(v)' /\ AddAlone(v)' /\ AddsFresh(v)' /\ TimersFirst(v)'
         /\ LaunchesBound(v)' /\ LaunchOnce(v)' /\ ClosesBound(v)' /\ StopsHold(v)'
<1>1. /\ \A i \in DOMAIN v.ctl : v.ctl[i].d \in Displays
      /\ \A i \in DOMAIN v.cmds : v.cmds[i].d \in Displays /\ v.cmds[i].app \in Apps
      /\ \A i \in DOMAIN v.main :
            v.main[i].kind \in {"add", "launch", "close", "cleanup"} =>
               v.main[i].d \in Displays /\ v.main[i].app \in Apps
  BY Elements
<1>2. Stopped \notin Displays /\ \A t \in timers : t.d \in Displays
  BY AppDisplaysAssumptions DEF Stopped, Displays, TypeOK
<1>3. Tables(v)'
  BY DEF Core, Tables
<1>5. RemoveLast(v)' /\ AddAlone(v)'
  BY DEF Core, RemoveLast, AddAlone
<1>6. AddsFresh(v)'
  BY <1>1, <1>2 DEF Core, AddsFresh, Fresh, Unused, Occupied, LaunchPending, ClosePending
<1>7. TimersFirst(v)'
  BY <1>2 DEF Core, TimersFirst, Wanted, Unused, Occupied, LaunchPending, ClosePending
<1>8. LaunchesBound(v)'
  <2>1. \A a \in Apps : task'[a] \in Displays => task'[a] = task[a]
    BY <1>2
  <2> QED BY <2>1 DEF Core, LaunchesBound, Running, ColdQueue, ColdBlock, Cold, LaunchPending
<1>9. LaunchOnce(v)'
  BY <1>1, <1>2 DEF Core, LaunchOnce, Occupied
<1>10. ClosesBound(v)'
  BY DEF Core, ClosesBound, Closing, ColdQueue, ColdBlock, Cold
<1>11. StopsHold(v)'
  BY <1>1, <1>2 DEF Core, StopsHold, Occupied
<1> QED BY <1>3, <1>5, <1>6, <1>7, <1>8, <1>9, <1>10, <1>11

LEMMA LessRuns ==
  ASSUME NEW v \in ShellType, TypeOK, Core(v), exists' \subseteq exists,
         \A a \in Apps : task'[a] = task[a] \/ task'[a] = Stopped,
         UNCHANGED <<timers, qemu, pidKnown, channel, monitor, agent>>
  PROVE  Core(v)'
<1>1. Owned(v)'
  BY DEF Core, Owned, ReservedIn
<1>2. ResetLast(v)'
  BY DEF Core, ResetLast
<1>3. Processes(v)'
  BY DEF Core, Processes
<1> QED BY <1>1, <1>2, <1>3, LessRunsParts DEF Core

\* qemu removes a display.  No task is there: the delegate asks for the removal
\* only after the application was stopped.
LEMMA QemuRemoveSafe ==
  ASSUME TypeOK, Core(sh), Settled(sh), QemuRemove
  PROVE  sh' \in ShellType /\ Core(sh)' /\ Settled(sh)' /\ UNCHANGED task
<1> DEFINE c == Head(sh.ctl)
           s == [sh EXCEPT !.ctl = Tail(@)]
           d == c.d
           x == [kind |-> "removed", d |-> d]
<1>1. /\ qemu = "up" /\ sh.ctl # <<>> /\ c.op = "remove" /\ sh \in ShellType
      /\ UNCHANGED <<timers, qemu, pidKnown, channel, monitor, agent>>
  BY DEF QemuRemove, TypeOK
<1>2. /\ s \in ShellType /\ Core(s) /\ Settled(s) /\ SameTables(sh, s)
      /\ c \in Requests /\ d \in Displays /\ d \in ReservedIn(s)
      /\ monitor = "waiting" /\ \A i \in DOMAIN s.main : s.main[i].kind # "reset"
      /\ ~NotCreated(s, d) /\ d \in s.removal
      /\ \A i \in DOMAIN s.main : s.main[i].kind = "removed" => s.main[i].d # d
      /\ \A j \in DOMAIN s.ctl : s.ctl[j].d # d
  BY <1>1, RequestTaken
<1>3. \/ /\ exists' = exists \ {d}
         /\ task' = [a \in Apps |-> IF task[a] = d THEN Hidden ELSE task[a]]
         /\ sh' = Reply(s, c, <<>>, <<x>>)
      \/ sh' = s /\ UNCHANGED <<exists, task>>
  BY DEF QemuRemove
<1> HIDE DEF c, s, d
<1>4. \A a \in Apps : task[a] # d
  BY <1>2 DEF Core, LaunchesBound, Running
<1>5. UNCHANGED task
  BY <1>3, <1>4 DEF TypeOK
<1>6. exists' \subseteq exists /\ (sh' = s \/ d \notin exists')
  BY <1>3
<1>7. PICK v : v = s
  OBVIOUS
<1>8. Core(v)' /\ v \in ShellType
  <2>1. v \in ShellType /\ Core(v)
    BY <1>2, <1>7
  <2>2. \A a \in Apps : task'[a] = task[a] \/ task'[a] = Stopped
    BY <1>5
  <2> QED BY <1>1, <1>6, <2>1, <2>2, LessRuns
<1>9. CASE sh' = s
  <2>1. sh' = v
    BY <1>7, <1>9
  <2>2. Core(sh)' /\ sh' \in ShellType /\ Settled(sh')
    BY <1>2, <1>8, <1>9, <2>1
  <2> QED BY <1>5, <2>2, SettledFrame
<1>11. x \in Blocks /\ x.kind = "removed" /\ x.d = d
  BY <1>2 DEF Blocks
<1>12. Reply(s, c, <<>>, <<x>>) = IF channel = "dead" THEN s ELSE Post(s, x)
  BY <1>2, <1>11, ReplyCases
<1> HIDE DEF x
<1>10. CASE sh' = Post(s, x) /\ d \notin exists'
  <2>1. PICK z \in Blocks : z = x /\ z.kind = "removed" /\ z.d = d
    BY <1>11
  <2>2. sh' = Post(v, z)
    BY <1>7, <1>10, <2>1
  <2>3. Fits(v, z)'
    <3>1. /\ z.d \in ReservedIn(v) /\ ~NotCreated(v, z.d) /\ z.d \in v.removal
          /\ \A i \in DOMAIN v.main : v.main[i].kind # "reset"
          /\ \A i \in DOMAIN v.main : v.main[i].kind = "removed" => v.main[i].d # z.d
          /\ \A j \in DOMAIN v.ctl : v.ctl[j].d # z.d
      BY <1>2, <1>7, <2>1
    <3>2. monitor' # "restarting" /\ z.d \notin exists'
      BY <1>1, <1>2, <1>10, <2>1
    <3> QED BY <2>1, <3>1, <3>2 DEF Fits, DisplayKinds, ReservedIn, NotCreated
  <2>4. Core(sh)'
    BY <1>8, <2>1, <2>2, <2>3, PostAfter
  <2>5. sh' \in ShellType /\ Settled(sh')
    <3>1. /\ sh'.windows = v.windows /\ sh'.binding = v.binding /\ sh'.removal = v.removal
          /\ sh'.active = v.active
      BY <1>8, <2>2 DEF Post, ShellType
    <3>2. Append(v.main, z) \in Seq(Blocks)
      BY <1>8, <2>1 DEF ShellType
    <3>3. sh' \in ShellType
      BY <1>8, <2>2, <3>2 DEF Post, ShellType
    <3> QED BY <1>2, <1>7, <3>1, <3>3 DEF Settled, SettledAt
  <2> QED BY <1>5, <2>4, <2>5, SettledFrame
<1> QED BY <1>3, <1>6, <1>9, <1>10, <1>12

-----------------------------------------------------------------------------
(* The agent executes a command. *)

LEMMA PostTables ==
  ASSUME NEW s \in ShellType, NEW x \in Blocks
  PROVE  LET r == Post(s, x)
         IN r \in ShellType /\ SameTables(s, r) /\ r.ctl = s.ctl /\ r.cmds = s.cmds
            /\ r.main = Append(s.main, x) /\ (Settled(s) => Settled(r))
<1> DEFINE r == Post(s, x)
<1>1. r = [s EXCEPT !.main = Append(s.main, x)] /\ Append(s.main, x) \in Seq(Blocks)
  BY DEF Post, ShellType
<1> HIDE DEF r
<1>2. r \in ShellType /\ SameTables(s, r) /\ r.ctl = s.ctl /\ r.cmds = s.cmds
      /\ r.main = Append(s.main, x)
  BY <1>1 DEF ShellType, SameTables
<1>3. Settled(s) => Settled(r)
  BY <1>2, SameTablesFacts
<1> QED BY <1>2, <1>3 DEF r

LEMMA CommandTaken ==
  ASSUME TypeOK, Core(sh), Settled(sh), sh.cmds # <<>>
  PROVE  LET c == Head(sh.cmds)
             s == [sh EXCEPT !.cmds = Tail(@)]
         IN /\ s \in ShellType /\ Core(s) /\ Settled(s) /\ SameTables(sh, s)
            /\ s.ctl = sh.ctl /\ s.main = sh.main
            /\ c \in Commands /\ c.d \in Displays /\ c.app \in Apps
            /\ 1 \in DOMAIN sh.cmds /\ c = sh.cmds[1]
            /\ \A i \in DOMAIN s.cmds :
                  i + 1 \in DOMAIN sh.cmds /\ s.cmds[i] = sh.cmds[i + 1] /\ i + 1 # 1 /\ i + 1 > 1
<1> DEFINE c == Head(sh.cmds)
           x == Tail(sh.cmds)
           s == [sh EXCEPT !.cmds = x]
           f == [i \in DOMAIN x |-> i + 1]
<1>1. sh \in ShellType /\ sh.cmds \in Seq(Commands)
  BY DEF TypeOK, ShellType
<1>2. /\ x \in Seq(Commands) /\ c \in Commands /\ c = sh.cmds[1] /\ 1 \in DOMAIN sh.cmds
      /\ \A i \in DOMAIN x : i + 1 \in DOMAIN sh.cmds /\ x[i] = sh.cmds[i + 1] /\ i \in Nat /\ i > 0
  BY <1>1, TailFacts
<1> HIDE DEF x, c
<1>3. OldCommands(sh, x, f)
  BY <1>2 DEF OldCommands
<1> HIDE DEF f
<1>4. /\ s \in ShellType /\ Core(s) /\ SameTables(sh, s) /\ s.cmds = x /\ s.ctl = sh.ctl
      /\ s.main = sh.main
  BY <1>1, <1>2, <1>3, FewerCommands
<1>5. s = [sh EXCEPT !.cmds = Tail(@)]
  BY DEF x
<1> HIDE DEF s
<1>6. Settled(s) /\ c.d \in Displays /\ c.app \in Apps
  BY <1>1, <1>2, <1>4, SameTablesFacts, Elements
<1> QED BY <1>2, <1>4, <1>5, <1>6 DEF c

\* A launch is executed: nothing else was started or is being stopped there.
LEMMA LaunchAnswered ==
  ASSUME TypeOK, Core(sh), Settled(sh), agent # "stale", sh.cmds # <<>>,
         Head(sh.cmds).op = "launch", NEW res \in {"ok", "failed"}
  PROVE  LET c == Head(sh.cmds)
             r == Answer([sh EXCEPT !.cmds = Tail(@)], c, res)
         IN /\ Kept(r) /\ c.d \in Displays /\ c.app \in Apps
            /\ ~AddPending(r, c.d) /\ Running(r, c.d, c.app)
            /\ \A t \in timers : t.d = c.d => ~Wanted(r, t)
            /\ \A i \in DOMAIN r.cmds : r.cmds[i].op = "launch" => r.cmds[i].d # c.d
            /\ res = "ok" => \A i \in DOMAIN r.main :
                  r.main[i].kind = "launch" /\ r.main[i].res = "failed" => r.main[i].d # c.d
            /\ \A i \in DOMAIN r.main :
                  r.main[i].kind = "close" /\ r.main[i].res = "ok" => r.main[i].d # c.d
            /\ \A i \in DOMAIN r.main :
                  /\ r.main[i].kind = "cleanup" /\ r.main[i].res = "ok"
                  /\ r.main[i].d = c.d /\ r.main[i].app = c.app
                  => \E j \in DOMAIN r.main :
                        j > i /\ r.main[j].kind = "launch" /\ r.main[j].d = r.main[i].d
<1> DEFINE c == Head(sh.cmds)
           s == [sh EXCEPT !.cmds = Tail(@)]
           d == c.d
           a == c.app
           x == [kind |-> "launch", d |-> d, app |-> a, res |-> res]
           r == Answer(s, c, res)
<1>1. /\ s \in ShellType /\ Core(s) /\ Settled(s) /\ SameTables(sh, s)
      /\ s.ctl = sh.ctl /\ s.main = sh.main
      /\ d \in Displays /\ a \in Apps /\ 1 \in DOMAIN sh.cmds /\ c = sh.cmds[1]
      /\ \A i \in DOMAIN s.cmds :
            i + 1 \in DOMAIN sh.cmds /\ s.cmds[i] = sh.cmds[i + 1] /\ i + 1 # 1 /\ i + 1 > 1
  BY CommandTaken
<1>2. c.op = "launch" /\ sh \in ShellType
  BY DEF TypeOK
<1>3. r = IF c.live THEN Post(s, x) ELSE s
  BY <1>2 DEF Answer
<1>4. x \in Blocks /\ x.kind = "launch" /\ x.d = d /\ x.app = a /\ x.res = res
  BY <1>1 DEF Blocks
<1> HIDE DEF s, x, r
<1>5. Running(sh, d, a)
  BY <1>1, <1>2 DEF Core, LaunchesBound, ColdQueue
<1>6. Occupied(sh, d) /\ (c.live => LaunchPending(sh, d))
  BY <1>1, <1>2 DEF Occupied, LaunchPending
<1>7. ~AddPending(sh, d) /\ \A t \in timers : t.d = d => ~Wanted(sh, t)
  <2>1. ~AddPending(sh, d)
    BY <1>2, <1>6, AddIsFresh DEF Fresh, Unused
  <2>2. \A t \in timers : t.d = d => ~Wanted(sh, t)
    BY <1>6 DEF Core, TimersFirst, Unused
  <2> QED BY <2>1, <2>2
<1>8. /\ \A i \in DOMAIN sh.main : sh.main[i].kind = "close" /\ sh.main[i].res = "ok" => sh.main[i].d # d
      /\ \A i \in DOMAIN sh.main :
            sh.main[i].kind = "launch" /\ sh.main[i].res = "failed" => sh.main[i].d # d
  BY <1>6 DEF Core, StopsHold, LaunchOnce
<1>9. /\ \A i \in DOMAIN s.cmds : s.cmds[i].op = "launch" => s.cmds[i].d # d
      /\ \A b \in Apps : task[b] # d
      /\ c.live => \A j \in DOMAIN sh.main : sh.main[j].kind = "launch" => sh.main[j].d # d
      /\ c.live => d \notin sh.deferred
  BY <1>1, <1>2, <1>6 DEF Core, LaunchOnce, LaunchesBound
<1>10. ~Occupied(s, d)
  BY <1>9 DEF Occupied
<1>11. c.live => ~LaunchPending(s, d)
  BY <1>1, <1>9 DEF LaunchPending
<1>12. ~AddPending(s, d) /\ Running(s, d, a) /\ \A t \in timers : t.d = d => ~Wanted(s, t)
  <2>1. ~AddPending(s, d)
    BY <1>1, <1>7 DEF AddPending
  <2> QED BY <1>1, <1>5, <1>7, <2>1, SameTablesFacts
<1>13. c.live => Fits(s, x)
  BY <1>1, <1>4, <1>8, <1>9, <1>10, <1>11, <1>12 DEF Fits, DisplayKinds, SameTables
<1>14. CASE ~c.live
  <2>1. r = s
    BY <1>3, <1>14
  <2>2. \A i \in DOMAIN sh.main :
          /\ sh.main[i].kind = "cleanup" /\ sh.main[i].res = "ok"
          /\ sh.main[i].d = d /\ sh.main[i].app = a
          => \E j \in DOMAIN sh.main :
                j > i /\ sh.main[j].kind = "launch" /\ sh.main[j].d = sh.main[i].d
    BY <1>1, <1>2, <1>14 DEF Core, StopsHold
  <2>3. Kept(r) /\ r.main = sh.main
    BY <1>1, <2>1 DEF Kept
  <2>4. /\ ~AddPending(r, d) /\ Running(r, d, a) /\ \A t \in timers : t.d = d => ~Wanted(r, t)
        /\ \A i \in DOMAIN r.cmds : r.cmds[i].op = "launch" => r.cmds[i].d # d
    BY <1>9, <1>12, <2>1
  <2>5. /\ \A i \in DOMAIN r.main :
              r.main[i].kind = "launch" /\ r.main[i].res = "failed" => r.main[i].d # d
        /\ \A i \in DOMAIN r.main :
              r.main[i].kind = "close" /\ r.main[i].res = "ok" => r.main[i].d # d
    BY <1>8, <2>3
  <2>6. \A i \in DOMAIN r.main :
          /\ r.main[i].kind = "cleanup" /\ r.main[i].res = "ok"
          /\ r.main[i].d = d /\ r.main[i].app = a
          => \E j \in DOMAIN r.main :
                j > i /\ r.main[j].kind = "launch" /\ r.main[j].d = r.main[i].d
    BY <2>2, <2>3
  <2> HIDE DEF d, a
  <2> QED BY <1>1, <2>3, <2>4, <2>5, <2>6 DEF r, s, d, a
<1>15. CASE c.live
  <2>1. r \in ShellType /\ Core(r) /\ SameTables(s, r) /\ Settled(r)
        /\ r.ctl = s.ctl /\ r.cmds = s.cmds /\ r.main = Append(s.main, x)
    BY <1>1, <1>3, <1>4, <1>13, <1>15, PostOne
  <2>2. s.main \in Seq(Blocks)
    BY <1>1 DEF ShellType
  <2> DEFINE n == Len(s.main) + 1
  <2>3. /\ DOMAIN r.main = DOMAIN s.main \cup {n} /\ r.main[n] = x /\ n \in Nat
        /\ \A i \in DOMAIN s.main : r.main[i] = s.main[i] /\ i < n /\ i \in Nat
    BY <1>4, <2>1, <2>2, AppendFacts
  <2> HIDE DEF n
  <2>4. ~AddPending(r, d)
    BY <1>4, <1>12, <2>1, <2>3 DEF AddPending
  <2>5. Running(r, d, a) /\ \A t \in timers : t.d = d => ~Wanted(r, t)
    BY <1>12, <2>1, SameTablesFacts
  <2>6. \A i \in DOMAIN r.main :
          /\ r.main[i].kind = "cleanup" /\ r.main[i].res = "ok"
          /\ r.main[i].d = d /\ r.main[i].app = a
          => \E j \in DOMAIN r.main :
                j > i /\ r.main[j].kind = "launch" /\ r.main[j].d = r.main[i].d
    <3> SUFFICES ASSUME NEW i \in DOMAIN r.main, r.main[i].kind = "cleanup", r.main[i].d = d
                 PROVE  n \in DOMAIN r.main /\ n > i /\ r.main[n].kind = "launch" /\ r.main[n].d = d
      OBVIOUS
    <3> QED BY <1>4, <2>3
  <2>7. \A i \in DOMAIN r.main : r.main[i].kind = "close" /\ r.main[i].res = "ok" => r.main[i].d # d
    BY <1>1, <1>4, <1>8, <2>3
  <2>8. res = "ok" => \A i \in DOMAIN r.main :
          r.main[i].kind = "launch" /\ r.main[i].res = "failed" => r.main[i].d # d
    BY <1>1, <1>4, <1>8, <2>3
  <2>9. Kept(r)
    BY <2>1 DEF Kept
  <2> QED BY <1>1, <1>9, <2>1, <2>4, <2>5, <2>6, <2>7, <2>8, <2>9 DEF r, s
<1> QED BY <1>14, <1>15

LEMMA AgentLaunchSafe ==
  ASSUME TypeOK, Core(sh), Settled(sh), AgentLaunch
  PROVE  sh' \in ShellType /\ Core(sh)' /\ Settled(sh)'
<1> DEFINE c == Head(sh.cmds)
           s == [sh EXCEPT !.cmds = Tail(@)]
           d == c.d
           a == c.app
<1>1. /\ agent # "stale" /\ sh.cmds # <<>> /\ Head(sh.cmds).op = "launch"
      /\ UNCHANGED <<timers, exists, qemu, pidKnown, channel, monitor, agent>>
  BY DEF AgentLaunch
<1>2. CASE sh' = Answer(s, c, "failed") /\ UNCHANGED task
  <2>1. Kept(sh')
    BY <1>1, <1>2, LaunchAnswered
  <2>2. UNCHANGED <<timers, backend>>
    BY <1>1, <1>2 DEF backend
  <2> QED BY <2>1, <2>2, DelegateAlone DEF Kept
<1>3. CASE c.d \in exists /\ task' = [task EXCEPT ![c.app] = c.d] /\ sh' = Answer(s, c, "ok")
  <2>1. /\ Kept(sh') /\ d \in Displays /\ a \in Apps
        /\ ~AddPending(sh', d) /\ Running(sh', d, a)
        /\ \A t \in timers : t.d = d => ~Wanted(sh', t)
        /\ \A i \in DOMAIN sh'.cmds : sh'.cmds[i].op = "launch" => sh'.cmds[i].d # d
        /\ \A i \in DOMAIN sh'.main :
              sh'.main[i].kind = "launch" /\ sh'.main[i].res = "failed" => sh'.main[i].d # d
        /\ \A i \in DOMAIN sh'.main :
              sh'.main[i].kind = "close" /\ sh'.main[i].res = "ok" => sh'.main[i].d # d
        /\ \A i \in DOMAIN sh'.main :
              /\ sh'.main[i].kind = "cleanup" /\ sh'.main[i].res = "ok"
              /\ sh'.main[i].d = d /\ sh'.main[i].app = a
              => \E j \in DOMAIN sh'.main :
                    j > i /\ sh'.main[j].kind = "launch" /\ sh'.main[j].d = sh'.main[i].d
    BY <1>1, <1>3, LaunchAnswered
  <2>2. d \in exists /\ task' = [task EXCEPT ![a] = d]
    BY <1>3
  <2> HIDE DEF c, s, d, a
  <2>3. sh' \in ShellType /\ Core(sh') /\ Settled(sh')
    BY <2>1 DEF Kept
  <2>4. task'[a] = d /\ \A b \in Apps : b # a => task'[b] = task[b]
    BY <2>1, <2>2 DEF TypeOK
  <2>5. qemu = "up"
    BY <2>2 DEF Core, Processes, TypeOK
  <2>6. AddsFresh(sh)'
    <3>1. /\ \A i \in DOMAIN sh'.ctl : sh'.ctl[i].op = "add" /\ sh'.ctl[i].live => sh'.ctl[i].d # d
          /\ \A i \in DOMAIN sh'.main : sh'.main[i].kind = "add" => sh'.main[i].d # d
      BY <2>1 DEF AddPending
    <3> DEFINE P == {e \in Displays : e # d}
    <3>2. AddsFresh(sh')
      BY <2>3 DEF Core
    <3>3. /\ \A i \in DOMAIN sh'.ctl : sh'.ctl[i].op = "add" /\ sh'.ctl[i].live => sh'.ctl[i].d \in P
          /\ \A i \in DOMAIN sh'.main : sh'.main[i].kind = "add" => sh'.main[i].d \in P
      BY <2>3, <3>1, Elements
    <3>4. /\ \A t \in timers' : t \in timers \/ t.d \notin P
          /\ \A b \in Apps : task'[b] = task[b] \/ task'[b] \notin P
      BY <1>1, <2>4
    <3> HIDE DEF P
    <3> QED BY <3>2, <3>3, <3>4, AddsFreshAfter
  <2>7. TimersFirst(sh)'
    BY <1>1, <2>1, <2>3, <2>4
       DEF Core, TimersFirst, Wanted, Unused, Occupied, LaunchPending, ClosePending
  <2>8. LaunchesBound(sh)'
    BY <1>1, <2>1, <2>3, <2>4
       DEF Core, LaunchesBound, Running, ColdQueue, ColdBlock, Cold, LaunchPending
  <2>9. LaunchOnce(sh)'
    BY <2>1, <2>3, <2>4 DEF Core, LaunchOnce, Occupied
  <2>10. StopsHold(sh)'
    <3>1. \A i \in DOMAIN sh'.main :
             sh'.main[i].kind = "cleanup" => sh'.main[i].app \in Apps
      BY <2>3, Elements
    <3> QED BY <2>1, <2>3, <2>4, <3>1 DEF Core, StopsHold, Occupied
  <2>11. Processes(sh)'
    BY <1>1, <2>3, <2>5 DEF Core, Processes
  <2>12. Core(sh)'
    BY <1>1, <2>3, <2>6, <2>7, <2>8, <2>9, <2>10, <2>11, CoreFrame DEF Core
  <2> QED BY <2>3, <2>12, SettledFrame
<1> QED BY <1>2, <1>3 DEF AgentLaunch

\* A close or a cleanup is executed while somebody waits for it.
LEMMA StopTaken ==
  ASSUME TypeOK, Core(sh), Settled(sh), agent # "stale", sh.cmds # <<>>,
         Head(sh.cmds).op \in {"close", "cleanup"}, Head(sh.cmds).live
  PROVE  LET c == Head(sh.cmds)
             s == [sh EXCEPT !.cmds = Tail(@)]
         IN /\ c.op = "close" =>
                  /\ Closing(s, c.d, c.app) /\ ~AddPending(s, c.d) /\ ~ClosePending(s, c.d)
                  /\ \A t \in timers : t.d = c.d => ~Wanted(s, t)
                  /\ \A i \in DOMAIN s.cmds : s.cmds[i].op = "launch" => s.cmds[i].d # c.d
            /\ \A i \in DOMAIN s.cmds : ~(s.cmds[i].op = "launch" /\ ~s.cmds[i].live)
            /\ \A b \in Apps : c.op = "close" /\ task[b] = c.d => b = c.app
<1> DEFINE c == Head(sh.cmds)
           s == [sh EXCEPT !.cmds = Tail(@)]
           d == c.d
           a == c.app
<1>1. /\ SameTables(sh, s) /\ s.ctl = sh.ctl /\ s.main = sh.main
      /\ d \in Displays /\ a \in Apps /\ 1 \in DOMAIN sh.cmds /\ c = sh.cmds[1]
      /\ \A i \in DOMAIN s.cmds :
            i + 1 \in DOMAIN sh.cmds /\ s.cmds[i] = sh.cmds[i + 1] /\ i + 1 # 1 /\ i + 1 > 1
  BY CommandTaken
<1>2. c.live /\ sh \in ShellType
  BY DEF TypeOK
<1> HIDE DEF s, c
<1>3. \A i \in DOMAIN s.cmds : ~(s.cmds[i].op = "launch" /\ ~s.cmds[i].live)
  <2> SUFFICES ASSUME NEW i \in DOMAIN s.cmds, s.cmds[i].op = "launch", ~s.cmds[i].live
               PROVE  FALSE
    OBVIOUS
  <2>1. 1 < i + 1 /\ i + 1 \in DOMAIN sh.cmds /\ s.cmds[i] = sh.cmds[i + 1]
    BY <1>1
  <2> QED BY <1>1, <1>2, <2>1 DEF Core, LaunchOnce
<1>4. ASSUME c.op = "close"
      PROVE  /\ Closing(s, d, a) /\ ~AddPending(s, d) /\ ~ClosePending(s, d)
             /\ \A t \in timers : t.d = d => ~Wanted(s, t)
             /\ \A i \in DOMAIN s.cmds : s.cmds[i].op = "launch" => s.cmds[i].d # d
             /\ \A b \in Apps : task[b] = d => b = a
  <2>1. /\ Closing(sh, d, a)
        /\ \A j \in DOMAIN sh.cmds :
              /\ j > 1 /\ sh.cmds[j].op = "launch" => sh.cmds[j].d # d
              /\ j # 1 /\ sh.cmds[j].op = "close" /\ sh.cmds[j].live => sh.cmds[j].d # d
        /\ \A j \in DOMAIN sh.main : sh.main[j].kind = "close" => sh.main[j].d # d
    BY <1>1, <1>2, <1>4 DEF Core, ClosesBound, ColdQueue
  <2>2. ~AddPending(sh, d)
    <3>1. ClosePending(sh, d)
      BY <1>1, <1>2, <1>4 DEF ClosePending
    <3> QED BY <1>2, <3>1, AddIsFresh DEF Fresh, Unused
  <2>3. \A t \in timers : t.d = d => ~Wanted(sh, t)
    BY <2>1 DEF Core, Tables, Closing, Wanted
  <2>4. ~AddPending(s, d)
    BY <1>1, <2>2 DEF AddPending
  <2>5. ~ClosePending(s, d)
    BY <1>1, <2>1 DEF ClosePending
  <2>6. Closing(s, d, a) /\ \A t \in timers : t.d = d => ~Wanted(s, t)
    BY <1>1, <2>1, <2>3, SameTablesFacts
  <2>7. \A i \in DOMAIN s.cmds : s.cmds[i].op = "launch" => s.cmds[i].d # d
    BY <1>1, <2>1
  <2>8. \A b \in Apps : task[b] = d => b = a
    BY <1>1, <2>1 DEF Core, LaunchesBound, Running, Closing
  <2> QED BY <2>4, <2>5, <2>6, <2>7, <2>8
<1> QED BY <1>3, <1>4 DEF c, s

LEMMA AgentCloseSafe ==
  ASSUME TypeOK, Core(sh), Settled(sh), AgentClose
  PROVE  sh' \in ShellType /\ Core(sh)' /\ Settled(sh)'
<1> DEFINE c == Head(sh.cmds)
           s == [sh EXCEPT !.cmds = Tail(@)]
           d == c.d
           a == c.app
<1>1. /\ agent # "stale" /\ sh.cmds # <<>> /\ Head(sh.cmds).op \in {"close", "cleanup"}
      /\ UNCHANGED <<timers, exists, qemu, pidKnown, channel, monitor, agent>>
  BY DEF AgentClose
<1>2. /\ s \in ShellType /\ Core(s) /\ Settled(s) /\ d \in Displays /\ a \in Apps
      /\ c.op \in {"close", "cleanup"}
  BY <1>1, CommandTaken
<1>3. c.live =>
        /\ c.op = "close" =>
              /\ Closing(s, d, a) /\ ~AddPending(s, d) /\ ~ClosePending(s, d)
              /\ \A t \in timers : t.d = d => ~Wanted(s, t)
              /\ \A i \in DOMAIN s.cmds : s.cmds[i].op = "launch" => s.cmds[i].d # d
        /\ \A i \in DOMAIN s.cmds : ~(s.cmds[i].op = "launch" /\ ~s.cmds[i].live)
        /\ \A b \in Apps : c.op = "close" /\ task[b] = d => b = a
  BY <1>1, StopTaken
<1>4. \/ task' = [task EXCEPT ![a] = Stopped] /\ sh' = Answer(s, c, "ok")
      \/ sh' = Answer(s, c, "failed") /\ UNCHANGED task
  BY DEF AgentClose
<1> DEFINE x(res) == [kind |-> c.op, d |-> d, app |-> a, res |-> res]
<1>5. \A res \in {"ok", "failed"} :
        /\ x(res) \in Blocks /\ x(res).kind = c.op /\ x(res).d = d /\ x(res).app = a
        /\ x(res).res = res
        /\ Answer(s, c, res) = IF c.live THEN Post(s, x(res)) ELSE s
  BY <1>2 DEF Blocks, Answer
<1> HIDE DEF s, c, d, a, x
<1>6. CASE sh' = Answer(s, c, "failed") /\ UNCHANGED task
  <2> DEFINE y == x("failed")
  <2>1. /\ y \in Blocks /\ y.kind = c.op /\ y.d = d /\ y.app = a /\ y.res = "failed"
        /\ sh' = IF c.live THEN Post(s, y) ELSE s
    BY <1>5, <1>6
  <2> HIDE DEF y
  <2>2. c.live => Fits(s, y)
    BY <1>2, <1>3, <2>1 DEF Fits, DisplayKinds
  <2>3. Kept(sh')
    <3>1. CASE ~c.live
      BY <1>2, <2>1, <3>1 DEF Kept
    <3>2. CASE c.live
      BY <1>2, <2>1, <2>2, <3>2, PostOne DEF Kept
    <3> QED BY <3>1, <3>2
  <2>4. UNCHANGED <<timers, backend>>
    BY <1>1, <1>6 DEF backend
  <2> QED BY <2>3, <2>4, DelegateAlone DEF Kept
<1>7. CASE task' = [task EXCEPT ![a] = Stopped] /\ sh' = Answer(s, c, "ok")
  <2>1. PICK v : v = s
    OBVIOUS
  <2>2. /\ task'[a] = Stopped /\ Stopped \notin Displays
        /\ \A b \in Apps : b # a => task'[b] = task[b]
    BY <1>2, <1>7, AppDisplaysAssumptions DEF TypeOK, Stopped, Displays
  <2>3. v \in ShellType /\ Core(v)'
    <3>1. v \in ShellType /\ Core(v)
      BY <1>2, <2>1
    <3>2. exists' \subseteq exists /\ \A b \in Apps : task'[b] = task[b] \/ task'[b] = Stopped
      BY <1>1, <2>2
    <3> QED BY <1>1, <3>1, <3>2, LessRuns
  <2>4. CASE ~c.live
    <3>1. sh' = v /\ sh' = s
      BY <1>5, <1>7, <2>1, <2>4
    <3>2. Core(sh)' /\ sh' \in ShellType /\ Settled(sh')
      BY <1>2, <2>3, <3>1
    <3> QED BY <3>2, SettledFrame
  <2>5. CASE c.live
    <3>1. PICK z \in Blocks : z = x("ok") /\ z.kind = c.op /\ z.d = d /\ z.app = a /\ z.res = "ok"
      BY <1>5
    <3>2. sh' = Post(v, z) /\ sh' = Post(s, z)
      BY <1>5, <1>7, <2>1, <2>5, <3>1
    <3>3. Fits(v, z)'
      <4>1. CASE c.op = "cleanup"
        <5>1. z.kind = "cleanup" /\ task'[z.app] # z.d
          BY <1>2, <2>2, <3>1, <4>1
        <5>2. \A i \in DOMAIN v.cmds : ~(v.cmds[i].op = "launch" /\ ~v.cmds[i].live)
          BY <1>3, <2>1, <2>5
        <5> QED BY <5>1, <5>2 DEF Fits, DisplayKinds
      <4>2. CASE c.op = "close"
        <5>1. /\ z.kind = "close" /\ Closing(v, z.d, z.app)
              /\ ~AddPending(v, z.d) /\ ~ClosePending(v, z.d)
              /\ \A t \in timers : t.d = z.d => ~Wanted(v, t)
              /\ \A i \in DOMAIN v.cmds : v.cmds[i].op = "launch" => v.cmds[i].d # z.d
          BY <1>3, <2>1, <2>5, <3>1, <4>2
        <5>2. \A b \in Apps : task'[b] # z.d
          BY <1>2, <1>3, <2>2, <2>5, <3>1, <4>2
        <5>3. /\ Closing(v, z.d, z.app)' /\ ~AddPending(v, z.d)' /\ ~ClosePending(v, z.d)'
          BY <5>1 DEF Closing, AddPending, ClosePending
        <5>4. ~Occupied(v, z.d)'
          BY <5>1, <5>2 DEF Occupied
        <5>5. (\A t \in timers : t.d = z.d => ~Wanted(v, t))'
          BY <1>1, <5>1 DEF Wanted
        <5> QED BY <5>1, <5>3, <5>4, <5>5 DEF Fits, DisplayKinds
      <4> QED BY <1>2, <4>1, <4>2
    <3>4. Core(sh)'
      BY <2>3, <3>1, <3>2, <3>3, PostAfter
    <3>5. sh' \in ShellType /\ Settled(sh')
      BY <1>2, <3>1, <3>2, PostTables
    <3> QED BY <3>4, <3>5, SettledFrame
  <2> QED BY <2>4, <2>5
<1> QED BY <1>4, <1>6, <1>7

-----------------------------------------------------------------------------
(* Faults. *)

\* The list of a set of indices names each of them once.
LEMMA ListInOrder ==
  ASSUME NEW n \in Nat, NEW S \in SUBSET (1..n), NEW o \in InOrder(S)
  PROVE  /\ Cardinality(S) \in Nat
         /\ \A k \in 1..Cardinality(S) : o[k] \in S
         /\ \A j, k \in 1..Cardinality(S) : j # k => o[j] # o[k]
         /\ \A x \in S : \E k \in 1..Cardinality(S) : o[k] = x
<1>1. IsFiniteSet(1..n)
  BY FS_Interval
<1>2. Cardinality(S) \in Nat
  BY <1>1, FS_Subset, FS_CardinalityType
<1> DEFINE m == Cardinality(S)
<1>3. /\ o \in [1..m -> S] /\ \A x \in S : \E k \in 1..m : o[k] = x
      /\ \A j, k \in 1..m : j < k => o[j] < o[k]
  BY DEF InOrder
<1>4. m \in Nat
  BY <1>2
<1> HIDE DEF m
<1>8. \A x \in S : x \in Int
  OBVIOUS
<1>9. \A k \in 1..m : o[k] \in S
  BY <1>3
<1>5. \A k \in 1..m : o[k] \in S /\ o[k] \in Int
  BY <1>8, <1>9
<1>6. \A j, k \in 1..m : j # k => j < k \/ k < j
  BY <1>4
<1>7. \A j, k \in 1..m : j # k => o[j] # o[k]
  BY <1>3, <1>5, <1>6
<1> QED BY <1>3, <1>4, <1>5, <1>7 DEF m

\* A request that nobody waits for any more.
LEMMA DeadRequest ==
  ASSUME NEW c \in Requests
  PROVE  LET e == [c EXCEPT !.live = FALSE]
         IN e \in Requests /\ e.op = c.op /\ e.d = c.d /\ e.app = c.app /\ ~e.live
<1> DEFINE e == [c EXCEPT !.live = FALSE]
<1>1. CASE c \in [op : {"add"}, d : Displays, app : Apps, n : 1..MaxLaunches, live : BOOLEAN]
  <2>1. e \in [op : {"add"}, d : Displays, app : Apps, n : 1..MaxLaunches, live : BOOLEAN]
    BY <1>1
  <2>2. e.op = c.op /\ e.d = c.d /\ e.app = c.app /\ ~e.live
    BY <1>1
  <2> HIDE DEF e
  <2>3. e \in Requests
    BY <2>1 DEF Requests
  <2> QED BY <2>2, <2>3 DEF e
<1>2. CASE c \in [op : {"resize", "remove"}, d : Displays, app : {NoApp}, n : {0}, live : BOOLEAN]
  <2>1. e \in [op : {"resize", "remove"}, d : Displays, app : {NoApp}, n : {0}, live : BOOLEAN]
    BY <1>2
  <2>2. e.op = c.op /\ e.d = c.d /\ e.app = c.app /\ ~e.live
    BY <1>2
  <2> HIDE DEF e
  <2>3. e \in Requests
    BY <2>1 DEF Requests
  <2> QED BY <2>2, <2>3 DEF e
<1> QED BY <1>1, <1>2 DEF Requests

\* The delegate is told that a request got no answer.  A live ADD is the only
\* trace of its display.
LEMMA LostFits ==
  ASSUME sh \in ShellType, Core(sh), NEW i \in LiveRequests,
         NEW v \in ShellType, SameTables(sh, v), v.main = sh.main, v.cmds = sh.cmds,
         \A j \in DOMAIN v.ctl : v.ctl[j].op = "add" /\ v.ctl[j].live => v.ctl[j].d # sh.ctl[i].d
  PROVE  LET x == AddAnswer(sh.ctl[i], "lost")
         IN /\ x \in Blocks /\ Fits(v, x) /\ ~Alone(x) /\ x.kind \in {"add", "resize"}
            /\ x.kind = "add" => sh.ctl[i].op = "add" /\ x.d = sh.ctl[i].d
<1> DEFINE c == sh.ctl[i]
           x == AddAnswer(c, "lost")
<1>1. i \in DOMAIN sh.ctl /\ c.live /\ c.op # "remove" /\ c \in Requests
  BY Elements DEF LiveRequests
<1>2. c = sh.ctl[i]
  OBVIOUS
<1>3. \A j \in DOMAIN v.ctl : v.ctl[j].op = "add" /\ v.ctl[j].live => v.ctl[j].d # c.d
  OBVIOUS
<1> HIDE DEF c
<1>4. CASE c.op = "add"
  <2>1. x = [kind |-> "add", d |-> c.d, app |-> c.app, n |-> c.n, res |-> "lost"]
    BY <1>4 DEF AddAnswer
  <2>2. x \in Blocks
    BY <1>1, <1>4, <2>1 DEF Requests, Blocks
  <2>3. x.kind = "add" /\ x.d = c.d /\ x.app = c.app /\ x.res = "lost"
    BY <2>1
  <2> HIDE DEF x
  <2>4. \A j \in DOMAIN sh.main : sh.main[j].kind \in DisplayKinds => sh.main[j].d # c.d
    BY <1>1, <1>2, <1>4 DEF Core, AddAlone
  <2>5. monitor = "waiting" /\ \A j \in DOMAIN sh.main : sh.main[j].kind # "reset"
    <3>1. sh.ctl # <<>>
      BY <1>1
    <3> QED BY <3>1 DEF Core, Processes, ResetLast
  <2>6. Fresh(v, c.d, c.app)
    <3>1. Fresh(sh, c.d, c.app)
      BY <1>1, <1>2, <1>4 DEF Core, AddsFresh
    <3> QED BY <3>1 DEF SameTables, Fresh, Unused, Occupied, LaunchPending, ClosePending
  <2>7. ~NotCreated(v, c.d)
    BY <1>3, <2>4 DEF NotCreated, DisplayKinds
  <2>8. channel = "alive" => c.d \in ReservedIn(v)
    BY <1>1, <1>2, SameTablesFacts DEF Core, Owned
  <2>9. Fits(v, x)
    BY <2>3, <2>4, <2>5, <2>6, <2>7, <2>8 DEF Fits, DisplayKinds
  <2> QED BY <1>4, <2>2, <2>3, <2>9 DEF Alone, x, c
<1>5. CASE c.op = "resize"
  <2>1. x = [kind |-> "resize", d |-> c.d]
    BY <1>5 DEF AddAnswer
  <2>2. x \in Blocks /\ x.kind = "resize"
    BY <1>1, <2>1 DEF Requests, Blocks
  <2> HIDE DEF x
  <2>3. Fits(v, x) /\ ~Alone(x)
    BY <2>2 DEF Fits, DisplayKinds, Alone
  <2> QED BY <2>2, <2>3 DEF x, c
<1> QED BY <1>1, <1>4, <1>5 DEF Requests

\* The sweep of the control channel gives one request up.
LEMMA AddTimesOutKeeps ==
  ASSUME TypeOK, Core(sh), Settled(sh), NEW i, AddTimesOut(i)
  PROVE  Kept(sh')
<1> DEFINE e == [sh.ctl[i] EXCEPT !.live = FALSE]
           x == [sh.ctl EXCEPT ![i] = e]
           v == [sh EXCEPT !.ctl = x]
           b == AddAnswer(sh.ctl[i], "lost")
           f == [j \in DOMAIN x |-> j]
<1>1. /\ sh \in ShellType /\ i \in DOMAIN sh.ctl /\ i \in LiveRequests
      /\ sh.ctl \in Seq(Requests) /\ sh.ctl[i] \in Requests
  BY Elements DEF AddTimesOut, LiveRequests, TypeOK, ShellType
<1>2. sh' = Post(v, b)
  BY <1>1 DEF AddTimesOut, ShellType
<1>3. /\ e \in Requests /\ e.op = sh.ctl[i].op /\ e.d = sh.ctl[i].d /\ e.app = sh.ctl[i].app
      /\ ~e.live
  BY <1>1, DeadRequest
<1> HIDE DEF e
<1>4. /\ x \in Seq(Requests) /\ DOMAIN x = DOMAIN sh.ctl
      /\ \A j \in DOMAIN x : x[j] = IF j = i THEN e ELSE sh.ctl[j]
  BY <1>1, <1>3, ExceptSeq
<1> HIDE DEF x
<1>5. OldRequests(sh, x, f)
  BY <1>3, <1>4 DEF OldRequests
<1> HIDE DEF f
<1>6. /\ v \in ShellType /\ Core(v) /\ SameTables(sh, v) /\ v.ctl = x /\ v.cmds = sh.cmds
      /\ v.main = sh.main
  BY <1>1, <1>4, <1>5, FewerRequests
<1> HIDE DEF v
<1>7. \A j \in DOMAIN v.ctl : v.ctl[j].op = "add" /\ v.ctl[j].live => v.ctl[j].d # sh.ctl[i].d
  BY <1>1, <1>3, <1>4, <1>6 DEF Core, AddAlone
<1>8. b \in Blocks /\ Fits(v, b)
  BY <1>1, <1>6, <1>7, LostFits
<1> HIDE DEF b
<1>9. Settled(v)
  BY <1>6, SameTablesFacts
<1> QED BY <1>2, <1>6, <1>8, <1>9, PostOne DEF Kept

\* Commands that nobody waits for any more.
LEMMA DeadCommands ==
  ASSUME NEW q \in Seq(Commands), NEW S
  PROVE  LET x == Dead(q, S)
         IN /\ x \in Seq(Commands) /\ DOMAIN x = DOMAIN q
            /\ \A i \in DOMAIN q :
                  /\ x[i].op = q[i].op /\ x[i].d = q[i].d /\ x[i].app = q[i].app
                  /\ x[i].live <=> q[i].live /\ i \notin S
<1> DEFINE x == Dead(q, S)
<1>1. DOMAIN q = 1..Len(q) /\ Len(q) \in Nat /\ \A i \in DOMAIN q : q[i] \in Commands
  OBVIOUS
<1>2. /\ DOMAIN x = DOMAIN q
      /\ \A i \in DOMAIN q : x[i] = IF i \in S THEN [q[i] EXCEPT !.live = FALSE] ELSE q[i]
      /\ x = [i \in DOMAIN q |-> x[i]]
  BY DEF Dead
<1> HIDE DEF x
<1>3. ASSUME NEW i \in DOMAIN q
      PROVE  /\ x[i] \in Commands /\ x[i].op = q[i].op /\ x[i].d = q[i].d /\ x[i].app = q[i].app
             /\ x[i].live <=> q[i].live /\ i \notin S
  <2> DEFINE c == q[i]
             e == [c EXCEPT !.live = FALSE]
  <2>1. c \in Commands
    BY <1>1
  <2>2. e \in Commands /\ e.op = c.op /\ e.d = c.d /\ e.app = c.app /\ e.live = FALSE
    BY <2>1 DEF Commands
  <2>3. x[i] = IF i \in S THEN e ELSE c
    BY <1>2
  <2>4. c.live \in BOOLEAN /\ c = q[i]
    BY <2>1 DEF Commands
  <2> HIDE DEF c, e
  <2> QED BY <2>1, <2>2, <2>3, <2>4
<1>4. x \in [1..Len(q) -> Commands]
  BY <1>1, <1>2, <1>3
<1>5. x \in Seq(Commands)
  BY <1>1, <1>4
<1> QED BY <1>2, <1>3, <1>5 DEF x

\* The callbacks of commands that are given up.
LEMMA LostCallbacks ==
  ASSUME sh \in ShellType, NEW S \in SUBSET DOMAIN sh.cmds, NEW q \in LostCommands(S)
  PROVE  q \in Seq(Blocks) /\ \E o : Callbacks(sh, S, q, o)
<1>1. sh.cmds \in Seq(Commands) /\ Len(sh.cmds) \in Nat /\ DOMAIN sh.cmds = 1..Len(sh.cmds)
  BY DEF ShellType
<1>2. PICK o \in InOrder(S) : q = [k \in 1..Cardinality(S) |-> LostCommand(sh.cmds[o[k]])]
  BY DEF LostCommands
<1> DEFINE m == Cardinality(S)
<1>3. /\ m \in Nat /\ \A k \in 1..m : o[k] \in S
      /\ \A j, k \in 1..m : j # k => o[j] # o[k]
      /\ \A x \in S : \E k \in 1..m : o[k] = x
  BY <1>1, <1>2, ListInOrder
<1>4. DOMAIN q = 1..m /\ \A k \in 1..m : q[k] = LostCommand(sh.cmds[o[k]])
  BY <1>2
<1>5. q = [k \in 1..m |-> q[k]]
  BY <1>2
<1> HIDE DEF m
<1>6. \A c \in Commands : LostCommand(c) \in Blocks
  BY DEF Commands, Blocks, LostCommand
<1>7. \A k \in 1..m : q[k] \in Blocks
  BY <1>1, <1>3, <1>4, <1>6
<1>8. q \in [1..m -> Blocks]
  BY <1>5, <1>7
<1>9. q \in Seq(Blocks)
  BY <1>3, <1>8
<1>10. Callbacks(sh, S, q, o)
  BY <1>3, <1>4 DEF Callbacks
<1> QED BY <1>9, <1>10

\* Commands `S` are given up together.
LEMMA GiveUpCommands ==
  ASSUME sh \in ShellType, Core(sh), Settled(sh), NEW S, Given(sh, S), NEW q \in LostCommands(S),
         NEW x, x = Dead(sh.cmds, S), NEW r, r = [sh EXCEPT !.cmds = x, !.main = @ \o q]
  PROVE  Kept(r) /\ SameTables(sh, r)
<1>1. sh.cmds \in Seq(Commands) /\ S \in SUBSET DOMAIN sh.cmds
  BY DEF ShellType, Given
<1>2. x \in Seq(Commands) /\ Left(sh, S, x)
  BY <1>1, DeadCommands DEF Left
<1>3. q \in Seq(Blocks) /\ \E o : Callbacks(sh, S, q, o)
  BY <1>1, LostCallbacks
<1>4. PICK o : Callbacks(sh, S, q, o)
  BY <1>3
<1>5. r \in ShellType /\ Core(r) /\ SameTables(sh, r)
  BY <1>2, <1>3, <1>4, SweepStep
<1>6. Settled(r)
  BY <1>5, SameTablesFacts
<1> QED BY <1>5, <1>6 DEF Kept

\* The sweep of the guest control client.
LEMMA CommandTimesOutKeeps ==
  ASSUME TypeOK, Core(sh), Settled(sh), NEW i, CommandTimesOut(i)
  PROVE  Kept(sh')
<1> DEFINE S == {j \in LiveCommands : /\ j <= i
                                      /\ Patience(sh.cmds[j].op) <= Patience(sh.cmds[i].op)}
           x == Dead(sh.cmds, S)
<1>1. /\ sh \in ShellType /\ sh.cmds \in Seq(Commands) /\ i \in LiveCommands
      /\ DOMAIN sh.cmds \subseteq Int
      /\ \A j \in DOMAIN sh.cmds : sh.cmds[j] \in Commands
  BY DEF TypeOK, ShellType, CommandTimesOut
<1>2. PICK q \in LostCommands(S) : sh' = [sh EXCEPT !.cmds = x, !.main = @ \o q]
  BY <1>1 DEF CommandTimesOut, ShellType
<1>3. S \subseteq DOMAIN sh.cmds /\ \A j \in S : sh.cmds[j].live
  BY DEF LiveCommands
<1>4. Given(sh, S)
  <2> SUFFICES ASSUME NEW k \in S, sh.cmds[k].op = "launch",
                      NEW j \in DOMAIN sh.cmds, j < k, sh.cmds[j].live
               PROVE  j \in S
    BY <1>3 DEF Given
  <2>1. Patience(sh.cmds[i].op) = 15
    BY DEF Patience
  <2>2. Patience(sh.cmds[j].op) <= 15
    BY DEF Patience
  <2>3. j \in LiveCommands /\ j <= i
    BY <1>1, <1>3 DEF LiveCommands
  <2> QED BY <2>1, <2>2, <2>3
<1> HIDE DEF S, x
<1>5. x = Dead(sh.cmds, S)
  BY DEF x
<1> QED BY <1>1, <1>2, <1>4, <1>5, GiveUpCommands

\* The agent's connection drops: no command is awaited any more, and a command
\* that is left was sent to a connection that nobody had given up.
LEMMA AgentDropsSafe ==
  ASSUME TypeOK, Core(sh), Settled(sh), AgentDrops
  PROVE  sh' \in ShellType /\ Core(sh)' /\ Settled(sh)'
<1> DEFINE S == LiveCommands
           z == [kind |-> "disconnected"]
           x == Dead(sh.cmds, S)
           y(k) == [i \in 1..k |-> [sh.cmds[i] EXCEPT !.live = FALSE]]
<1>1. /\ sh \in ShellType /\ sh.cmds \in Seq(Commands) /\ sh.main \in Seq(Blocks)
      /\ agent # "none" /\ agent' = "none"
      /\ UNCHANGED <<timers, exists, task, qemu, pidKnown, channel, monitor>>
  BY DEF TypeOK, ShellType, AgentDrops, agentReady
<1>2. PICK k \in {0, 1}, q \in LostCommands(S) :
         /\ k <= Len(sh.cmds) /\ (agent = "stale" => k = 0)
         /\ sh' = [sh EXCEPT !.main = @ \o q \o <<z>>, !.cmds = y(k)]
  BY DEF AgentDrops
<1>3. Given(sh, S) /\ S \subseteq DOMAIN sh.cmds
  BY DEF Given, LiveCommands
<1>4. /\ x \in Seq(Commands) /\ Left(sh, S, x) /\ \A i \in DOMAIN x : ~x[i].live
  <2>1. x \in Seq(Commands) /\ Left(sh, S, x)
    BY <1>1, DeadCommands DEF Left
  <2> HIDE DEF x
  <2> QED BY <2>1 DEF Left, LiveCommands
<1>5. q \in Seq(Blocks)
  BY <1>1, <1>2, <1>3, LostCallbacks
<1> DEFINE r == [sh EXCEPT !.cmds = x, !.main = @ \o q]
           w == [r EXCEPT !.cmds = y(k)]
<1>7. y(k) = [i \in 1..k |-> x[i]] /\ 1..k \subseteq DOMAIN x
  <2>1. 1..k \subseteq DOMAIN sh.cmds
    BY <1>1, <1>2
  <2>2. \A i \in 1..k : x[i] = [sh.cmds[i] EXCEPT !.live = FALSE]
    <3> SUFFICES ASSUME NEW i \in 1..k PROVE x[i] = [sh.cmds[i] EXCEPT !.live = FALSE]
      OBVIOUS
    <3>1. i \in DOMAIN sh.cmds /\ sh.cmds[i] \in Commands
      BY <1>1, <2>1
    <3>2. CASE sh.cmds[i].live
      BY <3>1, <3>2 DEF Dead, LiveCommands
    <3>3. CASE ~sh.cmds[i].live
      <4> DEFINE c == sh.cmds[i]
      <4>1. x[i] = c
        BY <3>1, <3>3 DEF Dead, LiveCommands
      <4>2. c \in Commands /\ ~c.live
        BY <3>1, <3>3
      <4> HIDE DEF c
      <4>3. [c EXCEPT !.live = FALSE] = c
        BY <4>2 DEF Commands
      <4> QED BY <4>1, <4>3 DEF c
    <3> QED BY <3>2, <3>3
  <2>3. DOMAIN x = DOMAIN sh.cmds
    BY DEF Dead
  <2> HIDE DEF x
  <2> QED BY <2>1, <2>2, <2>3
<1> HIDE DEF S, x
<1>8. /\ y(k) \in Seq(Commands) /\ DOMAIN y(k) = 1..k
      /\ \A i \in 1..k : y(k)[i] = x[i] /\ i \in DOMAIN x
  <2>1. k \in Nat /\ \A i \in 1..k : x[i] \in Commands
    BY <1>4, <1>7
  <2>2. y(k) \in [1..k -> Commands] /\ DOMAIN y(k) = 1..k /\ \A i \in 1..k : y(k)[i] = x[i]
    BY <1>7, <2>1
  <2> HIDE DEF y
  <2> QED BY <1>7, <2>1, <2>2
<1> HIDE DEF y
<1>9. /\ r \in ShellType /\ Core(r) /\ SameTables(sh, r) /\ r.cmds = x /\ r.main = sh.main \o q
  <2>1. Given(sh, S) /\ x = Dead(sh.cmds, S)
    BY <1>3 DEF x
  <2>2. PICK u : u = r
    OBVIOUS
  <2>3. u = [sh EXCEPT !.cmds = x, !.main = @ \o q]
    BY <2>2
  <2> HIDE DEF r
  <2>5. sh \in ShellType /\ q \in LostCommands(S)
    BY <1>1, <1>2
  <2>4. Kept(u) /\ SameTables(sh, u)
    BY <2>1, <2>3, <2>5, GiveUpCommands
  <2>6. u.cmds = x /\ u.main = sh.main \o q
    BY <2>3, <2>5 DEF ShellType
  <2> QED BY <2>2, <2>4, <2>6 DEF Kept
<1>10. /\ sh.main \o q \in Seq(Blocks) /\ z \in Blocks /\ z.kind = "disconnected"
       /\ Append(sh.main \o q, z) = (sh.main \o q) \o <<z>>
  <2>1. sh.main \o q \in Seq(Blocks)
    BY <1>1, <1>5, ConcatFacts
  <2>2. z \in Blocks /\ z.kind = "disconnected"
    BY DEF Blocks
  <2> HIDE DEF z
  <2> QED BY <2>1, <2>2, OneMore
<1> HIDE DEF z
<1>11. sh' = Post(w, z)
  BY <1>1, <1>2, <1>10 DEF Post, ShellType
<1> HIDE DEF r
<1> DEFINE f == [i \in 1..k |-> i]
<1>12. OldCommands(r, y(k), f)
  BY <1>8, <1>9 DEF OldCommands
<1> HIDE DEF f
<1>13. w \in ShellType /\ Core(w) /\ SameTables(r, w) /\ w.cmds = y(k)
  BY <1>8, <1>9, <1>12, FewerCommands
<1> HIDE DEF w
<1>14. Fits(w, z)
  BY <1>10 DEF Fits, DisplayKinds
<1>15. /\ sh' \in ShellType /\ Core(sh') /\ sh'.cmds = y(k) /\ Settled(sh')
  <2>1. Settled(w)
    BY <1>9, <1>13, SameTablesFacts
  <2> QED BY <1>10, <1>11, <1>13, <1>14, <2>1, PostOne
<1>16. /\ \A i \in DOMAIN sh'.cmds : ~sh'.cmds[i].live
       /\ agent = "stale" => sh'.cmds = <<>> /\ DOMAIN sh'.cmds = {}
  <2>1. \A i \in DOMAIN sh'.cmds : ~sh'.cmds[i].live
    BY <1>4, <1>8, <1>15
  <2>2. agent = "stale" => DOMAIN sh'.cmds = {} /\ sh'.cmds \in Seq(Commands)
    BY <1>2, <1>8, <1>15
  <2> QED BY <2>1, <2>2, EmptyQueue
<1>17. LaunchesBound(sh)'
  BY <1>1, <1>15, <1>16 DEF Core, LaunchesBound, Running, ColdQueue, ColdBlock, Cold, LaunchPending
<1>18. ClosesBound(sh)'
  BY <1>15, <1>16 DEF Core, ClosesBound, Closing, ColdBlock, Cold
<1>19. Processes(sh)'
  BY <1>1, <1>15, <1>16 DEF Core, Processes, TypeOK
<1>20. Core(sh)'
  BY <1>1, <1>15, <1>17, <1>18, <1>19, CoreFrame DEF Core
<1> QED BY <1>15, <1>20, SettledFrame

\* Requests `S` get no answer, and none of those that are left is awaited.
LEMMA GiveUpRequests ==
  ASSUME TypeOK, Core(sh), Settled(sh), NEW S \in SUBSET LiveRequests, NEW q \in LostRequests(S),
         NEW x \in Seq(Requests), NEW f, OldRequests(sh, x, f), \A j \in DOMAIN x : ~x[j].live
  PROVE  LET r == [sh EXCEPT !.ctl = x, !.main = @ \o q]
         IN /\ Kept(r) /\ r.ctl = x /\ r.main = sh.main \o q /\ r.cmds = sh.cmds
            /\ SameTables(sh, r) /\ q \in Seq(Blocks)
            /\ \A k \in DOMAIN q : q[k].kind \in {"add", "resize"}
<1> DEFINE v == [sh EXCEPT !.ctl = x]
           r == [v EXCEPT !.main = @ \o q]
           m == Cardinality(S)
<1>1. /\ sh \in ShellType /\ sh.ctl \in Seq(Requests) /\ Len(sh.ctl) \in Nat
      /\ LiveRequests \subseteq 1..Len(sh.ctl)
  BY DEF TypeOK, ShellType, LiveRequests
<1>2. PICK o \in InOrder(S) : q = [k \in 1..m |-> AddAnswer(sh.ctl[o[k]], "lost")]
  BY DEF LostRequests
<1>3. /\ m \in Nat /\ (\A k \in 1..m : o[k] \in S)
      /\ \A j, k \in 1..m : j # k => o[j] # o[k]
  BY ZenonT(40), <1>1, ListInOrder
<1> HIDE DEF m
<1>4. /\ DOMAIN q = 1..m /\ \A k \in 1..m : q[k] = AddAnswer(sh.ctl[o[k]], "lost")
      /\ q = [k \in 1..m |-> q[k]]
  BY <1>2
<1>5. /\ v \in ShellType /\ Core(v) /\ SameTables(sh, v) /\ v.ctl = x /\ v.cmds = sh.cmds
      /\ v.main = sh.main
  BY <1>1, FewerRequests
<1>6. [sh EXCEPT !.ctl = x, !.main = @ \o q] = r
  BY <1>1 DEF ShellType
<1> HIDE DEF v
<1>7. ASSUME NEW k \in 1..m
      PROVE  /\ q[k] \in Blocks /\ Fits(v, q[k]) /\ ~Alone(q[k]) /\ q[k].kind \in {"add", "resize"}
             /\ q[k].kind = "add" => sh.ctl[o[k]].op = "add" /\ q[k].d = sh.ctl[o[k]].d
  <2>1. o[k] \in LiveRequests /\ q[k] = AddAnswer(sh.ctl[o[k]], "lost")
    BY <1>3, <1>4
  <2> QED BY <1>1, <1>5, <2>1, LostFits
<1>8. q \in Seq(Blocks)
  <2>1. q \in [1..m -> Blocks]
    BY <1>4, <1>7
  <2> QED BY <1>3, <2>1
<1>9. ASSUME NEW j \in DOMAIN q, NEW k \in DOMAIN q, j # k
      PROVE  Apart(q[j], q[k])
  <2>1. q[j].kind = "add" /\ q[k].kind = "add" => q[j].d # q[k].d
    <3>1. /\ o[j] # o[k] /\ o[j] \in DOMAIN sh.ctl /\ o[k] \in DOMAIN sh.ctl
          /\ sh.ctl[o[j]].live
      BY <1>3, <1>4, <1>9 DEF LiveRequests
    <3> QED BY <1>4, <1>7, <3>1 DEF Core, AddAlone
  <2> QED BY <1>4, <1>7, <2>1 DEF Apart
<1>10. /\ r \in ShellType /\ Core(r) /\ SameTables(v, r) /\ r.ctl = v.ctl /\ r.cmds = v.cmds
       /\ r.main = v.main \o q
  BY <1>4, <1>5, <1>7, <1>8, <1>9, PostStep
<1> HIDE DEF r
<1>11. Kept(r) /\ SameTables(sh, r)
  <2>1. Settled(r)
    BY <1>5, <1>10, SameTablesFacts
  <2> QED BY <1>5, <1>10, <2>1 DEF Kept, SameTables
<1>12. r.ctl = x /\ r.main = sh.main \o q /\ r.cmds = sh.cmds
  BY <1>5, <1>10
<1> QED BY <1>4, <1>6, <1>7, <1>8, <1>11, <1>12

\* Requests that nobody waits for any more.
LEMMA DeadRequests ==
  ASSUME NEW s \in ShellType, NEW x, x = Dead(s.ctl, DOMAIN s.ctl) \/ x = <<>>
  PROVE  /\ x \in Seq(Requests) /\ (\A j \in DOMAIN x : ~x[j].live)
         /\ OldRequests(s, x, [j \in DOMAIN x |-> j])
<1>1. /\ s.ctl \in Seq(Requests) /\ DOMAIN s.ctl = 1..Len(s.ctl) /\ Len(s.ctl) \in Nat
      /\ \A i \in DOMAIN s.ctl : s.ctl[i] \in Requests
  BY DEF ShellType
<1>2. CASE x = <<>>
  <2>1. x \in Seq(Requests) /\ DOMAIN x = {}
    BY <1>2
  <2> QED BY <2>1 DEF OldRequests
<1>3. CASE x = Dead(s.ctl, DOMAIN s.ctl)
  <2>1. DOMAIN x = DOMAIN s.ctl /\ x = [i \in DOMAIN s.ctl |-> x[i]]
        /\ \A i \in DOMAIN s.ctl : x[i] = [s.ctl[i] EXCEPT !.live = FALSE]
    BY <1>3 DEF Dead
  <2>2. \A i \in DOMAIN s.ctl : /\ x[i] \in Requests /\ x[i].op = s.ctl[i].op /\ x[i].d = s.ctl[i].d
                                /\ x[i].app = s.ctl[i].app /\ ~x[i].live
    <3> SUFFICES ASSUME NEW i \in DOMAIN s.ctl
                 PROVE  /\ x[i] \in Requests /\ x[i].op = s.ctl[i].op /\ x[i].d = s.ctl[i].d
                        /\ x[i].app = s.ctl[i].app /\ ~x[i].live
      OBVIOUS
    <3> DEFINE c == s.ctl[i]
               e == [c EXCEPT !.live = FALSE]
    <3>1. c \in Requests /\ x[i] = e /\ c = s.ctl[i]
      BY <1>1, <2>1
    <3>2. e \in Requests /\ e.op = c.op /\ e.d = c.d /\ e.app = c.app /\ ~e.live
      BY <3>1, DeadRequest
    <3> HIDE DEF c, e
    <3> QED BY <3>1, <3>2
  <2>3. x \in [1..Len(s.ctl) -> Requests]
    BY <1>1, <2>1, <2>2
  <2>4. x \in Seq(Requests)
    BY <1>1, <2>3
  <2> QED BY <2>1, <2>2, <2>4 DEF OldRequests
<1> QED BY <1>2, <1>3

\* The control channel ends.
LEMMA ChannelDiesSafe ==
  ASSUME TypeOK, Core(sh), Settled(sh), ChannelDies
  PROVE  sh' \in ShellType /\ Core(sh)' /\ Settled(sh)'
<1> DEFINE x == IF qemu = "up" THEN Dead(sh.ctl, DOMAIN sh.ctl) ELSE <<>>
           f == [j \in DOMAIN x |-> j]
<1>1. /\ sh \in ShellType /\ channel = "alive" /\ channel' = "dead"
      /\ UNCHANGED <<timers, exists, task, qemu, pidKnown, monitor, agent>>
  BY DEF TypeOK, ChannelDies
<1>2. PICK q \in LostRequests(LiveRequests) : sh' = [sh EXCEPT !.ctl = x, !.main = @ \o q]
  BY <1>1 DEF ChannelDies, ShellType
<1>3. x = Dead(sh.ctl, DOMAIN sh.ctl) \/ x = <<>>
  OBVIOUS
<1> HIDE DEF x
<1>4. x \in Seq(Requests) /\ (\A j \in DOMAIN x : ~x[j].live) /\ OldRequests(sh, x, f)
  BY <1>1, <1>3, DeadRequests
<1> HIDE DEF f
<1>5. Kept(sh') /\ sh'.ctl = x
  BY <1>2, <1>4, GiveUpRequests
<1>6. sh' \in ShellType /\ Core(sh') /\ Settled(sh')
  BY <1>5 DEF Kept
<1>7. Owned(sh)'
  BY <1>1, <1>6 DEF Core, Owned, ReservedIn
<1>8. Processes(sh)'
  BY <1>1, <1>4, <1>5, <1>6 DEF Core, Processes
<1>9. Core(sh)'
  BY <1>1, <1>6, <1>7, <1>8, CoreFrame DEF Core
<1> QED BY <1>6, <1>9, SettledFrame

\* The monitor stops the channel and posts the reset, the last block of the old
\* qemu.
LEMMA MonitorResetsSafe ==
  ASSUME TypeOK, Core(sh), Settled(sh), MonitorResets
  PROVE  sh' \in ShellType /\ Core(sh)' /\ Settled(sh)'
<1> DEFINE S == IF channel = "alive" THEN LiveRequests ELSE {}
           b == [kind |-> "reset"]
           x == <<>>
           f == [j \in DOMAIN x |-> j]
<1>1. /\ sh \in ShellType /\ sh.main \in Seq(Blocks) /\ monitor = "waiting" /\ ~pidKnown
      /\ monitor' = "resetting" /\ channel' = "dead"
      /\ UNCHANGED <<timers, exists, task, qemu, pidKnown, agent>>
  BY DEF TypeOK, ShellType, MonitorResets
<1>2. PICK q \in LostRequests(S) : sh' = [sh EXCEPT !.ctl = x, !.main = @ \o q \o <<b>>]
  BY DEF MonitorResets
<1>3. S \in SUBSET LiveRequests
  OBVIOUS
<1>4. qemu = "down" /\ exists = {} /\ DOMAIN x = {}
  BY <1>1 DEF Core, Processes, TypeOK
<1>5. x \in Seq(Requests) /\ (\A j \in DOMAIN x : ~x[j].live) /\ OldRequests(sh, x, f)
  BY <1>1, DeadRequests
<1>6. b \in Blocks /\ b.kind = "reset"
  BY DEF Blocks
<1>7. x = <<>>
  OBVIOUS
<1> HIDE DEF S, b, x, f
<1> DEFINE r == [sh EXCEPT !.ctl = x, !.main = @ \o q]
<1>8. /\ Kept(r) /\ r.ctl = x /\ r.main = sh.main \o q /\ q \in Seq(Blocks)
      /\ \A k \in DOMAIN q : q[k].kind \in {"add", "resize"}
  BY <1>3, <1>5, GiveUpRequests
<1>9. sh' = Post(r, b)
  <2>1. sh.main \o q \in Seq(Blocks)
    BY <1>1, <1>8, ConcatFacts
  <2>2. Append(sh.main \o q, b) = (sh.main \o q) \o <<b>>
    BY <1>6, <2>1, OneMore
  <2> QED BY <1>1, <1>2, <2>2 DEF Post, ShellType
<1> HIDE DEF r
<1>10. PICK v : v = r
  OBVIOUS
<1>11. /\ v \in ShellType /\ Core(v) /\ v.ctl = <<>> /\ v.main = sh.main \o q
       /\ \A i \in DOMAIN v.main : v.main[i].kind # "reset"
  <2>1. v \in ShellType /\ Core(v) /\ v.ctl = <<>> /\ v.main = sh.main \o q
    BY <1>7, <1>8, <1>10 DEF Kept
  <2>2. \A i \in DOMAIN sh.main : sh.main[i].kind # "reset"
    BY <1>1 DEF Core, ResetLast
  <2>3. \A i \in DOMAIN v.main :
           \/ i \in DOMAIN sh.main /\ v.main[i] = sh.main[i]
           \/ \E j \in DOMAIN q : v.main[i] = q[j]
    BY <1>1, <1>8, <2>1, ConcatFacts
  <2> QED BY <1>8, <2>1, <2>2, <2>3
<1>12. Core(v)'
  <2>1. /\ Tables(v)' /\ RemoveLast(v)' /\ AddAlone(v)' /\ AddsFresh(v)' /\ TimersFirst(v)'
        /\ LaunchesBound(v)' /\ LaunchOnce(v)' /\ ClosesBound(v)' /\ StopsHold(v)'
    BY <1>1, <1>11, LessRunsParts
  <2>2. Owned(v)'
    BY <1>1, <1>4 DEF Owned
  <2>3. ResetLast(v)'
    BY <1>1, <1>11 DEF ResetLast
  <2>4. Processes(v)'
    BY <1>1, <1>4, <1>11 DEF Core, Processes
  <2> QED BY <2>1, <2>2, <2>3, <2>4 DEF Core
<1>13. PICK z \in Blocks : z = b /\ z.kind = "reset"
  BY <1>6
<1>14. Fits(v, z)'
  BY <1>1, <1>11, <1>13 DEF Fits, DisplayKinds
<1>15. sh' = Post(v, z)
  BY <1>9, <1>10, <1>13
<1>16. Core(sh)'
  BY <1>11, <1>12, <1>14, <1>15, PostAfter
<1>17. sh' \in ShellType /\ Settled(sh')
  <2>1. Settled(v)
    BY <1>8, <1>10 DEF Kept
  <2> QED BY <1>11, <1>15, <2>1, PostTables
<1> QED BY <1>16, <1>17, SettledFrame

-----------------------------------------------------------------------------
(* Every step.  Three of the constants open the model to behaviour of the code *)
(* that does break the transaction; the theorems are about the rest.           *)

\* The user does not close a window whose failed launch is being cleaned up, does
\* not launch on a display whose 0.2 s block is still due, and a refused ADD has
\* created nothing.
Orderly == RetryOpen = FALSE /\ QuickRelaunch = FALSE /\ "halfApplied" \notin AddOutcomes

LEMMA MainSafe ==
  ASSUME TypeOK, Core(sh), Settled(sh), MainNext
  PROVE  sh' \in ShellType /\ Core(sh)' /\ Settled(sh)'
<1>1. CASE AddDone
  BY <1>1, AddDoneSafe DEF Kept
<1>2. CASE ResetAfterExit
  BY <1>2, ResetAfterExitSafe
<1>3. ASSUME Kept(sh'), UNCHANGED <<timers, backend>>
      PROVE  sh' \in ShellType /\ Core(sh)' /\ Settled(sh)'
  BY <1>3, DelegateAlone DEF Kept
<1>4. CASE LaunchDone
  <2>1. UNCHANGED <<timers, backend>>
    BY <1>4 DEF LaunchDone
  <2> QED BY <1>3, <1>4, <2>1, LaunchDoneKeeps
<1>5. CASE CloseDone
  <2>1. UNCHANGED <<timers, backend>>
    BY <1>5 DEF CloseDone
  <2> QED BY <1>3, <1>5, <2>1, CloseDoneKeeps
<1>6. CASE CleanupDone
  <2>1. UNCHANGED <<timers, backend>>
    BY <1>6 DEF CleanupDone
  <2> QED BY <1>3, <1>6, <2>1, CleanupDoneKeeps
<1>7. CASE DisplayAdded
  <2>1. UNCHANGED <<timers, backend>>
    BY <1>7 DEF DisplayAdded
  <2> QED BY <1>3, <1>7, <2>1, DisplayAddedKeeps
<1>8. CASE DisplayRemoved
  <2>1. UNCHANGED <<timers, backend>>
    BY <1>8 DEF DisplayRemoved
  <2> QED BY <1>3, <1>8, <2>1, DisplayRemovedKeeps
<1>9. CASE ResizeDone
  <2>1. UNCHANGED <<timers, backend>>
    BY <1>9 DEF ResizeDone
  <2> QED BY <1>3, <1>9, <2>1, ResizeDoneKeeps
<1>10. CASE AgentConnected
  <2>1. UNCHANGED <<timers, backend>>
    BY <1>10 DEF AgentConnected
  <2> QED BY <1>3, <1>10, <2>1, AgentConnectedKeeps
<1>11. CASE AgentDisconnected
  <2>1. UNCHANGED <<timers, backend>>
    BY <1>11 DEF AgentDisconnected
  <2> QED BY <1>3, <1>11, <2>1, AgentDisconnectedKeeps
<1> QED BY <1>1, <1>2, <1>4, <1>5, <1>6, <1>7, <1>8, <1>9, <1>10, <1>11 DEF MainNext

LEMMA UserSafe ==
  ASSUME Orderly, TypeOK, Core(sh), Settled(sh), UserNext
  PROVE  sh' \in ShellType /\ Core(sh)' /\ Settled(sh)'
<1>1. RetryOpen = FALSE /\ QuickRelaunch = FALSE
  BY DEF Orderly
<1>2. Kept(sh') /\ UNCHANGED <<timers, backend>>
  <2>1. ASSUME NEW a \in Apps, Launch(a) PROVE Kept(sh') /\ UNCHANGED <<timers, backend>>
    <3>1. UNCHANGED <<timers, backend>>
      BY <2>1 DEF Launch
    <3> QED BY <1>1, <2>1, <3>1, LaunchKeeps
  <2>2. ASSUME NEW d \in Displays, UserCloses(d) PROVE Kept(sh') /\ UNCHANGED <<timers, backend>>
    <3>1. UNCHANGED <<timers, backend>>
      BY <2>2 DEF UserCloses
    <3> QED BY <1>1, <2>2, <3>1, UserClosesKeeps
  <2>3. ASSUME NEW d \in Displays, Resize(d) PROVE Kept(sh') /\ UNCHANGED <<timers, backend>>
    <3>1. UNCHANGED <<timers, backend>>
      BY <2>3 DEF Resize
    <3> QED BY <2>3, <3>1, ResizeKeeps
  <2>4. ASSUME NEW d \in Displays, PresentFrame(d) PROVE Kept(sh') /\ UNCHANGED <<timers, backend>>
    <3>1. UNCHANGED <<timers, backend>>
      BY <2>4 DEF PresentFrame
    <3> QED BY <2>4, <3>1, PresentFrameKeeps
  <2> QED BY <2>1, <2>2, <2>3, <2>4 DEF UserNext
<1> QED BY <1>2, DelegateAlone DEF Kept

LEMMA FaultSafe ==
  ASSUME TypeOK, Core(sh), Settled(sh), FaultNext
  PROVE  sh' \in ShellType /\ Core(sh)' /\ Settled(sh)'
<1>1. ASSUME NEW i, AddTimesOut(i) PROVE sh' \in ShellType /\ Core(sh)' /\ Settled(sh)'
  <2>1. Kept(sh')
    BY <1>1, AddTimesOutKeeps
  <2>2. UNCHANGED <<timers, backend>>
    BY <1>1 DEF AddTimesOut
  <2> QED BY <2>1, <2>2, DelegateAlone DEF Kept
<1>2. ASSUME NEW i, CommandTimesOut(i) PROVE sh' \in ShellType /\ Core(sh)' /\ Settled(sh)'
  <2>1. Kept(sh')
    BY <1>2, CommandTimesOutKeeps
  <2>2. UNCHANGED <<timers, backend>>
    BY <1>2 DEF CommandTimesOut
  <2> QED BY <2>1, <2>2, DelegateAlone DEF Kept
<1>3. CASE AgentDrops
  BY <1>3, AgentDropsSafe
<1>4. CASE AgentConnects
  BY <1>4, AgentConnectsSafe
<1>5. CASE ChannelDies
  BY <1>5, ChannelDiesSafe
<1>6. CASE QemuExits
  BY <1>6, QemuExitsSafe
<1> QED BY <1>1, <1>2, <1>3, <1>4, <1>5, <1>6 DEF FaultNext

LEMMA StepSafe ==
  ASSUME Orderly, TypeOK, Core(sh), Settled(sh), Next
  PROVE  sh' \in ShellType /\ Core(sh)' /\ Settled(sh)'
<1>1. CASE MainNext
  BY <1>1, MainSafe
<1>2. CASE TimerNext
  BY <1>2, TimerFiresSafe DEF TimerNext
<1>3. CASE UserNext
  BY <1>3, UserSafe
<1>4. CASE QemuNext
  <2>1. "halfApplied" \notin AddOutcomes
    BY DEF Orderly
  <2> QED BY <1>4, <2>1, QemuAddSafe, QemuRemoveSafe DEF QemuNext
<1>5. CASE AgentNext
  BY <1>5, AgentLaunchSafe, AgentCloseSafe DEF AgentNext
<1>6. CASE MonitorNext
  BY <1>6, MonitorReapsSafe, MonitorResetsSafe, MonitorRestartsSafe DEF MonitorNext
<1>7. CASE FaultNext
  BY <1>7, FaultSafe
<1> QED BY <1>1, <1>2, <1>3, <1>4, <1>5, <1>6, <1>7 DEF Next

\* The variables beside the delegate.
Others ==
    /\ timers \subseteq [d : Displays, app : Apps, n : 1..MaxLaunches]
    /\ exists \subseteq Displays
    /\ task \in [Apps -> Displays \cup {Stopped, Hidden}]
    /\ qemu \in {"up", "down"} /\ pidKnown \in BOOLEAN /\ channel \in {"alive", "dead"}
    /\ monitor \in {"waiting", "resetting", "restarting"}
    /\ agent \in {"none", "live", "stale"}
    /\ launches \in 0..MaxLaunches /\ resizes \in 0..MaxResizes /\ faults \in 0..MaxFaults

LEMMA OneFault ==
  ASSUME TypeOK, Fault
  PROVE  UNCHANGED <<launches, resizes>> /\ faults' \in 0..MaxFaults
BY AppDisplaysAssumptions DEF TypeOK, Fault

\* No step but a REMOVE under a running task hides a task.
LEMMA OthersStep ==
  ASSUME TypeOK, Core(sh), Settled(sh), NoHiddenTask, Next
  PROVE  Others' /\ NoHiddenTask'
<1>1. Others /\ sh \in ShellType
  BY DEF TypeOK, Others
<1>2. Stopped # Hidden /\ \A d \in Displays : d # Hidden
  BY AppDisplaysAssumptions DEF Stopped, Hidden, Displays
<1>3. ASSUME UNCHANGED <<backend, bounds>>, timers' \subseteq timers
      PROVE  Others' /\ NoHiddenTask'
  BY <1>1, <1>3 DEF Others, NoHiddenTask, backend, bounds
<1>4. CASE MainNext
  <2>1. CASE AddDone
    <3> DEFINE b == Head(sh.main)
               t == [d |-> b.d, app |-> b.app, n |-> b.n]
    <3>1. UNCHANGED <<backend, bounds>> /\ (UNCHANGED timers \/ timers' = timers \cup {t})
      BY <2>1 DEF AddDone
    <3>2. b \in Blocks /\ b.kind = "add"
      BY <1>1, <2>1, TailFacts DEF AddDone, NextBlock, ShellType
    <3>3. t \in [d : Displays, app : Apps, n : 1..MaxLaunches]
      BY <3>2 DEF Blocks
    <3> HIDE DEF t
    <3> QED BY <1>1, <3>1, <3>3 DEF Others, NoHiddenTask, backend, bounds
  <2>2. CASE ResetAfterExit
    <3>1. /\ monitor' = "restarting"
          /\ UNCHANGED <<timers, exists, task, qemu, pidKnown, channel, agent, bounds>>
      BY <2>2 DEF ResetAfterExit
    <3> QED BY <1>1, <3>1 DEF Others, NoHiddenTask, bounds
  <2>3. CASE \/ LaunchDone \/ CloseDone \/ CleanupDone \/ DisplayAdded \/ DisplayRemoved
             \/ ResizeDone \/ AgentConnected \/ AgentDisconnected
    <3>1. UNCHANGED <<backend, bounds>> /\ UNCHANGED timers
      BY <2>3 DEF LaunchDone, CloseDone, CleanupDone, DisplayAdded, DisplayRemoved, ResizeDone,
                  AgentConnected, AgentDisconnected
    <3> QED BY <1>3, <3>1
  <2> QED BY <1>4, <2>1, <2>2, <2>3 DEF MainNext
<1>5. CASE TimerNext
  <2>1. UNCHANGED <<backend, bounds>> /\ timers' \subseteq timers
    BY <1>5 DEF TimerNext, TimerFires
  <2> QED BY <1>3, <2>1
<1>6. CASE UserNext
  <2>1. ASSUME NEW a \in Apps, Launch(a) PROVE Others' /\ NoHiddenTask'
    <3>1. UNCHANGED <<timers, backend, resizes, faults>> /\ launches' = launches + 1
          /\ launches < MaxLaunches
      BY <2>1 DEF Launch
    <3>2. launches' \in 0..MaxLaunches
      BY <1>1, <3>1, AppDisplaysAssumptions DEF Others
    <3> QED BY <1>1, <3>1, <3>2 DEF Others, NoHiddenTask, backend
  <2>2. ASSUME NEW d \in Displays, UserCloses(d) \/ PresentFrame(d) PROVE Others' /\ NoHiddenTask'
    <3>1. UNCHANGED <<backend, bounds>> /\ UNCHANGED timers
      BY <2>2 DEF UserCloses, PresentFrame
    <3> QED BY <1>3, <3>1
  <2>3. ASSUME NEW d \in Displays, Resize(d) PROVE Others' /\ NoHiddenTask'
    <3>1. UNCHANGED <<timers, backend, launches, faults>> /\ resizes' = resizes + 1
          /\ resizes < MaxResizes
      BY <2>3 DEF Resize
    <3>2. resizes' \in 0..MaxResizes
      BY <1>1, <3>1, AppDisplaysAssumptions DEF Others
    <3> QED BY <1>1, <3>1, <3>2 DEF Others, NoHiddenTask, backend
  <2> QED BY <1>6, <2>1, <2>2, <2>3 DEF UserNext
<1>7. CASE QemuNext
  <2>1. /\ UNCHANGED <<timers, qemu, pidKnown, channel, monitor, agent, bounds, task>>
        /\ exists' \subseteq Displays
    <3>1. CASE QemuAdd
      <4>1. /\ UNCHANGED <<timers, task, qemu, pidKnown, channel, monitor, agent, bounds>>
            /\ exists' = exists \/ exists' = exists \cup {Head(sh.ctl).d}
        BY <3>1 DEF QemuAdd
      <4>2. Head(sh.ctl) \in Requests
        BY <1>1, <3>1, TailFacts DEF QemuAdd, ShellType
      <4>3. Head(sh.ctl).d \in Displays
        BY <4>2 DEF Requests
      <4> QED BY <1>1, <4>1, <4>3 DEF Others
    <3>2. CASE QemuRemove
      <4>1. UNCHANGED task
        BY <3>2, QemuRemoveSafe
      <4>2. /\ UNCHANGED <<timers, qemu, pidKnown, channel, monitor, agent, bounds>>
            /\ exists' \subseteq exists
        BY <3>2 DEF QemuRemove
      <4> QED BY <1>1, <4>1, <4>2 DEF Others
    <3> QED BY <1>7, <3>1, <3>2 DEF QemuNext
  <2> QED BY <1>1, <2>1 DEF Others, NoHiddenTask, bounds
<1>8. CASE AgentNext
  <2> DEFINE c == Head(sh.cmds)
  <2>1. /\ UNCHANGED <<timers, exists, qemu, pidKnown, channel, monitor, agent, bounds>>
        /\ sh.cmds # <<>>
        /\ \/ UNCHANGED task
           \/ task' = [task EXCEPT ![c.app] = Stopped]
           \/ task' = [task EXCEPT ![c.app] = c.d]
    BY <1>8 DEF AgentNext, AgentLaunch, AgentClose
  <2>2. c \in Commands
    BY <1>1, <2>1, TailFacts DEF ShellType
  <2>3. c.app \in Apps /\ c.d \in Displays
    BY <2>2 DEF Commands
  <2> HIDE DEF c
  <2>4. /\ task' \in [Apps -> Displays \cup {Stopped, Hidden}]
        /\ \A a \in Apps : task'[a] = task[a] \/ task'[a] = Stopped \/ task'[a] = c.d
    BY <1>1, <2>1, <2>3 DEF Others
  <2>5. NoHiddenTask'
    BY <1>2, <2>3, <2>4 DEF NoHiddenTask
  <2> QED BY <1>1, <2>1, <2>4, <2>5 DEF Others, bounds
<1>9. CASE MonitorNext
  <2>1. /\ UNCHANGED <<timers, exists, task, agent, bounds>>
        /\ monitor' \in {"waiting", "resetting", "restarting"}
        /\ channel' \in {"alive", "dead"} /\ qemu' \in {"up", "down"} /\ pidKnown' \in BOOLEAN
    BY <1>1, <1>9 DEF Others, MonitorNext, MonitorReaps, MonitorResets, MonitorRestarts
  <2> QED BY <1>1, <2>1 DEF Others, NoHiddenTask, bounds
<1>10. CASE FaultNext
  <2>1. CASE \E i : AddTimesOut(i) \/ CommandTimesOut(i)
    <3>1. Fault /\ UNCHANGED <<timers, backend>>
      BY <2>1 DEF AddTimesOut, CommandTimesOut
    <3>2. UNCHANGED <<launches, resizes>> /\ faults' \in 0..MaxFaults
      BY <3>1, OneFault
    <3> QED BY <1>1, <3>1, <3>2 DEF Others, NoHiddenTask, backend
  <2>2. CASE AgentDrops
    <3>1. /\ UNCHANGED <<timers, exists, task, qemu, pidKnown, channel, monitor>>
          /\ agent' = "none" /\ (Fault \/ UNCHANGED bounds)
      BY <2>2 DEF AgentDrops
    <3>2. UNCHANGED <<launches, resizes>> /\ faults' \in 0..MaxFaults
      BY <1>1, <3>1, OneFault DEF Others, bounds
    <3> QED BY <1>1, <3>1, <3>2 DEF Others, NoHiddenTask
  <2>3. CASE AgentConnects
    <3>1. /\ UNCHANGED <<timers, exists, task, qemu, pidKnown, channel, monitor, bounds>>
          /\ agent' = "live"
      BY <2>3 DEF AgentConnects
    <3> QED BY <1>1, <3>1 DEF Others, NoHiddenTask, bounds
  <2>4. CASE ChannelDies
    <3>1. /\ UNCHANGED <<timers, exists, task, qemu, pidKnown, monitor, agent>>
          /\ channel' = "dead" /\ (Fault \/ UNCHANGED bounds)
      BY <2>4 DEF ChannelDies
    <3>2. UNCHANGED <<launches, resizes>> /\ faults' \in 0..MaxFaults
      BY <1>1, <3>1, OneFault DEF Others, bounds
    <3> QED BY <1>1, <3>1, <3>2 DEF Others, NoHiddenTask
  <2>5. CASE QemuExits
    <3>1. /\ UNCHANGED <<timers, pidKnown, channel, monitor>> /\ Fault
          /\ qemu' = "down" /\ exists' = {} /\ task' = [a \in Apps |-> Stopped]
          /\ agent' = (IF agent = "live" THEN "stale" ELSE agent)
      BY <2>5 DEF QemuExits
    <3>2. UNCHANGED <<launches, resizes>> /\ faults' \in 0..MaxFaults
      BY <3>1, OneFault
    <3>3. task' \in [Apps -> Displays \cup {Stopped, Hidden}] /\ NoHiddenTask'
      BY <1>2, <3>1 DEF NoHiddenTask
    <3> QED BY <1>1, <3>1, <3>2, <3>3 DEF Others
  <2> QED BY <1>10, <2>1, <2>2, <2>3, <2>4, <2>5 DEF FaultNext
<1> QED BY <1>4, <1>5, <1>6, <1>7, <1>8, <1>9, <1>10 DEF Next

LEMMA DisplaysInit ==
  ASSUME Init
  PROVE  DisplaysInv
<1>1. /\ sh.windows = {} /\ sh.pending = {} /\ sh.inFlight = {} /\ sh.closing = {}
      /\ sh.launchFailed = {} /\ sh.deferred = {} /\ sh.resizing = {} /\ sh.removal = {}
      /\ sh.active = {} /\ sh.ctl = <<>> /\ sh.cmds = <<>> /\ sh.main = <<>>
      /\ (\A d \in Displays : sh.binding[d] = NoApp) /\ (\A a \in Apps : sh.appDisplay[a] = 0)
      /\ sh.agentConnected = FALSE
      /\ sh \in ShellType
  BY DEF Init, NoShell, ShellType
<1>2. /\ timers = {} /\ exists = {} /\ task = [a \in Apps |-> Stopped] /\ qemu = "up"
      /\ pidKnown = TRUE /\ channel = "alive" /\ monitor = "waiting" /\ agent = "none"
      /\ launches = 0 /\ resizes = 0 /\ faults = 0
  BY DEF Init
<1>3. DOMAIN sh.ctl = {} /\ DOMAIN sh.cmds = {} /\ DOMAIN sh.main = {}
  BY <1>1
<1>4. /\ \A a \in Apps : task[a] = Stopped /\ task[a] \notin Displays /\ task[a] # Hidden
  BY <1>2, AppDisplaysAssumptions DEF Stopped, Hidden, Displays
<1>5. TypeOK
  BY <1>1, <1>2, AppDisplaysAssumptions DEF TypeOK
<1>6. Tables(sh) /\ Settled(sh)
  BY <1>1, AppDisplaysAssumptions DEF Tables, Settled, SettledAt
<1>7. Owned(sh) /\ RemoveLast(sh) /\ AddAlone(sh) /\ AddsFresh(sh)
  BY <1>2, <1>3 DEF Owned, RemoveLast, AddAlone, AddsFresh
<1>8. TimersFirst(sh) /\ LaunchesBound(sh)
  BY <1>1, <1>2, <1>3, <1>4 DEF TimersFirst, LaunchesBound
<1>9. LaunchOnce(sh) /\ ClosesBound(sh) /\ StopsHold(sh) /\ ResetLast(sh)
  BY <1>3 DEF LaunchOnce, ClosesBound, StopsHold, ResetLast
<1>10. Processes(sh)
  BY <1>2, <1>3 DEF Processes
<1> QED BY <1>4, <1>5, <1>6, <1>7, <1>8, <1>9, <1>10 DEF DisplaysInv, Core, NoHiddenTask

LEMMA DisplaysStep ==
  ASSUME Orderly, DisplaysInv, [Next]_vars
  PROVE  DisplaysInv'
<1>1. TypeOK /\ Core(sh) /\ Settled(sh) /\ NoHiddenTask
  BY DEF DisplaysInv
<1>2. CASE Next
  <2>1. sh' \in ShellType /\ Core(sh)' /\ Settled(sh)'
    BY <1>1, <1>2, StepSafe
  <2>2. Others' /\ NoHiddenTask'
    BY <1>1, <1>2, OthersStep
  <2>3. TypeOK'
    BY <2>1, <2>2 DEF TypeOK, Others
  <2> QED BY <2>1, <2>2, <2>3 DEF DisplaysInv
<1>3. CASE UNCHANGED vars
  <2>1. sh' = sh /\ UNCHANGED <<timers, backend, launches, resizes, faults>>
    BY <1>3 DEF vars, backend
  <2>2. Kept(sh')
    BY <1>1, <2>1 DEF Kept, TypeOK
  <2>3. Core(sh)' /\ Settled(sh)'
    BY <2>1, <2>2, DelegateAlone
  <2>4. TypeOK' /\ NoHiddenTask'
    BY <1>1, <2>1 DEF TypeOK, NoHiddenTask, backend
  <2> QED BY <2>3, <2>4 DEF DisplaysInv
<1> QED BY <1>2, <1>3

\* What the invariant says of the delegate's tables and of a free id.
LEMMA DisplaysInvImplies ==
  ASSUME DisplaysInv
  PROVE  TypeOK /\ BindingsConsistent /\ FreeIdClean /\ NoHiddenTask
<1>1. TypeOK /\ Core(sh) /\ Settled(sh) /\ NoHiddenTask /\ sh \in ShellType
  BY DEF DisplaysInv, TypeOK
<1>2. /\ sh.windows \subseteq Displays /\ sh.active \subseteq Displays
      /\ sh.launchFailed \subseteq Displays /\ sh.deferred \subseteq Displays
      /\ sh.resizing \subseteq Displays
  BY <1>1 DEF ShellType
<1>3. BindingsConsistent
  BY <1>1, <1>2
     DEF Core, Tables, Settled, SettledAt, BindingsConsistent, Bound, Reserved
<1>4. FreeIdClean
  BY <1>1 DEF Core, Owned, FreeIdClean, Reserved, ReservedIn, DisplayKinds
<1> QED BY <1>1, <1>3, <1>4

-----------------------------------------------------------------------------
(* The theorems. *)

\* The inductive invariant of the display transactions: whatever is on its way
\* in the two backends' queues, the main queue and the 0.2 s blocks finds in the
\* delegate's tables what its handler expects, in every order of the callbacks,
\* timeouts, disconnects and exits.
THEOREM DisplaysSafe ==
  ASSUME Orderly
  PROVE  Spec => []DisplaysInv
<1>1. Init => DisplaysInv
  BY DisplaysInit
<1>2. DisplaysInv /\ [Next]_vars => DisplaysInv'
  BY DisplaysStep
<1> QED BY <1>1, <1>2, PTL DEF Spec

\* Type correctness: the tables, the queues and the processes keep their types;
\* in particular every answer, timeout and event names a display and an
\* application that the delegate's maps can be indexed with.
THEOREM DisplaysTypeCorrect ==
  ASSUME Orderly
  PROVE  Spec => []TypeOK
<1>1. DisplaysInv => TypeOK
  BY DisplaysInvImplies
<1> QED BY <1>1, DisplaysSafe, PTL

\* _displayAppBindings and _appDisplayBindings stay inverse to each other, no
\* flag or window outlives its binding, and no id leaks, however many
\* applications, displays, launches, rotations and faults there are.
THEOREM BindingsStayConsistent ==
  ASSUME Orderly
  PROVE  Spec => []BindingsConsistent
<1>1. DisplaysInv => BindingsConsistent
  BY DisplaysInvImplies
<1> QED BY <1>1, DisplaysSafe, PTL

\* allocateUserDisplayId never hands out an id that qemu still has a display,
\* a request or an event of.
THEOREM FreeIdsAreClean ==
  ASSUME Orderly
  PROVE  Spec => []FreeIdClean
<1>1. DisplaysInv => FreeIdClean
  BY DisplaysInvImplies
<1> QED BY <1>1, DisplaysSafe, PTL

\* The delegate asks for the removal of a display only when no task is there and
\* no launch command can still start one, so no task is moved to display 0.
THEOREM TasksStayVisible ==
  ASSUME Orderly
  PROVE  Spec => []NoHiddenTask
<1>1. DisplaysInv => NoHiddenTask
  BY DisplaysInvImplies
<1> QED BY <1>1, DisplaysSafe, PTL
=============================================================================
