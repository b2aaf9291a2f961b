------------------------------ MODULE InputPath ------------------------------
(***************************************************************************)
(* Keyboard and touch input (macmu_input_view.mm, hid_keyboard.cpp,        *)
(* guest_input_sender.cpp, input_sender.cpp, MacMuAgent.java).  A view     *)
(* keeps the keys it has reported and the touch it has begun.  Keyboard    *)
(* reports go to the guest agent, over a connection that either side may   *)
(* lose; a touch goes to the agent or, when the agent is not there, over   *)
(* the datagram socket that qemu inherits.  Hover, scrolling, the other    *)
(* mouse buttons and coordinates are left out, and so are failures of      *)
(* Android's own input services.  A display that has gone does not come    *)
(* back until the next qemu.                                               *)
(*                                                                         *)
(* One pair of modifiers stands for all four.  A gesture has a number of   *)
(* its own (ghost), so that the properties can tell two gestures apart.    *)
(***************************************************************************)
EXTENDS Naturals, Sequences, FiniteSets

CONSTANTS
    Displays,    \* displays, each with a window and a view
    None,
    Keys,        \* ordinary keys
    Caps,        \* Caps Lock
    LeftMod, RightMod,
    ReportKeys,  \* ordinary keys a report has room for (6)
    Room,        \* lines or packets a socket holds
    MaxInputs,   \* bound: keystrokes and gestures
    MaxLeaving,  \* bound: displays of a qemu that go or whose window is closed
    MaxRestarts, MaxReconnects  \* bounds: qemu's deaths, the agent's connections

Mods == {LeftMod, RightMod}
Ordinary == Keys \cup {Caps}
\* mac_virtual_key_to_hid_usage
Usages == Ordinary \cup Mods
\* What a report says of its keys when there is no room for them.
Rollover == "rollover"

ASSUME InputAssumptions ==
    /\ None \notin Displays
    /\ Caps \notin Keys /\ LeftMod # RightMod /\ Mods \cap Ordinary = {}
    /\ Rollover \notin Ordinary /\ IsFiniteSet(Keys)
    /\ ReportKeys \in Nat /\ Room \in Nat \ {0}
    /\ MaxInputs \in Nat /\ MaxLeaving \in Nat /\ MaxRestarts \in Nat /\ MaxReconnects \in Nat

VARIABLES
    held,       \* keys the user holds down
    keyWindow,  \* the display whose window has the focus, or None
    pressed,    \* [Displays -> SUBSET Usages]: HidKeyboardState
    touch,      \* [Displays -> [on, g]]: _leftTouchActive and _leftTouchTransport
    grab,       \* the view that gets the drags of the button held down, or None
    writeFd,    \* m_writeFd: "none", "open", "stale" (the other end is gone)
    pipe,       \* lines sent and not read
    agent,      \* the agent's input thread: "away", "connecting", "connected"
    window,     \* [Displays -> {"open", "closing", "closed"}]; closing: the agent has not
                \* run the close command yet
    display,    \* [Displays -> {"live", "stale", "gone"}]: stale is gone from Android and
                \* not from displayIdCache
    shown,      \* [Displays -> SUBSET Usages]: keys Android sees held down
    finger,     \* [d, g]: the touch the agent has down, g = 0 for none, d = None when the
                \* display has gone
    qemu,       \* "up", "dead", "disabled", "down", "starting"
    enabled,    \* InputSender::m_enabled
    queue,      \* packets in the socket qemu inherits: the gestures they are of
    blind,      \* a modifier was held when the focus came (ghost)
    since,      \* the inputs before this qemu (ghost)
    ended,      \* the last gesture the user has ended (ghost)
    inputs, restarts, reconnects  \* counts against the bounds; inputs numbers the gestures

vars == <<held, keyWindow, pressed, touch, grab, writeFd, pipe, agent, window, display, shown,
          finger, qemu, enabled, queue, blind, since, ended, inputs, restarts, reconnects>>
user == <<held, keyWindow, window, grab, blind, inputs>>
view == <<pressed, touch>>
wire == <<writeFd, pipe>>
guest == <<agent, display, shown, finger, reconnects>>
process == <<qemu, enabled, restarts>>
gesture == <<since, ended>>

\* The bound on the displays that leave.
MayLeave(d) ==
    Cardinality({e \in Displays : window[e] # "open" \/ display[e] # "live"} \cup {d})
        <= MaxLeaving

NoTouch == [on |-> "none", g |-> 0]
NoFinger == [d |-> None, g |-> 0]

\* The report of HidKeyboardState: rebuild_keys gives up when there are more
\* ordinary keys than fit.
KeyLine(d, S) ==
    [kind |-> "keys", d |-> d, mods |-> S \cap Mods,
     keys |-> IF Cardinality(S \cap Ordinary) > ReportKeys THEN {Rollover} ELSE S \cap Ordinary]
TouchLine(kind, d, g) == [kind |-> kind, d |-> d, g |-> g]
TouchKinds == {"begin", "move", "end"}

TouchLines == [kind : TouchKinds, d : Displays, g : 1..MaxInputs]
KeyLines == [kind : {"keys"}, d : Displays, mods : SUBSET Mods,
             keys : (SUBSET Ordinary) \cup {{Rollover}}]

TypeOK ==
    /\ held \subseteq Usages
    /\ keyWindow \in Displays \cup {None} /\ grab \in Displays \cup {None}
    /\ pressed \in [Displays -> SUBSET Usages]
    /\ touch \in [Displays -> [on : {"none", "agent", "direct"}, g : 0..MaxInputs]]
    /\ writeFd \in {"none", "open", "stale"} /\ agent \in {"away", "connecting", "connected"}
    /\ pipe \in Seq(TouchLines \cup KeyLines) /\ Len(pipe) <= Room + 1
    /\ window \in [Displays -> {"open", "closing", "closed"}]
    /\ display \in [Displays -> {"live", "stale", "gone"}]
    /\ shown \in [Displays -> SUBSET Usages]
    /\ finger \in [d : Displays \cup {None}, g : 0..MaxInputs]
    /\ qemu \in {"up", "dead", "disabled", "down", "starting"} /\ enabled \in BOOLEAN
    /\ queue \in Seq(1..MaxInputs) /\ Len(queue) <= Room
    /\ blind \in BOOLEAN /\ since \in 0..MaxInputs /\ ended \in 0..MaxInputs
    /\ inputs \in 0..MaxInputs /\ restarts \in 0..MaxRestarts /\ reconnects \in 0..MaxReconnects

Init ==
    /\ held = {} /\ keyWindow = None /\ grab = None
    /\ pressed = [d \in Displays |-> {}] /\ touch = [d \in Displays |-> NoTouch]
    /\ writeFd = "none" /\ pipe = <<>> /\ agent = "away"
    /\ window = [d \in Displays |-> "open"] /\ display = [d \in Displays |-> "live"]
    /\ shown = [d \in Displays |-> {}] /\ finger = NoFinger
    /\ qemu = "up" /\ enabled = TRUE /\ queue = <<>>
    /\ blind = FALSE /\ since = 0 /\ ended = 0
    /\ inputs = 0 /\ restarts = 0 /\ reconnects = 0

-----------------------------------------------------------------------------
(* GuestInputSender::send_line and InputSender::send_packet: what a send     *)
(* may leave.                                                                *)

\* Mutant: a reliable line that finds no room is given up like any other.
SendLineKeepsOpen(fd, lines, line, reliable) ==
    CASE fd = "none" -> {[fd |-> "none", lines |-> lines, ok |-> FALSE]}
      [] fd = "stale" -> {[fd |-> "none", lines |-> lines, ok |-> FALSE]}
      [] fd = "open" /\ Len(lines) < Room ->
            {[fd |-> "open", lines |-> Append(lines, line), ok |-> TRUE]}
      [] OTHER -> {[fd |-> "open", lines |-> lines, ok |-> FALSE]}

\* A connection without room drops an unreliable line; a reliable one waits
\* 5 ms.  A failure and a short write close the connection; the agent reads
\* what was written as a line if the cut is late enough.
SendLine(fd, lines, line, reliable) ==
    CASE fd = "none" -> {[fd |-> "none", lines |-> lines, ok |-> FALSE]}
      [] fd = "stale" -> {[fd |-> "none", lines |-> lines, ok |-> FALSE]}
      [] fd = "open" /\ Len(lines) < Room ->
            {[fd |-> "open", lines |-> Append(lines, line), ok |-> TRUE]}
      [] OTHER ->
            [fd : IF reliable THEN {"none"} ELSE {"open", "none"}, lines : {lines}, ok : {FALSE}]
            \cup {[fd |-> "none", lines |-> Append(lines, line), ok |-> FALSE]}

Sends(line, reliable) ==
    \E r \in SendLine(writeFd, pipe, line, reliable) : writeFd' = r.fd /\ pipe' = r.lines

\* Without room the packet is lost, if reliable after 5 ms.
SendPacket(q, packet) ==
    IF enabled /\ Len(q) < Room THEN {[q |-> Append(q, packet), ok |-> TRUE]}
                                 ELSE {[q |-> q, ok |-> FALSE]}

-----------------------------------------------------------------------------
(* The keyboard of a view, on the main thread. *)

SetKey(S, usage, down) == IF down THEN S \cup {usage} ELSE S \ {usage}

\* Mutant: only the side the generic flag stands for is looked at.
SynchronizedLeftOnly(S, flag) ==
    IF flag THEN S \cup {LeftMod} ELSE S \ Mods

\* synchronizeKeyboardModifiers: a modifier held before the view got the
\* focus counts as the left one.
Synchronized(S, flag) ==
    CASE ~flag -> S \ Mods
      [] flag /\ S \cap Mods = {} -> S \cup {LeftMod}
      [] OTHER -> S

\* sendKeyboardReport, if the keys of the view have changed.
Report(d, S) ==
    /\ pressed' = [pressed EXCEPT ![d] = S]
    /\ IF S # pressed[d] THEN Sends(KeyLine(d, S), TRUE) ELSE UNCHANGED wire

Stroke ==
    /\ inputs < MaxInputs /\ inputs' = inputs + 1
    /\ UNCHANGED <<keyWindow, window, touch, grab, guest, process, queue, gesture>>

\* keyDown and keyUp; without the focus the key goes elsewhere.
Key(k, down) ==
    /\ down = (k \notin held) /\ held' = SetKey(held, k, down)
    /\ Stroke /\ blind' = (blind /\ held' \cap Mods # {})
    /\ IF keyWindow = None THEN UNCHANGED <<pressed, wire>>
       ELSE Report(keyWindow,
                   SetKey(Synchronized(pressed[keyWindow], held' \cap Mods # {}), k, down))

\* flagsChanged for a modifier.
FlagsChanged(m) ==
    /\ held' = SetKey(held, m, m \notin held)
    /\ Stroke /\ UNCHANGED blind
    /\ IF keyWindow = None THEN UNCHANGED <<pressed, wire>>
       ELSE LET S == pressed[keyWindow] IN
            Report(keyWindow, SetKey(S, m, m \notin S /\ held' \cap Mods # {}))

\* flagsChanged for Caps Lock: a pulse of two reports.
CapsLock ==
    /\ keyWindow # None /\ Stroke
    /\ LET d == keyWindow IN
       /\ \E r \in SendLine(writeFd, pipe, KeyLine(d, pressed[d] \cup {Caps}), TRUE) :
             \E s \in SendLine(r.fd, r.lines, KeyLine(d, pressed[d] \ {Caps}), TRUE) :
                writeFd' = s.fd /\ pipe' = s.lines
       /\ pressed' = [pressed EXCEPT ![d] = @ \ {Caps}]
    /\ UNCHANGED <<held, blind>>

-----------------------------------------------------------------------------
(* The focus. *)

FocusUnchanged == UNCHANGED <<held, inputs, guest, process, queue, gesture>>

BecomeKey(d) ==
    /\ keyWindow = None /\ window[d] = "open" /\ keyWindow' = d
    /\ blind' = (held \cap Mods # {})
    /\ UNCHANGED <<window, grab, view, wire>> /\ FocusUnchanged

\* Mutant: the keys are forgotten and not reported.
ResetInputStateSilently(d) ==
    /\ pressed' = [pressed EXCEPT ![d] = {}] /\ touch' = [touch EXCEPT ![d] = NoTouch]
    /\ UNCHANGED wire

\* resetInputState: the keys are released in the guest, the touch forgotten.
ResetInputState(d) ==
    /\ Report(d, {}) /\ touch' = [touch EXCEPT ![d] = NoTouch]

\* windowDidResignKey
ResignKey(d) ==
    /\ keyWindow = d /\ keyWindow' = None /\ blind' = FALSE
    /\ ResetInputState(d) /\ UNCHANGED <<window, grab>> /\ FocusUnchanged

\* windowWillClose and the teardown of the window.  The close command follows,
\* unless the window is closed because its display has gone.
CloseWindow(d) ==
    /\ window[d] = "open" /\ MayLeave(d)
    /\ \/ window' = [window EXCEPT ![d] = "closing"]
       \/ display[d] # "live" /\ window' = [window EXCEPT ![d] = "closed"]
    /\ keyWindow' = (IF keyWindow = d THEN None ELSE keyWindow)
    /\ blind' = (blind /\ keyWindow # d)
    /\ grab' = (IF grab = d THEN None ELSE grab)
    /\ ResetInputState(d) /\ FocusUnchanged

-----------------------------------------------------------------------------
(* A touch: the left mouse button in a view. *)

TouchUnchanged == UNCHANGED <<held, keyWindow, window, blind, pressed, guest, process>>

\* mouseDown: to the agent if it is ready, and to qemu if that fails.
MouseDown(d) ==
    /\ window[d] = "open" /\ grab = None /\ grab' = d /\ inputs < MaxInputs /\ inputs' = inputs + 1
    /\ \E r \in SendLine(writeFd, pipe, TouchLine("begin", d, inputs + 1), TRUE),
          s \in SendPacket(queue, inputs + 1) :
          /\ writeFd' = r.fd /\ pipe' = r.lines
          /\ IF r.ok
             THEN /\ touch' = [touch EXCEPT ![d] = [on |-> "agent", g |-> inputs + 1]]
                  /\ UNCHANGED queue
             ELSE /\ touch' = [touch EXCEPT ![d] =
                                 IF s.ok THEN [on |-> "direct", g |-> inputs + 1] ELSE NoTouch]
                  /\ queue' = s.q
    /\ UNCHANGED gesture /\ TouchUnchanged

\* One more line or packet of the touch of view d, on the transport it began.
Continue(d, kind) ==
    LET t == touch[d] line == TouchLine(kind, d, t.g) IN
    \/ t.on = "none" /\ UNCHANGED <<wire, queue>>
    \/ t.on = "agent" /\ Sends(line, kind = "end") /\ UNCHANGED queue
    \/ t.on = "direct" /\ (\E s \in SendPacket(queue, t.g) : queue' = s.q) /\ UNCHANGED wire

MouseDragged(d) ==
    /\ grab = d /\ touch[d].on # "none" /\ Continue(d, "move")
    /\ UNCHANGED <<grab, touch, gesture, inputs>> /\ TouchUnchanged

MouseUp(d) ==
    /\ grab = d /\ grab' = None
    /\ Continue(d, "end")
    /\ touch' = [touch EXCEPT ![d] = NoTouch]
    /\ ended' = IF touch[d].g > 0 THEN touch[d].g ELSE ended
    /\ UNCHANGED <<since, inputs>> /\ TouchUnchanged

-----------------------------------------------------------------------------
(* The agent: MacMuAgent.run, and the accept thread of the shell. *)

AgentUnchanged == UNCHANGED <<user, view, process, queue, gesture>>

\* The agent connects; the accept thread takes the connection after the
\* handshake, in place of any it had, or closes it.
AgentConnects ==
    /\ agent = "away" /\ qemu \in {"up", "starting"} /\ reconnects < MaxReconnects
    /\ agent' = "connecting" /\ reconnects' = reconnects + 1
    /\ UNCHANGED <<wire, display, shown, finger>> /\ AgentUnchanged

Accept ==
    /\ agent = "connecting"
    /\ \/ agent' = "connected" /\ writeFd' = "open"
       \/ agent' = "away" /\ UNCHANGED writeFd
    /\ UNCHANGED <<pipe, display, shown, finger, reconnects>> /\ AgentUnchanged

\* resolveAndroidDisplayId: an id that is not cached reads the displays again,
\* which drops every stale one.
Resolve(d) ==
    \/ display[d] # "gone" /\ UNCHANGED display
    \/ display[d] # "stale"
       /\ display' = [e \in Displays |-> IF display[e] = "stale" THEN "gone" ELSE display[e]]

\* writeUhidKeyboardReport; without the display it throws, and the report is
\* lost.  The HID driver skips the keys of a report that says rollover.
HandleKeys(line) ==
    /\ IF display[line.d] = "live"
       THEN /\ shown' = [shown EXCEPT ![line.d] =
                    line.mods \cup (IF line.keys = {Rollover} THEN @ \cap Ordinary
                                                              ELSE line.keys)]
            /\ Resolve(line.d)
       ELSE /\ display' = [display EXCEPT ![line.d] = "gone"] /\ UNCHANGED shown
    /\ UNCHANGED finger

\* Where a touch that is injected lands.
Landing(d) == IF display[d] = "live" THEN d ELSE None

\* Mutant: a touch that is still down is not cancelled by the next one.
TouchedKeepsOld(line) ==
    CASE line.kind = "begin" /\ finger.g = 0 -> [d |-> Landing(line.d), g |-> line.g]
      [] line.kind = "end" -> NoFinger
      [] OTHER -> finger

\* injectTouch: DOWN after a CANCEL of what was down, MOVE and UP only with a
\* touch down.
Touched(line) ==
    CASE line.kind = "begin" -> [d |-> Landing(line.d), g |-> line.g]
      [] line.kind = "move" /\ finger.g > 0 -> [finger EXCEPT !.d = Landing(line.d)]
      [] OTHER -> NoFinger

InjectTouch(line) ==
    /\ Resolve(line.d)
    /\ finger' = IF display[line.d] = "gone" THEN finger ELSE Touched(line)
    /\ UNCHANGED shown

HandleLine ==
    /\ agent = "connected" /\ pipe # <<>> /\ pipe' = Tail(pipe)
    /\ IF Head(pipe).kind = "keys" THEN HandleKeys(Head(pipe)) ELSE InjectTouch(Head(pipe))
    /\ UNCHANGED <<writeFd, agent, reconnects>> /\ AgentUnchanged

\* Mutant: the keyboards survive the connection.
HostGoneKeepsKeyboards ==
    /\ agent = "connected" /\ pipe = <<>> /\ writeFd # "open"
    /\ agent' = "away" /\ finger' = NoFinger
    /\ UNCHANGED <<wire, display, shown, reconnects>> /\ AgentUnchanged

\* End of file: resetPointerState, closeAllUhidKeyboards.
HostGone ==
    /\ agent = "connected" /\ pipe = <<>> /\ writeFd # "open"
    /\ agent' = "away" /\ finger' = NoFinger /\ shown' = [d \in Displays |-> {}]
    /\ UNCHANGED <<wire, display, reconnects>> /\ AgentUnchanged

\* The close command, on the agent's other thread: closeUhidKeyboard and
\* invalidateDisplayId.
CloseComponent(d) ==
    /\ window[d] = "closing" /\ qemu = "up" /\ window' = [window EXCEPT ![d] = "closed"]
    /\ shown' = [shown EXCEPT ![d] = {}]
    /\ display' = [display EXCEPT ![d] = IF @ = "live" THEN @ ELSE "gone"]
    /\ UNCHANGED <<wire, agent, finger, reconnects>>
    /\ UNCHANGED <<held, keyWindow, grab, blind, inputs, view, process, queue, gesture>>

\* The display goes, before or after its window.  Its keyboard goes with it; the
\* agent does not notice.
DisplayGoes(d) ==
    /\ display[d] = "live" /\ qemu = "up" /\ MayLeave(d)
    /\ \E s \in {"stale", "gone"} : display' = [display EXCEPT ![d] = s]
    /\ shown' = [shown EXCEPT ![d] = {}]
    /\ finger' = IF finger.d = d THEN [finger EXCEPT !.d = None] ELSE finger
    /\ UNCHANGED <<wire, agent, reconnects>> /\ AgentUnchanged

-----------------------------------------------------------------------------
(* qemu, and the monitor thread when it has gone. *)

ProcessUnchanged == UNCHANGED <<held, inputs, ended, reconnects>>

QemuDies ==
    /\ qemu = "up" /\ restarts < MaxRestarts
    /\ qemu' = "dead" /\ restarts' = restarts + 1
    /\ agent' = "away" /\ pipe' = <<>>
    /\ writeFd' \in (IF agent = "connecting" THEN {"stale"} ELSE {})
                     \cup {IF writeFd = "open" THEN "stale" ELSE writeFd}
    /\ display' = [d \in Displays |-> "gone"]
    /\ shown' = [d \in Displays |-> {}] /\ finger' = NoFinger
    /\ UNCHANGED <<keyWindow, blind, window, grab, view, enabled, queue, since>>
    /\ ProcessUnchanged

\* Mutant: what is in the socket stays there.
DisableKeepsQueue ==
    /\ qemu = "dead" /\ qemu' = "disabled" /\ enabled' = FALSE
    /\ UNCHANGED <<keyWindow, window, grab, view, wire, agent, display, shown, finger, restarts>>
    /\ UNCHANGED <<blind, queue, since>> /\ ProcessUnchanged

\* set_enabled(false) drops the packets nobody will read.
Disable ==
    /\ qemu = "dead" /\ qemu' = "disabled" /\ enabled' = FALSE /\ queue' = <<>>
    /\ UNCHANGED <<keyWindow, blind, window, grab, view, wire, agent, display, shown, finger>>
    /\ UNCHANGED <<restarts, since>> /\ ProcessUnchanged

\* resetSecondaryDisplayStateAfterQemuExit on the main thread: every window is
\* reset and closed.  There is no connection that could carry a report.
ResetAll ==
    /\ qemu = "disabled" /\ qemu' = "down"
    /\ pressed' = [d \in Displays |-> {}] /\ touch' = [d \in Displays |-> NoTouch]
    /\ writeFd' = IF \E d \in Displays : pressed[d] # {} THEN "none" ELSE writeFd
    /\ keyWindow' = None /\ blind' = FALSE /\ grab' = None
    /\ window' = [d \in Displays |-> "closed"]
    /\ UNCHANGED <<pipe, agent, display, shown, finger, enabled, restarts, queue, since>>
    /\ ProcessUnchanged

\* The next qemu inherits the same socket; set_enabled(true) follows, and later
\* its displays and their windows.
Launch ==
    /\ \/ /\ qemu = "down" /\ qemu' = "starting" /\ since' = inputs
          /\ UNCHANGED <<enabled, display, window>>
       \/ /\ qemu = "starting" /\ qemu' = "up" /\ enabled' = TRUE
          /\ display' = [d \in Displays |-> "live"] /\ window' = [d \in Displays |-> "open"]
          /\ UNCHANGED since
    /\ UNCHANGED <<keyWindow, grab, blind, view, wire, agent, shown, finger, restarts, queue>>
    /\ ProcessUnchanged

\* macmu-input-receiver: thread_loop reads a packet and delivers it.
Receive ==
    /\ qemu \in {"up", "starting"} /\ queue # <<>> /\ queue' = Tail(queue)
    /\ UNCHANGED <<user, view, wire, guest, process, gesture>>

-----------------------------------------------------------------------------
ViewNext ==
    \/ \E k \in Keys, down \in BOOLEAN : Key(k, down)
    \/ \E m \in Mods : FlagsChanged(m)
    \/ CapsLock
    \/ \E d \in Displays :
          \/ BecomeKey(d) \/ ResignKey(d) \/ CloseWindow(d)
          \/ MouseDown(d) \/ MouseDragged(d) \/ MouseUp(d)
AgentNext == HandleLine \/ HostGone
GuestNext == AgentConnects \/ Accept \/ \E d \in Displays : (CloseComponent(d) \/ DisplayGoes(d))
QemuNext == QemuDies \/ Disable \/ ResetAll \/ Launch \/ Receive

Next == ViewNext \/ AgentNext \/ GuestNext \/ QemuNext

Spec == Init /\ [][Next]_vars

\* The agent's input thread runs.
FairSpec == Spec /\ WF_vars(AgentNext)

-----------------------------------------------------------------------------
(* Properties. *)

\* No key is stuck: once the agent has read everything, Android holds down
\* only keys that the view has reported, however connections failed meanwhile.
\* (With more keys down than fit a report Android keeps its last picture.)
KeysFollow ==
    \A d \in Displays :
        /\ agent = "connected" /\ writeFd = "open" /\ pipe = <<>>
        /\ Cardinality(pressed[d] \cap Ordinary) <= ReportKeys
        => shown[d] \subseteq pressed[d]

\* The toggles of flagsChanged and the generic flags that keyDown and keyUp
\* bring never disagree: the view with the focus holds exactly the modifiers,
\* and the sides, that the user does.  Only a modifier that was down when the
\* focus came may be taken for the other side, until a key comes without it.
ModsExact ==
    keyWindow # None /\ ~blind => pressed[keyWindow] \cap Mods = held \cap Mods

\* What windowDidResignKey is for: a window that has lost the focus leaves no
\* key behind in the guest, although the report that says so may be lost.
KeysReleased == \A d \in Displays : keyWindow # d ~> (shown[d] = {} \/ keyWindow = d)

\* Android never gets the rest of one gesture as part of another: a MOVE or UP
\* belongs to the touch that is down, on its display.
TouchWhole ==
    [][ LET line == Head(pipe) IN
        HandleLine /\ line.kind \in {"move", "end"} /\ finger' # finger /\ finger.g > 0
            => line.g = finger.g /\ finger.d \in {line.d, None} ]_vars

\* A gesture the user has ended does not stay down on a display of the guest,
\* whether its end arrives or the connection is lost over it.
TouchEnds == \A g \in 1..MaxInputs : ended = g ~> (finger.g # g \/ finger.d = None)

\* A qemu never reads a packet of a gesture begun with the one before it.
FreshPackets ==
    qemu \in {"up", "starting"} => \A i \in 1..Len(queue) : queue[i] > since
=============================================================================
