--------------------------- MODULE InputPathProofs ---------------------------
(***************************************************************************)
(* The safety of keyboard and touch input, for any displays, keys, room in *)
(* the sockets, inputs, reconnections and deaths of qemu.  What the        *)
(* properties need besides the types:                                      *)
(*  - KeysFollow looks at an empty pipe only.  While lines are under way   *)
(*    it is the last report of a view that says what the view holds; a     *)
(*    report that is lost takes the connection with it.                    *)
(*  - TouchWhole looks at the line that is read.  What makes it true is    *)
(*    that the lines between two begins are of one gesture, which is the   *)
(*    view's at the end of the pipe and the finger's at its start.         *)
(*  - ModsExact needs that a view without the focus has no key down, and   *)
(*    FreshPackets that a view still has a touch only with the qemu it     *)
(*    began with.                                                          *)
(***************************************************************************)
EXTENDS InputPath, FiniteSetTheorems, TLAPS

\* A line of the agent's connection.
LineType ==
    [kind : TouchKinds, d : Displays, g : Nat]
    \cup [kind : {"keys"}, d : Displays, mods : SUBSET Mods,
          keys : (SUBSET Ordinary) \cup {{Rollover}}]
TouchType == [on : {"none", "agent", "direct"}, g : Nat]
FingerType == [d : Displays \cup {None}, g : Nat]
Fds == {"none", "open", "stale"}

Types ==
    /\ keyWindow \in Displays \cup {None} /\ grab \in Displays \cup {None}
    /\ pressed \in [Displays -> SUBSET Usages] /\ touch \in [Displays -> TouchType]
    /\ writeFd \in Fds /\ pipe \in Seq(LineType)
    /\ agent \in {"away", "connecting", "connected"}
    /\ window \in [Displays -> {"open", "closing", "closed"}]
    /\ display \in [Displays -> {"live", "stale", "gone"}]
    /\ shown \in [Displays -> SUBSET Usages] /\ finger \in FingerType
    /\ qemu \in {"up", "dead", "disabled", "down", "starting"}
    /\ queue \in Seq(Nat) /\ inputs \in Nat /\ since \in Nat

\* The connection: the agent has nothing unread and nothing down without one.
LinkInv ==
    /\ writeFd = "open" => agent = "connected"
    /\ agent # "connected" =>
         pipe = <<>> /\ finger = NoFinger /\ \A d \in Displays : shown[d] = {}
    /\ qemu \in {"dead", "disabled", "down"} => agent = "away"

\* Between two qemus no window is open and no view has anything to say.
DownInv ==
    /\ enabled => qemu \in {"up", "dead"}
    /\ qemu \in {"disabled", "down", "starting"} => queue = <<>>
    /\ qemu \in {"down", "starting"} =>
         /\ keyWindow = None /\ grab = None /\ pipe = <<>>
         /\ \A d \in Displays : window[d] = "closed" /\ touch[d] = NoTouch

\* A view without the focus has no key down.
FocusInv ==
    /\ \A d \in Displays : keyWindow # d => pressed[d] = {}
    /\ ModsExact

\* The gestures of this qemu, in the queue and in the views.
PacketInv ==
    /\ since <= inputs
    /\ qemu \in {"up", "dead"} =>
         /\ \A i \in 1..Len(queue) : queue[i] > since
         /\ \A d \in Displays : touch[d].on # "none" => touch[d].g > since

\* No begin among the lines i..j of pipe p; the lines of p that are of a touch.
NoBegin(p, i, j) == \A k \in i..j : p[k].kind # "begin"
Touches(p) == {i \in 1..Len(p) : p[i].kind # "keys"}

\* The finger f that the agent has down is the one that a line of gesture g on
\* display d continues, if the line comes to it next; D are the displays.
Continues(f, D, d, g) == f.g = 0 \/ D[d] = "gone" \/ (f.g = g /\ f.d \in {d, None})

\* Between two begins of p all lines are of one gesture; those that no begin
\* precedes continue the agent's.
OneGesture(p) ==
    \A i, j \in Touches(p) : i < j /\ NoBegin(p, i + 1, j) => p[i].g = p[j].g /\ p[i].d = p[j].d
FirstContinue(p, f, D) ==
    \A j \in Touches(p) : NoBegin(p, 1, j) => Continues(f, D, p[j].d, p[j].g)
\* Gesture g on display d is the last in p, and without a begin in p the agent's.
LastIs(p, f, D, d, g) ==
    /\ \A i \in Touches(p) : NoBegin(p, i + 1, Len(p)) => p[i].g = g /\ p[i].d = d
    /\ NoBegin(p, 1, Len(p)) => Continues(f, D, d, g)

\* What is of one gesture stays together from the view to the finger.
GestureInv ==
    /\ \A d \in Displays : touch[d].on # "none" => grab = d
    /\ OneGesture(pipe) /\ FirstContinue(pipe, finger, display)
    /\ \A d \in Displays : touch[d].on = "agent" => LastIs(pipe, finger, display, d, touch[d].g)

\* The reports of view d in pipe p, and that the last of them is of the keys S.
Fits(S) == Cardinality(S \cap Ordinary) <= ReportKeys
Reports(p, d) == {i \in 1..Len(p) : p[i].kind = "keys" /\ p[i].d = d}
LastReport(p, d, S) ==
    \A i \in Reports(p, d) : (\A j \in Reports(p, d) : j <= i) => p[i] = KeyLine(d, S)

\* The last report says what the view holds, and without one Android shows no more.
KeysInv ==
    /\ \A d \in Displays : display[d] # "live" => shown[d] = {}
    /\ writeFd = "open" => \A d \in Displays :
         /\ LastReport(pipe, d, pressed[d])
         /\ Reports(pipe, d) = {} /\ Fits(pressed[d]) => shown[d] \subseteq pressed[d]

InputInv == Types /\ LinkInv /\ DownInv /\ FocusInv /\ PacketInv /\ GestureInv /\ KeysInv

-----------------------------------------------------------------------------
USE InputAssumptions

\* What the lines are.
LEMMA KeyLineType ==
    ASSUME NEW d \in Displays, NEW S \in SUBSET Usages
    PROVE  /\ KeyLine(d, S) \in LineType
           /\ KeyLine(d, S).kind = "keys" /\ KeyLine(d, S).d = d
           /\ KeyLine(d, S).mods = S \cap Mods
           /\ Fits(S) => KeyLine(d, S).keys = S \cap Ordinary
<1> DEFINE K == IF Cardinality(S \cap Ordinary) > ReportKeys THEN {Rollover} ELSE S \cap Ordinary
<1>1. K \in (SUBSET Ordinary) \cup {{Rollover}} /\ S \cap Mods \in SUBSET Mods
  <2>1. S \cap Ordinary \in SUBSET Ordinary
    OBVIOUS
  <2>2. K = {Rollover} \/ K = S \cap Ordinary
    OBVIOUS
  <2> HIDE DEF K
  <2> QED
    BY <2>1, <2>2, Zenon
<1>2. KeyLine(d, S) = [kind |-> "keys", d |-> d, mods |-> S \cap Mods, keys |-> K]
  BY DEF KeyLine
<1>3. Fits(S) => K = S \cap Ordinary
  <2> SUFFICES ASSUME Fits(S) PROVE K = S \cap Ordinary
    OBVIOUS
  <2> DEFINE n == Cardinality(S \cap Ordinary)
  <2>1. n <= ReportKeys
    BY DEF Fits
  <2>2. n \in Nat
    <3>1. IsFiniteSet(Ordinary)
      BY FS_AddElement DEF Ordinary
    <3>2. IsFiniteSet(S \cap Ordinary)
      BY <3>1, FS_Subset
    <3> QED
      BY <3>2, FS_CardinalityType
  <2>3. ~(n > ReportKeys)
    <3> HIDE DEF n
    <3> QED
      BY <2>1, <2>2
  <2> QED
    BY <2>3
<1> HIDE DEF K
<1>4. KeyLine(d, S) \in LineType
  BY <1>1, <1>2 DEF LineType
<1> QED
  BY <1>2, <1>3, <1>4

\* A line of a touch, and its fields.
LEMMA TouchLineType ==
    ASSUME NEW kind \in TouchKinds, NEW d \in Displays, NEW g \in Nat
    PROVE  /\ TouchLine(kind, d, g) \in LineType
           /\ TouchLine(kind, d, g).kind = kind
           /\ TouchLine(kind, d, g).d = d /\ TouchLine(kind, d, g).g = g
BY DEF TouchLine, LineType

\* The fields that every line has.
LEMMA LineFields ==
    ASSUME NEW l \in LineType
    PROVE  /\ l.d \in Displays /\ l.kind \in TouchKinds \cup {"keys"}
           /\ l.kind # "keys" => l.g \in Nat
           /\ l.kind = "keys" =>
                l.mods \in SUBSET Mods /\ l.keys \in (SUBSET Ordinary) \cup {{Rollover}}
BY DEF LineType, TouchKinds

\* What a send may leave: the line is appended only to an open connection,
\* and a reliable one that is not closes it.
LEMMA SendFacts ==
    ASSUME NEW fd \in Fds, NEW lines \in Seq(LineType), NEW line \in LineType,
           NEW reliable, NEW r \in SendLine(fd, lines, line, reliable)
    PROVE  /\ r.fd \in {"none", "open"} /\ r.lines \in Seq(LineType)
           /\ r.lines = lines \/ (fd = "open" /\ r.lines = Append(lines, line))
           /\ r.fd = "open" => fd = "open"
           /\ r.ok => r.fd = "open" /\ r.lines = Append(lines, line)
           /\ reliable /\ r.fd = "open" => r.lines = Append(lines, line)
<1> DEFINE more == Append(lines, line)
<1>0. more \in Seq(LineType)
  OBVIOUS
<1> HIDE DEF more
<1>1. CASE fd # "open"
  <2>1. r = [fd |-> "none", lines |-> lines, ok |-> FALSE]
    BY <1>1 DEF SendLine, Fds
  <2> QED
    BY <2>1
<1>2. CASE fd = "open" /\ Len(lines) < Room
  <2>1. r = [fd |-> "open", lines |-> more, ok |-> TRUE]
    BY <1>2 DEF SendLine, more
  <2> QED
    BY <1>0, <1>2, <2>1 DEF more
<1>3. CASE fd = "open" /\ ~(Len(lines) < Room)
  <2>1. \/ /\ r \in [fd : IF reliable THEN {"none"} ELSE {"open", "none"}, lines : {lines},
                     ok : {FALSE}]
        \/ r = [fd |-> "none", lines |-> more, ok |-> FALSE]
    BY <1>3 DEF SendLine, more
  <2>2. CASE r \in [fd : IF reliable THEN {"none"} ELSE {"open", "none"}, lines : {lines},
                    ok : {FALSE}]
    <3>1. r.lines = lines /\ r.ok = FALSE /\ r.fd \in {"open", "none"}
          /\ (reliable => r.fd = "none")
      BY <2>2
    <3> QED
      BY <1>3, <3>1
  <2>3. CASE r = [fd |-> "none", lines |-> more, ok |-> FALSE]
    BY <1>0, <1>3, <2>3 DEF more
  <2> QED
    BY <2>1, <2>2, <2>3
<1> QED
  BY <1>1, <1>2, <1>3 DEF Fds

\* The same of the connection of the agent.
LEMMA SendsFacts ==
    ASSUME NEW line \in LineType, NEW reliable, writeFd \in Fds, pipe \in Seq(LineType),
           Sends(line, reliable)
    PROVE  /\ writeFd' \in Fds /\ pipe' \in Seq(LineType)
           /\ pipe' = pipe \/ (writeFd = "open" /\ pipe' = Append(pipe, line))
           /\ writeFd' = "open" => writeFd = "open"
           /\ reliable /\ writeFd' = "open" => pipe' = Append(pipe, line)
<1>1. PICK r \in SendLine(writeFd, pipe, line, reliable) : writeFd' = r.fd /\ pipe' = r.lines
  BY DEF Sends
<1> QED
  BY <1>1, SendFacts DEF Fds

\* What a report leaves.
LEMMA ReportFacts ==
    ASSUME NEW d \in Displays, NEW S \in SUBSET Usages, Types, Report(d, S)
    PROVE  /\ pressed' = [pressed EXCEPT ![d] = S]
           /\ pressed' \in [Displays -> SUBSET Usages]
           /\ writeFd' \in Fds /\ pipe' \in Seq(LineType)
           /\ pipe' = pipe \/ (writeFd = "open" /\ pipe' = Append(pipe, KeyLine(d, S)))
           /\ writeFd' = "open" =>
                /\ writeFd = "open"
                /\ (S = pressed[d] /\ pipe' = pipe) \/ pipe' = Append(pipe, KeyLine(d, S))
<1>1. pressed' = [pressed EXCEPT ![d] = S] /\ pressed' \in [Displays -> SUBSET Usages]
  BY DEF Report, Types
<1>2. KeyLine(d, S) \in LineType
  BY KeyLineType
<1>3. CASE Sends(KeyLine(d, S), TRUE)
  <2>1. writeFd \in Fds /\ pipe \in Seq(LineType)
    BY DEF Types
  <2>2. /\ writeFd' \in Fds /\ pipe' \in Seq(LineType)
        /\ pipe' = pipe \/ (writeFd = "open" /\ pipe' = Append(pipe, KeyLine(d, S)))
        /\ writeFd' = "open" => writeFd = "open"
        /\ writeFd' = "open" => pipe' = Append(pipe, KeyLine(d, S))
    BY <1>2, <1>3, <2>1, SendsFacts
  <2> QED
    BY <1>1, <2>2
<1>4. CASE S = pressed[d] /\ UNCHANGED wire
  BY <1>1, <1>4 DEF wire, Types
<1> QED
  BY <1>3, <1>4 DEF Report

\* The sets of keys a view goes through.
LEMMA KeySets ==
    /\ LeftMod \in Usages /\ Caps \in Usages /\ (\A k \in Keys : k \in Usages)
    /\ \A m \in Mods : m \in Usages
    /\ \A S \in SUBSET Usages : S \ {Caps} \in SUBSET Usages /\ S \cup {Caps} \in SUBSET Usages
    /\ \A S \in SUBSET Usages, flag \in BOOLEAN : Synchronized(S, flag) \in SUBSET Usages
    /\ \A S \in SUBSET Usages, k \in Usages, down \in BOOLEAN : SetKey(S, k, down) \in SUBSET Usages
<1>1. /\ LeftMod \in Usages /\ Caps \in Usages /\ (\A k \in Keys : k \in Usages)
      /\ \A m \in Mods : m \in Usages
  BY DEF Usages, Ordinary, Mods
<1>2. \A S \in SUBSET Usages : S \ {Caps} \in SUBSET Usages /\ S \cup {Caps} \in SUBSET Usages
  BY <1>1
<1>3. \A S \in SUBSET Usages, flag \in BOOLEAN : Synchronized(S, flag) \in SUBSET Usages
  BY <1>1 DEF Synchronized
<1>4. \A S \in SUBSET Usages, k \in Usages, down \in BOOLEAN : SetKey(S, k, down) \in SUBSET Usages
  BY DEF SetKey
<1> QED
  BY <1>1, <1>2, <1>3, <1>4

\* The key events of the view with the focus, as reports.
LEMMA KeyReports ==
    ASSUME Types, keyWindow # None
    PROVE  /\ \A k \in Keys, down \in BOOLEAN : Key(k, down) =>
                \E S \in SUBSET Usages :
                   /\ S = SetKey(Synchronized(pressed[keyWindow], held' \cap Mods # {}), k, down)
                   /\ Report(keyWindow, S)
           /\ \A m \in Mods : FlagsChanged(m) =>
                \E S \in SUBSET Usages :
                   /\ S = SetKey(pressed[keyWindow], m,
                                 m \notin pressed[keyWindow] /\ held' \cap Mods # {})
                   /\ Report(keyWindow, S)
<1>1. keyWindow \in Displays /\ pressed[keyWindow] \in SUBSET Usages
  BY DEF Types
<1>2. ASSUME NEW k \in Keys, NEW down \in BOOLEAN, Key(k, down)
      PROVE  \E S \in SUBSET Usages :
                /\ S = SetKey(Synchronized(pressed[keyWindow], held' \cap Mods # {}), k, down)
                /\ Report(keyWindow, S)
  <2>1. (held' \cap Mods # {}) \in BOOLEAN
    OBVIOUS
  <2>2. Synchronized(pressed[keyWindow], held' \cap Mods # {}) \in SUBSET Usages
    BY <1>1, <2>1, KeySets
  <2>3. SetKey(Synchronized(pressed[keyWindow], held' \cap Mods # {}), k, down) \in SUBSET Usages
    BY <2>2, KeySets
  <2> QED
    BY <1>2, <2>3 DEF Key
<1>3. ASSUME NEW m \in Mods, FlagsChanged(m)
      PROVE  \E S \in SUBSET Usages :
                /\ S = SetKey(pressed[keyWindow], m,
                              m \notin pressed[keyWindow] /\ held' \cap Mods # {})
                /\ Report(keyWindow, S)
  <2>1. (m \notin pressed[keyWindow] /\ held' \cap Mods # {}) \in BOOLEAN
    OBVIOUS
  <2>2. SetKey(pressed[keyWindow], m, m \notin pressed[keyWindow] /\ held' \cap Mods # {})
           \in SUBSET Usages
    BY <1>1, <2>1, KeySets
  <2> QED
    BY <1>3, <2>2 DEF FlagsChanged
<1> QED
  BY <1>2, <1>3

\* The two reports of Caps Lock: the second one is lost with the first.
LEMMA CapsFacts ==
    ASSUME Types, CapsLock
    PROVE  LET d == keyWindow
               one == Append(pipe, KeyLine(d, pressed[d] \cup {Caps}))
               two == Append(one, KeyLine(d, pressed[d] \ {Caps})) IN
           /\ d \in Displays /\ pressed[d] \in SUBSET Usages
           /\ pressed' = [pressed EXCEPT ![d] = pressed[d] \ {Caps}]
           /\ pressed' \in [Displays -> SUBSET Usages]
           /\ writeFd' \in Fds /\ pipe' \in Seq(LineType)
           /\ pipe' = pipe \/ (writeFd = "open" /\ pipe' \in {one, two})
           /\ writeFd' = "open" => writeFd = "open" /\ pipe' = two
<1> DEFINE d == keyWindow
           k1 == KeyLine(d, pressed[d] \cup {Caps})
           k2 == KeyLine(d, pressed[d] \ {Caps})
           yes == TRUE
<1>1. d \in Displays /\ pressed[d] \in SUBSET Usages
  BY DEF Types, CapsLock
<1>2. pressed' = [pressed EXCEPT ![d] = pressed[d] \ {Caps}]
  BY DEF CapsLock
<1>3. pressed' \in [Displays -> SUBSET Usages]
  BY <1>1, <1>2, KeySets DEF Types
<1>4. k1 \in LineType /\ k2 \in LineType
  BY <1>1, KeySets, KeyLineType
<1>5. PICK r \in SendLine(writeFd, pipe, k1, yes) :
         \E t \in SendLine(r.fd, r.lines, k2, yes) : writeFd' = t.fd /\ pipe' = t.lines
  BY DEF CapsLock
<1>6. PICK t \in SendLine(r.fd, r.lines, k2, yes) : writeFd' = t.fd /\ pipe' = t.lines
  BY <1>5
<1>7. writeFd \in Fds /\ pipe \in Seq(LineType)
  BY DEF Types
<1> HIDE DEF d, k1, k2, yes
<1>8. /\ r.fd \in {"none", "open"} /\ r.lines \in Seq(LineType)
      /\ r.lines = pipe \/ (writeFd = "open" /\ r.lines = Append(pipe, k1))
      /\ r.fd = "open" => writeFd = "open"
      /\ r.ok => r.fd = "open" /\ r.lines = Append(pipe, k1)
      /\ yes /\ r.fd = "open" => r.lines = Append(pipe, k1)
  BY <1>4, <1>5, <1>7, SendFacts
<1>9. /\ t.fd \in {"none", "open"} /\ t.lines \in Seq(LineType)
      /\ t.lines = r.lines \/ (r.fd = "open" /\ t.lines = Append(r.lines, k2))
      /\ t.fd = "open" => r.fd = "open"
      /\ t.ok => t.fd = "open" /\ t.lines = Append(r.lines, k2)
      /\ yes /\ t.fd = "open" => t.lines = Append(r.lines, k2)
  <2>1. r.fd \in Fds
    BY <1>8 DEF Fds
  <2> QED
    BY <1>4, <1>6, <1>8, <2>1, SendFacts
<1>10. /\ writeFd' \in Fds /\ pipe' \in Seq(LineType)
       /\ \/ pipe' = pipe
          \/ writeFd = "open" /\ pipe' \in {Append(pipe, k1), Append(Append(pipe, k1), k2)}
       /\ writeFd' = "open" => writeFd = "open" /\ pipe' = Append(Append(pipe, k1), k2)
  BY <1>6, <1>8, <1>9 DEF Fds, yes
<1> QED
  BY <1>1, <1>2, <1>3, <1>10 DEF d, k1, k2

\* A touch begins: on the connection if the line got there, else perhaps on
\* the socket of qemu.
LEMMA DownFacts ==
    ASSUME NEW d \in Displays, Types, MouseDown(d)
    PROVE  LET g == inputs + 1
               more == Append(pipe, TouchLine("begin", d, g)) IN
           /\ g \in Nat /\ TouchLine("begin", d, g) \in LineType
           /\ writeFd' \in Fds /\ pipe' \in Seq(LineType)
           /\ pipe' = pipe \/ (writeFd = "open" /\ pipe' = more)
           /\ writeFd' = "open" => writeFd = "open"
           /\ \E t \in TouchType :
                /\ touch' = [touch EXCEPT ![d] = t]
                /\ t.on # "none" => t.g = g
                /\ t.on = "agent" => pipe' = more
           /\ queue' = queue \/ (enabled /\ queue' = Append(queue, g))
<1> DEFINE g == inputs + 1
           line == TouchLine("begin", d, g)
           yes == TRUE
<1>1. g \in Nat /\ writeFd \in Fds /\ pipe \in Seq(LineType)
  BY DEF Types
<1>2. line \in LineType
  BY <1>1, TouchLineType DEF TouchKinds
<1>3. PICK r \in SendLine(writeFd, pipe, line, yes), u \in SendPacket(queue, g) :
         /\ writeFd' = r.fd /\ pipe' = r.lines
         /\ IF r.ok
            THEN /\ touch' = [touch EXCEPT ![d] = [on |-> "agent", g |-> g]]
                 /\ UNCHANGED queue
            ELSE /\ touch' = [touch EXCEPT ![d] =
                                IF u.ok THEN [on |-> "direct", g |-> g] ELSE NoTouch]
                 /\ queue' = u.q
  BY DEF MouseDown
<1>4. u.q = queue \/ (enabled /\ u.q = Append(queue, g))
  BY <1>3 DEF SendPacket
<1>5. /\ [on |-> "agent", g |-> g] \in TouchType /\ [on |-> "direct", g |-> g] \in TouchType
      /\ NoTouch \in TouchType /\ NoTouch.on = "none"
  BY <1>1 DEF TouchType, NoTouch
<1> HIDE DEF g, line, yes
<1>6. /\ r.fd \in {"none", "open"} /\ r.lines \in Seq(LineType)
      /\ r.lines = pipe \/ (writeFd = "open" /\ r.lines = Append(pipe, line))
      /\ r.fd = "open" => writeFd = "open"
      /\ r.ok => r.fd = "open" /\ r.lines = Append(pipe, line)
      /\ yes /\ r.fd = "open" => r.lines = Append(pipe, line)
  BY <1>1, <1>2, <1>3, SendFacts
<1>7. \E t \in TouchType :
         /\ touch' = [touch EXCEPT ![d] = t]
         /\ t.on # "none" => t.g = g
         /\ t.on = "agent" => pipe' = Append(pipe, line)
  <2>1. CASE r.ok
    <3>1. touch' = [touch EXCEPT ![d] = [on |-> "agent", g |-> g]] /\ pipe' = Append(pipe, line)
      BY <1>3, <1>6, <2>1
    <3> QED
      BY <1>5, <3>1
  <2>2. CASE ~r.ok /\ u.ok
    <3>1. touch' = [touch EXCEPT ![d] = [on |-> "direct", g |-> g]]
      BY <1>3, <2>2
    <3> QED
      BY <1>5, <3>1
  <2>3. CASE ~r.ok /\ ~u.ok
    <3>1. touch' = [touch EXCEPT ![d] = NoTouch]
      BY <1>3, <2>3
    <3> QED
      BY <1>5, <3>1
  <2> QED
    BY <2>1, <2>2, <2>3
<1>8. queue' = queue \/ (enabled /\ queue' = Append(queue, g))
  BY <1>3, <1>4
<1>9. writeFd' \in Fds /\ pipe' \in Seq(LineType) /\ (writeFd' = "open" => writeFd = "open")
      /\ (pipe' = pipe \/ (writeFd = "open" /\ pipe' = Append(pipe, line)))
  BY <1>3, <1>6 DEF Fds
<1> QED
  BY <1>1, <1>2, <1>7, <1>8, <1>9 DEF g, line

\* A touch goes on, on the transport it has begun on.
LEMMA ContinueFacts ==
    ASSUME NEW d \in Displays, NEW kind \in {"move", "end"}, Types, Continue(d, kind)
    PROVE  /\ touch[d].g \in Nat /\ TouchLine(kind, d, touch[d].g) \in LineType
           /\ writeFd' \in Fds /\ pipe' \in Seq(LineType)
           /\ \/ pipe' = pipe
              \/ /\ writeFd = "open" /\ touch[d].on = "agent"
                 /\ pipe' = Append(pipe, TouchLine(kind, d, touch[d].g))
           /\ writeFd' = "open" => writeFd = "open"
           /\ \/ queue' = queue
              \/ enabled /\ touch[d].on = "direct" /\ queue' = Append(queue, touch[d].g)
<1> DEFINE g == touch[d].g
           line == TouchLine(kind, d, g)
<1>1. touch[d] \in TouchType /\ writeFd \in Fds /\ pipe \in Seq(LineType)
  BY DEF Types
<1>2. g \in Nat
  BY <1>1 DEF TouchType
<1>3. line \in LineType
  BY <1>2, TouchLineType DEF TouchKinds
<1>4. CASE touch[d].on = "none" /\ UNCHANGED <<wire, queue>>
  BY <1>1, <1>2, <1>3, <1>4 DEF wire
<1>5. CASE touch[d].on = "agent" /\ Sends(line, kind = "end") /\ UNCHANGED queue
  <2> HIDE DEF line
  <2>1. /\ writeFd' \in Fds /\ pipe' \in Seq(LineType)
        /\ pipe' = pipe \/ (writeFd = "open" /\ pipe' = Append(pipe, line))
        /\ writeFd' = "open" => writeFd = "open"
    BY <1>1, <1>3, <1>5, SendsFacts
  <2> QED
    BY <1>2, <1>3, <1>5, <2>1 DEF line
<1>6. CASE /\ touch[d].on = "direct" /\ (\E u \in SendPacket(queue, g) : queue' = u.q)
           /\ UNCHANGED wire
  <2>1. queue' = queue \/ (enabled /\ queue' = Append(queue, g))
    BY <1>6 DEF SendPacket
  <2> QED
    BY <1>1, <1>2, <1>3, <1>6, <2>1 DEF wire
<1> QED
  BY <1>4, <1>5, <1>6 DEF Continue

\* The values a touch and a finger take.
LEMMA TouchTypes ==
    /\ NoTouch \in TouchType /\ NoTouch.on = "none" /\ NoTouch.g = 0
    /\ NoFinger \in FingerType /\ NoFinger.d = None /\ NoFinger.g = 0
BY DEF NoTouch, TouchType, NoFinger, FingerType

\* What injectTouch makes of the finger.
LEMMA TouchedFacts ==
    ASSUME Types, NEW l \in LineType, l.kind # "keys"
    PROVE  /\ Touched(l) \in FingerType
           /\ l.kind = "begin" => Touched(l).g = l.g /\ Touched(l).d = Landing(l.d)
           /\ l.kind # "begin" =>
                \/ Touched(l) = NoFinger
                \/ Touched(l).g = finger.g /\ Touched(l).d = Landing(l.d)
           /\ Landing(l.d) \in {l.d, None}
<1>1. /\ l.d \in Displays /\ l.kind \in {"begin", "move", "end"} /\ l.g \in Nat
      /\ finger \in FingerType
  BY LineFields DEF Types, TouchKinds
<1>2. Landing(l.d) \in {l.d, None}
  BY DEF Landing
<1>3. CASE l.kind = "begin"
  <2>1. Touched(l) = [d |-> Landing(l.d), g |-> l.g]
    BY <1>3 DEF Touched
  <2> QED
    BY <1>1, <1>2, <1>3, <2>1 DEF FingerType
<1>4. CASE l.kind = "move" /\ finger.g > 0
  <2>1. Touched(l) = [finger EXCEPT !.d = Landing(l.d)]
    BY <1>4 DEF Touched
  <2> QED
    BY <1>1, <1>2, <1>4, <2>1 DEF FingerType
<1>5. CASE l.kind # "begin" /\ ~(l.kind = "move" /\ finger.g > 0)
  <2>1. Touched(l) = NoFinger
    BY <1>1, <1>5 DEF Touched
  <2> QED
    BY <1>2, <1>5, <2>1, TouchTypes
<1> QED
  BY <1>3, <1>4, <1>5

\* What the agent makes of the first line.
LEMMA HandleFacts ==
    ASSUME Types, HandleLine
    PROVE  /\ Head(pipe) \in LineType /\ pipe' = Tail(pipe) /\ pipe' \in Seq(LineType)
           /\ Len(pipe) \in Nat /\ Len(pipe) > 0 /\ pipe[1] = Head(pipe)
           /\ display' \in [Displays -> {"live", "stale", "gone"}]
           /\ \A d \in Displays : display[d] # "live" => display'[d] # "live"
           /\ \A d \in Displays : display[d] = "gone" => display'[d] = "gone"
           /\ \A d \in Displays : display[d] = "live" => display'[d] = "live"
           /\ shown' \in [Displays -> SUBSET Usages] /\ finger' \in FingerType
<1> DEFINE l == Head(pipe)
<1>1. pipe \in Seq(LineType) /\ pipe # <<>> /\ pipe' = Tail(pipe)
  BY DEF Types, HandleLine
<1>2. /\ l \in LineType /\ Tail(pipe) \in Seq(LineType)
      /\ Len(pipe) \in Nat /\ Len(pipe) > 0 /\ pipe[1] = l
  BY <1>1
<1>t. /\ display \in [Displays -> {"live", "stale", "gone"}]
      /\ shown \in [Displays -> SUBSET Usages] /\ finger \in FingerType
  BY DEF Types
<1> HIDE DEF l
<1>3. l.d \in Displays
  BY <1>2, LineFields
<1>4. ASSUME Resolve(l.d)
      PROVE  /\ display' \in [Displays -> {"live", "stale", "gone"}]
             /\ \A d \in Displays : display[d] # "live" => display'[d] # "live"
             /\ \A d \in Displays : display[d] = "gone" => display'[d] = "gone"
             /\ \A d \in Displays : display[d] = "live" => display'[d] = "live"
  BY <1>4, <1>t DEF Resolve
<1>5. CASE l.kind = "keys"
  <2>0. HandleKeys(l)
    BY <1>5 DEF HandleLine, l
  <2>1. finger' \in FingerType
    BY <1>t, <2>0 DEF HandleKeys
  <2>2. CASE display[l.d] = "live"
    <3>1. /\ Resolve(l.d)
          /\ shown' = [shown EXCEPT ![l.d] =
                         l.mods \cup (IF l.keys = {Rollover} THEN shown[l.d] \cap Ordinary
                                                             ELSE l.keys)]
      BY <2>0, <2>2 DEF HandleKeys
    <3>2. l.mods \in SUBSET Mods /\ (l.keys # {Rollover} => l.keys \in SUBSET Ordinary)
      BY <1>2, <1>5, LineFields
    <3>3. l.mods \cup (IF l.keys = {Rollover} THEN shown[l.d] \cap Ordinary ELSE l.keys)
             \in SUBSET Usages
      BY <1>3, <1>t, <3>2 DEF Usages
    <3>4. shown' \in [Displays -> SUBSET Usages]
      BY <1>3, <1>t, <3>1, <3>3
    <3> QED
      BY <1>1, <1>2, <1>4, <2>1, <3>1, <3>4 DEF l
  <2>3. CASE display[l.d] # "live"
    BY <1>1, <1>2, <1>t, <2>0, <2>1, <2>3 DEF HandleKeys, l
  <2> QED
    BY <2>2, <2>3
<1>6. CASE l.kind # "keys"
  <2>1. Resolve(l.d) /\ finger' \in {finger, Touched(l)} /\ shown' = shown
    BY <1>6 DEF HandleLine, InjectTouch, l
  <2>2. Touched(l) \in FingerType
    BY <1>2, <1>6, TouchedFacts
  <2> QED
    BY <1>1, <1>2, <1>4, <1>t, <2>1, <2>2 DEF l
<1> QED
  BY <1>5, <1>6

-----------------------------------------------------------------------------
\* Every step keeps the types.
LEMMA TypesStep == Types /\ [Next]_vars => Types'
<1> SUFFICES ASSUME Types, [Next]_vars PROVE Types'
  OBVIOUS
<1> USE DEF user, view, wire, guest, process, gesture
<1>q. queue \in Seq(Nat) /\ \A n \in Nat : Append(queue, n) \in Seq(Nat)
  BY DEF Types
<1>1. ASSUME NEW k \in Keys, NEW down \in BOOLEAN, Key(k, down) PROVE Types'
  <2>1. CASE keyWindow = None
    BY <1>1, <2>1 DEF Key, Stroke, Types
  <2>2. CASE keyWindow # None
    <3>1. PICK S \in SUBSET Usages : Report(keyWindow, S)
      BY <1>1, <2>2, KeyReports
    <3>2. keyWindow \in Displays
      BY <2>2 DEF Types
    <3>3. pressed' \in [Displays -> SUBSET Usages] /\ writeFd' \in Fds /\ pipe' \in Seq(LineType)
      BY <3>1, <3>2, ReportFacts
    <3> QED
      BY <1>1, <3>3 DEF Key, Stroke, Types
  <2> QED
    BY <2>1, <2>2
<1>2. ASSUME NEW m \in Mods, FlagsChanged(m) PROVE Types'
  <2>1. CASE keyWindow = None
    BY <1>2, <2>1 DEF FlagsChanged, Stroke, Types
  <2>2. CASE keyWindow # None
    <3>1. PICK S \in SUBSET Usages : Report(keyWindow, S)
      BY <1>2, <2>2, KeyReports
    <3>2. keyWindow \in Displays
      BY <2>2 DEF Types
    <3>3. pressed' \in [Displays -> SUBSET Usages] /\ writeFd' \in Fds /\ pipe' \in Seq(LineType)
      BY <3>1, <3>2, ReportFacts
    <3> QED
      BY <1>2, <3>3 DEF FlagsChanged, Stroke, Types
  <2> QED
    BY <2>1, <2>2
<1>3. CASE CapsLock
  <2>1. pressed' \in [Displays -> SUBSET Usages] /\ writeFd' \in Fds /\ pipe' \in Seq(LineType)
    BY <1>3, CapsFacts
  <2> QED
    BY <1>3, <2>1 DEF CapsLock, Stroke, Types
<1>4. ASSUME NEW d \in Displays, BecomeKey(d) PROVE Types'
  BY <1>4 DEF BecomeKey, FocusUnchanged, Types
<1>5. ASSUME NEW d \in Displays, ResetInputState(d)
      PROVE  /\ pressed' \in [Displays -> SUBSET Usages] /\ writeFd' \in Fds
             /\ pipe' \in Seq(LineType) /\ touch' \in [Displays -> TouchType]
  BY <1>5, ReportFacts, TouchTypes DEF ResetInputState, Types
<1>6. ASSUME NEW d \in Displays, ResignKey(d) PROVE Types'
  BY <1>6, <1>5 DEF ResignKey, FocusUnchanged, Types
<1>7. ASSUME NEW d \in Displays, CloseWindow(d) PROVE Types'
  <2>1. window' \in [Displays -> {"open", "closing", "closed"}]
    BY <1>7 DEF CloseWindow, Types
  <2>2. keyWindow' \in Displays \cup {None} /\ grab' \in Displays \cup {None}
    BY <1>7 DEF CloseWindow, Types
  <2> QED
    BY <1>7, <1>5, <2>1, <2>2 DEF CloseWindow, FocusUnchanged, Types
<1>8. ASSUME NEW d \in Displays, MouseDown(d) PROVE Types'
  <2>1. writeFd' \in Fds /\ pipe' \in Seq(LineType) /\ inputs + 1 \in Nat
    BY <1>8, DownFacts
  <2>2. touch' \in [Displays -> TouchType]
    BY <1>8, DownFacts DEF Types
  <2>3. queue' = queue \/ queue' = Append(queue, inputs + 1)
    BY <1>8, DownFacts
  <2>4. queue' \in Seq(Nat)
    BY <1>q, <2>1, <2>3
  <2> QED
    BY <1>8, <2>1, <2>2, <2>4 DEF MouseDown, TouchUnchanged, Types
<1>9. ASSUME NEW d \in Displays, NEW kind \in {"move", "end"}, Continue(d, kind)
      PROVE  writeFd' \in Fds /\ pipe' \in Seq(LineType) /\ queue' \in Seq(Nat)
  <2>1. /\ writeFd' \in Fds /\ pipe' \in Seq(LineType) /\ touch[d].g \in Nat
        /\ queue' = queue \/ queue' = Append(queue, touch[d].g)
    BY <1>9, ContinueFacts
  <2> QED
    BY <1>q, <2>1
<1>10. ASSUME NEW d \in Displays, MouseDragged(d) PROVE Types'
  BY <1>10, <1>9 DEF MouseDragged, TouchUnchanged, Types
<1>11. ASSUME NEW d \in Displays, MouseUp(d) PROVE Types'
  <2>1. touch' \in [Displays -> TouchType]
    BY <1>11, TouchTypes DEF MouseUp, Types
  <2> QED
    BY <1>11, <1>9, <2>1 DEF MouseUp, TouchUnchanged, Types
<1>12. CASE HandleLine
  <2>1. /\ pipe' \in Seq(LineType) /\ display' \in [Displays -> {"live", "stale", "gone"}]
        /\ shown' \in [Displays -> SUBSET Usages] /\ finger' \in FingerType
    BY <1>12, HandleFacts
  <2> QED
    BY <1>12, <2>1 DEF HandleLine, AgentUnchanged, Types
<1>13. CASE HostGone
  BY <1>13, TouchTypes DEF HostGone, AgentUnchanged, Types
<1>14. CASE AgentConnects
  BY <1>14 DEF AgentConnects, AgentUnchanged, Types
<1>15. CASE Accept
  BY <1>15 DEF Accept, AgentUnchanged, Types, Fds
<1>16. ASSUME NEW d \in Displays, CloseComponent(d) PROVE Types'
  BY <1>16 DEF CloseComponent, Types
<1>17. ASSUME NEW d \in Displays, DisplayGoes(d) PROVE Types'
  <2>1. finger' \in FingerType
    BY <1>17 DEF DisplayGoes, Types, FingerType
  <2> QED
    BY <1>17, <2>1 DEF DisplayGoes, AgentUnchanged, Types
<1>18. CASE QemuDies
  <2>1. writeFd' \in Fds /\ pipe' \in Seq(LineType)
    BY <1>18 DEF QemuDies, Types, Fds
  <2> QED
    BY <1>18, <2>1, TouchTypes DEF QemuDies, ProcessUnchanged, Types
<1>19. CASE Disable
  BY <1>19 DEF Disable, ProcessUnchanged, Types
<1>20. CASE ResetAll
  <2>1. writeFd' \in Fds
    BY <1>20 DEF ResetAll, Types, Fds
  <2> QED
    BY <1>20, <2>1, TouchTypes DEF ResetAll, ProcessUnchanged, Types
<1>21. CASE Launch
  BY <1>21 DEF Launch, ProcessUnchanged, Types
<1>22. CASE Receive
  BY <1>22 DEF Receive, Types
<1>23. CASE UNCHANGED vars
  BY <1>23 DEF vars, Types
<1> QED
  BY <1>1, <1>2, <1>3, <1>4, <1>6, <1>7, <1>8, <1>10, <1>11, <1>12, <1>13, <1>14, <1>15, <1>16,
     <1>17, <1>18, <1>19, <1>20, <1>21, <1>22, <1>23
     DEF Next, ViewNext, AgentNext, GuestNext, QemuNext

-----------------------------------------------------------------------------
\* What the views do to the rest: they send over an open connection.
LEMMA ViewFacts ==
    ASSUME Types, ViewNext
    PROVE  /\ UNCHANGED <<agent, display, shown, finger, qemu, enabled, since>>
           /\ writeFd' = "open" => writeFd = "open"
           /\ pipe' = pipe \/ writeFd = "open"
           /\ queue' = queue \/ enabled
<1> DEFINE Goal == /\ UNCHANGED <<agent, display, shown, finger, qemu, enabled, since>>
                   /\ writeFd' = "open" => writeFd = "open"
                   /\ pipe' = pipe \/ writeFd = "open"
                   /\ queue' = queue \/ enabled
<1> USE DEF view, wire, guest, process, gesture
<1>k. keyWindow # None => keyWindow \in Displays
  BY DEF Types
<1>1. ASSUME NEW k \in Keys, NEW down \in BOOLEAN, Key(k, down) PROVE Goal
  <2>1. CASE keyWindow = None
    BY <1>1, <2>1 DEF Key, Stroke
  <2>2. CASE keyWindow # None
    <3>1. PICK S \in SUBSET Usages : Report(keyWindow, S)
      BY <1>1, <2>2, KeyReports
    <3>2. (writeFd' = "open" => writeFd = "open") /\ (pipe' = pipe \/ writeFd = "open")
      BY <1>k, <2>2, <3>1, ReportFacts
    <3> QED
      BY <1>1, <3>2 DEF Key, Stroke
  <2> QED
    BY <2>1, <2>2
<1>2. ASSUME NEW m \in Mods, FlagsChanged(m) PROVE Goal
  <2>1. CASE keyWindow = None
    BY <1>2, <2>1 DEF FlagsChanged, Stroke
  <2>2. CASE keyWindow # None
    <3>1. PICK S \in SUBSET Usages : Report(keyWindow, S)
      BY <1>2, <2>2, KeyReports
    <3>2. (writeFd' = "open" => writeFd = "open") /\ (pipe' = pipe \/ writeFd = "open")
      BY <1>k, <2>2, <3>1, ReportFacts
    <3> QED
      BY <1>2, <3>2 DEF FlagsChanged, Stroke
  <2> QED
    BY <2>1, <2>2
<1>3. CASE CapsLock
  <2>1. (writeFd' = "open" => writeFd = "open") /\ (pipe' = pipe \/ writeFd = "open")
    BY <1>3, CapsFacts
  <2> QED
    BY <1>3, <2>1 DEF CapsLock, Stroke
<1>4. ASSUME NEW d \in Displays, BecomeKey(d) PROVE Goal
  BY <1>4 DEF BecomeKey, FocusUnchanged
<1>5. ASSUME NEW d \in Displays, ResetInputState(d)
      PROVE  (writeFd' = "open" => writeFd = "open") /\ (pipe' = pipe \/ writeFd = "open")
  <2>1. Report(d, {}) /\ {} \in SUBSET Usages
    BY <1>5 DEF ResetInputState
  <2> QED
    BY <2>1, ReportFacts
<1>6. ASSUME NEW d \in Displays, ResignKey(d) PROVE Goal
  BY <1>6, <1>5 DEF ResignKey, FocusUnchanged
<1>7. ASSUME NEW d \in Displays, CloseWindow(d) PROVE Goal
  BY <1>7, <1>5 DEF CloseWindow, FocusUnchanged
<1>8. ASSUME NEW d \in Displays, MouseDown(d) PROVE Goal
  <2>1. /\ writeFd' = "open" => writeFd = "open"
        /\ pipe' = pipe \/ writeFd = "open"
        /\ queue' = queue \/ enabled
    BY <1>8, DownFacts
  <2> QED
    BY <1>8, <2>1 DEF MouseDown, TouchUnchanged
<1>9. ASSUME NEW d \in Displays, NEW kind \in {"move", "end"}, Continue(d, kind)
      PROVE  /\ writeFd' = "open" => writeFd = "open"
             /\ pipe' = pipe \/ writeFd = "open"
             /\ queue' = queue \/ enabled
  BY <1>9, ContinueFacts
<1>10. ASSUME NEW d \in Displays, MouseDragged(d) PROVE Goal
  BY <1>10, <1>9 DEF MouseDragged, TouchUnchanged
<1>11. ASSUME NEW d \in Displays, MouseUp(d) PROVE Goal
  BY <1>11, <1>9 DEF MouseUp, TouchUnchanged
<1> QED
  BY <1>1, <1>2, <1>3, <1>4, <1>6, <1>7, <1>8, <1>10, <1>11 DEF ViewNext

\* The views say nothing while qemu is away and its windows closed.
LEMMA ViewDown ==
    ASSUME Types, DownInv, ViewNext, qemu \in {"down", "starting"}
    PROVE  UNCHANGED <<pipe, keyWindow, grab, window, touch>>
<1> USE DEF view, wire
<1>1. /\ keyWindow = None /\ grab = None
      /\ \A d \in Displays : window[d] = "closed" /\ keyWindow # d /\ grab # d
  BY DEF DownInv
<1>2. \/ \E k \in Keys, down \in BOOLEAN : Key(k, down)
      \/ \E m \in Mods : FlagsChanged(m)
  BY <1>1 DEF ViewNext, CapsLock, BecomeKey, ResignKey, CloseWindow, MouseDown, MouseDragged,
     MouseUp
<1> QED
  BY <1>1, <1>2 DEF Key, FlagsChanged, Stroke

\* The connection and the death of qemu.
LEMMA LinkStep == InputInv /\ [Next]_vars => LinkInv' /\ DownInv'
<1> SUFFICES ASSUME InputInv, [Next]_vars PROVE LinkInv' /\ DownInv'
  OBVIOUS
<1> USE DEF user, view, wire, guest, process, gesture
<1>t. Types /\ LinkInv /\ DownInv
  BY DEF InputInv
<1>1. CASE ViewNext
  <2>1. LinkInv'
    BY <1>1, <1>t, ViewFacts DEF LinkInv
  <2>2. DownInv'
    BY <1>1, <1>t, ViewFacts, ViewDown DEF DownInv
  <2> QED
    BY <2>1, <2>2
<1>2. CASE HandleLine
  BY <1>2, <1>t DEF HandleLine, AgentUnchanged, LinkInv, DownInv
<1>3. CASE HostGone
  BY <1>3, <1>t DEF HostGone, AgentUnchanged, LinkInv, DownInv
<1>4. CASE AgentConnects
  BY <1>4, <1>t DEF AgentConnects, AgentUnchanged, LinkInv, DownInv
<1>5. CASE Accept
  BY <1>5, <1>t DEF Accept, AgentUnchanged, LinkInv, DownInv
<1>6. ASSUME NEW d \in Displays, CloseComponent(d) PROVE LinkInv' /\ DownInv'
  BY <1>6, <1>t DEF CloseComponent, LinkInv, DownInv, Types
<1>7. ASSUME NEW d \in Displays, DisplayGoes(d) PROVE LinkInv' /\ DownInv'
  <2>1. agent # "connected" => finger'= NoFinger
    BY <1>7, <1>t, TouchTypes DEF DisplayGoes, LinkInv
  <2> QED
    BY <1>7, <1>t, <2>1 DEF DisplayGoes, AgentUnchanged, LinkInv, DownInv, Types
<1>8. CASE QemuDies
  BY <1>8, <1>t DEF QemuDies, ProcessUnchanged, LinkInv, DownInv, Types, Fds
<1>9. CASE Disable
  BY <1>9, <1>t DEF Disable, ProcessUnchanged, LinkInv, DownInv
<1>10. CASE ResetAll
  BY <1>10, <1>t DEF ResetAll, ProcessUnchanged, LinkInv, DownInv
<1>11. CASE Launch
  BY <1>11, <1>t DEF Launch, ProcessUnchanged, LinkInv, DownInv
<1>12. CASE Receive
  BY <1>12, <1>t DEF Receive, LinkInv, DownInv
<1>13. CASE UNCHANGED vars
  BY <1>13, <1>t DEF vars, LinkInv, DownInv
<1> QED
  BY <1>1, <1>2, <1>3, <1>4, <1>5, <1>6, <1>7, <1>8, <1>9, <1>10, <1>11, <1>12, <1>13
     DEF Next, AgentNext, GuestNext, QemuNext

-----------------------------------------------------------------------------
\* A key that comes to a view that sees the modifiers as they are, or that comes
\* without any, leaves the view with the modifiers as they are.
LEMMA KeyMods ==
    ASSUME NEW S, NEW H, NEW k \in Keys, NEW down \in BOOLEAN, NEW flag \in BOOLEAN,
           flag <=> H \cap Mods # {}, S \cap Mods = H \cap Mods \/ H \cap Mods = {}
    PROVE  SetKey(Synchronized(S, flag), k, down) \cap Mods = H \cap Mods
<1>1. k \notin Mods
  BY DEF Ordinary
<1>2. Synchronized(S, flag) \cap Mods = H \cap Mods
  BY DEF Synchronized
<1> QED
  BY <1>1, <1>2 DEF SetKey

\* A view without the focus holds nothing, and the one with it the user's modifiers.
LEMMA FocusStep == InputInv /\ [Next]_vars => FocusInv'
<1> SUFFICES ASSUME InputInv, [Next]_vars PROVE FocusInv'
  OBVIOUS
<1> USE DEF user, view, wire, guest, process, gesture
<1>t. Types /\ DownInv /\ FocusInv
  BY DEF InputInv
<1>p. pressed \in [Displays -> SUBSET Usages] /\ keyWindow \in Displays \cup {None}
  BY <1>t DEF Types
<1>1. ASSUME NEW k \in Keys, NEW down \in BOOLEAN, Key(k, down) PROVE FocusInv'
  <2>0. held' = SetKey(held, k, down) /\ keyWindow' = keyWindow
    BY <1>1 DEF Key, Stroke
  <2>1. CASE keyWindow = None
    BY <1>1, <1>t, <2>0, <2>1 DEF Key, FocusInv, ModsExact
  <2>2. CASE keyWindow # None
    <3> DEFINE flag == held' \cap Mods # {}
    <3>1. PICK S \in SUBSET Usages : /\ S = SetKey(Synchronized(pressed[keyWindow], flag), k, down)
                                     /\ Report(keyWindow, S)
      BY <1>1, <1>t, <2>2, KeyReports
    <3>2. pressed' = [pressed EXCEPT ![keyWindow] = S]
      BY <3>1 DEF Report
    <3>3. held' \cap Mods = held \cap Mods
      BY <2>0 DEF SetKey, Ordinary
    <3>4. ASSUME ~blind' PROVE S \cap Mods = held \cap Mods
      <4>1. ~blind \/ held \cap Mods = {}
        BY <1>1, <3>3, <3>4 DEF Key
      <4>2. pressed[keyWindow] \cap Mods = held \cap Mods \/ held \cap Mods = {}
        BY <1>t, <2>2, <4>1 DEF FocusInv, ModsExact
      <4>3. flag \in BOOLEAN /\ (flag <=> held \cap Mods # {})
        BY <3>3
      <4>4. SetKey(Synchronized(pressed[keyWindow], flag), k, down) \cap Mods = held \cap Mods
        <5> HIDE DEF flag
        <5> QED
          BY <4>2, <4>3, KeyMods
      <4> QED
        BY <3>1, <4>4
    <3>5. pressed'[keyWindow] = S /\ \A d \in Displays : d # keyWindow => pressed'[d] = pressed[d]
      BY <1>p, <2>2, <3>2
    <3> QED
      BY <1>t, <2>0, <3>3, <3>4, <3>5 DEF FocusInv, ModsExact
  <2> QED
    BY <2>1, <2>2
<1>2. ASSUME NEW m \in Mods, FlagsChanged(m) PROVE FocusInv'
  <2>0. held' = SetKey(held, m, m \notin held) /\ keyWindow' = keyWindow /\ blind' = blind
    BY <1>2 DEF FlagsChanged, Stroke
  <2>1. CASE keyWindow = None
    BY <1>2, <1>t, <2>0, <2>1 DEF FlagsChanged, FocusInv, ModsExact
  <2>2. CASE keyWindow # None
    <3>1. PICK S \in SUBSET Usages :
             /\ S = SetKey(pressed[keyWindow], m,
                           m \notin pressed[keyWindow] /\ held' \cap Mods # {})
             /\ Report(keyWindow, S)
      BY <1>2, <1>t, <2>2, KeyReports
    <3>2. pressed' = [pressed EXCEPT ![keyWindow] = S]
      BY <3>1 DEF Report
    <3>4. ASSUME ~blind PROVE S \cap Mods = held' \cap Mods
      <4>1. pressed[keyWindow] \cap Mods = held \cap Mods
        BY <1>t, <2>2, <3>4 DEF FocusInv, ModsExact
      <4>2. SetKey(pressed[keyWindow], m, m \notin pressed[keyWindow] /\ held' \cap Mods # {})
               \cap Mods = held' \cap Mods
        BY <2>0, <4>1 DEF SetKey
      <4> QED
        BY <3>1, <4>2
    <3>5. pressed'[keyWindow] = S /\ \A d \in Displays : d # keyWindow => pressed'[d] = pressed[d]
      BY <1>p, <2>2, <3>2
    <3> QED
      BY <1>t, <2>0, <3>4, <3>5 DEF FocusInv, ModsExact
  <2> QED
    BY <2>1, <2>2
<1>3. CASE CapsLock
  <2>1. /\ keyWindow \in Displays /\ pressed' = [pressed EXCEPT ![keyWindow] = @ \ {Caps}]
        /\ keyWindow' = keyWindow /\ held' = held /\ blind' = blind
    BY <1>3, <1>p DEF CapsLock, Stroke
  <2>2. /\ pressed'[keyWindow] = pressed[keyWindow] \ {Caps}
        /\ \A d \in Displays : d # keyWindow => pressed'[d] = pressed[d]
    BY <1>p, <2>1
  <2>3. (pressed[keyWindow] \ {Caps}) \cap Mods = pressed[keyWindow] \cap Mods
    BY DEF Ordinary
  <2> QED
    BY <1>t, <2>1, <2>2, <2>3 DEF FocusInv, ModsExact
<1>4. ASSUME NEW d \in Displays, BecomeKey(d) PROVE FocusInv'
  <2>1. keyWindow = None /\ keyWindow' = d /\ pressed' = pressed /\ held' = held
    BY <1>4 DEF BecomeKey, FocusUnchanged
  <2>2. pressed[d] = {} /\ \A e \in Displays : pressed[e] = {}
    BY <1>t, <2>1 DEF FocusInv
  <2>3. ~blind' => held \cap Mods = {}
    BY <1>4 DEF BecomeKey
  <2> QED
    BY <2>1, <2>2, <2>3 DEF FocusInv, ModsExact
<1>5. ASSUME NEW d \in Displays, ResetInputState(d)
      PROVE  pressed'[d] = {} /\ \A e \in Displays : e # d => pressed'[e] = pressed[e]
  BY <1>5, <1>p DEF ResetInputState, Report
<1>6. ASSUME NEW d \in Displays, ResignKey(d) PROVE FocusInv'
  BY <1>6, <1>5, <1>t DEF ResignKey, FocusInv, ModsExact
<1>7. ASSUME NEW d \in Displays, CloseWindow(d) PROVE FocusInv'
  <2>1. held' = held /\ ResetInputState(d)
    BY <1>7 DEF CloseWindow, FocusUnchanged
  <2>2. pressed'[d] = {} /\ \A e \in Displays : e # d => pressed'[e] = pressed[e]
    BY <1>5, <2>1
  <2>3. CASE keyWindow = d
    <3>1. keyWindow' = None
      BY <1>7, <2>3 DEF CloseWindow
    <3> QED
      BY <1>t, <2>2, <2>3, <3>1 DEF FocusInv, ModsExact
  <2>4. CASE keyWindow # d
    <3>1. keyWindow' = keyWindow /\ (~blind' => ~blind)
      BY <1>7, <2>4 DEF CloseWindow
    <3> QED
      BY <1>p, <1>t, <2>1, <2>2, <2>4, <3>1 DEF FocusInv, ModsExact
  <2> QED
    BY <2>3, <2>4
<1>8. CASE UNCHANGED <<held, keyWindow, pressed, blind>>
  BY <1>8, <1>t DEF FocusInv, ModsExact
<1>9. CASE ResetAll
  BY <1>9 DEF ResetAll, FocusInv, ModsExact
<1>10. ASSUME NEW d \in Displays, MouseDown(d) \/ MouseDragged(d) \/ MouseUp(d)
       PROVE  UNCHANGED <<held, keyWindow, pressed, blind>>
  BY <1>10 DEF MouseDown, MouseDragged, MouseUp, TouchUnchanged
<1>11. CASE AgentNext \/ GuestNext
  BY <1>11, <1>8 DEF AgentNext, GuestNext, HandleLine, HostGone, AgentConnects, Accept,
     CloseComponent, DisplayGoes, AgentUnchanged
<1>12. CASE QemuDies \/ Disable \/ Launch \/ Receive
  BY <1>12, <1>8 DEF QemuDies, Disable, Launch, Receive, ProcessUnchanged
<1>13. CASE UNCHANGED vars
  BY <1>13, <1>8 DEF vars
<1> QED
  BY <1>1, <1>2, <1>3, <1>4, <1>6, <1>7, <1>8, <1>9, <1>10, <1>11, <1>12, <1>13
     DEF Next, ViewNext, QemuNext

-----------------------------------------------------------------------------
\* What the views but for the mouse do to the touches: they forget them.
LEMMA KeepTouches ==
    ASSUME Types,
           \/ \E k \in Keys, down \in BOOLEAN : Key(k, down)
           \/ \E m \in Mods : FlagsChanged(m)
           \/ CapsLock
           \/ \E d \in Displays : BecomeKey(d) \/ ResignKey(d) \/ CloseWindow(d)
    PROVE  /\ queue' = queue /\ inputs' \in Nat /\ inputs' >= inputs
           /\ \A d \in Displays : touch'[d] = touch[d] \/ touch'[d] = NoTouch
<1> USE DEF view, gesture
<1>1. inputs \in Nat /\ touch \in [Displays -> TouchType]
  BY DEF Types
<1>2. CASE \/ \E k \in Keys, down \in BOOLEAN : Key(k, down)
           \/ \E m \in Mods : FlagsChanged(m)
           \/ CapsLock
  <2>1. Stroke
    BY <1>2 DEF Key, FlagsChanged, CapsLock
  <2> QED
    BY <1>1, <2>1 DEF Stroke
<1>3. ASSUME NEW d \in Displays, BecomeKey(d) \/ ResignKey(d) \/ CloseWindow(d)
      PROVE  /\ queue' = queue /\ inputs' = inputs
             /\ touch' = touch \/ touch' = [touch EXCEPT ![d] = NoTouch]
  BY <1>3 DEF BecomeKey, ResignKey, CloseWindow, ResetInputState, FocusUnchanged
<1> QED
  BY <1>1, <1>2, <1>3

\* Packets and touches are younger than the qemu they are for.
LEMMA PacketStep == InputInv /\ [Next]_vars => PacketInv'
<1> SUFFICES ASSUME InputInv, [Next]_vars PROVE PacketInv'
  OBVIOUS
<1> USE DEF user, view, wire, guest, process, gesture
<1>t. Types /\ DownInv /\ PacketInv
  BY DEF InputInv
<1>p. /\ queue \in Seq(Nat) /\ inputs \in Nat /\ since \in Nat /\ touch \in [Displays -> TouchType]
      /\ Len(queue) \in Nat /\ NoTouch.on = "none"
  BY <1>t, TouchTypes DEF Types
\* A packet more of this qemu.
<1>a. ASSUME NEW g \in Nat, g > since, PacketInv
      PROVE  LET q == Append(queue, g) IN
             qemu \in {"up", "dead"} => \A i \in 1..Len(q) : q[i] > since
  BY <1>a, <1>p DEF PacketInv
<1>1. CASE /\ UNCHANGED <<qemu, since, queue>> /\ inputs' \in Nat /\ inputs' >= inputs
           /\ \A d \in Displays : touch'[d] = touch[d] \/ touch'[d] = NoTouch
  BY <1>1, <1>t, <1>p DEF PacketInv
<1>2. ASSUME NEW d \in Displays, MouseDown(d) PROVE PacketInv'
  <2>1. inputs + 1 \in Nat /\ inputs + 1 > since /\ inputs' = inputs + 1
    BY <1>2, <1>t, <1>p DEF MouseDown, PacketInv
  <2>2. queue' = queue \/ queue' = Append(queue, inputs + 1)
    BY <1>2, <1>t, DownFacts
  <2>3. PICK t \in TouchType :
           touch' = [touch EXCEPT ![d] = t] /\ (t.on # "none" => t.g = inputs + 1)
    BY <1>2, <1>t, DownFacts
  <2>4. since' = since /\ qemu' = qemu
    BY <1>2 DEF MouseDown, TouchUnchanged
  <2>5. qemu \in {"up", "dead"} => \A i \in 1..Len(queue') : queue'[i] > since
    BY <1>a, <1>t, <2>1, <2>2 DEF PacketInv
  <2>6. qemu \in {"up", "dead"} => \A e \in Displays : touch'[e].on # "none" => touch'[e].g > since
    BY <1>t, <1>p, <2>1, <2>3 DEF PacketInv
  <2>7. since <= inputs'
    BY <1>p, <2>1
  <2> QED
    BY <2>4, <2>5, <2>6, <2>7 DEF PacketInv
<1>3. ASSUME NEW d \in Displays, NEW kind \in {"move", "end"}, Continue(d, kind)
      PROVE  qemu \in {"up", "dead"} => \A i \in 1..Len(queue') : queue'[i] > since
  <2>1. \/ queue' = queue
        \/ touch[d].g \in Nat /\ touch[d].on = "direct" /\ queue' = Append(queue, touch[d].g)
    BY <1>3, <1>t, ContinueFacts
  <2>2. qemu \in {"up", "dead"} /\ touch[d].on = "direct" => touch[d].g > since
    BY <1>t DEF PacketInv
  <2> QED
    BY <1>a, <1>t, <2>1, <2>2 DEF PacketInv
<1>4. ASSUME NEW d \in Displays, MouseDragged(d) PROVE PacketInv'
  BY <1>4, <1>3, <1>t DEF MouseDragged, TouchUnchanged, PacketInv
<1>5. ASSUME NEW d \in Displays, MouseUp(d) PROVE PacketInv'
  <2>1. touch' = [touch EXCEPT ![d] = NoTouch] /\ UNCHANGED <<qemu, since, inputs>>
    BY <1>5 DEF MouseUp, TouchUnchanged
  <2>2. qemu \in {"up", "dead"} => \A i \in 1..Len(queue') : queue'[i] > since
    BY <1>5, <1>3 DEF MouseUp
  <2>3. qemu \in {"up", "dead"} => \A e \in Displays : touch'[e].on # "none" => touch'[e].g > since
    BY <1>t, <1>p, <2>1 DEF PacketInv
  <2> QED
    BY <1>t, <2>1, <2>2, <2>3 DEF PacketInv
<1>6. CASE /\ \/ \E k \in Keys, down \in BOOLEAN : Key(k, down)
              \/ \E m \in Mods : FlagsChanged(m)
              \/ CapsLock
              \/ \E d \in Displays : BecomeKey(d) \/ ResignKey(d) \/ CloseWindow(d)
           /\ ViewNext
  <2>1. UNCHANGED <<qemu, since>>
    BY <1>6, <1>t, ViewFacts
  <2> QED
    BY <1>1, <1>6, <1>t, <2>1, KeepTouches
<1>7. CASE AgentNext \/ GuestNext
  <2>1. UNCHANGED <<qemu, since, queue, inputs, touch>>
    BY <1>7 DEF AgentNext, GuestNext, HandleLine, HostGone, AgentConnects, Accept,
       CloseComponent, DisplayGoes, AgentUnchanged
  <2> QED
    BY <1>1, <1>p, <2>1
<1>8. CASE QemuDies \/ Disable \/ ResetAll
  BY <1>8, <1>t DEF QemuDies, Disable, ResetAll, ProcessUnchanged, PacketInv
<1>9. CASE Launch
  <2>1. CASE qemu = "down" /\ qemu' = "starting" /\ since' = inputs
    BY <1>9, <1>p, <2>1 DEF Launch, ProcessUnchanged, PacketInv
  <2>2. CASE qemu = "starting" /\ qemu' = "up" /\ since' = since
    <3>1. queue = <<>> /\ \A d \in Displays : touch[d] = NoTouch
      BY <1>t, <2>2 DEF DownInv
    <3>2. UNCHANGED <<queue, touch, inputs>>
      BY <1>9 DEF Launch, ProcessUnchanged
    <3> QED
      BY <1>p, <1>t, <2>2, <3>1, <3>2 DEF PacketInv
  <2> QED
    BY <1>9, <2>1, <2>2 DEF Launch
<1>10. CASE Receive
  <2>1. queue # <<>> /\ queue' = Tail(queue) /\ UNCHANGED <<qemu, since, inputs, touch>>
    BY <1>10 DEF Receive
  <2>2. qemu \in {"up", "dead"} => \A i \in 1..Len(queue') : queue'[i] > since
    <3>1. \A i \in 1..Len(queue') : i + 1 \in 1..Len(queue) /\ queue'[i] = queue[i + 1]
      BY <1>p, <2>1
    <3>2. qemu \in {"up", "dead"} => \A i \in 1..Len(queue) : queue[i] > since
      BY <1>t DEF PacketInv
    <3> QED
      BY <3>1, <3>2
  <2> QED
    BY <1>t, <2>1, <2>2 DEF PacketInv
<1>11. CASE UNCHANGED vars
  BY <1>11, <1>t DEF vars, PacketInv
<1> QED
  BY <1>2, <1>4, <1>5, <1>6, <1>7, <1>8, <1>9, <1>10, <1>11 DEF Next, ViewNext, QemuNext

-----------------------------------------------------------------------------
\* A line that is no report of the view leaves its reports as they are.
LEMMA ReportsGrow ==
    ASSUME NEW p \in Seq(LineType), NEW l \in LineType, NEW d \in Displays, NEW S,
           ~(l.kind = "keys" /\ l.d = d)
    PROVE  /\ Reports(Append(p, l), d) = Reports(p, d)
           /\ LastReport(p, d, S) => LastReport(Append(p, l), d, S)
<1>1. /\ Len(p) \in Nat /\ Len(Append(p, l)) = Len(p) + 1 /\ Append(p, l)[Len(p) + 1] = l
      /\ \A i \in 1..Len(p) : Append(p, l)[i] = p[i]
  OBVIOUS
<1>2. Reports(Append(p, l), d) = Reports(p, d)
  BY <1>1 DEF Reports
<1>3. \A i \in Reports(p, d) : Append(p, l)[i] = p[i]
  BY <1>1 DEF Reports
<1> QED
  BY <1>2, <1>3 DEF LastReport

\* A report of the view itself becomes the last.
LEMMA ReportsOwn ==
    ASSUME NEW p \in Seq(LineType), NEW d \in Displays, NEW S \in SUBSET Usages
    PROVE  /\ Reports(Append(p, KeyLine(d, S)), d) # {}
           /\ LastReport(Append(p, KeyLine(d, S)), d, S)
<1> DEFINE l == KeyLine(d, S)
           q == Append(p, l)
<1>1. l \in LineType /\ l.kind = "keys" /\ l.d = d
  BY KeyLineType
<1> HIDE DEF l
<1>2. /\ Len(p) \in Nat /\ Len(q) = Len(p) + 1 /\ q[Len(p) + 1] = l
  BY <1>1
<1> HIDE DEF q
<1>3. Len(p) + 1 \in Reports(q, d)
  BY <1>1, <1>2 DEF Reports
<1>4. \A i \in Reports(q, d) : i \in Nat /\ i <= Len(p) + 1
  BY <1>2 DEF Reports
<1>5. \A i \in Reports(q, d) : (\A j \in Reports(q, d) : j <= i) => i = Len(p) + 1
  BY <1>2, <1>3, <1>4
<1>6. LastReport(q, d, S)
  BY <1>2, <1>5 DEF LastReport, l
<1> QED
  BY <1>3, <1>6 DEF q, l

\* The last report stays the last until it is read.
LEMMA ReportsShrink ==
    ASSUME NEW p \in Seq(LineType), p # <<>>, NEW d \in Displays, NEW S, LastReport(p, d, S)
    PROVE  /\ LastReport(Tail(p), d, S)
           /\ Reports(Tail(p), d) = {} =>
                \/ Reports(p, d) = {} /\ ~(Head(p).kind = "keys" /\ Head(p).d = d)
                \/ Head(p) = KeyLine(d, S)
<1> DEFINE q == Tail(p)
<1>1. /\ Len(p) \in Nat /\ Len(q) \in Nat /\ Len(p) = Len(q) + 1 /\ p[1] = Head(p)
      /\ \A i \in 1..Len(q) : q[i] = p[i + 1]
  OBVIOUS
<1> HIDE DEF q
<1>2. \A i \in Nat : i \in Reports(q, d) <=> i \in 1..Len(q) /\ i + 1 \in Reports(p, d)
  BY <1>1 DEF Reports
<1>3. Reports(q, d) \subseteq Nat /\ Reports(p, d) \subseteq 1..Len(p)
  BY <1>1 DEF Reports
<1>4. ASSUME NEW i \in Reports(q, d), \A j \in Reports(q, d) : j <= i PROVE q[i] = KeyLine(d, S)
  <2>1. i \in 1..Len(q) /\ i + 1 \in Reports(p, d)
    BY <1>2, <1>3
  <2>2. ASSUME NEW j \in Reports(p, d) PROVE j <= i + 1
    <3>1. j \in 1..Len(p)
      BY <1>3
    <3>2. CASE j = 1
      BY <1>1, <2>1, <3>2
    <3>3. CASE j # 1
      <4>1. j - 1 \in 1..Len(q) /\ (j - 1) + 1 = j
        BY <1>1, <3>1, <3>3
      <4>2. j - 1 \in Reports(q, d)
        BY <1>2, <4>1
      <4> QED
        BY <1>1, <1>4, <2>1, <3>1, <4>2
    <3> QED
      BY <3>2, <3>3
  <2> QED
    BY <1>1, <2>1, <2>2 DEF LastReport
<1>5. LastReport(q, d, S)
  BY <1>4 DEF LastReport
<1>6. ASSUME Reports(q, d) = {}
      PROVE  \/ Reports(p, d) = {} /\ ~(Head(p).kind = "keys" /\ Head(p).d = d)
             \/ Head(p) = KeyLine(d, S)
  <2>1. \A j \in Reports(p, d) : j = 1
    <3> SUFFICES ASSUME NEW j \in Reports(p, d), j # 1 PROVE FALSE
      OBVIOUS
    <3>1. j - 1 \in 1..Len(q) /\ (j - 1) + 1 = j
      BY <1>1, <1>3
    <3> QED
      BY <1>2, <1>6, <3>1
  <2>2. CASE Reports(p, d) = {}
    BY <1>1, <2>2 DEF Reports
  <2>3. CASE Reports(p, d) # {}
    <3>1. 1 \in Reports(p, d) /\ \A j \in Reports(p, d) : j <= 1
      BY <2>1, <2>3
    <3> QED
      BY <1>1, <3>1 DEF LastReport
  <2> QED
    BY <2>2, <2>3
<1> QED
  BY <1>5, <1>6 DEF q

\* What Android makes of a report it has read.
LEMMA ShownFacts ==
    ASSUME Types, KeysInv, HandleLine, NEW d \in Displays
    PROVE  /\ \/ shown'[d] = shown[d]
              \/ display[d] = "live" /\ Head(pipe).kind = "keys" /\ Head(pipe).d = d
           /\ Head(pipe) = KeyLine(d, pressed[d]) /\ Fits(pressed[d]) =>
                shown'[d] \subseteq pressed[d]
<1> DEFINE l == Head(pipe)
<1>1. /\ l \in LineType /\ shown \in [Displays -> SUBSET Usages]
      /\ pressed[d] \in SUBSET Usages /\ l.d \in Displays
  BY HandleFacts, LineFields DEF Types
<1> HIDE DEF l
<1>2. CASE l.kind # "keys"
  <2>1. shown' = shown
    BY <1>2 DEF HandleLine, InjectTouch, l
  <2>2. l # KeyLine(d, pressed[d])
    BY <1>1, <1>2, KeyLineType
  <2> QED
    BY <2>1, <2>2 DEF l
<1>3. CASE l.kind = "keys" /\ display[l.d] # "live"
  <2>1. shown' = shown
    BY <1>3 DEF HandleLine, HandleKeys, l
  <2>2. l = KeyLine(d, pressed[d]) => l.d = d
    BY <1>1, KeyLineType
  <2>3. l = KeyLine(d, pressed[d]) => shown[d] = {}
    BY <1>3, <2>2 DEF KeysInv
  <2> QED
    BY <2>1, <2>3 DEF l
<1>4. CASE l.kind = "keys" /\ display[l.d] = "live"
  <2> DEFINE new == l.mods \cup (IF l.keys = {Rollover} THEN shown[l.d] \cap Ordinary ELSE l.keys)
  <2>1. shown' = [shown EXCEPT ![l.d] = new]
    BY <1>4 DEF HandleLine, HandleKeys, l
  <2>2. ASSUME l = KeyLine(d, pressed[d]), Fits(pressed[d]) PROVE new \subseteq pressed[d]
    <3>1. l.mods = pressed[d] \cap Mods /\ l.keys = pressed[d] \cap Ordinary
      BY <1>1, <2>2, KeyLineType
    <3>2. l.keys # {Rollover}
      BY <3>1
    <3> QED
      BY <3>1, <3>2
  <2>3. l = KeyLine(d, pressed[d]) => l.d = d
    BY <1>1, KeyLineType
  <2> HIDE DEF new
  <2>4. shown'[l.d] = new /\ (d # l.d => shown'[d] = shown[d])
    BY <1>1, <2>1
  <2> QED
    BY <1>4, <2>2, <2>3, <2>4 DEF l
<1> QED
  BY <1>2, <1>3, <1>4

\* The keys of the views, on their way to Android.
LEMMA KeysStep == InputInv /\ [Next]_vars => KeysInv'
<1> SUFFICES ASSUME InputInv, [Next]_vars PROVE KeysInv'
  OBVIOUS
<1> USE DEF user, view, wire, guest, process, gesture
<1>t. Types /\ LinkInv /\ DownInv /\ KeysInv
  BY DEF InputInv
<1>p. /\ pressed \in [Displays -> SUBSET Usages] /\ pipe \in Seq(LineType)
      /\ keyWindow \in Displays \cup {None}
  BY <1>t DEF Types
<1>0. ASSUME UNCHANGED <<shown, display>> PROVE KeysInv!1'
  BY <1>0, <1>t DEF KeysInv
\* A line that is not a report.
<1>l. ASSUME NEW l \in LineType, l.kind # "keys", UNCHANGED <<shown, display, pressed>>,
             writeFd' = "open" => writeFd = "open", pipe' = pipe \/ pipe' = Append(pipe, l)
      PROVE  KeysInv'
  <2>1. ASSUME NEW d \in Displays
        PROVE  /\ Reports(pipe', d) = Reports(pipe, d)
               /\ LastReport(pipe, d, pressed[d]) => LastReport(pipe', d, pressed[d])
    <3>1. CASE pipe' = pipe
      BY <3>1
    <3>2. CASE pipe' = Append(pipe, l)
      <4>1. /\ Reports(Append(pipe, l), d) = Reports(pipe, d)
            /\ LastReport(pipe, d, pressed[d]) => LastReport(Append(pipe, l), d, pressed[d])
        BY <1>l, <1>p, ReportsGrow
      <4> QED
        BY <3>2, <4>1
    <3> QED
      BY <1>l, <3>1, <3>2
  <2> QED
    BY <1>l, <1>t, <2>1 DEF KeysInv
\* A report.
<1>r. ASSUME NEW d \in Displays, NEW S \in SUBSET Usages, Report(d, S), UNCHANGED <<shown, display>>
      PROVE  KeysInv'
  <2> DEFINE l == KeyLine(d, S)
  <2>1. l \in LineType /\ l.kind = "keys" /\ l.d = d
    BY KeyLineType
  <2>2. /\ pressed' = [pressed EXCEPT ![d] = S]
        /\ writeFd' = "open" =>
             writeFd = "open" /\ ((S = pressed[d] /\ pipe' = pipe) \/ pipe' = Append(pipe, l))
    BY <1>r, <1>t, ReportFacts
  <2> HIDE DEF l
  <2>3. ASSUME writeFd' = "open", NEW e \in Displays
        PROVE  /\ LastReport(pipe', e, pressed'[e])
               /\ Reports(pipe', e) = {} /\ Fits(pressed'[e]) => shown'[e] \subseteq pressed'[e]
    <3>1. /\ LastReport(pipe, e, pressed[e])
          /\ Reports(pipe, e) = {} /\ Fits(pressed[e]) => shown[e] \subseteq pressed[e]
      BY <1>t, <2>2, <2>3 DEF KeysInv
    <3>2. CASE S = pressed[d] /\ pipe' = pipe
      <4>1. pressed' = pressed
        BY <1>p, <2>2, <3>2
      <4> QED
        BY <1>r, <3>1, <3>2, <4>1
    <3>3. CASE pipe' = Append(pipe, l) /\ e # d
      <4>1. pressed'[e] = pressed[e]
        BY <1>p, <2>2, <3>3
      <4>2. Reports(pipe', e) = Reports(pipe, e) /\ LastReport(pipe', e, pressed[e])
        BY <1>p, <2>1, <3>1, <3>3, ReportsGrow
      <4> QED
        BY <1>r, <3>1, <4>1, <4>2
    <3>4. CASE pipe' = Append(pipe, l) /\ e = d
      <4>1. pressed'[e] = S
        BY <1>p, <2>2, <3>4
      <4>2. Reports(pipe', e) # {} /\ LastReport(pipe', e, S)
        BY <1>p, <3>4, ReportsOwn DEF l
      <4> QED
        BY <4>1, <4>2
    <3> QED
      BY <2>2, <2>3, <3>2, <3>3, <3>4
  <2> QED
    BY <1>0, <1>r, <2>3 DEF KeysInv
<1>s. CASE UNCHANGED <<shown, display, pressed, writeFd, pipe>>
  BY <1>s, <1>t DEF KeysInv
<1>1. ASSUME NEW k \in Keys, NEW down \in BOOLEAN, Key(k, down) PROVE KeysInv'
  <2>0. UNCHANGED <<shown, display>>
    BY <1>1 DEF Key, Stroke
  <2>1. CASE keyWindow = None
    BY <1>1, <1>s, <2>0, <2>1 DEF Key
  <2>2. CASE keyWindow # None
    <3>1. PICK S \in SUBSET Usages : Report(keyWindow, S)
      BY <1>1, <1>t, <2>2, KeyReports
    <3> QED
      BY <1>p, <1>r, <2>0, <2>2, <3>1
  <2> QED
    BY <2>1, <2>2
<1>2. ASSUME NEW m \in Mods, FlagsChanged(m) PROVE KeysInv'
  <2>0. UNCHANGED <<shown, display>>
    BY <1>2 DEF FlagsChanged, Stroke
  <2>1. CASE keyWindow = None
    BY <1>2, <1>s, <2>0, <2>1 DEF FlagsChanged
  <2>2. CASE keyWindow # None
    <3>1. PICK S \in SUBSET Usages : Report(keyWindow, S)
      BY <1>2, <1>t, <2>2, KeyReports
    <3> QED
      BY <1>p, <1>r, <2>0, <2>2, <3>1
  <2> QED
    BY <2>1, <2>2
<1>3. CASE CapsLock
  <2> DEFINE d == keyWindow
             S == pressed[d] \ {Caps}
             k1 == KeyLine(d, pressed[d] \cup {Caps})
             k2 == KeyLine(d, S)
             one == Append(pipe, k1)
  <2>1. /\ d \in Displays /\ pressed[d] \in SUBSET Usages
        /\ pressed' = [pressed EXCEPT ![d] = S]
        /\ writeFd' = "open" => writeFd = "open" /\ pipe' = Append(one, k2)
    BY <1>3, <1>t, CapsFacts
  <2>2. UNCHANGED <<shown, display>>
    BY <1>3 DEF CapsLock, Stroke
  <2>3. S \in SUBSET Usages /\ pressed[d] \cup {Caps} \in SUBSET Usages
    BY <2>1, KeySets
  <2>4. k1 \in LineType /\ k2 \in LineType /\ k1.d = d /\ k2.d = d
    BY <2>1, <2>3, KeyLineType
  <2>5. one \in Seq(LineType)
    BY <1>p, <2>4
  <2> HIDE DEF k1, S, d
  <2>6. LastReport(Append(one, k2), d, S) /\ Reports(Append(one, k2), d) # {}
    BY <2>1, <2>3, <2>5, ReportsOwn
  <2> HIDE DEF k2
  <2>7. ASSUME writeFd' = "open", NEW e \in Displays
        PROVE  /\ LastReport(pipe', e, pressed'[e])
               /\ Reports(pipe', e) = {} /\ Fits(pressed'[e]) => shown'[e] \subseteq pressed'[e]
    <3>1. CASE e = d
      <4>1. pressed'[e] = S
        BY <1>p, <2>1, <3>1
      <4> QED
        BY <2>1, <2>6, <2>7, <3>1, <4>1
    <3>2. CASE e # d
      <4>1. pressed'[e] = pressed[e]
        BY <1>p, <2>1, <3>2
      <4>2. /\ LastReport(pipe, e, pressed[e])
            /\ Reports(pipe, e) = {} /\ Fits(pressed[e]) => shown[e] \subseteq pressed[e]
        BY <1>t, <2>1, <2>7 DEF KeysInv
      <4>3. Reports(one, e) = Reports(pipe, e) /\ LastReport(one, e, pressed[e])
        BY <1>p, <2>4, <3>2, <4>2, ReportsGrow
      <4> HIDE DEF one
      <4>4. /\ Reports(Append(one, k2), e) = Reports(pipe, e)
            /\ LastReport(Append(one, k2), e, pressed[e])
        BY <2>4, <2>5, <3>2, <4>3, ReportsGrow
      <4> QED
        BY <2>1, <2>2, <2>7, <4>1, <4>2, <4>4
    <3> QED
      BY <3>1, <3>2
  <2> QED
    BY <1>0, <2>2, <2>7 DEF KeysInv
<1>4. ASSUME NEW d \in Displays, BecomeKey(d) PROVE KeysInv'
  BY <1>4, <1>s DEF BecomeKey, FocusUnchanged
<1>5. ASSUME NEW d \in Displays, ResignKey(d) \/ CloseWindow(d) PROVE KeysInv'
  <2>1. Report(d, {}) /\ {} \in SUBSET Usages /\ UNCHANGED <<shown, display>>
    BY <1>5 DEF ResignKey, CloseWindow, ResetInputState, FocusUnchanged
  <2> QED
    BY <1>r, <2>1
<1>6. ASSUME NEW d \in Displays, MouseDown(d) PROVE KeysInv'
  <2> DEFINE l == TouchLine("begin", d, inputs + 1)
  <2>1. /\ inputs + 1 \in Nat /\ (writeFd' = "open" => writeFd = "open")
        /\ pipe' = pipe \/ pipe' = Append(pipe, l)
    BY <1>6, <1>t, DownFacts
  <2>2. l \in LineType /\ l.kind # "keys"
    BY <2>1, TouchLineType DEF TouchKinds
  <2>3. UNCHANGED <<shown, display, pressed>>
    BY <1>6 DEF MouseDown, TouchUnchanged
  <2> HIDE DEF l
  <2> QED
    BY <1>l, <2>1, <2>2, <2>3
<1>7. ASSUME NEW d \in Displays, NEW kind \in {"move", "end"}, Continue(d, kind),
             UNCHANGED <<shown, display, pressed>>
      PROVE  KeysInv'
  <2> DEFINE l == TouchLine(kind, d, touch[d].g)
  <2>1. /\ touch[d].g \in Nat /\ (writeFd' = "open" => writeFd = "open")
        /\ pipe' = pipe \/ pipe' = Append(pipe, l)
    BY <1>7, <1>t, ContinueFacts
  <2>2. l \in LineType /\ l.kind # "keys"
    BY <2>1, TouchLineType DEF TouchKinds
  <2> HIDE DEF l
  <2> QED
    BY <1>l, <1>7, <2>1, <2>2
<1>8. ASSUME NEW d \in Displays, MouseDragged(d) \/ MouseUp(d) PROVE KeysInv'
  <2>1. UNCHANGED <<shown, display, pressed>>
    BY <1>8 DEF MouseDragged, MouseUp, TouchUnchanged
  <2>2. Continue(d, "move") \/ Continue(d, "end")
    BY <1>8 DEF MouseDragged, MouseUp
  <2> QED
    BY <1>7, <2>1, <2>2
<1>9. CASE HandleLine
  <2>0. pressed' = pressed /\ writeFd' = writeFd /\ pipe' = Tail(pipe) /\ pipe # <<>>
    BY <1>9 DEF HandleLine, AgentUnchanged
  <2>1. ASSUME NEW d \in Displays, display'[d] # "live" PROVE shown'[d] = {}
    <3>1. display[d] # "live"
      BY <1>9, <1>t, <2>1, HandleFacts
    <3>2. shown'[d] = shown[d]
      BY <1>9, <1>t, <3>1, ShownFacts
    <3> QED
      BY <1>t, <3>1, <3>2 DEF KeysInv
  <2>2. ASSUME writeFd = "open", NEW d \in Displays
        PROVE  /\ LastReport(Tail(pipe), d, pressed[d])
               /\ Reports(Tail(pipe), d) = {} /\ Fits(pressed[d]) => shown'[d] \subseteq pressed[d]
    <3>1. /\ LastReport(pipe, d, pressed[d])
          /\ Reports(pipe, d) = {} /\ Fits(pressed[d]) => shown[d] \subseteq pressed[d]
      BY <1>t, <2>2 DEF KeysInv
    <3>2. /\ LastReport(Tail(pipe), d, pressed[d])
          /\ Reports(Tail(pipe), d) = {} =>
               \/ Reports(pipe, d) = {} /\ ~(Head(pipe).kind = "keys" /\ Head(pipe).d = d)
               \/ Head(pipe) = KeyLine(d, pressed[d])
      BY <1>p, <2>0, <3>1, ReportsShrink
    <3> QED
      BY <1>9, <1>t, <3>1, <3>2, ShownFacts
  <2> QED
    BY <2>0, <2>1, <2>2 DEF KeysInv
<1>10. CASE HostGone
  BY <1>10, <1>t DEF HostGone, KeysInv
<1>11. CASE AgentConnects
  BY <1>11, <1>s DEF AgentConnects, AgentUnchanged
<1>12. CASE Accept
  <2>1. pipe = <<>> /\ \A d \in Displays : shown[d] = {}
    BY <1>12, <1>t DEF Accept, LinkInv
  <2>2. UNCHANGED <<pipe, shown, display>>
    BY <1>12 DEF Accept
  <2>3. \A d \in Displays : Reports(<<>>, d) = {}
    BY DEF Reports
  <2> QED
    BY <1>0, <2>1, <2>2, <2>3 DEF KeysInv, LastReport
<1>13. ASSUME NEW d \in Displays, CloseComponent(d) \/ DisplayGoes(d) PROVE KeysInv'
  <2>1. /\ shown \in [Displays -> SUBSET Usages]
        /\ display \in [Displays -> {"live", "stale", "gone"}]
    BY <1>t DEF Types
  <2>2. UNCHANGED <<pressed, writeFd, pipe>> /\ shown' = [shown EXCEPT ![d] = {}]
    BY <1>13 DEF CloseComponent, DisplayGoes, AgentUnchanged
  <2>3. \A e \in Displays : e # d => display'[e] = display[e]
    BY <1>13, <2>1 DEF CloseComponent, DisplayGoes
  <2>4. shown'[d] = {} /\ \A e \in Displays : e # d => shown'[e] = shown[e]
    BY <2>1, <2>2
  <2> QED
    BY <1>t, <2>2, <2>3, <2>4 DEF KeysInv
<1>14. CASE QemuDies
  <2>1. writeFd' # "open" /\ \A d \in Displays : shown'[d] = {}
    BY <1>14 DEF QemuDies
  <2> QED
    BY <2>1 DEF KeysInv
<1>15. CASE Disable \/ Receive
  BY <1>15, <1>s DEF Disable, Receive
<1>16. CASE ResetAll
  <2>1. writeFd # "open"
    BY <1>16, <1>t DEF ResetAll, LinkInv
  <2>2. writeFd' # "open" /\ UNCHANGED <<shown, display>>
    BY <1>16, <2>1 DEF ResetAll
  <2> QED
    BY <1>0, <2>2 DEF KeysInv
<1>17. CASE Launch
  <2>1. UNCHANGED <<shown, pressed, writeFd, pipe>>
    BY <1>17 DEF Launch
  <2>2. display' = display \/ \A d \in Displays : display'[d] = "live"
    BY <1>17 DEF Launch
  <2> QED
    BY <1>t, <2>1, <2>2 DEF KeysInv
<1>18. CASE UNCHANGED vars
  BY <1>18, <1>s DEF vars
<1> QED
  BY <1>1, <1>2, <1>3, <1>4, <1>5, <1>6, <1>8, <1>9, <1>10, <1>11, <1>12, <1>13, <1>14, <1>15,
     <1>16, <1>17, <1>18 DEF Next, ViewNext, AgentNext, GuestNext, QemuNext

-----------------------------------------------------------------------------
\* Touches and begins in a pipe to which a line is appended.
LEMMA AppendLines ==
    ASSUME NEW p \in Seq(LineType), NEW l \in LineType
    PROVE  LET q == Append(p, l) IN
           /\ Len(p) \in Nat /\ Len(q) = Len(p) + 1 /\ q[Len(p) + 1] = l
           /\ \A i \in 1..Len(p) : q[i] = p[i]
           /\ Touches(p) \subseteq 1..Len(p)
           /\ \A i \in Touches(q) : i \in Touches(p) \/ (i = Len(p) + 1 /\ l.kind # "keys")
           /\ \A i, j \in Nat : i >= 1 /\ j <= Len(q) /\ NoBegin(q, i, j) =>
                /\ NoBegin(p, i, IF j <= Len(p) THEN j ELSE Len(p))
                /\ j = Len(q) /\ i <= j => l.kind # "begin"
<1> DEFINE q == Append(p, l)
<1>1. /\ Len(p) \in Nat /\ Len(q) = Len(p) + 1 /\ q[Len(p) + 1] = l
      /\ \A i \in 1..Len(p) : q[i] = p[i]
  OBVIOUS
<1> HIDE DEF q
<1>2. Touches(p) \subseteq 1..Len(p)
  BY DEF Touches
<1>3. \A i \in Touches(q) : i \in Touches(p) \/ (i = Len(p) + 1 /\ l.kind # "keys")
  BY <1>1 DEF Touches
<1>4. ASSUME NEW i \in Nat, NEW j \in Nat, i >= 1, j <= Len(q), NoBegin(q, i, j)
      PROVE  /\ NoBegin(p, i, IF j <= Len(p) THEN j ELSE Len(p))
             /\ j = Len(q) /\ i <= j => l.kind # "begin"
  <2>1. ASSUME NEW k \in i..(IF j <= Len(p) THEN j ELSE Len(p)) PROVE p[k].kind # "begin"
    <3>1. k \in 1..Len(p) /\ k \in i..j
      BY <1>1, <1>4
    <3> QED
      BY <1>1, <1>4, <3>1 DEF NoBegin
  <2>2. ASSUME j = Len(q), i <= j PROVE l.kind # "begin"
    <3>1. Len(p) + 1 \in i..j
      BY <1>1, <2>2
    <3> QED
      BY <1>1, <1>4, <3>1 DEF NoBegin
  <2> QED
    BY <2>1, <2>2 DEF NoBegin
<1> QED
  BY <1>1, <1>2, <1>3, <1>4 DEF q

\* The gestures in the pipe when a line is appended: a report belongs to none, a
\* begin starts one, and a line of the last one goes on with it.
LEMMA GestureGrows ==
    ASSUME NEW p \in Seq(LineType), NEW l \in LineType, NEW f, NEW D,
           OneGesture(p), FirstContinue(p, f, D),
           \/ l.kind \in {"keys", "begin"}
           \/ LastIs(p, f, D, l.d, l.g)
    PROVE  /\ OneGesture(Append(p, l)) /\ FirstContinue(Append(p, l), f, D)
           /\ l.kind # "keys" => LastIs(Append(p, l), f, D, l.d, l.g)
           /\ \A d, g : l.kind = "keys" /\ LastIs(p, f, D, d, g) => LastIs(Append(p, l), f, D, d, g)
<1> DEFINE q == Append(p, l)
           n == Len(p)
<1>1. /\ n \in Nat /\ Len(q) = n + 1 /\ q[n + 1] = l
      /\ \A i \in 1..n : q[i] = p[i]
      /\ Touches(p) \subseteq 1..n
      /\ \A i \in Touches(q) : i \in Touches(p) \/ (i = n + 1 /\ l.kind # "keys")
      /\ \A i, j \in Nat : i >= 1 /\ j <= Len(q) /\ NoBegin(q, i, j) =>
           /\ NoBegin(p, i, IF j <= n THEN j ELSE n)
           /\ j = Len(q) /\ i <= j => l.kind # "begin"
  BY AppendLines
<1> HIDE DEF q, n
<1>2. ASSUME NEW i \in Touches(q), NEW j \in Touches(q), i < j, NoBegin(q, i + 1, j)
      PROVE  q[i].g = q[j].g /\ q[i].d = q[j].d
  <2>1. i \in Nat /\ j \in Nat /\ i + 1 >= 1 /\ i \in Touches(p) /\ i + 1 \in Nat /\ j <= n + 1
    BY <1>1, <1>2
  <2>2. CASE j \in Touches(p)
    <3>1. j <= n /\ NoBegin(p, i + 1, j)
      BY <1>1, <1>2, <2>1, <2>2
    <3> QED
      BY <1>1, <1>2, <2>1, <2>2, <3>1 DEF OneGesture
  <2>3. CASE j = n + 1 /\ l.kind # "keys"
    <3>1. NoBegin(p, i + 1, n) /\ l.kind # "begin"
      BY <1>1, <1>2, <2>1, <2>3
    <3>2. LastIs(p, f, D, l.d, l.g)
      BY <2>3, <3>1
    <3> QED
      BY <1>1, <2>1, <2>3, <3>1, <3>2 DEF LastIs, n
  <2> QED
    BY <1>1, <2>2, <2>3
<1>3. ASSUME NEW j \in Touches(q), NoBegin(q, 1, j) PROVE Continues(f, D, q[j].d, q[j].g)
  <2>1. j \in Nat /\ j <= n + 1 /\ j >= 1
    BY <1>1
  <2>2. CASE j \in Touches(p)
    <3>1. j <= n /\ NoBegin(p, 1, j)
      BY <1>1, <1>3, <2>1, <2>2
    <3> QED
      BY <1>1, <2>2, <3>1 DEF FirstContinue
  <2>3. CASE j = n + 1 /\ l.kind # "keys"
    <3>1. NoBegin(p, 1, n) /\ l.kind # "begin"
      BY <1>1, <1>3, <2>1, <2>3
    <3> QED
      BY <1>1, <2>3, <3>1 DEF LastIs, n
  <2> QED
    BY <1>1, <2>2, <2>3
<1>4. ASSUME NEW i \in Touches(q), NoBegin(q, i + 1, n + 1), i \in Touches(p)
      PROVE  i \in 1..n /\ NoBegin(p, i + 1, n) /\ l.kind # "begin" /\ q[i] = p[i]
  BY <1>1, <1>4
<1>5. ASSUME NoBegin(q, 1, n + 1) PROVE NoBegin(p, 1, n) /\ l.kind # "begin"
  BY <1>1, <1>5
<1>6. ASSUME l.kind # "keys" PROVE LastIs(q, f, D, l.d, l.g)
  <2>1. ASSUME NEW i \in Touches(q), NoBegin(q, i + 1, n + 1) PROVE q[i].g = l.g /\ q[i].d = l.d
    <3>1. CASE i \in Touches(p)
      <4>1. NoBegin(p, i + 1, n) /\ l.kind # "begin" /\ q[i] = p[i]
        BY <1>4, <2>1, <3>1
      <4>2. LastIs(p, f, D, l.d, l.g)
        BY <1>6, <4>1
      <4> QED
        BY <3>1, <4>1, <4>2 DEF LastIs, n
    <3>2. CASE i = n + 1
      BY <1>1, <3>2
    <3> QED
      BY <1>1, <3>1, <3>2
  <2>2. ASSUME NoBegin(q, 1, n + 1) PROVE Continues(f, D, l.d, l.g)
    <3>1. NoBegin(p, 1, n) /\ LastIs(p, f, D, l.d, l.g)
      BY <1>5, <1>6, <2>2
    <3> QED
      BY <3>1 DEF LastIs, n
  <2> QED
    BY <1>1, <2>1, <2>2 DEF LastIs
<1>7. ASSUME NEW d, NEW g, l.kind = "keys", LastIs(p, f, D, d, g) PROVE LastIs(q, f, D, d, g)
  <2>1. ASSUME NEW i \in Touches(q), NoBegin(q, i + 1, n + 1) PROVE q[i].g = g /\ q[i].d = d
    <3>1. i \in Touches(p)
      BY <1>1, <1>7
    <3>2. NoBegin(p, i + 1, n) /\ q[i] = p[i]
      BY <1>4, <2>1, <3>1
    <3> QED
      BY <1>7, <3>1, <3>2 DEF LastIs, n
  <2>2. ASSUME NoBegin(q, 1, n + 1) PROVE Continues(f, D, d, g)
    BY <1>5, <1>7, <2>2 DEF LastIs, n
  <2> QED
    BY <1>1, <2>1, <2>2 DEF LastIs
<1>8. OneGesture(q) /\ FirstContinue(q, f, D)
  BY <1>2, <1>3 DEF OneGesture, FirstContinue
<1> QED
  BY <1>6, <1>7, <1>8 DEF q

\* The gestures when the finger and the displays change.
LEMMA GestureMoves ==
    ASSUME NEW p \in Seq(LineType), NEW f, NEW D, NEW f1, NEW D1,
           \A d \in Displays : \A g : Continues(f, D, d, g) => Continues(f1, D1, d, g)
    PROVE  /\ FirstContinue(p, f, D) => FirstContinue(p, f1, D1)
           /\ \A d \in Displays : \A g : LastIs(p, f, D, d, g) => LastIs(p, f1, D1, d, g)
<1>1. \A j \in Touches(p) : p[j].d \in Displays
  <2>1. \A j \in Touches(p) : p[j] \in LineType
    BY DEF Touches
  <2> QED
    BY <2>1, LineFields
<1>2. FirstContinue(p, f, D) => FirstContinue(p, f1, D1)
  BY <1>1 DEF FirstContinue
<1>3. \A d \in Displays : \A g : LastIs(p, f, D, d, g) => LastIs(p, f1, D1, d, g)
  BY DEF LastIs
<1> QED
  BY <1>2, <1>3

\* The gestures when the first line is read: what comes next continues the line.
LEMMA GestureShrinks ==
    ASSUME NEW p \in Seq(LineType), p # <<>>, NEW f, NEW D, NEW f1, NEW D1,
           OneGesture(p), FirstContinue(p, f, D),
           Head(p).kind = "keys" =>
             \A d \in Displays : \A g : Continues(f, D, d, g) => Continues(f1, D1, d, g),
           /\ Head(p).kind # "keys"
           /\ Head(p).kind = "begin" \/ Continues(f, D, Head(p).d, Head(p).g)
           => Continues(f1, D1, Head(p).d, Head(p).g)
    PROVE  /\ OneGesture(Tail(p)) /\ FirstContinue(Tail(p), f1, D1)
           /\ \A d \in Displays : \A g : LastIs(p, f, D, d, g) => LastIs(Tail(p), f1, D1, d, g)
<1> DEFINE q == Tail(p)
           h == Head(p)
           n == Len(q)
<1>1. /\ n \in Nat /\ Len(p) = n + 1 /\ p[1] = h
      /\ \A i \in 1..n : q[i] = p[i + 1]
  OBVIOUS
<1> HIDE DEF q, h, n
<1>2. /\ Touches(q) \subseteq 1..n
      /\ \A i \in Touches(q) : i + 1 \in Touches(p) /\ q[i] = p[i + 1] /\ p[i + 1].d \in Displays
      /\ h.kind # "keys" => 1 \in Touches(p)
  <2>1. Touches(q) \subseteq 1..n
    BY DEF Touches, n
  <2>2. \A i \in Touches(q) : i + 1 \in Touches(p) /\ q[i] = p[i + 1] /\ p[i + 1] \in LineType
    BY <1>1, <2>1 DEF Touches
  <2>3. h.kind # "keys" => 1 \in Touches(p)
    BY <1>1 DEF Touches
  <2> QED
    BY <2>1, <2>2, <2>3, LineFields
<1>3. ASSUME NEW i \in Nat, NEW j \in Nat, i >= 1, j <= n, NoBegin(q, i, j)
      PROVE  NoBegin(p, i + 1, j + 1)
  <2> SUFFICES ASSUME NEW k \in (i + 1)..(j + 1) PROVE p[k].kind # "begin"
    BY DEF NoBegin
  <2>1. k - 1 \in i..j /\ k - 1 \in 1..n /\ (k - 1) + 1 = k
    BY <1>1, <1>3
  <2> QED
    BY <1>1, <1>3, <2>1 DEF NoBegin
<1>4. ASSUME NEW j \in Nat, NoBegin(p, 2, j), h.kind # "begin" PROVE NoBegin(p, 1, j)
  <2> SUFFICES ASSUME NEW k \in 1..j PROVE p[k].kind # "begin"
    BY DEF NoBegin
  <2>1. k = 1 \/ k \in 2..j
    BY <1>4
  <2> QED
    BY <1>1, <1>4, <2>1 DEF NoBegin
\* The first line continues the finger, unless it begins a gesture.
<1>5. ASSUME h.kind # "keys" PROVE Continues(f1, D1, h.d, h.g)
  <2>1. CASE h.kind = "begin"
    BY <1>5, <2>1 DEF h
  <2>2. CASE h.kind # "begin"
    <3>1. NoBegin(p, 1, 1)
      BY <1>1, <2>2 DEF NoBegin
    <3>2. Continues(f, D, h.d, h.g)
      BY <1>1, <1>2, <1>5, <3>1 DEF FirstContinue
    <3> QED
      BY <1>5, <3>2 DEF h
  <2> QED
    BY <2>1, <2>2
<1>6. ASSUME NEW i \in Touches(q), NEW j \in Touches(q), i < j, NoBegin(q, i + 1, j)
      PROVE  q[i].g = q[j].g /\ q[i].d = q[j].d
  <2>1. i \in Nat /\ j \in Nat /\ i + 1 \in Nat /\ i + 1 >= 1 /\ j <= n /\ i + 1 < j + 1
    BY <1>1, <1>2, <1>6
  <2>2. NoBegin(p, (i + 1) + 1, j + 1)
    BY <1>3, <1>6, <2>1
  <2> QED
    BY <1>2, <2>1, <2>2 DEF OneGesture
<1>7. ASSUME NEW j \in Touches(q), NoBegin(q, 1, j) PROVE Continues(f1, D1, q[j].d, q[j].g)
  <2>1. j \in Nat /\ j >= 1 /\ j <= n /\ j + 1 \in Nat
    BY <1>1, <1>2
  <2>2. NoBegin(p, 2, j + 1)
    BY <1>3, <1>7, <2>1
  <2>3. CASE h.kind = "keys"
    <3>1. NoBegin(p, 1, j + 1)
      BY <1>4, <2>1, <2>2, <2>3
    <3>2. Continues(f, D, q[j].d, q[j].g)
      BY <1>2, <3>1 DEF FirstContinue
    <3> QED
      BY <1>2, <2>3, <3>2 DEF h
  <2>4. CASE h.kind # "keys"
    <3>1. 1 < j + 1 /\ NoBegin(p, 1 + 1, j + 1)
      BY <2>1, <2>2
    <3>2. h.g = q[j].g /\ h.d = q[j].d
      BY <1>1, <1>2, <2>4, <3>1 DEF OneGesture
    <3> QED
      BY <1>5, <2>4, <3>2
  <2> QED
    BY <2>3, <2>4
<1>8. ASSUME NEW d \in Displays, NEW g, LastIs(p, f, D, d, g) PROVE LastIs(q, f1, D1, d, g)
  <2>1. ASSUME NEW i \in Touches(q), NoBegin(q, i + 1, n) PROVE q[i].g = g /\ q[i].d = d
    <3>1. i \in Nat /\ i + 1 \in Nat /\ i + 1 >= 1
      BY <1>1, <1>2
    <3>2. NoBegin(p, (i + 1) + 1, n + 1)
      BY <1>1, <1>3, <2>1, <3>1
    <3> QED
      BY <1>1, <1>2, <1>8, <3>2 DEF LastIs
  <2>2. ASSUME NoBegin(q, 1, n) PROVE Continues(f1, D1, d, g)
    <3>1. NoBegin(p, 1 + 1, n + 1)
      BY <1>1, <1>3, <2>2
    <3>2. CASE h.kind = "keys"
      <4>1. NoBegin(p, 1, n + 1)
        BY <1>1, <1>4, <3>1, <3>2
      <4>2. Continues(f, D, d, g)
        BY <1>1, <1>8, <4>1 DEF LastIs
      <4> QED
        BY <3>2, <4>2 DEF h
    <3>3. CASE h.kind # "keys"
      <4>1. h.g = g /\ h.d = d
        BY <1>1, <1>2, <1>8, <3>1, <3>3 DEF LastIs
      <4> QED
        BY <1>5, <3>3, <4>1
    <3> QED
      BY <3>2, <3>3
  <2> QED
    BY <2>1, <2>2 DEF LastIs, n
<1> QED
  BY <1>6, <1>7, <1>8 DEF OneGesture, FirstContinue, q

\* What the agent makes of the finger when it reads a line.
LEMMA FingerFacts ==
    ASSUME Types, HandleLine
    PROVE  LET h == Head(pipe) IN
           /\ h.kind = "keys" => \A d \in Displays : \A g :
                Continues(finger, display, d, g) => Continues(finger', display', d, g)
           /\ h.kind # "keys" /\ (h.kind = "begin" \/ Continues(finger, display, h.d, h.g)) =>
                Continues(finger', display', h.d, h.g)
<1> DEFINE h == Head(pipe)
<1>1. h \in LineType /\ \A d \in Displays : display[d] = "gone" => display'[d] = "gone"
  BY HandleFacts
<1>2. h.d \in Displays
  BY <1>1, LineFields
<1> HIDE DEF h
<1>3. ASSUME h.kind = "keys", NEW d \in Displays, NEW g, Continues(finger, display, d, g)
      PROVE  Continues(finger', display', d, g)
  <2>1. finger' = finger
    BY <1>3 DEF HandleLine, HandleKeys, h
  <2> QED
    BY <1>1, <1>3, <2>1 DEF Continues
<1>4. ASSUME h.kind # "keys", h.kind = "begin" \/ Continues(finger, display, h.d, h.g)
      PROVE  Continues(finger', display', h.d, h.g)
  <2>1. finger' = IF display[h.d] = "gone" THEN finger ELSE Touched(h)
    BY <1>4 DEF HandleLine, InjectTouch, h
  <2>2. CASE display[h.d] = "gone"
    BY <1>1, <1>2, <2>2 DEF Continues
  <2>3. CASE display[h.d] # "gone"
    <3>1. /\ finger' = Touched(h) /\ Landing(h.d) \in {h.d, None}
          /\ h.kind = "begin" => Touched(h).g = h.g /\ Touched(h).d = Landing(h.d)
          /\ h.kind # "begin" =>
               \/ Touched(h) = NoFinger
               \/ Touched(h).g = finger.g /\ Touched(h).d = Landing(h.d)
      BY <1>1, <1>4, <2>1, <2>3, TouchedFacts
    <3> QED
      BY <1>4, <2>3, <3>1, TouchTypes DEF Continues
  <2> QED
    BY <2>2, <2>3
<1> QED
  BY <1>3, <1>4 DEF h

\* A gesture stays together.
LEMMA GestureStep == InputInv /\ [Next]_vars => GestureInv'
<1> SUFFICES ASSUME InputInv, [Next]_vars PROVE GestureInv'
  OBVIOUS
<1> USE DEF user, view, wire, guest, process, gesture
<1>t. Types /\ LinkInv /\ DownInv /\ GestureInv
  BY DEF InputInv
<1>p. /\ pipe \in Seq(LineType) /\ touch \in [Displays -> TouchType]
      /\ keyWindow \in Displays \cup {None} /\ NoTouch.on = "none"
  BY <1>t, TouchTypes DEF Types
<1>g. /\ \A d \in Displays : touch[d].on # "none" => grab = d
      /\ OneGesture(pipe) /\ FirstContinue(pipe, finger, display)
      /\ \A d \in Displays : touch[d].on = "agent" => LastIs(pipe, finger, display, d, touch[d].g)
  BY <1>t DEF GestureInv
<1> DEFINE Whole(p) ==
             /\ OneGesture(p) /\ FirstContinue(p, finger, display)
             /\ \A d \in Displays :
                  touch[d].on = "agent" => LastIs(p, finger, display, d, touch[d].g)
\* A report more.
<1>r. ASSUME NEW p \in Seq(LineType), NEW l \in LineType, l.kind = "keys", Whole(p)
      PROVE  Whole(Append(p, l))
  <2>1. /\ OneGesture(Append(p, l)) /\ FirstContinue(Append(p, l), finger, display)
        /\ \A d, g : LastIs(p, finger, display, d, g) => LastIs(Append(p, l), finger, display, d, g)
    BY <1>r, GestureGrows
  <2> QED
    BY <1>r, <2>1
<1>w. Whole(pipe)
  BY <1>g
\* Touches are forgotten.
<1>f. ASSUME Whole(pipe'), UNCHANGED <<finger, display>>,
             \A d \in Displays : touch'[d] = touch[d] \/ touch'[d] = NoTouch,
             \A d \in Displays : touch'[d].on # "none" => grab' = d
      PROVE  GestureInv'
  BY <1>f, <1>p DEF GestureInv
<1> HIDE DEF Whole
<1>s. ASSUME Stroke, Whole(pipe') PROVE GestureInv'
  BY <1>f, <1>g, <1>s DEF Stroke
<1>1. ASSUME NEW S \in SUBSET Usages, NEW d \in Displays, Report(d, S) PROVE Whole(pipe')
  <2>1. KeyLine(d, S) \in LineType /\ KeyLine(d, S).kind = "keys"
    BY KeyLineType
  <2>2. pipe' = pipe \/ pipe' = Append(pipe, KeyLine(d, S))
    BY <1>1, <1>t, ReportFacts
  <2> QED
    BY <1>p, <1>r, <1>w, <2>1, <2>2
<1>2. ASSUME NEW k \in Keys, NEW down \in BOOLEAN, Key(k, down) PROVE GestureInv'
  <2>1. CASE keyWindow = None
    <3>1. pipe' = pipe /\ Stroke
      BY <1>2, <2>1 DEF Key
    <3> QED
      BY <1>s, <1>w, <3>1
  <2>2. CASE keyWindow # None
    <3>1. PICK S \in SUBSET Usages : Report(keyWindow, S)
      BY <1>2, <1>t, <2>2, KeyReports
    <3>2. Whole(pipe') /\ Stroke
      BY <1>1, <1>2, <1>p, <2>2, <3>1 DEF Key
    <3> QED
      BY <1>s, <3>2
  <2> QED
    BY <2>1, <2>2
<1>3. ASSUME NEW m \in Mods, FlagsChanged(m) PROVE GestureInv'
  <2>1. CASE keyWindow = None
    <3>1. pipe' = pipe /\ Stroke
      BY <1>3, <2>1 DEF FlagsChanged
    <3> QED
      BY <1>s, <1>w, <3>1
  <2>2. CASE keyWindow # None
    <3>1. PICK S \in SUBSET Usages : Report(keyWindow, S)
      BY <1>3, <1>t, <2>2, KeyReports
    <3>2. Whole(pipe') /\ Stroke
      BY <1>1, <1>3, <1>p, <2>2, <3>1 DEF FlagsChanged
    <3> QED
      BY <1>s, <3>2
  <2> QED
    BY <2>1, <2>2
<1>4. CASE CapsLock
  <2> DEFINE d == keyWindow
             k1 == KeyLine(d, pressed[d] \cup {Caps})
             k2 == KeyLine(d, pressed[d] \ {Caps})
             one == Append(pipe, k1)
  <2>1. /\ d \in Displays /\ pressed[d] \in SUBSET Usages
        /\ pipe' = pipe \/ pipe' = one \/ pipe' = Append(one, k2)
    BY <1>4, <1>t, CapsFacts
  <2>2. k1 \in LineType /\ k2 \in LineType /\ k1.kind = "keys" /\ k2.kind = "keys"
    BY <2>1, KeySets, KeyLineType
  <2> HIDE DEF k1, k2
  <2>3. one \in Seq(LineType) /\ Whole(one)
    BY <1>p, <1>r, <1>w, <2>2
  <2> HIDE DEF one
  <2>4. Whole(Append(one, k2))
    BY <1>r, <2>2, <2>3
  <2>5. Whole(pipe') /\ Stroke
    BY <1>4, <1>w, <2>1, <2>3, <2>4 DEF CapsLock
  <2> QED
    BY <1>s, <2>5
<1>5. ASSUME NEW d \in Displays, BecomeKey(d) PROVE GestureInv'
  <2>1. UNCHANGED <<pipe, touch, grab, finger, display>>
    BY <1>5 DEF BecomeKey, FocusUnchanged
  <2> QED
    BY <1>f, <1>g, <1>w, <2>1
<1>6. ASSUME NEW d \in Displays, ResignKey(d) \/ CloseWindow(d) PROVE GestureInv'
  <2>1. /\ Report(d, {}) /\ {} \in SUBSET Usages /\ touch' = [touch EXCEPT ![d] = NoTouch]
        /\ UNCHANGED <<finger, display>>
    BY <1>6 DEF ResignKey, CloseWindow, ResetInputState, FocusUnchanged
  <2>2. grab' = grab \/ grab = d
    BY <1>6 DEF ResignKey, CloseWindow
  <2>3. touch'[d] = NoTouch /\ \A e \in Displays : e # d => touch'[e] = touch[e]
    BY <1>p, <2>1
  <2>4. Whole(pipe')
    BY <1>1, <2>1
  <2> QED
    BY <1>f, <1>g, <1>p, <2>1, <2>2, <2>3, <2>4
<1>7. ASSUME NEW d \in Displays, MouseDown(d) PROVE GestureInv'
  <2> DEFINE g == inputs + 1
             l == TouchLine("begin", d, g)
             more == Append(pipe, l)
  <2>1. /\ grab = None /\ grab' = d /\ UNCHANGED <<finger, display>>
        /\ g \in Nat /\ (pipe' = pipe \/ pipe' = more)
    BY <1>7, <1>t, DownFacts DEF MouseDown, TouchUnchanged
  <2>2. PICK t \in TouchType :
           /\ touch' = [touch EXCEPT ![d] = t]
           /\ t.on # "none" => t.g = g
           /\ t.on = "agent" => pipe' = more
    BY <1>7, <1>t, DownFacts
  <2>3. l \in LineType /\ l.kind = "begin" /\ l.d = d /\ l.g = g
    BY <2>1, TouchLineType DEF TouchKinds
  <2> HIDE DEF l, g
  <2>4. /\ OneGesture(more) /\ FirstContinue(more, finger, display)
        /\ LastIs(more, finger, display, d, g)
    BY <1>g, <1>p, <2>3, GestureGrows
  <2> HIDE DEF more
  <2>5. \A e \in Displays : touch[e].on = "none"
    BY <1>g, <2>1
  <2>6. touch'[d] = t /\ \A e \in Displays : e # d => touch'[e] = touch[e]
    BY <1>p, <2>2
  <2>7. \A e \in Displays : touch'[e].on # "none" => e = d
    BY <2>5, <2>6
  <2>8. OneGesture(pipe') /\ FirstContinue(pipe', finger, display)
    BY <1>g, <2>1, <2>4
  <2>9. ASSUME NEW e \in Displays, touch'[e].on = "agent"
        PROVE  LastIs(pipe', finger, display, e, touch'[e].g)
    <3>1. e = d /\ t.on = "agent"
      BY <2>6, <2>7, <2>9
    <3> QED
      BY <2>2, <2>4, <2>6, <3>1
  <2> QED
    BY <2>1, <2>7, <2>8, <2>9 DEF GestureInv
<1>8. ASSUME NEW d \in Displays, NEW kind \in {"move", "end"}, Continue(d, kind) PROVE Whole(pipe')
  <2> DEFINE g == touch[d].g
             l == TouchLine(kind, d, g)
             more == Append(pipe, l)
  <2>1. g \in Nat /\ (pipe' = pipe \/ (touch[d].on = "agent" /\ pipe' = more))
    BY <1>8, <1>t, ContinueFacts
  <2>2. l \in LineType /\ l.kind = kind /\ l.d = d /\ l.g = g
    BY <2>1, TouchLineType DEF TouchKinds
  <2>3. CASE pipe' = pipe
    BY <1>w, <2>3
  <2>4. CASE touch[d].on = "agent" /\ pipe' = more
    <3>1. LastIs(pipe, finger, display, d, g)
      BY <1>g, <2>4
    <3> HIDE DEF l, g
    <3>2. /\ OneGesture(more) /\ FirstContinue(more, finger, display)
          /\ LastIs(more, finger, display, d, g)
      BY <1>g, <1>p, <2>2, <3>1, GestureGrows
    <3> HIDE DEF more
    <3>3. \A e \in Displays : touch[e].on = "agent" => e = d
      BY <1>g, <2>4
    <3> QED
      BY <2>4, <3>2, <3>3 DEF Whole, g
  <2> QED
    BY <2>1, <2>3, <2>4
<1>9. ASSUME NEW d \in Displays, MouseDragged(d) PROVE GestureInv'
  <2>1. Continue(d, "move") /\ UNCHANGED <<touch, grab, finger, display>>
    BY <1>9 DEF MouseDragged, TouchUnchanged
  <2>2. Whole(pipe')
    BY <1>8, <2>1
  <2> QED
    BY <1>f, <1>g, <2>1, <2>2
<1>10. ASSUME NEW d \in Displays, MouseUp(d) PROVE GestureInv'
  <2>1. /\ Continue(d, "end") /\ touch' = [touch EXCEPT ![d] = NoTouch] /\ grab = d
        /\ UNCHANGED <<finger, display>>
    BY <1>10 DEF MouseUp, TouchUnchanged
  <2>2. Whole(pipe')
    BY <1>8, <2>1
  <2>3. touch'[d] = NoTouch /\ \A e \in Displays : e # d => touch'[e] = touch[e]
    BY <1>p, <2>1
  <2> QED
    BY <1>f, <1>g, <1>p, <2>1, <2>2, <2>3
<1>11. CASE HandleLine
  <2>1. pipe # <<>> /\ pipe' = Tail(pipe) /\ UNCHANGED <<touch, grab>>
    BY <1>11 DEF HandleLine, AgentUnchanged
  <2> DEFINE h == Head(pipe)
             f1 == finger'
             D1 == display'
  <2>2. /\ h.kind = "keys" => \A d \in Displays : \A g :
             Continues(finger, display, d, g) => Continues(f1, D1, d, g)
        /\ h.kind # "keys" /\ (h.kind = "begin" \/ Continues(finger, display, h.d, h.g)) =>
             Continues(f1, D1, h.d, h.g)
    BY <1>11, <1>t, FingerFacts
  <2> HIDE DEF f1, D1
  <2>3. /\ OneGesture(Tail(pipe)) /\ FirstContinue(Tail(pipe), f1, D1)
        /\ \A d \in Displays : \A g :
             LastIs(pipe, finger, display, d, g) => LastIs(Tail(pipe), f1, D1, d, g)
    BY <1>g, <1>p, <2>1, <2>2, GestureShrinks
  <2> QED
    BY <1>g, <2>1, <2>3 DEF GestureInv, f1, D1
\* The finger and the displays change, and the pipe does not.
<1>c. ASSUME UNCHANGED <<pipe, touch, grab>>,
             \A d \in Displays : \A g :
                Continues(finger, display, d, g) => Continues(finger', display', d, g)
      PROVE  GestureInv'
  <2> DEFINE f1 == finger'
             D1 == display'
  <2>1. \A d \in Displays : \A g : Continues(finger, display, d, g) => Continues(f1, D1, d, g)
    BY <1>c
  <2> HIDE DEF f1, D1
  <2>2. /\ FirstContinue(pipe, finger, display) => FirstContinue(pipe, f1, D1)
        /\ \A d \in Displays : \A g :
             LastIs(pipe, finger, display, d, g) => LastIs(pipe, f1, D1, d, g)
    BY <1>p, <2>1, GestureMoves
  <2> QED
    BY <1>c, <1>g, <2>2 DEF GestureInv, f1, D1
<1>12. CASE HostGone
  <2>1. UNCHANGED <<pipe, touch, grab>> /\ finger'.g = 0
    BY <1>12, TouchTypes DEF HostGone, AgentUnchanged
  <2> QED
    BY <1>c, <2>1 DEF Continues
<1>13. CASE AgentConnects \/ Accept \/ Disable \/ Receive
  <2>1. UNCHANGED <<pipe, touch, grab, finger, display>>
    BY <1>13 DEF AgentConnects, Accept, Disable, Receive, AgentUnchanged
  <2> QED
    BY <1>c, <2>1
<1>14. ASSUME NEW d \in Displays, CloseComponent(d) \/ DisplayGoes(d) PROVE GestureInv'
  <2>0. display \in [Displays -> {"live", "stale", "gone"}] /\ finger \in FingerType
    BY <1>t DEF Types
  <2>1. UNCHANGED <<pipe, touch, grab>>
    BY <1>14 DEF CloseComponent, DisplayGoes, AgentUnchanged
  <2>2. \A e \in Displays : display[e] = "gone" => display'[e] = "gone"
    BY <1>14, <2>0 DEF CloseComponent, DisplayGoes
  <2>3. finger'.g = finger.g /\ finger'.d \in {finger.d, None}
    BY <1>14, <2>0 DEF CloseComponent, DisplayGoes, FingerType
  <2> QED
    BY <1>c, <2>1, <2>2, <2>3 DEF Continues
<1>e. ASSUME pipe' = <<>>, \A d \in Displays : touch'[d].on # "none" => grab' = d,
             finger'.g = 0 \/ \A d \in Displays : touch'[d].on = "none"
      PROVE  GestureInv'
  <2>1. Touches(<<>>) = {}
    BY DEF Touches
  <2> QED
    BY <1>e, <2>1 DEF GestureInv, OneGesture, FirstContinue, LastIs, Continues
<1>15. CASE QemuDies
  <2>1. pipe' = <<>> /\ finger'.g = 0 /\ UNCHANGED <<touch, grab>>
    BY <1>15, TouchTypes DEF QemuDies
  <2> QED
    BY <1>e, <1>g, <2>1
<1>16. CASE ResetAll
  <2>1. pipe = <<>>
    BY <1>16, <1>t DEF ResetAll, LinkInv
  <2>2. pipe' = <<>> /\ \A d \in Displays : touch'[d].on = "none"
    BY <1>16, <1>p, <2>1 DEF ResetAll
  <2> QED
    BY <1>e, <2>2
<1>17. CASE Launch
  <2>1. CASE qemu = "down" /\ display' = display
    BY <1>17, <1>c, <2>1 DEF Launch
  <2>2. CASE qemu = "starting"
    <3>1. pipe = <<>> /\ \A d \in Displays : touch[d] = NoTouch
      BY <1>t, <2>2 DEF DownInv
    <3>2. pipe' = <<>> /\ \A d \in Displays : touch'[d].on = "none"
      BY <1>17, <1>p, <3>1 DEF Launch
    <3> QED
      BY <1>e, <3>2
  <2> QED
    BY <1>17, <2>1, <2>2 DEF Launch
<1>18. CASE UNCHANGED vars
  BY <1>18, <1>c DEF vars
<1> QED
  BY <1>2, <1>3, <1>4, <1>5, <1>6, <1>7, <1>9, <1>10, <1>11, <1>12, <1>13, <1>14, <1>15, <1>16,
     <1>17, <1>18 DEF Next, ViewNext, AgentNext, GuestNext, QemuNext

-----------------------------------------------------------------------------
\* At first nothing is down and nothing is under way.
LEMMA InitInputInv == Init => InputInv
<1> SUFFICES ASSUME Init PROVE InputInv
  OBVIOUS
<1>1. Types
  BY TouchTypes DEF Init, Types, Fds
<1>2. LinkInv /\ DownInv
  BY DEF Init, LinkInv, DownInv
<1>3. FocusInv
  BY DEF Init, FocusInv, ModsExact
<1>4. PacketInv
  BY TouchTypes DEF Init, PacketInv
<1>5. GestureInv
  <2>1. Touches(<<>>) = {} /\ pipe = <<>> /\ \A d \in Displays : touch[d].on = "none"
    BY TouchTypes DEF Init, Touches
  <2> QED
    BY <2>1 DEF GestureInv, OneGesture, FirstContinue
<1>6. KeysInv
  BY DEF Init, KeysInv
<1> QED
  BY <1>1, <1>2, <1>3, <1>4, <1>5, <1>6 DEF InputInv

\* What holds of views, connection, agent and qemu through every failure.
THEOREM InputInvariance == Spec => []InputInv
<1>1. InputInv /\ [Next]_vars => InputInv'
  BY TypesStep, LinkStep, FocusStep, PacketStep, GestureStep, KeysStep DEF InputInv
<1> QED
  BY InitInputInv, <1>1, PTL DEF Spec

\* No key is stuck: what Android holds down once the agent has read everything,
\* the view has reported (KeysFollow), whichever reports were lost with a
\* connection, and whichever displays and windows went meanwhile.
THEOREM NoStuckKey == Spec => []KeysFollow
<1>1. InputInv => KeysFollow
  <2>1. \A d \in Displays : Reports(<<>>, d) = {}
    BY DEF Reports
  <2> QED
    BY <2>1 DEF InputInv, KeysInv, KeysFollow, Fits
<1> QED
  BY InputInvariance, <1>1, PTL

\* flagsChanged, keyDown and keyUp leave the view with the focus with exactly
\* the modifiers, and the sides, that the user holds (ModsExact).
THEOREM ModifiersExact == Spec => []ModsExact
<1>1. InputInv => ModsExact
  BY DEF InputInv, FocusInv
<1> QED
  BY InputInvariance, <1>1, PTL

\* No packet of the gestures of one qemu reaches the next over the socket that
\* both inherit (FreshPackets).
THEOREM PacketsFresh == Spec => []FreshPackets
<1>1. InputInv => FreshPackets
  BY DEF InputInv, DownInv, PacketInv, FreshPackets
<1> QED
  BY InputInvariance, <1>1, PTL

\* A MOVE or UP that reaches Android belongs to the touch that is down, on its
\* display, whatever was lost or went in between (TouchWhole).
THEOREM GesturesUnmixed == Spec => TouchWhole
<1> DEFINE Own == LET line == Head(pipe) IN
             HandleLine /\ line.kind \in {"move", "end"} /\ finger' # finger /\ finger.g > 0
                 => line.g = finger.g /\ finger.d \in {line.d, None}
<1>1. InputInv => Own
  <2> SUFFICES ASSUME InputInv, HandleLine, Head(pipe).kind \in {"move", "end"},
                      finger' # finger, finger.g > 0
               PROVE  Head(pipe).g = finger.g /\ finger.d \in {Head(pipe).d, None}
    OBVIOUS
  <2>1. pipe[1] = Head(pipe) /\ Len(pipe) \in Nat /\ Len(pipe) > 0
    BY HandleFacts DEF InputInv
  <2>2. 1 \in Touches(pipe) /\ NoBegin(pipe, 1, 1)
    BY <2>1 DEF Touches, NoBegin
  <2>3. Continues(finger, display, Head(pipe).d, Head(pipe).g)
    BY <2>1, <2>2 DEF InputInv, GestureInv, FirstContinue
  <2>4. display[Head(pipe).d] # "gone"
    BY DEF HandleLine, InjectTouch
  <2>5. finger.g # 0
    BY DEF InputInv, Types, FingerType
  <2> QED
    BY <2>3, <2>4, <2>5 DEF Continues
<1>2. InputInv => [Own]_vars
  BY <1>1
<1> QED
  BY InputInvariance, <1>2, PTL DEF TouchWhole
=============================================================================
