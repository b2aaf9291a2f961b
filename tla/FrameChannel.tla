---------------------------- MODULE FrameChannel ----------------------------
(***************************************************************************)
(* The frame path of the shell: qemu publishes one frame per display in a  *)
(* slot of shared memory under a seqlock and rings a doorbell socket; the  *)
(* doorbell thread (doorbellLoop, FrameConsumer::wait_for_any_frame) finds *)
(* the slots that changed and enqueues presentation blocks, coalesced by   *)
(* one flag per display; the main thread presents and draws the newest     *)
(* frame.  A qemu that exits, perhaps in the middle of a publication, is   *)
(* restarted by the monitor thread, which clears the slots first and bumps *)
(* the generation last.                                                    *)
(*                                                                         *)
(* slotsMutex_ lets one thread of the shell at a time read the slots, so a *)
(* single set of registers `rd` holds the read that is under way; the      *)
(* producer, in another process, does not take that mutex.  The payload is *)
(* two words, the surface and the frame number; a frame's surface records  *)
(* the generation and the number it was published with, so a snapshot put  *)
(* together from two publications shows.  Slot 0 is Android's own screen:  *)
(* it is scanned like the others and never presented.  The producer is in  *)
(* a submodule; it is modelled from the slot layout the consumer states.   *)
(***************************************************************************)
EXTENDS Naturals, Sequences, FiniteSets, Functions

CONSTANTS
    MaxSlot,        \* slots are 0..MaxSlot (kMacmuFrameSlotCount - 1)
    MaxTries,       \* attempts of FrameConsumer::read (8)
    MaxFrames,      \* bound: frames of the first generation, all slots together;
                    \* every later one publishes one less than its predecessor
    MaxGenerations  \* bound: launches of qemu

ASSUME FrameChannelAssumptions ==
    /\ MaxSlot \in Nat /\ MaxTries \in Nat \ {0}
    /\ MaxFrames \in Nat \ {0} /\ MaxGenerations \in Nat \ {0}

Slots == 0..MaxSlot
Screens == 1..MaxSlot
Frames == 0..MaxFrames
Surfaces == (0..MaxGenerations) \X Frames
NoSurface == <<0, 0>>

VARIABLES
    slot,       \* [Slots -> [seq, surf, frame]]: the shared memory
    writer,     \* the producer: [at, d], "idle" between publications
    written,    \* [Slots -> Frames]: frames the producer has completed
    bell,       \* datagrams wait on the doorbell socket
    running,    \* launches so far; the producer runs with this generation
    up,         \* qemu runs
    generation, \* _qemuGeneration
    monitor,    \* qemuMonitorLoop: "wait", "reset", "launch", "publish"
    rd,         \* the read under way: [by, d, at, tries, s0, surf, frame]
    loop,       \* doorbellLoop: [at, off, last, seen, ready, final]
    nextScan,   \* nextScanStart_
    flag,       \* _framePresentationPending
    blocks,     \* presentation blocks in the main queue
    ui,         \* main thread: [at, d, shown]
    open,       \* displays with a bound application and its window
    dirty,      \* views that need display
    drawn       \* [Screens -> Surfaces]: what each view shows

vars == <<slot, writer, written, bell, running, up, generation, monitor, rd, loop, nextScan,
          flag, blocks, ui, open, dirty, drawn>>
producer == <<writer, written, running, up>>
mainState == <<ui, open, dirty, drawn>>

NoRead == [by |-> "nobody", d |-> 0, at |-> "free", tries |-> 0, s0 |-> 0,
           surf |-> NoSurface, frame |-> 0]
Idle == [at |-> "idle", d |-> 0, shown |-> 0]
LoopStart(last, seen) ==
    [at |-> "top", off |-> 0, last |-> last, seen |-> seen, ready |-> 0, final |-> FALSE]
EmptySlot == [seq |-> 0, surf |-> NoSurface, frame |-> 0]

TypeOK ==
    /\ slot \in [Slots -> [seq : 0..(2 * MaxFrames), surf : Surfaces, frame : Frames]]
    /\ writer \in [at : {"idle", "surf", "frame", "end", "ring"}, d : Slots]
    /\ written \in [Slots -> Frames]
    /\ bell \in BOOLEAN /\ up \in BOOLEAN
    /\ running \in 1..MaxGenerations /\ generation \in 1..MaxGenerations
    /\ monitor \in {"wait", "reset", "launch", "publish"}
    /\ rd \in [by : {"nobody", "loop", "ui"}, d : Slots,
               at : {"free", "seq", "surf", "frame", "check", "hit", "miss"},
               tries : 0..MaxTries, s0 : 0..(2 * MaxFrames), surf : Surfaces, frame : Frames]
    /\ loop \in [at : {"top", "scan", "scanned", "poll", "read"}, off : 0..(MaxSlot + 1),
                 last : [Slots -> Frames], seen : 1..MaxGenerations, ready : Slots,
                 final : BOOLEAN]
    /\ nextScan \in Slots
    /\ flag \in [Screens -> BOOLEAN]
    /\ blocks \in Seq(Screens)
    /\ ui \in [at : {"idle", "latest", "lower", "after", "draw"}, d : Slots, shown : Frames]
    /\ open \subseteq Screens /\ dirty \subseteq open
    /\ drawn \in [Screens -> Surfaces]

Init ==
    /\ slot = [d \in Slots |-> EmptySlot]
    /\ writer = [at |-> "idle", d |-> 0] /\ written = [d \in Slots |-> 0]
    /\ bell = FALSE /\ running = 1 /\ up = TRUE /\ generation = 1 /\ monitor = "wait"
    /\ rd = NoRead
    /\ loop = LoopStart([d \in Slots |-> 0], 1)
    /\ nextScan = 0
    /\ flag = [d \in Screens |-> FALSE] /\ blocks = <<>>
    /\ ui = Idle
    /\ open = {} /\ dirty = {} /\ drawn = [d \in Screens |-> NoSurface]

-----------------------------------------------------------------------------
(* The producer. *)

\* The bound on the frames of a generation.
MayPublish == FoldFunction(+, 0, written) + running <= MaxFrames

\* A publication makes the sequence odd, writes the payload, makes the
\* sequence even again and rings.
PublishBegin(d) ==
    /\ up /\ writer.at = "idle" /\ MayPublish
    /\ slot' = [slot EXCEPT ![d].seq = @ + 1]
    /\ writer' = [at |-> "surf", d |-> d]
    /\ UNCHANGED <<written, bell, running, up, generation, monitor, rd, loop, nextScan, flag,
                   blocks, mainState>>
PublishStep ==
    /\ up
    /\ LET d == writer.d IN
       \/ /\ writer.at = "surf" /\ writer' = [writer EXCEPT !.at = "frame"]
          /\ slot' = [slot EXCEPT ![d].surf = <<running, written[d] + 1>>]
          /\ UNCHANGED <<written, bell>>
       \/ /\ writer.at = "frame" /\ writer' = [writer EXCEPT !.at = "end"]
          /\ slot' = [slot EXCEPT ![d].frame = written[d] + 1]
          /\ UNCHANGED <<written, bell>>
       \/ /\ writer.at = "end" /\ writer' = [writer EXCEPT !.at = "ring"]
          /\ slot' = [slot EXCEPT ![d].seq = @ + 1]
          /\ written' = [written EXCEPT ![d] = @ + 1] /\ UNCHANGED bell
       \/ /\ writer.at = "ring" /\ writer' = [writer EXCEPT !.at = "idle"]
          /\ bell' \in {bell, TRUE}   \* a full socket drops the datagram
          /\ UNCHANGED <<slot, written>>
    /\ UNCHANGED <<running, up, generation, monitor, rd, loop, nextScan, flag, blocks, mainState>>

QemuExits ==
    /\ up /\ monitor = "wait" /\ running < MaxGenerations
    /\ up' = FALSE
    /\ UNCHANGED <<slot, writer, written, bell, running, generation, monitor, rd, loop, nextScan,
                   flag, blocks, mainState>>

-----------------------------------------------------------------------------
(* qemuMonitorLoop. *)

\* waitpid returned; the main thread closes every window in a block of its
\* own, which the monitor waits for before it clears the slots.
MonitorReaps ==
    /\ monitor = "wait" /\ ~up
    /\ ui.at = "idle"
    /\ monitor' = "reset"
    /\ open' = {} /\ dirty' = {} /\ drawn' = [d \in Screens |-> NoSurface]
    /\ UNCHANGED <<slot, producer, bell, generation, rd, loop, nextScan, flag, blocks, ui>>

\* drain_notifications: nothing waits on the doorbell socket any more.
DrainNotifications == bell' = FALSE

\* Mutant: the slots of the dead qemu stay.
ResetSlotsSkipped ==
    /\ monitor = "reset" /\ rd.at = "free"
    /\ monitor' = "launch"
    /\ UNCHANGED <<slot, bell, producer, generation, rd, loop, nextScan, flag, blocks, mainState>>
\* Mutant: reset_slots does not wait for a read that is under way.
ResetSlotsUnlocked ==
    /\ monitor = "reset"
    /\ slot' = [d \in Slots |-> EmptySlot] /\ DrainNotifications
    /\ monitor' = "launch"
    /\ UNCHANGED <<producer, generation, rd, loop, nextScan, flag, blocks, mainState>>
\* FrameConsumer::reset_slots, under slotsMutex_.
ResetSlots ==
    /\ monitor = "reset" /\ rd.at = "free"
    /\ slot' = [d \in Slots |-> EmptySlot] /\ DrainNotifications
    /\ monitor' = "launch"
    /\ UNCHANGED <<producer, generation, rd, loop, nextScan, flag, blocks, mainState>>

LaunchQemu ==
    /\ monitor = "launch"
    /\ up' = TRUE /\ running' = running + 1
    /\ writer' = [at |-> "idle", d |-> 0] /\ written' = [d \in Slots |-> 0]
    /\ monitor' = "publish"
    /\ UNCHANGED <<slot, bell, generation, rd, loop, nextScan, flag, blocks, mainState>>

\* _qemuGeneration.fetch_add, when the new producer may already be publishing.
BumpGeneration ==
    /\ monitor = "publish"
    /\ generation' = generation + 1 /\ monitor' = "wait"
    /\ UNCHANGED <<slot, producer, bell, rd, loop, nextScan, flag, blocks, mainState>>

-----------------------------------------------------------------------------
(* FrameConsumer::read, for whichever thread holds slotsMutex_. *)

StartRead(who, d) == rd.at = "free" /\ rd' = [NoRead EXCEPT !.by = who, !.d = d, !.at = "seq"]

\* An odd or a changed sequence costs one attempt.
Again == IF rd.tries + 1 < MaxTries THEN [rd EXCEPT !.at = "seq", !.tries = @ + 1]
                                    ELSE [rd EXCEPT !.at = "miss"]
ReadAttempt ==
    LET s == slot[rd.d] IN
    \/ /\ rd.at = "seq"
       /\ rd' = IF s.seq % 2 = 1 THEN Again ELSE [rd EXCEPT !.at = "surf", !.s0 = s.seq]
    \/ /\ rd.at = "surf" /\ rd' = [rd EXCEPT !.at = "frame", !.surf = s.surf]
    \/ /\ rd.at = "frame" /\ rd' = [rd EXCEPT !.at = "check", !.frame = s.frame]
    \/ /\ rd.at = "check"
       /\ rd' = IF s.seq # rd.s0 THEN Again
                ELSE [rd EXCEPT !.at = IF rd.frame # 0 THEN "hit" ELSE "miss"]
ReadStep ==
    /\ ReadAttempt
    /\ UNCHANGED <<slot, producer, bell, generation, monitor, loop, nextScan, flag, blocks,
                   mainState>>

Got(who) == rd.by = who /\ rd.at = "hit"
Missed(who) == rd.by = who /\ rd.at = "miss"

-----------------------------------------------------------------------------
(* doorbellLoop and wait_for_any_frame. *)

loopRest == <<slot, producer, generation, monitor, mainState>>

\* Mutant: the cursors of the dead qemu are kept.
SyncedCursorsNever == [loop EXCEPT !.at = "scan"]
\* A new generation forgets the cursors: its frame numbers start over.
SyncedCursors ==
    [loop EXCEPT !.at = "scan", !.seen = generation,
                 !.last = IF generation # loop.seen THEN [d \in Slots |-> 0] ELSE @]
LoopTop ==
    /\ loop.at = "top"
    /\ loop' = SyncedCursors
    /\ UNCHANGED <<loopRest, bell, rd, nextScan, flag, blocks>>

\* The slot the scan is at, round robin.
ScanSlot == (nextScan + loop.off) % (MaxSlot + 1)

\* scan_slots asks for one slot after the other, starting after the last hit.
ScanAsk ==
    /\ loop.at = "scan" /\ loop.off <= MaxSlot
    /\ StartRead("loop", ScanSlot)
    /\ loop' = [loop EXCEPT !.at = "scanned"]
    /\ UNCHANGED <<loopRest, bell, nextScan, flag, blocks>>
ScanAnswer ==
    /\ loop.at = "scanned"
    /\ \/ /\ Got("loop") /\ rd.frame # loop.last[rd.d]
          /\ loop' = [loop EXCEPT !.at = "read", !.off = 0, !.ready = rd.d]
          /\ nextScan' = (rd.d + 1) % (MaxSlot + 1)
       \/ /\ Missed("loop") \/ (Got("loop") /\ rd.frame = loop.last[rd.d])
          /\ loop' = [loop EXCEPT !.at = "scan", !.off = @ + 1]
          /\ UNCHANGED nextScan
    /\ rd' = NoRead
    /\ UNCHANGED <<loopRest, bell, flag, blocks>>
\* Nothing new: poll until the deadline, or give up after the last scan.
ScanEnds ==
    /\ loop.at = "scan" /\ loop.off = MaxSlot + 1
    /\ loop' = IF loop.final THEN LoopStart(loop.last, loop.seen)
               ELSE [loop EXCEPT !.at = "poll", !.off = 0]
    /\ UNCHANGED <<loopRest, bell, rd, nextScan, flag, blocks>>

PollWakes ==
    /\ loop.at = "poll" /\ bell
    /\ DrainNotifications
    /\ loop' = [loop EXCEPT !.at = "scan"]
    /\ UNCHANGED <<loopRest, rd, nextScan, flag, blocks>>
PollTimesOut ==
    /\ loop.at = "poll"
    /\ loop' = [loop EXCEPT !.at = "scan", !.final = TRUE]
    /\ UNCHANGED <<loopRest, bell, rd, nextScan, flag, blocks>>

\* enqueueFramePresentationForDisplay: one block per display in the queue.
Enqueue(d) ==
    IF flag[d] THEN UNCHANGED <<flag, blocks>>
    ELSE flag' = [flag EXCEPT ![d] = TRUE] /\ blocks' = Append(blocks, d)

\* The loop reads the slot again, moves its cursor and enqueues.
LoopAsk ==
    /\ loop.at = "read"
    /\ StartRead("loop", loop.ready)
    /\ UNCHANGED <<loopRest, bell, loop, nextScan, flag, blocks>>
LoopAnswer ==
    /\ loop.at = "read"
    /\ \/ Missed("loop") /\ loop' = LoopStart(loop.last, loop.seen) /\ UNCHANGED <<flag, blocks>>
       \/ /\ Got("loop")
          /\ loop' = LoopStart([loop.last EXCEPT ![rd.d] = rd.frame], loop.seen)
          /\ IF rd.d = 0 THEN UNCHANGED <<flag, blocks>> ELSE Enqueue(rd.d)
    /\ rd' = NoRead
    /\ UNCHANGED <<loopRest, bell, nextScan>>

-----------------------------------------------------------------------------
(* The main thread. *)

uiRest == <<slot, producer, bell, generation, monitor, loop, nextScan>>

\* openDisplayWindowForDisplay: a new view with a new renderer wants a draw.
\* Displays exist only while the control channel of a running qemu is up.
OpenWindow(d) ==
    /\ ui.at = "idle" /\ d \notin open
    /\ up /\ monitor \in {"publish", "wait"}
    /\ open' = open \cup {d} /\ dirty' = dirty \cup {d}
    /\ UNCHANGED <<uiRest, rd, flag, blocks, ui, drawn>>

\* A block starts; it reads the newest frame of its display.
BlockStarts ==
    /\ ui.at = "idle" /\ blocks # <<>>
    /\ StartRead("ui", Head(blocks))
    /\ ui' = [at |-> "latest", d |-> Head(blocks), shown |-> 0]
    /\ blocks' = Tail(blocks)
    /\ UNCHANGED <<uiRest, flag, open, dirty, drawn>>
\* presentFrameForDisplay marks the view dirty.
BlockPresents ==
    /\ ui.at = "latest"
    /\ \/ Got("ui") /\ ui' = [ui EXCEPT !.at = "lower", !.shown = rd.frame]
          /\ dirty' = dirty \cup ({ui.d} \cap open)
       \/ Missed("ui") /\ ui' = [ui EXCEPT !.at = "lower"] /\ UNCHANGED dirty
    /\ rd' = NoRead
    /\ UNCHANGED <<uiRest, flag, blocks, open, drawn>>
BlockLowersFlag ==
    /\ ui.at = "lower" /\ flag[ui.d]
    /\ StartRead("ui", ui.d)
    /\ flag' = [flag EXCEPT ![ui.d] = FALSE]
    /\ ui' = [ui EXCEPT !.at = "after"]
    /\ UNCHANGED <<uiRest, blocks, open, dirty, drawn>>
\* Mutant: the block ends without looking at the slot again.
BlockEndsUnarmed ==
    /\ ui.at = "after" /\ (Got("ui") \/ Missed("ui"))
    /\ ui' = Idle /\ rd' = NoRead
    /\ UNCHANGED <<uiRest, flag, blocks, open, dirty, drawn>>
\* Coalescing must not lose the final redraw: re-arm if the slot moved on.
BlockEnds ==
    /\ ui.at = "after" /\ (Got("ui") \/ Missed("ui"))
    /\ IF Got("ui") /\ rd.frame # ui.shown THEN Enqueue(ui.d) ELSE UNCHANGED <<flag, blocks>>
    /\ ui' = Idle /\ rd' = NoRead
    /\ UNCHANGED <<uiRest, open, dirty, drawn>>

\* AppKit redraws a dirty view: the renderer maps the newest frame, or draws
\* the surface it has again.
DrawStarts(d) ==
    /\ ui.at = "idle" /\ d \in dirty
    /\ StartRead("ui", d)
    /\ ui' = [ui EXCEPT !.at = "draw", !.d = d]
    /\ dirty' = dirty \ {d}
    /\ UNCHANGED <<uiRest, flag, blocks, open, drawn>>
DrawEnds ==
    /\ ui.at = "draw"
    /\ \/ Got("ui") /\ drawn' = [drawn EXCEPT ![ui.d] = rd.surf]
       \/ Missed("ui") /\ UNCHANGED drawn
    /\ ui' = Idle /\ rd' = NoRead
    /\ UNCHANGED <<uiRest, flag, blocks, open, dirty>>

-----------------------------------------------------------------------------
LoopNext == LoopTop \/ ScanAsk \/ ScanAnswer \/ ScanEnds \/ PollWakes \/ PollTimesOut
            \/ LoopAsk \/ LoopAnswer
BlockNext == BlockStarts \/ BlockPresents \/ BlockLowersFlag \/ BlockEnds
DrawNext == (\E d \in Screens : DrawStarts(d)) \/ DrawEnds
MonitorNext == MonitorReaps \/ ResetSlots \/ LaunchQemu \/ BumpGeneration

Next ==
    \/ \E d \in Slots : PublishBegin(d)
    \/ \E d \in Screens : OpenWindow(d)
    \/ PublishStep \/ QemuExits \/ MonitorNext \/ ReadStep \/ LoopNext \/ BlockNext \/ DrawNext

Spec == Init /\ [][Next]_vars

\* Every thread of the shell runs: a thread that waits for slotsMutex_, or the
\* monitor for the main thread, is served although others come and go (strong
\* fairness), everything else is never blocked (weak fairness).  qemu finishes
\* a publication it has begun; nothing makes it publish or exit.
FairSpec ==
    /\ Spec
    /\ WF_vars(PublishStep) /\ WF_vars(ReadStep)
    /\ WF_vars(LoopTop \/ ScanAnswer \/ ScanEnds \/ PollTimesOut \/ LoopAnswer)
    /\ SF_vars(ScanAsk \/ LoopAsk)
    /\ WF_vars(BlockPresents \/ BlockEnds \/ DrawEnds)
    /\ SF_vars(BlockStarts \/ BlockLowersFlag \/ \E d \in Screens : DrawStarts(d))
    /\ WF_vars(LaunchQemu \/ BumpGeneration) /\ SF_vars(MonitorReaps \/ ResetSlots)

-----------------------------------------------------------------------------
(* Properties. *)

\* A snapshot that read() returns is one publication: the surface and the
\* number belong together, also when qemu exits in the middle of a
\* publication and the slots are cleared for its successor.
NoTornSnapshot == rd.at = "hit" => rd.surf[2] = rd.frame

\* While a qemu runs no view shows a surface of its predecessor: surface ids
\* belong to one process.
NoStaleSurface == up => \A d \in Screens : drawn[d][1] \in {0, running}

\* When publications cease (they are bounded here) the last frame of every
\* open display is on the screen for good: the doorbell may be lost, the flag
\* may swallow a request, reads may fail, and qemu may have been restarted with
\* frame numbers that start over.
Newest(d) == IF up /\ written[d] # 0 THEN <<running, written[d]>> ELSE NoSurface
LastFrameDrawn == <>[](\A d \in open : Newest(d) # NoSurface => drawn[d] = Newest(d))
=============================================================================
