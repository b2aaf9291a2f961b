-------------------------- MODULE FrameChannelProofs --------------------------
(***************************************************************************)
(* Machine-checked proofs about FrameChannel, for any number of slots,     *)
(* attempts, frames and restarts of qemu.                                  *)
(*                                                                         *)
(* SeqInv is the seqlock: the sequence of a slot is odd exactly while its  *)
(* publication is under way, otherwise its two words belong together; and  *)
(* what a read has copied is still in the slot as long as the sequence is  *)
(* the one the read began with, which never comes back.  EraInv follows    *)
(* the surfaces of a dead qemu: the windows are closed before the slots    *)
(* are cleared, the slots before the next qemu is launched, and no read    *)
(* lasts from before the clearing to after it.                             *)
(*                                                                         *)
(* The bounds of TypeOK on frames and sequences follow from the bound on   *)
(* publications, a fold over all slots, and are not proved; the types used *)
(* here have natural numbers in their place.                               *)
(***************************************************************************)
EXTENDS FrameChannel, TLAPS

Surface == Nat \X Nat

ReadType ==
    [by : {"nobody", "loop", "ui"}, d : Slots,
     at : {"free", "seq", "surf", "frame", "check", "hit", "miss"},
     tries : Nat, s0 : Nat, surf : Surface, frame : Nat]

LoopType ==
    [at : {"top", "scan", "scanned", "poll", "read"}, off : Nat, last : [Slots -> Nat],
     seen : Nat, ready : Slots, final : BOOLEAN]

SlotType == [seq : Nat, surf : Surface, frame : Nat]
WriterType == [at : {"idle", "surf", "frame", "end", "ring"}, d : Slots]
UiType ==
    {u \in [at : {"idle", "latest", "lower", "after", "draw"}, d : Slots, shown : Nat] :
        u.at # "idle" => u.d \in Screens}

TypeInv ==
    /\ slot \in [Slots -> SlotType] /\ writer \in WriterType
    /\ written \in [Slots -> Nat] /\ running \in Nat /\ generation \in Nat
    /\ monitor \in {"wait", "reset", "launch", "publish"}
    /\ rd \in ReadType /\ loop \in LoopType /\ nextScan \in Slots
    /\ blocks \in Seq(Screens) /\ ui \in UiType
    /\ open \subseteq Screens /\ dirty \subseteq open
    /\ drawn \in [Screens -> Surface]

\* A publication of the slot is under way.
Busy(d) == monitor # "launch" /\ writer.d = d /\ writer.at \in {"surf", "frame", "end"}

\* The shared memory.
SlotInv ==
    /\ \A d \in Slots :
         /\ slot[d].seq % 2 = IF Busy(d) THEN 1 ELSE 0
         /\ ~Busy(d) => slot[d].surf[2] = slot[d].frame
    /\ monitor # "launch" /\ writer.at = "frame" =>
         slot[writer.d].surf[2] = written[writer.d] + 1
    /\ monitor # "launch" /\ writer.at = "end" => slot[writer.d].surf[2] = slot[writer.d].frame

\* The read under way.
ReadInv ==
    LET s == slot[rd.d] IN
    /\ rd.at \in {"surf", "frame", "check"} => rd.s0 % 2 = 0 /\ rd.s0 <= s.seq
    /\ rd.at \in {"frame", "check"} /\ s.seq = rd.s0 => rd.surf = s.surf
    /\ rd.at = "check" /\ s.seq = rd.s0 => rd.frame = s.frame

SeqInv == SlotInv /\ ReadInv /\ NoTornSnapshot

\* Nothing of an earlier qemu is where it could reach the screen.
Eras == IF monitor = "launch" THEN {0} ELSE {0, running}
EraInv ==
    /\ \A d \in Slots : slot[d].surf[1] \in Eras
    /\ rd.surf[1] \in Eras /\ (rd.at = "free" => rd.surf = NoSurface)
    /\ \A d \in Screens : drawn[d][1] \in {0, running}
    /\ monitor \in {"reset", "launch"} =>
         /\ ~up /\ open = {} /\ ui.at # "draw"
         /\ \A d \in Screens : drawn[d][1] = 0

FrameInv == TypeInv /\ SeqInv /\ EraInv

-----------------------------------------------------------------------------
USE FrameChannelAssumptions

\* The registers of a read are typed when it starts, in every state of the
\* retry loop, and when it is over.
LEMMA NoReadType == NoRead \in ReadType
BY DEF NoRead, ReadType, Surface, NoSurface, Slots

\* A read starts with nothing copied.
LEMMA StartReadTypes ==
    ASSUME NEW who \in {"loop", "ui"}, NEW d \in Slots, StartRead(who, d)
    PROVE  /\ rd' \in ReadType
           /\ rd'.at = "seq" /\ rd'.surf = NoSurface
<1>1. rd' = [by |-> who, d |-> d, at |-> "seq", tries |-> 0, s0 |-> 0, surf |-> NoSurface,
             frame |-> 0]
  BY Zenon DEF StartRead, NoRead
<1> QED
  BY <1>1 DEF ReadType, Surface, NoSurface

\* Each register the retry loop sets keeps the type of the read.
LEMMA ReadOps ==
    ASSUME NEW r \in ReadType, NEW n \in Nat, NEW x \in Surface
    PROVE  /\ r.d \in Slots /\ r.frame \in Nat /\ r.surf \in Surface
           /\ [r EXCEPT !.at = "seq", !.tries = @ + 1] \in ReadType
           /\ [r EXCEPT !.at = "surf", !.s0 = n] \in ReadType
           /\ [r EXCEPT !.at = "frame", !.surf = x] \in ReadType
           /\ [r EXCEPT !.at = "check", !.frame = n] \in ReadType
           /\ [r EXCEPT !.at = "hit"] \in ReadType
           /\ [r EXCEPT !.at = "miss"] \in ReadType
<1>1. r.d \in Slots /\ r.frame \in Nat /\ r.surf \in Surface
  BY DEF ReadType
<1>2. [r EXCEPT !.at = "seq", !.tries = @ + 1] \in ReadType
  <2>1. r.tries + 1 \in Nat
    BY DEF ReadType
  <2> QED
    BY <2>1 DEF ReadType
<1>3. [r EXCEPT !.at = "surf", !.s0 = n] \in ReadType
  BY DEF ReadType
<1>4. [r EXCEPT !.at = "frame", !.surf = x] \in ReadType
  BY DEF ReadType
<1>5. [r EXCEPT !.at = "check", !.frame = n] \in ReadType
  BY DEF ReadType
<1>6. [r EXCEPT !.at = "hit"] \in ReadType
  BY DEF ReadType
<1>7. [r EXCEPT !.at = "miss"] \in ReadType
  BY DEF ReadType
<1> QED
  BY <1>1, <1>2, <1>3, <1>4, <1>5, <1>6, <1>7

\* The same for the doorbell loop.
LEMMA LoopStartType ==
    ASSUME NEW f \in [Slots -> Nat], NEW n \in Nat
    PROVE  LoopStart(f, n) \in LoopType
<1>1. 0 \in Slots
  BY DEF Slots
<1> QED
  BY <1>1 DEF LoopStart, LoopType

\* The same for the registers of doorbellLoop.
LEMMA LoopOps ==
    ASSUME NEW l \in LoopType, NEW n \in Nat, NEW d \in Slots, NEW f \in [Slots -> Nat]
    PROVE  /\ l.off \in Nat /\ l.last \in [Slots -> Nat] /\ l.seen \in Nat /\ l.ready \in Slots
           /\ [l EXCEPT !.at = "scan", !.seen = n, !.last = f] \in LoopType
           /\ [l EXCEPT !.at = "scanned"] \in LoopType
           /\ [l EXCEPT !.at = "read", !.off = 0, !.ready = d] \in LoopType
           /\ [l EXCEPT !.at = "scan", !.off = @ + 1] \in LoopType
           /\ [l EXCEPT !.at = "poll", !.off = 0] \in LoopType
           /\ [l EXCEPT !.at = "scan"] \in LoopType
           /\ [l EXCEPT !.at = "scan", !.final = TRUE] \in LoopType
<1>3. [l EXCEPT !.at = "scan", !.final = TRUE] \in LoopType
  BY DEF LoopType
<1>4. l.off \in Nat /\ l.last \in [Slots -> Nat] /\ l.seen \in Nat /\ l.ready \in Slots
  BY DEF LoopType
<1>5. [l EXCEPT !.at = "scan", !.seen = n, !.last = f] \in LoopType
  BY DEF LoopType
<1>6. [l EXCEPT !.at = "scanned"] \in LoopType /\ [l EXCEPT !.at = "scan"] \in LoopType
  BY DEF LoopType
<1>7. [l EXCEPT !.at = "read", !.off = 0, !.ready = d] \in LoopType
  BY DEF LoopType
<1>8. [l EXCEPT !.at = "scan", !.off = @ + 1] \in LoopType
  <2>1. l.off + 1 \in Nat
    BY DEF LoopType
  <2> QED
    BY <2>1 DEF LoopType
<1>9. [l EXCEPT !.at = "poll", !.off = 0] \in LoopType
  BY DEF LoopType
<1> QED
  BY <1>3, <1>4, <1>5, <1>6, <1>7, <1>8, <1>9

\* The same for the main thread.
LEMMA UiOps ==
    ASSUME NEW u \in UiType, NEW n \in Nat, NEW d \in Screens
    PROVE  /\ u.d \in Slots /\ (u.at # "idle" => u.d \in Screens)
           /\ [at |-> "latest", d |-> d, shown |-> 0] \in UiType
           /\ [u EXCEPT !.at = "draw", !.d = d] \in UiType
           /\ u.at # "idle" =>
                /\ [u EXCEPT !.at = "lower", !.shown = n] \in UiType
                /\ [u EXCEPT !.at = "lower"] \in UiType
                /\ [u EXCEPT !.at = "after"] \in UiType
<1>1. d \in Slots
  BY DEF Screens, Slots
<1> QED
  BY <1>1 DEF UiType

\* The main thread between two blocks.
LEMMA IdleType == Idle \in UiType
BY DEF Idle, UiType, Slots

\* The same for the producer and its slots.
LEMMA SlotOps ==
    ASSUME NEW f \in [Slots -> SlotType], NEW d \in Slots, NEW n \in Nat, NEW x \in Surface
    PROVE  /\ f[d].seq \in Nat /\ f[d].surf \in Surface /\ f[d].frame \in Nat
           /\ [f EXCEPT ![d].seq = @ + 1] \in [Slots -> SlotType]
           /\ [f EXCEPT ![d].surf = x] \in [Slots -> SlotType]
           /\ [f EXCEPT ![d].frame = n] \in [Slots -> SlotType]
<1>1. f[d] \in SlotType
  OBVIOUS
<1>2. /\ [f[d] EXCEPT !.seq = @ + 1] \in SlotType
      /\ [f[d] EXCEPT !.surf = x] \in SlotType
      /\ [f[d] EXCEPT !.frame = n] \in SlotType
  BY <1>1 DEF SlotType
<1>3. ASSUME NEW r \in SlotType PROVE [f EXCEPT ![d] = r] \in [Slots -> SlotType]
  OBVIOUS
<1>4. f[d].seq \in Nat /\ f[d].surf \in Surface /\ f[d].frame \in Nat
  BY <1>1 DEF SlotType
<1>5. [f EXCEPT ![d].seq = @ + 1] \in [Slots -> SlotType]
  BY <1>2, <1>3
<1>6. [f EXCEPT ![d].surf = x] \in [Slots -> SlotType]
  BY <1>2, <1>3
<1>7. [f EXCEPT ![d].frame = n] \in [Slots -> SlotType]
  BY <1>2, <1>3
<1> QED
  BY <1>4, <1>5, <1>6, <1>7

\* The same for the step the producer is at.
LEMMA WriterOps ==
    ASSUME NEW w \in WriterType, NEW at \in {"idle", "surf", "frame", "end", "ring"},
           NEW d \in Slots
    PROVE  /\ w.d \in Slots
           /\ [w EXCEPT !.at = at] \in WriterType /\ [at |-> at, d |-> d] \in WriterType
BY DEF WriterType

\* The scan stays within the slots.
LEMMA ScanTypes == TypeInv => ScanSlot \in Slots /\ (rd.d + 1) % (MaxSlot + 1) \in Slots
<1> SUFFICES ASSUME TypeInv PROVE ScanSlot \in Slots /\ (rd.d + 1) % (MaxSlot + 1) \in Slots
  OBVIOUS
<1>1. ASSUME NEW n \in Nat PROVE n % (MaxSlot + 1) \in 0..MaxSlot
  <2>1. MaxSlot + 1 \in Nat \ {0}
    OBVIOUS
  <2> QED
    BY <2>1, SMT
<1>2. rd \in ReadType /\ loop \in LoopType /\ nextScan \in Slots
  BY DEF TypeInv
<1>3. rd.d \in Slots /\ loop.off \in Nat
  BY <1>2 DEF ReadType, LoopType
<1>4. nextScan + loop.off \in Nat /\ rd.d + 1 \in Nat
  BY <1>2, <1>3 DEF Slots
<1> QED
  BY <1>1, <1>4 DEF ScanSlot, Slots

\* Every step of every thread keeps the types.
LEMMA TypeStep == TypeInv /\ [Next]_vars => TypeInv'
<1> SUFFICES ASSUME TypeInv, [Next]_vars PROVE TypeInv'
  OBVIOUS
<1> USE DEF TypeInv, producer, mainState, loopRest, uiRest
<1>a. \A d \in Screens : d \in Slots
  BY DEF Screens, Slots
<1>b. /\ rd.d \in Slots /\ rd.frame \in Nat /\ rd.surf \in Surface
      /\ loop.last \in [Slots -> Nat] /\ loop.seen \in Nat /\ loop.ready \in Slots
      /\ ui.d \in Slots /\ (ui.at # "idle" => ui.d \in Screens)
  BY DEF ReadType, LoopType, UiType
<1>1. ASSUME NEW d \in Slots, PublishBegin(d) PROVE TypeInv'
  <2>1. slot' \in [Slots -> SlotType]
    <3>1. NoSurface \in Surface
      BY DEF NoSurface, Surface
    <3>2. [slot EXCEPT ![d].seq = @ + 1] \in [Slots -> SlotType]
      BY <3>1, SlotOps
    <3> QED
      BY <1>1, <3>2 DEF PublishBegin
  <2>2. writer' \in WriterType
    BY <1>1, WriterOps DEF PublishBegin
  <2> QED
    BY <1>1, <2>1, <2>2 DEF PublishBegin
<1>2. ASSUME NEW d \in Screens, OpenWindow(d) PROVE TypeInv'
  BY <1>2 DEF OpenWindow
<1>3. CASE PublishStep
  <2>0. writer.d \in Slots
    BY DEF WriterType
  <2>a. written[writer.d] + 1 \in Nat
    BY <2>0
  <2>b. <<running, written[writer.d] + 1>> \in Surface
    BY <2>a DEF Surface
  <2>1. slot' \in [Slots -> SlotType]
    <3>1. /\ [slot EXCEPT ![writer.d].seq = @ + 1] \in [Slots -> SlotType]
          /\ [slot EXCEPT ![writer.d].surf = <<running, written[writer.d] + 1>>]
               \in [Slots -> SlotType]
          /\ [slot EXCEPT ![writer.d].frame = written[writer.d] + 1] \in [Slots -> SlotType]
      BY <2>0, <2>a, <2>b, SlotOps
    <3> QED
      BY <1>3, <3>1 DEF PublishStep
  <2>2. writer' \in WriterType
    BY <1>3, <2>0, WriterOps DEF PublishStep
  <2>3. written' \in [Slots -> Nat]
    <3>1. written' \in {written, [written EXCEPT ![writer.d] = written[writer.d] + 1]}
      BY <1>3 DEF PublishStep
    <3> QED
      BY <2>0, <2>a, <3>1
  <2> QED
    BY <1>3, <2>1, <2>2, <2>3 DEF PublishStep
<1>4. CASE QemuExits
  BY <1>4 DEF QemuExits
<1>5. CASE MonitorReaps
  <2>1. drawn' \in [Screens -> Surface]
    BY <1>5 DEF MonitorReaps, NoSurface, Surface
  <2> QED
    BY <1>5, <2>1 DEF MonitorReaps
<1>6. CASE ResetSlots
  <2>1. EmptySlot \in SlotType
    BY DEF EmptySlot, NoSurface, Surface, SlotType
  <2> QED
    BY <1>6, <2>1 DEF ResetSlots
<1>7. CASE LaunchQemu
  <2>1. 0 \in Slots
    BY DEF Slots
  <2>2. writer' \in WriterType
    BY <1>7, <2>1, WriterOps DEF LaunchQemu
  <2> QED
    BY <1>7, <2>2 DEF LaunchQemu
<1>8. CASE BumpGeneration
  BY <1>8 DEF BumpGeneration
<1>9. CASE ReadStep
  <2>1. rd.d \in Slots
    BY <1>b
  <2>2. slot[rd.d].seq \in Nat /\ slot[rd.d].surf \in Surface /\ slot[rd.d].frame \in Nat
    BY <2>1 DEF SlotType
  <2>3. rd' \in ReadType
    <3>1. /\ [rd EXCEPT !.at = "seq", !.tries = @ + 1] \in ReadType
          /\ [rd EXCEPT !.at = "surf", !.s0 = slot[rd.d].seq] \in ReadType
          /\ [rd EXCEPT !.at = "frame", !.surf = slot[rd.d].surf] \in ReadType
          /\ [rd EXCEPT !.at = "check", !.frame = slot[rd.d].frame] \in ReadType
          /\ [rd EXCEPT !.at = "hit"] \in ReadType /\ [rd EXCEPT !.at = "miss"] \in ReadType
      BY <2>2, ReadOps
    <3>2. Again \in ReadType
      BY <3>1 DEF Again
    <3> QED
      BY <1>9, <3>1, <3>2 DEF ReadStep, ReadAttempt
  <2> QED
    BY <1>9, <2>3 DEF ReadStep
<1>10. CASE LoopTop
  <2>1. [d \in Slots |-> 0] \in [Slots -> Nat] /\ loop.last \in [Slots -> Nat] /\ loop.seen \in Nat
    BY LoopOps
  <2>2. loop' \in LoopType
    BY <1>10, <2>1, LoopOps DEF LoopTop, SyncedCursors
  <2> QED
    BY <1>10, <2>2 DEF LoopTop
<1>11. CASE ScanAsk
  <2>1. rd' \in ReadType
    BY <1>11, StartReadTypes, ScanTypes DEF ScanAsk
  <2>2. loop' \in LoopType
    BY <1>11, LoopOps DEF ScanAsk
  <2> QED
    BY <1>11, <2>1, <2>2 DEF ScanAsk
<1>12. CASE ScanAnswer
  <2>1. loop' \in LoopType
    BY <1>12, <1>b, LoopOps DEF ScanAnswer
  <2>2. nextScan' \in Slots
    BY <1>12, ScanTypes DEF ScanAnswer
  <2> QED
    BY <1>12, <2>1, <2>2, NoReadType DEF ScanAnswer
<1>13. CASE ScanEnds
  <2>1. loop' \in LoopType
    BY <1>13, <1>b, LoopOps, LoopStartType DEF ScanEnds
  <2> QED
    BY <1>13, <2>1 DEF ScanEnds
<1>14. CASE PollWakes
  <2>1. loop' \in LoopType
    BY <1>14, <1>b, LoopOps DEF PollWakes
  <2> QED
    BY <1>14, <2>1 DEF PollWakes
<1>15. CASE PollTimesOut
  <2>1. loop' \in LoopType
    BY <1>15, <1>b, LoopOps DEF PollTimesOut
  <2> QED
    BY <1>15, <2>1 DEF PollTimesOut
<1>16. CASE LoopAsk
  <2>1. rd' \in ReadType
    BY <1>16, <1>b, StartReadTypes DEF LoopAsk
  <2> QED
    BY <1>16, <2>1 DEF LoopAsk
<1>17. CASE LoopAnswer
  <2>0. rd.d # 0 => rd.d \in Screens
    BY <1>b DEF Slots, Screens
  <2>1. [loop.last EXCEPT ![rd.d] = rd.frame] \in [Slots -> Nat]
    BY <1>b
  <2>2. loop' \in LoopType
    <3>1. LoopStart(loop.last, loop.seen) \in LoopType
      BY <1>b, LoopStartType
    <3>2. LoopStart([loop.last EXCEPT ![rd.d] = rd.frame], loop.seen) \in LoopType
      BY <1>b, <2>1, LoopStartType
    <3> QED
      BY <1>17, <3>1, <3>2 DEF LoopAnswer
  <2>3. \A d \in Screens : Append(blocks, d) \in Seq(Screens)
    OBVIOUS
  <2>4. blocks' \in Seq(Screens)
    BY <1>17, <2>0, <2>3 DEF LoopAnswer, Enqueue
  <2> QED
    BY <1>17, <2>2, <2>4, NoReadType DEF LoopAnswer
<1>18. CASE BlockStarts
  <2>1. Head(blocks) \in Screens /\ Tail(blocks) \in Seq(Screens)
    BY <1>18 DEF BlockStarts
  <2>2. rd' \in ReadType
    BY <1>18, <1>a, <2>1, StartReadTypes DEF BlockStarts
  <2>3. ui' \in UiType
    BY <1>18, <2>1, UiOps DEF BlockStarts
  <2> QED
    BY <1>18, <2>1, <2>2, <2>3 DEF BlockStarts
<1>19. CASE BlockPresents
  <2>1. ui' \in UiType
    <3>1. ui.at # "idle" /\ ui.d \in Screens
      BY <1>19, <1>b DEF BlockPresents
    <3>2. [ui EXCEPT !.at = "lower", !.shown = rd.frame] \in UiType
      BY <1>b, <3>1, UiOps
    <3>3. [ui EXCEPT !.at = "lower"] \in UiType
      BY <1>b, <3>1, UiOps
    <3> QED
      BY <1>19, <3>2, <3>3 DEF BlockPresents
  <2> QED
    BY <1>19, <2>1, NoReadType DEF BlockPresents
<1>20. CASE BlockLowersFlag
  <2>1. rd' \in ReadType
    BY <1>20, <1>b, StartReadTypes DEF BlockLowersFlag
  <2>2. ui' \in UiType
    BY <1>20, <1>b, UiOps DEF BlockLowersFlag
  <2> QED
    BY <1>20, <2>1, <2>2 DEF BlockLowersFlag
<1>21. CASE BlockEnds
  <2>1. \A d \in Screens : Append(blocks, d) \in Seq(Screens)
    OBVIOUS
  <2>2. blocks' \in Seq(Screens)
    BY <1>21, <1>b, <2>1 DEF BlockEnds, Enqueue
  <2> QED
    BY <1>21, <2>2, NoReadType, IdleType DEF BlockEnds
<1>22. ASSUME NEW d \in Screens, DrawStarts(d) PROVE TypeInv'
  <2>1. rd' \in ReadType
    BY <1>22, <1>a, StartReadTypes DEF DrawStarts
  <2>2. ui' \in UiType
    BY <1>22, UiOps DEF DrawStarts
  <2> QED
    BY <1>22, <2>1, <2>2 DEF DrawStarts
<1>23. CASE DrawEnds
  <2>1. drawn' \in [Screens -> Surface]
    BY <1>23, <1>b DEF DrawEnds
  <2> QED
    BY <1>23, <2>1, NoReadType, IdleType DEF DrawEnds
<1>24. CASE UNCHANGED vars
  BY <1>24 DEF vars
<1> QED
  BY <1>1, <1>2, <1>3, <1>4, <1>5, <1>6, <1>7, <1>8, <1>9, <1>10, <1>11, <1>12, <1>13, <1>14,
     <1>15, <1>16, <1>17, <1>18, <1>19, <1>20, <1>21, <1>22, <1>23, <1>24
     DEF Next, MonitorNext, LoopNext, BlockNext, DrawNext

-----------------------------------------------------------------------------
\* A step that publishes nothing, keeps the slots, and at most begins or ends
\* a read.
Still ==
    /\ UNCHANGED <<slot, writer, written, running>>
    /\ monitor = "launch" <=> monitor' = "launch"
    /\ \/ rd' = rd
       \/ rd' = NoRead
       \/ rd'.at = "seq" /\ rd'.surf = NoSurface

\* Such a step that keeps the windows and what they show as well.
Quiet ==
    /\ Still /\ UNCHANGED <<drawn, open>>
    /\ up' => up
    /\ monitor' = monitor \/ (monitor = "publish" /\ monitor' = "wait")
    /\ ui'.at = "draw" => ui.at = "draw"

\* What the steps of the threads are.
LEMMA Kinds ==
    ASSUME TypeInv, [Next]_vars
    PROVE  \/ \E d \in Slots : PublishBegin(d)
           \/ PublishStep \/ ResetSlots \/ LaunchQemu \/ ReadStep
           \/ /\ Still
              /\ MonitorReaps \/ (\E d \in Screens : OpenWindow(d) \/ DrawStarts(d)) \/ DrawEnds
           \/ Quiet
<1> USE DEF producer, mainState, loopRest, uiRest
<1>a. \A d \in Screens : d \in Slots
  BY DEF Screens, Slots
<1>b. loop.ready \in Slots /\ ui.d \in Slots /\ ScanSlot \in Slots
  BY ScanTypes DEF TypeInv, LoopType, UiType
<1>1. CASE QemuExits
  BY <1>1 DEF QemuExits, Quiet, Still
<1>2. CASE MonitorReaps
  BY <1>2 DEF MonitorReaps, Still
<1>3. ASSUME NEW d \in Screens, OpenWindow(d) PROVE Still
  BY <1>3 DEF OpenWindow, Still
<1>4. CASE BumpGeneration
  BY <1>4 DEF BumpGeneration, Quiet, Still
<1>5. CASE LoopTop
  BY <1>5 DEF LoopTop, Quiet, Still
<1>6. CASE ScanAsk
  <2>1. rd'.at = "seq" /\ rd'.surf = NoSurface
    BY <1>6, <1>b, StartReadTypes DEF ScanAsk
  <2> QED
    BY <1>6, <2>1 DEF ScanAsk, Quiet, Still
<1>7. CASE ScanAnswer
  BY <1>7 DEF ScanAnswer, Quiet, Still
<1>8. CASE ScanEnds
  BY <1>8 DEF ScanEnds, Quiet, Still
<1>9. CASE PollWakes
  BY <1>9 DEF PollWakes, Quiet, Still
<1>10. CASE PollTimesOut
  BY <1>10 DEF PollTimesOut, Quiet, Still
<1>11. CASE LoopAsk
  <2>1. rd'.at = "seq" /\ rd'.surf = NoSurface
    BY <1>11, <1>b, StartReadTypes DEF LoopAsk
  <2> QED
    BY <1>11, <2>1 DEF LoopAsk, Quiet, Still
<1>12. CASE LoopAnswer
  BY <1>12 DEF LoopAnswer, Quiet, Still
<1>13. CASE BlockStarts
  <2>1. Head(blocks) \in Slots
    BY <1>13, <1>a DEF BlockStarts, TypeInv
  <2>2. rd'.at = "seq" /\ rd'.surf = NoSurface
    BY <1>13, <2>1, StartReadTypes DEF BlockStarts
  <2> QED
    BY <1>13, <2>2 DEF BlockStarts, Quiet, Still
<1>14. CASE BlockPresents
  <2>1. ui'.at = "lower"
    BY <1>14 DEF BlockPresents, TypeInv, UiType
  <2> QED
    BY <1>14, <2>1 DEF BlockPresents, Quiet, Still
<1>15. CASE BlockLowersFlag
  <2>1. rd'.at = "seq" /\ rd'.surf = NoSurface
    BY <1>15, <1>b, StartReadTypes DEF BlockLowersFlag
  <2>2. ui'.at = "after"
    BY <1>15 DEF BlockLowersFlag, TypeInv, UiType
  <2> QED
    BY <1>15, <2>1, <2>2 DEF BlockLowersFlag, Quiet, Still
<1>16. CASE BlockEnds
  BY <1>16 DEF BlockEnds, Idle, Quiet, Still
<1>17. ASSUME NEW d \in Screens, DrawStarts(d) PROVE Still
  <2>1. rd'.at = "seq" /\ rd'.surf = NoSurface
    BY <1>17, <1>a, StartReadTypes DEF DrawStarts
  <2> QED
    BY <1>17, <2>1 DEF DrawStarts, Still
<1>18. CASE DrawEnds
  BY <1>18 DEF DrawEnds, Still
<1>19. CASE UNCHANGED vars
  BY <1>19 DEF vars, Quiet, Still
<1> QED
  BY <1>1, <1>2, <1>3, <1>4, <1>5, <1>6, <1>7, <1>8, <1>9, <1>10, <1>11, <1>12, <1>13, <1>14,
     <1>15, <1>16, <1>17, <1>18, <1>19
     DEF Next, MonitorNext, LoopNext, BlockNext, DrawNext

\* An odd number follows an even one and the other way round.
LEMMA Parity ==
    ASSUME NEW n \in Nat
    PROVE  /\ n % 2 = 0 => (n + 1) % 2 = 1
           /\ n % 2 = 1 => (n + 1) % 2 = 0
           /\ n % 2 = 0 \/ n % 2 = 1
OBVIOUS

\* Beginning a read, ending one, or neither, leaves the seqlock as it is.
LEMMA StillSeq == ASSUME SeqInv, Still PROVE SeqInv'
<1>1. SlotInv'
  BY DEF SeqInv, SlotInv, Still, Busy
<1>2. ReadInv' /\ NoTornSnapshot'
  <2>1. CASE rd' = rd
    BY <2>1 DEF SeqInv, ReadInv, NoTornSnapshot, Still
  <2>2. CASE rd'.at \in {"free", "seq"}
    BY <2>2 DEF ReadInv, NoTornSnapshot
  <2> QED
    BY <2>1, <2>2 DEF Still, NoRead
<1> QED
  BY <1>1, <1>2 DEF SeqInv

\* A write to a slot whose sequence is odd, or that makes it greater, is no
\* concern of the read: its first sequence is even and not greater.
LEMMA WriteSeq ==
    ASSUME TypeInv, SeqInv, TypeInv', UNCHANGED rd,
           \A d \in Slots :
              \/ slot'[d] = slot[d]
              \/ slot'[d].seq > slot[d].seq
              \/ slot'[d].seq = slot[d].seq /\ slot[d].seq % 2 = 1
    PROVE  ReadInv' /\ NoTornSnapshot'
<1>1. rd.d \in Slots /\ rd.s0 \in Nat
  BY DEF TypeInv, ReadType
<1>2. slot[rd.d].seq \in Nat /\ slot'[rd.d].seq \in Nat
  BY <1>1 DEF TypeInv, SlotType
<1>3. CASE slot'[rd.d] = slot[rd.d]
  BY <1>3 DEF SeqInv, ReadInv, NoTornSnapshot
<1>4. CASE slot'[rd.d].seq > slot[rd.d].seq
  BY <1>1, <1>2, <1>4 DEF SeqInv, ReadInv, NoTornSnapshot
<1>5. CASE slot'[rd.d].seq = slot[rd.d].seq /\ slot[rd.d].seq % 2 = 1
  BY <1>1, <1>2, <1>5 DEF SeqInv, ReadInv, NoTornSnapshot
<1> QED
  BY <1>1, <1>3, <1>4, <1>5

\* The producer and the reader keep the seqlock.
LEMMA SeqStep == FrameInv /\ [Next]_vars => SeqInv'
<1> SUFFICES ASSUME FrameInv, [Next]_vars PROVE SeqInv'
  OBVIOUS
<1>t. TypeInv /\ TypeInv' /\ SeqInv /\ EraInv
  BY TypeStep DEF FrameInv
<1>s. \A d \in Slots : slot[d] \in SlotType /\ slot[d].seq \in Nat
  BY <1>t DEF TypeInv, SlotType
<1>w. writer.d \in Slots
  BY <1>t DEF TypeInv, WriterType
<1>1. ASSUME NEW d \in Slots, PublishBegin(d) PROVE SeqInv'
  <2>1. monitor # "launch" /\ ~Busy(d) /\ monitor' = monitor /\ rd' = rd
    BY <1>1, <1>t DEF PublishBegin, EraInv, Busy
  <2>2. /\ slot'[d].seq = slot[d].seq + 1 /\ slot'[d].surf = slot[d].surf
        /\ slot'[d].frame = slot[d].frame
        /\ \A e \in Slots \ {d} : slot'[e] = slot[e]
    BY <1>1, <1>t, <1>s DEF PublishBegin, SlotType, TypeInv
  <2>3. writer' = [at |-> "surf", d |-> d] /\ \A e \in Slots : Busy(e)' <=> e = d
    BY <1>1, <2>1 DEF PublishBegin, Busy
  <2>4. \A e \in Slots : ~Busy(e)
    BY <1>1 DEF PublishBegin, Busy
  <2>5. slot[d].seq % 2 = 0
    BY <1>t, <2>4 DEF SeqInv, SlotInv
  <2>6. slot'[d].seq % 2 = 1
    BY <1>s, <2>2, <2>5, Parity
  <2>7. SlotInv'
    <3>1. \A e \in Slots : /\ slot'[e].seq % 2 = IF Busy(e)' THEN 1 ELSE 0
                           /\ ~Busy(e)' => slot'[e].surf[2] = slot'[e].frame
      BY <1>t, <2>2, <2>3, <2>4, <2>6 DEF SeqInv, SlotInv
    <3> QED
      BY <2>3, <3>1 DEF SlotInv
  <2>8. ReadInv' /\ NoTornSnapshot'
    BY <1>s, <1>t, <2>1, <2>2, WriteSeq
  <2> QED
    BY <2>7, <2>8 DEF SeqInv
<1>2. CASE PublishStep
  <2> DEFINE d == writer.d
  <2>1. monitor # "launch" /\ monitor' = monitor /\ rd' = rd
    BY <1>2, <1>t DEF PublishStep, EraInv
  <2>2. \A e \in Slots \ {d} : slot'[e] = slot[e] /\ ~Busy(e)
    BY <1>2, <1>t DEF PublishStep, TypeInv, Busy
  <2>3. CASE writer.at = "surf"
    <3>1. writer' = [writer EXCEPT !.at = "frame"] /\ written' = written
      BY <1>2, <2>3 DEF PublishStep
    <3>2. writer'.at = "frame" /\ writer'.d = d
      BY <1>t, <3>1 DEF TypeInv, WriterType
    <3>3. slot'[d].seq = slot[d].seq /\ slot'[d].surf = <<running, written[d] + 1>>
      <4>1. slot' = [slot EXCEPT ![d].surf = <<running, written[d] + 1>>]
        BY <1>2, <2>3 DEF PublishStep
      <4>2. slot \in [Slots -> SlotType] /\ d \in Slots /\ slot[d] \in SlotType
        BY <1>t, <1>w, <1>s DEF TypeInv
      <4>3. slot'[d] = [slot[d] EXCEPT !.surf = <<running, written[d] + 1>>]
        BY <4>1, <4>2
      <4> HIDE DEF d
      <4> QED
        BY <4>2, <4>3 DEF SlotType
    <3>4. Busy(d) /\ Busy(d)' /\ \A e \in Slots \ {d} : ~Busy(e)'
      BY <2>1, <2>3, <3>2 DEF Busy
    <3>5. SlotInv'
      BY <1>t, <1>w, <2>2, <3>1, <3>2, <3>3, <3>4 DEF SeqInv, SlotInv
    <3>6. slot[d].seq % 2 = 1
      BY <1>t, <1>w, <3>4 DEF SeqInv, SlotInv
    <3>7. ReadInv' /\ NoTornSnapshot'
      BY <1>t, <1>w, <2>1, <2>2, <3>3, <3>6, WriteSeq
    <3> QED
      BY <3>5, <3>7 DEF SeqInv
  <2>4. CASE writer.at = "frame"
    <3>1. writer' = [writer EXCEPT !.at = "end"] /\ written' = written
      BY <1>2, <2>4 DEF PublishStep
    <3>2. writer'.at = "end" /\ writer'.d = d
      BY <1>t, <3>1 DEF TypeInv, WriterType
    <3>3. /\ slot'[d].seq = slot[d].seq /\ slot'[d].surf = slot[d].surf
          /\ slot'[d].frame = written[d] + 1
      <4>1. slot' = [slot EXCEPT ![d].frame = written[d] + 1]
        BY <1>2, <2>4 DEF PublishStep
      <4>2. slot \in [Slots -> SlotType] /\ d \in Slots /\ slot[d] \in SlotType
        BY <1>t, <1>w, <1>s DEF TypeInv
      <4>3. slot'[d] = [slot[d] EXCEPT !.frame = written[d] + 1]
        BY <4>1, <4>2
      <4> HIDE DEF d
      <4> QED
        BY <4>2, <4>3 DEF SlotType
    <3>4. Busy(d) /\ Busy(d)' /\ \A e \in Slots \ {d} : ~Busy(e)'
      BY <2>1, <2>4, <3>2 DEF Busy
    <3>5. SlotInv'
      BY <1>t, <1>w, <2>1, <2>2, <2>4, <3>1, <3>2, <3>3, <3>4 DEF SeqInv, SlotInv
    <3>6. slot[d].seq % 2 = 1
      BY <1>t, <1>w, <3>4 DEF SeqInv, SlotInv
    <3>7. ReadInv' /\ NoTornSnapshot'
      BY <1>t, <1>w, <2>1, <2>2, <3>3, <3>6, WriteSeq
    <3> QED
      BY <3>5, <3>7 DEF SeqInv
  <2>5. CASE writer.at = "end"
    <3>1. writer' = [writer EXCEPT !.at = "ring"]
      BY <1>2, <2>5 DEF PublishStep
    <3>2. writer'.at = "ring" /\ writer'.d = d
      BY <1>t, <3>1 DEF TypeInv, WriterType
    <3>3. /\ slot'[d].seq = slot[d].seq + 1 /\ slot'[d].surf = slot[d].surf
          /\ slot'[d].frame = slot[d].frame
      <4>1. slot' = [slot EXCEPT ![d].seq = @ + 1]
        BY <1>2, <2>5 DEF PublishStep
      <4>2. slot \in [Slots -> SlotType] /\ d \in Slots /\ slot[d] \in SlotType
        BY <1>t, <1>w, <1>s DEF TypeInv
      <4>3. slot'[d] = [slot[d] EXCEPT !.seq = @ + 1]
        BY <4>1, <4>2
      <4> HIDE DEF d
      <4> QED
        BY <4>2, <4>3 DEF SlotType
    <3>4. Busy(d) /\ \A e \in Slots : ~Busy(e)'
      BY <2>1, <2>5, <3>2 DEF Busy
    <3>5. slot[d].seq % 2 = 1 /\ slot[d].surf[2] = slot[d].frame
      BY <1>t, <1>w, <2>1, <2>5, <3>4 DEF SeqInv, SlotInv
    <3>6. slot'[d].seq % 2 = 0
      BY <1>s, <1>w, <3>3, <3>5, Parity
    <3>7. SlotInv'
      BY <1>t, <1>w, <2>2, <3>2, <3>3, <3>4, <3>5, <3>6 DEF SeqInv, SlotInv
    <3>8. ReadInv' /\ NoTornSnapshot'
      BY <1>s, <1>t, <1>w, <2>1, <2>2, <3>3, WriteSeq
    <3> QED
      BY <3>7, <3>8 DEF SeqInv
  <2>6. CASE writer.at = "ring"
    <3>1. writer' = [writer EXCEPT !.at = "idle"] /\ slot' = slot
      BY <1>2, <2>6 DEF PublishStep
    <3>2. writer'.at = "idle" /\ writer'.d = d
      BY <1>t, <3>1 DEF TypeInv, WriterType
    <3>3. \A e \in Slots : ~Busy(e) /\ ~Busy(e)'
      BY <2>6, <3>2 DEF Busy
    <3>4. SlotInv'
      BY <1>t, <3>1, <3>2, <3>3 DEF SeqInv, SlotInv
    <3>5. ReadInv' /\ NoTornSnapshot'
      BY <1>t, <2>1, <3>1, WriteSeq
    <3> QED
      BY <3>4, <3>5 DEF SeqInv
  <2> QED
    BY <1>2, <2>3, <2>4, <2>5, <2>6 DEF PublishStep
<1>3. CASE ResetSlots
  <2>1. /\ rd' = rd /\ rd.at = "free" /\ monitor' = "launch"
        /\ \A d \in Slots : slot'[d] = EmptySlot
    BY <1>3 DEF ResetSlots
  <2>2. EmptySlot.seq = 0 /\ EmptySlot.surf[2] = EmptySlot.frame
    BY DEF EmptySlot, NoSurface
  <2> QED
    BY <2>1, <2>2 DEF SeqInv, SlotInv, ReadInv, NoTornSnapshot, Busy
<1>4. CASE LaunchQemu
  <2>1. /\ monitor = "launch" /\ slot' = slot /\ rd' = rd
        /\ writer' = [at |-> "idle", d |-> 0]
    BY <1>4 DEF LaunchQemu
  <2>2. \A d \in Slots : ~Busy(d) /\ ~Busy(d)'
    BY <2>1 DEF Busy
  <2>3. SlotInv'
    BY <1>t, <2>1, <2>2 DEF SeqInv, SlotInv
  <2> QED
    BY <1>t, <2>1, <2>3 DEF SeqInv, ReadInv, NoTornSnapshot
<1>5. CASE ReadStep
  <2> DEFINE s == slot[rd.d]
  <2>0. rd.d \in Slots /\ s \in SlotType /\ s.seq \in Nat
    BY <1>s, <1>t DEF TypeInv, ReadType
  <2>1. SlotInv'
    BY <1>5, <1>t DEF ReadStep, producer, SeqInv, SlotInv, Busy
  <2>2. slot' = slot /\ rd \in ReadType
    BY <1>5, <1>t DEF ReadStep, TypeInv
  <2>3. Again.at \in {"seq", "miss"}
    BY <2>2 DEF Again, ReadType
  <2>4. CASE rd.at = "seq"
    <3>1. \/ rd' = Again
          \/ rd' = [rd EXCEPT !.at = "surf", !.s0 = s.seq] /\ s.seq % 2 # 1
      BY <1>5, <2>4 DEF ReadStep, ReadAttempt
    <3>2. CASE rd' = Again
      BY <2>1, <2>3, <3>2 DEF SeqInv, ReadInv, NoTornSnapshot
    <3>3. CASE rd' = [rd EXCEPT !.at = "surf", !.s0 = s.seq] /\ s.seq % 2 # 1
      <4>1. rd'.at = "surf" /\ rd'.s0 = s.seq /\ rd'.d = rd.d
        BY <2>2, <3>3 DEF ReadType
      <4>2. s.seq % 2 = 0
        BY <2>0, <3>3, Parity
      <4> QED
        BY <2>0, <2>1, <2>2, <4>1, <4>2 DEF SeqInv, ReadInv, NoTornSnapshot
    <3> QED
      BY <3>1, <3>2, <3>3
  <2>5. CASE rd.at = "surf"
    <3>1. rd' = [rd EXCEPT !.at = "frame", !.surf = s.surf]
      BY <1>5, <2>5 DEF ReadStep, ReadAttempt
    <3>2. rd'.at = "frame" /\ rd'.surf = s.surf /\ rd'.d = rd.d /\ rd'.s0 = rd.s0
      BY <2>2, <3>1 DEF ReadType
    <3> QED
      BY <1>t, <2>1, <2>2, <2>5, <3>2 DEF SeqInv, ReadInv, NoTornSnapshot
  <2>6. CASE rd.at = "frame"
    <3>1. rd' = [rd EXCEPT !.at = "check", !.frame = s.frame]
      BY <1>5, <2>6 DEF ReadStep, ReadAttempt
    <3>2. /\ rd'.at = "check" /\ rd'.frame = s.frame /\ rd'.d = rd.d /\ rd'.s0 = rd.s0
          /\ rd'.surf = rd.surf
      BY <2>2, <3>1 DEF ReadType
    <3> QED
      BY <1>t, <2>1, <2>2, <2>6, <3>2 DEF SeqInv, ReadInv, NoTornSnapshot
  <2>7. CASE rd.at = "check"
    <3>1. \/ rd' = Again
          \/ s.seq = rd.s0 /\ rd' = [rd EXCEPT !.at = IF rd.frame # 0 THEN "hit" ELSE "miss"]
      BY <1>5, <2>7 DEF ReadStep, ReadAttempt
    <3>2. CASE rd' = Again
      BY <2>1, <2>3, <3>2 DEF SeqInv, ReadInv, NoTornSnapshot
    <3>3. CASE s.seq = rd.s0 /\ rd' = [rd EXCEPT !.at = IF rd.frame # 0 THEN "hit" ELSE "miss"]
      <4>1. rd'.at \in {"hit", "miss"} /\ rd'.surf = rd.surf /\ rd'.frame = rd.frame
        BY <2>2, <3>3 DEF ReadType
      <4>2. rd.surf = s.surf /\ rd.frame = s.frame /\ s.seq % 2 = 0
        BY <1>t, <2>7, <3>3 DEF SeqInv, ReadInv
      <4>3. s.surf[2] = s.frame
        BY <1>t, <2>0, <4>2 DEF SeqInv, SlotInv
      <4> QED
        BY <2>1, <4>1, <4>2, <4>3 DEF SeqInv, ReadInv, NoTornSnapshot
    <3> QED
      BY <3>1, <3>2, <3>3
  <2> QED
    BY <1>5, <2>4, <2>5, <2>6, <2>7 DEF ReadStep, ReadAttempt
<1>6. CASE Still
  BY <1>6, <1>t, StillSeq
<1> QED
  BY <1>t, <1>1, <1>2, <1>3, <1>4, <1>5, <1>6, Kinds DEF Quiet

\* A surface of an earlier qemu has no way to a slot, a read or a view.
LEMMA EraStep == FrameInv /\ [Next]_vars => EraInv'
<1> SUFFICES ASSUME FrameInv, [Next]_vars PROVE EraInv'
  OBVIOUS
<1>t. TypeInv /\ EraInv
  BY DEF FrameInv
<1>0. NoSurface[1] = 0 /\ NoRead.surf = NoSurface
  BY DEF NoSurface, NoRead
<1>r. rd.d \in Slots /\ rd \in ReadType /\ writer.d \in Slots
  BY <1>t DEF TypeInv, ReadType, WriterType
<1>s. \A d \in Slots : slot[d] \in SlotType
  BY <1>t DEF TypeInv
<1>1. ASSUME NEW d \in Slots, PublishBegin(d) PROVE EraInv'
  <2>1. \A e \in Slots : slot'[e].surf = slot[e].surf
    BY <1>1, <1>s, <1>t DEF PublishBegin, TypeInv, SlotType
  <2> QED
    BY <1>1, <1>t, <2>1 DEF PublishBegin, EraInv, Eras, mainState
<1>2. CASE PublishStep
  <2>1. monitor # "launch"
    BY <1>2, <1>t DEF PublishStep, EraInv
  <2>2. \A e \in Slots : slot'[e].surf \in {slot[e].surf, <<running, written[writer.d] + 1>>}
    <3>1. ASSUME NEW e \in Slots, writer.at = "surf"
          PROVE  slot'[e].surf \in {slot[e].surf, <<running, written[writer.d] + 1>>}
      BY <1>2, <1>s, <1>t, <3>1 DEF PublishStep, TypeInv, SlotType
    <3>2. ASSUME NEW e \in Slots, writer.at = "frame" PROVE slot'[e].surf = slot[e].surf
      <4>1. slot' = [slot EXCEPT ![writer.d].frame = written[writer.d] + 1]
        BY <1>2, <3>2 DEF PublishStep
      <4>2. slot \in [Slots -> SlotType] /\ slot[e] \in SlotType
        BY <1>s, <1>t DEF TypeInv
      <4>3. slot'[e] \in {slot[e], [slot[e] EXCEPT !.frame = written[writer.d] + 1]}
        BY <4>1, <4>2
      <4> QED
        BY <4>2, <4>3 DEF SlotType
    <3>3. ASSUME NEW e \in Slots, writer.at = "end" PROVE slot'[e].surf = slot[e].surf
      <4>1. slot' = [slot EXCEPT ![writer.d].seq = @ + 1]
        BY <1>2, <3>3 DEF PublishStep
      <4>2. slot \in [Slots -> SlotType] /\ slot[e] \in SlotType
        BY <1>s, <1>t DEF TypeInv
      <4>3. slot'[e] \in {slot[e], [slot[e] EXCEPT !.seq = @ + 1]}
        BY <4>1, <4>2
      <4> QED
        BY <4>2, <4>3 DEF SlotType
    <3>4. ASSUME NEW e \in Slots, writer.at = "ring" PROVE slot'[e].surf = slot[e].surf
      BY <1>2, <3>4 DEF PublishStep
    <3> QED
      BY <1>2, <3>1, <3>2, <3>3, <3>4 DEF PublishStep
  <2>3. \A e \in Slots : slot'[e].surf[1] \in Eras'
    BY <1>2, <1>t, <2>1, <2>2 DEF PublishStep, EraInv, Eras
  <2> QED
    BY <1>2, <1>t, <2>1, <2>3 DEF PublishStep, EraInv, Eras, mainState
<1>3. CASE ResetSlots
  <2>1. \A d \in Slots : slot'[d].surf[1] = 0
    BY <1>3 DEF ResetSlots, EmptySlot, NoSurface
  <2> QED
    BY <1>3, <1>t, <1>0, <2>1 DEF ResetSlots, EraInv, Eras, producer, mainState
<1>4. CASE LaunchQemu
  BY <1>4, <1>t DEF LaunchQemu, EraInv, Eras, mainState
<1>5. CASE ReadStep
  <2>1. rd.at # "free" /\ rd'.at # "free"
    BY <1>5, <1>r DEF ReadStep, ReadAttempt, Again, ReadType
  <2>2. rd'.surf \in {rd.surf, slot[rd.d].surf}
    <3>1. Again.surf = rd.surf
      BY <1>r DEF Again, ReadType
    <3> QED
      BY <1>5, <1>r, <3>1 DEF ReadStep, ReadAttempt, ReadType
  <2>3. rd'.surf[1] \in Eras
    BY <1>t, <1>r, <2>2 DEF EraInv
  <2> QED
    BY <1>5, <1>t, <2>1, <2>3 DEF ReadStep, EraInv, Eras, producer, mainState
<1>6. ASSUME Still PROVE rd'.surf[1] \in Eras /\ (rd'.at = "free" => rd'.surf = NoSurface)
  BY <1>6, <1>t, <1>0 DEF Still, EraInv, Eras
<1>7. CASE Still /\ MonitorReaps
  BY <1>7, <1>6, <1>t, <1>0 DEF Still, MonitorReaps, EraInv, Eras, producer
<1>8. ASSUME NEW d \in Screens, Still, OpenWindow(d) PROVE EraInv'
  BY <1>8, <1>6, <1>t DEF Still, OpenWindow, EraInv, Eras, uiRest, producer
<1>9. ASSUME NEW d \in Screens, Still, DrawStarts(d) PROVE EraInv'
  <2>1. open # {}
    BY <1>9, <1>t DEF DrawStarts, TypeInv
  <2> QED
    BY <1>9, <1>6, <1>t, <2>1 DEF Still, DrawStarts, EraInv, Eras, uiRest, producer
<1>10. CASE Still /\ DrawEnds
  <2>1. monitor \notin {"reset", "launch"}
    BY <1>10, <1>t DEF DrawEnds, EraInv
  <2>2. rd.surf[1] \in {0, running}
    BY <1>t, <2>1 DEF EraInv, Eras
  <2>3. \A d \in Screens : drawn'[d][1] \in {0, running}
    BY <1>10, <1>t, <2>2 DEF DrawEnds, EraInv, TypeInv
  <2> QED
    BY <1>10, <1>6, <1>t, <2>1, <2>3 DEF Still, DrawEnds, EraInv, Eras, uiRest, producer
<1>11. CASE Quiet
  BY <1>11, <1>6, <1>t DEF Quiet, Still, EraInv, Eras
<1> QED
  BY <1>t, <1>1, <1>2, <1>3, <1>4, <1>5, <1>7, <1>8, <1>9, <1>10, <1>11, Kinds

\* At first the slots are empty and nobody reads.
LEMMA InitFrameInv == Init => FrameInv
<1> SUFFICES ASSUME Init PROVE FrameInv
  OBVIOUS
<1>1. 0 \in Slots /\ NoSurface \in Surface /\ NoSurface[1] = 0 /\ NoSurface[2] = 0
  BY DEF Slots, NoSurface, Surface
<1>2. /\ EmptySlot \in SlotType /\ EmptySlot.seq = 0
      /\ EmptySlot.surf = NoSurface /\ EmptySlot.frame = 0
  BY <1>1 DEF EmptySlot, SlotType
<1>3. loop \in LoopType
  BY LoopStartType DEF Init
<1>4. writer \in WriterType
  BY <1>1 DEF Init, WriterType
<1>5. TypeInv
  BY <1>1, <1>2, <1>3, <1>4, NoReadType, IdleType DEF Init, TypeInv
<1>6. SeqInv
  BY <1>1, <1>2 DEF Init, SeqInv, SlotInv, ReadInv, NoTornSnapshot, Busy, NoRead
<1>7. EraInv
  BY <1>1, <1>2 DEF Init, EraInv, Eras, NoRead
<1> QED
  BY <1>5, <1>6, <1>7 DEF FrameInv

\* The invariant that the two theorems below rest on: the types, the seqlock,
\* and the way of the surfaces of a dead qemu, through every interleaving of
\* the producer, the monitor, the doorbell loop and the main thread.
THEOREM FrameInvariance == Spec => []FrameInv
<1>1. FrameInv /\ [Next]_vars => FrameInv'
  BY TypeStep, SeqStep, EraStep DEF FrameInv
<1> QED
  BY <1>1, InitFrameInv, PTL DEF Spec

\* What FrameConsumer::read returns is one publication, for any number of
\* displays, attempts and restarts: the surface and the frame number were
\* written by the same one, although the producer takes no lock, may die in
\* the middle of a publication and have its slots cleared.
THEOREM SnapshotsWhole == Spec => []NoTornSnapshot
<1>1. FrameInv => NoTornSnapshot
  BY DEF FrameInv, SeqInv
<1> QED
  BY <1>1, FrameInvariance, PTL

\* No view shows a surface of an earlier qemu while one runs: the order in
\* which qemuMonitorLoop closes the windows, clears the slots under the mutex
\* of the readers and launches leaves a stale surface no way to a view.
THEOREM SurfacesFresh == Spec => []NoStaleSurface
<1>1. FrameInv => NoStaleSurface
  BY DEF FrameInv, EraInv, NoStaleSurface
<1> QED
  BY <1>1, FrameInvariance, PTL
=============================================================================
