------------------------- MODULE ImageImporterProofs -------------------------
(***************************************************************************)
(* Machine-checked proofs about ImageImporter, for any number of workers,  *)
(* objects, faults, cancels and deaths of the app.                         *)
(*                                                                         *)
(* The counter separates the objects that have been handed out from those  *)
(* that have not, so no object is handed out twice (ClaimInv); what has    *)
(* been handed out is in the cache, with a worker, or the run has failed   *)
(* (DoneInv).  The workers run only while the job joins them (CrewInv).    *)
(***************************************************************************)
EXTENDS ImageImporter, TLAPS

\* The states in which a worker has an object to see to.
Busy == {"cached", "start", "register", "wait", "verify", "commit", "failing"}
Has(w, o) == thread[w].at \in Busy /\ thread[w].obj = o

ThreadType == [at : Busy \cup {"queued", "loop", "join", "over"}, obj : 0..Count]
TaskType == {"none"} \cup Running \cup Ended
OrphanType == {"none", "partial", "cached"}

Types ==
    /\ thread \in [Threads -> ThreadType] /\ task \in [Threads -> TaskType]
    /\ next \in Nat \ {0}
    /\ partial \in [Objects -> Contents] /\ cached \in [Objects -> Contents]
    /\ orphan \in [Objects -> OrphanType]

\* A child process belongs to a thread that has launched it and waits for it.
TaskInv == \A t \in Threads : task[t] # "none" => thread[t].at \in {"register", "wait"}

\* The workers run only while the job waits for them.
CrewInv ==
    /\ thread[Job].at = "join" => thread[Job].obj = 0
    /\ thread[Job].at # "join" => \A w \in Workers : thread[w].at = "over"

\* Every object that a worker has came from the counter, and went to it alone.
ClaimInv ==
    /\ \A w \in Workers : thread[w].at \in Busy => thread[w].obj \in Objects /\ thread[w].obj < next
    /\ \A v, w \in Workers :
         thread[v].at \in Busy /\ thread[w].at \in Busy /\ thread[v].obj = thread[w].obj => v = w

\* The object is in the cache, or was until a curl of a dead process wrote on.
Good(o) == cached[o] = "whole" \/ orphan[o] = "cached"

\* While nothing has failed, an object that has been handed out is good or
\* somebody sees to it; and nobody leaves before all have been handed out.
DoneInv ==
    /\ \A w \in Workers : LET o == thread[w].obj IN
         thread[w].at = "commit" => partial[o] = "whole" \/ orphan[o] = "partial"
    /\ thread[Job].at = "join" /\ ~failed =>
         /\ \A o \in Objects : o < next => Good(o) \/ \E w \in Workers : Has(w, o)
         /\ \A w \in Workers : thread[w].at = "over" => next > Count
    /\ NoObjectMissed

ImportInv == Types /\ TaskInv /\ CrewInv /\ ClaimInv /\ DoneInv

-----------------------------------------------------------------------------
USE ImporterAssumptions

\* Where a thread goes: it keeps its object, and the others stay.
LEMMA GotoTypes ==
    ASSUME NEW t \in Threads, NEW from, NEW to, Types, Goto(t, from, to),
           to \in Busy \cup {"queued", "loop", "join", "over"}
    PROVE  /\ thread' \in [Threads -> ThreadType]
           /\ thread[t].at = from /\ thread'[t].at = to /\ thread'[t].obj = thread[t].obj
           /\ \A u \in Threads \ {t} : thread'[u] = thread[u]
<1>1. thread \in [Threads -> ThreadType] /\ thread[t] \in ThreadType
  BY DEF Types
<1>2. thread' = [thread EXCEPT ![t].at = to] /\ thread[t].at = from
  BY DEF Goto
<1>3. [thread[t] EXCEPT !.at = to] \in ThreadType
  BY <1>1 DEF ThreadType
<1>4. thread'[t] = [thread[t] EXCEPT !.at = to]
  BY <1>1, <1>2
<1>5. thread'[t].at = to /\ thread'[t].obj = thread[t].obj
  BY <1>1, <1>4 DEF ThreadType
<1>6. thread' \in [Threads -> ThreadType] /\ \A u \in Threads \ {t} : thread'[u] = thread[u]
  BY <1>1, <1>2, <1>3
<1> QED
  BY <1>2, <1>5, <1>6

\* A thread that does not run.
LEMMA RestingType == Resting \in ThreadType /\ Resting.at = "over" /\ Resting.obj = 0
BY DEF Resting, ThreadType

\* A worker that sees to its object, and touches the files of no other,
\* disturbs nobody: nobody else has that object.
LEMMA WorkerDone ==
    ASSUME NEW w \in Workers, ImportInv, thread[w].at \in Busy,
           thread'[w].obj = thread[w].obj,
           \/ thread'[w].at \in Busy
           \/ thread'[w].at = "loop" /\ Good(thread[w].obj)',
           \A u \in Threads \ {w} : thread'[u] = thread[u],
           next' = next, failed' = failed,
           \A p \in Objects \ {thread[w].obj} :
              cached'[p] = cached[p] /\ partial'[p] = partial[p] /\ orphan'[p] = orphan[p],
           thread'[w].at = "commit" =>
              partial'[thread[w].obj] = "whole" \/ orphan'[thread[w].obj] = "partial"
    PROVE  CrewInv' /\ ClaimInv' /\ DoneInv'
<1> DEFINE o == thread[w].obj
<1>1. Job \in Threads \ {w} /\ w \in Threads /\ \A v \in Workers \ {w} : v \in Threads \ {w}
  BY DEF Threads
<1>2. thread[Job].at = "join" /\ thread[Job].obj = 0 /\ thread'[Job] = thread[Job]
  BY <1>1 DEF ImportInv, CrewInv, Busy
<1>3. \A v \in Workers \ {w} : thread'[v] = thread[v]
  BY <1>1
<1>4. o \in Objects /\ o < next
  BY DEF ImportInv, ClaimInv
<1>5. CrewInv'
  BY <1>2 DEF CrewInv
<1>6. ClaimInv'
  <2>1. \A v \in Workers : thread'[v].at \in Busy => thread[v].at \in Busy
    BY <1>3
  <2>2. \A v \in Workers : thread'[v].obj = thread[v].obj
    BY <1>3
  <2> QED
    BY <2>1, <2>2 DEF ImportInv, ClaimInv
<1>7. DoneInv'
  <2>1. ASSUME NEW v \in Workers, thread'[v].at = "commit"
        PROVE  partial'[thread'[v].obj] = "whole" \/ orphan'[thread'[v].obj] = "partial"
    <3>1. CASE v = w
      BY <2>1, <3>1
    <3>2. CASE v # w
      <4>1. thread[v].at = "commit" /\ thread'[v].obj = thread[v].obj
        BY <1>3, <2>1, <3>2
      <4>2. thread[v].at \in Busy /\ thread[v].obj \in Objects /\ thread[v].obj # o
        BY <3>2, <4>1 DEF ImportInv, ClaimInv, Busy
      <4> QED
        BY <4>1, <4>2 DEF ImportInv, DoneInv
    <3> QED
      BY <3>1, <3>2
  <2>2. ASSUME thread'[Job].at = "join", ~failed', NEW p \in Objects, p < next'
        PROVE  Good(p)' \/ \E v \in Workers : Has(v, p)'
    <3>1. CASE p = o
      BY <3>1 DEF Has
    <3>2. CASE p # o
      <4>1. Good(p) \/ \E v \in Workers : Has(v, p)
        BY <1>2, <2>2 DEF ImportInv, DoneInv
      <4>2. Good(p) => Good(p)'
        BY <3>2 DEF Good
      <4>3. \A v \in Workers : Has(v, p) => Has(v, p)'
        BY <1>3, <3>2 DEF Has
      <4> QED
        BY <4>1, <4>2, <4>3
    <3> QED
      BY <3>1, <3>2
  <2>3. ASSUME thread'[Job].at = "join", ~failed', NEW v \in Workers, thread'[v].at = "over"
        PROVE  next' > Count
    <3>1. v # w
      BY <2>3 DEF Busy
    <3> QED
      BY <1>2, <1>3, <2>3, <3>1 DEF ImportInv, DoneInv
  <2>4. NoObjectMissed'
    BY <1>2 DEF NoObjectMissed
  <2> QED
    BY <2>1, <2>2, <2>3, <2>4 DEF DoneInv
<1> QED
  BY <1>5, <1>6, <1>7

\* What the job does before or after the downloads leaves the workers at rest.
LEMMA JobDone ==
    ASSUME ImportInv, thread[Job].at # "join", thread'[Job].at # "join",
           \A w \in Workers : thread'[w] = thread[w],
           thread'[Job].obj > 0 => thread[Job].obj > 0,
           cached' = cached, orphan' = orphan
    PROVE  CrewInv' /\ ClaimInv' /\ DoneInv'
<1>1. \A w \in Workers : thread[w].at = "over" /\ thread'[w].at = "over"
  BY DEF ImportInv, CrewInv
<1>2. CrewInv' /\ ClaimInv'
  BY <1>1 DEF CrewInv, ClaimInv, Busy
<1>3. NoObjectMissed'
  BY DEF ImportInv, DoneInv, NoObjectMissed
<1> QED
  BY <1>1, <1>2, <1>3 DEF DoneInv

\* A step that moves no thread may lose no good object.
LEMMA OthersDone ==
    ASSUME ImportInv, thread' = thread, next' = next, failed' = failed,
           \A p \in Objects : Good(p) => Good(p)',
           \A w \in Workers : LET o == thread[w].obj IN
              thread[w].at = "commit" => partial'[o] = partial[o] \/ orphan[o] = "partial",
           \A p \in Objects : orphan'[p] = orphan[p]
    PROVE  CrewInv' /\ ClaimInv' /\ DoneInv'
<1>1. CrewInv' /\ ClaimInv'
  BY DEF ImportInv, CrewInv, ClaimInv
<1>2. \A w \in Workers : thread[w].at = "commit" => thread[w].obj \in Objects
  BY DEF ImportInv, ClaimInv, Busy
<1>3. DoneInv'
  BY <1>2 DEF ImportInv, DoneInv, NoObjectMissed, Good, Has
<1> QED
  BY <1>1, <1>3

-----------------------------------------------------------------------------
\* Every step keeps the types of the threads and of their tasks, and a task
\* belongs to the thread that waits for it.
LEMMA TaskStep == ImportInv /\ [Next]_vars =>
    /\ thread' \in [Threads -> ThreadType] /\ task' \in [Threads -> TaskType]
    /\ next' \in Nat \ {0} /\ TaskInv'
<1> DEFINE Goal ==
      /\ thread' \in [Threads -> ThreadType] /\ task' \in [Threads -> TaskType]
      /\ next' \in Nat \ {0} /\ TaskInv'
<1> SUFFICES ASSUME ImportInv, [Next]_vars PROVE Goal
  OBVIOUS
<1>t. /\ Types /\ TaskInv
      /\ thread \in [Threads -> ThreadType] /\ task \in [Threads -> TaskType] /\ next \in Nat \ {0}
  BY DEF ImportInv, Types
<1>j. Job \in Threads /\ \A w \in Workers : w \in Threads /\ w # Job
  BY DEF Threads
<1>n. {"none", "up", "killed", "ok", "error", "norange"} = TaskType
  BY DEF TaskType, Running, Ended
<1>1. ASSUME NEW t \in Threads, Launch(t) PROVE Goal
  <2>1. CASE Goto(t, "start", "failing") /\ task' = task
    <3>1. /\ thread' \in [Threads -> ThreadType] /\ thread[t].at = "start"
          /\ \A u \in Threads \ {t} : thread'[u] = thread[u]
      BY <1>t, <2>1, GotoTypes DEF Busy
    <3> QED
      BY <1>1, <1>t, <2>1, <3>1 DEF Launch, TaskInv
  <2>2. CASE Goto(t, "start", "register") /\ task' = [task EXCEPT ![t] = "up"]
    <3>1. /\ thread' \in [Threads -> ThreadType] /\ thread'[t].at = "register"
          /\ \A u \in Threads \ {t} : thread'[u] = thread[u]
      BY <1>t, <2>2, GotoTypes DEF Busy
    <3> QED
      BY <1>1, <1>n, <1>t, <2>2, <3>1 DEF Launch, TaskInv
  <2> QED
    BY <1>1, <2>1, <2>2 DEF Launch
<1>2. ASSUME NEW t \in Threads, Register(t) PROVE Goal
  <2>1. /\ thread' \in [Threads -> ThreadType] /\ thread'[t].at = "wait"
        /\ \A u \in Threads \ {t} : thread'[u] = thread[u]
    BY <1>2, <1>t, GotoTypes DEF Register, Busy
  <2>2. /\ task' \in [Threads -> TaskType]
        /\ \A u \in Threads \ {t} : task'[u] = task[u]
    BY <1>2, <1>n, <1>t DEF Register, Killed
  <2> QED
    BY <1>2, <1>t, <2>1, <2>2 DEF Register, TaskInv
<1>3. ASSUME NEW w \in Workers, CurlEnds(w) PROVE Goal
  <2>1. /\ task' \in [Threads -> TaskType] /\ thread' = thread /\ next' = next
        /\ \A u \in Threads : task'[u] = task[u] \/ task[u] # "none"
    BY <1>3, <1>n, <1>t, <1>j DEF CurlEnds, Running
  <2> QED
    BY <1>t, <2>1 DEF TaskInv
<1>4. CASE ToolEnds
  <2>1. /\ task' \in [Threads -> TaskType] /\ thread' = thread /\ next' = next
        /\ \A u \in Threads : task'[u] = task[u] \/ task[u] # "none"
    BY <1>4, <1>n, <1>t, <1>j DEF ToolEnds, Running
  <2> QED
    BY <1>t, <2>1 DEF TaskInv
<1>5. ASSUME NEW w \in Workers, Claim(w) PROVE Goal
  <2>1. \/ thread' = [thread EXCEPT ![w] = Resting]
        \/ thread' = [thread EXCEPT ![w] = [at |-> "cached", obj |-> next]] /\ next <= Count
    BY <1>5, <1>t DEF Claim
  <2>2. next <= Count => [at |-> "cached", obj |-> next] \in ThreadType
    BY <1>t DEF ThreadType, Busy
  <2>3. /\ thread' \in [Threads -> ThreadType] /\ thread[w].at = "loop"
        /\ \A u \in Threads \ {w} : thread'[u] = thread[u]
    BY <1>5, <1>t, <2>1, <2>2, RestingType DEF Claim
  <2>4. task' = task /\ next' \in Nat \ {0}
    BY <1>5, <1>t DEF Claim
  <2> QED
    BY <1>j, <1>t, <2>3, <2>4 DEF TaskInv
<1>6. ASSUME NEW w \in Workers, CheckCached(w) PROVE Goal
  <2>1. /\ thread' \in [Threads -> ThreadType] /\ thread[w].at = "cached"
        /\ \A u \in Threads \ {w} : thread'[u] = thread[u]
    BY <1>6, <1>j, <1>t, GotoTypes DEF CheckCached, Busy
  <2> QED
    BY <1>6, <1>j, <1>t, <2>1 DEF CheckCached, TaskInv
<1>7. ASSUME NEW w \in Workers, Downloaded(w) PROVE Goal
  <2>1. task' = [task EXCEPT ![w] = "none"] /\ next' = next /\ task[w] \in Ended
    BY <1>7 DEF Downloaded, Returned
  <2> DEFINE to == CASE task[w] = "ok" -> "verify" [] task[w] = "norange" -> "start"
                     [] task[w] = "error" -> "failing"
  <2>2. to \in {"verify", "start", "failing"}
    BY <2>1 DEF Ended
  <2>3. Goto(w, "wait", to)
    BY <1>7 DEF Downloaded, Returned, Goto
  <2>4. /\ thread' \in [Threads -> ThreadType]
        /\ \A u \in Threads \ {w} : thread'[u] = thread[u]
    <3> HIDE DEF to
    <3> QED
      BY <1>j, <1>t, <2>2, <2>3, GotoTypes DEF Busy
  <2> QED
    BY <1>n, <1>t, <2>1, <2>4 DEF TaskInv
<1>8. ASSUME NEW w \in Workers, Verify(w) PROVE Goal
  <2>1. /\ thread' \in [Threads -> ThreadType] /\ thread[w].at = "verify"
        /\ \A u \in Threads \ {w} : thread'[u] = thread[u]
    BY <1>8, <1>j, <1>t, GotoTypes DEF Verify, Busy
  <2> QED
    BY <1>8, <1>j, <1>t, <2>1 DEF Verify, TaskInv
<1>9. ASSUME NEW w \in Workers, Commit(w) PROVE Goal
  <2>1. /\ thread' \in [Threads -> ThreadType] /\ thread[w].at = "commit"
        /\ \A u \in Threads \ {w} : thread'[u] = thread[u]
    BY <1>9, <1>j, <1>t, GotoTypes DEF Commit, Busy
  <2> QED
    BY <1>9, <1>j, <1>t, <2>1 DEF Commit, TaskInv
<1>10. ASSUME NEW w \in Workers, WorkerFails(w) PROVE Goal
  BY <1>10, <1>j, <1>t, RestingType DEF WorkerFails, TaskInv
<1>11. CASE StartImport
  <2>1. [at |-> "queued", obj |-> 0] \in ThreadType
    BY DEF ThreadType
  <2> QED
    BY <1>11, <1>j, <1>t, <2>1, RestingType DEF StartImport, TaskInv
<1>12. CASE Begin
  <2>1. /\ thread' \in [Threads -> ThreadType] /\ thread[Job].at = "queued"
        /\ \A u \in Threads \ {Job} : thread'[u] = thread[u]
    BY <1>12, <1>j, <1>t, GotoTypes DEF Begin, Busy
  <2> QED
    BY <1>12, <1>j, <1>t, <2>1 DEF Begin, TaskInv
<1>13. CASE ToolReturned
  <2> DEFINE o == thread[Job].obj
  <2>1. task' = [task EXCEPT ![Job] = "none"] /\ task[Job] \in Ended /\ thread[Job].at = "wait"
    BY <1>13 DEF ToolReturned, Returned
  <2>2. task' \in [Threads -> TaskType] /\ task'[Job] = "none"
    BY <1>j, <1>n, <1>t, <2>1
  <2>3. CASE thread' = [thread EXCEPT ![Job].at = "failing"] /\ next' = next
    <3>1. Goto(Job, "wait", "failing")
      BY <2>1, <2>3 DEF Goto
    <3>2. /\ thread' \in [Threads -> ThreadType]
          /\ \A u \in Threads \ {Job} : thread'[u] = thread[u]
      BY <1>j, <1>t, <3>1, GotoTypes DEF Busy
    <3> QED
      BY <1>t, <2>1, <2>2, <2>3, <3>2 DEF TaskInv
  <2>4. CASE /\ thread' = [t \in Threads |-> IF t = Job THEN [at |-> "join", obj |-> 0]
                                                        ELSE [at |-> "loop", obj |-> 0]]
             /\ next' = 1
    <3>1. \A w \in Workers : thread[w].at = "over" /\ task[w] = "none"
      BY <1>j, <1>t, <2>1 DEF ImportInv, CrewInv, TaskInv
    <3>2. [at |-> "join", obj |-> 0] \in ThreadType /\ [at |-> "loop", obj |-> 0] \in ThreadType
      BY DEF ThreadType
    <3>3. thread' \in [Threads -> ThreadType]
      BY <2>4, <3>2
    <3>4. \A t \in Threads : task'[t] = "none"
      BY <1>t, <2>1, <2>2, <3>1 DEF Threads
    <3> QED
      BY <2>2, <2>4, <3>3, <3>4 DEF TaskInv
  <2>5. CASE /\ o \in 1..(Count - 1) /\ next' = next
             /\ thread' = [thread EXCEPT ![Job] = [at |-> "start", obj |-> o + 1]]
    <3>1. [at |-> "start", obj |-> o + 1] \in ThreadType
      BY <2>5 DEF ThreadType, Busy
    <3> QED
      BY <1>j, <1>t, <2>1, <2>2, <2>5, <3>1 DEF TaskInv
  <2>6. CASE thread' = [thread EXCEPT ![Job] = Resting] /\ next' = next
    BY <1>j, <1>t, <2>1, <2>2, <2>6, RestingType DEF TaskInv
  <2> QED
    BY <1>13, <2>3, <2>4, <2>5, <2>6 DEF ToolReturned
<1>14. CASE JoinWorkers
  <2>1. 1 \in 0..Count
    OBVIOUS
  <2>2. [at |-> "failing", obj |-> 0] \in ThreadType /\ [at |-> "start", obj |-> 1] \in ThreadType
    BY <2>1 DEF ThreadType, Busy
  <2>3. /\ thread' \in [Threads -> ThreadType] /\ thread[Job].at = "join"
        /\ \A u \in Threads \ {Job} : thread'[u] = thread[u]
    BY <1>14, <1>j, <1>t, <2>2 DEF JoinWorkers
  <2> QED
    BY <1>14, <1>j, <1>t, <2>3 DEF JoinWorkers, TaskInv
<1>15. CASE JobFails
  BY <1>15, <1>j, <1>t, RestingType DEF JobFails, TaskInv
<1>16. CASE Cancel \/ CopyPids
  BY <1>16, <1>t DEF Cancel, CopyPids, TaskInv
<1>17. CASE Signal
  <2>1. /\ task' \in [Threads -> TaskType] /\ thread' = thread /\ next' = next
        /\ \A u \in Threads : task'[u] = task[u] \/ task[u] # "none"
    BY <1>17, <1>n, <1>t, <1>j DEF Signal, Killed
  <2> QED
    BY <1>t, <2>1 DEF TaskInv
<1>18. CASE Crash
  BY <1>18, <1>n, RestingType DEF Crash, TaskInv
<1>19. CASE (\E o \in Objects : OrphanWrites(o)) \/ UNCHANGED vars
  BY <1>19, <1>t DEF OrphanWrites, vars, TaskInv
<1> QED
  BY <1>j, <1>1, <1>2, <1>3, <1>4, <1>5, <1>6, <1>7, <1>8, <1>9, <1>10, <1>11, <1>12, <1>13, <1>14,
     <1>15, <1>16, <1>17, <1>18, <1>19 DEF Next, WorkerStep, JobStep, CancelStep

-----------------------------------------------------------------------------
\* The contents of the cache stay what contents may be.
LEMMA FileStep == ImportInv /\ [Next]_vars =>
    /\ partial' \in [Objects -> Contents] /\ cached' \in [Objects -> Contents]
    /\ orphan' \in [Objects -> OrphanType]
<1> DEFINE Goal ==
      /\ partial' \in [Objects -> Contents] /\ cached' \in [Objects -> Contents]
      /\ orphan' \in [Objects -> OrphanType]
<1> SUFFICES ASSUME ImportInv, [Next]_vars PROVE Goal
  OBVIOUS
<1>t. /\ partial \in [Objects -> Contents] /\ cached \in [Objects -> Contents]
      /\ orphan \in [Objects -> OrphanType]
  BY DEF ImportInv, Types
<1>c. Contents = {"none", "part", "whole", "bad"} /\ OrphanType = {"none", "partial", "cached"}
  BY DEF Contents, OrphanType
<1>1. CASE UNCHANGED files
  BY <1>1, <1>t DEF files
<1>2. ASSUME NEW o, NEW f \in {"partial", "cached"} PROVE Closed(o, f) \in [Objects -> OrphanType]
  BY <1>c, <1>t DEF Closed
<1>3. ASSUME NEW o, RemovePartial(o) PROVE Goal
  BY <1>3, <1>2, <1>c, <1>t DEF RemovePartial
<1>4. ASSUME NEW w \in Workers, CurlEnds(w) PROVE Goal
  BY <1>4, <1>c, <1>t DEF CurlEnds, CutShort, files
<1>5. ASSUME NEW w \in Workers, CheckCached(w) PROVE Goal
  BY <1>5, <1>2, <1>c, <1>t DEF CheckCached, files
<1>6. ASSUME NEW w \in Workers, Downloaded(w) PROVE Goal
  BY <1>6, <1>1, <1>3 DEF Downloaded
<1>7. ASSUME NEW w \in Workers, Verify(w) PROVE Goal
  BY <1>7, <1>1, <1>3 DEF Verify
<1>8. ASSUME NEW w \in Workers, Commit(w) PROVE Goal
  <2>1. CASE UNCHANGED files
    BY <2>1, <1>1
  <2>2. thread[w].at = "commit" => thread[w].obj \in Objects
    BY DEF ImportInv, ClaimInv, Busy
  <2> QED
    BY <1>8, <1>c, <1>t, <2>1, <2>2 DEF Commit, Goto
<1>9. CASE Crash
  BY <1>9, <1>c, <1>t DEF Crash
<1>10. ASSUME NEW o \in Objects, OrphanWrites(o) PROVE Goal
  BY <1>10, <1>c, <1>t DEF OrphanWrites, Rewritten
<1>11. ASSUME NEW w \in Workers,
              Claim(w) \/ Launch(w) \/ Register(w) \/ WorkerFails(w) PROVE Goal
  BY <1>11, <1>1 DEF Claim, Launch, Register, WorkerFails
<1>12. CASE JobStep
  BY <1>12, <1>1 DEF JobStep, Begin, Launch, Register, ToolReturned, JoinWorkers, JobFails
<1>13. CASE ToolEnds \/ CancelStep \/ StartImport \/ Cancel
  BY <1>13, <1>1 DEF ToolEnds, CancelStep, CopyPids, Signal, StartImport, Cancel
<1>14. CASE UNCHANGED vars
  BY <1>14, <1>1 DEF vars, files
<1> QED
  BY <1>4, <1>5, <1>6, <1>7, <1>8, <1>9, <1>10, <1>11, <1>12, <1>13, <1>14 DEF Next, WorkerStep

\* Removing the partial file of an object concerns no other.
LEMMA RemoveFacts ==
    ASSUME NEW o \in Objects, Types, RemovePartial(o)
    PROVE  \A p \in Objects \ {o} :
              cached'[p] = cached[p] /\ partial'[p] = partial[p] /\ orphan'[p] = orphan[p]
BY DEF RemovePartial, Closed, Types

\* No step loses an object: the cache, the workers and the counter account
\* for every one.
LEMMA DoneStep == ImportInv /\ [Next]_vars => CrewInv' /\ ClaimInv' /\ DoneInv'
<1> DEFINE Goal == CrewInv' /\ ClaimInv' /\ DoneInv'
<1> SUFFICES ASSUME ImportInv, [Next]_vars PROVE Goal
  OBVIOUS
<1>t. /\ Types /\ thread \in [Threads -> ThreadType] /\ next \in Nat
      /\ partial \in [Objects -> Contents] /\ cached \in [Objects -> Contents]
      /\ orphan \in [Objects -> OrphanType]
  BY DEF ImportInv, Types
<1>j. Job \in Threads /\ \A w \in Workers : w \in Threads /\ w # Job
  BY DEF Threads
<1>o. \A w \in Workers : thread[w].at \in Busy => thread[w].obj \in Objects
  BY DEF ImportInv, ClaimInv
<1>c. Busy = {"cached", "start", "register", "wait", "verify", "commit", "failing"}
  BY DEF Busy
<1>1. ASSUME NEW w \in Workers, Launch(w) PROVE Goal
  <2>1. /\ thread[w].at = "start" /\ thread'[w].at \in {"failing", "register"}
        /\ thread'[w].obj = thread[w].obj
        /\ \A u \in Threads \ {w} : thread'[u] = thread[u]
    BY <1>1, <1>j, <1>t, GotoTypes DEF Launch, Busy
  <2>2. UNCHANGED <<next, failed, partial, cached, orphan>>
    BY <1>1 DEF Launch, files
  <2> QED
    BY <1>c, <2>1, <2>2, WorkerDone
<1>2. ASSUME NEW w \in Workers, Register(w) PROVE Goal
  <2>1. /\ thread[w].at = "register" /\ thread'[w].at = "wait"
        /\ thread'[w].obj = thread[w].obj
        /\ \A u \in Threads \ {w} : thread'[u] = thread[u]
    BY <1>2, <1>j, <1>t, GotoTypes DEF Register, Busy
  <2>2. UNCHANGED <<next, failed, partial, cached, orphan>>
    BY <1>2 DEF Register, files
  <2> QED
    BY <1>c, <2>1, <2>2, WorkerDone
<1>3. ASSUME NEW w \in Workers, CheckCached(w) PROVE Goal
  <2>1. /\ thread[w].at = "cached"
        /\ thread'[w].at = IF cached[thread[w].obj] = "whole" THEN "loop" ELSE "start"
        /\ thread'[w].obj = thread[w].obj
        /\ \A u \in Threads \ {w} : thread'[u] = thread[u]
    BY <1>3, <1>j, <1>t, GotoTypes DEF CheckCached, Busy
  <2>2. next' = next /\ failed' = failed
    BY <1>3 DEF CheckCached
  <2>3. \A p \in Objects \ {thread[w].obj} :
           cached'[p] = cached[p] /\ partial'[p] = partial[p] /\ orphan'[p] = orphan[p]
    BY <1>3, <1>t DEF CheckCached, Closed, files
  <2>4. cached[thread[w].obj] = "whole" => Good(thread[w].obj)'
    BY <1>3, <2>1 DEF CheckCached, Good, files
  <2> QED
    BY <1>c, <2>1, <2>2, <2>3, <2>4, WorkerDone
<1>4. ASSUME NEW w \in Workers, Downloaded(w) PROVE Goal
  <2> DEFINE to == CASE task[w] = "ok" -> "verify" [] task[w] = "norange" -> "start"
                     [] task[w] = "error" -> "failing"
  <2>1. to \in {"verify", "start", "failing"}
    BY <1>4 DEF Downloaded, Returned, Ended
  <2>2. Goto(w, "wait", to)
    BY <1>4 DEF Downloaded, Returned, Goto
  <2>3. /\ thread[w].at = "wait" /\ thread'[w].at \in {"verify", "start", "failing"}
        /\ thread'[w].obj = thread[w].obj
        /\ \A u \in Threads \ {w} : thread'[u] = thread[u]
    <3> HIDE DEF to
    <3> QED
      BY <1>j, <1>t, <2>1, <2>2, GotoTypes DEF Busy
  <2>4. next' = next /\ failed' = failed
    BY <1>4 DEF Downloaded
  <2>5. \A p \in Objects \ {thread[w].obj} :
           cached'[p] = cached[p] /\ partial'[p] = partial[p] /\ orphan'[p] = orphan[p]
    BY <1>4, <1>c, <1>o, <1>t, <2>3, RemoveFacts DEF Downloaded, files
  <2> QED
    BY <1>c, <2>3, <2>4, <2>5, WorkerDone
<1>5. ASSUME NEW w \in Workers, Verify(w) PROVE Goal
  <2>1. /\ thread[w].at = "verify"
        /\ thread'[w].at = IF partial[thread[w].obj] = "whole" THEN "commit" ELSE "failing"
        /\ thread'[w].obj = thread[w].obj
        /\ \A u \in Threads \ {w} : thread'[u] = thread[u]
    BY <1>5, <1>j, <1>t, GotoTypes DEF Verify, Busy
  <2>2. next' = next /\ failed' = failed
    BY <1>5 DEF Verify
  <2>3. \A p \in Objects \ {thread[w].obj} :
           cached'[p] = cached[p] /\ partial'[p] = partial[p] /\ orphan'[p] = orphan[p]
    BY <1>5, <1>c, <1>o, <1>t, <2>1, RemoveFacts DEF Verify, files
  <2>4. thread'[w].at = "commit" => partial'[thread[w].obj] = "whole"
    BY <1>5, <2>1 DEF Verify, files
  <2> QED
    BY <1>c, <2>1, <2>2, <2>3, <2>4, WorkerDone
<1>6. ASSUME NEW w \in Workers, Commit(w) PROVE Goal
  <2>1. /\ thread[w].at = "commit" /\ thread'[w].at \in {"loop", "failing"}
        /\ thread'[w].obj = thread[w].obj
        /\ \A u \in Threads \ {w} : thread'[u] = thread[u]
    BY <1>6, <1>j, <1>t, GotoTypes DEF Commit, Busy
  <2>2. next' = next /\ failed' = failed
    BY <1>6 DEF Commit
  <2>3. \A p \in Objects \ {thread[w].obj} :
           cached'[p] = cached[p] /\ partial'[p] = partial[p] /\ orphan'[p] = orphan[p]
    BY <1>6, <1>t DEF Commit, files
  <2>4. thread[w].obj \in Objects
    BY <1>c, <1>o, <2>1
  <2>5. partial[thread[w].obj] = "whole" \/ orphan[thread[w].obj] = "partial"
    BY <2>1 DEF ImportInv, DoneInv
  <2>6. thread'[w].at = "loop" => Good(thread[w].obj)'
    <3>1. CASE Goto(w, "commit", "failing")
      BY <1>j, <1>t, <3>1, GotoTypes DEF Busy
    <3> QED
      BY <1>6, <1>t, <2>1, <2>4, <2>5, <3>1 DEF Commit, Good
  <2> QED
    BY <1>c, <2>1, <2>2, <2>3, <2>6, WorkerDone
<1>7. ASSUME NEW w \in Workers, Claim(w) PROVE Goal
  <2>0. thread[w].at = "loop" /\ UNCHANGED <<failed, partial, cached, orphan>>
    BY <1>7 DEF Claim, files
  <2>1. /\ \A u \in Threads \ {w} : thread'[u] = thread[u]
        /\ \/ failed /\ next' = next /\ thread'[w] = Resting
           \/ ~failed /\ next' = next + 1 /\ next > Count /\ thread'[w] = Resting
           \/ ~failed /\ next' = next + 1 /\ next <= Count
              /\ thread'[w] = [at |-> "cached", obj |-> next]
    BY <1>7, <1>j, <1>t DEF Claim
  <2>2. thread'[Job] = thread[Job] /\ thread[Job].at = "join" /\ thread[Job].obj = 0
    BY <1>j, <2>0, <2>1 DEF ImportInv, CrewInv
  <2>3. \A v \in Workers \ {w} : thread'[v] = thread[v]
    BY <1>j, <2>1
  <2>4. CrewInv' /\ NoObjectMissed'
    BY <2>2 DEF CrewInv, NoObjectMissed
  <2>5. thread'[w].at # "commit"
    BY <2>1, RestingType
  <2>6. \A v \in Workers : LET o == thread'[v].obj IN
           thread'[v].at = "commit" => partial'[o] = "whole" \/ orphan'[o] = "partial"
    BY <2>0, <2>3, <2>5 DEF ImportInv, DoneInv
  <2>7. CASE thread'[w] = Resting
    <3>1. ClaimInv'
      <4>1. next' \in {next, next + 1} /\ thread'[w].at \notin Busy
        BY <1>c, <2>1, <2>7, RestingType
      <4>2. \A v \in Workers \ {w} : thread'[v].at \in Busy =>
               thread'[v].obj \in Objects /\ thread'[v].obj < next
        BY <2>3 DEF ImportInv, ClaimInv
      <4>3. \A v \in Workers : thread'[v].at \in Busy =>
               thread'[v].obj \in Objects /\ thread'[v].obj < next'
        BY <1>t, <4>1, <4>2 DEF Objects
      <4>4. \A u, v \in Workers : thread'[u].at \in Busy /\ thread'[v].at \in Busy
                                  /\ thread'[u].obj = thread'[v].obj => u = v
        BY <2>3, <4>1 DEF ImportInv, ClaimInv
      <4> QED
        BY <4>3, <4>4 DEF ClaimInv
    <3>2. ASSUME ~failed' PROVE next > Count /\ next' = next + 1
      BY <2>0, <2>1, <2>7, <3>2, RestingType
    <3>3. ASSUME ~failed', NEW o \in Objects PROVE Good(o)' \/ \E v \in Workers : Has(v, o)'
      <4>1. o < next
        BY <1>t, <3>2, <3>3 DEF Objects
      <4>2. Good(o) \/ \E v \in Workers : Has(v, o)
        BY <2>0, <2>2, <3>3, <4>1 DEF ImportInv, DoneInv
      <4>3. ~Has(w, o) /\ \A v \in Workers \ {w} : Has(v, o) => Has(v, o)'
        BY <1>c, <2>0, <2>3 DEF Has
      <4> QED
        BY <2>0, <4>2, <4>3 DEF Good
    <3> QED
      BY <1>t, <2>4, <2>6, <3>1, <3>2, <3>3 DEF DoneInv
  <2>8. CASE ~failed /\ next' = next + 1 /\ thread'[w] = [at |-> "cached", obj |-> next]
    <3>0. next <= Count
      BY <2>1, <2>8, RestingType
    <3>1. /\ thread'[w].at = "cached" /\ thread'[w].obj = next
      BY <2>8
    <3>a. next \in Objects
      <4>1. next # 0
        BY DEF ImportInv, Types
      <4> QED
        BY <1>t, <3>0, <4>1 DEF Objects
    <3>2. ClaimInv'
      <4>1. \A v \in Workers \ {w} : thread'[v].at \in Busy =>
               thread'[v].obj \in Objects /\ thread'[v].obj < next
        BY <2>3 DEF ImportInv, ClaimInv
      <4>2. \A v \in Workers : thread'[v].at \in Busy =>
               thread'[v].obj \in Objects /\ thread'[v].obj < next'
        BY <1>t, <2>8, <3>1, <3>a, <4>1 DEF Objects
      <4>3. \A u, v \in Workers : thread'[u].at \in Busy /\ thread'[v].at \in Busy
                                  /\ thread'[u].obj = thread'[v].obj => u = v
        BY <1>t, <2>3, <3>1, <4>1 DEF ImportInv, ClaimInv, Objects
      <4> QED
        BY <4>2, <4>3 DEF ClaimInv
    <3>3. ASSUME NEW o \in Objects, o < next' PROVE Good(o)' \/ \E v \in Workers : Has(v, o)'
      <4>1. CASE o = next
        BY <1>c, <3>1, <4>1 DEF Has
      <4>2. CASE o < next
        <5>1. Good(o) \/ \E v \in Workers : Has(v, o)
          BY <2>2, <2>8, <4>2 DEF ImportInv, DoneInv
        <5>2. ~Has(w, o) /\ \A v \in Workers \ {w} : Has(v, o) => Has(v, o)'
          BY <1>c, <2>0, <2>3 DEF Has
        <5> QED
          BY <2>0, <5>1, <5>2 DEF Good
      <4> QED
        BY <1>t, <2>8, <3>3, <4>1, <4>2 DEF Objects
    <3>4. \A v \in Workers : thread'[v].at = "over" => next' > Count
      <4>1. ASSUME NEW v \in Workers, thread'[v].at = "over" PROVE next > Count
        <5>1. v # w /\ thread[v].at = "over"
          BY <2>3, <3>1, <4>1
        <5> QED
          BY <2>2, <2>8, <5>1 DEF ImportInv, DoneInv
      <4> QED
        BY <1>t, <2>8, <4>1
    <3> QED
      BY <2>4, <2>6, <3>2, <3>3, <3>4 DEF DoneInv
  <2> QED
    BY <2>1, <2>7, <2>8
<1>8. ASSUME NEW w \in Workers, WorkerFails(w) PROVE Goal
  <2>1. /\ thread[w].at = "failing" /\ thread'[w] = Resting /\ failed' = TRUE
        /\ \A u \in Threads \ {w} : thread'[u] = thread[u]
        /\ UNCHANGED <<next, partial, cached, orphan>>
    BY <1>8, <1>j, <1>t DEF WorkerFails, files
  <2>2. thread'[Job] = thread[Job] /\ thread[Job].at = "join" /\ thread[Job].obj = 0
    BY <1>j, <2>1 DEF ImportInv, CrewInv
  <2>3. \A v \in Workers \ {w} : thread'[v] = thread[v]
    BY <1>j, <2>1
  <2>4. ClaimInv'
    BY <1>c, <2>1, <2>3, RestingType DEF ImportInv, ClaimInv
  <2>5. CrewInv' /\ NoObjectMissed'
    BY <2>2 DEF CrewInv, NoObjectMissed
  <2> QED
    BY <2>1, <2>3, <2>4, <2>5, RestingType DEF ImportInv, DoneInv
<1>9. CASE StartImport
  <2>1. /\ thread[Job].at = "over" /\ thread'[Job] = [at |-> "queued", obj |-> 0]
        /\ \A w \in Workers : thread'[w] = thread[w]
        /\ cached' = cached /\ orphan' = orphan
    BY <1>9, <1>j, <1>t, RestingType DEF StartImport, files
  <2> QED
    BY <2>1, JobDone
<1>10. CASE Begin
  <2>1. /\ thread[Job].at = "queued" /\ thread'[Job].at = "start"
        /\ thread'[Job].obj = thread[Job].obj
        /\ \A w \in Threads \ {Job} : thread'[w] = thread[w]
    BY <1>10, <1>j, <1>t, GotoTypes DEF Begin, Busy
  <2>2. cached' = cached /\ orphan' = orphan
    BY <1>10 DEF Begin, files
  <2> QED
    BY <1>j, <2>1, <2>2, JobDone
<1>11. CASE Launch(Job)
  <2>1. /\ thread[Job].at = "start" /\ thread'[Job].at \in {"failing", "register"}
        /\ thread'[Job].obj = thread[Job].obj
        /\ \A w \in Threads \ {Job} : thread'[w] = thread[w]
    BY <1>11, <1>j, <1>t, GotoTypes DEF Launch, Busy
  <2>2. cached' = cached /\ orphan' = orphan
    BY <1>11 DEF Launch, files
  <2> QED
    BY <1>j, <2>1, <2>2, JobDone
<1>12. CASE Register(Job)
  <2>1. /\ thread[Job].at = "register" /\ thread'[Job].at = "wait"
        /\ thread'[Job].obj = thread[Job].obj
        /\ \A w \in Threads \ {Job} : thread'[w] = thread[w]
    BY <1>12, <1>j, <1>t, GotoTypes DEF Register, Busy
  <2>2. cached' = cached /\ orphan' = orphan
    BY <1>12 DEF Register, files
  <2> QED
    BY <1>j, <2>1, <2>2, JobDone
<1>13. CASE ToolReturned
  <2> DEFINE o == thread[Job].obj
  <2>1. thread[Job].at = "wait" /\ UNCHANGED <<partial, cached, orphan>>
    BY <1>13 DEF ToolReturned, Returned, files
  <2>2. CASE thread' = [thread EXCEPT ![Job].at = "failing"]
    <3>1. Goto(Job, "wait", "failing")
      BY <2>1, <2>2 DEF Goto
    <3>2. /\ thread'[Job].at = "failing" /\ thread'[Job].obj = o
          /\ \A u \in Threads \ {Job} : thread'[u] = thread[u]
      BY <1>j, <1>t, <3>1, GotoTypes DEF Busy
    <3> QED
      BY <1>j, <2>1, <3>2, JobDone
  <2>3. CASE /\ thread' = [t \in Threads |-> IF t = Job THEN [at |-> "join", obj |-> 0]
                                                        ELSE [at |-> "loop", obj |-> 0]]
             /\ next' = 1
    <3>1. /\ thread'[Job].at = "join" /\ thread'[Job].obj = 0
          /\ \A w \in Workers : thread'[w].at = "loop"
      BY <1>j, <2>3
    <3>2. CrewInv' /\ ClaimInv' /\ NoObjectMissed'
      BY <1>c, <3>1 DEF CrewInv, ClaimInv, NoObjectMissed
    <3>3. \A p \in Objects : ~(p < next')
      BY <2>3 DEF Objects
    <3> QED
      BY <3>1, <3>2, <3>3 DEF DoneInv
  <2>4. CASE /\ o \in 1..(Count - 1)
             /\ thread' = [thread EXCEPT ![Job] = [at |-> "start", obj |-> o + 1]]
    <3>1. /\ thread'[Job].at = "start" /\ o > 0
          /\ \A w \in Workers : thread'[w] = thread[w]
      BY <1>j, <1>t, <2>4
    <3> QED
      BY <2>1, <3>1, JobDone
  <2>5. CASE thread' = [thread EXCEPT ![Job] = Resting]
    <3>1. /\ thread'[Job] = Resting
          /\ \A w \in Workers : thread'[w] = thread[w]
      BY <1>j, <1>t, <2>5
    <3> QED
      BY <2>1, <3>1, RestingType, JobDone
  <2> QED
    BY <1>13, <2>2, <2>3, <2>4, <2>5 DEF ToolReturned
<1>14. CASE JoinWorkers
  <2>1. /\ thread[Job].at = "join" /\ \A w \in Workers : thread[w].at = "over"
        /\ \A w \in Workers : thread'[w] = thread[w]
        /\ thread'[Job] = IF failed THEN [at |-> "failing", obj |-> 0]
                                    ELSE [at |-> "start", obj |-> 1]
        /\ UNCHANGED <<partial, cached, orphan>>
    BY <1>14, <1>j, <1>t DEF JoinWorkers, files
  <2>2. thread'[Job].at # "join" /\ (thread'[Job].obj > 0 => ~failed)
    BY <2>1
  <2>3. ASSUME ~failed, NEW o \in Objects PROVE Good(o)
    <3>1. PICK w \in Workers : TRUE
      OBVIOUS
    <3>2. next > Count
      BY <2>1, <2>3, <3>1 DEF ImportInv, DoneInv
    <3>3. o < next
      BY <1>t, <3>2 DEF Objects
    <3>4. \A v \in Workers : ~Has(v, o)
      BY <1>c, <2>1 DEF Has
    <3> QED
      BY <2>1, <2>3, <3>3, <3>4 DEF ImportInv, DoneInv
  <2>4. NoObjectMissed'
    BY <2>1, <2>2, <2>3 DEF NoObjectMissed, Good
  <2>5. CrewInv' /\ ClaimInv'
    BY <1>c, <2>1, <2>2 DEF CrewInv, ClaimInv
  <2> QED
    BY <2>1, <2>2, <2>4, <2>5 DEF DoneInv
<1>15. CASE JobFails
  <2>1. /\ thread[Job].at = "failing" /\ thread'[Job] = Resting
        /\ \A w \in Workers : thread'[w] = thread[w]
        /\ cached' = cached /\ orphan' = orphan
    BY <1>15, <1>j, <1>t DEF JobFails, files
  <2> QED
    BY <2>1, RestingType, JobDone
<1>16. CASE ToolEnds \/ Cancel \/ CancelStep \/ UNCHANGED vars
  <2>1. UNCHANGED <<thread, next, failed, partial, cached, orphan>>
    BY <1>16 DEF ToolEnds, Cancel, CancelStep, CopyPids, Signal, vars, files
  <2> QED
    BY <2>1, OthersDone DEF Good
<1>17. ASSUME NEW w \in Workers, CurlEnds(w) PROVE Goal
  <2>1. UNCHANGED <<thread, next, failed, cached, orphan>>
    BY <1>17 DEF CurlEnds, CutShort, files
  <2>2. \A p \in Objects \ {thread[w].obj} : partial'[p] = partial[p]
    BY <1>17, <1>t DEF CurlEnds, CutShort, files
  <2>3. thread[w].at \in {"register", "wait"}
    BY <1>17, <1>j DEF CurlEnds, Running, ImportInv, TaskInv
  <2>4. ASSUME NEW v \in Workers, thread[v].at = "commit"
        PROVE  partial'[thread[v].obj] = partial[thread[v].obj]
    <3>1. thread[v].obj # thread[w].obj /\ thread[v].obj \in Objects
      BY <1>c, <2>3, <2>4 DEF ImportInv, ClaimInv
    <3> QED
      BY <2>2, <3>1
  <2> QED
    BY <2>1, <2>4, OthersDone DEF Good
<1>18. ASSUME NEW o \in Objects, OrphanWrites(o) PROVE Goal
  <2>1. UNCHANGED <<thread, next, failed, orphan>>
    BY <1>18 DEF OrphanWrites
  <2>2. \A p \in Objects : Good(p) => Good(p)'
    BY <1>18, <1>t DEF OrphanWrites, Good
  <2>3. \A p \in Objects : partial'[p] = partial[p] \/ orphan[p] = "partial"
    BY <1>18, <1>t DEF OrphanWrites
  <2>4. \A v \in Workers : thread[v].at = "commit" => thread[v].obj \in Objects
    BY <1>c, <1>o
  <2> QED
    BY <2>1, <2>2, <2>3, <2>4, OthersDone
<1>19. CASE Crash
  <2>1. \A t \in Threads : thread'[t].at = "over" /\ thread'[t].obj = 0
    BY <1>19, RestingType DEF Crash
  <2>2. CrewInv' /\ ClaimInv' /\ NoObjectMissed'
    BY <1>c, <1>j, <2>1 DEF CrewInv, ClaimInv, NoObjectMissed
  <2> QED
    BY <1>j, <2>1, <2>2 DEF DoneInv
<1> QED
  BY <1>1, <1>2, <1>3, <1>4, <1>5, <1>6, <1>7, <1>8, <1>9, <1>10, <1>11, <1>12, <1>13, <1>14,
     <1>15, <1>16, <1>17, <1>18, <1>19 DEF Next, WorkerStep, JobStep

\* Before the first import no thread runs.
LEMMA InitImportInv == Init => ImportInv
<1> SUFFICES ASSUME Init PROVE ImportInv
  OBVIOUS
<1>1. Types /\ TaskInv
  BY RestingType DEF Init, Types, TaskInv, TaskType, OrphanType, Contents
<1>2. \A t \in Threads : thread[t].at = "over" /\ thread[t].obj = 0
  BY RestingType DEF Init
<1>3. CrewInv /\ ClaimInv /\ DoneInv
  BY <1>2 DEF CrewInv, ClaimInv, DoneInv, NoObjectMissed, Busy, Threads
<1> QED
  BY <1>1, <1>3 DEF ImportInv

\* The invariant the two theorems below rest on: the counter, the workers and
\* the cache account for every object, through every interleaving with
\* failures, a cancel, deaths of the app and the curls those leave behind.
THEOREM ImportInvariance == Spec => []ImportInv
<1>1. ImportInv /\ [Next]_vars => ImportInv'
  BY TaskStep, FileStep, DoneStep DEF ImportInv, Types
<1> QED
  BY <1>1, InitImportInv, PTL DEF Spec

\* Two downloads of a run never write to the same file, for any number of
\* workers and objects: materialize_objects hands out each object once.
THEOREM FilesUnshared == Spec => []OneWriterPerFile
<1>1. ImportInv => OneWriterPerFile
  BY DEF ImportInv, TaskInv, ClaimInv, OneWriterPerFile, Busy, Running, Threads
<1> QED
  BY <1>1, ImportInvariance, PTL

\* When the job extracts, every object of the manifest has been verified in
\* the cache, or a curl that a dead app left behind wrote to it since.
THEOREM ObjectsComplete == Spec => []NoObjectMissed
<1>1. ImportInv => NoObjectMissed
  BY DEF ImportInv, DoneInv
<1> QED
  BY <1>1, ImportInvariance, PTL
=============================================================================
