--------------------------- MODULE ImageImporter ---------------------------
(***************************************************************************)
(* How an image is fetched and reconstructed (image_importer.mm): worker   *)
(* threads share out the objects of the manifest and download them into    *)
(* the object cache, then the job's own thread extracts them one by one.   *)
(* Both do their work in child processes (curl, ditto, unzip) through      *)
(* run_task, which the user's cancel, on the main thread, races.           *)
(*                                                                         *)
(* An object has two files in the cache: "<sha>.zip.partial", which curl   *)
(* writes and may resume, and "<sha>.zip", which it becomes once verified. *)
(* The contents are absent, a part (a prefix of the object), whole, or bad *)
(* (not a prefix).  A curl of a process that died goes on writing to the   *)
(* file it has open, until that file is removed.  Object 1 is the base     *)
(* archive; each further object is a file in one chunk.  A curl that is    *)
(* told nothing may stall for ever.  Objects on a local disk, which are    *)
(* verified in place, and the progress reports are left out.               *)
(***************************************************************************)
EXTENDS Naturals, FiniteSets

CONSTANTS
    Workers,     \* download threads (kDownloadWorkers)
    Job,         \* the thread of the import job
    Count,       \* objects of the manifest are 1..Count
    MaxFaults,   \* bound: failing tasks and renames, wrong bytes
    MaxCancels,  \* bound: cancels
    MaxCrashes   \* bound: deaths of the app

ASSUME ImporterAssumptions ==
    /\ Job \notin Workers /\ IsFiniteSet(Workers) /\ Workers # {}
    /\ Count \in Nat \ {0}
    /\ MaxFaults \in Nat /\ MaxCancels \in Nat /\ MaxCrashes \in Nat

VARIABLES
    thread,     \* [Threads -> [at, obj]]: where each thread is
    task,       \* [Threads -> state of the child process it runs]
    resume,     \* [Threads -> BOOLEAN]: curl runs with --continue-at
    pids,       \* gTaskPids: the threads whose task is registered
    next,       \* the workers' counter
    failed,     \* the workers' flag
    partial,    \* [Objects -> contents]
    cached,     \* [Objects -> contents]
    orphan,     \* [Objects -> the file a curl of a dead process has open]
    cancelled,  \* gImportCancelled
    victims,    \* pids the cancel has yet to signal
    canceller,  \* macmu_cancel_system_image_import: "idle", "lock", "kill"
    imported,   \* an import has succeeded
    faults, cancels, crashes

vars == <<thread, task, resume, pids, next, failed, partial, cached, orphan, cancelled, victims,
          canceller, imported, faults, cancels, crashes>>
files == <<partial, cached, orphan>>
cancelling == <<cancelled, victims, canceller>>
bounds == <<faults, cancels, crashes>>

Objects == 1..Count
Threads == Workers \cup {Job}
Contents == {"none", "part", "whole", "bad"}
Running == {"up", "killed"}
Ended == {"ok", "error", "norange"}

Resting == [at |-> "over", obj |-> 0]

TypeOK ==
    /\ thread \in [Threads -> [at : {"queued", "loop", "join", "cached", "start", "register",
                                     "wait", "verify", "commit", "failing", "over"},
                               obj : 0..Count]]
    /\ task \in [Threads -> {"none"} \cup Running \cup Ended]
    /\ resume \in [Threads -> BOOLEAN]
    /\ pids \subseteq Threads /\ victims \subseteq Threads
    /\ next \in 1..(Count + Cardinality(Workers) + 1)
    /\ failed \in BOOLEAN /\ imported \in BOOLEAN /\ cancelled \in BOOLEAN
    /\ partial \in [Objects -> Contents] /\ cached \in [Objects -> Contents]
    /\ orphan \in [Objects -> {"none", "partial", "cached"}]
    /\ canceller \in {"idle", "lock", "kill"}
    /\ faults \in 0..MaxFaults /\ cancels \in 0..MaxCancels /\ crashes \in 0..MaxCrashes

Init ==
    /\ thread = [t \in Threads |-> Resting] /\ task = [t \in Threads |-> "none"]
    /\ resume = [t \in Threads |-> FALSE] /\ pids = {} /\ victims = {}
    /\ next = 1 /\ failed = FALSE /\ imported = FALSE /\ cancelled = FALSE
    /\ partial = [o \in Objects |-> "none"] /\ cached = [o \in Objects |-> "none"]
    /\ orphan = [o \in Objects |-> "none"] /\ canceller = "idle"
    /\ faults = 0 /\ cancels = 0 /\ crashes = 0

-----------------------------------------------------------------------------
Goto(t, from, to) ==
    /\ thread[t].at = from
    /\ thread' = [thread EXCEPT ![t].at = to]
NoFault == UNCHANGED bounds
Fault == faults < MaxFaults /\ faults' = faults + 1 /\ UNCHANGED <<cancels, crashes>>

\* fs::remove: a curl that has the file open goes on writing to nothing.
Closed(o, file) == [orphan EXCEPT ![o] = IF @ = file THEN "none" ELSE @]
RemovePartial(o) ==
    /\ partial' = [partial EXCEPT ![o] = "none"] /\ orphan' = Closed(o, "partial")
    /\ UNCHANGED cached

-----------------------------------------------------------------------------
(* run_task, for any thread. *)

\* A cancelled import launches nothing; a launch may fail.
Launch(t) ==
    /\ \/ cancelled /\ Goto(t, "start", "failing") /\ NoFault /\ UNCHANGED <<task, resume>>
       \/ ~cancelled /\ Goto(t, "start", "failing") /\ Fault /\ UNCHANGED <<task, resume>>
       \/ /\ ~cancelled /\ Goto(t, "start", "register") /\ NoFault
          /\ task' = [task EXCEPT ![t] = "up"]
          /\ resume' = [resume EXCEPT ![t] = t # Job /\ partial[thread[t].obj] # "none"]
    /\ UNCHANGED <<pids, next, failed, files, cancelling, imported>>

Killed(t) == [task EXCEPT ![t] = IF @ = "up" THEN "killed" ELSE @]

\* Mutant: the flag is not looked at again under the lock.
RegisterBlindly(t) ==
    /\ Goto(t, "register", "wait")
    /\ pids' = pids \cup {t}
    /\ UNCHANGED <<task, resume, next, failed, files, cancelling, imported, bounds>>

\* Under gTaskPidsMutex: a cancel that came during the launch kills the task
\* here, a later one finds it in gTaskPids.
Register(t) ==
    /\ Goto(t, "register", "wait")
    /\ IF cancelled THEN task' = Killed(t) /\ UNCHANGED pids
                    ELSE pids' = pids \cup {t} /\ UNCHANGED task
    /\ UNCHANGED <<resume, next, failed, files, cancelling, imported, bounds>>

\* What curl leaves when it is killed or gives up.
CutShort(w) ==
    LET o == thread[w].obj IN
    /\ partial' \in {partial, [partial EXCEPT ![o] = IF @ = "none" THEN "part" ELSE @]}
    /\ UNCHANGED <<cached, orphan>>

\* curl ends with the object, with wrong bytes, with an error, or, when it
\* was to resume, with the complaint that the server cannot (status 33).  A
\* file that is already complete is left alone.
CurlEnds(w) ==
    LET o == thread[w].obj IN
    /\ w \in Workers /\ task[w] \in Running
    /\ \/ /\ task[w] = "up" /\ task' = [task EXCEPT ![w] = "ok"]
          /\ \/ partial' = [partial EXCEPT ![o] = IF @ = "bad" THEN @ ELSE "whole"] /\ NoFault
             \/ partial' = [partial EXCEPT ![o] = "bad"] /\ Fault
          /\ UNCHANGED <<cached, orphan>>
       \/ /\ task' = [task EXCEPT ![w] = "error"] /\ CutShort(w)
          /\ (task[w] = "killed" /\ NoFault) \/ Fault
       \/ /\ task[w] = "up" /\ resume[w] /\ task' = [task EXCEPT ![w] = "norange"] /\ Fault
          /\ UNCHANGED files
    /\ UNCHANGED <<thread, resume, pids, next, failed, cancelling, imported>>

\* The job's own tasks: curl for the manifest, ditto for the base archive,
\* unzip for a chunk.  The file made of a chunk is verified, so a bad object
\* shows there; the base archive may unpack although it is bad.
Spoilt(o) == o > 0 /\ cached[o] # "whole"
ToolEnds ==
    LET o == thread[Job].obj IN
    /\ task[Job] \in Running
    /\ \/ /\ task[Job] = "up" /\ NoFault /\ task' = [task EXCEPT ![Job] = "ok"]
          /\ o > 1 => ~Spoilt(o)
       \/ /\ task' = [task EXCEPT ![Job] = "error"]
          /\ IF task[Job] = "killed" \/ Spoilt(o) THEN NoFault ELSE Fault
    /\ UNCHANGED <<thread, resume, pids, next, failed, files, cancelling, imported>>

\* waitUntilExit has returned and the pid is erased.
Returned(t) ==
    /\ thread[t].at = "wait" /\ task[t] \in Ended
    /\ pids' = pids \ {t} /\ task' = [task EXCEPT ![t] = "none"]
    /\ UNCHANGED <<resume, cancelling, bounds>>

-----------------------------------------------------------------------------
(* The download workers: materialize_objects, materialize_object. *)

\* Mutant: the counter is read and written back in two steps.
ClaimRacy(w) ==
    /\ thread[w].at = "loop"
    /\ \/ /\ failed \/ next > Count
          /\ thread' = [thread EXCEPT ![w] = Resting] /\ UNCHANGED next
       \/ /\ ~failed /\ next <= Count
          /\ thread' = [thread EXCEPT ![w] = [at |-> "cached", obj |-> next]]
          /\ next' \in {next, next + 1}
    /\ UNCHANGED <<task, resume, pids, failed, files, cancelling, imported, bounds>>

\* next.fetch_add hands out the objects; a failure elsewhere ends the loop.
Claim(w) ==
    /\ thread[w].at = "loop"
    /\ \/ failed /\ thread' = [thread EXCEPT ![w] = Resting] /\ UNCHANGED next
       \/ /\ ~failed /\ next' = next + 1
          /\ thread' = [thread EXCEPT ![w] = IF next > Count THEN Resting
                                             ELSE [at |-> "cached", obj |-> next]]
    /\ UNCHANGED <<task, resume, pids, failed, files, cancelling, imported, bounds>>

\* A cached object is verified again; one that fails is removed.
CheckCached(w) ==
    LET o == thread[w].obj IN
    /\ Goto(w, "cached", IF cached[o] = "whole" THEN "loop" ELSE "start")
    /\ IF cached[o] = "whole" THEN UNCHANGED files
       ELSE cached' = [cached EXCEPT ![o] = "none"] /\ orphan' = Closed(o, "cached")
            /\ UNCHANGED partial
    /\ UNCHANGED <<task, resume, pids, next, failed, cancelling, imported, bounds>>

\* Status 33 of a resumed download: once more, from the beginning.
Downloaded(w) ==
    /\ Returned(w)
    /\ thread' = [thread EXCEPT ![w].at = CASE task[w] = "ok" -> "verify"
                                            [] task[w] = "norange" -> "start"
                                            [] task[w] = "error" -> "failing"]
    /\ IF task[w] = "norange" THEN RemovePartial(thread[w].obj) ELSE UNCHANGED files
    /\ UNCHANGED <<next, failed, imported>>

\* Mutant: a download that fails its verification is kept, to be resumed.
VerifyKeeps(w) ==
    /\ Goto(w, "verify", IF partial[thread[w].obj] = "whole" THEN "commit" ELSE "failing")
    /\ UNCHANGED <<task, resume, pids, next, failed, files, cancelling, imported, bounds>>

Verify(w) ==
    LET o == thread[w].obj IN
    /\ Goto(w, "verify", IF partial[o] = "whole" THEN "commit" ELSE "failing")
    /\ IF partial[o] = "whole" THEN UNCHANGED files ELSE RemovePartial(o)
    /\ UNCHANGED <<task, resume, pids, next, failed, cancelling, imported, bounds>>

\* rename(partial, cached); a curl of a dead process keeps the file open.
Commit(w) ==
    LET o == thread[w].obj IN
    /\ \/ /\ Goto(w, "commit", "loop") /\ NoFault
          /\ cached' = [cached EXCEPT ![o] = partial[o]]
          /\ partial' = [partial EXCEPT ![o] = "none"]
          /\ orphan' = [orphan EXCEPT ![o] = IF @ = "partial" THEN "cached" ELSE "none"]
       \/ Goto(w, "commit", "failing") /\ Fault /\ UNCHANGED files
    /\ UNCHANGED <<task, resume, pids, next, failed, cancelling, imported>>

\* Mutant: the failure is not recorded.
WorkerFailsSilently(w) ==
    /\ thread[w].at = "failing"
    /\ thread' = [thread EXCEPT ![w] = Resting]
    /\ UNCHANGED <<task, resume, pids, next, failed, files, cancelling, imported, bounds>>

WorkerFails(w) ==
    /\ thread[w].at = "failing" /\ failed' = TRUE
    /\ thread' = [thread EXCEPT ![w] = Resting]
    /\ UNCHANGED <<task, resume, pids, next, files, cancelling, imported, bounds>>

-----------------------------------------------------------------------------
(* The job: macmu_extract_system_image_source. *)

\* The user starts an import; its job waits in the queue.
StartImport ==
    /\ thread[Job] = Resting /\ canceller = "idle" /\ ~imported
    /\ thread' = [thread EXCEPT ![Job] = [at |-> "queued", obj |-> 0]]
    /\ UNCHANGED <<task, resume, pids, next, failed, files, cancelling, imported, bounds>>

\* The first line clears the cancel flag; then the manifest is downloaded.
Begin ==
    /\ Goto(Job, "queued", "start")
    /\ cancelled' = FALSE
    /\ UNCHANGED <<task, resume, pids, next, failed, files, victims, canceller, imported, bounds>>

\* The manifest is there: the workers start, and the job joins them.
\* A tool has unpacked object obj: the next one, or the end.
ToolReturned ==
    LET o == thread[Job].obj IN
    /\ Returned(Job)
    /\ \/ /\ task[Job] # "ok" /\ thread' = [thread EXCEPT ![Job].at = "failing"]
          /\ UNCHANGED <<next, failed, imported>>
       \/ /\ task[Job] = "ok" /\ o = 0
          /\ thread' = [t \in Threads |-> IF t = Job THEN [at |-> "join", obj |-> 0]
                                                     ELSE [at |-> "loop", obj |-> 0]]
          /\ next' = 1 /\ failed' = FALSE /\ UNCHANGED imported
       \/ /\ task[Job] = "ok" /\ o \in 1..(Count - 1)
          /\ thread' = [thread EXCEPT ![Job] = [at |-> "start", obj |-> o + 1]]
          /\ UNCHANGED <<next, failed, imported>>
       \/ /\ task[Job] = "ok" /\ o = Count
          /\ thread' = [thread EXCEPT ![Job] = Resting]
          /\ imported' = TRUE /\ UNCHANGED <<next, failed>>
    /\ UNCHANGED files

JoinWorkers ==
    /\ thread[Job].at = "join" /\ \A w \in Workers : thread[w].at = "over"
    /\ thread' = [thread EXCEPT ![Job] = IF failed THEN [at |-> "failing", obj |-> 0]
                                                   ELSE [at |-> "start", obj |-> 1]]
    /\ UNCHANGED <<task, resume, pids, next, failed, files, cancelling, imported, bounds>>

JobFails ==
    /\ thread[Job].at = "failing"
    /\ thread' = [thread EXCEPT ![Job] = Resting]
    /\ UNCHANGED <<task, resume, pids, next, failed, files, cancelling, imported, bounds>>

-----------------------------------------------------------------------------
(* macmu_cancel_system_image_import, on the main thread. *)

Cancel ==
    /\ canceller = "idle" /\ thread[Job].at # "over" /\ cancels < MaxCancels
    /\ cancelled' = TRUE /\ canceller' = "lock" /\ cancels' = cancels + 1
    /\ UNCHANGED <<thread, task, resume, pids, next, failed, files, victims, imported, faults,
                   crashes>>

\* The registered pids are copied under the lock ...
CopyPids ==
    /\ canceller = "lock"
    /\ canceller' = "kill" /\ victims' = pids
    /\ UNCHANGED <<thread, task, resume, pids, next, failed, files, cancelled, imported, bounds>>

\* ... and signalled without it.
Signal ==
    /\ canceller = "kill"
    /\ \/ \E t \in victims : victims' = victims \ {t} /\ task' = Killed(t) /\ UNCHANGED canceller
       \/ victims = {} /\ canceller' = "idle" /\ UNCHANGED <<task, victims>>
    /\ UNCHANGED <<thread, resume, pids, next, failed, files, cancelled, imported, bounds>>

-----------------------------------------------------------------------------
(* The app dies, or quits without waiting for the import. *)

Crash ==
    /\ crashes < MaxCrashes /\ crashes' = crashes + 1
    /\ orphan' = [o \in Objects |->
                    IF \E w \in Workers : task[w] = "up" /\ thread[w].obj = o
                    THEN "partial" ELSE orphan[o]]
    /\ thread' = [t \in Threads |-> Resting] /\ task' = [t \in Threads |-> "none"]
    /\ pids' = {} /\ victims' = {} /\ canceller' = "idle" /\ cancelled' = FALSE
    /\ next' = 1 /\ failed' = FALSE
    /\ UNCHANGED <<resume, partial, cached, imported, faults, cancels>>

\* A curl of a dead process writes on.  Alone it may complete the object;
\* what a successor has added meanwhile, and a whole object, it spoils.
Rewritten(c) == IF c \in {"none", "part"} THEN {"part", "whole", "bad"} ELSE {"bad"}
OrphanWrites(o) ==
    /\ \/ /\ orphan[o] = "partial" /\ UNCHANGED cached
          /\ \E c \in Rewritten(partial[o]) : partial' = [partial EXCEPT ![o] = c]
       \/ /\ orphan[o] = "cached" /\ UNCHANGED partial
          /\ \E c \in Rewritten(cached[o]) : cached' = [cached EXCEPT ![o] = c]
    /\ Fault
    /\ UNCHANGED <<thread, task, resume, pids, next, failed, orphan, cancelling, imported>>

-----------------------------------------------------------------------------
WorkerStep(w) ==
    \/ Claim(w) \/ CheckCached(w) \/ Launch(w) \/ Register(w) \/ Downloaded(w)
    \/ Verify(w) \/ Commit(w) \/ WorkerFails(w)
JobStep == Begin \/ Launch(Job) \/ Register(Job) \/ ToolReturned \/ JoinWorkers \/ JobFails
CancelStep == CopyPids \/ Signal

Next ==
    \/ \E w \in Workers : WorkerStep(w) \/ CurlEnds(w)
    \/ JobStep \/ ToolEnds \/ CancelStep
    \/ StartImport \/ Cancel \/ Crash
    \/ \E o \in Objects : OrphanWrites(o)

Spec == Init /\ [][Next]_vars

\* The threads run, and a task that is told to terminate does; one that is
\* not may run for ever, and nobody has to start an import.
FairSpec ==
    /\ Spec
    /\ \A w \in Workers : WF_vars(WorkerStep(w)) /\ WF_vars(task[w] = "killed" /\ CurlEnds(w))
    /\ WF_vars(JobStep) /\ WF_vars(CancelStep) /\ WF_vars(task[Job] = "killed" /\ ToolEnds)

-----------------------------------------------------------------------------
(* Properties. *)

\* No two downloads of a run write to the same file.
OneWriterPerFile ==
    \A v, w \in Workers :
        task[v] \in Running /\ task[w] \in Running /\ thread[v].obj = thread[w].obj => v = w

\* When the job extracts, every object is in the cache and verified, whichever
\* worker fetched it, unless a curl of a dead process spoils it afterwards.
NoObjectMissed ==
    thread[Job].obj > 0 => \A o \in Objects : cached[o] = "whole" \/ orphan[o] = "cached"

\* A cancel ends the import although no download has to end by itself: a task
\* is killed whether it was registered before the cancel or after it.
\* (A cancel before the job's first line is undone by it.)
CancelEndsImport == cancelled ~> (~cancelled \/ thread[Job].at = "over")

\* Whatever failed, was cut short or was spoilt before, an import succeeds in
\* the end if the user tries again and downloads end: no file that an earlier
\* attempt left can make all later ones fail.
Persistence ==
    WF_vars(StartImport) /\ WF_vars(ToolEnds) /\ \A w \in Workers : WF_vars(CurlEnds(w))
ImportSucceedsInTheEnd == Persistence => <>imported
=============================================================================
