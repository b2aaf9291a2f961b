---------------------------- MODULE ControlChannel ----------------------------
(***************************************************************************)
(* The shell's control channel to qemu: shell/core/control_channel.cpp on  *)
(* top of shell/core/pending_request_table.h.                              *)
(*                                                                         *)
(* Three kinds of thread meet in it.  Callers run request(): register the  *)
(* callback, then write a frame.  The reader thread polls the socket,      *)
(* matches responses with the table, sweeps timeouts, and on its way out   *)
(* fails whatever is left.  The monitor thread of the supervisor runs      *)
(* start() and, once qemu is gone, stop().  No lock is held across the     *)
(* table and the socket: each table operation and each store to an atomic  *)
(* is one step here, so every interleaving of the three is explored.       *)
(*                                                                         *)
(* A request is identified with the id fetch_add gave it; the 2^32 ids are *)
(* not exhausted.  A deadline is the set `expired' of the requests whose   *)
(* time is up; a deadline may pass at any moment and is noticed at the     *)
(* next sweep.                                                             *)
(***************************************************************************)
EXTENDS Naturals, Sequences, FiniteSets

CONSTANTS
  Requests,    \* the calls of request(), HELLO included
  Hello,       \* the HELLO request start() makes
  SocketRoom,  \* frames the kernel buffers before send() blocks
  MaxNoise     \* bound: frames the peer sends that answer no request

ASSUME HelloAssumption == Hello \in Requests
ASSUME RoomAssumption == SocketRoom \in Nat \ {0}
ASSUME NoiseAssumption == MaxNoise \in Nat

VARIABLES
  alive,          \* alive_
  ready,          \* ready_
  stopRequested,  \* stopRequested_
  fdOpen,         \* localFd_ >= 0
  shut,           \* shutdown(localFd_) was called
  pending,        \* keys of pending_
  expired,        \* requests whose deadline has passed
  call,           \* call[r]: where the thread running request(r) is
  reader,         \* where the reader thread is
  hand,           \* callbacks the reader moved out of the table, not run yet
  answer,         \* the response the reader is delivering
  monitor,        \* where the monitor thread is in start() / stop()
  swept,          \* callbacks stop() moved out of the table, not run yet
  fired,          \* fired[r]: how often r's callback has run
  outcome,        \* outcome[r]: what the callback was given
  wire,           \* frames sent and not yet read by qemu
  served,         \* requests qemu has read and not answered
  inbox,          \* frames qemu sent and the reader has not read
  peerOpen,       \* qemu holds its end of the socketpair
  noise           \* unsolicited frames sent so far

flags     == <<alive, ready, stopRequested>>
fdVars    == <<fdOpen, shut>>
table     == <<pending, expired>>
readVars  == <<reader, hand, answer>>
stopVars  == <<monitor, swept>>
results   == <<fired, outcome>>
peerVars  == <<wire, served, inbox, peerOpen, noise>>
vars == <<call, flags, fdVars, table, readVars, stopVars, results, peerVars>>

NoAnswer == [to |-> Hello, kind |-> "none"]
Answers  == [to : Requests, kind : {"ok", "error"}]
Event    == [to |-> "nobody", kind |-> "event"]
BadFrame == [to |-> "nobody", kind |-> "bad"]

\* The reader has left its loop and can answer nothing any more.
ExitSteps == {"exit", "unready", "drain", "failing", "done"}

Init ==
  /\ alive = FALSE /\ ready = FALSE /\ stopRequested = FALSE
  /\ fdOpen \in BOOLEAN            \* create() may have failed
  /\ shut = FALSE
  /\ pending = {} /\ expired = {}
  /\ call = [r \in Requests |-> "idle"]
  /\ reader = "none" /\ hand = {} /\ answer = NoAnswer
  /\ monitor = "created" /\ swept = {}
  /\ fired = [r \in Requests |-> 0]
  /\ outcome = [r \in Requests |-> "none"]
  /\ wire = <<>> /\ served = {} /\ inbox = <<>>
  /\ peerOpen = fdOpen
  /\ noise = 0

\* writeMutex_ is held exactly while its holder is inside send().
WriteMutexFree == \A r \in Requests : call[r] # "sending"

\* Run r's callback with `result'.
Fire(r, result) ==
  /\ fired' = [fired EXCEPT ![r] = @ + 1]
  /\ outcome' = [outcome EXCEPT ![r] = result]

-------------------------------------------------------------------------------
(* request() and write_frame(), on any thread that holds the channel.      *)

\* The alive() test that every call starts with.
Enter(r) ==
  /\ call[r] = "idle"
  /\ IF alive
       THEN /\ call' = [call EXCEPT ![r] = "adding"]
            /\ UNCHANGED results
       ELSE /\ call' = [call EXCEPT ![r] = "returned"]
            /\ Fire(r, "failed")
  /\ UNCHANGED <<flags, fdVars, table, readVars, peerVars>>

\* HELLO is requested by start() only; the other requests by their callers.
Request(r) ==
  /\ r # Hello
  /\ Enter(r)
  /\ UNCHANGED stopVars

AddPending(r) ==
  /\ call[r] = "adding"
  /\ pending' = pending \cup {r}
  /\ call' = [call EXCEPT ![r] = "locking"]
  /\ UNCHANGED <<flags, fdVars, expired, readVars, stopVars, results, peerVars>>

\* Mutant: write_frame trusts the alive() test request() already made.
WriteLockNoRecheck(r) ==
  /\ call[r] = "locking"
  /\ WriteMutexFree
  /\ IF fdOpen
       THEN call' = [call EXCEPT ![r] = "sending"]
       ELSE call' = [call EXCEPT ![r] = "taking"]
  /\ UNCHANGED <<flags, fdVars, table, readVars, stopVars, results, peerVars>>

\* write_frame takes writeMutex_ and looks at the channel once more.
WriteLock(r) ==
  /\ call[r] = "locking"
  /\ WriteMutexFree
  /\ IF fdOpen /\ alive
       THEN call' = [call EXCEPT ![r] = "sending"]
       ELSE call' = [call EXCEPT ![r] = "taking"]
  /\ UNCHANGED <<flags, fdVars, table, readVars, stopVars, results, peerVars>>

\* send() puts the whole frame into the socket; it blocks while it is full.
SendDone(r) ==
  /\ call[r] = "sending"
  /\ peerOpen /\ ~shut
  /\ Len(wire) < SocketRoom
  /\ wire' = Append(wire, r)
  /\ call' = [call EXCEPT ![r] = "returned"]
  /\ UNCHANGED <<flags, fdVars, table, readVars, stopVars, results,
                 served, inbox, peerOpen, noise>>

\* send() fails: qemu closed its end, or stop() shut the socket down.
SendFails(r) ==
  /\ call[r] = "sending"
  /\ ~peerOpen \/ shut
  /\ call' = [call EXCEPT ![r] = "taking"]
  /\ UNCHANGED <<flags, fdVars, table, readVars, stopVars, results, peerVars>>

\* Mutant: a failed write runs the callback without asking the table for it.
TakeBackAlways(r) ==
  /\ call[r] = "taking"
  /\ call' = [call EXCEPT ![r] = "failing"]
  /\ pending' = pending \ {r}
  /\ UNCHANGED <<flags, fdVars, expired, readVars, stopVars, results, peerVars>>

\* After a failed write the callback is run only if it is still in the table.
TakeBack(r) ==
  /\ call[r] = "taking"
  /\ call' = [call EXCEPT ![r] = IF r \in pending THEN "failing" ELSE "returned"]
  /\ pending' = pending \ {r}
  /\ UNCHANGED <<flags, fdVars, expired, readVars, stopVars, results, peerVars>>

FailWrite(r) ==
  /\ call[r] = "failing"
  /\ call' = [call EXCEPT ![r] = "returned"]
  /\ Fire(r, "failed")
  /\ UNCHANGED <<flags, fdVars, table, readVars, stopVars, peerVars>>

\* steady_clock passes r's deadlineMs.
Deadline(r) ==
  /\ r \in pending \ expired
  /\ expired' = expired \cup {r}
  /\ UNCHANGED <<call, flags, fdVars, pending, readVars, stopVars, results, peerVars>>

CallerStep(r) ==
  \/ AddPending(r) \/ WriteLock(r) \/ SendDone(r) \/ SendFails(r)
  \/ TakeBack(r) \/ FailWrite(r)
-------------------------------------------------------------------------------
(* reader_thread()                                                         *)

ReaderLoop ==
  /\ reader = "loop"
  /\ reader' = IF stopRequested THEN "exit" ELSE "poll"
  /\ UNCHANGED <<call, flags, fdVars, table, hand, answer, stopVars, results, peerVars>>

\* sweep_timeouts(): move the expired callbacks out of the table, then run them.
Sweep ==
  /\ hand' = pending \cap expired
  /\ pending' = pending \ expired
  /\ reader' = "expiring"
  /\ UNCHANGED <<call, flags, fdVars, expired, answer, stopVars, results, peerVars>>

\* poll() returns 0: nothing to read for a second.
PollTimeout ==
  /\ reader = "poll"
  /\ inbox = <<>> /\ peerOpen /\ ~shut
  /\ Sweep

\* A whole frame arrived.  A response whose callback is gone is dropped.
ReadFrame ==
  /\ reader = "poll"
  /\ inbox # <<>>
  /\ inbox' = Tail(inbox)
  /\ LET frame == Head(inbox) IN
     \/ /\ frame.kind = "bad"
        /\ reader' = "exit"
        /\ UNCHANGED <<pending, hand, answer>>
     \/ /\ frame.kind = "event"             \* onEvent_
        /\ reader' = "loop"
        /\ UNCHANGED <<pending, hand, answer>>
     \/ /\ frame.kind \in {"ok", "error"}
        /\ frame.to \notin pending
        /\ reader' = "loop"
        /\ UNCHANGED <<pending, hand, answer>>
     \/ /\ frame.kind \in {"ok", "error"}
        /\ frame.to \in pending
        /\ pending' = pending \ {frame.to}
        /\ hand' = {frame.to}
        /\ answer' = frame
        /\ reader' = "deliver"
  /\ UNCHANGED <<call, flags, fdVars, expired, stopVars, results,
                 wire, served, peerOpen, noise>>

\* read_exact meets EOF or an error; a shut-down socket may drop what it held.
ReadFails ==
  /\ reader = "poll"
  /\ shut \/ (inbox = <<>> /\ ~peerOpen)
  /\ reader' = "exit"
  /\ UNCHANGED <<call, flags, fdVars, table, hand, answer, stopVars, results, peerVars>>

\* The response callback; HELLO's own callback makes the channel ready.
Deliver ==
  /\ reader = "deliver"
  /\ Fire(answer.to, answer.kind)
  /\ ready' = (ready \/ (answer.to = Hello /\ answer.kind = "ok"))
  /\ hand' = {}
  /\ answer' = NoAnswer
  /\ reader' = "sweep"
  /\ UNCHANGED <<call, alive, stopRequested, fdVars, table, stopVars, peerVars>>

SweepAfterResponse ==
  /\ reader = "sweep"
  /\ Sweep

ExpireOne(r) ==
  /\ reader = "expiring"
  /\ r \in hand
  /\ Fire(r, "failed")
  /\ hand' = hand \ {r}
  /\ UNCHANGED <<call, flags, fdVars, table, reader, answer, stopVars, peerVars>>

SweepDone ==
  /\ reader = "expiring"
  /\ hand = {}
  /\ reader' = "loop"
  /\ UNCHANGED <<call, flags, fdVars, table, hand, answer, stopVars, results, peerVars>>

ReaderDead ==
  /\ reader = "exit"
  /\ alive' = FALSE
  /\ reader' = "unready"
  /\ UNCHANGED <<call, ready, stopRequested, fdVars, table, hand, answer,
                 stopVars, results, peerVars>>

ReaderUnready ==
  /\ reader = "unready"
  /\ ready' = FALSE
  /\ reader' = "drain"
  /\ UNCHANGED <<call, alive, stopRequested, fdVars, table, hand, answer,
                 stopVars, results, peerVars>>

\* Mutant: the reader exits without failing what is pending.
ReaderDrainNothing ==
  /\ reader = "drain"
  /\ reader' = "failing"
  /\ UNCHANGED <<call, flags, fdVars, table, hand, answer, stopVars, results, peerVars>>

\* fail_all: swap the table out under its mutex, run the callbacks outside.
ReaderDrain ==
  /\ reader = "drain"
  /\ hand' = pending
  /\ pending' = {}
  /\ reader' = "failing"
  /\ UNCHANGED <<call, flags, fdVars, expired, answer, stopVars, results, peerVars>>

ReaderFailOne(r) ==
  /\ reader = "failing"
  /\ r \in hand
  /\ Fire(r, "failed")
  /\ hand' = hand \ {r}
  /\ UNCHANGED <<call, flags, fdVars, table, reader, answer, stopVars, peerVars>>

ReaderReturn ==
  /\ reader = "failing"
  /\ hand = {}
  /\ reader' = "done"            \* onClosed_ is an empty function in the shell
  /\ UNCHANGED <<call, flags, fdVars, table, hand, answer, stopVars, results, peerVars>>

ReaderStep ==
  \/ ReaderLoop \/ PollTimeout \/ ReadFrame \/ ReadFails \/ Deliver
  \/ SweepAfterResponse \/ SweepDone \/ ReaderDead \/ ReaderUnready
  \/ ReaderDrain \/ ReaderReturn
  \/ \E r \in Requests : ExpireOne(r) \/ ReaderFailOne(r)
-------------------------------------------------------------------------------
(* start() and stop(), on the monitor thread                               *)

Start ==
  /\ monitor = "created"
  /\ fdOpen
  /\ alive' = TRUE /\ ready' = FALSE /\ stopRequested' = FALSE
  /\ reader' = "loop"
  /\ monitor' = "hello"
  /\ UNCHANGED <<call, fdVars, table, hand, answer, swept, results, peerVars>>

\* start() returns at once when create() made no socketpair.
StartWithoutSocket ==
  /\ monitor = "created"
  /\ ~fdOpen
  /\ monitor' = "running"
  /\ UNCHANGED <<call, flags, fdVars, table, readVars, swept, results, peerVars>>

StartHello ==
  /\ monitor = "hello"
  /\ Enter(Hello)
  /\ UNCHANGED stopVars

StartReturns ==
  /\ monitor = "hello"
  /\ call[Hello] = "returned"
  /\ monitor' = "running"
  /\ UNCHANGED <<call, flags, fdVars, table, readVars, swept, results, peerVars>>

Stop ==
  /\ monitor = "running"
  /\ stopRequested' = TRUE
  /\ monitor' = "shutdown"
  /\ UNCHANGED <<call, alive, ready, fdVars, table, readVars, swept, results, peerVars>>

\* Mutant: stop() does not shut the socket down before it joins.
StopNoShutdown ==
  /\ monitor = "shutdown"
  /\ monitor' = "join"
  /\ UNCHANGED <<call, flags, fdVars, table, readVars, swept, results, peerVars>>

StopShutdown ==
  /\ monitor = "shutdown"
  /\ shut' = fdOpen
  /\ monitor' = "join"
  /\ UNCHANGED <<call, flags, fdOpen, table, readVars, swept, results, peerVars>>

StopJoin ==
  /\ monitor = "join"
  /\ reader \in {"none", "done"}
  /\ monitor' = "close"
  /\ UNCHANGED <<call, flags, fdVars, table, readVars, swept, results, peerVars>>

\* Mutant: the descriptor is closed without writeMutex_.
StopCloseUnlocked ==
  /\ monitor = "close"
  /\ fdOpen' = FALSE
  /\ monitor' = "drain"
  /\ UNCHANGED <<call, flags, shut, table, readVars, swept, results, peerVars>>

\* close(localFd_) under writeMutex_.
StopClose ==
  /\ monitor = "close"
  /\ WriteMutexFree
  /\ fdOpen' = FALSE
  /\ monitor' = "drain"
  /\ UNCHANGED <<call, flags, shut, table, readVars, swept, results, peerVars>>

StopDrain ==
  /\ monitor = "drain"
  /\ swept' = pending
  /\ pending' = {}
  /\ monitor' = "failing"
  /\ UNCHANGED <<call, flags, fdVars, expired, readVars, results, peerVars>>

StopFailOne(r) ==
  /\ monitor = "failing"
  /\ r \in swept
  /\ Fire(r, "failed")
  /\ swept' = swept \ {r}
  /\ UNCHANGED <<call, flags, fdVars, table, readVars, monitor, peerVars>>

\* ready_ and alive_ were already cleared by the reader's exit, if it ever ran.
StopReturns ==
  /\ monitor = "failing"
  /\ swept = {}
  /\ ready' = FALSE /\ alive' = FALSE
  /\ monitor' = "stopped"
  /\ UNCHANGED <<call, stopRequested, fdVars, table, readVars, swept, results, peerVars>>

StopStep ==
  \/ StopShutdown \/ StopJoin \/ StopClose \/ StopDrain \/ StopReturns
  \/ \E r \in Requests : StopFailOne(r)

MonitorStep ==
  \/ Start \/ StartWithoutSocket \/ StartHello \/ StartReturns \/ Stop \/ StopStep
-------------------------------------------------------------------------------
(* qemu's end of the socketpair.  It answers in any order: HELLO and the   *)
(* stream requests on its reader thread, the display ones on its looper.   *)

PeerReads ==
  /\ peerOpen
  /\ wire # <<>>
  /\ served' = served \cup {Head(wire)}
  /\ wire' = Tail(wire)
  /\ UNCHANGED <<call, flags, fdVars, table, readVars, stopVars, results,
                 inbox, peerOpen, noise>>

PeerAnswers(r) ==
  /\ peerOpen
  /\ r \in served
  /\ served' = served \ {r}
  /\ \E kind \in {"ok", "error"} :
       inbox' = Append(inbox, [to |-> r, kind |-> kind])
  /\ UNCHANGED <<call, flags, fdVars, table, readVars, stopVars, results,
                 wire, peerOpen, noise>>

PeerNoise ==
  /\ peerOpen
  /\ noise < MaxNoise
  /\ noise' = noise + 1
  /\ inbox' \in {Append(inbox, Event), Append(inbox, BadFrame)}
  /\ UNCHANGED <<call, flags, fdVars, table, readVars, stopVars, results,
                 wire, served, peerOpen>>

PeerExits ==
  /\ peerOpen
  /\ peerOpen' = FALSE
  /\ UNCHANGED <<call, flags, fdVars, table, readVars, stopVars, results,
                 wire, served, inbox, noise>>

PeerStep ==
  \/ PeerReads \/ PeerNoise \/ PeerExits
  \/ \E r \in Requests : PeerAnswers(r)
-------------------------------------------------------------------------------
Next ==
  \/ \E r \in Requests : Request(r) \/ CallerStep(r) \/ Deadline(r)
  \/ ReaderStep
  \/ MonitorStep
  \/ PeerStep

Spec == Init /\ [][Next]_vars

(* Threads that have something to do get to do it, and clocks advance.     *)
(* Nothing is asked of qemu: it may stop reading or answering.             *)
FairSpec ==
  /\ Spec
  /\ WF_vars(ReaderStep)
  /\ WF_vars(StopStep)
  /\ \A r \in Requests : WF_vars(CallerStep(r)) /\ WF_vars(Deadline(r))
-------------------------------------------------------------------------------
(* Properties                                                              *)

CallSteps    == {"idle", "adding", "locking", "sending", "taking", "failing", "returned"}
ReaderSteps  == {"none", "loop", "poll", "deliver", "sweep", "expiring"} \cup ExitSteps
MonitorSteps == {"created", "hello", "running", "shutdown", "join", "close",
                 "drain", "failing", "stopped"}

\* The state of the class ControlChannel and of the socketpair is well formed.
TypeOK ==
  /\ alive \in BOOLEAN /\ ready \in BOOLEAN /\ stopRequested \in BOOLEAN
  /\ fdOpen \in BOOLEAN /\ shut \in BOOLEAN /\ peerOpen \in BOOLEAN
  /\ pending \in SUBSET Requests /\ expired \in SUBSET Requests
  /\ call \in [Requests -> CallSteps]
  /\ reader \in ReaderSteps
  /\ hand \in SUBSET Requests
  /\ answer \in Answers \cup {NoAnswer}
  /\ monitor \in MonitorSteps
  /\ swept \in SUBSET Requests
  /\ fired \in [Requests -> Nat]
  /\ outcome \in [Requests -> {"none", "ok", "error", "failed"}]
  /\ wire \in Seq(Requests)
  /\ served \in SUBSET Requests
  /\ inbox \in Seq(Answers \cup {Event, BadFrame})
  /\ noise \in Nat

\* request() promises one call of its callback (control_channel.h:64).  Four
\* paths can make it - response, timeout sweep, channel death or stop(), failed
\* write - on three threads, and no two of them ever both do.
ExactlyOnce == \A r \in Requests : fired[r] <= 1

\* Once the reader has drained the table nobody will drain it again before
\* stop(), so a request still in it belongs to a caller that has yet to run
\* write_frame and will find the channel dead.  This is what the second alive()
\* test, under writeMutex_ and after the add, is for.
NoneStranded ==
  reader \in {"failing", "done"} =>
    \A r \in pending : call[r] \in {"locking", "taking"}

\* stop() closes the descriptor only when no thread is inside send(), poll() or
\* read() on it: the number may be reused by the kernel at once.
NoUseAfterClose ==
  monitor \in {"drain", "failing", "stopped"} =>
    /\ \A r \in Requests : call[r] # "sending"
    /\ reader \in {"none", "done"}

-------------------------------------------------------------------------------
(* The inductive strengthening of the safety properties.                   *)

\* Steps of request() at which its callback may be in another thread's hands.
Registered == {"locking", "sending", "taking", "returned"}

\* A callback object is in at most one place, and in none once it has run.
Ownership ==
  \A r \in Requests :
    /\ r \in pending \cup hand \cup swept => fired[r] = 0 /\ call[r] \in Registered
    /\ r \notin pending \cap hand
    /\ r \notin pending \cap swept
    /\ r \notin hand \cap swept
    /\ call[r] \in {"idle", "adding", "failing"} => fired[r] = 0

\* The reader holds callbacks only between taking them and running them.
HandInv ==
  /\ reader \notin {"deliver", "expiring", "failing"} => hand = {}
  /\ reader = "deliver" => answer \in Answers /\ hand = {answer.to}

MonitorInv ==
  /\ monitor # "failing" => swept = {}
  /\ monitor = "created" => reader = "none"
  /\ monitor \in {"close", "drain", "failing", "stopped"} => reader \in {"none", "done"}
  /\ monitor \in {"drain", "failing", "stopped"} => ~fdOpen

\* Only a live reader keeps the channel alive.
AliveInv == reader \in {"none", "unready", "drain", "failing", "done"} => ~alive

SafeInv ==
  /\ ExactlyOnce
  /\ Ownership
  /\ HandInv
  /\ MonitorInv
  /\ AliveInv
  /\ NoneStranded
  /\ NoUseAfterClose

IInv == TypeOK /\ SafeInv
-------------------------------------------------------------------------------
\* A call as its caller sees it; a callback that ran twice is no state of AsyncCalls.
ProgressOf(r) ==
  IF fired[r] = 0 THEN IF call[r] = "idle" THEN "idle" ELSE "waiting"
  ELSE IF fired[r] = 1 THEN outcome[r] ELSE "twice"

Calls == INSTANCE AsyncCalls WITH
           Calls    <- Requests,
           progress <- [r \in Requests |-> ProgressOf(r)],
           open     <- reader \notin ExitSteps

\* The channel implements AsyncCalls: each call is answered or failed once, and
\* none is answered after the reader left its loop.
ImplementsAsyncCalls == Calls!AbsSpec

\* Every call of request() has its callback run, even if qemu neither reads nor
\* answers and even if the calling thread is blocked in send().
EveryCallCompletes ==
  \A r \in Requests : call[r] # "idle" ~> fired[r] = 1

\* stop() returns: shutdown() wakes a reader in poll() and a caller in send(),
\* so neither the join nor writeMutex_ can block it for ever.
StopTerminates == monitor = "shutdown" ~> monitor = "stopped"
===============================================================================
