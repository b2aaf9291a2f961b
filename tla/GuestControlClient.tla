-------------------------- MODULE GuestControlClient --------------------------
(***************************************************************************)
(* The host side of the agent's control connection:                        *)
(* guest_control_client.cpp, on unix_listener.h and                        *)
(* pending_request_table.h.  The accept thread takes one connection at a   *)
(* time, shakes hands, publishes it, reads answers until it ends, and      *)
(* cleans up.  Any thread may call request(), which writes one line;       *)
(* install_apk() writes a header and then the APK itself.  stop() is       *)
(* called once, by the shutdown thread.  writeMutex_ orders the writers,   *)
(* the publication of a connection and its close.                          *)
(*                                                                         *)
(* Connections have numbers; a call is identified with its request id.     *)
(* Callbacks that one thread takes out of the table together are run in    *)
(* one step: nobody else can reach them any more; so is what a thread does *)
(* under writeMutex_ without blocking.  A send fails only on a broken      *)
(* connection and blocks while the socket is full.  The agent is modelled  *)
(* from its control thread: it reads a request, with the payload if it is  *)
(* an install, and answers it before it reads the next one.                *)
(***************************************************************************)
EXTENDS Naturals, Sequences

CONSTANTS
    Lines,      \* calls of request()
    Installs,   \* calls of install_apk()
    NoOne,      \* no call, no thread
    Acceptor,   \* the accept thread, as a holder of writeMutex_
    Chunks,     \* buffers of kApkTransferBufferBytes in an APK
    Room,       \* pieces the socket holds before send() blocks
    MaxConns,   \* bound: connections of the agent
    MaxNoise    \* bound: lines of the agent that answer no call

Callers == Lines \cup Installs

ASSUME ClientAssumptions ==
    /\ Lines \cap Installs = {} /\ {NoOne, Acceptor} \cap Callers = {} /\ NoOne # Acceptor
    /\ Chunks \in Nat \ {0} /\ Room \in Nat \ {0} /\ MaxConns \in Nat /\ MaxNoise \in Nat

VARIABLES
    stopRequested,  \* stopRequested_
    listening,      \* listenFd_ >= 0
    clientFd,       \* clientFd_: a connection, or 0 for none
    transfer,       \* fileTransferActive_
    mutex,          \* who holds writeMutex_
    pending,        \* the keys of pending_
    expired,        \* the keys whose deadline has passed
    result,         \* [Callers -> Results]: what the callback was given
    call,           \* [Callers -> CallSteps]: where the calling thread is
    left,           \* chunks of the APK under way that are not sent
    sendFd,         \* the connection the writer sampled under the mutex
    accept,         \* where the accept thread is
    conn,           \* the connection the accept thread has open, or 0
    shut,           \* shutdown() was called on it
    told,           \* the last connection notice
    stopper,        \* where the thread that runs start() and stop() is
    peer,           \* the agent's end of conn: "none", "up", "gone"
    wire,           \* pieces sent on conn and not read
    want,           \* the install the agent reads and the chunks it waits for
    busy,           \* the call the agent works on
    inbox,          \* lines the agent sent and the accept thread has not read
    conns, noise    \* counts against the bounds

flags == <<stopRequested, listening, transfer>>
link == <<conn, shut>>
tables == <<pending, expired, result>>
writer == <<call, left, sendFd>>
threads == <<accept, told, stopper>>
agent == <<peer, wire, want, busy, inbox, conns, noise>>
vars == <<flags, clientFd, mutex, tables, writer, link, threads, agent>>

Results == {"none", "ok", "error", "failed", "twice"}
LineSteps == {"idle", "adding", "trying", "waiting", "sending", "taking", "returned"}
InstallSteps == {"idle", "opening", "adding", "locking", "header", "chunks", "chunking",
                 "releaseSent", "releaseFailed", "taking", "returned"}
CallSteps == LineSteps \cup InstallSteps
Writing == {"sending", "header", "chunks", "chunking"}
AcceptSteps == {"none", "top", "accepting", "handshake", "publish", "storing", "announcing",
                "serving", "ending", "draining", "telling", "done"}
StopSteps == {"new", "running", "closing", "shutting", "joining", "draining", "returned"}

Piece(c, part) == [c |-> c, part |-> part]
Reply(c, kind) == [c |-> c, kind |-> kind]
NoWant == [c |-> NoOne, n |-> 0]

Init ==
    /\ stopRequested = FALSE /\ listening = FALSE /\ transfer = FALSE
    /\ clientFd = 0 /\ mutex = NoOne
    /\ pending = {} /\ expired = {} /\ result = [c \in Callers |-> "none"]
    /\ call = [c \in Callers |-> "idle"] /\ left = 0 /\ sendFd = 0
    /\ accept = "none" /\ conn = 0 /\ shut = FALSE /\ told = FALSE /\ stopper = "new"
    /\ peer = "none" /\ wire = <<>> /\ want = NoWant /\ busy = NoOne /\ inbox = <<>>
    /\ conns = 0 /\ noise = 0

-----------------------------------------------------------------------------
(* Callbacks and the pending table. *)

\* Run the callbacks of the calls in S.
Fire(S, kind) ==
    result' = [c \in Callers |->
                 IF c \notin S THEN result[c] ELSE IF result[c] = "none" THEN kind ELSE "twice"]

Goto(c, step) == call' = [call EXCEPT ![c] = step]

\* fail_all: the table is swapped for an empty one.
FailAllPending == Fire(pending, "failed") /\ pending' = {} /\ expired' = {}

\* take: the callback of c, if the table still has it.
Take(c, kind) ==
    Fire({c} \cap pending, kind) /\ pending' = pending \ {c} /\ expired' = expired \ {c}

\* sweep_timeouts: the calls whose deadline has passed.
SweepTimeouts == Fire(expired, "failed") /\ pending' = pending \ expired /\ expired' = {}

\* steady_now_ms passes the deadline of a call.
Deadline(c) ==
    /\ c \in pending \ expired /\ expired' = expired \cup {c}
    /\ UNCHANGED <<flags, clientFd, mutex, pending, result, writer, link, threads, agent>>

\* The socket no longer carries anything.
Broken == peer = "gone" \/ shut

\* send() has put the piece into the socket.
Put(c, part) == Len(wire) < Room /\ ~Broken /\ wire' = Append(wire, Piece(c, part))

-----------------------------------------------------------------------------
(* request() *)

\* The test of clientFd_ without the mutex.
Load(c) ==
    /\ c \in Lines /\ call[c] = "idle"
    /\ IF clientFd = 0
         THEN Fire({c}, "failed") /\ Goto(c, "returned")
         ELSE Goto(c, "adding") /\ UNCHANGED result
    /\ UNCHANGED <<flags, clientFd, mutex, pending, expired, left, sendFd, link, threads, agent>>

\* Both kinds of call register their callback before they take the mutex.
AddPending(c) ==
    /\ call[c] = "adding" /\ pending' = pending \cup {c}
    /\ Goto(c, IF c \in Lines THEN "trying" ELSE "locking")
    /\ UNCHANGED <<flags, clientFd, mutex, expired, result, left, sendFd, link, threads, agent>>

\* With the mutex: no line into a transfer, none without a connection.
LineLocked(c) ==
    IF transfer \/ clientFd = 0
      THEN Goto(c, "taking") /\ UNCHANGED <<mutex, sendFd>>
      ELSE Goto(c, "sending") /\ mutex' = c /\ sendFd' = clientFd

\* try_lock; a transfer is the one reason not to wait for the mutex.
TryLock(c) ==
    /\ call[c] = "trying"
    /\ \/ mutex = NoOne /\ LineLocked(c)
       \/ mutex # NoOne /\ Goto(c, IF transfer THEN "taking" ELSE "waiting")
                        /\ UNCHANGED <<mutex, sendFd>>
    /\ UNCHANGED <<flags, clientFd, tables, left, link, threads, agent>>

Lock(c) ==
    /\ call[c] = "waiting" /\ mutex = NoOne /\ LineLocked(c)
    /\ UNCHANGED <<flags, clientFd, tables, left, link, threads, agent>>

Unlock == mutex' = NoOne /\ sendFd' = 0

SendLine(c) ==
    /\ call[c] = "sending" /\ Unlock
    /\ \/ Put(c, "line") /\ Goto(c, "returned")
       \/ Broken /\ Goto(c, "taking") /\ UNCHANGED wire
    /\ UNCHANGED <<flags, clientFd, tables, left, link, threads, peer, want, busy, inbox,
                   conns, noise>>

\* Mutant: a write that failed leaves the callback to whoever drains the table.
TakeBackNever(c) ==
    /\ call[c] = "taking" /\ Goto(c, "returned")
    /\ UNCHANGED <<flags, clientFd, mutex, tables, left, sendFd, link, threads, agent>>

\* Mutant: the callback is run without asking the table for it.
TakeBackAlways(c) ==
    /\ call[c] = "taking" /\ Goto(c, "returned")
    /\ Fire({c}, "failed") /\ pending' = pending \ {c} /\ expired' = expired \ {c}
    /\ UNCHANGED <<flags, clientFd, mutex, left, sendFd, link, threads, agent>>

\* A call whose write failed takes its callback back, if it is still there.
TakeBack(c) ==
    /\ call[c] = "taking" /\ Goto(c, "returned")
    /\ Take(c, "failed")
    /\ UNCHANGED <<flags, clientFd, mutex, left, sendFd, link, threads, agent>>

-----------------------------------------------------------------------------
(* install_apk() *)

\* fileTransferActive_.exchange(true)
Claim(c) ==
    /\ c \in Installs /\ call[c] = "idle" /\ transfer' = TRUE
    /\ IF transfer
         THEN Fire({c}, "failed") /\ Goto(c, "returned")
         ELSE Goto(c, "opening") /\ UNCHANGED result
    /\ UNCHANGED <<stopRequested, listening, clientFd, mutex, pending, expired, left, sendFd,
                   link, threads, agent>>

\* The file must be fit to send and the agent connected.
OpenApk(c) ==
    /\ call[c] = "opening"
    /\ \/ clientFd # 0 /\ Goto(c, "adding") /\ UNCHANGED <<transfer, result>>
       \/ transfer' = FALSE /\ Fire({c}, "failed") /\ Goto(c, "returned")
    /\ UNCHANGED <<stopRequested, listening, clientFd, mutex, pending, expired, left, sendFd,
                   link, threads, agent>>

LockForApk(c) ==
    /\ call[c] = "locking" /\ mutex = NoOne
    /\ IF clientFd = 0
         THEN Goto(c, "releaseFailed") /\ UNCHANGED <<mutex, sendFd>>
         ELSE Goto(c, "header") /\ mutex' = c /\ sendFd' = clientFd
    /\ UNCHANGED <<flags, clientFd, tables, left, link, threads, agent>>

\* Mutant: the connection is kept after a transfer that broke off.
BreakOffQuietly(c) == Unlock /\ left' = 0 /\ UNCHANGED shut /\ Goto(c, "releaseFailed")

\* A partial payload cannot be resynchronised: the connection is shut down.
BreakOff(c) == Unlock /\ left' = 0 /\ shut' = TRUE /\ Goto(c, "releaseFailed")

SendHeader(c) ==
    /\ call[c] = "header"
    /\ \/ /\ Put(c, "header") /\ left' = Chunks /\ Goto(c, "chunks")
          /\ UNCHANGED <<mutex, sendFd, shut>>
       \/ Broken /\ BreakOff(c) /\ UNCHANGED wire
    /\ UNCHANGED <<flags, clientFd, tables, conn, threads, peer, want, busy, inbox, conns, noise>>

\* The loop over the file: the end, a stop or a read error leaves it.
NextChunk(c) ==
    /\ call[c] = "chunks"
    /\ \/ left = 0 /\ Unlock /\ Goto(c, "releaseSent") /\ UNCHANGED <<left, shut>>
       \/ left > 0 /\ BreakOff(c)              \* stopRequested_, or read() <= 0
       \/ left > 0 /\ ~stopRequested /\ Goto(c, "chunking")
                   /\ UNCHANGED <<mutex, sendFd, left, shut>>
    /\ UNCHANGED <<flags, clientFd, tables, conn, threads, agent>>

SendChunk(c) ==
    /\ call[c] = "chunking"
    /\ \/ /\ Put(c, "chunk") /\ left' = left - 1 /\ Goto(c, "chunks")
          /\ UNCHANGED <<mutex, sendFd, shut>>
       \/ Broken /\ BreakOff(c) /\ UNCHANGED wire
    /\ UNCHANGED <<flags, clientFd, tables, conn, threads, peer, want, busy, inbox, conns, noise>>

\* releaseTransfer
Release(c) ==
    /\ call[c] \in {"releaseSent", "releaseFailed"} /\ transfer' = FALSE
    /\ Goto(c, IF call[c] = "releaseSent" THEN "returned" ELSE "taking")
    /\ UNCHANGED <<stopRequested, listening, clientFd, mutex, tables, left, sendFd, link,
                   threads, agent>>

CallerStep(c) ==
    \/ AddPending(c) \/ TryLock(c) \/ Lock(c) \/ SendLine(c) \/ TakeBack(c)
    \/ OpenApk(c) \/ LockForApk(c) \/ SendHeader(c) \/ NextChunk(c) \/ SendChunk(c) \/ Release(c)

-----------------------------------------------------------------------------
(* accept_thread() *)

AcceptTop ==
    /\ accept = "top" /\ accept' = IF stopRequested \/ ~listening THEN "done" ELSE "accepting"
    /\ UNCHANGED <<flags, clientFd, mutex, tables, writer, link, told, stopper, agent>>

\* The agent connects and accept() returns its descriptor.
AgentConnects ==
    /\ accept = "accepting" /\ listening /\ conns < MaxConns
    /\ accept' = "handshake" /\ conn' = conns + 1 /\ conns' = conns + 1 /\ peer' = "up"
    /\ UNCHANGED <<flags, clientFd, mutex, tables, writer, shut, told, stopper, wire, want, busy,
                   inbox, noise>>

\* accept() fails on the closed listener.
AcceptFails ==
    /\ accept = "accepting" /\ ~listening /\ accept' = "top"
    /\ UNCHANGED <<flags, clientFd, mutex, tables, writer, link, told, stopper, agent>>

\* close() of the connection, with all that is on its way.
CloseConn ==
    /\ conn' = 0 /\ shut' = FALSE /\ peer' = "none"
    /\ wire' = <<>> /\ want' = NoWant /\ busy' = NoOne /\ inbox' = <<>>
    /\ UNCHANGED <<conns, noise>>

\* perform_unix_pipe_handshake waits two seconds for the answer.
Handshake ==
    /\ accept = "handshake"
    /\ \/ peer = "up" /\ accept' = "publish" /\ UNCHANGED <<link, agent>>
       \/ accept' = "top" /\ CloseConn
    /\ UNCHANGED <<flags, clientFd, mutex, tables, writer, told, stopper>>

\* Mutant: a handshake that was in flight when stop() came is published.
PublishUnchecked ==
    /\ accept = "publish" /\ mutex = NoOne /\ mutex' = Acceptor /\ accept' = "storing"
    /\ UNCHANGED <<flags, clientFd, tables, writer, link, told, stopper, agent>>

\* Under the mutex: not once stop() has begun.
Publish ==
    /\ accept = "publish" /\ mutex = NoOne
    /\ IF stopRequested
         THEN accept' = "done" /\ CloseConn /\ UNCHANGED mutex
         ELSE accept' = "storing" /\ mutex' = Acceptor /\ UNCHANGED <<link, agent>>
    /\ UNCHANGED <<flags, clientFd, tables, writer, told, stopper>>

StoreClient ==
    /\ accept = "storing" /\ accept' = "announcing" /\ clientFd' = conn /\ mutex' = NoOne
    /\ UNCHANGED <<flags, tables, writer, link, told, stopper, agent>>

\* connectionCallback_(true)
AnnounceUp ==
    /\ accept = "announcing" /\ accept' = "serving" /\ told' = TRUE
    /\ UNCHANGED <<flags, clientFd, mutex, tables, writer, link, stopper, agent>>

\* Mutant: the descriptor is closed without the mutex.
EndConnectionUnlocked ==
    /\ accept = "ending" /\ accept' = "draining" /\ clientFd' = 0 /\ CloseConn
    /\ UNCHANGED <<flags, mutex, tables, writer, told, stopper>>

\* Clear clientFd_ and close, under the mutex.
EndConnection ==
    /\ accept = "ending" /\ mutex = NoOne
    /\ accept' = "draining" /\ clientFd' = 0 /\ CloseConn
    /\ UNCHANGED <<flags, mutex, tables, writer, told, stopper>>

DrainConnection ==
    /\ accept = "draining" /\ accept' = "telling" /\ FailAllPending
    /\ UNCHANGED <<flags, clientFd, mutex, writer, link, told, stopper, agent>>

\* connectionCallback_(false)
AnnounceDown ==
    /\ accept = "telling" /\ accept' = "top" /\ told' = FALSE
    /\ UNCHANGED <<flags, clientFd, mutex, tables, writer, link, stopper, agent>>

-----------------------------------------------------------------------------
(* serve_connection() and handle_line() *)

ServeUntilStop ==
    /\ accept = "serving" /\ stopRequested /\ accept' = "ending"
    /\ UNCHANGED <<flags, clientFd, mutex, tables, writer, link, told, stopper, agent>>

\* poll() returns 0 after a second without input.
PollTimesOut ==
    /\ accept = "serving" /\ inbox = <<>> /\ ~Broken /\ SweepTimeouts
    /\ UNCHANGED <<flags, clientFd, mutex, writer, link, threads, agent>>

\* handle_line takes the callback of an answer; a stray line changes nothing.
ServeLine ==
    /\ accept = "serving" /\ inbox # <<>> /\ inbox' = Tail(inbox)
    /\ LET line == Head(inbox) IN
       \/ line.kind \in {"ok", "error"} /\ Take(line.c, line.kind) /\ UNCHANGED accept
       \/ line.kind = "stray" /\ UNCHANGED <<accept, tables>>
       \/ line.kind = "oversized" /\ accept' = "ending" /\ UNCHANGED tables
    /\ UNCHANGED <<flags, clientFd, mutex, writer, link, told, stopper, peer, wire, want, busy,
                   conns, noise>>

\* read() meets the end; a socket that was shut down may drop what it held.
ServeEof ==
    /\ accept = "serving" /\ Broken /\ (inbox = <<>> \/ shut) /\ accept' = "ending"
    /\ UNCHANGED <<flags, clientFd, mutex, tables, writer, link, told, stopper, agent>>

AcceptStep ==
    \/ AcceptTop \/ AcceptFails \/ Handshake \/ Publish \/ StoreClient \/ AnnounceUp
    \/ ServeUntilStop \/ PollTimesOut \/ ServeLine \/ ServeEof
    \/ EndConnection \/ DrainConnection \/ AnnounceDown

-----------------------------------------------------------------------------
(* start() and stop() *)

\* create_unix_listener: socket(), bind() or listen() may fail.
CreateUnixListener == listening' \in BOOLEAN

\* start(), after its own stop(), which finds nothing: the accept thread runs if
\* there is a listener.
Start ==
    /\ stopper = "new" /\ stopper' = "running"
    /\ CreateUnixListener /\ accept' = IF listening' THEN "top" ELSE accept
    /\ UNCHANGED <<stopRequested, transfer, clientFd, mutex, tables, writer, link, told, agent>>

Stop ==
    /\ stopper = "running" /\ stopper' = "closing" /\ stopRequested' = TRUE
    /\ UNCHANGED <<listening, transfer, clientFd, mutex, tables, writer, link, accept, told, agent>>

\* Mutant: stop() leaves the listener open, and nothing wakes accept().
StopListensOn ==
    /\ stopper = "closing" /\ stopper' = "shutting"
    /\ UNCHANGED <<flags, clientFd, mutex, tables, writer, link, accept, told, agent>>

\* Close the listener and wake accept().
StopListening ==
    /\ stopper = "closing" /\ stopper' = "shutting" /\ listening' = FALSE
    /\ UNCHANGED <<stopRequested, transfer, clientFd, mutex, tables, writer, link, accept, told,
                   agent>>

\* Shut the connection down under the mutex, without clearing clientFd_.
StopShutsClient ==
    /\ stopper = "shutting" /\ mutex = NoOne /\ stopper' = "joining"
    /\ shut' = (shut \/ clientFd # 0)
    /\ UNCHANGED <<flags, clientFd, mutex, tables, writer, conn, accept, told, agent>>

StopJoins ==
    /\ stopper = "joining" /\ accept \in {"none", "done"} /\ stopper' = "draining"
    /\ UNCHANGED <<flags, clientFd, mutex, tables, writer, link, accept, told, agent>>

StopDrains ==
    /\ stopper = "draining" /\ stopper' = "returned" /\ FailAllPending
    /\ UNCHANGED <<flags, clientFd, mutex, writer, link, accept, told, agent>>

StopStep == StopListening \/ StopShutsClient \/ StopJoins \/ StopDrains

-----------------------------------------------------------------------------
(* The control thread of the agent. *)

\* A request line, or the next chunk of the payload an install header announced.
AgentReads ==
    /\ peer = "up" /\ wire # <<>> /\ busy = NoOne /\ wire' = Tail(wire)
    /\ LET piece == Head(wire) IN
       IF want.c # NoOne
         THEN /\ want' = IF want.n = 1 THEN NoWant ELSE [want EXCEPT !.n = @ - 1]
              /\ busy' = IF want.n = 1 THEN want.c ELSE NoOne
         ELSE /\ want' = IF piece.part = "header" THEN [c |-> piece.c, n |-> Chunks] ELSE NoWant
              /\ busy' = IF piece.part = "line" THEN piece.c ELSE NoOne
    /\ UNCHANGED <<flags, clientFd, mutex, tables, writer, link, threads>>
    /\ UNCHANGED <<peer, inbox, conns, noise>>

AgentAnswers ==
    /\ peer = "up" /\ busy # NoOne /\ busy' = NoOne
    /\ \E kind \in {"ok", "error"} :
         inbox' = IF shut THEN inbox ELSE Append(inbox, Reply(busy, kind))
    /\ UNCHANGED <<flags, clientFd, mutex, tables, writer, link, threads, peer, wire, want, conns,
                   noise>>

\* Output that answers nothing, or a line without end.
AgentNoise ==
    /\ peer = "up" /\ ~shut /\ noise < MaxNoise /\ noise' = noise + 1
    /\ \E kind \in {"stray", "oversized"} : inbox' = Append(inbox, Reply(NoOne, kind))
    /\ UNCHANGED <<flags, clientFd, mutex, tables, writer, link, threads, peer, wire, want, busy,
                   conns>>

\* The agent or qemu goes away; what they had not read is lost.
AgentDrops ==
    /\ peer = "up" /\ peer' = "gone" /\ wire' = <<>> /\ want' = NoWant /\ busy' = NoOne
    /\ UNCHANGED <<flags, clientFd, mutex, tables, writer, link, threads, inbox, conns, noise>>

AgentStep == AgentConnects \/ AgentReads \/ AgentAnswers \/ AgentNoise \/ AgentDrops

-----------------------------------------------------------------------------
Next ==
    \/ \E c \in Callers : Load(c) \/ Claim(c) \/ CallerStep(c) \/ Deadline(c)
    \/ AcceptStep \/ Start \/ Stop \/ StopStep \/ AgentStep

Spec == Init /\ [][Next]_vars

(* The threads of the shell run and clocks advance.  Nothing is asked of   *)
(* the agent: it need not connect, read or answer.                         *)
FairSpec ==
    /\ Spec /\ WF_vars(AcceptStep) /\ WF_vars(StopStep)
    /\ \A c \in Callers : WF_vars(CallerStep(c)) /\ WF_vars(Deadline(c))

-----------------------------------------------------------------------------
(* Properties *)

Pieces == [c : Callers, part : {"line", "header", "chunk"}]
Replies == [c : Callers, kind : {"ok", "error"}] \cup [c : {NoOne}, kind : {"stray", "oversized"}]

\* The members of GuestControlClient, its threads and the socket are well formed.
TypeOK ==
    /\ stopRequested \in BOOLEAN /\ listening \in BOOLEAN /\ transfer \in BOOLEAN
    /\ shut \in BOOLEAN /\ told \in BOOLEAN
    /\ clientFd \in 0..MaxConns /\ conn \in 0..MaxConns /\ sendFd \in 0..MaxConns
    /\ conns \in 0..MaxConns
    /\ mutex \in Callers \cup {NoOne, Acceptor}
    /\ pending \subseteq Callers /\ expired \subseteq pending
    /\ result \in [Callers -> Results] /\ call \in [Callers -> CallSteps]
    /\ left \in 0..Chunks /\ accept \in AcceptSteps /\ stopper \in StopSteps
    /\ peer \in {"none", "up", "gone"} /\ wire \in Seq(Pieces) /\ Len(wire) <= Room
    /\ want \in [c : Callers \cup {NoOne}, n : 0..Chunks] /\ busy \in Callers \cup {NoOne}
    /\ inbox \in Seq(Replies) /\ noise \in 0..MaxNoise

\* request() and install_apk() promise their callback once.  The answer, the
\* sweep, the end of a connection, stop() and the writer that failed compete for
\* it, on three threads and across connections.
Progress == [c \in Callers |->
               IF result[c] # "none" THEN result[c]
               ELSE IF call[c] = "idle" THEN "idle" ELSE "waiting"]

AsCalls == INSTANCE AsyncCalls WITH
             Calls <- Callers, progress <- Progress, open <- accept # "done"

\* Each call is answered or failed once, and none is answered after the accept
\* thread has ended.
ImplementsAsyncCalls == AsCalls!AbsSpec

\* "Interleaving even one ASCII request would corrupt the guest's exact-byte
\* binary read" (guest_control_client.cpp:208): while the agent reads a payload
\* it gets the chunks of that APK and nothing else, and it gets a chunk at no
\* other time, however transfers break off and connections change.
PayloadContiguous ==
    [][ peer' = "up" /\ wire # <<>> /\ wire' = Tail(wire) =>
          /\ Head(wire).part = "chunk" <=> want.c # NoOne
          /\ want.c # NoOne => Head(wire).c = want.c ]_vars

\* A writer sends on the connection that is open now: the accept thread closes
\* none under it, and no descriptor sampled before is used on the next one.
NoUseAfterClose == \A c \in Callers : call[c] \in Writing => sendFd = conn /\ conn # 0

\* ready() and the notices agree: the last notice differs from clientFd_ only
\* until the accept thread has delivered the one that is due.  Once stop() holds
\* the mutex no connection appears (guest_control_client.cpp:304), and when it
\* returns there is none and the shell has been told so.
ConnectionTruth ==
    /\ told # (clientFd # 0) => accept \in {"announcing", "draining", "telling"}
    /\ stopper \in {"joining", "draining", "returned"} /\ clientFd # 0 => shut
    /\ stopper \in {"draining", "returned"} => clientFd = 0 /\ ~told /\ conn = 0

\* A writer waits in send() for an agent that does not read.
Blocked ==
    \E c \in Callers : call[c] \in {"sending", "header", "chunking"} /\ Len(wire) = Room /\ ~Broken

\* Every call has its callback run, although the agent may stop reading and
\* answering, unless the accept thread itself waits for a writer it would have
\* to wake: after an oversized line, or on stop().
CallsComplete ==
    []<>~(Blocked /\ accept = "ending") =>
        \A c \in Callers : call[c] # "idle" ~> result[c] # "none"

\* stop() returns if no writer stays blocked: it takes writeMutex_ before it
\* shuts the connection down.
StopTerminates == []<>~Blocked => (stopper = "closing" ~> stopper = "returned")
=============================================================================
