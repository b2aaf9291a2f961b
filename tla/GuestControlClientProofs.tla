------------------------ MODULE GuestControlClientProofs ------------------------
(***************************************************************************)
(* Machine-checked proofs about GuestControlClient, for any calls, any     *)
(* length of an APK, any room of the socket and any number of connections. *)
(*                                                                         *)
(* Who holds writeMutex_, and which connection that thread may use, is     *)
(* LockInv; what clientFd_, the open connection and the last notice have   *)
(* to do with each other at each step of the accept thread is ConnInv;     *)
(* how far stop() lets the accept thread go is StopInv; who may still run  *)
(* a callback is CallInv.  StreamInv describes what is on the wire.        *)
(***************************************************************************)
EXTENDS GuestControlClient, TLAPS

\* The steps of the accept thread at which a connection is open, and the later
\* ones of them at which it is published.
Open == {"handshake", "publish", "storing", "announcing", "serving", "ending"}
Published == {"announcing", "serving", "ending"}

\* What the agent may be waiting for: chunks of an APK, or nothing.
Wants == {NoWant} \cup [c : Callers, n : 1..Chunks]

LockInv ==
    /\ \A c \in Callers : call[c] \in Writing <=> mutex = c
    /\ accept = "storing" <=> mutex = Acceptor
    /\ mutex \in Callers => sendFd = clientFd /\ clientFd # 0
    /\ \A c \in Callers : call[c] = "chunking" => left > 0

ConnInv ==
    /\ conn # 0 <=> accept \in Open
    /\ clientFd = IF accept \in Published THEN conn ELSE 0
    /\ told <=> accept \in {"serving", "ending", "draining", "telling"}
    /\ accept \in Open <=> peer # "none"
    /\ accept \notin Open => inbox = <<>>
    /\ shut => accept \in Published
    /\ peer # "up" => wire = <<>> /\ want = NoWant /\ busy = NoOne
    /\ want \in Wants

StopInv ==
    /\ stopper = "new" => accept = "none"
    /\ stopper \notin {"new", "running"} => stopRequested
    /\ stopper \in {"joining", "draining", "returned"} =>
         accept # "storing" /\ (clientFd # 0 => shut)
    /\ stopper \in {"draining", "returned"} => accept \in {"none", "done"}

\* A callback is run by whoever takes it out of the table; before a call has put
\* it there only the caller can.
CallInv ==
    \A c \in Callers :
        /\ result[c] # "twice"
        /\ call[c] \in {"idle", "opening", "adding"} => c \notin pending /\ result[c] = "none"
        /\ c \in pending => result[c] = "none"

SafeInv == LockInv /\ ConnInv /\ StopInv /\ CallInv
ClientInv == TypeOK /\ SafeInv

\* How the agent's need of chunks changes with a piece it reads, and whether the
\* piece is the one it needs.
Reads(w, piece) ==
    IF w.c # NoOne THEN IF w.n = 1 THEN NoWant ELSE [w EXCEPT !.n = @ - 1]
    ELSE IF piece.part = "header" THEN [c |-> piece.c, n |-> Chunks] ELSE NoWant
Fits(w, piece) ==
    /\ piece.part = "chunk" <=> w.c # NoOne
    /\ w.c # NoOne => piece.c = w.c

\* The chunks that the writer still has to send.
Due == IF mutex \in Callers /\ call[mutex] \in {"chunks", "chunking"} /\ left > 0
       THEN [c |-> mutex, n |-> left] ELSE NoWant

\* Read in order, each piece on the wire is the one the agent needs by then, and
\* after the last one it needs what the writer has yet to send, unless the
\* connection is broken and nothing more can follow.
StreamInv ==
    \E need \in [0..Len(wire) -> Wants] :
        /\ need[0] = want
        /\ \A i \in 1..Len(wire) :
             Fits(need[i - 1], wire[i]) /\ need[i] = Reads(need[i - 1], wire[i])
        /\ ~Broken => need[Len(wire)] = Due

USE ClientAssumptions DEF Callers

\* send() appends a piece while there is room.
LEMMA PutTypes ==
    ASSUME TypeOK, NEW c \in Callers, NEW part \in {"line", "header", "chunk"}, Put(c, part)
    PROVE  wire' \in Seq(Pieces) /\ Len(wire') <= Room
<1>1. wire \in Seq(Pieces) /\ Len(wire) < Room /\ wire' = Append(wire, Piece(c, part))
  BY DEF TypeOK, Put
<1>2. Piece(c, part) \in Pieces
  BY DEF Piece, Pieces
<1> QED
  BY <1>1, <1>2

\* What a closed connection leaves behind.
LEMMA CloseTypes ==
    ASSUME CloseConn
    PROVE  /\ conn' \in 0..MaxConns /\ shut' \in BOOLEAN /\ peer' \in {"none", "up", "gone"}
           /\ wire' \in Seq(Pieces) /\ Len(wire') <= Room /\ inbox' \in Seq(Replies)
           /\ want' \in [c : Callers \cup {NoOne}, n : 0..Chunks]
           /\ busy' \in Callers \cup {NoOne} /\ UNCHANGED <<conns, noise>>
<1>1. shut' \in BOOLEAN
  BY DEF CloseConn
<1> QED
  BY <1>1 DEF CloseConn, NoWant

\* A piece the agent reads leaves it waiting for chunks of an APK, or for nothing.
LEMMA WantStep ==
    ASSUME TypeOK, want \in Wants, AgentReads
    PROVE  want' \in Wants
<1>1. Head(wire) \in Pieces
  BY DEF TypeOK, AgentReads
<1>2. Head(wire).c \in Callers
  BY <1>1 DEF Pieces
<1>3. CASE want = NoWant
  BY <1>2, <1>3 DEF AgentReads, Wants, NoWant
<1>4. CASE want \in [c : Callers, n : 1..Chunks]
  <2>1. want.c # NoOne
    BY <1>4
  <2>2. CASE want.n = 1
    BY <2>1, <2>2 DEF AgentReads, Wants
  <2>3. CASE want.n # 1
    BY <1>4, <2>1, <2>3 DEF AgentReads, Wants
  <2> QED
    BY <2>2, <2>3
<1> QED
  BY <1>3, <1>4 DEF Wants

\* Every step of every thread keeps the types.
LEMMA TypeStep == ClientInv /\ [Next]_vars => TypeOK'
<1> SUFFICES ASSUME ClientInv, [Next]_vars PROVE TypeOK'
  OBVIOUS
<1> USE DEF ClientInv, TypeOK, CallSteps, LineSteps, InstallSteps, AcceptSteps, StopSteps,
            Results, Goto, Fire, flags, link, tables, writer, threads, agent
<1>1. ASSUME NEW c \in Callers, Load(c) PROVE TypeOK'
  <2>1. result' \in [Callers -> Results] /\ call' \in [Callers -> CallSteps]
    BY <1>1 DEF Load
  <2> QED
    BY <1>1, <2>1 DEF Load
<1>2. ASSUME NEW c \in Callers, Claim(c) PROVE TypeOK'
  BY <1>2 DEF Claim
<1>3. ASSUME NEW c \in Callers, AddPending(c) PROVE TypeOK'
  BY <1>3 DEF AddPending
<1>4. ASSUME NEW c \in Callers, TryLock(c) PROVE TypeOK'
  BY <1>4 DEF TryLock, LineLocked
<1>5. ASSUME NEW c \in Callers, Lock(c) PROVE TypeOK'
  BY <1>5 DEF Lock, LineLocked
<1>6. ASSUME NEW c \in Callers, SendLine(c) PROVE TypeOK'
  <2>1. wire' \in Seq(Pieces) /\ Len(wire') <= Room
    BY <1>6, PutTypes DEF SendLine
  <2> QED
    BY <1>6, <2>1 DEF SendLine, Unlock
<1>7. ASSUME NEW c \in Callers, TakeBack(c) PROVE TypeOK'
  BY <1>7 DEF TakeBack, Take
<1>8. ASSUME NEW c \in Callers, OpenApk(c) PROVE TypeOK'
  <2>1. transfer' \in BOOLEAN
    BY <1>8 DEF OpenApk
  <2> QED
    BY <1>8, <2>1 DEF OpenApk
<1>9. ASSUME NEW c \in Callers, LockForApk(c) PROVE TypeOK'
  BY <1>9 DEF LockForApk
<1>10. ASSUME NEW c \in Callers, SendHeader(c) PROVE TypeOK'
  <2>1. wire' \in Seq(Pieces) /\ Len(wire') <= Room
    BY <1>10, PutTypes DEF SendHeader
  <2>2. CASE Put(c, "header") /\ left' = Chunks /\ Goto(c, "chunks")
             /\ UNCHANGED <<mutex, sendFd, shut>>
    BY <1>10, <2>1, <2>2 DEF SendHeader
  <2>3. CASE BreakOff(c) /\ UNCHANGED wire
    <3>1. shut' \in BOOLEAN
      BY <2>3 DEF BreakOff
    <3> QED
      BY <1>10, <2>3, <3>1 DEF SendHeader, BreakOff, Unlock
  <2> QED
    BY <1>10, <2>2, <2>3 DEF SendHeader
<1>11. ASSUME NEW c \in Callers, NextChunk(c) PROVE TypeOK'
  <2>1. shut' \in BOOLEAN
    BY <1>11 DEF NextChunk, BreakOff
  <2> QED
    BY <1>11, <2>1 DEF NextChunk, BreakOff, Unlock
<1>12. ASSUME NEW c \in Callers, SendChunk(c) PROVE TypeOK'
  <2>1. wire' \in Seq(Pieces) /\ Len(wire') <= Room
    BY <1>12, PutTypes DEF SendChunk
  <2>2. shut' \in BOOLEAN
    BY <1>12 DEF SendChunk, BreakOff
  <2>3. left' \in 0..Chunks
    BY <1>12 DEF SendChunk, BreakOff, SafeInv, LockInv
  <2> QED
    BY <1>12, <2>1, <2>2, <2>3 DEF SendChunk, BreakOff, Unlock
<1>13. ASSUME NEW c \in Callers, Release(c) PROVE TypeOK'
  <2>1. transfer' \in BOOLEAN
    BY <1>13 DEF Release
  <2> QED
    BY <1>13, <2>1 DEF Release
<1>14. ASSUME NEW c \in Callers, Deadline(c) PROVE TypeOK'
  BY <1>14 DEF Deadline
<1>15. CASE AcceptTop
  BY <1>15 DEF AcceptTop
<1>16. CASE AcceptFails
  BY <1>16 DEF AcceptFails
<1>17. CASE Handshake
  BY <1>17, CloseTypes DEF Handshake
<1>18. CASE Publish
  BY <1>18, CloseTypes DEF Publish
<1>19. CASE StoreClient
  BY <1>19 DEF StoreClient
<1>20. CASE AnnounceUp
  BY <1>20 DEF AnnounceUp
<1>21. CASE ServeUntilStop
  BY <1>21 DEF ServeUntilStop
<1>22. CASE PollTimesOut
  BY <1>22 DEF PollTimesOut, SweepTimeouts
<1>23. CASE ServeLine
  BY <1>23 DEF ServeLine, Take
<1>24. CASE ServeEof
  BY <1>24 DEF ServeEof
<1>25. CASE EndConnection
  BY <1>25, CloseTypes DEF EndConnection
<1>26. CASE DrainConnection
  BY <1>26 DEF DrainConnection, FailAllPending
<1>27. CASE AnnounceDown
  <2>1. told' \in BOOLEAN
    BY <1>27 DEF AnnounceDown
  <2> QED
    BY <1>27, <2>1 DEF AnnounceDown
<1>28. CASE Start
  BY <1>28 DEF Start, CreateUnixListener
<1>29. CASE Stop
  BY <1>29 DEF Stop
<1>30. CASE StopListening
  <2>1. listening' \in BOOLEAN
    BY <1>30 DEF StopListening
  <2> QED
    BY <1>30, <2>1 DEF StopListening
<1>31. CASE StopShutsClient
  BY <1>31 DEF StopShutsClient
<1>32. CASE StopJoins
  BY <1>32 DEF StopJoins
<1>33. CASE StopDrains
  BY <1>33 DEF StopDrains, FailAllPending
<1>34. CASE AgentConnects
  BY <1>34 DEF AgentConnects
<1>35. CASE AgentReads
  <2>1. Head(wire) \in Pieces /\ wire' \in Seq(Pieces) /\ Len(wire') <= Room
    BY <1>35 DEF AgentReads
  <2>2. Head(wire).c \in Callers
    BY <2>1 DEF Pieces
  <2>3. want \in Wants /\ want' \in Wants
    BY <1>35, WantStep DEF SafeInv, ConnInv
  <2>4. want' \in [c : Callers \cup {NoOne}, n : 0..Chunks]
    BY <2>3 DEF Wants, NoWant
  <2>5. busy' \in Callers \cup {NoOne}
    BY <1>35, <2>2, <2>3 DEF AgentReads, Wants, NoWant
  <2> QED
    BY <1>35, <2>1, <2>4, <2>5 DEF AgentReads
<1>36. CASE AgentAnswers
  <2>1. PICK kind \in {"ok", "error"} :
          inbox' = IF shut THEN inbox ELSE Append(inbox, Reply(busy, kind))
    BY <1>36 DEF AgentAnswers
  <2>2. Reply(busy, kind) \in Replies
    BY <1>36 DEF AgentAnswers, Reply, Replies
  <2>3. inbox' \in Seq(Replies)
    BY <2>1, <2>2
  <2> QED
    BY <1>36, <2>3 DEF AgentAnswers
<1>37. CASE AgentNoise
  <2>1. PICK kind \in {"stray", "oversized"} : inbox' = Append(inbox, Reply(NoOne, kind))
    BY <1>37 DEF AgentNoise
  <2>2. Reply(NoOne, kind) \in Replies
    BY DEF Reply, Replies
  <2>3. inbox' \in Seq(Replies)
    BY <2>1, <2>2
  <2> QED
    BY <1>37, <2>3 DEF AgentNoise
<1>38. CASE AgentDrops
  BY <1>38 DEF AgentDrops, NoWant
<1>39. CASE UNCHANGED vars
  BY <1>39 DEF vars
<1> QED
  BY <1>1, <1>2, <1>3, <1>4, <1>5, <1>6, <1>7, <1>8, <1>9, <1>10, <1>11, <1>12, <1>13, <1>14,
     <1>15, <1>16, <1>17, <1>18, <1>19, <1>20, <1>21, <1>22, <1>23, <1>24, <1>25, <1>26, <1>27,
     <1>28, <1>29, <1>30, <1>31, <1>32, <1>33, <1>34, <1>35, <1>36, <1>37, <1>38, <1>39
     DEF Next, CallerStep, AcceptStep, StopStep, AgentStep

\* Every step of every thread keeps the safety part.
LEMMA SafeStep == ClientInv /\ [Next]_vars => SafeInv'
<1> SUFFICES ASSUME ClientInv, [Next]_vars PROVE SafeInv'
  OBVIOUS
<1> USE DEF ClientInv, TypeOK, SafeInv, LockInv, ConnInv, StopInv, CallInv, Goto, Fire, Writing,
            Open, Published, Broken, NoWant, Wants, CallSteps, LineSteps, InstallSteps, AcceptSteps,
            Results,
            flags, link, tables, writer, threads, agent
<1>1. ASSUME NEW c \in Callers, Load(c) PROVE SafeInv'
  BY <1>1 DEF Load
<1>2. ASSUME NEW c \in Callers, Claim(c) PROVE SafeInv'
  BY <1>2 DEF Claim
<1>3. ASSUME NEW c \in Callers, AddPending(c) PROVE SafeInv'
  BY <1>3 DEF AddPending
<1>4. ASSUME NEW c \in Callers, TryLock(c) PROVE SafeInv'
  BY <1>4 DEF TryLock, LineLocked
<1>5. ASSUME NEW c \in Callers, Lock(c) PROVE SafeInv'
  BY <1>5 DEF Lock, LineLocked
<1>6. ASSUME NEW c \in Callers, SendLine(c) PROVE SafeInv'
  <2>1. mutex = c /\ accept \in Published /\ peer # "none"
    BY <1>6 DEF SendLine
  <2>2. CASE Put(c, "line") /\ Goto(c, "returned")
    BY <1>6, <2>1, <2>2 DEF SendLine, Unlock, Put
  <2>3. CASE Broken /\ Goto(c, "taking") /\ UNCHANGED wire
    BY <1>6, <2>1, <2>3 DEF SendLine, Unlock
  <2> QED
    BY <1>6, <2>2, <2>3 DEF SendLine
<1>7. ASSUME NEW c \in Callers, TakeBack(c) PROVE SafeInv'
  BY <1>7 DEF TakeBack, Take
<1>8. ASSUME NEW c \in Callers, OpenApk(c) PROVE SafeInv'
  BY <1>8 DEF OpenApk
<1>9. ASSUME NEW c \in Callers, LockForApk(c) PROVE SafeInv'
  BY <1>9 DEF LockForApk
<1>10. ASSUME NEW c \in Callers, SendHeader(c) PROVE SafeInv'
  <2>1. mutex = c /\ accept \in Published /\ peer # "none"
    BY <1>10 DEF SendHeader
  <2>2. CASE Put(c, "header") /\ left' = Chunks /\ Goto(c, "chunks")
             /\ UNCHANGED <<mutex, sendFd, shut>>
    BY <1>10, <2>1, <2>2 DEF SendHeader, Put
  <2>3. CASE BreakOff(c) /\ UNCHANGED wire
    BY <1>10, <2>1, <2>3 DEF SendHeader, BreakOff, Unlock
  <2> QED
    BY <1>10, <2>2, <2>3 DEF SendHeader
<1>11. ASSUME NEW c \in Callers, NextChunk(c) PROVE SafeInv'
  BY <1>11 DEF NextChunk, BreakOff, Unlock
<1>12. ASSUME NEW c \in Callers, SendChunk(c) PROVE SafeInv'
  <2>1. mutex = c /\ accept \in Published /\ peer # "none"
    BY <1>12 DEF SendChunk
  <2>2. CASE Put(c, "chunk") /\ left' = left - 1 /\ Goto(c, "chunks")
             /\ UNCHANGED <<mutex, sendFd, shut>>
    BY <1>12, <2>1, <2>2 DEF SendChunk, Put
  <2>3. CASE BreakOff(c) /\ UNCHANGED wire
    BY <1>12, <2>1, <2>3 DEF SendChunk, BreakOff, Unlock
  <2> QED
    BY <1>12, <2>2, <2>3 DEF SendChunk
<1>13. ASSUME NEW c \in Callers, Release(c) PROVE SafeInv'
  BY <1>13 DEF Release
<1>14. ASSUME NEW c \in Callers, Deadline(c) PROVE SafeInv'
  BY <1>14 DEF Deadline
<1>15. CASE AcceptTop
  BY <1>15 DEF AcceptTop
<1>16. CASE AcceptFails
  BY <1>16 DEF AcceptFails
<1>17. CASE Handshake
  BY <1>17 DEF Handshake, CloseConn
<1>18. CASE Publish
  BY <1>18 DEF Publish, CloseConn
<1>19. CASE StoreClient
  BY <1>19 DEF StoreClient
<1>20. CASE AnnounceUp
  BY <1>20 DEF AnnounceUp
<1>21. CASE ServeUntilStop
  BY <1>21 DEF ServeUntilStop
<1>22. CASE PollTimesOut
  BY <1>22 DEF PollTimesOut, SweepTimeouts
<1>23. CASE ServeLine
  BY <1>23 DEF ServeLine, Take
<1>24. CASE ServeEof
  BY <1>24 DEF ServeEof
<1>25. CASE EndConnection
  BY <1>25 DEF EndConnection, CloseConn
<1>26. CASE DrainConnection
  BY <1>26 DEF DrainConnection, FailAllPending
<1>27. CASE AnnounceDown
  BY <1>27 DEF AnnounceDown
<1>28. CASE Start
  <2>1. accept' \in {accept, "top"} /\ (accept' = "top" => accept \notin Open) /\ accept = "none"
    BY <1>28 DEF Start
  <2> QED
    BY <1>28, <2>1 DEF Start
<1>29. CASE Stop
  BY <1>29 DEF Stop
<1>30. CASE StopListening
  BY <1>30 DEF StopListening
<1>31. CASE StopShutsClient
  BY <1>31 DEF StopShutsClient
<1>32. CASE StopJoins
  BY <1>32 DEF StopJoins
<1>33. CASE StopDrains
  BY <1>33 DEF StopDrains, FailAllPending
<1>34. CASE AgentConnects
  BY <1>34 DEF AgentConnects
<1>35. CASE AgentReads
  <2>1. want' \in Wants
    BY <1>35, WantStep
  <2> QED
    BY <1>35, <2>1 DEF AgentReads
<1>36. CASE AgentAnswers
  BY <1>36 DEF AgentAnswers
<1>37. CASE AgentNoise
  BY <1>37 DEF AgentNoise
<1>38. CASE AgentDrops
  BY <1>38 DEF AgentDrops
<1>39. CASE UNCHANGED vars
  BY <1>39 DEF vars
<1> QED
  BY <1>1, <1>2, <1>3, <1>4, <1>5, <1>6, <1>7, <1>8, <1>9, <1>10, <1>11, <1>12, <1>13, <1>14,
     <1>15, <1>16, <1>17, <1>18, <1>19, <1>20, <1>21, <1>22, <1>23, <1>24, <1>25, <1>26, <1>27,
     <1>28, <1>29, <1>30, <1>31, <1>32, <1>33, <1>34, <1>35, <1>36, <1>37, <1>38, <1>39
     DEF Next, CallerStep, AcceptStep, StopStep, AgentStep

\* start() begins from a client that satisfies the invariant.
LEMMA InitClientInv == Init => ClientInv
<1> SUFFICES ASSUME Init PROVE ClientInv
  OBVIOUS
<1> USE DEF Init
<1>1. stopRequested \in BOOLEAN /\ listening \in BOOLEAN /\ transfer \in BOOLEAN
      /\ shut \in BOOLEAN /\ told \in BOOLEAN
  OBVIOUS
<1>2. TypeOK
  BY <1>1 DEF TypeOK, CallSteps, LineSteps, InstallSteps, AcceptSteps, StopSteps, Results, NoWant
<1>3. LockInv /\ StopInv /\ CallInv
  BY DEF LockInv, StopInv, CallInv, Writing
<1>4. ConnInv
  BY DEF ConnInv, Open, Published, Wants
<1> QED
  BY <1>2, <1>3, <1>4 DEF ClientInv, SafeInv

\* What holds of the mutex, the descriptor, stop() and the callbacks whenever
\* callers, accept thread and stop() stand between two steps, for any number of
\* calls and connections.
THEOREM ClientInvariance == Spec => []ClientInv
<1>1. ClientInv /\ [Next]_vars => ClientInv'
  BY TypeStep, SafeStep DEF ClientInv
<1> QED
  BY InitClientInv, <1>1, PTL DEF Spec

\* A writer only ever sends on the connection that is open, although the accept
\* thread opens and closes connections while request() and install_apk() run.
THEOREM DescriptorSafe == Spec => []NoUseAfterClose
<1>1. ClientInv => NoUseAfterClose
  BY DEF ClientInv, SafeInv, LockInv, ConnInv, NoUseAfterClose
<1> QED
  BY ClientInvariance, <1>1, PTL

\* ready(), the notices and the end of stop() agree with each other.
THEOREM NoticesTrue == Spec => []ConnectionTruth
<1>1. ClientInv => ConnectionTruth
  <2> SUFFICES ASSUME ClientInv PROVE ConnectionTruth
    OBVIOUS
  <2> USE DEF ClientInv, TypeOK, SafeInv, ConnInv, StopInv, Open, Published, AcceptSteps
  <2>1. told # (clientFd # 0) => accept \in {"announcing", "draining", "telling"}
    <3>1. told <=> accept \in {"serving", "ending", "draining", "telling"}
      OBVIOUS
    <3>2. clientFd # 0 <=> accept \in Published
      OBVIOUS
    <3> QED
      BY <3>1, <3>2
  <2> QED
    BY <2>1 DEF ConnectionTruth
<1> QED
  BY ClientInvariance, <1>1, PTL

-----------------------------------------------------------------------------
(* The refinement of AsyncCalls. *)

\* A step that runs no callback and begins no call is a stutter of AsyncCalls.
LEMMA ProgressStays ==
    ASSUME UNCHANGED result, \A c \in Callers : call'[c] = "idle" <=> call[c] = "idle"
    PROVE  Progress' = Progress
BY DEF Progress

\* Callbacks that were in the table, or in the hands of their caller, and are
\* run together for the first time finish their calls and no other.
LEMMA ProgressFinishes ==
    ASSUME ClientInv, NEW S \in SUBSET Callers, NEW kind \in {"ok", "error", "failed"},
           Fire(S, kind), \A c \in S : result[c] = "none" /\ call[c] # "idle",
           \A c \in Callers : call'[c] = "idle" <=> call[c] = "idle"
    PROVE  /\ \A c \in S : Progress[c] = "waiting"
           /\ Progress' = [c \in Callers |-> IF c \in S THEN kind ELSE Progress[c]]
<1>1. \A c \in S : Progress[c] = "waiting"
  BY DEF Progress
<1>2. \A c \in Callers : result'[c] = IF c \in S THEN kind ELSE result[c]
  BY DEF Fire
<1>3. \A c \in Callers : Progress'[c] = IF c \in S THEN kind ELSE Progress[c]
  BY <1>2 DEF Progress
<1>4. Progress' = [c \in Callers |-> Progress'[c]]
  BY DEF Progress
<1> QED
  BY <1>1, <1>3, <1>4

\* A set of calls that fail together is a FailAll.
LEMMA FailsTogether ==
    ASSUME ClientInv, NEW S \in SUBSET pending, Fire(S, "failed"), UNCHANGED accept,
           \A c \in Callers : call'[c] = "idle" <=> call[c] = "idle"
    PROVE  AsCalls!AbsNext
<1>1. S \in SUBSET Callers /\ \A c \in S : result[c] = "none" /\ call[c] # "idle"
  BY DEF ClientInv, TypeOK, SafeInv, CallInv
<1>2. AsCalls!FailAll(S)
  BY <1>1, ProgressFinishes DEF AsCalls!FailAll
<1> QED
  BY <1>1, <1>2 DEF AsCalls!AbsNext

\* A call that begins is issued, or refused at once.
LEMMA BeginsCall ==
    ASSUME ClientInv, NEW c \in Callers, call[c] = "idle", UNCHANGED accept,
           \/ UNCHANGED result /\ \E step \in {"adding", "opening"} : Goto(c, step)
           \/ Fire({c}, "failed") /\ Goto(c, "returned")
    PROVE  AsCalls!AbsNext
<1>1. result[c] = "none" /\ Progress[c] = "idle"
  BY DEF ClientInv, SafeInv, CallInv, Progress
<1>2. call \in [Callers -> CallSteps]
  BY DEF ClientInv, TypeOK
<1>3. CASE UNCHANGED result /\ \E step \in {"adding", "opening"} : Goto(c, step)
  <2>1. \A q \in Callers : Progress'[q] = IF q = c THEN "waiting" ELSE Progress[q]
    BY <1>1, <1>2, <1>3 DEF Progress, Goto
  <2>2. Progress' = [Progress EXCEPT ![c] = "waiting"]
    BY <2>1 DEF Progress
  <2>3. AsCalls!Issue(c)
    BY <1>1, <2>2 DEF AsCalls!Issue
  <2> QED
    BY <2>3 DEF AsCalls!AbsNext
<1>4. CASE Fire({c}, "failed") /\ Goto(c, "returned")
  <2>1. \A q \in Callers : Progress'[q] = IF q = c THEN "failed" ELSE Progress[q]
    BY <1>1, <1>2, <1>4 DEF Progress, Goto, Fire
  <2>2. Progress' = [Progress EXCEPT ![c] = "failed"]
    BY <2>1 DEF Progress
  <2>3. AsCalls!Refuse(c)
    BY <1>1, <2>2 DEF AsCalls!Refuse
  <2> QED
    BY <2>3 DEF AsCalls!AbsNext
<1> QED
  BY <1>3, <1>4

\* Every step of the client is a step or a stutter of AsyncCalls.
LEMMA RefineStep == ClientInv /\ [Next]_vars => [AsCalls!AbsNext]_(AsCalls!absVars)
<1> SUFFICES ASSUME ClientInv, [Next]_vars PROVE [AsCalls!AbsNext]_(AsCalls!absVars)
  OBVIOUS
<1> USE DEF flags, link, tables, writer, threads, agent
<1>a. call \in [Callers -> CallSteps] /\ expired \subseteq pending /\ pending \subseteq Callers
  BY DEF ClientInv, TypeOK
<1>b. ASSUME UNCHANGED result, (accept' # "done") = (accept # "done"),
             \A c \in Callers : call'[c] = "idle" <=> call[c] = "idle"
      PROVE  [AsCalls!AbsNext]_(AsCalls!absVars)
  BY <1>b, ProgressStays DEF AsCalls!absVars
<1>c. ASSUME UNCHANGED <<result, call>>, accept # "done", accept' = "done"
      PROVE  [AsCalls!AbsNext]_(AsCalls!absVars)
  BY <1>c, ProgressStays DEF AsCalls!AbsNext, AsCalls!Close
<1>1. ASSUME NEW c \in Callers, Load(c) \/ Claim(c)
      PROVE  [AsCalls!AbsNext]_(AsCalls!absVars)
  BY <1>1, BeginsCall DEF Load, Claim
<1>2. ASSUME NEW c \in Callers, TakeBack(c)
      PROVE  [AsCalls!AbsNext]_(AsCalls!absVars)
  BY <1>2, <1>a, FailsTogether DEF TakeBack, Take, Goto
<1>3. ASSUME NEW c \in Callers, OpenApk(c)
      PROVE  [AsCalls!AbsNext]_(AsCalls!absVars)
  <2>1. CASE UNCHANGED result
    BY <1>3, <2>1, <1>a, <1>b DEF OpenApk, Goto
  <2>2. CASE Fire({c}, "failed") /\ Goto(c, "returned")
    <3>1. call[c] = "opening" /\ result[c] = "none" /\ UNCHANGED accept
      BY <1>3 DEF OpenApk, ClientInv, SafeInv, CallInv
    <3>2. /\ Progress[c] = "waiting"
          /\ Progress' = [q \in Callers |-> IF q \in {c} THEN "failed" ELSE Progress[q]]
      BY <2>2, <3>1, <1>a, ProgressFinishes DEF Goto
    <3>3. Progress' = [Progress EXCEPT ![c] = "failed"]
      BY <3>2 DEF Progress
    <3>4. AsCalls!Fail(c)
      BY <3>1, <3>2, <3>3 DEF AsCalls!Fail
    <3> QED
      BY <3>4 DEF AsCalls!AbsNext
  <2> QED
    BY <1>3, <2>1, <2>2 DEF OpenApk
<1>4. ASSUME NEW c \in Callers,
             \/ AddPending(c) \/ TryLock(c) \/ Lock(c) \/ SendLine(c) \/ LockForApk(c)
             \/ SendHeader(c) \/ NextChunk(c) \/ SendChunk(c) \/ Release(c) \/ Deadline(c)
      PROVE  [AsCalls!AbsNext]_(AsCalls!absVars)
  <2>1. UNCHANGED <<result, accept>>
    BY <1>4 DEF AddPending, TryLock, Lock, SendLine, LockForApk, SendHeader, NextChunk, SendChunk,
                Release, Deadline
  <2>2. \A q \in Callers : call'[q] = "idle" <=> call[q] = "idle"
    BY <1>4, <1>a DEF AddPending, TryLock, Lock, LineLocked, SendLine, LockForApk, SendHeader,
                NextChunk, SendChunk, BreakOff, Release, Deadline, Goto
  <2> QED
    BY <2>1, <2>2, <1>b
<1>5. CASE PollTimesOut \/ DrainConnection \/ StopDrains
  <2>1. CASE PollTimesOut
    BY <2>1, <1>a, FailsTogether DEF PollTimesOut, SweepTimeouts
  <2>2. CASE StopDrains
    BY <2>2, <1>a, FailsTogether DEF StopDrains, FailAllPending
  <2>3. CASE DrainConnection
    <3>1. /\ \A c \in pending : Progress[c] = "waiting"
          /\ Progress' = [c \in Callers |-> IF c \in pending THEN "failed" ELSE Progress[c]]
      BY <2>3, <1>a, ProgressFinishes
         DEF DrainConnection, FailAllPending, ClientInv, SafeInv, CallInv
    <3>2. AsCalls!FailAll(pending)
      BY <2>3, <3>1 DEF AsCalls!FailAll, DrainConnection
    <3> QED
      BY <1>a, <3>2 DEF AsCalls!AbsNext
  <2> QED
    BY <1>5, <2>1, <2>2, <2>3
<1>6. CASE ServeLine
  <2> DEFINE line == Head(inbox)
  <2>1. CASE UNCHANGED tables
    BY <1>6, <2>1, <1>b DEF ServeLine
  <2>2. CASE line.kind \in {"ok", "error"} /\ Take(line.c, line.kind) /\ UNCHANGED accept
    <3>1. line \in Replies
      BY <1>6 DEF ServeLine, ClientInv, TypeOK
    <3>2. line.c \in Callers
      BY <2>2, <3>1 DEF Replies
    <3>3. UNCHANGED call /\ accept = "serving"
      BY <1>6 DEF ServeLine
    <3>4. CASE line.c \in pending
      <4>1. {line.c} \cap pending = {line.c} /\ Fire({line.c}, line.kind)
        BY <2>2, <3>4 DEF Take
      <4>2. result[line.c] = "none" /\ call[line.c] # "idle"
        BY <3>2, <3>4 DEF ClientInv, SafeInv, CallInv
      <4>3. /\ Progress[line.c] = "waiting"
            /\ Progress' = [q \in Callers |-> IF q \in {line.c} THEN line.kind ELSE Progress[q]]
        BY <2>2, <3>2, <3>3, <4>1, <4>2, ProgressFinishes
      <4>4. Progress' = [Progress EXCEPT ![line.c] = line.kind]
        BY <3>2, <4>3 DEF Progress
      <4>5. AsCalls!Answer(line.c)
        BY <2>2, <3>3, <4>3, <4>4 DEF AsCalls!Answer
      <4> QED
        BY <3>2, <4>5 DEF AsCalls!AbsNext
    <3>5. CASE line.c \notin pending
      <4>1. {line.c} \cap pending = {} /\ result \in [Callers -> Results]
        BY <3>5 DEF ClientInv, TypeOK
      <4>2. UNCHANGED result
        BY <2>2, <4>1 DEF Take, Fire
      <4> QED
        BY <2>2, <3>3, <4>2, <1>b
    <3> QED
      BY <3>4, <3>5
  <2> QED
    BY <1>6, <2>1, <2>2 DEF ServeLine
<1>7. CASE AcceptTop \/ Publish
  <2>1. UNCHANGED <<result, call>> /\ accept # "done"
    BY <1>7 DEF AcceptTop, Publish
  <2> QED
    BY <2>1, <1>b, <1>c
<1>8. CASE \/ AcceptFails \/ Handshake \/ StoreClient \/ AnnounceUp \/ ServeUntilStop \/ ServeEof
           \/ EndConnection \/ AnnounceDown
  <2>1. UNCHANGED <<result, call>> /\ accept # "done" /\ accept' # "done"
    BY <1>8 DEF AcceptFails, Handshake, StoreClient, AnnounceUp, ServeUntilStop, ServeEof,
                EndConnection, AnnounceDown
  <2> QED
    BY <2>1, <1>b
<1>9. CASE \/ Start \/ Stop \/ StopListening \/ StopShutsClient \/ StopJoins \/ UNCHANGED vars
  <2>1. UNCHANGED <<result, call>> /\ (accept' # "done") = (accept # "done")
    <3>1. CASE Start
      BY <3>1 DEF Start, ClientInv, SafeInv, StopInv
    <3>2. CASE Stop \/ StopListening \/ StopShutsClient \/ StopJoins \/ UNCHANGED vars
      BY <3>2 DEF Stop, StopListening, StopShutsClient, StopJoins, vars
    <3> QED
      BY <1>9, <3>1, <3>2
  <2> QED
    BY <2>1, <1>b
<1>10. CASE AgentStep
  <2>1. UNCHANGED <<result, call>> /\ (accept' # "done") = (accept # "done")
    BY <1>10 DEF AgentStep, AgentConnects, AgentReads, AgentAnswers, AgentNoise, AgentDrops
  <2> QED
    BY <2>1, <1>b
<1> QED
  BY <1>1, <1>2, <1>3, <1>4, <1>5, <1>6, <1>7, <1>8, <1>9, <1>10
     DEF Next, CallerStep, AcceptStep, StopStep

\* The client keeps the contract of an asynchronous channel: each callback is run
\* once, with an answer only before the accept thread has ended.
THEOREM ClientRefinement == Spec => ImplementsAsyncCalls
<1>1. Init => AsCalls!AbsInit
  BY DEF Init, AsCalls!AbsInit, Progress
<1> QED
  BY <1>1, RefineStep, ClientInvariance, PTL DEF Spec, ImplementsAsyncCalls, AsCalls!AbsSpec

-----------------------------------------------------------------------------
(* PayloadContiguous. *)

\* A step that leaves the wire alone: what the writer owes is the same, or
\* the connection is broken now.
LEMMA StreamStays ==
    ASSUME StreamInv, UNCHANGED <<wire, want>>, Broken' \/ (~Broken /\ Due' = Due)
    PROVE  StreamInv'
<1>1. PICK need \in [0..Len(wire) -> Wants] :
        /\ need[0] = want
        /\ \A i \in 1..Len(wire) :
             Fits(need[i - 1], wire[i]) /\ need[i] = Reads(need[i - 1], wire[i])
        /\ ~Broken => need[Len(wire)] = Due
  BY DEF StreamInv
<1>2. ~Broken' => need[Len(wire')] = Due'
  BY <1>1
<1> QED
  BY <1>1, <1>2 DEF StreamInv

\* A connection on which nothing is under way.
LEMMA StreamEmpty ==
    ASSUME wire' = <<>>, want' = NoWant, Broken' \/ Due' = NoWant
    PROVE  StreamInv'
<1> DEFINE need == [i \in 0..0 |-> NoWant]
<1>1. Len(wire') = 0 /\ need \in [0..Len(wire') -> Wants]
  BY DEF Wants
<1>2. /\ need[0] = want'
      /\ \A i \in 1..Len(wire') :
           Fits(need[i - 1], wire'[i]) /\ need[i] = Reads(need[i - 1], wire'[i])
      /\ ~Broken' => need[Len(wire')] = Due'
  BY <1>1
<1> HIDE DEF need
<1> QED
  BY <1>1, <1>2 DEF StreamInv

\* The writer sends what it owes: a piece that fits behind the others.
LEMMA StreamGrows ==
    ASSUME TypeOK, StreamInv, NEW c \in Callers, NEW part \in {"line", "header", "chunk"},
           Put(c, part), UNCHANGED want, Fits(Due, Piece(c, part)),
           Due' = Reads(Due, Piece(c, part)), Due' \in Wants
    PROVE  StreamInv'
<1>1. PICK need \in [0..Len(wire) -> Wants] :
        /\ need[0] = want
        /\ \A i \in 1..Len(wire) :
             Fits(need[i - 1], wire[i]) /\ need[i] = Reads(need[i - 1], wire[i])
        /\ need[Len(wire)] = Due
  BY DEF StreamInv, Put
<1> DEFINE n == Len(wire)
           longer == [i \in 0..(n + 1) |-> IF i <= n THEN need[i] ELSE Due']
<1>2. wire \in Seq(Pieces) /\ n \in Nat /\ wire' = Append(wire, Piece(c, part))
  BY DEF TypeOK, Put
<1>3. Piece(c, part) \in Pieces
  BY DEF Piece, Pieces
<1>4. /\ Len(wire') = n + 1 /\ wire'[n + 1] = Piece(c, part)
      /\ \A i \in 1..n : wire'[i] = wire[i]
  BY <1>2, <1>3
<1>5. longer \in [0..Len(wire') -> Wants]
  BY <1>1, <1>2, <1>4
<1>6. /\ longer[0] = want'
      /\ \A i \in 1..Len(wire') :
           Fits(longer[i - 1], wire'[i]) /\ longer[i] = Reads(longer[i - 1], wire'[i])
      /\ longer[Len(wire')] = Due'
  <2>1. longer[0] = want' /\ longer[n] = Due /\ longer[n + 1] = Due'
    BY <1>1, <1>2
  <2>2. \A i \in 1..n : longer[i - 1] = need[i - 1] /\ longer[i] = need[i]
    BY <1>2
  <2>3. \A i \in 1..n :
          Fits(longer[i - 1], wire'[i]) /\ longer[i] = Reads(longer[i - 1], wire'[i])
    BY <1>1, <1>4, <2>2
  <2> HIDE DEF longer
  <2> QED
    BY <1>2, <1>4, <2>1, <2>3
<1> HIDE DEF longer
<1> QED
  BY <1>5, <1>6 DEF StreamInv

\* The agent reads the first piece, and needs what the rest brings.
LEMMA StreamShrinks ==
    ASSUME TypeOK, StreamInv, AgentReads
    PROVE  StreamInv'
<1>1. PICK need \in [0..Len(wire) -> Wants] :
        /\ need[0] = want
        /\ \A i \in 1..Len(wire) :
             Fits(need[i - 1], wire[i]) /\ need[i] = Reads(need[i - 1], wire[i])
        /\ ~Broken => need[Len(wire)] = Due
  BY DEF StreamInv
<1> DEFINE n == Len(wire)
           shorter == [i \in 0..(n - 1) |-> need[i + 1]]
<1>2. wire \in Seq(Pieces) /\ n \in Nat \ {0} /\ wire' = Tail(wire) /\ Head(wire) = wire[1]
  BY DEF TypeOK, AgentReads
<1>3. Len(wire') = n - 1 /\ \A i \in 1..(n - 1) : wire'[i] = wire[i + 1]
  BY <1>2
<1>4. Broken' = Broken /\ Due' = Due
  BY DEF AgentReads, Broken, Due, writer, link
<1>5. shorter \in [0..Len(wire') -> Wants]
  BY <1>1, <1>2, <1>3
<1>6. want' = Reads(want, wire[1])
  BY <1>2 DEF AgentReads, Reads
<1>7. /\ shorter[0] = want'
      /\ \A i \in 1..Len(wire') :
           Fits(shorter[i - 1], wire'[i]) /\ shorter[i] = Reads(shorter[i - 1], wire'[i])
      /\ ~Broken' => shorter[Len(wire')] = Due'
  <2>1. shorter[0] = want'
    BY <1>1, <1>2, <1>6
  <2>2. \A i \in 1..(n - 1) : shorter[i - 1] = need[i] /\ shorter[i] = need[i + 1]
    BY <1>2
  <2>3. \A i \in 1..(n - 1) :
          Fits(need[i], wire[i + 1]) /\ need[i + 1] = Reads(need[i], wire[i + 1])
    BY <1>1, <1>2
  <2>4. shorter[n - 1] = need[n]
    BY <1>2
  <2> HIDE DEF shorter
  <2> QED
    BY <1>1, <1>3, <1>4, <2>1, <2>2, <2>3, <2>4
<1> HIDE DEF shorter
<1> QED
  BY <1>5, <1>7 DEF StreamInv

\* Every step keeps the pieces on the wire in order.
LEMMA StreamStep == ClientInv /\ StreamInv /\ [Next]_vars => StreamInv'
<1> SUFFICES ASSUME ClientInv, StreamInv, [Next]_vars PROVE StreamInv'
  OBVIOUS
<1> USE DEF flags, link, tables, writer, threads, agent
<1>a. TypeOK /\ call \in [Callers -> CallSteps] /\ left \in 0..Chunks
  BY DEF ClientInv, TypeOK
<1>b. /\ \A c \in Callers : call[c] \in Writing <=> mutex = c
      /\ mutex \in Callers => accept \in Published
      /\ \A c \in Callers : call[c] = "chunking" => left > 0
  BY DEF ClientInv, SafeInv, LockInv, ConnInv
<1>c. ASSUME UNCHANGED <<wire, want, peer>>, shut' \in {shut, TRUE}, Due' = Due PROVE StreamInv'
  BY <1>c, StreamStays DEF Broken, ClientInv, TypeOK
<1>1. ASSUME NEW c \in Callers,
             \/ Load(c) \/ Claim(c) \/ AddPending(c) \/ TakeBack(c) \/ OpenApk(c) \/ Release(c)
             \/ Deadline(c)
      PROVE  StreamInv'
  <2>1. UNCHANGED <<wire, want, peer, shut, mutex, left>>
    BY <1>1 DEF Load, Claim, AddPending, TakeBack, OpenApk, Release, Deadline
  <2>2. call[c] \notin Writing \/ UNCHANGED call
    BY <1>1 DEF Load, Claim, AddPending, TakeBack, OpenApk, Release, Deadline, Writing
  <2>3. \A q \in Callers \ {c} : call'[q] = call[q]
    BY <1>1, <1>a DEF Load, Claim, AddPending, TakeBack, OpenApk, Release, Deadline, Goto
  <2>4. Due' = Due
    BY <1>b, <2>1, <2>2, <2>3 DEF Due
  <2> QED
    BY <1>c, <2>1, <2>4
<1>2. ASSUME NEW c \in Callers, TryLock(c) \/ Lock(c) \/ LockForApk(c) PROVE StreamInv'
  <2>1. UNCHANGED <<wire, want, peer, shut, left>>
    BY <1>2 DEF TryLock, Lock, LockForApk
  <2>2. \A q \in Callers \ {c} : call'[q] = call[q]
    BY <1>2, <1>a DEF TryLock, Lock, LineLocked, LockForApk, Goto
  <2>3. call[c] \notin Writing /\ call'[c] \notin {"chunks", "chunking"}
    BY <1>2, <1>a DEF TryLock, Lock, LineLocked, LockForApk, Goto, Writing
  <2>4. mutex' = mutex \/ (mutex = NoOne /\ mutex' = c)
    BY <1>2 DEF TryLock, Lock, LineLocked, LockForApk
  <2>5. Due' = Due
    BY <1>b, <2>1, <2>2, <2>3, <2>4 DEF Due
  <2> QED
    BY <1>c, <2>1, <2>5
<1>3. ASSUME NEW c \in Callers, SendLine(c) PROVE StreamInv'
  <2>1. mutex = c /\ mutex' = NoOne /\ UNCHANGED <<want, peer, shut>> /\ call[c] = "sending"
    BY <1>3, <1>b DEF SendLine, Unlock, Writing
  <2>2. Due = NoWant /\ Due' = NoWant
    BY <2>1 DEF Due
  <2>3. CASE Put(c, "line")
    BY <1>a, <2>1, <2>2, <2>3, StreamGrows DEF Fits, Reads, Piece, NoWant, Wants
  <2>4. CASE UNCHANGED wire
    BY <1>c, <2>1, <2>2, <2>4
  <2> QED
    BY <1>3, <2>3, <2>4 DEF SendLine
<1>d. ASSUME NEW c \in Callers, BreakOff(c), UNCHANGED <<wire, want, peer>> PROVE StreamInv'
  BY <1>d, StreamStays DEF BreakOff, Broken
<1>4. ASSUME NEW c \in Callers, SendHeader(c) PROVE StreamInv'
  <2>1. mutex = c /\ UNCHANGED <<want, peer>> /\ call[c] = "header"
    BY <1>4, <1>b DEF SendHeader, Writing
  <2>2. CASE Put(c, "header") /\ left' = Chunks /\ Goto(c, "chunks") /\ UNCHANGED mutex
    <3>1. Due = NoWant
      BY <2>1 DEF Due
    <3>2. Due' = [c |-> c, n |-> Chunks]
      BY <1>a, <2>1, <2>2 DEF Due, Goto
    <3>3. Fits(Due, Piece(c, "header")) /\ Due' = Reads(Due, Piece(c, "header")) /\ Due' \in Wants
      BY <3>1, <3>2 DEF Fits, Reads, Piece, NoWant, Wants
    <3> QED
      BY <1>a, <2>1, <2>2, <3>3, StreamGrows
  <2> QED
    BY <1>4, <1>d, <2>1, <2>2 DEF SendHeader
<1>5. ASSUME NEW c \in Callers, NextChunk(c) PROVE StreamInv'
  <2>1. mutex = c /\ UNCHANGED <<want, wire, peer>> /\ call[c] = "chunks"
    BY <1>5, <1>b DEF NextChunk, Writing
  <2>2. CASE left = 0 /\ Unlock /\ UNCHANGED shut
    <3>1. Due = NoWant /\ Due' = NoWant
      BY <2>2 DEF Due, Unlock
    <3> QED
      BY <1>c, <2>1, <2>2, <3>1
  <2>3. CASE left > 0 /\ Goto(c, "chunking") /\ UNCHANGED <<mutex, left, shut>>
    <3>1. Due' = Due
      BY <1>a, <2>1, <2>3 DEF Due, Goto
    <3> QED
      BY <1>c, <2>1, <2>3, <3>1
  <2> QED
    BY <1>5, <1>d, <2>1, <2>2, <2>3 DEF NextChunk
<1>6. ASSUME NEW c \in Callers, SendChunk(c) PROVE StreamInv'
  <2>1. mutex = c /\ UNCHANGED <<want, peer>> /\ call[c] = "chunking" /\ left > 0
    BY <1>6, <1>b DEF SendChunk, Writing
  <2>2. CASE Put(c, "chunk") /\ left' = left - 1 /\ Goto(c, "chunks") /\ UNCHANGED mutex
    <3>1. Due = [c |-> c, n |-> left]
      BY <2>1 DEF Due
    <3>2. Due' = IF left = 1 THEN NoWant ELSE [c |-> c, n |-> left - 1]
      BY <1>a, <2>1, <2>2 DEF Due, Goto
    <3>3. Fits(Due, Piece(c, "chunk")) /\ Due' = Reads(Due, Piece(c, "chunk")) /\ Due' \in Wants
      BY <1>a, <2>1, <3>1, <3>2 DEF Fits, Reads, Piece, NoWant, Wants
    <3> QED
      BY <1>a, <2>1, <2>2, <3>3, StreamGrows
  <2> QED
    BY <1>6, <1>d, <2>1, <2>2 DEF SendChunk
<1>e. ASSUME CloseConn, mutex \notin Callers, UNCHANGED mutex PROVE StreamInv'
  <2>1. Due' = NoWant
    BY <1>e DEF Due
  <2> QED
    BY <1>e, <2>1, StreamEmpty DEF CloseConn
<1>7. CASE Handshake
  <2>1. mutex \notin Callers /\ UNCHANGED <<mutex, writer>>
    BY <1>7, <1>b DEF Handshake, Published
  <2>2. Due' = Due
    BY <2>1 DEF Due
  <2> QED
    BY <1>7, <1>c, <1>e, <2>1, <2>2 DEF Handshake
<1>8. CASE Publish
  <2>1. mutex = NoOne /\ UNCHANGED writer
    BY <1>8 DEF Publish
  <2>2. CASE mutex' = Acceptor /\ UNCHANGED <<link, agent>>
    <3>1. Due' = Due
      BY <2>1, <2>2 DEF Due
    <3> QED
      BY <1>c, <2>2, <3>1
  <2> QED
    BY <1>8, <1>e, <2>1, <2>2 DEF Publish
<1>9. CASE StoreClient
  <2>1. mutex \notin Callers /\ mutex' \notin Callers /\ UNCHANGED <<link, agent>>
    BY <1>9, <1>b DEF StoreClient, Published
  <2>2. Due' = Due
    BY <2>1 DEF Due
  <2> QED
    BY <1>c, <2>1, <2>2
<1>10. CASE EndConnection
  BY <1>10, <1>e DEF EndConnection
<1>11. CASE \/ AcceptTop \/ AcceptFails \/ AnnounceUp \/ ServeUntilStop \/ PollTimesOut \/ ServeLine
            \/ ServeEof \/ DrainConnection \/ AnnounceDown \/ Start \/ Stop \/ StopListening
            \/ StopJoins \/ StopDrains \/ AgentAnswers \/ AgentNoise \/ UNCHANGED vars
  <2>1. UNCHANGED <<wire, want, peer, shut, mutex, left, call>>
    BY <1>11 DEF AcceptTop, AcceptFails, AnnounceUp, ServeUntilStop, PollTimesOut, ServeLine,
         ServeEof, DrainConnection, AnnounceDown, Start, Stop, StopListening, StopJoins, StopDrains,
         AgentAnswers, AgentNoise, vars
  <2>2. Due' = Due
    BY <2>1 DEF Due
  <2> QED
    BY <1>c, <2>1, <2>2
<1>12. CASE StopShutsClient
  <2>1. UNCHANGED <<wire, want, peer, mutex, left, call>> /\ shut' \in {shut, TRUE}
    BY <1>12 DEF StopShutsClient, ClientInv, TypeOK
  <2>2. Due' = Due
    BY <2>1 DEF Due
  <2> QED
    BY <1>c, <2>1, <2>2
<1>13. CASE AgentConnects
  <2>1. mutex \notin Callers /\ UNCHANGED <<mutex, wire, want>> /\ wire = <<>> /\ want = NoWant
    BY <1>13, <1>b DEF AgentConnects, ClientInv, SafeInv, ConnInv, Open, Published
  <2>2. Due' = NoWant
    BY <2>1 DEF Due
  <2> QED
    BY <2>1, <2>2, StreamEmpty
<1>14. CASE AgentReads
  BY <1>14, <1>a, StreamShrinks
<1>15. CASE AgentDrops
  BY <1>15, StreamEmpty DEF AgentDrops, Broken
<1> QED
  BY <1>1, <1>2, <1>3, <1>4, <1>5, <1>6, <1>7, <1>8, <1>9, <1>10, <1>11, <1>12, <1>13, <1>14, <1>15
     DEF Next, CallerStep, AcceptStep, StopStep, AgentStep

\* While the agent reads the payload of an install it gets the chunks of that APK
\* and nothing else, for any length of the payload and any socket buffer, and
\* however many transfers break off.
THEOREM PayloadUnmixed == Spec => PayloadContiguous
<1>1. Init => StreamInv
  <2> SUFFICES ASSUME Init PROVE StreamInv
    OBVIOUS
  <2> DEFINE need == [i \in 0..0 |-> NoWant]
  <2>1. Len(wire) = 0 /\ Due = NoWant /\ need \in [0..Len(wire) -> Wants]
    BY DEF Init, Due, Wants
  <2>2. /\ need[0] = want
        /\ \A i \in 1..Len(wire) :
             Fits(need[i - 1], wire[i]) /\ need[i] = Reads(need[i - 1], wire[i])
        /\ ~Broken => need[Len(wire)] = Due
    BY <2>1 DEF Init
  <2> HIDE DEF need
  <2> QED
    BY <2>1, <2>2 DEF StreamInv
<1>2. ClientInv /\ StreamInv /\ wire # <<>> => Fits(want, Head(wire))
  <2> SUFFICES ASSUME ClientInv, StreamInv, wire # <<>> PROVE Fits(want, Head(wire))
    OBVIOUS
  <2>1. wire \in Seq(Pieces)
    BY DEF ClientInv, TypeOK
  <2>2. Len(wire) \in Nat \ {0} /\ Head(wire) = wire[1]
    BY <2>1
  <2> QED
    BY <2>2 DEF StreamInv
<1>3. ClientInv /\ StreamInv =>
        [ peer' = "up" /\ wire # <<>> /\ wire' = Tail(wire) =>
            /\ Head(wire).part = "chunk" <=> want.c # NoOne
            /\ want.c # NoOne => Head(wire).c = want.c ]_vars
  BY <1>2 DEF Fits
<1> QED
  BY <1>1, <1>3, StreamStep, ClientInvariance, PTL DEF Spec, PayloadContiguous
=============================================================================
