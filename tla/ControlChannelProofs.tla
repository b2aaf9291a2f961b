------------------------- MODULE ControlChannelProofs -------------------------
(***************************************************************************)
(* Machine-checked proofs about ControlChannel, for any set of requests,   *)
(* any socket room and any amount of unsolicited traffic.  IInv is the     *)
(* inductive invariant: a callback is in at most one of the table, the     *)
(* reader's hand, stop()'s hand and its caller's hand (Ownership), the     *)
(* reader's hand is empty except between a take and the calls it leads to  *)
(* (HandInv), and alive_ is never set without a reader (AliveInv).         *)
(***************************************************************************)
EXTENDS ControlChannel, TLAPS

\* connect() starts from a channel that satisfies the invariant.
LEMMA InitIInv == Init => IInv
<1> SUFFICES ASSUME Init PROVE IInv
  OBVIOUS
<1>1. alive \in BOOLEAN /\ ready \in BOOLEAN /\ stopRequested \in BOOLEAN
      /\ fdOpen \in BOOLEAN /\ shut \in BOOLEAN /\ peerOpen \in BOOLEAN
  BY DEF Init
<1>2. wire \in Seq(Requests) /\ inbox \in Seq(Answers \cup {Event, BadFrame})
  BY DEF Init
<1>3. TypeOK 
  BY <1>1, <1>2, HelloAssumption DEF Init, TypeOK, CallSteps, ReaderSteps, MonitorSteps
<1>4. ExactlyOnce
  BY DEF Init, ExactlyOnce
<1>5. Ownership
  BY DEF Init, Ownership
<1>6. HandInv /\ MonitorInv /\ AliveInv /\ NoneStranded /\ NoUseAfterClose
  BY DEF Init, HandInv, MonitorInv, AliveInv, NoneStranded, NoUseAfterClose
<1> QED
  BY <1>3, <1>4, <1>5, <1>6 DEF IInv, SafeInv

\* Running a callback keeps the types.
LEMMA FireTypeOK ==
  ASSUME TypeOK, NEW r \in Requests, NEW result \in {"ok", "error", "failed"},
         Fire(r, result)
  PROVE  /\ fired' \in [Requests -> Nat]
         /\ outcome' \in [Requests -> {"none", "ok", "error", "failed"}]
BY DEF TypeOK, Fire

\* So does a call of async_request, whichever way its first test goes.
LEMMA EnterTypeOK ==
  ASSUME TypeOK, NEW r \in Requests, Enter(r), UNCHANGED stopVars
  PROVE  TypeOK'
<1> USE DEF TypeOK, CallSteps, flags, fdVars, table, readVars, stopVars, results, peerVars
<1>1. CASE alive
  BY <1>1 DEF Enter
<1>2. CASE ~alive
  BY <1>2, FireTypeOK DEF Enter
<1> QED
  BY <1>1, <1>2

\* A call of async_request keeps the safety part: a request that has just been
\* made is nowhere else.
LEMMA EnterSafe ==
  ASSUME IInv, NEW r \in Requests, Enter(r), UNCHANGED stopVars
  PROVE  SafeInv'
<1> USE DEF IInv, TypeOK, SafeInv, ExactlyOnce, Ownership, Registered, HandInv, MonitorInv,
            AliveInv, NoneStranded, NoUseAfterClose, Answers,
            flags, fdVars, table, readVars, stopVars, results, peerVars
<1>1. CASE alive
  BY <1>1 DEF Enter
<1>2. CASE ~alive
  <2>1. /\ call[r] = "idle"
        /\ call' = [call EXCEPT ![r] = "returned"]
        /\ fired' = [fired EXCEPT ![r] = @ + 1]
        /\ UNCHANGED <<flags, fdVars, table, readVars>>
    BY <1>2 DEF Enter, Fire
  <2>2. fired[r] = 0 /\ r \notin pending /\ r \notin hand /\ r \notin swept
    BY <2>1
  <2> QED
    BY <2>1, <2>2
<1> QED
  BY <1>1, <1>2

\* Every step of every thread keeps the types.
LEMMA TypeStep == IInv /\ [Next]_vars => TypeOK'
<1> SUFFICES ASSUME IInv, [Next]_vars PROVE TypeOK'
  OBVIOUS
<1> USE HelloAssumption
        DEF IInv, TypeOK, Answers, CallSteps, ReaderSteps, ExitSteps, MonitorSteps, flags,
        fdVars, table, readVars, stopVars, results, peerVars
<1>1. ASSUME NEW r \in Requests, Request(r) PROVE TypeOK'
  BY <1>1, EnterTypeOK DEF Request
<1>2. ASSUME NEW r \in Requests, AddPending(r) PROVE TypeOK'
  BY <1>2 DEF AddPending
<1>3. ASSUME NEW r \in Requests, WriteLock(r) PROVE TypeOK'
  <2>1. CASE fdOpen /\ alive
    BY <1>3, <2>1 DEF WriteLock
  <2>2. CASE ~(fdOpen /\ alive)
    BY <1>3, <2>2 DEF WriteLock
  <2> QED
    BY <2>1, <2>2
<1>4. ASSUME NEW r \in Requests, SendDone(r) PROVE TypeOK'
  BY <1>4 DEF SendDone
<1>5. ASSUME NEW r \in Requests, SendFails(r) PROVE TypeOK'
  BY <1>5 DEF SendFails
<1>6. ASSUME NEW r \in Requests, TakeBack(r) PROVE TypeOK'
  BY <1>6 DEF TakeBack
<1>7. ASSUME NEW r \in Requests, FailWrite(r) PROVE TypeOK'
  BY <1>7, FireTypeOK DEF FailWrite
<1>8. ASSUME NEW r \in Requests, Deadline(r) PROVE TypeOK'
  BY <1>8 DEF Deadline
<1>9. ASSUME NEW r \in Requests, ExpireOne(r) PROVE TypeOK'
  BY <1>9, FireTypeOK DEF ExpireOne
<1>10. ASSUME NEW r \in Requests, ReaderFailOne(r) PROVE TypeOK'
  BY <1>10, FireTypeOK DEF ReaderFailOne
<1>11. ASSUME NEW r \in Requests, StopFailOne(r) PROVE TypeOK'
  BY <1>11, FireTypeOK DEF StopFailOne
<1>12. ASSUME NEW r \in Requests, PeerAnswers(r) PROVE TypeOK'
  BY <1>12 DEF PeerAnswers
<1>13. CASE ReaderLoop
  BY <1>13 DEF ReaderLoop
<1>14. CASE PollTimeout
  BY <1>14 DEF PollTimeout, Sweep
<1>15. CASE ReadFrame
  <2> DEFINE frame == Head(inbox)
  <2>1. frame \in Answers \cup {Event, BadFrame} /\ inbox' \in Seq(Answers \cup {Event, BadFrame})
    BY <1>15 DEF ReadFrame
  <2>2. frame.kind \in {"ok", "error"} => frame \in Answers
    BY <2>1 DEF Event, BadFrame
  <2>3. /\ pending' \in SUBSET Requests /\ hand' \in SUBSET Requests
        /\ answer' \in Answers \cup {NoAnswer} /\ reader' \in ReaderSteps
    BY <1>15, <2>1, <2>2 DEF ReadFrame
  <2> QED
    BY <1>15, <2>1, <2>3 DEF ReadFrame
<1>16. CASE ReadFails
  BY <1>16 DEF ReadFails
<1>17. CASE Deliver
  <2>1. ready' \in BOOLEAN
    BY <1>17 DEF Deliver
  <2>2. answer.to \in Requests /\ answer.kind \in {"ok", "error"}
    BY <1>17 DEF Deliver, SafeInv, HandInv
  <2>3. fired' \in [Requests -> Nat] /\ outcome' \in [Requests -> {"none", "ok", "error", "failed"}]
    BY <1>17, <2>2, FireTypeOK DEF Deliver
  <2> QED
    BY <1>17, <2>1, <2>3 DEF Deliver
<1>18. CASE SweepAfterResponse
  BY <1>18 DEF SweepAfterResponse, Sweep
<1>19. CASE SweepDone
  BY <1>19 DEF SweepDone
<1>20. CASE ReaderDead
  BY <1>20 DEF ReaderDead
<1>21. CASE ReaderUnready
  BY <1>21 DEF ReaderUnready
<1>22. CASE ReaderDrain
  BY <1>22 DEF ReaderDrain
<1>23. CASE ReaderReturn
  BY <1>23 DEF ReaderReturn
<1>24. CASE Start
  BY <1>24 DEF Start
<1>25. CASE StartWithoutSocket
  BY <1>25 DEF StartWithoutSocket
<1>26. CASE StartHello
  BY <1>26, EnterTypeOK DEF StartHello
<1>27. CASE StartReturns
  BY <1>27 DEF StartReturns
<1>28. CASE Stop
  BY <1>28 DEF Stop
<1>29. CASE StopShutdown
  BY <1>29 DEF StopShutdown
<1>30. CASE StopJoin
  BY <1>30 DEF StopJoin
<1>31. CASE StopClose
  BY <1>31 DEF StopClose, WriteMutexFree
<1>32. CASE StopDrain
  BY <1>32 DEF StopDrain
<1>33. CASE StopReturns
  BY <1>33 DEF StopReturns
<1>34. CASE PeerReads
  BY <1>34 DEF PeerReads
<1>35. CASE PeerNoise
  <2>1. inbox' \in Seq(Answers \cup {Event, BadFrame})
    <3>1. Event \in Answers \cup {Event, BadFrame} /\ BadFrame \in Answers \cup {Event, BadFrame}
      OBVIOUS
    <3>2. inbox \in Seq(Answers \cup {Event, BadFrame})
      OBVIOUS
    <3> HIDE DEF Answers, IInv, TypeOK
    <3>3. inbox' = Append(inbox, Event) \/ inbox' = Append(inbox, BadFrame)
      BY <1>35 DEF PeerNoise
    <3> QED
      BY <3>1, <3>2, <3>3
  <2> QED
    BY <1>35, <2>1 DEF PeerNoise
<1>36. CASE PeerExits
  <2>1. peerOpen' \in BOOLEAN
    BY <1>36 DEF PeerExits
  <2> QED
    BY <1>36, <2>1 DEF PeerExits
<1>37. CASE UNCHANGED vars
  BY <1>37 DEF vars
<1> QED
  BY <1>1, <1>2, <1>3, <1>4, <1>5, <1>6, <1>7, <1>8, <1>9, <1>10, <1>11, <1>12, <1>13,
       <1>14, <1>15, <1>16, <1>17, <1>18, <1>19, <1>20, <1>21, <1>22, <1>23, <1>24, <1>25,
       <1>26, <1>27, <1>28, <1>29, <1>30, <1>31, <1>32, <1>33, <1>34, <1>35, <1>36, <1>37
       DEF Next, CallerStep, ReaderStep, MonitorStep, StopStep, PeerStep

\* Every step of every thread keeps the safety part.
LEMMA SafeStep == IInv /\ [Next]_vars => SafeInv'
<1> SUFFICES ASSUME IInv, [Next]_vars PROVE SafeInv'
  OBVIOUS
<1> USE HelloAssumption
        DEF IInv, TypeOK, SafeInv, ExactlyOnce, Ownership, Registered, HandInv, MonitorInv,
            AliveInv, NoneStranded, NoUseAfterClose, Answers, flags, fdVars, table,
            readVars, stopVars, results, peerVars
<1>1. ASSUME NEW r \in Requests, Request(r) PROVE SafeInv'
  BY <1>1, EnterSafe DEF Request
<1>2. ASSUME NEW r \in Requests, AddPending(r) PROVE SafeInv'
  BY <1>2 DEF AddPending
<1>3. ASSUME NEW r \in Requests, WriteLock(r) PROVE SafeInv'
  BY <1>3 DEF WriteLock, WriteMutexFree
<1>4. ASSUME NEW r \in Requests, SendDone(r) PROVE SafeInv'
  BY <1>4 DEF SendDone
<1>5. ASSUME NEW r \in Requests, SendFails(r) PROVE SafeInv'
  BY <1>5 DEF SendFails
<1>6. ASSUME NEW r \in Requests, TakeBack(r) PROVE SafeInv'
  BY <1>6 DEF TakeBack
<1>7. ASSUME NEW r \in Requests, FailWrite(r) PROVE SafeInv'
  BY <1>7 DEF FailWrite, Fire
<1>8. ASSUME NEW r \in Requests, Deadline(r) PROVE SafeInv'
  BY <1>8 DEF Deadline
<1>9. ASSUME NEW r \in Requests, ExpireOne(r) PROVE SafeInv'
  BY <1>9 DEF ExpireOne, Fire
<1>10. ASSUME NEW r \in Requests, ReaderFailOne(r) PROVE SafeInv'
  BY <1>10 DEF ReaderFailOne, Fire
<1>11. ASSUME NEW r \in Requests, StopFailOne(r) PROVE SafeInv'
  BY <1>11 DEF StopFailOne, Fire
<1>12. ASSUME NEW r \in Requests, PeerAnswers(r) PROVE SafeInv'
  BY <1>12 DEF PeerAnswers
<1>13. CASE ReaderLoop
  BY <1>13 DEF ReaderLoop
<1>14. CASE PollTimeout
  BY <1>14 DEF PollTimeout, Sweep
<1>15. CASE ReadFrame
  <2> DEFINE frame == Head(inbox)
  <2>1. frame \in Answers \cup {Event, BadFrame}
    BY <1>15 DEF ReadFrame
  <2>2. frame.kind \in {"ok", "error"} => frame \in Answers
    BY <2>1 DEF Event, BadFrame
  <2> HIDE DEF frame
  <2>3. \/ UNCHANGED <<pending, hand, answer>> /\ reader' \in {"exit", "loop"}
        \/ /\ frame \in Answers
           /\ frame.to \in pending /\ pending' = pending \ {frame.to}
           /\ hand' = {frame.to} /\ answer' = frame /\ reader' = "deliver"
    BY <1>15, <2>2 DEF ReadFrame, frame
  <2>4. UNCHANGED <<call, flags, fdVars, expired, stopVars, results>> /\ reader = "poll"
    BY <1>15 DEF ReadFrame
  <2> QED
    BY <2>3, <2>4
<1>16. CASE ReadFails
  BY <1>16 DEF ReadFails
<1>17. CASE Deliver
  BY <1>17 DEF Deliver, Fire
<1>18. CASE SweepAfterResponse
  BY <1>18 DEF SweepAfterResponse, Sweep
<1>19. CASE SweepDone
  BY <1>19 DEF SweepDone
<1>20. CASE ReaderDead
  BY <1>20 DEF ReaderDead
<1>21. CASE ReaderUnready
  BY <1>21 DEF ReaderUnready
<1>22. CASE ReaderDrain
  BY <1>22 DEF ReaderDrain
<1>23. CASE ReaderReturn
  BY <1>23 DEF ReaderReturn
<1>24. CASE Start
  BY <1>24 DEF Start
<1>25. CASE StartWithoutSocket
  BY <1>25 DEF StartWithoutSocket
<1>26. CASE StartHello
  BY <1>26, EnterSafe DEF StartHello
<1>27. CASE StartReturns
  BY <1>27 DEF StartReturns
<1>28. CASE Stop
  BY <1>28 DEF Stop
<1>29. CASE StopShutdown
  BY <1>29 DEF StopShutdown
<1>30. CASE StopJoin
  BY <1>30 DEF StopJoin
<1>31. CASE StopClose
  BY <1>31 DEF StopClose, WriteMutexFree
<1>32. CASE StopDrain
  BY <1>32 DEF StopDrain
<1>33. CASE StopReturns
  BY <1>33 DEF StopReturns
<1>34. CASE PeerReads
  BY <1>34 DEF PeerReads
<1>35. CASE PeerNoise
  BY <1>35 DEF PeerNoise
<1>36. CASE PeerExits
  BY <1>36 DEF PeerExits
<1>37. CASE UNCHANGED vars
  BY <1>37 DEF vars
<1> QED
  BY <1>1, <1>2, <1>3, <1>4, <1>5, <1>6, <1>7, <1>8, <1>9, <1>10, <1>11, <1>12, <1>13,
       <1>14, <1>15, <1>16, <1>17, <1>18, <1>19, <1>20, <1>21, <1>22, <1>23, <1>24, <1>25,
       <1>26, <1>27, <1>28, <1>29, <1>30, <1>31, <1>32, <1>33, <1>34, <1>35, <1>36, <1>37
       DEF Next, CallerStep, ReaderStep, MonitorStep, StopStep, PeerStep

\* The invariant holds throughout.
LEMMA Invariance == Spec => []IInv
<1>1. IInv /\ [Next]_vars => IInv'
  BY TypeStep, SafeStep DEF IInv
<1> QED
  BY InitIInv, <1>1, PTL DEF Spec

(* The state of the class ControlChannel stays well formed.                *)
THEOREM TypeCorrect == Spec => []TypeOK
<1>1. IInv => TypeOK
  BY DEF IInv
<1> QED
  BY Invariance, <1>1, PTL

(* request(): response, timeout sweep, channel death, stop() and a failed   *)
(* write never run the same callback twice.                                *)
THEOREM CallbackExactlyOnce == Spec => []ExactlyOnce
<1>1. IInv => ExactlyOnce
  BY DEF IInv, SafeInv
<1> QED
  BY Invariance, <1>1, PTL

(* request() racing the reader's exit: a request added after fail_all is   *)
(* always failed by its own caller.                                        *)
THEOREM NoRequestStranded == Spec => []NoneStranded
<1>1. IInv => NoneStranded
  BY DEF IInv, SafeInv
<1> QED
  BY Invariance, <1>1, PTL

(* stop(): localFd_ is closed only when no thread can still be using it.   *)
THEOREM DescriptorSafe == Spec => []NoUseAfterClose
<1>1. IInv => NoUseAfterClose
  BY DEF IInv, SafeInv
<1> QED
  BY Invariance, <1>1, PTL
-------------------------------------------------------------------------------
(* The refinement of AsyncCalls.                                           *)

progressMap == [r \in Requests |-> ProgressOf(r)]

\* A step that leaves the callbacks alone is a stutter of AsyncCalls.
LEMMA MapStutters ==
  ASSUME UNCHANGED results, \A q \in Requests : call'[q] = "idle" <=> call[q] = "idle"
  PROVE  progressMap' = progressMap
BY DEF progressMap, ProgressOf, results

\* A step that runs one callback for the first time answers or fails its call.
LEMMA MapFinishes ==
  ASSUME IInv, NEW r \in Requests, NEW result \in {"ok", "error", "failed"},
         fired[r] = 0, call[r] # "idle", Fire(r, result),
         \A q \in Requests : call'[q] = "idle" <=> call[q] = "idle"
  PROVE  /\ progressMap[r] = "waiting"
         /\ progressMap' = [progressMap EXCEPT ![r] = result]
<1>1. /\ fired' = [fired EXCEPT ![r] = 1]
      /\ outcome' = [outcome EXCEPT ![r] = result]
      /\ fired \in [Requests -> Nat] /\ outcome \in [Requests -> {"none", "ok", "error", "failed"}]
  BY DEF Fire, IInv, TypeOK
<1>2. \A q \in Requests : ProgressOf(q)' = IF q = r THEN result ELSE ProgressOf(q)
  BY <1>1 DEF ProgressOf
<1> QED
  BY <1>2 DEF progressMap, ProgressOf

\* A call of async_request is an Issue, or a Refuse when the channel is not up.
LEMMA EnterRefines ==
  ASSUME IInv, NEW r \in Requests, Enter(r)
  PROVE  Calls!Issue(r) \/ Calls!Refuse(r)
<1>1. UNCHANGED reader
  BY DEF Enter, readVars
<1>2. call[r] = "idle" /\ fired[r] = 0
      /\ call \in [Requests -> CallSteps] /\ progressMap[r] = "idle"
  BY DEF Enter, IInv, SafeInv, TypeOK, Ownership, progressMap, ProgressOf
<1>3. CASE alive
  <2>1. call' = [call EXCEPT ![r] = "adding"] /\ UNCHANGED results
    BY <1>3 DEF Enter
  <2>2. \A q \in Requests : ProgressOf(q)' = IF q = r THEN "waiting" ELSE ProgressOf(q)
    BY <1>2, <2>1 DEF ProgressOf, results
  <2>3. progressMap' = [progressMap EXCEPT ![r] = "waiting"]
    BY <2>2 DEF progressMap
  <2> QED
    BY <1>1, <1>2, <2>3 DEF Calls!Issue, progressMap
<1>4. CASE ~alive
  <2>1. call' = [call EXCEPT ![r] = "returned"] /\ Fire(r, "failed")
    BY <1>4 DEF Enter
  <2>2. /\ fired' = [fired EXCEPT ![r] = 1]
        /\ outcome' = [outcome EXCEPT ![r] = "failed"]
        /\ fired \in [Requests -> Nat]
        /\ outcome \in [Requests -> {"none", "ok", "error", "failed"}]
    BY <2>1, <1>2 DEF Fire, IInv, TypeOK
  <2>3. \A q \in Requests : ProgressOf(q)' = IF q = r THEN "failed" ELSE ProgressOf(q)
    BY <1>2, <2>1, <2>2 DEF ProgressOf
  <2>4. progressMap' = [progressMap EXCEPT ![r] = "failed"]
    BY <2>3 DEF progressMap
  <2> QED
    BY <1>1, <1>2, <2>4 DEF Calls!Refuse, progressMap
<1> QED
  BY <1>3, <1>4

\* Every step of the channel is a step or a stutter of AsyncCalls.
LEMMA RefineStep == IInv /\ [Next]_vars => [Calls!AbsNext]_(Calls!absVars)
<1> SUFFICES ASSUME IInv, [Next]_vars PROVE [Calls!AbsNext]_(Calls!absVars)
  OBVIOUS
<1> DEFINE open == reader \notin ExitSteps
<1> USE DEF flags, fdVars, table, readVars, stopVars, results, peerVars
<1>a. ASSUME UNCHANGED results, open' = open,
             \A q \in Requests : call'[q] = "idle" <=> call[q] = "idle"
      PROVE  [Calls!AbsNext]_(Calls!absVars)
  BY <1>a, MapStutters DEF Calls!absVars, progressMap
<1>b. ASSUME UNCHANGED results, UNCHANGED call, open, ~open'
      PROVE  [Calls!AbsNext]_(Calls!absVars)
  BY <1>b, MapStutters DEF Calls!AbsNext, Calls!Close, progressMap
<1>c. ASSUME NEW r \in Requests, Fire(r, "failed"), fired[r] = 0, call[r] # "idle",
             UNCHANGED reader,
             \A q \in Requests : call'[q] = "idle" <=> call[q] = "idle"
      PROVE  [Calls!AbsNext]_(Calls!absVars)
  <2>1. Calls!Fail(r)
    BY <1>c, MapFinishes DEF Calls!Fail, progressMap
  <2> QED
    BY <2>1 DEF Calls!AbsNext
<1>d. ASSUME NEW r \in Requests, Enter(r) PROVE [Calls!AbsNext]_(Calls!absVars)
  BY <1>d, EnterRefines DEF Calls!AbsNext
<1>1. ASSUME NEW r \in Requests, Request(r) \/ CallerStep(r) \/ Deadline(r)
      PROVE  [Calls!AbsNext]_(Calls!absVars)
  <2>1. CASE Request(r)
    BY <2>1, <1>d DEF Request
  <2>2. CASE FailWrite(r)
    BY <2>2, <1>c DEF FailWrite, IInv, SafeInv, TypeOK, Ownership
  <2>3. CASE AddPending(r) \/ WriteLock(r) \/ SendDone(r) \/ SendFails(r) \/ TakeBack(r)
             \/ Deadline(r)
    BY <2>3, <1>a DEF AddPending, WriteLock, SendDone, SendFails, TakeBack, Deadline, IInv, TypeOK
  <2> QED
    BY <1>1, <2>1, <2>2, <2>3 DEF CallerStep
<1>2. CASE ReaderStep
  <2>1. CASE ReaderLoop \/ ReadFails \/ ReadFrame
    <3>1. UNCHANGED <<call, results>> /\ open
      BY <2>1 DEF ReaderLoop, ReadFails, ReadFrame, ExitSteps
    <3> QED
      BY <3>1, <1>a, <1>b
  <2>2. CASE Deliver
    <3>1. /\ answer.to \in Requests /\ answer.kind \in {"ok", "error"}
          /\ fired[answer.to] = 0 /\ call[answer.to] # "idle"
      BY <2>2 DEF Deliver, IInv, SafeInv, HandInv, Ownership, Registered, Answers
    <3>2. Fire(answer.to, answer.kind) /\ UNCHANGED call /\ open' = open /\ open
      BY <2>2 DEF Deliver, ExitSteps
    <3>3. Calls!Answer(answer.to)
      BY <3>1, <3>2, MapFinishes DEF Calls!Answer, progressMap
    <3> QED
      BY <3>1, <3>3 DEF Calls!AbsNext
  <2>3. CASE PollTimeout \/ SweepAfterResponse \/ SweepDone \/ ReaderDead \/ ReaderUnready
             \/ ReaderDrain \/ ReaderReturn
    <3>1. UNCHANGED <<call, results>> /\ open' = open
      BY <2>3 DEF PollTimeout, SweepAfterResponse, Sweep, SweepDone, ReaderDead, ReaderUnready,
                  ReaderDrain, ReaderReturn, ExitSteps
    <3> QED
      BY <3>1, <1>a
  <2>4. ASSUME NEW r \in Requests, ExpireOne(r) \/ ReaderFailOne(r)
        PROVE  [Calls!AbsNext]_(Calls!absVars)
    BY <2>4, <1>c DEF ExpireOne, ReaderFailOne, IInv, SafeInv, Ownership, Registered
  <2> QED
    BY <1>2, <2>1, <2>2, <2>3, <2>4 DEF ReaderStep
<1>3. CASE MonitorStep
  <2>1. CASE StartHello
    BY <2>1, <1>d, HelloAssumption DEF StartHello
  <2>2. ASSUME NEW r \in Requests, StopFailOne(r)
        PROVE  [Calls!AbsNext]_(Calls!absVars)
    BY <2>2, <1>c DEF StopFailOne, IInv, SafeInv, Ownership, Registered
  <2>3. CASE Start \/ StartWithoutSocket \/ StartReturns \/ Stop \/ StopShutdown \/ StopJoin
             \/ StopClose \/ StopDrain \/ StopReturns
    <3>1. UNCHANGED <<call, results>> /\ open' = open
      BY <2>3 DEF Start, StartWithoutSocket, StartReturns, Stop, StopShutdown, StopJoin, StopClose,
                  StopDrain, StopReturns, ExitSteps, IInv, SafeInv, MonitorInv
    <3> QED
      BY <3>1, <1>a
  <2> QED
    BY <1>3, <2>1, <2>2, <2>3 DEF MonitorStep, StopStep
<1>4. CASE PeerStep \/ UNCHANGED vars
  <2>1. UNCHANGED <<call, results, reader>>
    BY <1>4 DEF PeerStep, PeerReads, PeerNoise, PeerExits, PeerAnswers, vars
  <2> QED
    BY <2>1, <1>a
<1> QED
  BY <1>1, <1>2, <1>3, <1>4 DEF Next

(* The channel implements the exactly-once contract AsyncCalls.            *)
THEOREM Refinement == Spec => ImplementsAsyncCalls
<1>1. Init => Calls!AbsInit
  BY DEF Init, Calls!AbsInit, ProgressOf, ExitSteps
<1> QED
  BY <1>1, RefineStep, Invariance, PTL DEF Spec, ImplementsAsyncCalls, Calls!AbsSpec
===============================================================================
