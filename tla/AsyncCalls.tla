------------------------------ MODULE AsyncCalls ------------------------------
(***************************************************************************)
(* What an asynchronous request channel promises its callers, whatever     *)
(* threads, tables and sockets it is made of: a call that was issued is    *)
(* completed exactly once, with the peer's answer only while the channel   *)
(* is open, and with a failure otherwise.  A call that never completes     *)
(* would leave the shell waiting for ever; one that completes twice would  *)
(* run its continuation twice.                                             *)
(***************************************************************************)
CONSTANT Calls

VARIABLES
  progress,  \* progress[c]: how far call c has come
  open       \* the peer can still answer

absVars == <<progress, open>>

Progress == {"idle", "waiting", "ok", "error", "failed"}
Finished == {"ok", "error", "failed"}

AbsTypeOK ==
  /\ progress \in [Calls -> Progress]
  /\ open \in BOOLEAN

AbsInit ==
  /\ progress = [c \in Calls |-> "idle"]
  /\ open = TRUE

Issue(c) ==
  /\ progress[c] = "idle"
  /\ progress' = [progress EXCEPT ![c] = "waiting"]
  /\ UNCHANGED open

\* A call made on a channel that is not up fails before it is ever waiting.
Refuse(c) ==
  /\ progress[c] = "idle"
  /\ progress' = [progress EXCEPT ![c] = "failed"]
  /\ UNCHANGED open

Answer(c) ==
  /\ open
  /\ progress[c] = "waiting"
  /\ \E answer \in {"ok", "error"} :
       progress' = [progress EXCEPT ![c] = answer]
  /\ UNCHANGED open

Fail(c) ==
  /\ progress[c] = "waiting"
  /\ progress' = [progress EXCEPT ![c] = "failed"]
  /\ UNCHANGED open

\* Calls that are taken out of a table together fail together.
FailAll(S) ==
  /\ \A c \in S : progress[c] = "waiting"
  /\ progress' = [c \in Calls |-> IF c \in S THEN "failed" ELSE progress[c]]
  /\ UNCHANGED open

Close ==
  /\ open
  /\ open' = FALSE
  /\ UNCHANGED progress

AbsNext ==
  \/ Close
  \/ \E S \in SUBSET Calls : FailAll(S)
  \/ \E c \in Calls : Issue(c) \/ Refuse(c) \/ Answer(c) \/ Fail(c)

AbsSpec == AbsInit /\ [][AbsNext]_absVars
===============================================================================
