-------------------------- MODULE ConsumerStartup --------------------------
(***************************************************************************)
(* The constructor of the consumer of consumer.hpp.  Members are           *)
(* constructed in the order of their declaration, and that puts each       *)
(* thread before the mutex that it locks and both before the condition     *)
(* variable that they wait on.  A thread that runs ahead uses memory that  *)
(* holds no mutex or condition variable yet: undefined behaviour, of which *)
(* the model has the outcomes that a POSIX build shows.  Consumer takes    *)
(* over when the constructor returns, and ConsumerStartupProofs shows that *)
(* this is right for every start in which no thread ran ahead.             *)
(***************************************************************************)
EXTENDS ConsumerProperties

\* The members after exit, numbered in the order of their declaration: the
\* thread and the mutex of the blocks, those of the traces, and the condition.
ThreadOf(l) == IF l = "blocks" THEN 1 ELSE 3
MutexOf(l) == ThreadOf(l) + 1
Condition == 5

VARIABLES
  built,     \* the member constructed last
  damaged    \* history: a worker used a member before it was constructed

startup == <<built, damaged>>
allVars == <<vars, startup>>

\* The lane's thread runs, its mutex exists, the constructor has returned.
Running(l) == built >= ThreadOf(l)
MutexBuilt(l) == built >= MutexOf(l)
Constructed == built = Condition

StartupInit ==
  /\ Init
  /\ built = 0
  /\ damaged = FALSE

-----------------------------------------------------------------------------
(* The main thread: the constructor, then what Consumer has it do.         *)

\* Constructing a mutex makes it free, whoever locked the memory before; a
\* condition variable knows nobody who waits.
Construct ==
  /\ ~Constructed
  /\ built' = built + 1
  /\ mtx' = [l \in Lanes |-> IF built' = MutexOf(l) THEN "free" ELSE mtx[l]]
  /\ pc' = IF Constructed' THEN [l \in Lanes |-> IF pc[l] = "waiting" THEN "stuck" ELSE pc[l]]
           ELSE pc
  /\ UNCHANGED <<lists, exit, main, history, damaged>>

MainThread ==
  /\ Constructed
  /\ \/ PushBlockState \/ PushTransactionTrace \/ QueueStep
     \/ Shutdown \/ Destructor \/ ExitStep
  /\ UNCHANGED startup

-----------------------------------------------------------------------------
(* A worker thread.                                                        *)

\* It uses what exists.
InTime(l) ==
  /\ Running(l)
  /\ pc[l] = "lock" => MutexBuilt(l)
  /\ pc[l] = "wait" => Constructed
  /\ Worker(l)
  /\ UNCHANGED startup

\* Locking what is no mutex yet throws (the loop logs it and goes on), works,
\* or never returns.
LockTooEarly(l) ==
  /\ Running(l) /\ ~MutexBuilt(l)
  /\ pc[l] = "lock"
  /\ \/ Goto(l, "top") /\ UNCHANGED mtx
     \/ Goto(l, "test") /\ mtx' = [mtx EXCEPT ![l] = "worker"]
     \/ Goto(l, "stuck") /\ UNCHANGED mtx
  /\ UNCHANGED <<lists, exit, history>>

\* So does waiting on what is no condition variable yet, for the mutex is
\* released; a thread that blocks may never be found again.
WaitTooEarly(l) ==
  /\ Running(l) /\ ~Constructed
  /\ pc[l] = "wait"
  /\ mtx' = [mtx EXCEPT ![l] = "free"]
  /\ \E next \in {"top", "waiting", "stuck"} : Goto(l, next)
  /\ UNCHANGED <<lists, exit, history>>

TooEarly(l) ==
  /\ LockTooEarly(l) \/ WaitTooEarly(l)
  /\ damaged' = TRUE
  /\ UNCHANGED <<main, built>>

OnItsOwn(l) ==
  /\ Running(l)
  /\ Wakeup(l) \/ UseAfterDestruction(l)
  /\ UNCHANGED startup

StartupNext ==
  \/ Construct
  \/ MainThread
  \/ \E l \in Lanes : InTime(l) \/ TooEarly(l) \/ OnItsOwn(l)

StartupSpec == StartupInit /\ [][StartupNext]_allVars

\* As in Consumer: every thread is scheduled, the main one and the workers
\* alike, and a mutex that is free again and again is not refused forever.
FairStartupSpec ==
  /\ StartupSpec
  /\ WF_allVars(Construct)
  /\ WF_allVars(QueueStep /\ UNCHANGED startup)
  /\ WF_allVars(ExitStep /\ UNCHANGED startup)
  /\ SF_allVars(QueueLock /\ UNCHANGED startup)
  /\ SF_allVars(QueueSleep /\ UNCHANGED startup)
  /\ \A l \in Lanes :
       /\ WF_allVars(InTime(l) \/ TooEarly(l))
       /\ SF_allVars((InTime(l) \/ TooEarly(l)) /\ pc[l] = "lock")

-----------------------------------------------------------------------------
(* A start that no thread ran ahead of behaves as Consumer says, so that   *)
(* the properties of the consumer hold from its construction on.           *)
ConsumerUnlessDamaged == Init /\ [][Next \/ damaged']_vars

(* consumer_test.cpp constructs a consumer, pushes 1 and 10 and waits for  *)
(* them to be consumed: an entry pushed after the constructor returned is  *)
(* handled, unless the consumer is told to exit.                           *)
StartedIsServed ==
  \A l \in Lanes : pushed[l] >= 1 ~> (handled[l] >= 1 \/ exit)
=============================================================================
