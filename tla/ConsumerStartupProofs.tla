----------------------- MODULE ConsumerStartupProofs -----------------------
(***************************************************************************)
(* Why Consumer may start when the constructor has returned.  As long as   *)
(* no thread used a member before it was constructed, a lane without a     *)
(* mutex has done nothing and nobody waits on a condition variable that    *)
(* does not exist, so constructing them changes nothing that Consumer      *)
(* knows of; and nothing is pushed and exit is not set before the          *)
(* constructor returned.                                                   *)
(***************************************************************************)
EXTENDS ConsumerStartup, ConsumerProofs

(* What the constructor has not come to yet is as it was, unless damaged.  *)
StartupInv ==
  /\ pc \in [Lanes -> WorkerPc \cup {"stuck"}]
  /\ mtx \in [Lanes -> {"free", "main", "worker"}]
  /\ mpc \in MainPc /\ task \in Tasks
  /\ built \in 0..5
  /\ ~Constructed => mpc = "idle" /\ exit = FALSE
  /\ ~damaged =>
       /\ \A l \in Lanes : ~MutexBuilt(l) => mtx[l] = "free" /\ pc[l] \in {"top", "lock"}
       /\ ~Constructed => \A l \in Lanes : pc[l] # "waiting"

USE DEF Lanes, lists, history, main, vars, WorkerPc, MainPc, Tasks, Alive, Goto, Woken,
        NotifyAll, NotifyOne, startup, ThreadOf, MutexOf, Condition, Running, MutexBuilt,
        Constructed

LEMMA StartupInitInv == StartupInit => StartupInv
  BY DEF StartupInit, StartupInv, Init

(* The constructor goes on. *)
LEMMA ConstructStep ==
  ASSUME StartupInv, Construct
  PROVE  StartupInv' /\ (damaged \/ UNCHANGED vars)
<1> USE DEF StartupInv, Construct
<1>1. built' \in 0..5 /\ damaged' = damaged
  OBVIOUS
<1>2. mtx' \in [Lanes -> {"free", "main", "worker"}]
  OBVIOUS
<1>3. pc' \in [Lanes -> WorkerPc \cup {"stuck"}]
  OBVIOUS
<1>4. ASSUME ~damaged PROVE UNCHANGED <<mtx, pc>>
  <2>1. \A l \in Lanes : mtx'[l] = mtx[l]
    BY <1>4
  <2>2. \A l \in Lanes : pc'[l] = pc[l]
    BY <1>4
  <2> QED
    BY <1>2, <1>3, <2>1, <2>2
<1>5. ~damaged => UNCHANGED vars
  BY <1>4
<1> QED
  BY <1>1, <1>2, <1>3, <1>4, <1>5

(* The main thread works only on a consumer that is constructed. *)
LEMMA MainThreadStep ==
  ASSUME StartupInv, MainThread
  PROVE  StartupInv' /\ Next
<1> USE DEF StartupInv, MainThread
<1>1. Next
  BY DEF Next
<1>2. /\ pc' \in [Lanes -> WorkerPc \cup {"stuck"}]
      /\ mtx' \in [Lanes -> {"free", "main", "worker"}]
      /\ mpc' \in MainPc /\ task' \in Tasks
  BY DEF PushBlockState, PushTransactionTrace, StartPush, QueueStep, QueueLock,
     QueueNotifyOne, QueueSleep, QueueEmplace, QueueNotifyAll, NotifyPushed, Shutdown,
     Destructor, SetExit, ExitStep, NotifyExit, NotifyExiting, Join
<1> QED
  BY <1>1, <1>2

(* A worker that uses what exists takes a step of Consumer. *)
LEMMA InTimeStep ==
  ASSUME StartupInv, NEW l \in Lanes, InTime(l)
  PROVE  StartupInv' /\ Next
<1> USE DEF StartupInv, InTime
<1>1. Next
  BY DEF Next, RunBlocks, RunTraces
<1>2. /\ pc' \in [Lanes -> WorkerPc \cup {"stuck"}]
      /\ mtx' \in [Lanes -> {"free", "main", "worker"}]
      /\ UNCHANGED <<mpc, task, exit, built, damaged>>
  <2>1. CASE Top(l) \/ Lock(l) \/ Test(l) \/ Wait(l)
    BY <2>1 DEF Worker, Top, Lock, Test, Wait
  <2>2. CASE Take(l) \/ Consume(l)
    BY <2>2 DEF Worker, Take, Consume
  <2>3. CASE Drained(l)
    BY <2>3 DEF Worker, Drained
  <2> QED
    BY <2>1, <2>2, <2>3 DEF Worker
<1>3. ASSUME ~damaged, NEW k \in Lanes, ~MutexBuilt(k)
      PROVE  mtx'[k] = "free" /\ pc'[k] \in {"top", "lock"}
  BY <1>3 DEF Worker, Top, Lock, Test, Wait, Take, Consume, Drained
<1>4. ASSUME ~damaged, ~Constructed, NEW k \in Lanes PROVE pc'[k] # "waiting"
  BY <1>4 DEF Worker, Top, Lock, Test, Wait, Take, Consume, Drained
<1> QED
  BY <1>1, <1>2, <1>3, <1>4

(* One that runs ahead does damage. *)
LEMMA TooEarlyStep ==
  ASSUME StartupInv, NEW l \in Lanes, TooEarly(l)
  PROVE  StartupInv' /\ damaged'
  BY DEF StartupInv, TooEarly, LockTooEarly, WaitTooEarly

(* A spurious wakeup, or the thread that outlives the consumer. *)
LEMMA OnItsOwnStep ==
  ASSUME StartupInv, NEW l \in Lanes, OnItsOwn(l)
  PROVE  StartupInv' /\ Next
<1> USE DEF StartupInv, OnItsOwn
<1>1. Next
  BY DEF Next
<1> QED
  BY <1>1 DEF Wakeup, SpuriousWake, UseAfterDestruction

LEMMA StartupStep ==
  StartupInv /\ [StartupNext]_allVars => StartupInv' /\ [Next \/ damaged']_vars
<1> SUFFICES ASSUME StartupInv, [StartupNext]_allVars
             PROVE  StartupInv' /\ [Next \/ damaged']_vars
  OBVIOUS
<1>1. CASE Construct
  BY <1>1, ConstructStep DEF Construct
<1>2. CASE MainThread
  BY <1>2, MainThreadStep
<1>3. CASE \E l \in Lanes : InTime(l)
  BY <1>3, InTimeStep
<1>4. CASE \E l \in Lanes : TooEarly(l)
  BY <1>4, TooEarlyStep
<1>5. CASE \E l \in Lanes : OnItsOwn(l)
  BY <1>5, OnItsOwnStep
<1>6. CASE UNCHANGED allVars
  BY <1>6 DEF allVars, StartupInv
<1> QED
  BY <1>1, <1>2, <1>3, <1>4, <1>5, <1>6 DEF StartupNext

(* Every step of a start is one of Consumer, or follows damage. *)
THEOREM StartIsConsumer == StartupSpec => ConsumerUnlessDamaged
<1>1. StartupInit => Init
  BY DEF StartupInit
<1> QED
  BY <1>1, StartupInitInv, StartupStep, PTL DEF StartupSpec, ConsumerUnlessDamaged

(* If no thread runs ahead of the constructor, the consumer behaves as     *)
(* Consumer says from its construction on, and loses no entry.             *)
THEOREM UndamagedStart == StartupSpec /\ []~damaged => Spec /\ []NoEntryLost
<1>1. ~damaged' /\ [Next \/ damaged']_vars => [Next]_vars
  OBVIOUS
<1> QED
  BY <1>1, StartIsConsumer, NothingLost, PTL DEF ConsumerUnlessDamaged, Spec
=============================================================================
