------------------------------ MODULE Consumer ------------------------------
(***************************************************************************)
(* The consumer of sql_db_plugin/consumer.hpp: the nodeos main thread      *)
(* pushes block states and transaction traces into two queues, and two     *)
(* worker threads, run_blocks and run_traces, take each queue over in one  *)
(* batch and hand its entries to the database.  Each lane has a mutex;     *)
(* one condition variable and one exit flag serve both.                    *)
(*                                                                         *)
(* Entries are numbered 1, 2, 3... per lane in the order they are queued.  *)
(* The model starts when the constructor has returned.  An operator whose  *)
(* name starts with Faulty is a seeded bug and is not used by Next.        *)
(***************************************************************************)
EXTENDS Naturals, Sequences

CONSTANTS
  QueueSize,   \* the option sql_db-queue-size, the constructor's queue_size
  MaxPush,     \* bound of the model: entries pushed per lane
  FedLanes     \* the lanes whose push operation is called

Lanes == {"blocks", "traces"}

ASSUME ConsumerAssumption ==
  /\ QueueSize \in Nat
  /\ MaxPush \in Nat
  /\ FedLanes \subseteq Lanes

VARIABLES
  queue,       \* block_state_queue, transaction_trace_queue
  process,     \* block_state_process_queue, transaction_trace_process_queue
  mtx,         \* owner of mtx_blocks, mtx_traces: "free", "main" or "worker"
  exit,        \* the atomic flag
  pc,          \* where each worker thread is
  mpc,         \* where the main thread is
  task,        \* the lane the main thread pushes to, or how it ends the consumer
  pushed,      \* history: entries queued so far
  handled,     \* history: entries taken out of the process queue so far
  persisted    \* history: entries whose database call returned normally

main == <<mpc, task>>
lists == <<queue, process>>
history == <<pushed, handled, persisted>>
vars == <<queue, process, mtx, exit, pc, mpc, task, pushed, handled, persisted>>

WorkerPc ==
  {"top",      \* at while (!exit)
   "lock",     \* acquiring the lane's mutex
   "test",     \* owns it, at while (queue.empty() && !exit)
   "wait",     \* owns it, found nothing to do, about to call condition.wait
   "waiting",  \* blocked in condition.wait, mutex released
   "take",     \* owns it, about to take the queue over
   "drain",    \* handing the batch to the database, no mutex
   "ended",    \* returned
   "crashed"}  \* used the consumer after its destruction

MainPc ==
  {"idle", "push_lock", "notify_one", "sleep", "emplace", "notify_all",
   "exit_notify", "exit_join", "gone"}

Tasks == Lanes \cup {"shutdown", "destroy"}

Init ==
  /\ queue = [l \in Lanes |-> <<>>]
  /\ process = [l \in Lanes |-> <<>>]
  /\ mtx = [l \in Lanes |-> "free"]
  /\ exit = FALSE
  /\ pc = [l \in Lanes |-> "top"]
  /\ mpc = "idle"
  /\ task = "blocks"
  /\ pushed = [l \in Lanes |-> 0]
  /\ handled = [l \in Lanes |-> 0]
  /\ persisted = [l \in Lanes |-> <<>>]

-----------------------------------------------------------------------------
(* The condition variable.  Both lanes wait on it.                         *)

\* The blocked workers of S go to reacquire their mutex.
Woken(S) == [l \in Lanes |-> IF l \in S /\ pc[l] = "waiting" THEN "lock" ELSE pc[l]]

NotifyAll == pc' = Woken(Lanes)

\* One blocked worker, whichever lane it serves; none if none waits.
NotifyOne ==
  \/ \E l \in Lanes : pc[l] = "waiting" /\ pc' = Woken({l})
  \/ (\A l \in Lanes : pc[l] # "waiting") /\ UNCHANGED pc

-----------------------------------------------------------------------------
(* The main thread: pushing.                                               *)

StartPush(l) ==
  /\ mpc = "idle"
  /\ pushed[l] < MaxPush
  /\ mpc' = "push_lock"
  /\ task' = l
  /\ UNCHANGED <<lists, mtx, exit, pc, history>>

PushBlockState == "blocks" \in FedLanes /\ StartPush("blocks")

PushTransactionTrace == "traces" \in FedLanes /\ StartPush("traces")

\* queue(): take the lock; if the queue is over its size, release it again.
QueueLock ==
  /\ mpc = "push_lock"
  /\ mtx[task] = "free"
  /\ \/ /\ Len(queue[task]) > QueueSize
        /\ mpc' = "notify_one"
        /\ UNCHANGED mtx
     \/ /\ Len(queue[task]) <= QueueSize
        /\ mpc' = "emplace"
        /\ mtx' = [mtx EXCEPT ![task] = "main"]
  /\ UNCHANGED <<lists, exit, pc, task, history>>

QueueNotifyOne ==
  /\ mpc = "notify_one"
  /\ NotifyOne
  /\ mpc' = "sleep"
  /\ UNCHANGED <<lists, mtx, exit, task, history>>

FaultyRetestAfterSleep ==
  /\ mpc = "sleep"
  /\ mpc' = "push_lock"
  /\ UNCHANGED <<lists, mtx, exit, pc, task, history>>

\* The unlocked reads of queue.size() only choose how long to sleep.  The
\* sleep happens once: the size is not tested again after lock.lock().
QueueSleep ==
  /\ mpc = "sleep"
  /\ mtx[task] = "free"
  /\ mpc' = "emplace"
  /\ mtx' = [mtx EXCEPT ![task] = "main"]
  /\ UNCHANGED <<lists, exit, pc, task, history>>

FaultyNewEntry == pushed[task]
NewEntry == pushed[task] + 1

QueueEmplace ==
  /\ mpc = "emplace"
  /\ pushed' = [pushed EXCEPT ![task] = @ + 1]
  /\ queue' = [queue EXCEPT ![task] = Append(@, NewEntry)]
  /\ mtx' = [mtx EXCEPT ![task] = "free"]
  /\ mpc' = "notify_all"
  /\ UNCHANGED <<process, exit, pc, task, handled, persisted>>

FaultyNotifyPushed == NotifyOne
NotifyPushed == NotifyAll

QueueNotifyAll ==
  /\ mpc = "notify_all"
  /\ NotifyPushed
  /\ mpc' = "idle"
  /\ UNCHANGED <<lists, mtx, exit, task, history>>

\* The steps of queue() after the push operation has called it.
QueueStep ==
  QueueLock \/ QueueNotifyOne \/ QueueSleep \/ QueueEmplace \/ QueueNotifyAll

-----------------------------------------------------------------------------
(* The main thread: shutdown() and the destructor have the same body.  Both *)
(* set exit without holding a mutex, and join run_blocks only.             *)

SetExit(t) ==
  /\ mpc = "idle"
  /\ exit' = TRUE
  /\ mpc' = "exit_notify"
  /\ task' = t
  /\ UNCHANGED <<lists, mtx, pc, history>>

Shutdown == SetExit("shutdown")

Destructor == SetExit("destroy")

FaultyNotifyExiting == UNCHANGED pc
NotifyExiting == NotifyAll

NotifyExit ==
  /\ mpc = "exit_notify"
  /\ NotifyExiting
  /\ mpc' = "exit_join"
  /\ UNCHANGED <<lists, mtx, exit, task, history>>

Joined == pc["blocks"] = "ended"

\* After the destructor's body the members are destroyed and run_traces is
\* left to itself.
Join ==
  /\ mpc = "exit_join"
  /\ Joined
  /\ mpc' = IF task = "destroy" THEN "gone" ELSE "idle"
  /\ UNCHANGED <<lists, mtx, exit, pc, task, history>>

ExitStep == NotifyExit \/ Join

-----------------------------------------------------------------------------
(* A worker thread.  run_blocks and run_traces are the same code over the   *)
(* two lanes.  Its steps are meaningful while the consumer exists.         *)

Alive == mpc # "gone"

Goto(l, next) == pc' = [pc EXCEPT ![l] = next]

\* while (!exit)
Top(l) ==
  /\ pc[l] = "top"
  /\ Goto(l, IF exit THEN "ended" ELSE "lock")
  /\ UNCHANGED <<lists, mtx, exit, history>>

\* scoped_lock, and the reacquisition at the end of condition.wait
Lock(l) ==
  /\ pc[l] = "lock"
  /\ mtx[l] = "free"
  /\ mtx' = [mtx EXCEPT ![l] = "worker"]
  /\ Goto(l, "test")
  /\ UNCHANGED <<lists, exit, history>>

\* while (queue.empty() && !exit)
Test(l) ==
  /\ pc[l] = "test"
  /\ Goto(l, IF queue[l] = <<>> /\ ~exit THEN "wait" ELSE "take")
  /\ UNCHANGED <<lists, mtx, exit, history>>

\* condition.wait releases the mutex and blocks in one step.
Wait(l) ==
  /\ pc[l] = "wait"
  /\ mtx' = [mtx EXCEPT ![l] = "free"]
  /\ Goto(l, "waiting")
  /\ UNCHANGED <<lists, exit, history>>

\* condition.wait may return without a notification.
SpuriousWake(l) ==
  /\ pc[l] = "waiting"
  /\ Goto(l, "lock")
  /\ UNCHANGED <<lists, mtx, exit, history>>

FaultyLeftBehind(l) == queue[l]
LeftBehind(l) == <<>>

\* The whole queue is moved when it has entries; the lock is released.
Take(l) ==
  /\ pc[l] = "take"
  /\ \/ /\ queue[l] # <<>>
        /\ process' = [process EXCEPT ![l] = queue[l]]
        /\ queue' = [queue EXCEPT ![l] = LeftBehind(l)]
     \/ /\ queue[l] = <<>>
        /\ UNCHANGED lists
  /\ mtx' = [mtx EXCEPT ![l] = "free"]
  /\ Goto(l, "drain")
  /\ UNCHANGED <<exit, history>>

NextEntry(l) == Head(process[l])

\* The database call returns, or throws and is logged; pop_front either way.
Consume(l) ==
  /\ pc[l] = "drain"
  /\ process[l] # <<>>
  /\ process' = [process EXCEPT ![l] = Tail(@)]
  /\ handled' = [handled EXCEPT ![l] = @ + 1]
  /\ \/ persisted' = [persisted EXCEPT ![l] = Append(@, NextEntry(l))]
     \/ UNCHANGED persisted
  /\ UNCHANGED <<queue, mtx, exit, pc, pushed>>

FaultyBatchDone(l) == process[l] = <<>> \/ exit
BatchDone(l) == process[l] = <<>>

\* The batch is done: notify_all, back to the loop's test.
Drained(l) ==
  /\ pc[l] = "drain"
  /\ BatchDone(l)
  /\ pc' = [Woken(Lanes) EXCEPT ![l] = "top"]
  /\ UNCHANGED <<lists, mtx, exit, history>>

Worker(l) ==
  /\ Alive
  /\ \/ Top(l) \/ Lock(l) \/ Test(l) \/ Wait(l)
     \/ Take(l) \/ Consume(l) \/ Drained(l)
  /\ UNCHANGED main

RunBlocks == Worker("blocks")

RunTraces == Worker("traces")

Wakeup(l) == Alive /\ SpuriousWake(l) /\ UNCHANGED main

\* A worker that still runs when the members are gone uses freed memory:
\* undefined behaviour, a crash or an end of the thread being outcomes.
UseAfterDestruction(l) ==
  /\ mpc = "gone"
  /\ pc[l] \notin {"ended", "crashed"}
  /\ \E outcome \in {"ended", "crashed"} : Goto(l, outcome)
  /\ UNCHANGED <<lists, mtx, exit, history, main>>

-----------------------------------------------------------------------------
Next ==
  \/ PushBlockState
  \/ PushTransactionTrace
  \/ QueueStep
  \/ Shutdown
  \/ Destructor
  \/ ExitStep
  \/ RunBlocks
  \/ RunTraces
  \/ \E l \in Lanes : Wakeup(l)
  \/ \E l \in Lanes : UseAfterDestruction(l)

Spec == Init /\ [][Next]_vars

\* The operating system schedules every thread, a database call returns, an
\* operation begun by the main thread goes on, and a mutex that is free again
\* and again is not refused forever to the thread that asks for it.  Nothing
\* obliges nodeos to push or to end the consumer, nor a wait to end without a
\* notification.
Fairness ==
  /\ WF_vars(RunBlocks)
  /\ WF_vars(RunTraces)
  /\ WF_vars(QueueStep)
  /\ WF_vars(ExitStep)
  /\ SF_vars(QueueLock)
  /\ SF_vars(QueueSleep)
  /\ \A l \in Lanes : SF_vars(Worker(l) /\ pc[l] = "lock")

FairSpec == Spec /\ Fairness
=============================================================================
