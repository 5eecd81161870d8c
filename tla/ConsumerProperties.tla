------------------------- MODULE ConsumerProperties -------------------------
(***************************************************************************)
(* What the consumer of consumer.hpp guarantees, and what the repository    *)
(* says of it that it does not.                                            *)
(***************************************************************************)
EXTENDS Consumer

(* Every variable has its type; entries are numbered as they are queued.   *)
TypeOK ==
  /\ queue \in [Lanes -> Seq(Nat \ {0})]
  /\ process \in [Lanes -> Seq(Nat \ {0})]
  /\ mtx \in [Lanes -> {"free", "main", "worker"}]
  /\ exit \in BOOLEAN
  /\ pc \in [Lanes -> WorkerPc]
  /\ mpc \in MainPc
  /\ task \in Tasks
  /\ pushed \in [Lanes -> Nat]
  /\ handled \in [Lanes -> Nat]
  /\ persisted \in [Lanes -> Seq(Nat \ {0})]

\* The entries of s are those that follow entry n, without a gap.
Continues(s, n) == \A i \in 1..Len(s) : s[i] = n + i

(* No entry is lost, duplicated or reordered between the push and the      *)
(* database call: the batch being drained continues what was handled, and  *)
(* the queue continues the batch, up to the last entry pushed.  It fails if *)
(* a batch is taken over while the previous one is unfinished, or the queue *)
(* is copied instead of moved.                                             *)
NoEntryLost ==
  \A l \in Lanes :
    /\ handled[l] + Len(process[l]) + Len(queue[l]) = pushed[l]
    /\ Continues(process[l], handled[l])
    /\ Continues(queue[l], handled[l] + Len(process[l]))

(* A worker is never left blocked over a queue that has entries: the main  *)
(* thread is then still between emplace_back and its notify_all.  Both     *)
(* lanes wait on one condition variable, so a notify_one there could wake  *)
(* the worker that has nothing to do.                                      *)
NoMissedEntry ==
  \A l \in Lanes :
    pc[l] = "waiting" /\ queue[l] # <<>> => mpc = "notify_all" /\ task = l

(* A worker that returned from its loop has handed its whole batch to the  *)
(* database: exit is tested between batches, never inside one.             *)
EndedIsDrained ==
  \A l \in Lanes : Alive /\ pc[l] = "ended" => exit /\ process[l] = <<>>

(* The lane that the plugin feeds behaves as the abstract feed: the        *)
(* database is handed traces in the order they were pushed, none twice,    *)
(* whatever fails in between.                                              *)
TracesFeed == INSTANCE OrderedFeed
  WITH accepted <- pushed["traces"], persisted <- persisted["traces"]

TracesFeedSpec == TracesFeed!Spec

-----------------------------------------------------------------------------
(* Liveness, under FairSpec.                                               *)

(* A push that nodeos began always returns to it: the back pressure of     *)
(* queue() delays the chain thread, it cannot stop it.                     *)
PushReturns ==
  mpc \in {"push_lock", "notify_one", "sleep", "emplace", "notify_all"}
    ~> mpc = "idle"

(* An entry that was pushed reaches the database call, unless the consumer *)
(* is told to exit.                                                        *)
PushedIsHandled ==
  \A l \in Lanes : \A n \in 1..MaxPush :
    pushed[l] >= n ~> (handled[l] >= n \/ exit)

(* shutdown() and the destructor return, except perhaps when they notify   *)
(* while run_blocks stands between its test of exit and condition.wait.    *)
ExitReturnsOutsideWindow ==
  mpc = "exit_notify" /\ pc["blocks"] # "wait" ~> mpc \in {"idle", "gone"}

-----------------------------------------------------------------------------
(* What the repository says and the code does not do.                      *)

(* The option's help (sql_db_plugin.cpp:88) calls queue_size the queue size *)
(* between nodeos and the plugin thread.  A push that finds the queue over *)
(* its size sleeps once and appends all the same.                          *)
QueueBounded == \A l \in Lanes : Len(queue[l]) <= QueueSize + 1

(* The test of consumer_test.cpp lets a consumer that was pushed to go out *)
(* of scope: its destructor returns.  The worker can test exit before it   *)
(* is set and block after the notification.                                *)
ExitReturns == mpc = "exit_notify" ~> mpc \in {"idle", "gone"}

(* consumer.hpp logs that it drains the queue on exit, and the test of     *)
(* consumer_test.cpp expects both of its entries consumed: when the        *)
(* consumer is gone, nothing pushed is left behind.                        *)
DrainedWhenGone ==
  mpc = "gone" => \A l \in Lanes : handled[l] = pushed[l]
=============================================================================
