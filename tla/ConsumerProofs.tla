--------------------------- MODULE ConsumerProofs ---------------------------
(***************************************************************************)
(* Proofs about the consumer, for every queue size, every number of pushes *)
(* and every choice of the lanes that are fed.                             *)
(*                                                                         *)
(* NoEntryLost is not inductive alone: Take must find the previous batch   *)
(* finished (BatchInv), which rests on who owns the mutexes (MutexInv), as *)
(* does NoMissedEntry: a worker that saw an empty queue keeps its mutex    *)
(* until it blocks, so only a later push can fill the queue under it.      *)
(* IInv joins them; every action preserves it (one lemma each), and the    *)
(* theorems at the end read the properties off IInv.                       *)
(***************************************************************************)
EXTENDS ConsumerProperties, SequenceTheorems, TLAPS

(* The operation the main thread is in says what task is. *)
TaskInv ==
  /\ mpc \in {"push_lock", "notify_one", "sleep", "emplace", "notify_all"}
       => task \in Lanes
  /\ mpc \in {"exit_notify", "exit_join"} => exit

(* Who owns a mutex, while there is one to own. *)
MutexInv ==
  Alive => \A l \in Lanes :
    /\ mtx[l] = "worker" <=> pc[l] \in {"test", "wait", "take"}
    /\ mtx[l] = "main" <=> mpc = "emplace" /\ task = l

(* A batch exists only between taking it over and draining it, so Take     *)
(* never overwrites one; and a worker about to wait saw an empty queue.    *)
BatchInv ==
  Alive => \A l \in Lanes :
    /\ pc[l] # "drain" => process[l] = <<>>
    /\ pc[l] = "wait" => queue[l] = <<>>
    /\ pc[l] = "ended" => exit
    /\ pc[l] # "crashed"

(* What the database was handed is handled and in the order of the pushes. *)
PersistedInv ==
  \A l \in Lanes : \A i \in 1..Len(persisted[l]) : persisted[l][i] <= handled[l]

IInv ==
  /\ TypeOK
  /\ TaskInv
  /\ MutexInv
  /\ BatchInv
  /\ NoMissedEntry
  /\ NoEntryLost
  /\ PersistedInv

-----------------------------------------------------------------------------
USE DEF Lanes, lists, history, main, vars, WorkerPc, MainPc, Tasks, Alive,
        Goto, Woken, NotifyAll, NotifyOne

(* A sequence that continues n still does with the next entry appended. *)
LEMMA AppendContinues ==
  ASSUME NEW s \in Seq(Nat \ {0}), NEW n \in Nat, Continues(s, n)
  PROVE  LET t == Append(s, n + Len(s) + 1)
         IN  /\ t \in Seq(Nat \ {0})
             /\ Len(t) = Len(s) + 1
             /\ Continues(t, n)
<1> DEFINE e == n + Len(s) + 1
<1>1. Len(s) \in Nat /\ e \in Nat \ {0}
  BY LenProperties
<1>2. /\ Append(s, e) \in Seq(Nat \ {0})
      /\ Len(Append(s, e)) = Len(s) + 1
      /\ Append(s, e)[Len(s) + 1] = e
      /\ \A i \in 1..Len(s) : Append(s, e)[i] = s[i]
  BY <1>1, AppendProperties
<1> QED
  BY <1>1, <1>2 DEF Continues

(* The head of a sequence that continues n is n + 1; its tail continues that. *)
LEMMA TailContinues ==
  ASSUME NEW s \in Seq(Nat \ {0}), s # <<>>, NEW n \in Nat, Continues(s, n)
  PROVE  /\ Head(s) = n + 1
         /\ Tail(s) \in Seq(Nat \ {0})
         /\ Len(Tail(s)) = Len(s) - 1
         /\ Continues(Tail(s), n + 1)
<1>1. Len(s) \in Nat \ {0}
  BY LenProperties, EmptySeq
<1>2. /\ Head(s) = s[1]
      /\ Tail(s) \in Seq(Nat \ {0})
      /\ Len(Tail(s)) = Len(s) - 1
      /\ \A i \in 1..Len(Tail(s)) : Tail(s)[i] = s[i + 1]
  BY <1>1, HeadTailProperties
<1> QED
  BY <1>1, <1>2 DEF Continues

(* Appending n + 1 to numbers up to n gives numbers up to n + 1. *)
LEMMA AppendBounded ==
  ASSUME NEW s \in Seq(Nat \ {0}), NEW n \in Nat, \A i \in 1..Len(s) : s[i] <= n
  PROVE  LET t == Append(s, n + 1)
         IN  /\ t \in Seq(Nat \ {0})
             /\ \A i \in 1..Len(t) : t[i] <= n + 1
<1>1. /\ Append(s, n + 1) \in Seq(Nat \ {0})
      /\ Len(s) \in Nat
      /\ Len(Append(s, n + 1)) = Len(s) + 1
      /\ Append(s, n + 1)[Len(s) + 1] = n + 1
      /\ \A i \in 1..Len(s) : Append(s, n + 1)[i] = s[i]
  BY AppendProperties, LenProperties
<1>2. \A i \in 1..Len(s) : s[i] \in Nat
  BY ElementOfSeq
<1> QED
  BY <1>1, <1>2

(* The invariant holds of a consumer just constructed. *)
LEMMA InitIInv == Init => IInv
<1> SUFFICES ASSUME Init PROVE IInv
  OBVIOUS
<1>1. <<>> \in Seq(Nat \ {0}) /\ Len(<<>>) = 0
  BY EmptySeq
<1>2. TypeOK
  BY <1>1 DEF Init, TypeOK
<1>3. NoEntryLost /\ PersistedInv
  BY <1>1 DEF Init, NoEntryLost, PersistedInv, Continues
<1>4. TaskInv /\ MutexInv /\ BatchInv /\ NoMissedEntry
  BY DEF Init, TaskInv, MutexInv, BatchInv, NoMissedEntry
<1> QED
  BY <1>2, <1>3, <1>4 DEF IInv

(* A step that moves no entry keeps what is known of the entries. *)
LEMMA EntriesUnchanged ==
  ASSUME NoEntryLost, PersistedInv, UNCHANGED <<lists, history>>
  PROVE  NoEntryLost' /\ PersistedInv'
  BY DEF NoEntryLost, PersistedInv, Continues

(* A push begins: only the main thread moves. *)
LEMMA StartPushStep ==
  ASSUME IInv, NEW l \in Lanes, StartPush(l)
  PROVE  IInv'
<1> USE DEF IInv, StartPush
<1>1. TypeOK' /\ TaskInv'
  BY DEF TypeOK, TaskInv
<1>2. MutexInv' /\ BatchInv'
  BY DEF TypeOK, TaskInv, MutexInv, BatchInv
<1>3. NoMissedEntry'
  BY DEF TypeOK, TaskInv, MutexInv, BatchInv, NoMissedEntry
<1>4. NoEntryLost' /\ PersistedInv'
  BY EntriesUnchanged
<1> QED
  BY <1>1, <1>2, <1>3, <1>4

(* The main thread acquires the mutex, or gives it up at once. *)
LEMMA QueueLockStep ==
  ASSUME IInv, QueueLock
  PROVE  IInv'
<1> USE DEF IInv, QueueLock
<1>1. TypeOK' /\ TaskInv'
  BY DEF TypeOK, TaskInv
<1>2. MutexInv' /\ BatchInv'
  BY DEF TypeOK, TaskInv, MutexInv, BatchInv
<1>3. NoMissedEntry'
  BY DEF TypeOK, TaskInv, MutexInv, BatchInv, NoMissedEntry
<1>4. NoEntryLost' /\ PersistedInv'
  BY EntriesUnchanged
<1> QED
  BY <1>1, <1>2, <1>3, <1>4

(* One waiting worker may be woken; no list changes. *)
LEMMA QueueNotifyOneStep ==
  ASSUME IInv, QueueNotifyOne
  PROVE  IInv'
<1> USE DEF IInv, QueueNotifyOne
<1>1. TypeOK' /\ TaskInv'
  BY DEF TypeOK, TaskInv
<1>2. MutexInv' /\ BatchInv'
  <2>1. MutexInv'
    BY SMTT(30) DEF TypeOK, TaskInv, MutexInv
  <2>2. BatchInv'
    BY SMTT(30) DEF TypeOK, TaskInv, BatchInv
  <2> QED
    BY <2>1, <2>2
<1>3. NoMissedEntry'
  BY DEF TypeOK, TaskInv, MutexInv, BatchInv, NoMissedEntry
<1>4. NoEntryLost' /\ PersistedInv'
  BY EntriesUnchanged
<1> QED
  BY <1>1, <1>2, <1>3, <1>4

(* After its sleep the main thread owns the mutex of its lane. *)
LEMMA QueueSleepStep ==
  ASSUME IInv, QueueSleep
  PROVE  IInv'
<1> USE DEF IInv, QueueSleep
<1>1. TypeOK' /\ TaskInv'
  BY DEF TypeOK, TaskInv
<1>2. MutexInv' /\ BatchInv'
  BY DEF TypeOK, TaskInv, MutexInv, BatchInv
<1>3. NoMissedEntry'
  BY DEF TypeOK, TaskInv, MutexInv, BatchInv, NoMissedEntry
<1>4. NoEntryLost' /\ PersistedInv'
  BY EntriesUnchanged
<1> QED
  BY <1>1, <1>2, <1>3, <1>4

(* The new entry continues the queue, whose mutex the main thread owns. *)
LEMMA QueueEmplaceStep ==
  ASSUME IInv, QueueEmplace
  PROVE  IInv'
<1> DEFINE q == Append(queue[task], NewEntry)
<1>1. /\ mpc = "emplace" /\ mpc' = "notify_all" /\ task \in Lanes
      /\ pushed' = [pushed EXCEPT ![task] = @ + 1]
      /\ queue' = [queue EXCEPT ![task] = q]
      /\ mtx' = [mtx EXCEPT ![task] = "free"]
      /\ UNCHANGED <<process, exit, pc, task, handled, persisted>>
  BY DEF IInv, TypeOK, TaskInv, QueueEmplace
<1>2. TypeOK /\ TaskInv /\ MutexInv /\ BatchInv /\ NoMissedEntry /\ NoEntryLost
      /\ PersistedInv
  BY DEF IInv
<1>3. /\ NewEntry = handled[task] + Len(process[task]) + Len(queue[task]) + 1
      /\ handled[task] + Len(process[task]) \in Nat
      /\ queue[task] \in Seq(Nat \ {0})
      /\ Continues(queue[task], handled[task] + Len(process[task]))
  <2>1. /\ queue[task] \in Seq(Nat \ {0}) /\ process[task] \in Seq(Nat \ {0})
        /\ handled[task] \in Nat
    BY <1>1, <1>2 DEF TypeOK
  <2>2. Len(queue[task]) \in Nat /\ Len(process[task]) \in Nat
    BY <2>1, LenProperties
  <2>3. /\ handled[task] + Len(process[task]) + Len(queue[task]) = pushed[task]
        /\ Continues(queue[task], handled[task] + Len(process[task]))
    BY <1>1, <1>2 DEF NoEntryLost
  <2> QED
    BY <2>1, <2>2, <2>3 DEF NewEntry
<1>4. /\ q \in Seq(Nat \ {0})
      /\ Len(q) = Len(queue[task]) + 1
      /\ Continues(q, handled[task] + Len(process[task]))
  BY <1>3, AppendContinues
<1> HIDE DEF q
<1>5. TypeOK'
  <2>1. queue' \in [Lanes -> Seq(Nat \ {0})]
    BY <1>1, <1>2, <1>4 DEF TypeOK
  <2>2. pushed' \in [Lanes -> Nat] /\ mtx' \in [Lanes -> {"free", "main", "worker"}]
    BY <1>1, <1>2 DEF TypeOK
  <2> QED
    BY <1>1, <1>2, <2>1, <2>2 DEF TypeOK
<1>6. NoEntryLost'
  <2>1. \A l \in Lanes :
          /\ handled'[l] = handled[l] /\ process'[l] = process[l]
          /\ l # task => queue'[l] = queue[l] /\ pushed'[l] = pushed[l]
          /\ l = task => queue'[l] = q /\ pushed'[l] = pushed[l] + 1
    BY <1>1, <1>2 DEF TypeOK
  <2>2. handled[task] \in Nat /\ Len(process[task]) \in Nat /\ Len(queue[task]) \in Nat
    <3>1. /\ queue[task] \in Seq(Nat \ {0}) /\ process[task] \in Seq(Nat \ {0})
          /\ handled[task] \in Nat
      BY <1>1, <1>2 DEF TypeOK
    <3> QED
      BY <3>1, LenProperties
  <2>3. handled[task] + Len(process[task]) + Len(queue[task]) = pushed[task]
    BY <1>1, <1>2 DEF NoEntryLost
  <2>4. handled[task] + Len(process[task]) + Len(q) = pushed[task] + 1
    <3>1. Len(q) = Len(queue[task]) + 1
      BY <1>4
    <3>2. \A h, b, w \in Nat : h + b + (w + 1) = (h + b + w) + 1
      OBVIOUS
    <3>3. handled[task] + Len(process[task]) + (Len(queue[task]) + 1)
            = (handled[task] + Len(process[task]) + Len(queue[task])) + 1
      BY <2>2, <3>2, Zenon
    <3> QED
      BY <2>3, <3>1, <3>3, Zenon
  <2> QED
    BY <1>1, <1>2, <1>4, <2>1, <2>4 DEF NoEntryLost
<1>7. PersistedInv'
  BY <1>1, <1>2 DEF PersistedInv
<1>8. TaskInv' /\ NoMissedEntry'
  BY <1>1, <1>2 DEF TypeOK, TaskInv, NoMissedEntry
<1>9. MutexInv' /\ BatchInv'
  BY <1>1, <1>2 DEF TypeOK, MutexInv, BatchInv
<1> QED
  BY <1>5, <1>6, <1>7, <1>8, <1>9 DEF IInv

(* After notify_all no worker is blocked. *)
LEMMA QueueNotifyAllStep ==
  ASSUME IInv, QueueNotifyAll
  PROVE  IInv'
<1> USE DEF IInv, QueueNotifyAll, NotifyPushed
<1>1. TypeOK' /\ TaskInv'
  BY DEF TypeOK, TaskInv
<1>2. MutexInv' /\ BatchInv'
  BY DEF TypeOK, TaskInv, MutexInv, BatchInv
<1>3. NoMissedEntry'
  BY DEF TypeOK, TaskInv, MutexInv, BatchInv, NoMissedEntry
<1>4. NoEntryLost' /\ PersistedInv'
  BY EntriesUnchanged
<1> QED
  BY <1>1, <1>2, <1>3, <1>4

(* exit is set; no worker is moved by it. *)
LEMMA SetExitStep ==
  ASSUME IInv, NEW t \in {"shutdown", "destroy"}, SetExit(t)
  PROVE  IInv'
<1> USE DEF IInv, SetExit
<1>1. TypeOK' /\ TaskInv'
  BY DEF TypeOK, TaskInv
<1>2. MutexInv' /\ BatchInv'
  BY DEF TypeOK, TaskInv, MutexInv, BatchInv
<1>3. NoMissedEntry'
  BY DEF TypeOK, TaskInv, MutexInv, BatchInv, NoMissedEntry
<1>4. NoEntryLost' /\ PersistedInv'
  BY EntriesUnchanged
<1> QED
  BY <1>1, <1>2, <1>3, <1>4

(* Every blocked worker is woken. *)
LEMMA NotifyExitStep ==
  ASSUME IInv, NotifyExit
  PROVE  IInv'
<1> USE DEF IInv, NotifyExit, NotifyExiting
<1>1. TypeOK' /\ TaskInv'
  BY DEF TypeOK, TaskInv
<1>2. MutexInv' /\ BatchInv'
  BY DEF TypeOK, TaskInv, MutexInv, BatchInv
<1>3. NoMissedEntry'
  BY DEF TypeOK, TaskInv, MutexInv, BatchInv, NoMissedEntry
<1>4. NoEntryLost' /\ PersistedInv'
  BY EntriesUnchanged
<1> QED
  BY <1>1, <1>2, <1>3, <1>4

(* The join: run_blocks has ended, and holds no mutex. *)
LEMMA JoinStep ==
  ASSUME IInv, Join
  PROVE  IInv'
<1> USE DEF IInv, Join, Joined
<1>1. TypeOK' /\ TaskInv'
  BY DEF TypeOK, TaskInv
<1>2. MutexInv' /\ BatchInv'
  BY DEF TypeOK, TaskInv, MutexInv, BatchInv
<1>3. NoMissedEntry'
  BY DEF TypeOK, TaskInv, MutexInv, BatchInv, NoMissedEntry
<1>4. NoEntryLost' /\ PersistedInv'
  BY EntriesUnchanged
<1> QED
  BY <1>1, <1>2, <1>3, <1>4

(* The test of exit at the head of the loop. *)
LEMMA TopStep ==
  ASSUME IInv, NEW l \in Lanes, Alive, Top(l), UNCHANGED main
  PROVE  IInv'
<1> USE DEF IInv, Top
<1>1. TypeOK' /\ TaskInv'
  BY DEF TypeOK, TaskInv
<1>2. MutexInv' /\ BatchInv'
  BY DEF TypeOK, TaskInv, MutexInv, BatchInv
<1>3. NoMissedEntry'
  BY DEF TypeOK, TaskInv, MutexInv, BatchInv, NoMissedEntry
<1>4. NoEntryLost' /\ PersistedInv'
  BY EntriesUnchanged
<1> QED
  BY <1>1, <1>2, <1>3, <1>4

(* The worker takes the mutex of its lane. *)
LEMMA LockStep ==
  ASSUME IInv, NEW l \in Lanes, Alive, Lock(l), UNCHANGED main
  PROVE  IInv'
<1> USE DEF IInv, Lock
<1>1. TypeOK' /\ TaskInv'
  BY DEF TypeOK, TaskInv
<1>2. MutexInv' /\ BatchInv'
  BY DEF TypeOK, TaskInv, MutexInv, BatchInv
<1>3. NoMissedEntry'
  BY DEF TypeOK, TaskInv, MutexInv, BatchInv, NoMissedEntry
<1>4. NoEntryLost' /\ PersistedInv'
  BY EntriesUnchanged
<1> QED
  BY <1>1, <1>2, <1>3, <1>4

(* The worker that decides to wait saw its queue empty. *)
LEMMA TestStep ==
  ASSUME IInv, NEW l \in Lanes, Alive, Test(l), UNCHANGED main
  PROVE  IInv'
<1> USE DEF IInv, Test
<1>1. TypeOK' /\ TaskInv'
  BY DEF TypeOK, TaskInv
<1>2. MutexInv' /\ BatchInv'
  BY DEF TypeOK, TaskInv, MutexInv, BatchInv
<1>3. NoMissedEntry'
  BY DEF TypeOK, TaskInv, MutexInv, BatchInv, NoMissedEntry
<1>4. NoEntryLost' /\ PersistedInv'
  BY EntriesUnchanged
<1> QED
  BY <1>1, <1>2, <1>3, <1>4

(* The worker that blocks still has an empty queue. *)
LEMMA WaitStep ==
  ASSUME IInv, NEW l \in Lanes, Alive, Wait(l), UNCHANGED main
  PROVE  IInv'
<1> USE DEF IInv, Wait
<1>1. TypeOK' /\ TaskInv'
  BY DEF TypeOK, TaskInv
<1>2. MutexInv' /\ BatchInv'
  BY DEF TypeOK, TaskInv, MutexInv, BatchInv
<1>3. NoMissedEntry'
  BY DEF TypeOK, TaskInv, MutexInv, BatchInv, NoMissedEntry
<1>4. NoEntryLost' /\ PersistedInv'
  BY EntriesUnchanged
<1> QED
  BY <1>1, <1>2, <1>3, <1>4

(* A wakeup without a notification. *)
LEMMA SpuriousWakeStep ==
  ASSUME IInv, NEW l \in Lanes, Alive, SpuriousWake(l), UNCHANGED main
  PROVE  IInv'
<1> USE DEF IInv, SpuriousWake
<1>1. TypeOK' /\ TaskInv'
  BY DEF TypeOK, TaskInv
<1>2. MutexInv' /\ BatchInv'
  BY DEF TypeOK, TaskInv, MutexInv, BatchInv
<1>3. NoMissedEntry'
  BY DEF TypeOK, TaskInv, MutexInv, BatchInv, NoMissedEntry
<1>4. NoEntryLost' /\ PersistedInv'
  BY EntriesUnchanged
<1> QED
  BY <1>1, <1>2, <1>3, <1>4

(* The queue becomes the batch; the previous batch was finished. *)
LEMMA TakeStep ==
  ASSUME IInv, NEW l \in Lanes, Alive, Take(l), UNCHANGED main
  PROVE  IInv'
<1>1. /\ pc[l] = "take" /\ pc' = [pc EXCEPT ![l] = "drain"]
      /\ mtx' = [mtx EXCEPT ![l] = "free"]
      /\ UNCHANGED <<exit, mpc, task, pushed, handled, persisted>>
  BY DEF Take
<1>2. TypeOK /\ TaskInv /\ MutexInv /\ BatchInv /\ NoMissedEntry /\ NoEntryLost
      /\ PersistedInv
  BY DEF IInv
<1>3. process[l] = <<>> /\ <<>> \in Seq(Nat \ {0}) /\ Len(<<>>) = 0
  BY <1>1, <1>2, EmptySeq DEF BatchInv
<1>4. /\ process' = [process EXCEPT ![l] = queue[l]]
      /\ queue' = [queue EXCEPT ![l] = <<>>]
  \* When the queue is empty, neither list changes, and both are empty.
  BY <1>1, <1>2, <1>3 DEF Take, LeftBehind, TypeOK
<1>5. TypeOK'
  BY <1>1, <1>2, <1>3, <1>4 DEF TypeOK
<1>6. NoEntryLost'
  <2>1. /\ process'[l] = queue[l] /\ queue'[l] = <<>>
        /\ \A k \in Lanes \ {l} : process'[k] = process[k] /\ queue'[k] = queue[k]
    BY <1>2, <1>4 DEF TypeOK
  <2>2. Continues(<<>>, handled[l] + Len(queue[l]))
    BY <1>3 DEF Continues
  <2>3. Len(queue[l]) \in Nat /\ handled[l] \in Nat
    BY <1>2, LenProperties DEF TypeOK
  <2>4. Continues(queue[l], handled[l]) /\ handled[l] + Len(queue[l]) = pushed[l]
    BY <1>2, <1>3, <2>3 DEF NoEntryLost
  <2>5. /\ handled'[l] + Len(process'[l]) + Len(queue'[l]) = pushed'[l]
        /\ Continues(process'[l], handled'[l])
        /\ Continues(queue'[l], handled'[l] + Len(process'[l]))
    BY <1>1, <1>3, <2>1, <2>2, <2>3, <2>4
  <2> QED
    BY <1>1, <1>2, <2>1, <2>5 DEF NoEntryLost
<1>7. PersistedInv'
  BY <1>1, <1>2 DEF PersistedInv
<1>8. TaskInv' /\ NoMissedEntry'
  BY <1>1, <1>2, <1>4 DEF TypeOK, TaskInv, NoMissedEntry
<1>9. MutexInv' /\ BatchInv'
  <2>1. MutexInv'
    BY <1>1, <1>2, <1>4 DEF TypeOK, MutexInv
  <2>2. BatchInv'
    BY <1>1, <1>2, <1>4 DEF TypeOK, BatchInv
  <2> QED
    BY <2>1, <2>2
<1> QED
  BY <1>5, <1>6, <1>7, <1>8, <1>9 DEF IInv

(* The head of the batch is the entry after the last one handled. *)
LEMMA ConsumeStep ==
  ASSUME IInv, NEW l \in Lanes, Alive, Consume(l), UNCHANGED main
  PROVE  IInv'
<1>1. /\ pc[l] = "drain" /\ process[l] # <<>>
      /\ process' = [process EXCEPT ![l] = Tail(process[l])]
      /\ handled' = [handled EXCEPT ![l] = handled[l] + 1]
      /\ UNCHANGED <<queue, mtx, exit, pc, mpc, task, pushed>>
  BY DEF Consume
<1>2. TypeOK /\ TaskInv /\ MutexInv /\ BatchInv /\ NoMissedEntry /\ NoEntryLost
      /\ PersistedInv
  BY DEF IInv
<1>3. /\ process[l] \in Seq(Nat \ {0}) /\ Len(process[l]) \in Nat
      /\ handled[l] \in Nat /\ Len(queue[l]) \in Nat
      /\ persisted[l] \in Seq(Nat \ {0})
  BY <1>2, LenProperties DEF TypeOK
<1>4. /\ Head(process[l]) = handled[l] + 1
      /\ Tail(process[l]) \in Seq(Nat \ {0})
      /\ Len(Tail(process[l])) = Len(process[l]) - 1
      /\ Continues(Tail(process[l]), handled[l] + 1)
  <2>1. Continues(process[l], handled[l])
    BY <1>2 DEF NoEntryLost
  <2> QED
    BY <1>1, <1>3, <2>1, TailContinues
<1>5. /\ process'[l] = Tail(process[l]) /\ handled'[l] = handled[l] + 1
      /\ \A k \in Lanes \ {l} : process'[k] = process[k] /\ handled'[k] = handled[k]
  BY <1>1, <1>2 DEF TypeOK
<1>6. \/ UNCHANGED persisted
      \/ persisted' = [persisted EXCEPT ![l] = Append(persisted[l], handled[l] + 1)]
  BY <1>4 DEF Consume, NextEntry
<1>7. /\ Append(persisted[l], handled[l] + 1) \in Seq(Nat \ {0})
      /\ \A i \in 1..Len(Append(persisted[l], handled[l] + 1)) :
           Append(persisted[l], handled[l] + 1)[i] <= handled[l] + 1
  BY <1>2, <1>3, AppendBounded DEF PersistedInv
<1>8. TypeOK'
  <2>1. process' \in [Lanes -> Seq(Nat \ {0})]
    BY <1>1, <1>2, <1>4 DEF TypeOK
  <2>2. persisted' \in [Lanes -> Seq(Nat \ {0})]
    <3>1. CASE UNCHANGED persisted
      BY <1>2, <3>1 DEF TypeOK
    <3>2. CASE persisted' = [persisted EXCEPT ![l] = Append(persisted[l], handled[l] + 1)]
      BY <1>2, <1>7, <3>2 DEF TypeOK
    <3> QED
      BY <1>6, <3>1, <3>2
  <2>3. handled' \in [Lanes -> Nat]
    <3>1. handled \in [Lanes -> Nat] /\ handled[l] + 1 \in Nat
      BY <1>2 DEF TypeOK
    <3> QED
      BY <1>1, <3>1
  <2> QED
    BY <1>1, <1>2, <2>1, <2>2, <2>3 DEF TypeOK
<1>9. NoEntryLost'
  <2>1. /\ handled'[l] + Len(process'[l]) = handled[l] + Len(process[l])
        /\ Continues(process'[l], handled'[l])
    BY <1>3, <1>4, <1>5
  <2> QED
    BY <1>1, <1>2, <1>5, <2>1 DEF NoEntryLost
<1>10. PersistedInv'
  <2>1. \A k \in Lanes \ {l} : persisted'[k] = persisted[k]
    BY <1>2, <1>6 DEF TypeOK
  <2>2. \A i \in 1..Len(persisted'[l]) : persisted'[l][i] <= handled'[l]
    <3>1. CASE UNCHANGED persisted
      <4>1. \A i \in 1..Len(persisted[l]) :
              persisted[l][i] \in Nat /\ persisted[l][i] <= handled[l]
        BY <1>2, <1>3, ElementOfSeq DEF PersistedInv
      <4> QED
        BY <1>3, <1>5, <3>1, <4>1
    <3>2. CASE persisted' = [persisted EXCEPT ![l] = Append(persisted[l], handled[l] + 1)]
      BY <1>2, <1>5, <1>7, <3>2 DEF TypeOK
    <3> QED
      BY <1>6, <3>1, <3>2
  <2> QED
    BY <1>2, <1>5, <2>1, <2>2 DEF PersistedInv
<1>11. TaskInv' /\ NoMissedEntry'
  BY <1>1, <1>2 DEF TaskInv, NoMissedEntry
<1>12. MutexInv' /\ BatchInv'
  BY <1>1, <1>2, <1>5 DEF TypeOK, MutexInv, BatchInv
<1> QED
  BY <1>8, <1>9, <1>10, <1>11, <1>12 DEF IInv

(* A finished batch is empty. *)
LEMMA DrainedStep ==
  ASSUME IInv, NEW l \in Lanes, Alive, Drained(l), UNCHANGED main
  PROVE  IInv'
<1> USE DEF IInv, Drained, BatchDone
<1>1. TypeOK' /\ TaskInv'
  BY DEF TypeOK, TaskInv
<1>2. MutexInv' /\ BatchInv'
  BY DEF TypeOK, TaskInv, MutexInv, BatchInv
<1>3. NoMissedEntry'
  BY DEF TypeOK, TaskInv, MutexInv, BatchInv, NoMissedEntry
<1>4. NoEntryLost' /\ PersistedInv'
  BY EntriesUnchanged
<1> QED
  BY <1>1, <1>2, <1>3, <1>4

(* A worker that outlives the consumer changes nothing but itself. *)
LEMMA UseAfterDestructionStep ==
  ASSUME IInv, NEW l \in Lanes, UseAfterDestruction(l)
  PROVE  IInv'
<1> USE DEF IInv, UseAfterDestruction
<1>1. TypeOK' /\ TaskInv'
  BY SMTT(30) DEF TypeOK, TaskInv
<1>2. MutexInv' /\ BatchInv'
  BY DEF TypeOK, TaskInv, MutexInv, BatchInv
<1>3. NoMissedEntry'
  BY DEF TypeOK, TaskInv, MutexInv, BatchInv, NoMissedEntry
<1>4. NoEntryLost' /\ PersistedInv'
  BY EntriesUnchanged
<1> QED
  BY <1>1, <1>2, <1>3, <1>4

(* Every step of the consumer and of nodeos preserves the invariant. *)
LEMMA NextIInv == IInv /\ [Next]_vars => IInv'
<1> SUFFICES ASSUME IInv, [Next]_vars PROVE IInv'
  OBVIOUS
<1>1. CASE PushBlockState
  BY <1>1, StartPushStep DEF PushBlockState
<1>2. CASE PushTransactionTrace
  BY <1>2, StartPushStep DEF PushTransactionTrace
<1>3. CASE QueueStep
  BY <1>3, QueueLockStep, QueueNotifyOneStep, QueueSleepStep, QueueEmplaceStep,
     QueueNotifyAllStep DEF QueueStep
<1>4. CASE Shutdown
  BY <1>4, SetExitStep DEF Shutdown
<1>5. CASE Destructor
  BY <1>5, SetExitStep DEF Destructor
<1>6. CASE ExitStep
  BY <1>6, NotifyExitStep, JoinStep DEF ExitStep
<1>7. ASSUME NEW l \in Lanes, Worker(l) PROVE IInv'
  BY <1>7, TopStep, LockStep, TestStep, WaitStep, TakeStep, ConsumeStep, DrainedStep
  DEF Worker
<1>8. CASE RunBlocks \/ RunTraces
  BY <1>7, <1>8 DEF RunBlocks, RunTraces
<1>9. CASE \E l \in Lanes : Wakeup(l)
  BY <1>9, SpuriousWakeStep DEF Wakeup
<1>10. CASE \E l \in Lanes : UseAfterDestruction(l)
  BY <1>10, UseAfterDestructionStep
<1>11. CASE UNCHANGED vars
  BY <1>11 DEF IInv, TypeOK, TaskInv, MutexInv, BatchInv, NoMissedEntry, NoEntryLost,
     PersistedInv, Continues
<1> QED
  BY <1>1, <1>2, <1>3, <1>4, <1>5, <1>6, <1>8, <1>9, <1>10, <1>11 DEF Next

(* The invariant holds in every state of every behaviour. *)
THEOREM Invariance == Spec => []IInv
  BY InitIInv, NextIInv, PTL DEF Spec

(* Every variable keeps its type. *)
THEOREM TypeCorrect == Spec => []TypeOK
<1>1. IInv => TypeOK
  BY DEF IInv
<1> QED
  BY <1>1, Invariance, PTL

(* No entry is lost, duplicated or reordered between the push and the       *)
(* database call, whatever the size of the queue and the interleaving.      *)
THEOREM NothingLost == Spec => []NoEntryLost
<1>1. IInv => NoEntryLost
  BY DEF IInv
<1> QED
  BY <1>1, Invariance, PTL

(* No worker sleeps over a queue with entries once the push has notified:  *)
(* one condition variable for two lanes is enough because it notifies all.  *)
THEOREM NoLostWakeup == Spec => []NoMissedEntry
<1>1. IInv => NoMissedEntry
  BY DEF IInv
<1> QED
  BY <1>1, Invariance, PTL

(* A worker leaves its loop only after exit, with its batch drained. *)
THEOREM EndedDrained == Spec => []EndedIsDrained
<1>1. IInv => EndedIsDrained
  BY DEF IInv, BatchInv, EndedIsDrained
<1> QED
  BY <1>1, Invariance, PTL

-----------------------------------------------------------------------------
(* Refinement.  One lemma serves both lanes: seen from lane l, a step       *)
(* accepts the next entry, hands a later one to the database, or neither.   *)

FeedAccepts(l) == pushed'[l] = pushed[l] + 1 /\ persisted'[l] = persisted[l]

FeedPersists(l) ==
  /\ \E n \in 1..pushed[l] :
       /\ \A i \in DOMAIN persisted[l] : persisted[l][i] < n
       /\ persisted'[l] = Append(persisted[l], n)
  /\ pushed'[l] = pushed[l]

FeedStutters(l) == pushed'[l] = pushed[l] /\ persisted'[l] = persisted[l]

(* A push is an accept of its lane and a stutter of the other. *)
LEMMA EmplaceIsAccept ==
  ASSUME IInv, NEW l \in Lanes, QueueEmplace
  PROVE  FeedAccepts(l) \/ FeedStutters(l)
<1>1. pushed \in [Lanes -> Nat] /\ task \in Lanes
  BY DEF IInv, TypeOK, TaskInv, QueueEmplace
<1> QED
  BY <1>1 DEF QueueEmplace, FeedAccepts, FeedStutters

(* Handling an entry of lane k persists the entry after all handled ones,  *)
(* or nothing when the database call fails.                                *)
LEMMA ConsumeIsPersist ==
  ASSUME IInv, NEW l \in Lanes, NEW k \in Lanes, Consume(k)
  PROVE  FeedPersists(l) \/ FeedStutters(l)
<1>1. /\ process[k] \in Seq(Nat \ {0}) /\ queue[k] \in Seq(Nat \ {0})
      /\ persisted[k] \in Seq(Nat \ {0}) /\ persisted \in [Lanes -> Seq(Nat \ {0})]
      /\ handled[k] \in Nat /\ pushed[k] \in Nat
      /\ process[k] # <<>>
      /\ UNCHANGED pushed
  BY DEF IInv, TypeOK, Consume
<1>2. CASE UNCHANGED persisted
  BY <1>1, <1>2 DEF FeedStutters
<1>3. CASE persisted' = [persisted EXCEPT ![k] = Append(persisted[k], NextEntry(k))]
  <2>1. CASE l # k
    BY <1>1, <1>3, <2>1 DEF FeedStutters
  <2>2. CASE l = k
    <3>1. persisted'[k] = Append(persisted[k], NextEntry(k))
      BY <1>1, <1>3
    <3>2. NextEntry(k) = handled[k] + 1
      BY <1>1, TailContinues DEF NextEntry, IInv, NoEntryLost
    <3>3. Len(process[k]) \in Nat \ {0} /\ Len(queue[k]) \in Nat
      BY <1>1, EmptySeq, LenProperties
    <3>4. handled[k] + 1 \in 1..pushed[k]
      <4>1. handled[k] + Len(process[k]) + Len(queue[k]) = pushed[k]
        BY DEF IInv, NoEntryLost
      <4>2. handled[k] \in Nat /\ pushed[k] \in Nat
        BY <1>1
      <4> QED
        BY <3>3, <4>1, <4>2
    <3>5. \A i \in DOMAIN persisted[k] : persisted[k][i] < handled[k] + 1
      <4>1. DOMAIN persisted[k] = 1..Len(persisted[k])
        BY <1>1, LenProperties
      <4>2. \A i \in 1..Len(persisted[k]) : persisted[k][i] \in Nat
        BY <1>1, ElementOfSeq
      <4>3. \A i \in 1..Len(persisted[k]) : persisted[k][i] <= handled[k]
        BY DEF IInv, PersistedInv
      <4> QED
        BY <1>1, <4>1, <4>2, <4>3
    <3> QED
      BY <1>1, <2>2, <3>1, <3>2, <3>4, <3>5 DEF FeedPersists
  <2> QED
    BY <2>1, <2>2
<1> QED
  BY <1>2, <1>3 DEF Consume

(* Every other step, of the main thread or of a worker, stutters. *)
LEMMA StepOfFeed ==
  ASSUME IInv, NEW l \in Lanes, [Next]_vars
  PROVE  FeedAccepts(l) \/ FeedPersists(l) \/ FeedStutters(l)
<1>1. CASE QueueEmplace
  BY <1>1, EmplaceIsAccept
<1>2. ASSUME NEW k \in Lanes, Consume(k) PROVE FeedPersists(l) \/ FeedStutters(l)
  BY <1>2, ConsumeIsPersist
<1>3. CASE UNCHANGED history
  BY <1>3 DEF FeedStutters
<1>4. QueueStep => QueueEmplace \/ UNCHANGED history
  BY DEF QueueStep, QueueLock, QueueNotifyOne, QueueSleep, QueueNotifyAll
<1>5. ASSUME NEW k \in Lanes, Worker(k) PROVE Consume(k) \/ UNCHANGED history
  BY <1>5 DEF Worker, Top, Lock, Test, Wait, Take, Drained
<1>6. RunBlocks \/ RunTraces => (\E k \in Lanes : Consume(k)) \/ UNCHANGED history
  BY <1>5 DEF RunBlocks, RunTraces
<1>7. PushBlockState \/ PushTransactionTrace \/ Shutdown \/ Destructor \/ ExitStep
        \/ (\E k \in Lanes : Wakeup(k)) \/ (\E k \in Lanes : UseAfterDestruction(k))
        \/ UNCHANGED vars => UNCHANGED history
  BY DEF PushBlockState, PushTransactionTrace, StartPush, Shutdown, Destructor, SetExit,
     ExitStep, NotifyExit, Join, Wakeup, SpuriousWake, UseAfterDestruction
<1> QED
  BY <1>1, <1>2, <1>3, <1>4, <1>6, <1>7 DEF Next

(* The traces lane, the one the plugin feeds, implements the ordered feed. *)
THEOREM TracesRefines == Spec => TracesFeedSpec
<1>1. Init => TracesFeed!Init
  BY DEF Init, TracesFeed!Init
<1>2. ASSUME IInv, [Next]_vars PROVE [TracesFeed!Next]_(TracesFeed!feed)
  <2>1. FeedAccepts("traces") \/ FeedPersists("traces") \/ FeedStutters("traces")
    BY <1>2, StepOfFeed
  <2> QED
    BY <2>1 DEF FeedAccepts, FeedPersists, FeedStutters, TracesFeed!Next, TracesFeed!feed,
       TracesFeed!Accept, TracesFeed!Persist, TracesFeed!IsLater
<1> QED
  BY <1>1, <1>2, Invariance, PTL DEF Spec, TracesFeedSpec, TracesFeed!Spec
=============================================================================
