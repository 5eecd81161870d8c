----------------------- MODULE PluginLifecycleProofs -----------------------
(***************************************************************************)
(* Proofs about the life cycle of the plugin, for every set of             *)
(* transactions and every number of blocks, executions and runs.           *)
(*                                                                         *)
(* SavedAsAsked speaks of the options a transaction was executed under,    *)
(* the code of the connection, and of the filter the worker has when it    *)
(* gets to the trace.  They agree because nothing is executed between      *)
(* plugin_initialize's first step and its connect (PhaseInv), and no trace *)
(* outlives the run that queued it (FilterInv).  PhaseInv also has that    *)
(* the connection goes before the consumer.  AbiInv follows the row of     *)
(* eosio from the decision to wipe to the consumer.                        *)
(***************************************************************************)
EXTENDS PluginLifecycle, SequenceTheorems, TLAPS

(* What the phase says of the connection, the consumer and its queue. *)
PhaseInv ==
  /\ connected => handler
  /\ ~handler => queue = <<>>
  /\ phase \in {"down", "options", "opened", "wiped", "kept"} => ~handler
  /\ phase \in {"opened", "wiped", "kept"} => config.uri = "given"
  /\ phase \in {"initialized", "started"} => (connected <=> config.uri = "given")
  /\ phase \in {"disconnected", "unloaded"} => ~connected
  /\ phase = "unloaded" => ~handler

(* From the decision to wipe on, a resync has the row of eosio. *)
AbiInv ==
  /\ phase \in {"wiped", "kept"} /\ config.start = 0 /\ ~unsure => eosio
  /\ SystemAbiStored

(* The filter of this run says of a queued trace what the options said of  *)
(* the transaction when it was executed.                                   *)
FilterInv == \A i \in DOMAIN queue : executed[queue[i].number] = FilteredIn(queue[i].tx)

IInv == TypeOK /\ PhaseInv /\ AbiInv /\ FilterInv /\ SavedAsAsked

(* The executions of the traces in a queue, and the traces it may hold. *)
NumbersOf(q) == {q[i].number : i \in DOMAIN q}
Traces == [number : 1..Len(executed), tx : Sent]

-----------------------------------------------------------------------------
(* What the empty sequence is. *)
LEMMA EmptySequence ==
  /\ Len(<<>>) = 0
  /\ DOMAIN <<>> = {}
  /\ NumbersOf(<<>>) = {}
  /\ \A S : <<>> \in Seq(S)
<1>1. Len(<<>>) = 0 /\ \A S : <<>> \in Seq(S)
  BY EmptySeq
<1>2. DOMAIN <<>> = 1..Len(<<>>)
  BY <1>1, LenProperties
<1>3. DOMAIN <<>> = {}
  BY <1>1, <1>2
<1> QED
  BY <1>1, <1>3 DEF NumbersOf

(* Appending a trace adds its execution to those in the queue. *)
LEMMA AppendNumbers ==
  ASSUME NEW S, NEW s \in Seq(S), NEW e
  PROVE  NumbersOf(Append(s, e)) = NumbersOf(s) \cup {e.number}
<1>1. /\ Len(s) \in Nat
      /\ DOMAIN s = 1..Len(s)
      /\ DOMAIN Append(s, e) = 1..(Len(s) + 1)
      /\ \A i \in 1..Len(s) : Append(s, e)[i] = s[i]
      /\ Append(s, e)[Len(s) + 1] = e
  OBVIOUS
<1>2. ASSUME NEW x \in NumbersOf(s) \cup {e.number}
      PROVE  x \in NumbersOf(Append(s, e))
  BY <1>1, <1>2 DEF NumbersOf
<1>3. ASSUME NEW x \in NumbersOf(Append(s, e))
      PROVE  x \in NumbersOf(s) \cup {e.number}
  BY <1>1, <1>3 DEF NumbersOf
<1> QED
  BY <1>2, <1>3

(* The executions in a queue are that of its head and those in its tail. *)
LEMMA HeadTailNumbers ==
  ASSUME NEW S, NEW s \in Seq(S), s # <<>>
  PROVE  NumbersOf(s) = {Head(s).number} \cup NumbersOf(Tail(s))
<1>1. /\ Len(s) \in Nat \ {0}
      /\ DOMAIN s = 1..Len(s)
      /\ DOMAIN Tail(s) = 1..(Len(s) - 1)
      /\ Head(s) = s[1]
      /\ \A i \in 1..(Len(s) - 1) : Tail(s)[i] = s[i + 1]
  OBVIOUS
<1>2. ASSUME NEW i \in 1..Len(s)
      PROVE  s[i].number \in {Head(s).number} \cup NumbersOf(Tail(s))
  <2>1. CASE i = 1
    BY <1>1, <2>1
  <2>2. CASE i # 1
    <3>1. i - 1 \in 1..(Len(s) - 1) /\ Tail(s)[i - 1] = s[i]
      BY <1>1, <2>2
    <3> QED
      BY <1>1, <3>1 DEF NumbersOf
  <2> QED
    BY <2>1, <2>2
<1>3. ASSUME NEW x \in {Head(s).number} \cup NumbersOf(Tail(s))
      PROVE  x \in NumbersOf(s)
  BY <1>1, <1>3 DEF NumbersOf
<1> QED
  BY <1>1, <1>2, <1>3, SMTT(30) DEF NumbersOf

(* What the types say of the queue. *)
LEMMA QueueIsExecuted ==
  ASSUME TypeOK
  PROVE  /\ Len(executed) \in Nat /\ DOMAIN executed = 1..Len(executed)
         /\ Len(queue) \in Nat /\ DOMAIN queue = 1..Len(queue)
         /\ \A i \in DOMAIN queue : queue[i].number \in 1..Len(executed)
         /\ Queued = NumbersOf(queue)
         /\ Queued \subseteq 1..Len(executed)
<1>1. queue \in Seq(Traces) /\ executed \in Seq(BOOLEAN)
  BY DEF TypeOK, Traces
<1>2. /\ DOMAIN queue = 1..Len(queue) /\ Len(queue) \in Nat
      /\ \A i \in 1..Len(queue) : queue[i] \in Traces
      /\ Len(executed) \in Nat /\ DOMAIN executed = 1..Len(executed)
  BY <1>1, LenProperties, ElementOfSeq
<1>3. \A i \in DOMAIN queue : queue[i].number \in 1..Len(executed)
  BY <1>2 DEF Traces
<1> QED
  BY <1>2, <1>3 DEF Queued, NumbersOf

(* No queued execution is handled already. *)
LEMMA QueueIsNew ==
  ASSUME TypeOK, SavedAsAsked
  PROVE  (saved \cup cut) \cap Queued = {}
<1> SUFFICES ASSUME NEW x \in saved \cup cut, x \in Queued PROVE FALSE
  OBVIOUS
<1>1. x \in 1..Len(executed) /\ Len(executed) \in Nat
  BY QueueIsExecuted
<1>2. PICK i \in DOMAIN queue : x = queue[i].number
  BY DEF Queued
<1>3. x < x
  BY <1>2 DEF SavedAsAsked
<1> QED
  BY ONLY <1>1, <1>3

(* A step that moves no trace keeps where the traces are. *)
LEMMA TracesUnchanged ==
  ASSUME SavedAsAsked, UNCHANGED <<saved, queue, cut, lost, executed>>
  PROVE  SavedAsAsked'
  BY DEF SavedAsAsked, Wanted, Queued

(* The filter of a run does not change, and no trace is queued without one. *)
LEMMA FilterUnchanged ==
  ASSUME FilterInv, UNCHANGED <<queue, executed>>, config' = config \/ queue = <<>>
  PROVE  FilterInv'
<1>1. CASE config' = config
  BY <1>1 DEF FilterInv, FilteredIn
<1>2. CASE queue = <<>>
  BY <1>2, EmptySequence DEF FilterInv
<1> QED
  BY <1>1, <1>2

-----------------------------------------------------------------------------
(* The invariant holds before the first start. *)
LEMMA InitIInv == Init => IInv
<1> SUFFICES ASSUME Init PROVE IInv
  OBVIOUS
<1>1. Len(<<>>) = 0 /\ DOMAIN <<>> = {} /\ \A S : <<>> \in Seq(S)
  BY EmptySequence
<1>2. TypeOK
  <2>1. /\ queue \in Seq([number : 1..Len(executed), tx : Sent])
        /\ chain \in Seq(SUBSET Txs) /\ executed \in Seq(BOOLEAN)
    BY <1>1 DEF Init
  <2>2. head \in 0..Len(chain) /\ runs \in 0..MaxRuns
    <3>1. head = 0 /\ chain = <<>> /\ runs = 0
      BY DEF Init
    <3> QED
      BY <1>1, <3>1, LifecycleAssumption
  <2>3. saved \cup cut \cup lost \subseteq 1..Len(executed) /\ pending \subseteq Txs
    BY DEF Init
  <2> QED
    BY <2>1, <2>2, <2>3 DEF Init, TypeOK, Phases
<1>3. PhaseInv /\ AbiInv
  BY DEF Init, PhaseInv, AbiInv, SystemAbiStored
<1>4. queue = <<>> /\ executed = <<>> /\ saved = {} /\ cut = {} /\ lost = {}
  BY DEF Init
<1>5. FilterInv
  BY <1>1, <1>4 DEF FilterInv
<1>6. SavedAsAsked
  <2>1. Wanted = {}
    BY <1>1, <1>4 DEF Wanted
  <2> QED
    BY <1>1, <1>4, <2>1 DEF SavedAsAsked
<1> QED
  BY <1>2, <1>3, <1>5, <1>6 DEF IInv

(* When the queue goes with its process, what was queued is lost. *)
LEMMA QueueLost ==
  ASSUME TypeOK, SavedAsAsked, queue' = <<>>, lost' = lost \cup Queued,
         saved' = saved, cut' = cut, executed' = executed
  PROVE  /\ SavedAsAsked' /\ FilterInv'
         /\ queue' \in Seq([number : 1..Len(executed), tx : Sent])'
         /\ lost' \subseteq 1..Len(executed)
<1>1. (saved \cup cut) \cap Queued = {} /\ Queued \subseteq 1..Len(executed)
  BY QueueIsNew, QueueIsExecuted
<1>2. DOMAIN queue' = {} /\ \A S : queue' \in Seq(S)
  BY EmptySequence
<1>3. Wanted' = Wanted
  BY DEF Wanted
<1>4. SavedAsAsked'
  BY <1>1, <1>2, <1>3 DEF SavedAsAsked
<1> QED
  BY <1>1, <1>2, <1>4 DEF FilterInv, TypeOK

(* The end of the process, from any phase: what is queued is lost. *)
LEMMA EndStep ==
  ASSUME IInv, NEW cause \in {"no option", "no database", "null pointer", "exit", "killed"},
         End(cause)
  PROVE  IInv'
<1> USE DEF IInv, End, database
<1>1. /\ SavedAsAsked' /\ FilterInv'
      /\ queue' \in Seq([number : 1..Len(executed), tx : Sent])'
      /\ lost' \subseteq 1..Len(executed)
  BY QueueLost
<1>2. TypeOK'
  BY <1>1 DEF TypeOK, Phases
<1>3. PhaseInv' /\ AbiInv'
  BY DEF PhaseInv, AbiInv, SystemAbiStored
<1> QED
  BY <1>1, <1>2, <1>3

(* A start of nodeos, and the steps of plugin_initialize. *)
LEMMA InitializeStep ==
  ASSUME IInv, Start \/ Open \/ CheckDatabase \/ Connect \/ Startup
  PROVE  IInv'
<1> USE DEF IInv, database, controller, history
<1>1. CASE Start
  <2> USE <1>1 DEF Start
  <2>1. TypeOK'
    <3>1. runs' \in 0..MaxRuns
      <4>1. runs \in 0..MaxRuns /\ runs < MaxRuns /\ runs' = runs + 1 /\ MaxRuns \in Nat
        BY LifecycleAssumption DEF TypeOK
      <4> QED
        BY ONLY <4>1
    <3>2. chain' = chain /\ Len(chain) \in Nat /\ head \in 0..Len(chain)
      BY LenProperties DEF TypeOK
    <3>3. head' \in 0..Len(chain')
      BY <3>2
    <3> QED
      BY <3>1, <3>3 DEF TypeOK, Phases
  <2>2. PhaseInv' /\ AbiInv'
    BY DEF PhaseInv, AbiInv, SystemAbiStored
  <2>3. queue = <<>>
    BY DEF PhaseInv
  <2> QED
    BY <2>1, <2>2, <2>3, TracesUnchanged, FilterUnchanged
<1>2. CASE Open
  <2>1. CASE End("no option") \/ End("no database")
    BY <2>1, EndStep
  <2>2. CASE ~(End("no option") \/ End("no database"))
    <3>1. /\ phase = "options"
          /\ phase' = IF config.uri = "given" THEN "opened" ELSE "initialized"
          /\ UNCHANGED <<config, connected, handler, queue, died, chain, head, pending,
                         eosio, saved, runs, unsure, executed, cut, lost>>
      BY <1>2, <2>2 DEF Open
    <3>2. TypeOK'
      BY <3>1 DEF TypeOK, Phases
    <3>3. PhaseInv' /\ AbiInv'
      BY <3>1 DEF PhaseInv, AbiInv, SystemAbiStored, TypeOK
    <3> QED
      BY <3>1, <3>2, <3>3, TracesUnchanged, FilterUnchanged
  <2> QED
    BY <2>1, <2>2
<1>3. CASE CheckDatabase
  <2> USE <1>3 DEF CheckDatabase
  <2>1. PICK started \in BOOLEAN, selected \in BOOLEAN, inserted \in BOOLEAN :
          /\ selected => started = eosio
          /\ phase' = IF MustWipe(started) THEN "wiped" ELSE "kept"
          /\ eosio' = (eosio \/ (MustWipe(started) /\ inserted))
          /\ unsure' = (~selected \/ (MustWipe(started) /\ ~inserted))
    OBVIOUS
  <2>2. TypeOK'
    BY <2>1 DEF TypeOK, Phases
  <2>3. PhaseInv' /\ AbiInv'
    BY <2>1, Zenon DEF PhaseInv, AbiInv, SystemAbiStored, MustWipe
  <2> QED
    BY <2>2, <2>3, TracesUnchanged, FilterUnchanged
<1>4. CASE Connect
  <2> USE <1>4 DEF Connect
  <2>1. TypeOK'
    BY DEF TypeOK, Phases
  <2>2. PhaseInv' /\ AbiInv'
    BY DEF PhaseInv, AbiInv, SystemAbiStored
  <2> QED
    BY <2>1, <2>2, TracesUnchanged, FilterUnchanged
<1>5. CASE Startup
  <2>1. CASE End("null pointer")
    BY <2>1, EndStep
  <2>2. CASE ~End("null pointer")
    <3>1. /\ phase = "initialized" /\ phase' = "started"
          /\ UNCHANGED <<config, connected, handler, queue, died, chain, head, pending,
                         eosio, saved, runs, unsure, executed, cut, lost>>
      BY <1>5, <2>2 DEF Startup
    <3>2. TypeOK'
      BY <3>1 DEF TypeOK, Phases
    <3>3. PhaseInv' /\ AbiInv'
      BY <3>1 DEF PhaseInv, AbiInv, SystemAbiStored
    <3> QED
      BY <3>1, <3>2, <3>3, TracesUnchanged, FilterUnchanged
  <2> QED
    BY <2>1, <2>2
<1> QED
  BY <1>1, <1>2, <1>3, <1>4, <1>5

(* The trace of an execution is queued when the options ask for it: it is  *)
(* executed once the signal is connected, if it ever is.                   *)
LEMMA ExecuteQueues ==
  ASSUME IInv, NEW tx \in Sent, Execute(tx)
  PROVE  /\ Asked(tx) => connected /\ Callback(head + 1, tx)
         /\ connected /\ Callback(head + 1, tx) => Asked(tx) = FilteredIn(tx)
<1>1. connected <=> config.uri = "given"
  BY DEF IInv, PhaseInv, Execute, Executing
<1>2. CASE Asked(tx)
  BY <1>1, <1>2 DEF Asked, Callback, Applied, FilteredIn
<1>3. CASE ~Asked(tx)
  <2>1. connected /\ Callback(head + 1, tx) => ~FilteredIn(tx)
    BY <1>1, <1>3 DEF Asked, Callback, Applied, FilteredIn
  <2>2. Asked(tx) = FALSE
    BY <1>3 DEF Asked
  <2>3. ~FilteredIn(tx) => FilteredIn(tx) = FALSE
    BY DEF FilteredIn
  <2> QED
    BY <2>1, <2>2, <2>3
<1> QED
  BY <1>2, <1>3

(* A new trace is behind those that are queued. *)
LEMMA QueuedInOrder ==
  ASSUME TypeOK, SavedAsAsked, NEW e, e.number = Len(executed) + 1, queue' = Append(queue, e),
         UNCHANGED <<saved, cut, lost>>
  PROVE  /\ \A i, j \in DOMAIN queue' : i < j => queue'[i].number < queue'[j].number
         /\ \A i \in DOMAIN queue' : \A m \in saved' \cup cut' \cup lost' : m < queue'[i].number
<1>1. /\ Len(executed) \in Nat
      /\ Len(queue) \in Nat /\ DOMAIN queue = 1..Len(queue)
      /\ \A i \in 1..Len(queue) : queue[i].number \in 1..Len(executed)
      /\ saved \cup cut \cup lost \subseteq 1..Len(executed)
  BY QueueIsExecuted DEF TypeOK
<1>2. /\ DOMAIN queue' = 1..(Len(queue) + 1)
      /\ queue'[Len(queue) + 1] = e
      /\ \A i \in 1..Len(queue) : queue'[i] = queue[i]
  <2>1. queue \in Seq([number : 1..Len(executed), tx : Sent])
    BY DEF TypeOK
  <2> QED
    BY <2>1
<1>3. ASSUME NEW i \in 1..(Len(queue) + 1), NEW j \in 1..(Len(queue) + 1), i < j
      PROVE  queue'[i].number < queue'[j].number
  <2>1. i \in 1..Len(queue) /\ queue'[i] = queue[i]
    BY <1>1, <1>2, <1>3
  <2>2. CASE j = Len(queue) + 1
    BY <1>1, <1>2, <2>1, <2>2
  <2>3. CASE j # Len(queue) + 1
    <3>1. j \in 1..Len(queue) /\ queue'[j] = queue[j]
      BY <1>1, <1>2, <2>3
    <3> QED
      BY <1>1, <1>3, <2>1, <3>1 DEF SavedAsAsked
  <2> QED
    BY <2>2, <2>3
<1>4. ASSUME NEW i \in 1..(Len(queue) + 1), NEW m \in saved \cup cut \cup lost
      PROVE  m < queue'[i].number
  <2>1. CASE i = Len(queue) + 1
    BY <1>1, <1>2, <2>1
  <2>2. CASE i # Len(queue) + 1
    <3>1. i \in 1..Len(queue) /\ queue'[i] = queue[i]
      BY <1>1, <1>2, <2>2
    <3> QED
      BY <1>1, <3>1 DEF SavedAsAsked
  <2> QED
    BY <2>1, <2>2
<1> QED
  BY <1>2, <1>3, <1>4

(* An execution: what the options ask for is queued. *)
LEMMA ExecuteStep ==
  ASSUME IInv, NEW tx \in Sent, Execute(tx)
  PROVE  IInv'
<1> DEFINE n == Len(executed) + 1
           e == [number |-> n, tx |-> tx]
           Goes == connected /\ Callback(head + 1, tx)
<1>1. /\ Executing
      /\ executed' = Append(executed, Asked(tx))
      /\ queue' = IF Goes THEN Append(queue, e) ELSE queue
      /\ pending' = pending \cup ({tx} \ {Onblock})
      /\ UNCHANGED <<config, phase, connected, handler, died, chain, head, eosio, saved,
                     runs, unsure, cut, lost>>
  BY DEF Execute, process, database, Trace
<1>2. (Asked(tx) => Goes) /\ (Goes => Asked(tx) = FilteredIn(tx))
  BY ExecuteQueues
<1>3. /\ executed \in Seq(BOOLEAN) /\ Len(executed) \in Nat
      /\ DOMAIN executed = 1..Len(executed)
      /\ queue \in Seq(Traces)
      /\ Len(queue) \in Nat /\ DOMAIN queue = 1..Len(queue)
      /\ \A i \in DOMAIN queue : queue[i].number \in 1..Len(executed)
      /\ Queued = NumbersOf(queue)
      /\ saved \cup cut \cup lost \subseteq 1..Len(executed)
  BY QueueIsExecuted DEF IInv, TypeOK, Traces
<1>4. /\ executed' \in Seq(BOOLEAN)
      /\ Len(executed') = n /\ DOMAIN executed' = 1..n
      /\ executed'[n] = Asked(tx)
      /\ \A i \in 1..Len(executed) : executed'[i] = executed[i]
  <2>1. Asked(tx) \in BOOLEAN
    BY DEF Asked
  <2> QED
    BY <1>1, <1>3, <2>1, AppendProperties, LenProperties
<1>5. 1..n = (1..Len(executed)) \cup {n} /\ n \notin 1..Len(executed)
  BY <1>3
<1>6. /\ Traces \subseteq [number : 1..n, tx : Sent]
      /\ e \in [number : 1..n, tx : Sent]
  BY <1>5 DEF Traces
<1>7. queue \in Seq([number : 1..n, tx : Sent])
  BY <1>3, <1>6, SeqMonotonic
<1>8. TypeOK'
  <2>1. queue' \in Seq([number : 1..n, tx : Sent])
    BY <1>1, <1>6, <1>7, AppendProperties
  <2>2. pending' \subseteq Txs
    BY <1>1 DEF IInv, TypeOK, Sent
  <2>3. (saved \cup cut \cup lost)' \subseteq 1..n
    BY <1>1, <1>3, <1>5
  <2> QED
    BY <1>1, <1>4, <2>1, <2>2, <2>3 DEF IInv, TypeOK
<1>9. PhaseInv' /\ AbiInv'
  BY <1>1 DEF IInv, PhaseInv, AbiInv, SystemAbiStored, Executing
<1>10. Wanted' = Wanted \cup (IF Asked(tx) THEN {n} ELSE {})
  BY <1>3, <1>4, <1>5 DEF Wanted
<1>11. CASE ~Goes
  <2>1. queue' = queue /\ Wanted' = Wanted
    BY <1>1, <1>2, <1>10, <1>11
  <2>2. SavedAsAsked'
    BY <1>1, <2>1, SMTT(30) DEF IInv, SavedAsAsked, Queued
  <2>3. FilterInv'
    BY <1>1, <1>3, <1>4, <2>1 DEF IInv, FilterInv, FilteredIn
  <2> QED
    BY <1>8, <1>9, <2>2, <2>3 DEF IInv
<1>12. CASE Goes
  <2>1. queue' = Append(queue, e)
    BY <1>1, <1>12
  <2>2. Queued' = Queued \cup {n}
    <3>1. Queued' = NumbersOf(queue')
      BY DEF Queued, NumbersOf
    <3> QED
      BY <1>3, <2>1, <3>1, AppendNumbers
  <2>3. /\ DOMAIN queue' = 1..(Len(queue) + 1)
        /\ queue'[Len(queue) + 1] = e
        /\ \A i \in 1..Len(queue) : queue'[i] = queue[i]
    BY <1>3, <2>1, AppendProperties
  <2>4. FilterInv'
    <3> SUFFICES ASSUME NEW i \in 1..(Len(queue) + 1)
                 PROVE  executed'[queue'[i].number] = (queue'[i].tx \in config.actionFilterOn)
      BY <1>1, <2>3 DEF FilterInv, FilteredIn
    <3>1. CASE i = Len(queue) + 1
      BY <1>2, <1>4, <1>12, <2>3, <3>1 DEF FilteredIn
    <3>2. CASE i # Len(queue) + 1
      <4>1. i \in DOMAIN queue /\ queue'[i] = queue[i]
        BY <1>3, <2>3, <3>2
      <4> QED
        BY <1>3, <1>4, <4>1 DEF IInv, FilterInv, FilteredIn
    <3> QED
      BY <3>1, <3>2
  <2>5. SavedAsAsked'
    <3>1. /\ \A i, j \in DOMAIN queue' : i < j => queue'[i].number < queue'[j].number
          /\ \A i \in DOMAIN queue' :
               \A m \in saved' \cup cut' \cup lost' : m < queue'[i].number
      BY <1>1, <2>1, QueuedInOrder DEF IInv
    <3>2. /\ saved' \subseteq Wanted'
          /\ Wanted' \subseteq saved' \cup cut' \cup lost' \cup Queued'
          /\ (saved' \cup cut') \cap lost' = {}
      BY <1>1, <1>10, <2>2 DEF IInv, SavedAsAsked
    <3> QED
      BY <3>1, <3>2 DEF SavedAsAsked
  <2> QED
    BY <1>8, <1>9, <2>4, <2>5 DEF IInv
<1> QED
  BY <1>11, <1>12

(* The chain's own steps: nothing of the plugin moves. *)
LEMMA ChainStep ==
  ASSUME IInv, CommitBlock \/ DropPending \/ PopBlock
  PROVE  IInv'
<1> USE DEF process, database, history
<1>1. UNCHANGED <<config, phase, connected, handler, queue, died, eosio, saved, runs, unsure,
                  executed, cut, lost>>
  BY DEF CommitBlock, DropPending, PopBlock
<1>2. /\ chain \in Seq(SUBSET Txs) /\ Len(chain) \in Nat
      /\ head \in 0..Len(chain) /\ pending \subseteq Txs
  BY LenProperties DEF IInv, TypeOK
<1>3. chain' \in Seq(SUBSET Txs) /\ head' \in 0..Len(chain') /\ pending' \subseteq Txs
  <2>1. CASE CommitBlock
    <3>1. CASE AtTip
      <4>1. chain' = Append(chain, pending) /\ head' = head + 1 /\ pending' = {}
        BY <2>1, <3>1 DEF CommitBlock
      <4>2. chain' \in Seq(SUBSET Txs) /\ Len(chain') = Len(chain) + 1
        BY <1>2, <4>1, AppendProperties
      <4> QED
        BY <1>2, <4>1, <4>2
    <3>2. CASE ~AtTip
      <4>1. chain' = chain /\ head' = head + 1 /\ pending' = {} /\ head # Len(chain)
        BY <2>1, <3>2 DEF CommitBlock, AtTip
      <4> QED
        BY <1>2, <4>1
    <3> QED
      BY <3>1, <3>2
  <2>2. CASE DropPending
    BY <1>2, <2>2 DEF DropPending
  <2>3. CASE PopBlock
    <3>1. chain' = SubSeq(chain, 1, Len(chain) - 1) /\ head' = head - 1 /\ head = Len(chain)
          /\ head > 0 /\ pending' = pending
      BY <2>3 DEF PopBlock, AtTip, Front
    <3>2. chain' \in Seq(SUBSET Txs) /\ Len(chain') = Len(chain) - 1
      BY <1>2, <3>1
    <3> QED
      BY <1>2, <3>1, <3>2
  <2> QED
    BY <2>1, <2>2, <2>3
<1>4. TypeOK'
  BY <1>1, <1>3 DEF IInv, TypeOK
<1>5. PhaseInv' /\ AbiInv'
  BY <1>1 DEF IInv, PhaseInv, AbiInv, SystemAbiStored
<1> QED
  BY <1>1, <1>4, <1>5, TracesUnchanged, FilterUnchanged DEF IInv

(* The worker saves what it takes from the queue as far as it is in the    *)
(* filter and nothing fails, the oldest first.                             *)
LEMMA SaveStep ==
  ASSUME IInv, Save
  PROVE  IInv'
<1> DEFINE k == queue[1].number
           rows == IF FilteredIn(queue[1].tx) THEN {k} ELSE {}
<1>1. queue # <<>> /\ queue \in Seq(Traces)
  BY DEF Save, IInv, TypeOK, Traces
<1>2. /\ Len(queue) \in Nat \ {0} /\ DOMAIN queue = 1..Len(queue)
      /\ Len(executed) \in Nat /\ DOMAIN executed = 1..Len(executed)
      /\ \A i \in DOMAIN queue : queue[i].number \in 1..Len(executed)
      /\ Queued = NumbersOf(queue)
  BY <1>1, QueueIsExecuted, EmptySeq DEF IInv
<1>3. /\ Head(queue) = queue[1]
      /\ Tail(queue) \in Seq(Traces)
      /\ DOMAIN Tail(queue) = 1..(Len(queue) - 1)
      /\ \A i \in 1..(Len(queue) - 1) : Tail(queue)[i] = queue[i + 1]
  BY <1>1, <1>2
<1>4. /\ handler /\ queue' = Tail(queue)
      /\ saved' \in {saved, saved \cup rows}
      /\ cut' \in {cut, cut \cup {k}}
      /\ saved' = saved \cup rows \/ cut' = cut \cup {k}
      /\ eosio' \in {eosio, TRUE}
      /\ UNCHANGED <<config, phase, connected, handler, died, chain, head, pending, runs,
                     unsure, executed, lost>>
  BY <1>3 DEF Save, process, controller
<1>5. 1 \in DOMAIN queue /\ k \in 1..Len(executed) /\ rows \subseteq {k}
  BY <1>2
<1>6. Queued = {k} \cup Queued'
  <2>1. Queued' = NumbersOf(queue')
    BY DEF Queued, NumbersOf
  <2> QED
    BY <1>1, <1>2, <1>3, <1>4, <2>1, HeadTailNumbers
<1>7. TypeOK'
  <2>1. queue' \in Seq([number : 1..Len(executed'), tx : Sent])
    BY <1>3, <1>4 DEF Traces
  <2>2. (saved \cup cut \cup lost)' \subseteq 1..Len(executed')
    BY <1>4, <1>5 DEF IInv, TypeOK
  <2> QED
    BY <1>4, <2>1, <2>2 DEF IInv, TypeOK
<1>8. PhaseInv'
  BY <1>1, <1>4 DEF IInv, PhaseInv
<1>9. AbiInv'
  <2>1. eosio => eosio'
    BY <1>4
  <2>2. AbiInv /\ config' = config /\ phase' = phase /\ handler' = handler /\ unsure' = unsure
    BY <1>4 DEF IInv
  <2> QED
    BY <2>1, <2>2, Zenon DEF AbiInv, SystemAbiStored
<1>10. FilterInv'
  <2> SUFFICES ASSUME NEW i \in 1..(Len(queue) - 1)
               PROVE  executed[queue[i + 1].number] = (queue[i + 1].tx \in config.actionFilterOn)
    BY <1>3, <1>4 DEF FilterInv, FilteredIn
  <2>1. i + 1 \in DOMAIN queue
    BY <1>2
  <2> QED
    BY <2>1 DEF IInv, FilterInv, FilteredIn
<1>11. (k \in Wanted <=> FilteredIn(queue[1].tx)) /\ Wanted' = Wanted
  <2>1. executed[k] = FilteredIn(queue[1].tx)
    BY <1>5 DEF IInv, FilterInv
  <2> QED
    BY <1>2, <1>4, <1>5, <2>1 DEF Wanted
<1>12. k \notin lost
  <2> SUFFICES ASSUME k \in lost PROVE FALSE
    OBVIOUS
  <2>1. k < k
    BY <1>5 DEF IInv, SavedAsAsked
  <2> QED
    BY ONLY <1>2, <1>5, <2>1
<1>13. saved' \subseteq Wanted'
  BY <1>4, <1>11 DEF IInv, SavedAsAsked
<1>14. Wanted' \subseteq saved' \cup cut' \cup lost' \cup Queued'
  BY <1>4, <1>6, <1>11 DEF IInv, SavedAsAsked
<1>15. (saved' \cup cut') \cap lost' = {}
  BY <1>4, <1>5, <1>12 DEF IInv, SavedAsAsked
<1>16. \A i, j \in DOMAIN queue' : i < j => queue'[i].number < queue'[j].number
  <2> SUFFICES ASSUME NEW i \in 1..(Len(queue) - 1), NEW j \in 1..(Len(queue) - 1), i < j
               PROVE  queue'[i].number < queue'[j].number
    BY <1>3, <1>4
  <2>1. i + 1 \in DOMAIN queue /\ j + 1 \in DOMAIN queue /\ i + 1 < j + 1
    BY <1>2
  <2> QED
    BY <1>3, <1>4, <2>1 DEF IInv, SavedAsAsked
<1>17. \A i \in DOMAIN queue' : \A m \in saved' \cup cut' \cup lost' : m < queue'[i].number
  <2> SUFFICES ASSUME NEW i \in 1..(Len(queue) - 1),
                      NEW m \in saved \cup cut \cup lost \cup {k}
               PROVE  m < queue[i + 1].number
    BY <1>3, <1>4, <1>5
  <2>1. i + 1 \in DOMAIN queue /\ 1 \in DOMAIN queue /\ 1 < i + 1
    BY <1>2
  <2> QED
    BY <2>1 DEF IInv, SavedAsAsked
<1> QED
  BY <1>7, <1>8, <1>9, <1>10, <1>13, <1>14, <1>15, <1>16, <1>17 DEF IInv, SavedAsAsked

(* The stop, down to the last destructor, and the death of the process. *)
LEMMA StopStep ==
  ASSUME IInv, Shutdown \/ Disconnect \/ DestroyHandler \/ Exit \/ Kill
  PROVE  IInv'
<1>1. CASE Shutdown \/ Disconnect
  <2>1. /\ \/ phase = "started" /\ phase' = "stopped" /\ connected' = connected
           \/ phase = "stopped" /\ phase' = "disconnected" /\ connected' = FALSE
        /\ UNCHANGED <<config, handler, queue, died, chain, head, pending, eosio, saved, runs,
                       unsure, executed, cut, lost>>
    BY <1>1 DEF Shutdown, Disconnect, Disconnected, controller, database, history
  <2>2. TypeOK'
    BY <2>1 DEF IInv, TypeOK, Phases
  <2>3. PhaseInv' /\ AbiInv'
    BY <2>1 DEF IInv, PhaseInv, AbiInv, SystemAbiStored
  <2> QED
    BY <2>1, <2>2, <2>3, TracesUnchanged, FilterUnchanged DEF IInv
<1>2. CASE DestroyHandler
  <2>1. /\ phase = "disconnected" /\ phase' = "unloaded"
        /\ handler' = FALSE /\ queue' = <<>> /\ lost' = lost \cup Queued
        /\ UNCHANGED <<config, connected, died, chain, head, pending, eosio, saved, runs,
                       unsure, executed, cut>>
    BY <1>2 DEF DestroyHandler, controller, database
  <2>2. /\ SavedAsAsked' /\ FilterInv'
        /\ queue' \in Seq([number : 1..Len(executed), tx : Sent])'
        /\ lost' \subseteq 1..Len(executed)
    BY <2>1, QueueLost DEF IInv
  <2>3. TypeOK'
    BY <2>1, <2>2 DEF IInv, TypeOK, Phases
  <2>4. PhaseInv' /\ AbiInv'
    BY <2>1 DEF IInv, PhaseInv, AbiInv, SystemAbiStored
  <2> QED
    BY <2>2, <2>3, <2>4 DEF IInv
<1>3. CASE Exit \/ Kill
  BY <1>3, EndStep DEF Exit, Kill
<1> QED
  BY <1>1, <1>2, <1>3

-----------------------------------------------------------------------------
(* The invariant holds in every state of every run of nodeos. *)
THEOREM Invariance == Spec => []IInv
<1>1. Init => IInv
  BY InitIInv
<1>2. IInv /\ [Next]_vars => IInv'
  <2> SUFFICES ASSUME IInv, [Next]_vars PROVE IInv'
    OBVIOUS
  <2>1. CASE UNCHANGED vars
    BY <2>1, TracesUnchanged, FilterUnchanged
       DEF vars, process, controller, database, history, IInv, TypeOK, PhaseInv, AbiInv,
           SystemAbiStored
  <2>2. CASE Next
    BY <2>2, InitializeStep, ExecuteStep, ChainStep, SaveStep, StopStep DEF Next
  <2> QED
    BY <2>1, <2>2
<1> QED
  BY <1>1, <1>2, PTL DEF Spec

(* Every variable keeps its type. *)
THEOREM TypeCorrect == Spec => []TypeOK
  BY Invariance, PTL DEF IInv

(* The signal is never connected without a consumer to hand a trace to. *)
THEOREM HandlerThere == Spec => []HandlerWhileConnected
<1>1. IInv => HandlerWhileConnected
  BY DEF IInv, PhaseInv, HandlerWhileConnected
<1> QED
  BY <1>1, Invariance, PTL

(* Whatever the options and ends of the runs, whatever fails, and whatever *)
(* the chain executes ahead of its blocks, on forks or again, only what    *)
(* the options of a run ask for is saved, what they ask for is saved,      *)
(* queued, cut short or lost, and traces are handled once and in order.    *)
THEOREM TracesAccountedFor == Spec => []SavedAsAsked
  BY Invariance, PTL DEF IInv

(* A resync finds the ABI of eosio, unless one of its statements failed. *)
THEOREM SystemAbiThere == Spec => []SystemAbiStored
<1>1. IInv => SystemAbiStored
  BY DEF IInv, AbiInv
<1> QED
  BY <1>1, Invariance, PTL
=============================================================================
