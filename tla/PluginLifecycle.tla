-------------------------- MODULE PluginLifecycle --------------------------
(***************************************************************************)
(* The runs of nodeos with sql_db_plugin and sql_db_api_plugin on one      *)
(* database: options, plugin_initialize, the signal applied_transaction,   *)
(* plugin_startup of both, plugin_shutdown, the destructors, and the runs  *)
(* that end in an exception or a kill.  The database and the chain outlive *)
(* a run, the queue of the consumer does not.  The chain signals each      *)
(* execution of a transaction, ahead of a block, in it, on a fork or in a  *)
(* replay.  What the consumer does with its queue is the matter of         *)
(* Consumer, what it writes that of TraceWalk and ActionTables: here the   *)
(* trace of an execution is saved, cut short by something that failed, or  *)
(* lost with the process.                                                  *)
(* An operator whose name starts with Faulty is a seeded bug and is not    *)
(* used by Next.                                                           *)
(***************************************************************************)
EXTENDS Naturals, Sequences, SequencesExt

CONSTANTS
  Txs,            \* transactions that users send
  Upgrades,       \* those that set the ABI of eosio
  Configs,        \* the options a run may be given
  MaxBlock,       \* bounds of the model: blocks of the chain, and of block-start,
  MaxExecutions,  \*   executions of transactions,
  MaxRuns         \*   starts of nodeos

Onblock == "onblock"   \* stands for those whose only action has that name

Sent == Txs \cup {Onblock}
NoTrace == ""

\* The options.  The filters are given as the transactions with an action of
\* one of their names, or of one of their contracts.  sql_db-queue-size is
\* left to Consumer: it can only delay the chain.
Options ==
  [uri : {"absent", "empty", "given"}, start : 0..MaxBlock,
   actionFilterOn : SUBSET Sent, contractFilterOut : SUBSET Sent,
   traceStart : Sent \cup {NoTrace}]

ASSUME LifecycleAssumption ==
  /\ MaxBlock \in Nat /\ MaxExecutions \in Nat /\ MaxRuns \in Nat
  /\ Onblock \notin Txs
  /\ Configs \subseteq Options

VARIABLES
  config,      \* the options of the latest run
  phase,       \* how far nodeos is with it
  connected,   \* applied_transaction_connection is set
  handler,     \* the consumer exists
  queue,       \* traces that the consumer has not handled yet
  died,        \* what ended the latest run
  chain,       \* external: the user transactions of each block
  head,        \* external: the latest block that is applied
  pending,     \* external: transactions executed on top of it
  eosio,       \* accounts has the row of eosio, and so its ABI
  saved,       \* executions with actions that are saved
  runs,        \* history: starts of nodeos
  unsure,      \* history: a statement of this run's initialization failed
  executed,    \* history: the executions, and which the options asked to save
  cut,         \* history: executions that the worker did not save in full
  lost         \* history: executions whose traces went with a process

process == <<phase, connected, handler>>
controller == <<chain, head, pending>>
database == <<eosio, saved>>
history == <<executed, cut, lost>>
vars == <<config, process, queue, died, controller, database, runs, unsure, history>>

Init ==
  /\ config \in Configs
  /\ phase = "down"
  /\ connected = FALSE
  /\ handler = FALSE
  /\ queue = <<>>
  /\ died = "not started"
  /\ chain = <<>>
  /\ head = 0
  /\ pending = {}
  /\ eosio = FALSE
  /\ saved = {}
  /\ runs = 0
  /\ unsure = FALSE
  /\ executed = <<>>
  /\ cut = {}
  /\ lost = {}

-----------------------------------------------------------------------------
\* The executions whose traces are queued.
Queued == {queue[i].number : i \in DOMAIN queue}

\* The process ends, and takes the queue with it.
End(cause) ==
  /\ phase' = "down"
  /\ connected' = FALSE
  /\ handler' = FALSE
  /\ queue' = <<>>
  /\ died' = cause
  /\ lost' = lost \cup Queued
  /\ pending' = {}
  /\ UNCHANGED <<config, chain, head, database, runs, unsure, executed, cut>>

\* nodeos is started, and replays the chain from its first block or does not.
Start ==
  /\ phase = "down"
  /\ runs < MaxRuns
  /\ runs' = runs + 1
  /\ config' \in Configs
  /\ phase' = "options"
  /\ died' = "no"
  /\ head' \in {0, head}
  /\ unsure' = FALSE
  /\ UNCHANGED <<connected, handler, queue, chain, pending, database, history>>

\* plugin_initialize up to the session pools: options.at throws when there is
\* no sql_db-uri, the plugin stays disabled when it is empty, and opening the
\* sessions throws when there is no database.
Open ==
  /\ phase = "options"
  /\ \/ config.uri = "absent" /\ End("no option")
     \/ config.uri = "given" /\ End("no database")
     \/ /\ config.uri # "absent"
        /\ phase' = IF config.uri = "given" THEN "opened" ELSE "initialized"
        /\ UNCHANGED <<config, connected, handler, queue, died, controller, database,
                       runs, unsure, history>>

FaultyMustWipe(started) == started /\ config.start = 0
MustWipe(started) == ~started /\ config.start = 0

\* is_started() and wipe().  The count of is_started is not initialized when
\* its SELECT fails with a MySQL error; wipe() only inserts the row of eosio.
CheckDatabase ==
  /\ phase = "opened"
  /\ \E started \in BOOLEAN, selected \in BOOLEAN, inserted \in BOOLEAN :
       /\ selected => started = eosio
       /\ phase' = IF MustWipe(started) THEN "wiped" ELSE "kept"
       /\ eosio' = (eosio \/ (MustWipe(started) /\ inserted))
       /\ unsure' = (~selected \/ (MustWipe(started) /\ ~inserted))
  /\ UNCHANGED <<config, connected, handler, queue, died, controller, saved, runs, history>>

Connect ==
  /\ phase \in {"wiped", "kept"}
  /\ handler' = TRUE
  /\ connected' = TRUE
  /\ phase' = "initialized"
  /\ UNCHANGED <<config, queue, died, controller, database, runs, unsure, history>>

\* plugin_startup does nothing; that of the API plugin takes the chain of
\* sql_db_plugin through a pointer that is null when it is disabled.
Startup ==
  /\ phase = "initialized"
  /\ \/ config.uri = "empty" /\ End("null pointer")   \* with the API plugin
     \/ /\ phase' = "started"
        /\ UNCHANGED <<config, connected, handler, queue, died, controller, database, runs,
                       unsure, history>>

-----------------------------------------------------------------------------
(* The chain executes transactions on top of its head, each with a signal, *)
(* and makes a block of them or drops them: they were executed ahead of a  *)
(* block, or the block failed.  It may change to another fork, and replays *)
(* its blocks while the plugins start.                                     *)

\* What the signal hands over: the trace of this execution.
FaultyTrace(tx) == [number |-> Len(executed), tx |-> tx]
Trace(tx) == [number |-> Len(executed) + 1, tx |-> tx]

\* applied_transaction leaves out a trace whose only action is onblock.
Applied(tx) == tx # Onblock

\* The callback that plugin_initialize connects.
FaultyCallback(block, tx) == block > config.start /\ Applied(tx)
Callback(block, tx) == block >= config.start /\ Applied(tx)

Executing == phase \in {"initialized", "started"}
AtTip == head = Len(chain)

\* The chain takes no transaction twice, and in a replay those of the block.
Executable(tx) ==
  /\ tx \notin pending
  /\ \A b \in 1..head : tx \notin chain[b]
  /\ ~AtTip => tx \in chain[head + 1]

\* What the options ask for; no code reads the other two.
Asked(tx) ==
  /\ config.uri = "given"
  /\ head + 1 >= config.start
  /\ tx \in config.actionFilterOn \ {Onblock}

Execute(tx) ==
  /\ Executing
  /\ head < MaxBlock
  /\ Len(executed) < MaxExecutions
  /\ tx = Onblock \/ Executable(tx)
  /\ executed' = Append(executed, Asked(tx))
  /\ queue' = IF connected /\ Callback(head + 1, tx) THEN Append(queue, Trace(tx)) ELSE queue
  /\ pending' = pending \cup ({tx} \ {Onblock})
  /\ UNCHANGED <<config, process, died, chain, head, database, runs, unsure, cut, lost>>

\* What is executed becomes the next block, or is the next block of a replay.
CommitBlock ==
  /\ Executing
  /\ head < MaxBlock
  /\ ~AtTip => pending = chain[head + 1]
  /\ chain' = IF AtTip THEN Append(chain, pending) ELSE chain
  /\ head' = head + 1
  /\ pending' = {}
  /\ UNCHANGED <<config, process, queue, died, database, runs, unsure, history>>

DropPending ==
  /\ Executing
  /\ pending # {}
  /\ pending' = {}
  /\ UNCHANGED <<config, process, queue, died, chain, head, database, runs, unsure, history>>

\* Another fork takes over: nothing tells the plugin that a block is gone.
PopBlock ==
  /\ phase = "started"
  /\ AtTip /\ head > 0 /\ pending = {}
  /\ chain' = Front(chain)
  /\ head' = head - 1
  /\ UNCHANGED <<config, process, queue, died, pending, database, runs, unsure, history>>

FilteredIn(tx) == tx \in config.actionFilterOn

\* The worker handles a trace.  It may be left with none of its actions saved,
\* or with some: no session, a throw out of the walk, a statement that failed.
\* A setabi of eosio adds its row, unless the ABI does not unpack.
Save ==
  /\ handler
  /\ queue # <<>>
  /\ queue' = Tail(queue)
  /\ LET trace == Head(queue)
         rows == IF FilteredIn(trace.tx) THEN {trace.number} ELSE {} IN
       /\ \/ saved' = saved \cup rows /\ cut' = cut
          \/ saved' \in {saved, saved \cup rows} /\ cut' = cut \cup {trace.number}
       /\ eosio' \in IF rows # {} /\ trace.tx \in Upgrades THEN {eosio, TRUE} ELSE {eosio}
  /\ UNCHANGED <<config, process, died, controller, runs, unsure, executed, lost>>

-----------------------------------------------------------------------------
\* plugin_shutdown does nothing; from there on no block is executed.
Shutdown ==
  /\ phase = "started"
  /\ phase' = "stopped"
  /\ UNCHANGED <<config, connected, handler, queue, died, controller, database, runs, unsure,
                 history>>

FaultyDisconnected == connected
Disconnected == FALSE

\* The destructor of sql_db_plugin_impl: its members in the reverse order.
Disconnect ==
  /\ phase = "stopped"
  /\ phase' = "disconnected"
  /\ connected' = Disconnected
  /\ UNCHANGED <<config, handler, queue, died, controller, database, runs, unsure, history>>

DestroyHandler ==
  /\ phase = "disconnected"
  /\ phase' = "unloaded"
  /\ handler' = FALSE
  /\ queue' = <<>>
  /\ lost' = lost \cup Queued
  /\ UNCHANGED <<config, connected, died, controller, database, runs, unsure, executed, cut>>

Exit == phase = "unloaded" /\ End("exit")

Kill == phase # "down" /\ End("killed")

Next ==
  \/ Start \/ Open \/ CheckDatabase \/ Connect \/ Startup
  \/ \E tx \in Sent : Execute(tx)
  \/ CommitBlock \/ DropPending \/ PopBlock
  \/ Save
  \/ Shutdown \/ Disconnect \/ DestroyHandler \/ Exit
  \/ Kill

Spec == Init /\ [][Next]_vars

-----------------------------------------------------------------------------
Phases == {"down", "options", "opened", "wiped", "kept", "initialized", "started",
           "stopped", "disconnected", "unloaded"}

(* Every variable has its type. *)
TypeOK ==
  /\ config \in Configs
  /\ phase \in Phases
  /\ connected \in BOOLEAN
  /\ handler \in BOOLEAN
  /\ queue \in Seq([number : 1..Len(executed), tx : Sent])
  /\ died \in {"not started", "no", "no option", "no database", "null pointer", "exit",
               "killed"}
  /\ chain \in Seq(SUBSET Txs)
  /\ head \in 0..Len(chain)
  /\ pending \subseteq Txs
  /\ eosio \in BOOLEAN
  /\ saved \cup cut \cup lost \subseteq 1..Len(executed)
  /\ runs \in 0..MaxRuns
  /\ unsure \in BOOLEAN
  /\ executed \in Seq(BOOLEAN)

(* The callback of the signal uses the consumer: it is never connected     *)
(* without one, neither while the plugin starts nor while it is destroyed. *)
HandlerWhileConnected == connected => handler

Wanted == {i \in DOMAIN executed : executed[i]}

(* Over any number of runs, each with options of its own: what is saved    *)
(* was asked for by the options of the run that executed it, and what they *)
(* asked for is saved or queued, or the worker did not save it in full, or *)
(* it went with a process.  No trace is handled twice, or handled and lost *)
(* with a process, and they are handled in the order of the executions.    *)
(* sql_db-contract-filter-out and sql_db-trace-start ask for nothing here: *)
(* no code reads them, whatever their help says.  That a transaction was   *)
(* executed ahead of its block, or on a fork that is gone, does not keep   *)
(* it out either: each execution is asked for by itself.                   *)
SavedAsAsked ==
  /\ saved \subseteq Wanted
  /\ Wanted \subseteq saved \cup cut \cup lost \cup Queued
  /\ (saved \cup cut) \cap lost = {}
  /\ \A i, j \in DOMAIN queue : i < j => queue[i].number < queue[j].number
  /\ \A i \in DOMAIN queue : \A n \in saved \cup cut \cup lost : n < queue[i].number

(* When the worker of a run with block-start 0 begins, the ABI that it     *)
(* reads eosio's actions with is stored, whatever earlier runs did, unless *)
(* a statement of this run's initialization failed.                        *)
SystemAbiStored == handler /\ config.start = 0 /\ ~unsure => eosio

(* "Resync requested: wiping database", plugin_initialize logs: nothing    *)
(* that an earlier run saved is left then.                                 *)
ResyncWipes == phase = "wiped" => saved = {}

(* "If not specified then plugin is disabled", the help of sql_db-uri says,*)
(* and plugin_initialize logs so when it is empty: nodeos runs without the *)
(* plugin's database, with the API plugin too.                             *)
DisabledIsHarmless == config.uri # "given" => died \notin {"no option", "null pointer"}
=============================================================================
