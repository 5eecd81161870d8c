# A TLA+ model of eos_sql_db_plugin

`eos_sql_db_plugin` is a plugin of nodeos that mirrors the actions of an EOSIO
chain in a MySQL database, and a second plugin that serves an HTTP API from that
database and the chain's own state. This directory models its control: the
threads and queues between the chain and the database, the walk over a
transaction trace, the SQL statements an action leads to, the joins of the API
with a mirror that is behind, the pages it cuts from a table that is being
written, and the life of the plugin over restarts. TLC checks the models on small
instances; TLAPS proves their safety properties for every instance.

Paths below are relative to `src/`; `plugin/` stands for `sql_db_plugin/`.

## 1. Inventory

| Component | State | Operations | Used by |
|---|---|---|---|
| **consumer** `plugin/consumer.hpp` | two queues and two process queues, two mutexes, one condition variable, `exit`, two threads | `push_block_state`, `push_transaction_trace` (both through `queue`), `run_blocks`, `run_traces`, `shutdown`, destructor | the plugin pushes from the main thread; the threads call `sql_database` |
| **sql_database** `plugin/db/database.cpp` | session pool, tables, action filter | `wipe`, `is_started`, `consume_transaction_trace`, `dfs_inline_traces`, `consume_block_state` | the consumer's threads; `plugin_initialize` |
| **actions_table** `plugin/db/actions_table.cpp` | none in memory; SQL tables `actions`, `accounts`, `accounts_keys`, `votes`, `proposal`, `assets` | `add`, `add_data`, `parse_actions`; `get_assets`, `get_proposal` | `sql_database` (writes), the API (reads) |
| **accounts_table** `plugin/db/accounts_table.cpp` | SQL table `accounts` | `add_eosio`, `exist`; `add` has no caller | `wipe`, `is_started` |
| **session pool** `plugin/include/.../session_pool.hpp` | MySQL connections: one for the API, five for the consumer | `get_session`, `reconnect`, `release` | everything that runs SQL |
| **sql_db_plugin** `plugin/sql_db_plugin.cpp` | options, `chain_plug`, `handler`, the signal connections | options, `plugin_initialize`, `applied_transaction`, `plugin_startup`, `plugin_shutdown` | nodeos; the chain's signals |
| **read_only API** the same file | none | `get_tokens`, `get_all_tokens`, `get_hold_tokens`, `get_userresource`, `get_refund`, `get_pending_proposals`, `get_pending_proposal`, `get_my_proposals` | HTTP |
| **sql_db_api_plugin** `sql_db_api_plugin/` | none | `plugin_startup` registers the calls | nodeos |
| **blocks_table, transactions_table** | SQL tables | dead code, nothing calls them | |
| **schema** `eos.sql`, `sql_change.sql` | | run by hand | |

How they interact: the chain, on the main thread of nodeos, signals
`applied_transaction` for each transaction it executes. The callback drops what
is before `sql_db-block-start` and a lone `onblock`, and pushes the trace to the
consumer; it sleeps there when the queue is too long, which is the only back
pressure. `run_traces` takes the whole queue over as a batch and hands one trace
after the other to `consume_transaction_trace`, which walks the tree of actions
and, for each one in the filter, runs a few SQL statements that commit one by
one. The lane of the blocks has the same code, but its signal is not connected.
The API, on the main thread, reads SQL tables that the worker is writing, and
joins some of them with the tables of the chain. A restart keeps the database,
loses the queue, and may replay the chain.

What is hard: three threads over one condition variable, two mutexes and a flag
set without them; a destructor that joins one thread of two; statements that
fail one at a time, with the failure logged and forgotten; decoding with an ABI
read from the database that is itself being replayed; executions that are
signalled ahead of their block, again in it, and never taken back; a mirror that
is behind; and starts that decide from one row what an earlier run did.

What makes each part correct:

* consumer: nothing is lost, doubled or reordered between a push and the
  database call; no worker sleeps over entries; pushes return; ending it returns,
  and leaves no thread behind.
* sql_database: the filtered actions of a trace, in execution order, each once.
* actions_table: once the worker has caught up, a row says what the last action
  about it said, whatever went wrong before; partial failures leave nothing
  dangling; data is decoded with the ABI it was executed under.
* plugin: what is saved was asked for, and what was asked for is accounted for,
  over any sequence of runs.
* API: an answer is wrong only as far as the mirror is behind, and what one
  contract does never hides the balances of another.

The full list of hazards, each at its line and with the properties that watch
it, is in `PROJECT.json`.

## 2. Modules

| Module | What it models |
|---|---|
| `OrderedFeed` | Abstract: what a lane of the consumer promises. Entries are accepted in order, and the database takes some of them, in order, none twice. |
| `Consumer` | `consumer.hpp`: one action per atomic step of the main thread (`Queue...`, `SetExit`, `NotifyExit`, `Join`) and of a worker (`Top`, `Lock`, `Test`, `Wait`, `Take`, `Consume`, `Drained`). |
| `ConsumerProperties` | Its invariants, refinement and liveness properties. |
| `ConsumerProofs` | The proofs of its safety properties. |
| `ConsumerStartup` | Its constructor, member by member, against the threads that it starts. |
| `ConsumerStartupProofs` | The proof that `Consumer` may start where the constructor returns. |
| `TraceWalk`, `TraceWalkProofs` | `consume_transaction_trace`, `dfs_inline_traces` and the outcomes of `add`, for one trace. |
| `ActionTables`, `MCActionTables`, `ActionTablesProofs` | `add`, `add_data`, `parse_actions`: an action per SQL statement, over failures, kills, replays and forks. The second one adds the symmetry for TLC. |
| `PendingProposals`, `PendingProposalsProofs` | Chain, queue, mirror and API composed for the multisig proposals. |
| `TokenReads`, `MCTokenReads`, `TokenReadsProofs` | The three calls that report balances, `get_assets`, and a client that turns pages. |
| `SequenceFacts` | What the last proofs need of numbers and sequences: `RemoveFirst`, `FlattenSeq`, recursive definitions. |
| `PluginLifecycle`, `MCPluginLifecycle`, `PluginLifecycleProofs` | Runs of nodeos, options to destructors, on a database and a chain that stay. The second one has the options that TLC gives them. |

`TraceWalk` is what a `Consume` step of `Consumer` does, and `ActionTables` what
its `AddData`, `Insert` and `Parse` do. `PendingProposals` and `PluginLifecycle`
see the consumer as the ordered feed that it is shown to implement. What a `Save`
step of `PluginLifecycle` may leave out is the matter of `ActionTables`, whose
chain executes, undoes and replays as that of `PluginLifecycle` does, without the
blocks.

Each module seeds bugs for its own properties: an operator named `Faulty...` is a
plausible mistake in the operator after it, is not used by `Next`, and is
substituted when the properties are tested for being able to fail.

### Consumer

`queue[l]`, `process[l]` and `mtx[l]` are the members of lane `l`; `pc[l]` is the
program counter of its worker and `mpc` that of the main thread, which runs the
pushes, `shutdown` and the destructor one after the other (signals and
destructors all run there). `pushed`, `handled` and `persisted` are history. An
entry is its number. A condition wait releases the mutex and blocks in one step,
may wake spuriously, and reacquires in a step of its own. `exit` is read and set
without a mutex, as in the code. The sizes read without the lock in `queue` only
choose between a sleep of 200 ms and none, and are left out. When the destructor
has returned, a thread that still runs (`run_traces`, as it is not joined) uses
what is destroyed: undefined behaviour, modelled as a crash or an end of that
thread. No property has that, as nothing in the repository denies it. Not modelled: `bad_alloc`, lock errors, and the
wording of logs.

### ConsumerStartup

`Consumer` starts when the constructor has returned; this module adds what comes
before. `built` is the member constructed last (`Construct` is one member), a
thread runs from its own construction on, and `InTime`, `LockTooEarly` and
`WaitTooEarly` are the steps of a worker by whether what it uses exists. Using a
mutex or a condition variable that is not constructed is undefined; the outcomes
modelled are those a POSIX build shows: it throws, which the loop logs, or works,
or never returns, and constructing the mutex afterwards frees it. `damaged`
remembers that it happened.

### TraceWalk

`parent` and `kind` are the trace, chosen in `Init`: every forest of
`1..MaxActions` actions numbered in execution order, every kind of action.
`frames` is the stack of `dfs_inline_traces`: what each active call has yet to
visit. `AddData`, `Insert` and `Parse` are the parts of `add` that can fail apart
from each other. Decoded data that is no `system_contract_arg` throws out of the
whole walk (line 20 of `actions_table.cpp` is in no `try`). `Outermost` says what
is to be saved of a trace without mentioning the walk; `Enclosing` uses that what
was executed between an action and one inside it is inside it too.

### ActionTables

`log` is all that was ever executed, in the order of the signals, `pos` the action
the worker has in hand; the difference is the queue. `pc` is the statement it is
at. `branch` has the places in the log of what the chain is made of: it executes
an action ahead of its block, drops it or changes forks (`Undo`, of which nothing
is signalled), and executes it again. An action that the walk over its trace does
not hand to `add` (a notification, or inside one or inside a saved action, see
`TraceWalk`) has `handed` false. A `setabi` carries an ABI or bytes that unpack to
none: `StoreAbi` and `DecodeData` are the two ways through `add_data`.

One new account stands for all; a permission of it has any number of keys. An ABI
is a model value. Data decoded with the ABI the action was executed under is
`right`, with none `{}`, and with another one right, `junk` or `{}`, whichever TLC
chooses; the built-in ABI has the native actions only. `parse_actions` decodes
`newaccount` from its bytes, the others with the stored ABI. A failing statement
has no effect. `ThrowOut` is an exception that leaves `add` (no session, or data
that is no `system_contract_arg`, line 20) with the rest of its trace. `Restart`
loses the queue; a replay signals the branch anew, `wipe` may insert the row of
eosio. `Init` has that row or not.

`failed` remembers, by action, the calls that failed. The properties are about
what it takes for one row to be right, and no more than that: the last action
about the row was handed over, its statement worked, and the ABI it was executed
under is the one that the last `setabi` before it stored (`KnowsAbiOf`); and no
later action on its table was read with another ABI, which may write to any row
(`Clear`).

### PendingProposals

`msig` is the chain's state (external: `Propose`, `Approve`, `Unapprove` and
`Close` do what the contract eosio.msig does to its two tables), `queue` the
traces in between, `proposal` the SQL table, `answer` what
`get_pending_proposals` returned last; the call is one step, as the main thread
that runs it also runs the chain. A call that throws answers nothing and is left
out. `base` is any earlier state of the chain (`Mark`) that it may go back to
(`Undo`): what was executed ahead of a block and dropped, or on a fork. `Queued`
has the trace in the queue or, when the walk passes it over, not. A failing
statement and a restart without a replay may happen at any time. `lost` remembers
which proposals those left unmirrored, `untold` those that are open, or ask
somebody else, because of an action that was undone or passed over, until the
worker is handed another one about them.

### TokenReads

`accounts[c]` is what the contract `c` keeps for the account, row by row in key
order, with rows that are no assets among them; `declared` are the contracts whose
ABI has the table. Both are external and change in any way (`Write`, `Erase`,
`SetAbi`). A call keeps no state and runs on the main thread, so it is an operator
over the state. The code has the loop over the tokens three times, and so has the
model: `TokenEntries`, `AllTokensEntries` and `HoldTokensEntries` are the rounds of
`get_tokens`, `get_all_tokens` and `get_hold_tokens`, which differ in when they
report a zero; `Walk` is `walk_key_value_table`, which they share. `FirstPage` and `NextPage` are a client of `get_all_tokens`
between which `HandleCreate`, the `REPLACE` of the worker, moves rows.
`AmountToString` is `asset_amount_to_string` digit by digit, in the width of an
amount (`Limit` is 2^63 in the code); `Precision` is `symbol::precision` of the
chain's library (external).

### PluginLifecycle

`config` is chosen again for each run and has every option but
`sql_db-queue-size`, which is that of `Consumer`. `sql_db-action-filter-on` and
`sql_db-contract-filter-out` are given as the transactions they are about, a
transaction standing for its actions. Without the first, no action is in the
filter and nothing is saved (`actions_table.cpp:10`). The second is parsed
(`sql_db_plugin.cpp:112-116`) into a member that nothing consults, and
`sql_db-trace-start` (`:98-99`) is never read, so that the model has them and no
action uses them: what their help says ("saved action without filter out", "The
trace to start sync.") does not happen.

`Open`, `CheckDatabase` and `Connect` are `plugin_initialize`, with a kill
possible between them; `Startup` is that of both plugins; `Disconnect` and
`DestroyHandler` are the destructor of `sql_db_plugin_impl`, whose members go in
reverse order. The chain is external: it executes transactions on top of its head
(`Execute`, each with a signal), makes a block of them (`CommitBlock`) or drops
them (`DropPending`: executed ahead of a block, or the block failed), changes to
another fork (`PopBlock`), and replays its blocks after a start that asked for it.
An execution is its number in `executed`, so that a transaction that is executed
twice has two traces. `Save` has one saved in full, or puts it in `cut`: no
session, a throw out of the walk or a failed statement left it with some of its
actions or none. A trace that sets the ABI of eosio may insert the row that
`is_started` looks for. The worker may save until the handler is destroyed. The
thread that is left over then may save a little more before it crashes or ends,
which is the same as saving it before. After `plugin_shutdown` no block is
executed: the main loop of nodeos has ended.

## 3. What the runs check

The longest run, `ActionTables`, takes a minute and a half on two cores. Deadlock
checking is off where the system stops: a consumer that was destroyed, a walk that
ended, a log or a number of runs at its bound.

| Run | Bounds | Shows |
|---|---|---|
| `Consumer` | both lanes fed, `QueueSize` 0, 2 pushes a lane; 57 904 states | `NoEntryLost`, `NoMissedEntry`, `EndedIsDrained`, that the lane of the traces implements `OrderedFeed` (`TracesFeedSpec`), and, under `FairSpec`, `PushReturns`, `PushedIsHandled`, `ExitReturnsOutsideWindow` |
| `TraceWalk` | up to 4 actions; 170 280 states | `AddedInOrder`, `EndedAsPromised`, `RowsInOrder`, `WalkEnds` |
| `ActionTables` | 3 actions of 1 contract, 2 ABIs, 2 producers, proposals and symbols (each set symmetric), 2 keys, 2 troubles (a failure, a thrown-out trace, a skipped action, an undoing, a restart); some 2 720 000 states | `CaughtUpMirrors`, `CaughtUpHolds`, `KeysHaveAccount`, `DecodedAsExecuted`, `NoPhantomRows` |
| `PendingProposals` | 1 proposal, 2 approvers, 3 queued traces, any number of restarts, failures and undoings; 584 424 states | `AnswerOnlyBehindQueue`, and `ProposalComesThrough` under `FairSpec` |
| `TokenReads` | 2 contracts and 2 symbols (each set symmetric), pages of 1, 3 rows of `assets`, 2 moved; amounts of 9 bits with up to 2 decimals; 768 552 states | `PagesMissOnlyMoved`, `HeldIsReported`, `QuantitiesReadBack` |
| `PluginLifecycle` | 2 transactions, one of which sets the ABI of eosio, 2 blocks, 3 executions, 3 runs, 6 sets of options; 4 412 464 states | `HandlerWhileConnected`, `SavedAsAsked`, `SystemAbiStored` |

Why the bounds are enough. With a queue size of 0 the second push already takes
the path of a full queue, and two pushes make a batch or a batch and a push after
it; `NoEntryLost` and its kin do not depend on the bound, they are proved. Four
actions of a trace are a parent, a child, a grandchild and a sibling of any of
them. Three actions of the log are two ABIs of a contract with an action under the
second, an ABI and a proposal that is made and closed, or a token that is created,
undone and created again. An action is decoded with the ABI of its own contract and
a statement touches one row, so that more contracts and rows add orders and nothing
else; two troubles are a replay after any failure, loss or undoing, or a failure in
the replay. What the run shows is proved for any number of them. One proposal
stands for all, as no statement and no call relates two; three queued traces are a
proposal that is made, closed and made again behind the answer. Pages of one row
have a boundary after each of three rows, and two moved rows can be one before and
one behind the client. Two decimals have a leading zero, none, and a whole fraction;
nine bits have amounts on both sides of 1 and the least one. Three runs are one
that saves, one with other options and one that resumes or replays; three executions
are one transaction that is executed ahead, again in a block, and again in a replay,
or one with another beside it. The sets of options have each kind of URI, each
block-start, no filter, and both filters with a trace to start with.

What they show beyond the obvious:

* A row of `accounts`, `votes`, `proposal` or `assets` is right as soon as one
  action about it was signalled, handed over, decoded with its own ABI and written,
  whatever failed, was lost, skipped or undone before (`CaughtUpMirrors`): a replay
  heals the tables that way, at the price of doubled rows in `actions` and
  `accounts_keys`. The price of the other direction: what the chain takes back stays
  in the tables until the next action about it, as nothing signals it
  (`CaughtUpHolds`, `AnswerOnlyBehindQueue`).
* Data is decoded with the ABI that the last `setabi` stored, not the one that was
  in force. It is the right one unless that `setabi` failed, was skipped by the
  walk, was not an ABI or was undone (`DecodedAsExecuted`); otherwise the data saved
  may be junk, and so may any row of the table the action is about, which is as far
  as the damage goes (`NoPhantomRows`).
* An execution ahead of a block, that block and a replay each add their own rows to
  `actions` and `accounts_keys`: these have plain INSERTs and no key to stop it.
* `SavedAsAsked` is about executions: a transaction that was executed ahead of its
  block, or in a block of a fork that is gone, is saved, and one executed twice is
  saved twice. It says of `sql_db-contract-filter-out` and `sql_db-trace-start` that
  they change nothing, which is not what their help says (`sql_db_plugin.cpp:96-99`).
* A client that pages through `get_all_tokens` is disturbed by tokens that are
  created again, never by new ones, and by each move at most once
  (`PagesMissOnlyMoved`). An answer that is shorter than the page need not be the
  last one, as tokens that throw or are not held are left out of it.
* `get_pending_proposals` also returns what the caller approved already
  (`actions_table.cpp:289`: the mirror keeps what was asked for at first), although
  `sql_db_plugin.hpp:126` has "need me to approve" for its parameter.
* A filtered action inside the inline traces of a saved action, or inside a
  notification, is not saved (`Outermost` in `TraceWalk`), which a reader of the
  option `sql_db-action-filter-on` may not expect.

Six runs show where the code does not do what the repository says of it:

| Run | The repository | The code |
|---|---|---|
| `ConsumerQueueBounded` | "The queue size between nodeos and SQL DB plugin thread." (`sql_db_plugin.cpp:88`) | a push over the size sleeps once, for 200 ms or not at all, and appends (`consumer.hpp:81-94`) |
| `ConsumerExitReturns` | the test, which is commented out, lets a consumer go out of scope (`test/consumer_test.cpp:21-25`) | `exit` is set and notified without the mutex: the join can wait forever (`consumer.hpp:65-67`) |
| `ConsumerDrainedWhenGone` | the log "draining queue" (`consumer.hpp:191`), the two pushes of that test | the trace thread is not joined, and `while (!exit)` leaves the queue (`consumer.hpp:67,174`) |
| `ConsumerStartup` | that test constructs a consumer, pushes and waits for the entries to be consumed (`test/consumer_test.cpp:21-24`) | the threads are members in front of what they lock and wait on (`consumer.hpp:48-52`): one that runs ahead can be stuck for good; 4 071 states |
| `PluginLifecycleResync` | "Resync requested: wiping database" (`sql_db_plugin.cpp:136`) | nothing is deleted (`database.cpp:23-27`) |
| `PluginLifecycleDisabled` | "If not specified then plugin is disabled." (`sql_db_plugin.cpp:93`) | `options.at` throws without the option (`sql_db_plugin.cpp:118`); with an empty one the API plugin goes through a null `chain_plug` (`sql_db_plugin.cpp:80`) |

### Fairness

`Consumer!Fairness`: both workers and a begun operation of the main thread go on
(weak fairness): the scheduler runs every thread, and a database call returns or
throws. Acquiring a mutex has strong fairness (`QueueLock`, `QueueSleep`, the
workers' `Lock`): a mutex that is free again and again is not refused forever to
a thread that asks. Boost's mutex promises no such thing in theory; without it a
worker in a tight loop could starve the main thread, which no scheduler in use
does. Nothing is assumed of nodeos: it need not push nor end the consumer, and
spurious wakeups have no fairness, so that no property rests on one.
`ConsumerStartup!FairStartupSpec` assumes the same, and that the constructor goes
on: the violation it allows does not come from a thread that is not scheduled.
`TraceWalk!FairSpec` only says that the worker goes on and its statements return.
`PendingProposals!FairSpec` says that the worker handles what is queued, which
`PushedIsHandled` shows of the consumer; the chain and the API owe nothing.

## 4. What is proved

The theorems hold for every value of the constants that satisfies the assumption
of the module: `ConsumerAssumption`, `TraceWalkAssumption`,
`ActionTablesAssumption`, `PendingProposalsAssumption`, `LifecycleAssumption`,
`TokenReadsAssumption`, each of which TLC evaluates in every run. They only say
that bounds are natural numbers, that model values differ from each other and
from the strings that mark a missing or unreadable row, that a run is given what
are options, and that an amount is wide enough for twice the precision of its symbol (2 * 10^18 <= 2^63). Each module
has one inductive invariant `IInv`, the theorem `Invariance`, and the properties
that follow from it. Every invariant and action property of a passing run is
stated by a theorem.

**`ConsumerProofs`**, of `Consumer!Spec`: `TypeCorrect`, `NothingLost`,
`NoLostWakeup`, `EndedDrained` (the invariants of the run `Consumer`), and
`TracesRefines`: the lane of the traces implements `OrderedFeed`. `NoEntryLost` (handled, batch and queue make up the pushes without a
gap) is not inductive: `Take` assigns the process queue, and would lose a batch
that is unfinished. `BatchInv` says that there is none except while draining, and
that a worker about to wait saw an empty queue; the latter survives a push only
because the worker still owns the mutex, which is `MutexInv`: who owns each mutex,
said from both sides by the two program counters. From it follows `NoMissedEntry`,
where `QueueEmplace` is the only step that fills the queue of a blocked worker and
the `notify_all` after it wakes both lanes. `TaskInv` ties the operation of the
main thread to `task` and to `exit`, and `PersistedInv` bounds what the database
has by what was handled, which makes `Consume` a `Persist` step of `OrderedFeed`.

**`ConsumerStartupProofs`**: `StartIsConsumer`: a start behaves as `Consumer` says
until a thread uses a member that does not exist, and `UndamagedStart`: if none
does, `NoEntryLost` holds from the first member on. So the theorems above are about
a consumer from its construction, except in the race that `ConsumerStartup` shows.
The reason is that a lane without a mutex has done nothing and nobody waits on a
condition variable that does not exist, so that constructing them is a stutter.

**`TraceWalkProofs`**: `TypeCorrect`, `OutermostInOrder`, `RowsAsAdded`,
`WalkedToTheEnd`, for traces of every size and shape. What the calls have yet to
visit is in order, deeper calls first (`OrderInv`), after everything that was added
(`AheadInv`) and inside nothing in the filter (`OtherInv`). That nothing is left
out is `CoverInv`: an outermost action that was not added is inside one that a call
has yet to visit. It survives a descent because what is inside an action is inside
one of its inline traces (`InsideSome`, by the least action of those around it),
and `OrderInv` because the numbering of a trace never crosses (`Numbering`).

**`ActionTablesProofs`**: `TypeCorrectness`, `KeysOfAccounts`, `DecodedRight`,
`RowsFollow` (`CaughtUpMirrors`), `TablesHoldTheChain` (`CaughtUpHolds`) and
`OnlyRowsOfActions` (`NoPhantomRows`), for every filter, log and number of troubles.
`CaughtUpMirrors` is far from inductive, as it speaks of the end only. Its parts
(`AbiFollows(n)`, `VotesFollow(n)`, ...) are said of a place `n` of the log instead,
and `IInv` says them of the place up to which the worker has come: `pos`, or one
further for `accounts.abi` and `actions` (`AbiPlace`, `RowPlace`) as soon as the
statement in question is done or has failed. A step of the worker either leaves a table alone, and moves the place past
actions that are in `failed` or not about it (`Kept`), or writes the action in hand
(`Reached`), or was misled by another ABI, after which `Clear` fails for all the rows
of that table (`Misread`). `KnowsAbiOf` for the action in hand and `AbiFollows` give
that the ABI decoded with is its own (`ReadRight`, `ParsedRight`): hence `DecodedRight`
and `OnlyRowsOfActions`. A step of the chain adds to the log behind the place or
changes `branch`, of which the tables say nothing (`ChainStepFacts`).
For the order of the ids `AssetsFollow` needs only that a `REPLACE` gives an id above
all others (`Bounded`). At the end `StandsLatest` turns what the log says into what
the chain says: if the last action about a row stands, it is also the last one of
the branch, whose places are all in the log.

**`TokenReadsProofs`**: `TypeCorrectness`, `PagesAreTurned`,
`HeldTokensAreReported`, `AmountsReadBack`. `PageInv`: the rows a client has passed
stay that many, as `REPLACE` takes one away and adds one at the end, so a move pushes
at most one token into them that was not read; and since a token has one row
(`IsInjective` in `TypeOK`), a token that was read twice stands for one that was not
read. The next is about an answer as a function of the tables: the row at which
`Walk` stops is the least one (`WalkFinds`), so the entry of each of the three loops
is as its contract says (`EntriesOf`, one case for each loop); an answer is these
entries after each other (`FlattenSeq`, proved for longer and longer prefixes), and
an entry comes from one token only (`ReportedOnce`). In
`AmountsReadBack`, `Fractions` says by induction on the decimals that of the digits
of `precision + fract` the first stands for the precision and the rest, with the
zeros in front, for `fract`, which is what `.erase(0,1)` relies on.

**`SequenceFacts`** has the induction. The library's theorems of induction take an
operator; here it is over a set of numbers instead (`UpTo`, from `LeastElement`).
`Recursion` says that a function that is defined by going down exists, so that
`Precision`, `Digits` and `Numeral` have their defining equations.

**`PendingProposalsProofs`**: `TypeCorrect` and `AnswerBehindQueue`. The invariant
is `ToldInv`: what the chain says of an open proposal is in the last statement that
is queued for it, or, when none is, in its row, unless the statement was lost or the
proposal is `untold`. `Undo` may bring a proposal back that was closed since, whose
DELETE the worker may have run; it is untold then. A closed one
needs no such fact: it asks nobody (`ClosedInv`), and the join leaves it out.

**`PluginLifecycleProofs`**: `TypeCorrect`, `HandlerThere`, `TracesAccountedFor`,
`SystemAbiThere`. `SavedAsAsked` speaks of the options where the code has the
connection; `PhaseInv` says that they agree whenever the chain executes, `FilterInv`
that a queued trace was asked for by the filter its worker has, and `AbiInv` follows the row of eosio from the decision to wipe on.

Only model-checked: liveness (`PushReturns`, `PushedIsHandled`,
`ExitReturnsOutsideWindow`, `WalkEnds`, `ProposalComesThrough`), which needs fairness
and `ENABLED`, out of reach of the prover. The six violations are counterexamples
that TLC finds; there is nothing to prove.

## 5. Not modelled, and why

* The dead code (`consume_block_state`, `blocks_table`, `transactions_table`,
  `accounts_table::add`, `filter_out_contract`, the commented parts): nothing
  reaches it. The lane of the blocks is modelled, as its thread runs.
* `get_userresource`, `get_refund`, `get_pending_proposal` and `get_my_proposals`
  read rows of the chain and format them: no state, no order, nothing to say of
  them but the code itself.
* The session pool beyond `GetSession`: each lane is one thread and the API one
  more, and no pool has fewer sessions than users, so leasing never waits. A
  session that goes back to its pool before the row set is read (`get_assets`,
  `sql_db_plugin.cpp:399`) is taken by nobody, as all API calls run on one thread.
* JSON, HTTP, SQL text and logging.
* The schema, beyond the unique keys that upserts and `REPLACE` rely on.

## 6. Plan

Done, in this order: `Consumer` with its abstract specification; `TraceWalk` and
`ActionTables`; `PendingProposals`; `PluginLifecycle`, then with forks, speculative
execution and replays; `ConsumerStartup`; `TokenReads`; the proofs of all of them,
the last ones those of `CaughtUpMirrors`, `CaughtUpHolds` and of `TokenReads`.

What is left that would be worth the work: a composition of `PluginLifecycle` with
`ActionTables`, which would say which rows a resync with another
`sql_db-block-start` leaves that no delivery made.
