---------------------------- MODULE ActionTables ----------------------------
(***************************************************************************)
(* What the worker thread writes for the actions that are signalled to the *)
(* plugin: add, add_data and parse_actions of db/actions_table.cpp, one    *)
(* SQL statement a step (each commits by itself), on the tables accounts,  *)
(* accounts_keys, votes, proposal, assets and actions of eos.sql.          *)
(*                                                                         *)
(* log is all that was ever executed, in the order of the signals, log[pos]*)
(* what the worker has in hand, and what follows is still queued.  The     *)
(* chain executes an action ahead of its block and again in it, drops the  *)
(* block or changes to another fork: branch has the places in log of what  *)
(* is still so on the chain.  Any statement may fail, data may throw a     *)
(* trace out.  nodeos may be killed at any time, which loses what is       *)
(* queued, and be started again, replaying the branch or not; the tables   *)
(* stay as they are.  One new account stands for all, as its rows do not   *)
(* depend on others.  An operator whose name starts with Faulty is a       *)
(* seeded bug and is not used by Next.                                     *)
(***************************************************************************)
EXTENDS Naturals, SequencesExt, FiniteSetsExt

CONSTANTS
  Filter,        \* sql_db-action-filter-on: the names of the actions to save
  Abis,          \* ABIs that a setabi may carry
  Voters,
  Producers,     \* what a voter can vote for
  Proposals,
  Requests,      \* what a proposal can request
  Symbols,       \* tokens the token contract can create
  MaxKeys,       \* bounds of the model: keys of a new account,
  MaxSent,       \*   actions sent before the chain takes no more,
  MaxLog,        \*   actions executed, with those of replays,
  MaxContracts,  \*   contracts that they are about,
  MaxTroubles    \*   statements that fail, traces thrown out, actions skipped,
                 \*   executions undone and restarts, in all

ASSUME ActionTablesAssumption ==
  /\ MaxKeys \in Nat /\ MaxSent \in Nat /\ MaxLog \in Nat
  /\ MaxContracts \in Nat /\ MaxTroubles \in Nat
  /\ "none" \notin Abis \cup Producers \cup Requests

Owners == {"eosio", "eosio.msig", "token"}   \* accounts that have an ABI
Permissions == {"owner", "active"}
Proposing == {"propose", "cancel", "exec"}
Calls == {"add_data", "insert", "parse_actions"}

None == "none"             \* no row, no ABI, or bytes that are no ABI
BuiltIn == "built-in"      \* eosio_contract_abi(): the ABI of the native actions

VARIABLES
  log,        \* external: the actions executed so far
  branch,     \* external: those that the chain is made of, in their order
  pos,        \* the action in hand, or the next one to come
  pc,         \* the statement the worker is at
  data,       \* what add_data returned, until it is saved: "right", "junk" or "{}"
  left,       \* keys still to insert of the permission in hand
  abi,        \* accounts.abi of each owner
  account,    \* whether accounts has the row that newaccount inserts
  keys,       \* accounts_keys: how many rows each permission has
  votes,      \* votes: what each voter voted for
  proposal,   \* proposal: requested_approvals of each proposal
  assets,     \* assets: the id of each token's row, 0 when there is none
  actions,    \* actions: the rows, given by the action and its data
  failed,     \* history: calls of add() that failed or were lost, by action
  troubles    \* history: how many there were of what MaxTroubles bounds

chain == <<log, branch>>
side == <<account, keys, votes, proposal, assets>>
vars == <<log, branch, pos, pc, data, left, abi, account, keys, votes, proposal, assets,
          actions, failed, troubles>>

Init ==
  /\ log = <<>>
  /\ branch = <<>>
  /\ pos = 1
  /\ pc = "idle"
  /\ data = "{}"
  /\ left = 0
  \* wipe() stored the ABI of eosio, or its statement failed.
  /\ \/ /\ abi = [c \in Owners |-> IF c = "eosio" THEN BuiltIn ELSE None]
        /\ failed = {}
        /\ troubles = 0
     \/ /\ abi = [c \in Owners |-> None]
        /\ failed = {<<0, "add_data">>}
        /\ troubles = 1
  /\ account = FALSE
  /\ keys = [p \in Permissions |-> 0]
  /\ votes = [v \in Voters |-> None]
  /\ proposal = [p \in Proposals |-> None]
  /\ assets = [s \in Symbols |-> 0]
  /\ actions = {}

Trouble == troubles < MaxTroubles /\ troubles' = troubles + 1

-----------------------------------------------------------------------------
(* The chain: what its branch says of the state after it.                  *)

About(names, target, places) ==
  {i \in places : log[i].name \in names /\ log[i].target = target}

OnBranch(names, target) == About(names, target, ToSet(branch))

Latest(places, default) == IF places = {} THEN default ELSE log[Max(places)].value

ChainAbi(c) == Latest(OnBranch({"setabi"}, c), IF c = "eosio" THEN BuiltIn ELSE None)
ChainVotes(v) == Latest(OnBranch({"voteproducer"}, v), None)
ChainProposal(p) == Latest(OnBranch(Proposing, p), None)

\* An action is executed under the ABI that its contract has on the chain.  The
\* walk over its trace hands it to add(), unless it is a notification or inside
\* one or inside an action that was saved (see TraceWalk).
Executes(acc, name, targets, values) ==
  \E a \in [account : {acc}, name : {name}, target : targets, value : values,
            under : {ChainAbi(acc)}, handed : BOOLEAN] :
    /\ log' = Append(log, a)
    /\ branch' = Append(branch, Len(log) + 1)
    /\ IF a.handed THEN UNCHANGED troubles ELSE Trouble

\* Whose rows or whose ABI an action is about.
Contract(a) == IF a.name = "setabi" THEN a.target ELSE a.account

\* A permission has any number of keys, or none.
KeyCounts ==
  {count \in [Permissions -> 0..MaxKeys] : count["owner"] + count["active"] <= MaxKeys}

Execute ==
  /\ Len(log) < MaxSent
  /\ \/ Executes("eosio", "setabi", Owners, Abis \cup {None})
     \/ /\ OnBranch({"newaccount"}, "alice") = {}
        /\ Executes("eosio", "newaccount", {"alice"}, KeyCounts)
     \/ Executes("eosio", "voteproducer", Voters, Producers)
     \/ \E p \in Proposals :
          /\ ChainProposal(p) = None
          /\ Executes("eosio.msig", "propose", {p}, Requests)
     \/ \E p \in Proposals, name \in {"cancel", "exec"} :
          /\ ChainProposal(p) # None
          /\ Executes("eosio.msig", name, {p}, {None})
     \/ \E s \in Symbols :
          /\ OnBranch({"create"}, s) = {}
          /\ Executes("token", "create", {s}, {s})
  /\ Cardinality({Contract(log'[i]) : i \in DOMAIN log'}) <= MaxContracts
  /\ UNCHANGED <<pos, pc, data, left, abi, side, actions, failed>>

\* What was executed ahead of a block is dropped, or another fork takes over:
\* nothing tells the plugin.
Undo ==
  /\ \E n \in 0..(Len(branch) - 1) : branch' = SubSeq(branch, 1, n)
  /\ Trouble
  /\ UNCHANGED <<log, pos, pc, data, left, abi, side, actions, failed>>

-----------------------------------------------------------------------------
(* The worker.                                                             *)

InHand == log[pos]

\* A statement or a decoding throws and is logged: it has changed nothing.
Fails(call) ==
  /\ Trouble
  /\ failed' = failed \cup {<<pos, call>>}

Works == UNCHANGED <<failed, troubles>>

Goto(next) == pc' = next /\ UNCHANGED pos

FaultyNextPos == pos + 2
NextPos == pos + 1

Done == pc' = "idle" /\ pos' = NextPos

\* add(): an action that is not in the filter is passed over.
Handed(i) == log[i].handed /\ log[i].name \in Filter

Begin ==
  /\ pc = "idle"
  /\ pos <= Len(log)
  /\ IF Handed(pos) THEN Goto("add_data") ELSE Done
  /\ UNCHANGED <<chain, data, left, abi, side, actions, failed, troubles>>

\* The built-in ABI describes native actions only, any other one all of its
\* contract's.
Describes(v, a) ==
  v # None /\ (v = BuiltIn => a.account = "eosio" /\ a.name \in {"setabi", "newaccount"})

\* What binary_to_variant makes of the data of the action in hand with ABI v:
\* another ABI than the contract's own may read it right, wrong, or throw.  (It
\* is chosen again for each decoding, which allows more than the code does.)
Readings(v) ==
  IF ~Describes(v, InHand) THEN {"{}"}
  ELSE IF v = InHand.under THEN {"right"}
  ELSE {"right", "junk", "{}"}

CarriesAbi == InHand.name = "setabi" /\ InHand.value # None

\* add_data() of a setabi stores the ABI; its data is the ABI as JSON.
StoreAbi ==
  /\ pc = "add_data"
  /\ CarriesAbi
  /\ \/ Works /\ abi' = [abi EXCEPT ![InHand.target] = InHand.value]
     \/ Fails("add_data") /\ UNCHANGED abi
  /\ data' = "right"
  /\ Goto("insert")
  /\ UNCHANGED <<chain, left, side, actions>>

FaultyKnownAbi == ChainAbi(InHand.account)
KnownAbi == abi[InHand.account]

\* add_data() of another action, and of a setabi whose bytes do not unpack to
\* an ABI: the data is decoded with the stored ABI of its contract, and is "{}"
\* when there is none or something throws.
DecodeData ==
  /\ pc = "add_data"
  /\ ~CarriesAbi
  /\ \/ Works /\ data' \in Readings(KnownAbi)
     \/ Fails("add_data") /\ data' = "{}"
  /\ Goto("insert")
  /\ UNCHANGED <<chain, left, abi, side, actions>>

\* There is no session for a trace, or decoded data, right or junk, does not
\* read as a system_contract_arg: the exception leaves add(), and nothing is
\* saved of the action nor of those that follow it in its trace.
ThrowOut ==
  /\ pos <= Len(log)
  /\ \/ pc = "idle"
     \/ pc = "add_data" /\ ~CarriesAbi /\ Readings(KnownAbi) # {"{}"}
  /\ Trouble
  /\ pos' \in NextPos..(Len(log) + 1)
  /\ failed' = failed \cup ((pos..(pos' - 1)) \X Calls)
  /\ pc' = "idle"
  /\ UNCHANGED <<chain, data, left, abi, side, actions>>

InsertAction ==
  /\ pc = "insert"
  /\ \/ Works /\ actions' = actions \cup {[at |-> pos, data |-> data]}
     \/ Fails("insert") /\ UNCHANGED actions
  /\ data' = "{}"
  /\ Goto("parse_actions")
  /\ UNCHANGED <<chain, left, abi, side>>

-----------------------------------------------------------------------------
(* parse_actions(), after its SELECT of the ABI and its decoding.          *)

\* For eosio the built-in ABI stands in for a missing one.
ParseAbi ==
  IF InHand.account = "eosio" /\ KnownAbi = None THEN BuiltIn ELSE KnownAbi

\* The SELECT fails, there is no ABI, or decoding throws: no statement.
NothingToWrite ==
  /\ pc = "parse_actions"
  /\ \/ Fails("parse_actions")
     \/ Works /\ "{}" \in Readings(ParseAbi)
     \/ Works /\ InHand.name = "setabi"
  /\ Done
  /\ UNCHANGED <<chain, data, left, abi, side, actions>>

Parsing(names, reading) ==
  /\ pc = "parse_actions"
  /\ InHand.name \in names
  /\ reading \in Readings(ParseAbi)

FaultyFirstOfAccount == "owner"
FirstOfAccount == "account"

\* newaccount is unpacked without the ABI, once the ABI has read it at all.
NewAccount ==
  /\ \E reading \in {"right", "junk"} : Parsing({"newaccount"}, reading)
  /\ Works
  /\ Goto(FirstOfAccount)
  /\ left' = InHand.value["owner"]
  /\ UNCHANGED <<chain, data, abi, side, actions>>

\* INSERT ... ON DUPLICATE KEY UPDATE; when it throws, no key is inserted.
AccountRow ==
  /\ pc = "account"
  /\ \/ Works /\ account' = TRUE /\ Goto("owner") /\ UNCHANGED left
     \/ Fails("parse_actions") /\ Done /\ left' = 0 /\ UNCHANGED account
  /\ UNCHANGED <<chain, data, abi, keys, votes, proposal, assets, actions>>

\* A plain INSERT for each key of a permission.
KeyRow(p) ==
  /\ pc = p
  /\ left > 0
  /\ \/ /\ Works
        /\ keys' = [keys EXCEPT ![p] = @ + 1]
        /\ left' = left - 1
        /\ Goto(p)
     \/ Fails("parse_actions") /\ Done /\ left' = 0 /\ UNCHANGED keys
  /\ UNCHANGED <<chain, data, abi, account, votes, proposal, assets, actions>>

\* The loop over a permission's keys ends; owner comes before active.
NextPermission ==
  /\ pc \in Permissions
  /\ left = 0
  /\ \/ pc = "owner" /\ Goto("active") /\ left' = InHand.value["active"]
     \/ pc = "active" /\ Done /\ UNCHANGED left
  /\ UNCHANGED <<chain, data, abi, side, actions, failed, troubles>>

\* INSERT ... ON DUPLICATE KEY UPDATE, keyed by the voter.  Data that was read
\* wrong makes it a vote of anybody for anything, or has no such fields.
VoteProducer ==
  /\ \/ /\ Parsing({"voteproducer"}, "right")
        /\ votes' = [votes EXCEPT ![InHand.target] = InHand.value]
     \/ /\ Parsing({"voteproducer"}, "junk")
        /\ \/ \E v \in Voters, x \in Producers : votes' = [votes EXCEPT ![v] = x]
           \/ UNCHANGED votes
  /\ Works
  /\ Done
  /\ UNCHANGED <<chain, data, left, abi, account, keys, proposal, assets, actions>>

\* INSERT ... ON DUPLICATE KEY UPDATE, keyed by proposer and name.
Propose ==
  /\ \/ /\ Parsing({"propose"}, "right")
        /\ proposal' = [proposal EXCEPT ![InHand.target] = InHand.value]
     \/ /\ Parsing({"propose"}, "junk")
        /\ \/ \E p \in Proposals, r \in Requests : proposal' = [proposal EXCEPT ![p] = r]
           \/ UNCHANGED proposal
  /\ Works
  /\ Done
  /\ UNCHANGED <<chain, data, left, abi, account, keys, votes, assets, actions>>

\* DELETE FROM proposal, keyed by proposer and name too.
CancelOrExec ==
  /\ \/ /\ Parsing({"cancel", "exec"}, "right")
        /\ proposal' = [proposal EXCEPT ![InHand.target] = None]
     \/ /\ Parsing({"cancel", "exec"}, "junk")
        /\ \/ \E p \in Proposals : proposal' = [proposal EXCEPT ![p] = None]
           \/ UNCHANGED proposal
  /\ Works
  /\ Done
  /\ UNCHANGED <<chain, data, left, abi, account, keys, votes, assets, actions>>

NextId == 1 + Max({0} \cup {assets[s] : s \in Symbols})

FaultyReplaced(s) == [assets EXCEPT ![s] = IF @ = 0 THEN NextId ELSE @]

\* REPLACE INTO assets deletes the row of the token and inserts one anew.
Replaced(s) == [assets EXCEPT ![s] = NextId]

\* A token has an issuer and a maximum supply above 0; junk may have none.
Create ==
  /\ \/ /\ Parsing({"create"}, "right")
        /\ assets' = Replaced(InHand.target)
     \/ /\ Parsing({"create"}, "junk")
        /\ \/ \E s \in Symbols : assets' = Replaced(s)
           \/ UNCHANGED assets
  /\ Works
  /\ Done
  /\ UNCHANGED <<chain, data, left, abi, account, keys, votes, proposal, actions>>

-----------------------------------------------------------------------------
\* nodeos dies with what is in hand and queued, and starts again.  A replay
\* signals the branch anew.  Without a row of eosio wipe() inserts it again.
Restart(replay) ==
  /\ Trouble
  /\ IF replay
     THEN /\ Len(log) + Len(branch) <= MaxLog
          /\ log' = log \o [k \in DOMAIN branch |-> log[branch[k]]]
          /\ branch' = [k \in DOMAIN branch |-> Len(log) + k]
     ELSE UNCHANGED chain
  /\ abi' \in {abi, [abi EXCEPT !["eosio"] = IF @ = None THEN BuiltIn ELSE @]}
  /\ pos' = Len(log) + 1
  /\ pc' = "idle"
  /\ data' = "{}"
  /\ left' = 0
  /\ failed' = failed \cup ((pos..Len(log)) \X Calls)
  /\ UNCHANGED <<side, actions>>

Next ==
  \/ Execute \/ Undo
  \/ Begin \/ StoreAbi \/ DecodeData \/ ThrowOut \/ InsertAction
  \/ NothingToWrite
  \/ NewAccount \/ AccountRow \/ (\E p \in Permissions : KeyRow(p)) \/ NextPermission
  \/ VoteProducer \/ Propose \/ CancelOrExec \/ Create
  \/ \E replay \in BOOLEAN : Restart(replay)

Spec == Init /\ [][Next]_vars

-----------------------------------------------------------------------------
(* Every variable has its type. *)
TypeOK ==
  /\ branch \in Seq(DOMAIN log)
  /\ pos \in 1..(Len(log) + 1)
  /\ pc \in {"idle", "account"} \cup Calls \cup Permissions
  /\ pc # "idle" => pos <= Len(log)
  /\ data \in {"right", "junk", "{}"}
  /\ left \in Nat
  /\ abi \in [Owners -> Abis \cup {None, BuiltIn}]
  /\ account \in BOOLEAN
  /\ keys \in [Permissions -> Nat]
  /\ votes \in [Voters -> Producers \cup {None}]
  /\ proposal \in [Proposals -> Requests \cup {None}]
  /\ assets \in [Symbols -> Nat]
  /\ actions \subseteq [at : DOMAIN log, data : {"right", "junk", "{}"}]
  /\ failed \subseteq (0..Len(log)) \X Calls

\* The last action about a row before place n of the log, 0 when there is none.
LastAbout(names, target, n) == Max({0} \cup About(names, target, 1..(n - 1)))

\* The worker stored what setabi i carries, or wipe() what comes before them all.
Stored(i) ==
  /\ <<i, "add_data">> \notin failed
  /\ i > 0 => Handed(i) /\ log[i].value # None

AbiAfter(c, i) ==
  IF i > 0 THEN log[i].value ELSE IF c = "eosio" THEN BuiltIn ELSE None

\* The last setabi of its contract that was signalled before action i made it to
\* the table, and carries the ABI that action i was executed under.
KnowsAbiOf(i) ==
  LET s == LastAbout({"setabi"}, log[i].account, i) IN
  /\ Stored(s)
  /\ AbiAfter(log[i].account, s) = log[i].under
  /\ Describes(log[i].under, log[i])

\* The worker wrote what action i says.
Written(i) == Handed(i) /\ KnowsAbiOf(i) /\ <<i, "parse_actions">> \notin failed

\* Nothing before place n hides what the last action about a row says, if there
\* is one: it was written itself, and no later one was read with another ABI,
\* which may write to any row of its table.
Clear(names, target, n) ==
  LET i == LastAbout(names, target, n) IN
  /\ i > 0 => Written(i)
  /\ \A j \in (i + 1)..(n - 1) : log[j].name \in names /\ Handed(j) => KnowsAbiOf(j)

\* What the last action about a row says.
Said(names, target, n) ==
  LET i == LastAbout(names, target, n) IN IF i > 0 THEN log[i].value ELSE None

\* The last action about a row, if there is one, is still so on the chain.
Stands(names, target, n) == LastAbout(names, target, n) \in {0} \cup ToSet(branch)

AbiFollows(n) ==
  \A c \in Owners :
    LET i == LastAbout({"setabi"}, c, n) IN
    Stored(i) => abi[c] = AbiAfter(c, i)

AccountFollows(n) ==
  Clear({"newaccount"}, "alice", n) =>
    LET i == LastAbout({"newaccount"}, "alice", n) IN
    /\ account = (i > 0)
    /\ i > 0 => \A p \in Permissions : keys[p] >= log[i].value[p]

VotesFollow(n) ==
  \A v \in Voters :
    Clear({"voteproducer"}, v, n) => votes[v] = Said({"voteproducer"}, v, n)
ProposalsFollow(n) ==
  \A p \in Proposals :
    Clear(Proposing, p, n) => proposal[p] = Said(Proposing, p, n)

AssetsFollow(n) ==
  \A s, t \in Symbols :
    Clear({"create"}, s, n) /\ Clear({"create"}, t, n) =>
      LET i == LastAbout({"create"}, s, n)
          j == LastAbout({"create"}, t, n)
      IN  /\ (assets[s] > 0) = (i > 0)
          /\ 0 < i /\ i < j => assets[s] < assets[t]

ActionsFollow(n) ==
  \A i \in 1..(n - 1) :
    Handed(i) /\ <<i, "insert">> \notin failed => \E row \in actions : row.at = i

(* Once the worker has caught up, each row is as the last action says that *)
(* was signalled about it.  It takes nothing else than that this one was   *)
(* handed to add(), its statement worked and its ABI is the one stored:    *)
(* whatever failed, was lost, was skipped or was undone before, the        *)
(* statements are upserts and deletes and heal it.  The table actions has  *)
(* a row of each action whose INSERT worked, whether the rest of it did or *)
(* not.                                                                    *)
CaughtUpMirrors ==
  pos > Len(log) =>
    /\ AbiFollows(pos)
    /\ AccountFollows(pos)
    /\ VotesFollow(pos)
    /\ ProposalsFollow(pos)
    /\ AssetsFollow(pos)
    /\ ActionsFollow(pos)

(* The ABIs, votes and proposals are those of the chain, then, unless the  *)
(* last action that was signalled about them was undone: a fork leaves its *)
(* rows behind until the next action about them.                           *)
CaughtUpHolds ==
  pos > Len(log) =>
    /\ \A c \in Owners :
         Stands({"setabi"}, c, pos) /\ Stored(LastAbout({"setabi"}, c, pos)) =>
           abi[c] = ChainAbi(c)
    /\ \A v \in Voters :
         Stands({"voteproducer"}, v, pos) /\ Clear({"voteproducer"}, v, pos) =>
           votes[v] = ChainVotes(v)
    /\ \A p \in Proposals :
         Stands(Proposing, p, pos) /\ Clear(Proposing, p, pos) =>
           proposal[p] = ChainProposal(p)

(* The data saved of an action was decoded with the ABI its contract had   *)
(* when it was executed, if the last setabi signalled before it stored     *)
(* that one: however many ABIs the queue holds behind it, and however many *)
(* the tables hold from an earlier run or a fork.                          *)
DecodedAsExecuted ==
  \A row \in actions :
    KnowsAbiOf(row.at) => row.data = "right" \/ <<row.at, "add_data">> \in failed

(* A row is only ever changed to what the action in hand says, unless the  *)
(* ABI that this one was executed under is not the one that the setabi     *)
(* signalled last before it stored.                                        *)
NoPhantomRows ==
  [][\/ UNCHANGED <<votes, proposal, assets>>
     \/ ~KnowsAbiOf(pos)
     \/ /\ \A v \in Voters :
             votes'[v] # votes[v] => v = InHand.target /\ votes'[v] = InHand.value
        /\ \A p \in Proposals :
             proposal'[p] # proposal[p] => p = InHand.target /\ proposal'[p] = InHand.value
        /\ \A s \in Symbols : assets'[s] # assets[s] => s = InHand.target]_vars

(* The keys of an account are never there without its row in accounts,     *)
(* whichever statement failed and whenever nodeos died.                    *)
KeysHaveAccount == \A p \in Permissions : keys[p] > 0 => account
=============================================================================
