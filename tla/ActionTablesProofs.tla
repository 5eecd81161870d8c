------------------------- MODULE ActionTablesProofs -------------------------
(***************************************************************************)
(* Proofs about the tables, for every number of actions, ABIs, failures,   *)
(* undone executions and restarts.                                         *)
(*                                                                         *)
(* The invariant says of each table that it follows the log up to the      *)
(* action in hand, AbiFollows and ActionsFollow one action further once    *)
(* the worker is past the statement in question.  What is required of an   *)
(* action, to be written or to carry the ABI that is stored, only gets     *)
(* harder to meet with a step (Harder).  So it is enough to look at the    *)
(* action the worker leaves behind: it was not written (Kept), it was      *)
(* (Reached), or it was read with another ABI (Misread).                   *)
(***************************************************************************)
EXTENDS ActionTables, SequenceFacts, SequenceTheorems, TLAPS

Names == {"setabi", "newaccount", "voteproducer", "create"} \cup Proposing
AnyAbi == Abis \cup {None, BuiltIn}
Counts == [Permissions -> Nat]

Entries ==
  [account : Owners, name : Names,
   target : Owners \cup {"alice"} \cup Voters \cup Proposals \cup Symbols,
   value : AnyAbi \cup Counts \cup Producers \cup Requests \cup Symbols,
   under : AnyAbi, handed : BOOLEAN]

(* What the entries of each kind are about. *)
WellMade(a) ==
  /\ a.name = "setabi" => a.target \in Owners /\ a.value \in Abis \cup {None}
  /\ a.name = "newaccount" => a.target = "alice" /\ a.value \in Counts
  /\ a.name = "voteproducer" => a.target \in Voters /\ a.value \in Producers
  /\ a.name = "propose" => a.target \in Proposals /\ a.value \in Requests
  /\ a.name \in {"cancel", "exec"} => a.target \in Proposals /\ a.value = None
  /\ a.name = "create" => a.target \in Symbols

LogInv ==
  /\ log \in Seq(Entries)
  /\ \A i \in 1..Len(log) : WellMade(log[i])

AddingKeys == {"account"} \cup Permissions
Inserted == {"parse_actions"} \cup AddingKeys
Decoded == {"insert"} \cup Inserted

AbiPlace == IF pc \in Decoded THEN pos + 1 ELSE pos
RowPlace == IF pc \in Inserted THEN pos + 1 ELSE pos

(* What the worker is about to do for the action in hand. *)
InHandInv ==
  /\ pc # "idle" => Handed(pos)
  /\ pc \in AddingKeys => InHand.name = "newaccount"
  /\ pc = "insert" /\ KnowsAbiOf(pos) => data = "right" \/ <<pos, "add_data">> \in failed
  /\ \A row \in actions : row.at <= pos

(* The rows of the account that is being added. *)
KeysInv ==
  /\ KeysHaveAccount
  /\ pc \in Permissions => account
  /\ pc = "account" => left = InHand.value["owner"]
  /\ pc \in Permissions => keys[pc] + left >= InHand.value[pc]
  /\ pc = "active" => keys["owner"] >= InHand.value["owner"]

RowsInv ==
  /\ VotesFollow(pos)
  /\ ProposalsFollow(pos)
  /\ AssetsFollow(pos)
  /\ \E b \in Nat : \A s \in Symbols : assets[s] <= b
  /\ pc \notin Permissions => AccountFollows(pos)

IInv ==
  /\ TypeOK
  /\ LogInv
  /\ InHandInv
  /\ AbiFollows(AbiPlace)
  /\ ActionsFollow(RowPlace)
  /\ KeysInv
  /\ RowsInv
  /\ DecodedAsExecuted

-----------------------------------------------------------------------------
(* The log and the last action about a row.                                *)

LEMMA LogEntries ==
  ASSUME LogInv
  PROVE  /\ Len(log) \in Nat /\ DOMAIN log = 1..Len(log)
         /\ \A i \in 1..Len(log) : log[i] \in Entries /\ WellMade(log[i])
BY LenProperties, ElementOfSeq DEF LogInv

LEMMA LastPlace ==
  ASSUME NEW names, NEW target, NEW n \in Nat \ {0}
  PROVE  LET i == LastAbout(names, target, n) IN
         /\ i \in 0..(n - 1)
         /\ i > 0 => log[i].name \in names /\ log[i].target = target
         /\ \A j \in 1..(n - 1) : log[j].name \in names /\ log[j].target = target => j <= i
<1> DEFINE S == {0} \cup About(names, target, 1..(n - 1))
<1>1. S \subseteq 0..(n - 1) /\ S # {} /\ n - 1 \in Nat
  BY DEF About
<1>2. Max(S) \in S /\ \A k \in S : k <= Max(S)
  <2> HIDE DEF S
  <2> QED
    BY <1>1, Greatest
<1>3. LastAbout(names, target, n) = Max(S)
  BY DEF LastAbout
<1>4. \A j \in 1..(n - 1) : log[j].name \in names /\ log[j].target = target => j \in S
  BY DEF About
<1>5. \A j \in S : j > 0 => log[j].name \in names /\ log[j].target = target
  BY DEF About
<1> HIDE DEF S
<1> QED
  BY <1>1, <1>2, <1>3, <1>4, <1>5

LEMMA LastIs ==
  ASSUME NEW names, NEW target, NEW n \in Nat \ {0}, NEW i \in 0..(n - 1),
         i > 0 => log[i].name \in names /\ log[i].target = target,
         \A j \in 1..(n - 1) : log[j].name \in names /\ log[j].target = target => j <= i
  PROVE  LastAbout(names, target, n) = i
<1> DEFINE S == {0} \cup About(names, target, 1..(n - 1))
<1>1. i \in S /\ S \subseteq Nat
  BY DEF About
<1>2. \A k \in S : k <= i
  BY DEF About
<1> HIDE DEF S
<1>3. Max(S) = i
  BY <1>1, <1>2, NewGreatest
<1> QED
  BY <1>3 DEF LastAbout, S

-----------------------------------------------------------------------------
(* What a step does to the log, and to what is required of its actions.    *)

Grows ==
  /\ Len(log') \in Nat /\ Len(log) <= Len(log')
  /\ DOMAIN log' = 1..Len(log')
  /\ \A i \in 1..Len(log) : log'[i] = log[i]
  /\ failed \subseteq failed'

LEMMA LastStays ==
  ASSUME LogInv, Grows, NEW names, NEW target, NEW n \in 1..(Len(log) + 1)
  PROVE  Max({0} \cup About(names, target, 1..(n - 1)))'
           = Max({0} \cup About(names, target, 1..(n - 1)))
<1>1. Len(log) \in Nat
  BY LogEntries
<1>2. \A i \in 1..(n - 1) : i \in 1..Len(log)
  BY <1>1
<1>3. \A i \in 1..(n - 1) : log'[i] = log[i]
  BY <1>2 DEF Grows
<1>4. About(names, target, 1..(n - 1))' = About(names, target, 1..(n - 1))
  BY <1>3 DEF About
<1> QED
  BY <1>4

LEMMA StoredHarder ==
  ASSUME LogInv, Grows, NEW c, NEW k \in 0..Len(log)
  PROVE  /\ Stored(k)' => Stored(k)
         /\ AbiAfter(c, k)' = AbiAfter(c, k)
<1>1. k > 0 => log'[k] = log[k]
  BY LogEntries DEF Grows
<1> QED
  BY <1>1, LogEntries DEF Stored, Handed, AbiAfter, Grows

LEMMA Harder ==
  ASSUME LogInv, Grows, NEW i \in 1..Len(log)
  PROVE  /\ Handed(i)' = Handed(i)
         /\ KnowsAbiOf(i)' => KnowsAbiOf(i)
         /\ Written(i)' => Written(i)
<1>1. log'[i] = log[i] /\ i \in Nat \ {0} /\ i \in 1..(Len(log) + 1)
  BY LogEntries DEF Grows
<1>2. Handed(i)' = Handed(i)
  BY <1>1 DEF Handed
<1>3. PICK c : c = log[i].account
  OBVIOUS
<1>4. PICK k : k = LastAbout({"setabi"}, c, i)
  OBVIOUS
<1>5. k \in 0..Len(log)
  BY <1>1, <1>4, LastPlace, LogEntries
<1>6. k = LastAbout({"setabi"}, c, i)'
  BY <1>1, <1>4, LastStays DEF LastAbout
<1>7. c = log'[i].account
  BY <1>1, <1>3
<1>8. KnowsAbiOf(i)' =>
        Stored(k)' /\ AbiAfter(c, k)' = log[i].under /\ Describes(log[i].under, log[i])
  BY <1>1, <1>6, <1>7 DEF KnowsAbiOf, Describes
<1>9. KnowsAbiOf(i)' => KnowsAbiOf(i)
  BY <1>3, <1>4, <1>5, <1>8, StoredHarder DEF KnowsAbiOf
<1> QED
  BY <1>2, <1>9 DEF Written, Grows

(* An action up to place n of the log that was not written, or is about    *)
(* another row, hides what was said before place m or leaves it as it was. *)
LEMMA ClearBefore ==
  ASSUME LogInv, Grows, NEW names, NEW target,
         NEW m \in 1..(Len(log) + 1), NEW n \in m..(Len(log) + 1),
         \A j \in m..(n - 1) :
           log[j].name \in names /\ log[j].target = target => ~Written(j)',
         Clear(names, target, n)'
  PROVE  /\ Clear(names, target, m)
         /\ LastAbout(names, target, n)' = LastAbout(names, target, m)
         /\ Said(names, target, n)' = Said(names, target, m)
<1>1. Len(log) \in Nat /\ m \in Nat \ {0} /\ n \in Nat \ {0} /\ n \in 1..(Len(log) + 1)
  BY LogEntries
<1>2. PICK i : i = LastAbout(names, target, n)
  OBVIOUS
<1>3. i = LastAbout(names, target, n)'
  BY <1>1, <1>2, LastStays DEF LastAbout
<1>4. /\ i \in 0..(n - 1)
      /\ i > 0 => log[i].name \in names /\ log[i].target = target
      /\ \A j \in 1..(n - 1) : log[j].name \in names /\ log[j].target = target => j <= i
  BY <1>1, <1>2, LastPlace
<1>5. /\ i > 0 => Written(i)'
      /\ \A j \in (i + 1)..(n - 1) :
           log'[j].name \in names /\ Handed(j)' => KnowsAbiOf(j)'
  BY <1>3 DEF Clear
<1>6. i \in 0..(m - 1)
  BY <1>1, <1>4, <1>5
<1>7. i = LastAbout(names, target, m)
  <2>1. \A j \in 1..(m - 1) : j \in 1..(n - 1)
    BY <1>1
  <2> QED
    BY <1>1, <1>4, <1>6, <2>1, LastIs
<1>8. i > 0 => Written(i) /\ log'[i] = log[i]
  BY <1>1, <1>5, <1>6, Harder DEF Grows
<1>9. \A j \in (i + 1)..(m - 1) : log[j].name \in names /\ Handed(j) => KnowsAbiOf(j)
  <2> TAKE j \in (i + 1)..(m - 1)
  <2>1. j \in 1..Len(log) /\ j \in (i + 1)..(n - 1) /\ log'[j] = log[j]
    BY <1>1, <1>6 DEF Grows
  <2> QED
    BY <1>5, <2>1, Harder
<1> QED
  BY <1>2, <1>3, <1>7, <1>8, <1>9 DEF Clear, Said

(* An action that nothing hides is the last one, and was written. *)
LEMMA ClearHere ==
  ASSUME LogInv, Grows, NEW names, NEW target, NEW m \in 1..Len(log),
         log[m].name \in names, log[m].target = target, Clear(names, target, m + 1)'
  PROVE  /\ Written(m)'
         /\ LastAbout(names, target, m + 1)' = m
         /\ Said(names, target, m + 1)' = log[m].value
<1>1. Len(log) \in Nat /\ m \in Nat \ {0} /\ m + 1 \in 1..(Len(log) + 1) /\ m \in 0..m
      /\ (m + 1) - 1 = m /\ m > 0
  BY LogEntries
<1>2. LastAbout(names, target, m + 1) = m
  BY <1>1, LastIs
<1>3. LastAbout(names, target, m + 1)' = m
  BY <1>1, <1>2, LastStays DEF LastAbout
<1> QED
  BY <1>1, <1>3 DEF Clear, Said, Grows

(* One that was read with another ABI hides all of its table. *)
LEMMA NotClear ==
  ASSUME LogInv, Grows, NEW names, NEW target, NEW m \in 1..Len(log),
         log[m].name \in names, Handed(m), ~KnowsAbiOf(m)
  PROVE  ~Clear(names, target, m + 1)'
<1> SUFFICES ASSUME Clear(names, target, m + 1)' PROVE FALSE
  OBVIOUS
<1>1. Len(log) \in Nat /\ m \in Nat \ {0} /\ m + 1 \in 1..(Len(log) + 1) /\ log'[m] = log[m]
  BY LogEntries DEF Grows
<1>2. PICK i : i = LastAbout(names, target, m + 1)
  OBVIOUS
<1>3. i = LastAbout(names, target, m + 1)'
  BY <1>1, <1>2, LastStays DEF LastAbout
<1>4. i \in 0..m
  BY <1>1, <1>2, LastPlace
<1>5. ~Written(m)'
  BY Harder DEF Written
<1>6. i # m
  BY <1>1, <1>3, <1>5 DEF Clear
<1>7. m \in (i + 1)..((m + 1) - 1)
  BY <1>1, <1>4, <1>6
<1>8. Handed(m)' => KnowsAbiOf(m)'
  BY <1>1, <1>3, <1>7 DEF Clear
<1> QED
  BY <1>8, Harder

-----------------------------------------------------------------------------
(* The chain's steps.                                                      *)

LEMMA BranchPlaces ==
  ASSUME TypeOK, LogInv
  PROVE  ToSet(branch) \subseteq 1..Len(log)
BY LogEntries, ElementOfSeq, LenProperties DEF TypeOK, ToSet

LEMMA ChainAbiType ==
  ASSUME TypeOK, LogInv, NEW c \in Owners
  PROVE  ChainAbi(c) \in AnyAbi
<1> DEFINE S == OnBranch({"setabi"}, c)
<1>1. S \subseteq 1..Len(log) /\ \A i \in S : log[i].name = "setabi"
  BY BranchPlaces DEF OnBranch, About
<1>2. S # {} => Max(S) \in S
  <2>1. S \subseteq 0..Len(log) /\ Len(log) \in Nat
    BY <1>1, LogEntries
  <2> HIDE DEF S
  <2> QED
    BY <2>1, Greatest
<1>3. S # {} => log[Max(S)].value \in AnyAbi
  <2> HIDE DEF S
  <2> QED
    BY <1>1, <1>2, LogEntries DEF WellMade, AnyAbi
<1>4. ChainAbi(c) = IF S = {} THEN IF c = "eosio" THEN BuiltIn ELSE None
                    ELSE log[Max(S)].value
  BY DEF ChainAbi, Latest
<1> HIDE DEF S
<1> QED
  BY <1>3, <1>4 DEF AnyAbi

LEMMA ExecutedEntry ==
  ASSUME TypeOK, LogInv, NEW acc \in Owners, NEW name \in Names, NEW targets, NEW values,
         targets \subseteq Owners \cup {"alice"} \cup Voters \cup Proposals \cup Symbols,
         values \subseteq AnyAbi \cup Counts \cup Producers \cup Requests \cup Symbols,
         Executes(acc, name, targets, values)
  PROVE  \E a \in Entries :
           /\ a.name = name /\ a.target \in targets /\ a.value \in values
           /\ log' = Append(log, a) /\ branch' = Append(branch, Len(log) + 1)
<1>1. ChainAbi(acc) \in AnyAbi
  BY ChainAbiType
<1>2. PICK a \in [account : {acc}, name : {name}, target : targets, value : values,
                  under : {ChainAbi(acc)}, handed : BOOLEAN] :
        log' = Append(log, a) /\ branch' = Append(branch, Len(log) + 1)
  BY DEF Executes
<1>3. a \in Entries
  BY <1>1, <1>2 DEF Entries
<1> QED
  BY <1>2, <1>3

LEMMA ExecuteEntry ==
  ASSUME TypeOK, LogInv, Execute
  PROVE  \E a \in Entries :
           WellMade(a) /\ log' = Append(log, a) /\ branch' = Append(branch, Len(log) + 1)
<1>1. CASE Executes("eosio", "setabi", Owners, Abis \cup {None})
  <2>1. "eosio" \in Owners /\ "setabi" \in Names /\ Abis \cup {None} \subseteq AnyAbi
    BY DEF Owners, Names, AnyAbi
  <2>2. PICK a \in Entries :
          /\ a.name = "setabi" /\ a.target \in Owners /\ a.value \in Abis \cup {None}
          /\ log' = Append(log, a) /\ branch' = Append(branch, Len(log) + 1)
    BY <1>1, <2>1, ExecutedEntry
  <2> QED
    BY <2>2 DEF WellMade
<1>2. CASE Executes("eosio", "newaccount", {"alice"}, KeyCounts)
  <2>1. "eosio" \in Owners /\ "newaccount" \in Names /\ KeyCounts \subseteq Counts
    BY ActionTablesAssumption DEF Owners, Names, KeyCounts, Counts
  <2>2. PICK a \in Entries :
          /\ a.name = "newaccount" /\ a.target \in {"alice"} /\ a.value \in KeyCounts
          /\ log' = Append(log, a) /\ branch' = Append(branch, Len(log) + 1)
    BY <1>2, <2>1, ExecutedEntry
  <2> QED
    BY <2>1, <2>2 DEF WellMade
<1>3. CASE Executes("eosio", "voteproducer", Voters, Producers)
  <2>1. "eosio" \in Owners /\ "voteproducer" \in Names
    BY DEF Owners, Names
  <2>2. PICK a \in Entries :
          /\ a.name = "voteproducer" /\ a.target \in Voters /\ a.value \in Producers
          /\ log' = Append(log, a) /\ branch' = Append(branch, Len(log) + 1)
    BY <1>3, <2>1, ExecutedEntry
  <2> QED
    BY <2>2 DEF WellMade
<1>4. ASSUME NEW p \in Proposals, Executes("eosio.msig", "propose", {p}, Requests)
      PROVE  \E a \in Entries :
               WellMade(a) /\ log' = Append(log, a) /\ branch' = Append(branch, Len(log) + 1)
  <2>1. "eosio.msig" \in Owners /\ "propose" \in Names
    BY DEF Owners, Names, Proposing
  <2>2. PICK a \in Entries :
          /\ a.name = "propose" /\ a.target \in {p} /\ a.value \in Requests
          /\ log' = Append(log, a) /\ branch' = Append(branch, Len(log) + 1)
    BY <1>4, <2>1, ExecutedEntry
  <2> QED
    BY <2>2 DEF WellMade
<1>5. ASSUME NEW p \in Proposals, NEW name \in {"cancel", "exec"},
             Executes("eosio.msig", name, {p}, {None})
      PROVE  \E a \in Entries :
               WellMade(a) /\ log' = Append(log, a) /\ branch' = Append(branch, Len(log) + 1)
  <2>1. "eosio.msig" \in Owners /\ name \in Names /\ {None} \subseteq AnyAbi
    BY DEF Owners, Names, Proposing, AnyAbi
  <2>2. PICK a \in Entries :
          /\ a.name = name /\ a.target \in {p} /\ a.value \in {None}
          /\ log' = Append(log, a) /\ branch' = Append(branch, Len(log) + 1)
    BY <1>5, <2>1, ExecutedEntry
  <2> QED
    BY <2>2 DEF WellMade
<1>6. ASSUME NEW s \in Symbols, Executes("token", "create", {s}, {s})
      PROVE  \E a \in Entries :
               WellMade(a) /\ log' = Append(log, a) /\ branch' = Append(branch, Len(log) + 1)
  <2>1. "token" \in Owners /\ "create" \in Names
    BY DEF Owners, Names
  <2>2. PICK a \in Entries :
          /\ a.name = "create" /\ a.target \in {s} /\ a.value \in {s}
          /\ log' = Append(log, a) /\ branch' = Append(branch, Len(log) + 1)
    BY <1>6, <2>1, ExecutedEntry
  <2> QED
    BY <2>2 DEF WellMade
<1> QED
  BY <1>1, <1>2, <1>3, <1>4, <1>5, <1>6 DEF Execute

(* No step takes anything from the log, and the branch stays a part of it. *)
ChainFacts ==
  /\ LogInv'
  /\ branch' \in Seq(DOMAIN log')
  /\ Len(log') \in Nat /\ Len(log) <= Len(log')
  /\ DOMAIN log' = 1..Len(log')
  /\ \A i \in 1..Len(log) : log'[i] = log[i]

LEMMA ExecuteChain ==
  ASSUME TypeOK, LogInv, Execute
  PROVE  ChainFacts
<1>1. PICK a \in Entries :
        WellMade(a) /\ log' = Append(log, a) /\ branch' = Append(branch, Len(log) + 1)
  BY ExecuteEntry
<1>2. Len(log) \in Nat /\ DOMAIN log = 1..Len(log) /\ log \in Seq(Entries)
  BY LogEntries DEF LogInv
<1>3. /\ log' \in Seq(Entries)
      /\ Len(log') = Len(log) + 1 /\ DOMAIN log' = 1..(Len(log) + 1)
      /\ log'[Len(log) + 1] = a /\ \A i \in 1..Len(log) : log'[i] = log[i]
  BY <1>1, <1>2, AppendProperties, LenProperties
<1>4. \A i \in 1..Len(log') : WellMade(log'[i])
  <2>1. \A i \in 1..Len(log') : i \in 1..Len(log) \/ i = Len(log) + 1
    BY <1>2, <1>3
  <2> QED
    BY <1>1, <1>3, <2>1 DEF LogInv
<1>5. branch' \in Seq(DOMAIN log')
  <2>1. branch \in Seq(1..Len(log))
    BY <1>2 DEF TypeOK
  <2>2. branch \in Seq(1..(Len(log) + 1)) /\ Len(log) + 1 \in 1..(Len(log) + 1)
    <3>1. 1..Len(log) \subseteq 1..(Len(log) + 1)
      BY <1>2
    <3> QED
      BY <1>2, <2>1, <3>1
  <2> QED
    BY <1>1, <1>3, <2>2, AppendProperties
<1> QED
  BY <1>2, <1>3, <1>4, <1>5 DEF ChainFacts, LogInv

LEMMA UndoChain ==
  ASSUME TypeOK, LogInv, Undo
  PROVE  ChainFacts
<1>1. PICK n \in 0..(Len(branch) - 1) : branch' = SubSeq(branch, 1, n)
  BY DEF Undo
<1>2. branch \in Seq(DOMAIN log) /\ Len(branch) \in Nat
  BY LenProperties DEF TypeOK
<1>3. \A i \in 1..n : branch[i] \in DOMAIN log
  BY <1>2, ElementOfSeq
<1>4. branch' \in Seq(DOMAIN log)
  BY <1>1, <1>2, <1>3, SubSeqProperties
<1>5. log' = log
  BY DEF Undo
<1> QED
  BY <1>4, <1>5, LogEntries DEF ChainFacts, LogInv

LEMMA RestartChain ==
  ASSUME TypeOK, LogInv, NEW replay \in BOOLEAN, Restart(replay)
  PROVE  ChainFacts
<1>1. Len(log) \in Nat /\ DOMAIN log = 1..Len(log) /\ log \in Seq(Entries)
  BY LogEntries DEF LogInv
<1>2. CASE UNCHANGED chain
  <2>1. log' = log /\ branch' = branch
    BY <1>2 DEF chain
  <2>2. LogInv'
    BY <2>1 DEF LogInv
  <2>3. branch \in Seq(DOMAIN log)
    BY DEF TypeOK
  <2>4. branch' \in Seq(DOMAIN log')
    BY <2>1, <2>3
  <2> QED
    BY <1>1, <2>1, <2>2, <2>4 DEF ChainFacts
<1>3. CASE /\ log' = log \o [k \in DOMAIN branch |-> log[branch[k]]]
           /\ branch' = [k \in DOMAIN branch |-> Len(log) + k]
  <2> DEFINE again == [k \in DOMAIN branch |-> log[branch[k]]]
             m == Len(branch)
  <2>1. m \in Nat /\ DOMAIN branch = 1..m /\ branch \in Seq(1..Len(log))
    BY <1>1, LenProperties DEF TypeOK
  <2>2. \A k \in 1..m : branch[k] \in 1..Len(log)
    BY <2>1, ElementOfSeq
  <2>3. again \in [1..m -> Entries]
    BY <2>1, <2>2, LogEntries
  <2>4. again \in Seq(Entries) /\ Len(again) = m
    <3> HIDE DEF again
    <3> QED
      BY <2>1, <2>3, SequenceOf
  <2>5. /\ log' \in Seq(Entries) /\ Len(log') = Len(log) + m
        /\ \A i \in 1..Len(log) : log'[i] = log[i]
        /\ \A k \in 1..m : log'[Len(log) + k] = again[k]
    <3>1. log' = log \o again
      BY <1>3
    <3> HIDE DEF again
    <3>2. /\ log \o again \in Seq(Entries) /\ Len(log \o again) = Len(log) + m
          /\ \A i \in 1..(Len(log) + m) :
               (log \o again)[i] = IF i <= Len(log) THEN log[i] ELSE again[i - Len(log)]
      <4>1. /\ log \o again \in Seq(Entries) /\ Len(log \o again) = Len(log) + Len(again)
            /\ \A i \in 1..(Len(log) + Len(again)) :
                 (log \o again)[i] = IF i <= Len(log) THEN log[i] ELSE again[i - Len(log)]
        BY <1>1, <2>4, ConcatProperties
      <4> QED
        BY <2>4, <4>1
    <3>3. \A k \in 1..m : Len(log) + k \in 1..(Len(log) + m) /\ ~(Len(log) + k <= Len(log))
                          /\ (Len(log) + k) - Len(log) = k
      BY <1>1, <2>1
    <3>4. \A i \in 1..Len(log) : i \in 1..(Len(log) + m) /\ i <= Len(log)
      BY <1>1, <2>1
    <3>5. \A i \in 1..Len(log) : log'[i] = log[i]
      BY <3>1, <3>2, <3>4
    <3>6. \A k \in 1..m : log'[Len(log) + k] = again[k]
      BY <3>1, <3>2, <3>3
    <3> QED
      BY <3>1, <3>2, <3>5, <3>6
  <2>6. Len(log') \in Nat /\ Len(log) <= Len(log') /\ DOMAIN log' = 1..Len(log')
    BY <1>1, <2>1, <2>5, LenProperties
  <2>7. \A i \in 1..Len(log') : WellMade(log'[i])
    <3> TAKE i \in 1..Len(log')
    <3>1. CASE i \in 1..Len(log)
      BY <2>5, <3>1, LogEntries
    <3>2. CASE i \notin 1..Len(log)
      <4>1. i - Len(log) \in 1..m /\ i = Len(log) + (i - Len(log))
        BY <1>1, <2>1, <2>5, <3>2
      <4>2. log'[i] = log[branch[i - Len(log)]]
        BY <2>1, <2>5, <4>1
      <4> QED
        BY <2>2, <4>1, <4>2, LogEntries
    <3> QED
      BY <3>1, <3>2
  <2>8. branch' \in Seq(DOMAIN log')
    <3>1. \A k \in 1..m : Len(log) + k \in 1..Len(log')
      BY <1>1, <2>1, <2>5
    <3>2. branch' \in [1..m -> 1..Len(log')]
      BY <1>3, <2>1, <3>1
    <3> QED
      BY <2>1, <2>6, <3>2, SequenceOf
  <2> QED
    BY <2>5, <2>6, <2>7, <2>8 DEF ChainFacts, LogInv
<1> QED
  BY <1>2, <1>3 DEF Restart

-----------------------------------------------------------------------------
(* Types.                                                                  *)

PlaceOK == pos \in 1..(Len(log) + 1) /\ (pc # "idle" => pos <= Len(log))

StageOK ==
  /\ pc \in {"idle", "account"} \cup Calls \cup Permissions
  /\ data \in {"right", "junk", "{}"}
  /\ left \in Nat

TablesOK ==
  /\ abi \in [Owners -> AnyAbi]
  /\ account \in BOOLEAN
  /\ keys \in [Permissions -> Nat]
  /\ votes \in [Voters -> Producers \cup {None}]
  /\ proposal \in [Proposals -> Requests \cup {None}]
  /\ assets \in [Symbols -> Nat]
  /\ actions \subseteq [at : DOMAIN log, data : {"right", "junk", "{}"}]

FailedOK == failed \subseteq (0..Len(log)) \X Calls

LEMMA TypeParts ==
  TypeOK <=> branch \in Seq(DOMAIN log) /\ PlaceOK /\ StageOK /\ TablesOK /\ FailedOK
BY DEF TypeOK, PlaceOK, StageOK, TablesOK, FailedOK, AnyAbi

Moves == pos' \in Nat /\ pos <= pos' /\ pos' <= Len(log) + 1 /\ failed \subseteq failed'

LEMMA Places ==
  ASSUME LogInv, PlaceOK
  PROVE  /\ Len(log) \in Nat /\ pos \in Nat \ {0} /\ pos <= Len(log) + 1
         /\ pc # "idle" => pos \in 1..Len(log)
<1>1. Len(log) \in Nat
  BY LogEntries
<1>2. pos \in 1..(Len(log) + 1)
  BY DEF PlaceOK
<1>3. pos \in Nat \ {0} /\ pos <= Len(log) + 1
  BY <1>1, <1>2
<1>4. ASSUME pc # "idle" PROVE pos \in 1..Len(log)
  <2>1. pos <= Len(log)
    BY <1>4 DEF PlaceOK
  <2> QED
    BY <1>1, <1>3, <2>1
<1> QED
  BY <1>1, <1>3, <1>4

(* How a step moves the worker on. *)
LEMMA StaysOrEnds ==
  ASSUME LogInv, PlaceOK, log' = log, pc # "idle",
         pos' = pos \/ (pos' = pos + 1 /\ pc' = "idle")
  PROVE  PlaceOK' /\ pos' \in Nat /\ pos <= pos' /\ pos' <= Len(log) + 1
<1>1. Len(log) \in Nat /\ pos \in Nat \ {0} /\ pos \in 1..Len(log)
  BY Places
<1>2. CASE pos' = pos
  BY <1>1, <1>2 DEF PlaceOK
<1>3. CASE pos' = pos + 1 /\ pc' = "idle"
  <2>1. pos' \in 1..(Len(log) + 1) /\ pos <= pos' /\ pos' \in Nat
    BY <1>1, <1>3
  <2> QED
    BY <1>1, <1>3, <2>1 DEF PlaceOK
<1> QED
  BY <1>2, <1>3

LEMMA FailsOrWorks ==
  ASSUME FailedOK, pos \in 1..Len(log), NEW call \in Calls, Fails(call) \/ Works
  PROVE  failed \subseteq failed' /\ failed' \subseteq (0..Len(log)) \X Calls
BY DEF Fails, Works, FailedOK

(* The steps that write to none of the tables but actions. *)
Quiet ==
  \/ Begin \/ DecodeData \/ ThrowOut \/ InsertAction \/ NothingToWrite \/ NewAccount
  \/ NextPermission

LEMMA InHandEntry ==
  ASSUME LogInv, pos \in 1..Len(log)
  PROVE  InHand \in Entries /\ WellMade(InHand)
BY LogEntries DEF InHand

LEMMA ThrowOutFailed ==
  ASSUME LogInv, PlaceOK, FailedOK, ThrowOut
  PROVE  /\ pos' \in Nat /\ pos < pos' /\ pos' <= Len(log) + 1
         /\ failed \subseteq failed' /\ failed' \subseteq (0..Len(log)) \X Calls
         /\ \A i \in pos..(pos' - 1), call \in Calls : <<i, call>> \in failed'
<1>1. Len(log) \in Nat /\ pos \in Nat \ {0}
  BY Places
<1>2. /\ pos' \in (pos + 1)..(Len(log) + 1)
      /\ failed' = failed \cup ((pos..(pos' - 1)) \X Calls)
  BY DEF ThrowOut, NextPos
<1>3. pos' \in Nat /\ pos < pos' /\ pos' <= Len(log) + 1
  BY <1>1, <1>2
<1>4. \A i \in pos..(pos' - 1) : i \in 0..Len(log)
  <2>1. PICK m \in Nat : m = Len(log)
    BY <1>1
  <2>2. PICK n \in Nat : n = pos'
    BY <1>3
  <2>3. PICK l \in Nat : l = pos
    BY <1>1
  <2>4. n <= m + 1
    BY <1>3, <2>1, <2>2
  <2>5. \A i \in l..(n - 1) : i \in 0..m
    BY <2>4
  <2> QED
    BY <2>1, <2>2, <2>3, <2>5
<1> QED
  BY <1>2, <1>3, <1>4 DEF FailedOK

LEMMA RestartFailed ==
  ASSUME LogInv, PlaceOK, FailedOK, NEW replay \in BOOLEAN, Restart(replay)
  PROVE  /\ pos' = Len(log) + 1 /\ pos <= pos'
         /\ failed \subseteq failed' /\ failed' \subseteq (0..Len(log)) \X Calls
         /\ \A i \in pos..(pos' - 1), call \in Calls : <<i, call>> \in failed'
<1>1. Len(log) \in Nat /\ pos \in Nat \ {0} /\ pos <= Len(log) + 1
  BY Places
<1>2. pos' = Len(log) + 1 /\ failed' = failed \cup ((pos..Len(log)) \X Calls)
  BY DEF Restart
<1>3. \A i \in pos..Len(log) : i \in 0..Len(log)
  BY <1>1
<1>4. pos' - 1 = Len(log)
  BY <1>1, <1>2
<1> QED
  BY <1>1, <1>2, <1>3, <1>4 DEF FailedOK

LEMMA QuietTypes ==
  ASSUME LogInv, PlaceOK, StageOK, FailedOK, Quiet,
         pc \in Permissions => InHand.name = "newaccount"
  PROVE  /\ PlaceOK' /\ StageOK' /\ FailedOK' /\ Moves
         /\ UNCHANGED <<chain, abi, side>>
<1>1. Len(log) \in Nat /\ pos \in Nat \ {0} /\ pos <= Len(log) + 1
  BY Places
<1>2. "insert" \in Calls /\ "parse_actions" \in Calls /\ "add_data" \in Calls
  BY DEF Calls
<1>3. UNCHANGED <<chain, abi, side>> /\ log' = log
  BY DEF Quiet, Begin, DecodeData, ThrowOut, InsertAction, NothingToWrite, NewAccount,
         NextPermission, chain
<1>4. CASE Begin
  <2>1. pos' = pos \/ (pos' = pos + 1 /\ pc' = "idle")
    BY <1>4 DEF Begin, Goto, Done, NextPos
  <2>2. pos \in 1..Len(log)
    BY <1>1, <1>4 DEF Begin
  <2>3. PlaceOK' /\ pos' \in Nat /\ pos <= pos' /\ pos' <= Len(log) + 1
    BY <1>1, <1>3, <2>1, <2>2 DEF PlaceOK
  <2>4. StageOK'
    BY <1>4 DEF Begin, StageOK, Goto, Done, Calls
  <2> QED
    BY <1>3, <1>4, <2>3, <2>4 DEF Begin, Moves, FailedOK
<1>5. CASE DecodeData
  <2>1. pc # "idle" /\ pos' = pos /\ (Fails("add_data") \/ Works)
    BY <1>5 DEF DecodeData, Goto
  <2>2. PlaceOK' /\ pos' \in Nat /\ pos <= pos' /\ pos' <= Len(log) + 1
    BY <1>3, <2>1, StaysOrEnds
  <2>3. failed \subseteq failed' /\ failed' \subseteq (0..Len(log)) \X Calls
    BY <1>2, <2>1, Places, FailsOrWorks
  <2>4. StageOK'
    BY <1>5 DEF DecodeData, StageOK, Goto, Calls, Readings
  <2> QED
    BY <1>3, <2>2, <2>3, <2>4 DEF Moves, FailedOK
<1>6. CASE ThrowOut
  <2>1. StageOK' /\ pc' = "idle"
    BY <1>6 DEF ThrowOut, StageOK
  <2>2. PlaceOK' /\ Moves
    BY <1>1, <1>3, <1>6, <2>1, ThrowOutFailed DEF PlaceOK, Moves
  <2> QED
    BY <1>3, <1>6, <2>1, <2>2, ThrowOutFailed DEF FailedOK
<1>7. CASE InsertAction
  <2>1. pc # "idle" /\ pos' = pos /\ (Fails("insert") \/ Works)
    BY <1>7 DEF InsertAction, Goto
  <2>2. PlaceOK' /\ pos' \in Nat /\ pos <= pos' /\ pos' <= Len(log) + 1
    BY <1>3, <2>1, StaysOrEnds
  <2>3. failed \subseteq failed' /\ failed' \subseteq (0..Len(log)) \X Calls
    BY <1>2, <2>1, Places, FailsOrWorks
  <2>4. StageOK'
    BY <1>7 DEF InsertAction, StageOK, Goto, Calls
  <2> QED
    BY <1>3, <2>2, <2>3, <2>4 DEF Moves, FailedOK
<1>8. CASE NothingToWrite
  <2>1. pc # "idle" /\ pos' = pos + 1 /\ pc' = "idle" /\ (Fails("parse_actions") \/ Works)
    BY <1>8 DEF NothingToWrite, Done, NextPos
  <2>2. PlaceOK' /\ pos' \in Nat /\ pos <= pos' /\ pos' <= Len(log) + 1
    BY <1>3, <2>1, StaysOrEnds
  <2>3. failed \subseteq failed' /\ failed' \subseteq (0..Len(log)) \X Calls
    BY <1>2, <2>1, Places, FailsOrWorks
  <2>4. StageOK'
    BY <1>8 DEF NothingToWrite, StageOK, Done
  <2> QED
    BY <1>3, <2>2, <2>3, <2>4 DEF Moves, FailedOK
<1>9. CASE NewAccount
  <2>1. pc # "idle" /\ pos' = pos /\ InHand.name = "newaccount"
    BY <1>9 DEF NewAccount, Parsing, Goto
  <2>2. InHand.value["owner"] \in Nat
    BY <2>1, Places, InHandEntry DEF WellMade, Counts, Permissions
  <2>3. PlaceOK' /\ pos' \in Nat /\ pos <= pos' /\ pos' <= Len(log) + 1
    BY <1>3, <2>1, StaysOrEnds
  <2>4. StageOK'
    BY <1>9, <2>2 DEF NewAccount, StageOK, Goto, FirstOfAccount
  <2> QED
    BY <1>3, <1>9, <2>3, <2>4 DEF NewAccount, Works, Moves, FailedOK
<1>10. CASE NextPermission
  <2>1. pc # "idle" /\ (pos' = pos \/ (pos' = pos + 1 /\ pc' = "idle"))
    BY <1>10 DEF NextPermission, Goto, Done, NextPos, Permissions
  <2>2. PlaceOK' /\ pos' \in Nat /\ pos <= pos' /\ pos' <= Len(log) + 1
    BY <1>3, <2>1, StaysOrEnds
  <2>3. pc = "owner" /\ InHand.name = "newaccount" => StageOK'
    <3>1. ASSUME InHand.name = "newaccount" PROVE InHand.value["active"] \in Nat
      BY <2>1, <3>1, Places, InHandEntry DEF WellMade, Counts, Permissions
    <3> QED
      BY <1>10, <3>1 DEF NextPermission, StageOK, Goto, Permissions
  <2>4. pc = "active" => StageOK'
    BY <1>10 DEF NextPermission, StageOK, Done
  <2>5. pc \in Permissions
    BY <1>10 DEF NextPermission
  <2> QED
    BY <1>3, <1>10, <2>2, <2>3, <2>4, <2>5 DEF NextPermission, Moves, FailedOK, Permissions
<1> QED
  BY <1>3, <1>4, <1>5, <1>6, <1>7, <1>8, <1>9, <1>10 DEF Quiet

(* The steps that write to one of the other tables. *)
Writing ==
  \/ StoreAbi \/ AccountRow \/ (\E p \in Permissions : KeyRow(p))
  \/ VoteProducer \/ Propose \/ CancelOrExec \/ Create

LEMMA WritingMoves ==
  ASSUME LogInv, PlaceOK, StageOK, FailedOK, Writing
  PROVE  PlaceOK' /\ StageOK' /\ FailedOK' /\ Moves /\ UNCHANGED <<chain, actions>>
<1>1. UNCHANGED <<chain, actions>> /\ log' = log
  BY DEF Writing, StoreAbi, AccountRow, KeyRow, VoteProducer, Propose, CancelOrExec, Create,
         chain
<1>2. pc # "idle" /\ (pos' = pos \/ (pos' = pos + 1 /\ pc' = "idle"))
  BY DEF Writing, StoreAbi, AccountRow, KeyRow, VoteProducer, Propose, CancelOrExec, Create,
         Permissions, Parsing, Goto, Done, NextPos
<1>3. PlaceOK' /\ pos' \in Nat /\ pos <= pos' /\ pos' <= Len(log) + 1
  BY <1>1, <1>2, StaysOrEnds
<1>4. Fails("add_data") \/ Fails("parse_actions") \/ Works
  BY DEF Writing, StoreAbi, AccountRow, KeyRow, VoteProducer, Propose, CancelOrExec, Create
<1>5. failed \subseteq failed' /\ failed' \subseteq (0..Len(log)) \X Calls
  BY <1>2, <1>4, Places, FailsOrWorks DEF Calls
<1>6. pc' \in {"idle", "account"} \cup Calls \cup Permissions
  BY DEF Writing, StoreAbi, AccountRow, KeyRow, VoteProducer, Propose, CancelOrExec, Create,
         Goto, Done, Calls, Permissions
<1>7. data' \in {"right", "junk", "{}"}
  BY DEF Writing, StoreAbi, AccountRow, KeyRow, VoteProducer, Propose, CancelOrExec, Create,
         StageOK
<1>8. left' \in Nat
  <2>1. CASE \E p \in Permissions : KeyRow(p)
    <3>1. left \in Nat /\ left > 0
      BY <2>1 DEF KeyRow, StageOK
    <3>2. PICK l \in Nat : l = left
      BY <3>1
    <3>3. l - 1 \in Nat
      BY <3>1, <3>2
    <3>4. left' = l - 1 \/ left' = 0
      BY <2>1, <3>2 DEF KeyRow
    <3> QED
      BY <3>3, <3>4
  <2>2. CASE StoreAbi \/ AccountRow \/ VoteProducer \/ Propose \/ CancelOrExec \/ Create
    <3>1. left' = left \/ left' = 0
      BY <2>2 DEF StoreAbi, AccountRow, VoteProducer, Propose, CancelOrExec, Create
    <3>2. left \in Nat /\ 0 \in Nat
      BY DEF StageOK
    <3> QED
      BY <3>1, <3>2
  <2> QED
    BY <2>1, <2>2 DEF Writing
<1> QED
  BY <1>1, <1>3, <1>5, <1>6, <1>7, <1>8 DEF StageOK, FailedOK, Moves

LEMMA NextIdType ==
  ASSUME TablesOK, NEW b \in Nat, \A s \in Symbols : assets[s] <= b
  PROVE  NextId \in Nat /\ \A s \in Symbols : assets[s] < NextId
<1> DEFINE S == {0} \cup {assets[s] : s \in Symbols}
<1>1. \A s \in Symbols : assets[s] \in Nat
  BY DEF TablesOK
<1>2. S \subseteq 0..b /\ S # {}
  BY <1>1
<1>3. \A s \in Symbols : assets[s] \in S
  OBVIOUS
<1>4. NextId = 1 + Max(S)
  BY DEF NextId
<1> HIDE DEF S
<1>5. Max(S) \in S /\ \A k \in S : k <= Max(S)
  BY <1>2, Greatest
<1>6. PICK m : m = Max(S)
  OBVIOUS
<1>7. m \in 0..b
  BY <1>2, <1>5, <1>6
<1>8. m \in Nat /\ \A k \in S : k <= m
  BY <1>5, <1>6, <1>7
<1> QED
  BY <1>1, <1>3, <1>4, <1>6, <1>8

Bounded == \E b \in Nat : \A s \in Symbols : assets[s] <= b

LEMMA WritingTables ==
  ASSUME LogInv, PlaceOK, TablesOK, Bounded, Writing
  PROVE  TablesOK'
<1>1. pc # "idle" /\ log' = log /\ actions' = actions
  BY DEF Writing, StoreAbi, AccountRow, KeyRow, VoteProducer, Propose, CancelOrExec, Create,
         Permissions, Parsing, chain
<1>2. InHand \in Entries /\ WellMade(InHand)
  BY <1>1, Places, InHandEntry
<1>3. abi' \in [Owners -> AnyAbi]
  <2>1. StoreAbi => abi' = abi \/ abi' = [abi EXCEPT ![InHand.target] = InHand.value]
    BY DEF StoreAbi
  <2>2. StoreAbi => InHand.value \in AnyAbi
    BY <1>2 DEF StoreAbi, CarriesAbi, WellMade, AnyAbi
  <2>3. ~StoreAbi => abi' = abi
    BY DEF Writing, AccountRow, KeyRow, VoteProducer, Propose, CancelOrExec, Create
  <2> QED
    BY <2>1, <2>2, <2>3 DEF TablesOK
<1>4. account' \in BOOLEAN
  BY DEF Writing, StoreAbi, AccountRow, KeyRow, VoteProducer, Propose, CancelOrExec, Create,
         TablesOK, side
<1>5. keys' \in [Permissions -> Nat]
  <2>1. ASSUME NEW p \in Permissions, KeyRow(p) PROVE keys' \in [Permissions -> Nat]
    <3>1. keys \in [Permissions -> Nat] /\ keys[p] \in Nat
      BY DEF TablesOK
    <3>2. keys' = keys \/ keys' = [keys EXCEPT ![p] = keys[p] + 1]
      BY <2>1 DEF KeyRow
    <3> QED
      BY <3>1, <3>2
  <2>2. CASE ~(\E p \in Permissions : KeyRow(p))
    BY <2>2 DEF Writing, StoreAbi, AccountRow, VoteProducer, Propose, CancelOrExec, Create,
                TablesOK, side
  <2> QED
    BY <2>1, <2>2
<1>6. votes' \in [Voters -> Producers \cup {None}]
  <2>1. VoteProducer => InHand.value \in Producers
    BY <1>2 DEF VoteProducer, Parsing, WellMade
  <2>2. VoteProducer =>
          \/ votes' = votes
          \/ \E v \in Voters \cup {InHand.target}, x \in Producers :
               votes' = [votes EXCEPT ![v] = x]
    BY <2>1 DEF VoteProducer
  <2>3. ~VoteProducer => votes' = votes
    BY DEF Writing, StoreAbi, AccountRow, KeyRow, Propose, CancelOrExec, Create, side
  <2> QED
    BY <2>2, <2>3 DEF TablesOK
<1>7. proposal' \in [Proposals -> Requests \cup {None}]
  <2>1. Propose => InHand.value \in Requests
    BY <1>2 DEF Propose, Parsing, WellMade
  <2>2. Propose \/ CancelOrExec =>
          \/ proposal' = proposal
          \/ \E p \in Proposals \cup {InHand.target}, r \in Requests \cup {None} :
               proposal' = [proposal EXCEPT ![p] = r]
    BY <2>1 DEF Propose, CancelOrExec
  <2>3. ~(Propose \/ CancelOrExec) => proposal' = proposal
    BY DEF Writing, StoreAbi, AccountRow, KeyRow, VoteProducer, Create, side
  <2> QED
    BY <2>2, <2>3 DEF TablesOK
<1>8. assets' \in [Symbols -> Nat]
  <2>1. NextId \in Nat
    BY NextIdType DEF Bounded
  <2>2. Create => assets' = assets \/ \E s : assets' = [assets EXCEPT ![s] = NextId]
    BY DEF Create, Replaced
  <2>3. ~Create => assets' = assets
    BY DEF Writing, StoreAbi, AccountRow, KeyRow, VoteProducer, Propose, CancelOrExec, side
  <2> QED
    BY <2>1, <2>2, <2>3 DEF TablesOK
<1>9. actions' \subseteq [at : DOMAIN log', data : {"right", "junk", "{}"}]
  BY <1>1 DEF TablesOK
<1> QED
  BY <1>3, <1>4, <1>5, <1>6, <1>7, <1>8, <1>9 DEF TablesOK

-----------------------------------------------------------------------------
(* Every step, and how the worker leaves actions behind.                   *)

ChainStep == Execute \/ Undo \/ UNCHANGED vars

LEMMA Steps ==
  ASSUME [Next]_vars
  PROVE  ChainStep \/ Quiet \/ Writing \/ \E replay \in BOOLEAN : Restart(replay)
BY DEF Next, ChainStep, Quiet, Writing

worker == <<pos, pc, data, left, abi, side, actions, failed>>

LEMMA ChainStepFacts ==
  ASSUME TypeOK, LogInv, ChainStep
  PROVE  ChainFacts /\ UNCHANGED worker
<1>1. CASE UNCHANGED vars
  <2>1. UNCHANGED <<log, branch>> /\ UNCHANGED worker
    BY <1>1 DEF vars, worker, side
  <2>2. branch \in Seq(DOMAIN log)
    BY DEF TypeOK
  <2> QED
    BY <2>1, <2>2, LogEntries DEF ChainFacts, LogInv
<1>2. Execute \/ Undo => UNCHANGED worker
  BY DEF Execute, Undo, worker
<1> QED
  BY <1>1, <1>2, ExecuteChain, UndoChain DEF ChainStep

(* A place of the log stays one. *)
LEMMA PlacesStay ==
  ASSUME LogInv, ChainFacts
  PROVE  /\ FailedOK => failed \subseteq (0..Len(log')) \X Calls
         /\ TablesOK => actions \subseteq [at : DOMAIN log', data : {"right", "junk", "{}"}]
<1>1. Len(log) \in Nat /\ DOMAIN log = 1..Len(log)
  BY LogEntries, SMTT(30)
<1>2. PICK m \in Nat : m = Len(log)
  BY <1>1
<1>3. PICK n \in Nat : n = Len(log')
  BY DEF ChainFacts
<1>4. m <= n /\ DOMAIN log = 1..m /\ DOMAIN log' = 1..n
  BY <1>1, <1>2, <1>3 DEF ChainFacts
<1>5. 1..m \subseteq 1..n /\ 0..m \subseteq 0..n
  BY <1>4
<1> QED
  BY <1>2, <1>3, <1>4, <1>5 DEF FailedOK, TablesOK

LEMMA StepTypes ==
  ASSUME TypeOK, LogInv, Bounded, pc \in Permissions => InHand.name = "newaccount",
         [Next]_vars
  PROVE  TypeOK' /\ ChainFacts /\ Grows /\ pos' \in Nat /\ pos <= pos' /\ pos' <= Len(log) + 1
<1>1. branch \in Seq(DOMAIN log) /\ PlaceOK /\ StageOK /\ TablesOK /\ FailedOK
  BY TypeParts
<1>2. Len(log) \in Nat /\ DOMAIN log = 1..Len(log) /\ pos \in Nat \ {0}
      /\ pos <= Len(log) + 1
  BY <1>1, Places, LogEntries
<1>3. UNCHANGED chain => ChainFacts
  <2> SUFFICES ASSUME UNCHANGED chain PROVE ChainFacts
    OBVIOUS
  <2>1. log' = log /\ branch' = branch
    BY DEF chain
  <2> QED
    BY <1>1, <1>2, <2>1 DEF ChainFacts, LogInv
<1>4. ASSUME ChainFacts, PlaceOK', StageOK', TablesOK', FailedOK',
             failed \subseteq failed', pos' \in Nat, pos <= pos', pos' <= Len(log) + 1
      PROVE  TypeOK' /\ ChainFacts /\ Grows /\ pos' \in Nat /\ pos <= pos' /\ pos' <= Len(log) + 1
  <2>1. TypeOK'
    BY <1>4 DEF ChainFacts, TypeOK, PlaceOK, StageOK, TablesOK, FailedOK, AnyAbi
  <2> QED
    BY <1>4, <2>1 DEF ChainFacts, Grows
<1>5. CASE ChainStep
  <2>1. ChainFacts /\ UNCHANGED worker
    BY <1>5, ChainStepFacts
  <2>2. PlaceOK'
    <3>1. pos' = pos /\ pc' = pc /\ Len(log) <= Len(log') /\ Len(log') \in Nat
      BY <2>1, SMTT(30) DEF worker, ChainFacts
    <3>2. PICK m \in Nat : m = Len(log)
      BY <1>2
    <3>3. PICK n \in Nat : n = Len(log')
      BY <3>1
    <3>4. pos \in 1..(m + 1) /\ m <= n /\ (pc # "idle" => pos <= m)
      BY <1>1, <3>1, <3>2, <3>3 DEF PlaceOK
    <3>5. pos \in 1..(n + 1) /\ (pos <= m => pos <= n)
      BY <1>2, <3>4
    <3> QED
      BY <3>1, <3>3, <3>4, <3>5 DEF PlaceOK
  <2>3. StageOK' /\ failed' = failed /\ pos' = pos
    BY <1>1, <2>1 DEF worker, StageOK
  <2>4. TablesOK'
    BY <1>1, <2>1, PlacesStay DEF worker, side, TablesOK
  <2>5. FailedOK'
    BY <1>1, <2>1, <2>3, PlacesStay DEF FailedOK
  <2> QED
    BY <1>2, <1>4, <2>1, <2>2, <2>3, <2>4, <2>5
<1>6. CASE Quiet
  <2>1. PlaceOK' /\ StageOK' /\ FailedOK' /\ Moves /\ UNCHANGED <<chain, abi, side>>
    BY <1>1, <1>6, QuietTypes
  <2>2. ChainFacts /\ log' = log
    BY <1>3, <2>1 DEF chain
  <2>3. actions' = actions \/ actions' = actions \cup {[at |-> pos, data |-> data]}
    BY <1>6 DEF Quiet, Begin, DecodeData, ThrowOut, InsertAction, NothingToWrite, NewAccount,
                NextPermission
  <2>4. actions' # actions => pos \in DOMAIN log /\ data \in {"right", "junk", "{}"}
    <3>1. actions' # actions => pc = "insert"
      BY <1>6 DEF Quiet, Begin, DecodeData, ThrowOut, InsertAction, NothingToWrite,
                  NewAccount, NextPermission
    <3> QED
      BY <1>1, <1>2, <3>1, Places DEF StageOK
  <2>5. actions' \subseteq [at : DOMAIN log', data : {"right", "junk", "{}"}]
    <3> DEFINE R == [at : DOMAIN log, data : {"right", "junk", "{}"}]
    <3>1. actions \subseteq R
      BY <1>1 DEF TablesOK
    <3>2. actions' # actions => [at |-> pos, data |-> data] \in R
      BY <2>4
    <3>3. actions' \subseteq R
      <4> HIDE DEF R
      <4> QED
        BY <2>3, <3>1, <3>2
    <3> QED
      BY <2>2, <3>3
  <2>6. TablesOK'
    BY <1>1, <2>1, <2>5 DEF TablesOK, side
  <2> QED
    BY <1>4, <2>1, <2>2, <2>6 DEF Moves
<1>7. CASE Writing
  <2>1. PlaceOK' /\ StageOK' /\ FailedOK' /\ Moves /\ UNCHANGED <<chain, actions>>
    BY <1>1, <1>7, WritingMoves
  <2>2. TablesOK'
    BY <1>1, <1>7, WritingTables
  <2> QED
    BY <1>3, <1>4, <2>1, <2>2 DEF Moves, chain
<1>8. ASSUME NEW replay \in BOOLEAN, Restart(replay)
      PROVE  TypeOK' /\ ChainFacts /\ Grows /\ pos' \in Nat /\ pos <= pos' /\ pos' <= Len(log) + 1
  <2>1. ChainFacts
    BY <1>8, RestartChain
  <2>2. /\ pos' = Len(log) + 1 /\ pos <= pos'
        /\ failed \subseteq failed' /\ failed' \subseteq (0..Len(log)) \X Calls
    BY <1>1, <1>8, RestartFailed
  <2>3. pc' = "idle" /\ UNCHANGED <<side, actions>> /\ StageOK'
    BY <1>8 DEF Restart, StageOK
  <2>4. PICK m \in Nat : m = Len(log)
    BY <1>2
  <2>5. PICK n \in Nat : n = Len(log')
    BY <2>1 DEF ChainFacts
  <2>6. m <= n /\ pos' = m + 1 /\ pos' <= Len(log) + 1
    BY <2>1, <2>2, <2>4, <2>5 DEF ChainFacts
  <2>7. m + 1 \in 1..(n + 1) /\ 0..m \subseteq 0..n /\ m + 1 \in Nat
    BY <2>6
  <2>8. PlaceOK'
    BY <2>3, <2>5, <2>6, <2>7 DEF PlaceOK
  <2>9. FailedOK'
    <3>1. (0..m) \X Calls \subseteq (0..n) \X Calls
      BY <2>7
    <3>2. failed' \subseteq (0..n) \X Calls
      BY <2>2, <2>4, <3>1
    <3> QED
      BY <2>5, <3>2 DEF FailedOK
  <2>10. abi' \in [Owners -> AnyAbi]
    <3>1. abi' = abi \/ abi' = [abi EXCEPT !["eosio"] = IF @ = None THEN BuiltIn ELSE @]
      BY <1>8 DEF Restart
    <3> QED
      BY <1>1, <3>1 DEF TablesOK, AnyAbi
  <2>11. TablesOK'
    <3>1. actions' \subseteq [at : DOMAIN log', data : {"right", "junk", "{}"}]
      BY <1>1, <2>1, <2>3, PlacesStay
    <3> QED
      BY <1>1, <2>3, <2>10, <3>1 DEF TablesOK, side
  <2> QED
    BY <1>4, <2>1, <2>2, <2>3, <2>6, <2>7, <2>8, <2>9, <2>11
<1> QED
  BY <1>5, <1>6, <1>7, <1>8, Steps

(* What the table says of the ABI, when the last setabi before the action  *)
(* in hand stored the one this action was executed under.                  *)
LEMMA ReadRight ==
  ASSUME TypeOK, LogInv, pc # "idle", KnowsAbiOf(pos),
         AbiFollows(pos) \/ (AbiFollows(pos + 1) /\ InHand.name # "setabi")
  PROVE  Readings(KnownAbi) = {"right"} /\ Readings(ParseAbi) = {"right"}
<1>1. Len(log) \in Nat /\ pos \in Nat \ {0} /\ pos \in 1..Len(log)
  BY TypeParts, Places
<1>2. InHand \in Entries /\ InHand = log[pos]
  BY <1>1, InHandEntry DEF InHand
<1>3. PICK c : c = InHand.account
  OBVIOUS
<1>4. c \in Owners
  BY <1>2, <1>3 DEF Entries
<1>5. PICK k : k = LastAbout({"setabi"}, c, pos)
  OBVIOUS
<1>6. Stored(k) /\ AbiAfter(c, k) = InHand.under /\ Describes(InHand.under, InHand)
  BY <1>2, <1>3, <1>5 DEF KnowsAbiOf
<1>7. InHand.name # "setabi" => k = LastAbout({"setabi"}, c, pos + 1)
  <2> SUFFICES ASSUME InHand.name # "setabi" PROVE k = LastAbout({"setabi"}, c, pos + 1)
    OBVIOUS
  <2>1. /\ k \in 0..(pos - 1)
        /\ k > 0 => log[k].name \in {"setabi"} /\ log[k].target = c
        /\ \A j \in 1..(pos - 1) : log[j].name \in {"setabi"} /\ log[j].target = c => j <= k
    BY <1>1, <1>5, LastPlace
  <2>2. pos + 1 \in Nat \ {0} /\ k \in 0..((pos + 1) - 1)
    BY <1>1, <2>1
  <2>3. \A j \in 1..((pos + 1) - 1) : j \in 1..(pos - 1) \/ j = pos
    BY <1>1
  <2>4. \A j \in 1..((pos + 1) - 1) :
          log[j].name \in {"setabi"} /\ log[j].target = c => j <= k
    BY <1>2, <2>1, <2>3
  <2> QED
    BY <2>1, <2>2, <2>4, LastIs
<1>8. abi[c] = AbiAfter(c, k)
  BY <1>4, <1>5, <1>6, <1>7 DEF AbiFollows
<1>9. KnownAbi = InHand.under
  BY <1>3, <1>6, <1>8 DEF KnownAbi
<1>10. ParseAbi = InHand.under
  BY <1>6, <1>9 DEF ParseAbi, Describes
<1> QED
  BY <1>6, <1>9, <1>10 DEF Readings

(* While parse_actions is at an action that is no setabi. *)
LEMMA ParsedRight ==
  ASSUME IInv, pc = "parse_actions", InHand.name # "setabi", KnowsAbiOf(pos)
  PROVE  Readings(ParseAbi) = {"right"}
<1>1. AbiFollows(pos + 1)
  BY DEF IInv, AbiPlace, Decoded, Inserted
<1> QED
  BY <1>1, ReadRight DEF IInv

Ends(name) == pc # "idle" /\ pos' = pos + 1 /\ pc' = "idle" /\ InHand.name = name

(* Which actions the worker leaves behind written. *)
LeftWritten ==
  \/ Ends("setabi") /\ NothingToWrite
  \/ Ends("newaccount") /\ NextPermission
  \/ Ends("voteproducer") /\ VoteProducer
  \/ Ends("propose") /\ Propose
  \/ Ends("cancel") /\ CancelOrExec
  \/ Ends("exec") /\ CancelOrExec
  \/ Ends("create") /\ Create

LEMMA InvFacts ==
  ASSUME IInv
  PROVE  /\ TypeOK /\ LogInv /\ PlaceOK /\ StageOK /\ TablesOK /\ FailedOK /\ Bounded
         /\ pc \in Permissions => InHand.name = "newaccount"
         /\ Len(log) \in Nat /\ DOMAIN log = 1..Len(log)
         /\ pos \in Nat \ {0} /\ pos \in 1..(Len(log) + 1) /\ pos <= Len(log) + 1
         /\ pc # "idle" => pos \in 1..Len(log) /\ Handed(pos)
<1>1. TypeOK /\ LogInv /\ Bounded
  BY DEF IInv, RowsInv, Bounded
<1>2. PlaceOK /\ StageOK /\ TablesOK /\ FailedOK
  BY <1>1, TypeParts
<1>3. pc # "idle" => Handed(pos)
  BY DEF IInv, InHandInv
<1>4. pc \in Permissions => InHand.name = "newaccount"
  BY DEF IInv, InHandInv, AddingKeys
<1> QED
  BY <1>1, <1>2, <1>3, <1>4, Places, LogEntries DEF PlaceOK

LEMMA StepFacts ==
  ASSUME IInv, [Next]_vars
  PROVE  /\ TypeOK' /\ ChainFacts /\ LogInv' /\ Grows
         /\ pos' \in Nat /\ pos <= pos' /\ pos' <= Len(log) + 1
BY InvFacts, StepTypes DEF ChainFacts

(* Arithmetic of places. *)
LEMMA Between ==
  \A l, n \in Nat : \A i \in l..(n - 1) : i \in Nat /\ i < n /\ l <= i
OBVIOUS

LEMMA Below ==
  \A m, n \in Nat : 0 < m /\ m < n => m \in 1..(n - 1)
OBVIOUS

LEMMA LaterPlace ==
  ASSUME NEW n \in Nat, NEW m \in Nat \ {0}, NEW i \in 0..(n - 1), m <= i
  PROVE  i > 0 /\ i \in m..(n - 1)
OBVIOUS

LEMMA InSlice ==
  \A l, n, j \in Nat : l <= j /\ j < n => j \in l..(n - 1)
OBVIOUS

LEMMA LeftBehind ==
  ASSUME IInv, [Next]_vars, NEW n \in Nat, n = pos', NEW i \in pos..(n - 1), Written(i)'
  PROVE  i = pos /\ LeftWritten
<1>1. Len(log) \in Nat /\ pos \in Nat \ {0} /\ i \in Nat /\ i < n /\ pos <= i
  <2>1. Len(log) \in Nat /\ pos \in Nat \ {0}
    BY InvFacts
  <2>2. PICK l \in Nat : l = pos
    BY <2>1
  <2>3. i \in l..(n - 1)
    BY <2>2
  <2>4. i \in Nat /\ i < n /\ l <= i
    BY <2>3, Between
  <2> QED
    BY <2>1, <2>2, <2>4
<1>2. <<i, "parse_actions">> \notin failed' /\ Handed(i)'
  BY DEF Written
<1>3. "parse_actions" \in Calls
  BY DEF Calls
<1>4. pos' # pos
  BY <1>1
<1>5. pos' = pos + 1 => i = pos
  BY <1>1
<1>6. ~ChainStep
  <2>1. ChainStep => UNCHANGED worker
    BY InvFacts, ChainStepFacts
  <2> QED
    BY <1>4, <2>1 DEF worker
<1>7. ~(\E replay \in BOOLEAN : Restart(replay))
  BY <1>2, <1>3, InvFacts, RestartFailed
<1>8. ~ThrowOut
  BY <1>2, <1>3, InvFacts, ThrowOutFailed
<1>9. ~Begin
  <2> SUFFICES ASSUME Begin PROVE FALSE
    OBVIOUS
  <2>1. pos \in 1..Len(log)
    BY <1>1 DEF Begin
  <2>2. ~Handed(pos) /\ i = pos
    BY <1>4, <1>5 DEF Begin, Goto, Done, NextPos
  <2>3. ~Handed(i)'
    BY <2>1, <2>2, StepFacts, InvFacts, Harder
  <2> QED
    BY <1>2, <2>3
<1>10. CASE NothingToWrite
  <2>1. pc = "parse_actions" /\ pos' = pos + 1 /\ pc' = "idle"
    BY <1>10 DEF NothingToWrite, Done, NextPos
  <2>2. i = pos /\ pos \in 1..Len(log)
    BY <1>5, <2>1, InvFacts
  <2>3. ~Fails("parse_actions")
    BY <1>2, <2>2 DEF Fails
  <2>4. KnowsAbiOf(pos)
    BY <2>2, StepFacts, InvFacts, Harder DEF Written
  <2>5. InHand.name = "setabi"
    <3> SUFFICES ASSUME InHand.name # "setabi" PROVE FALSE
      OBVIOUS
    <3>1. Readings(ParseAbi) = {"right"}
      BY <2>1, <2>4, ParsedRight
    <3>2. "{}" \in Readings(ParseAbi)
      BY <1>10, <2>3 DEF NothingToWrite
    <3> QED
      BY <3>1, <3>2
  <2> QED
    BY <1>10, <2>1, <2>2, <2>5 DEF LeftWritten, Ends
<1>11. CASE NextPermission
  <2>1. pc \in Permissions /\ pc # "idle" /\ pos' = pos + 1 /\ pc' = "idle"
    BY <1>4, <1>11 DEF NextPermission, Goto, Done, NextPos, Permissions
  <2> QED
    BY <1>5, <1>11, <2>1, InvFacts DEF LeftWritten, Ends
<1>12. ~(DecodeData \/ InsertAction \/ NewAccount \/ StoreAbi)
  BY <1>4 DEF DecodeData, InsertAction, NewAccount, StoreAbi, Goto
<1>13. ~(AccountRow \/ \E p \in Permissions : KeyRow(p))
  <2> SUFFICES ASSUME AccountRow \/ \E p \in Permissions : KeyRow(p) PROVE FALSE
    OBVIOUS
  <2>1. Fails("parse_actions") /\ Done
    BY <1>4 DEF AccountRow, KeyRow, Goto
  <2>2. i = pos
    BY <1>5, <2>1 DEF Done, NextPos
  <2> QED
    BY <1>2, <2>1, <2>2 DEF Fails
<1>14. CASE VoteProducer
  BY <1>5, <1>14 DEF VoteProducer, Parsing, Done, NextPos, LeftWritten, Ends
<1>15. CASE Propose
  BY <1>5, <1>15 DEF Propose, Parsing, Done, NextPos, LeftWritten, Ends
<1>16. CASE CancelOrExec
  BY <1>5, <1>16 DEF CancelOrExec, Parsing, Done, NextPos, LeftWritten, Ends
<1>17. CASE Create
  BY <1>5, <1>17 DEF Create, Parsing, Done, NextPos, LeftWritten, Ends
<1> QED
  BY <1>6, <1>7, <1>8, <1>9, <1>10, <1>11, <1>12, <1>13, <1>14, <1>15, <1>16, <1>17, Steps
  DEF Quiet, Writing

-----------------------------------------------------------------------------
(* The rows.                                                               *)

(* Kept: what is not hidden after the step was not before it and is the    *)
(* same, when no action about the row is left behind written.              *)
LEMMA Kept ==
  ASSUME IInv, [Next]_vars, NEW names, NEW target,
         ~(LeftWritten /\ InHand.name \in names /\ InHand.target = target),
         NEW n \in Nat, n = pos', Clear(names, target, n)'
  PROVE  /\ Clear(names, target, pos)
         /\ LastAbout(names, target, n)' = LastAbout(names, target, pos)
         /\ Said(names, target, n)' = Said(names, target, pos)
<1>1. Grows /\ LogInv /\ Len(log) \in Nat /\ pos \in 1..(Len(log) + 1) /\ pos <= n
  BY StepFacts, InvFacts
<1>2. CASE n <= Len(log) + 1
  <2>1. PICK m \in 1..(Len(log) + 1) : m = pos
    BY <1>1
  <2>2. n \in m..(Len(log) + 1)
    BY <1>1, <1>2, <2>1
  <2>3. \A j \in m..(n - 1) :
          log[j].name \in names /\ log[j].target = target => ~Written(j)'
    <3> SUFFICES ASSUME NEW j \in m..(n - 1), Written(j)'
                 PROVE  ~(log[j].name \in names /\ log[j].target = target)
      OBVIOUS
    <3>1. j \in pos..(n - 1)
      BY <2>1
    <3>2. j = pos /\ LeftWritten
      BY <3>1, LeftBehind
    <3> QED
      BY <3>2 DEF InHand
  <2> QED
    BY <1>1, <2>1, <2>2, <2>3, ClearBefore
<1>3. n <= Len(log) + 1
  BY StepFacts
<1> QED
  BY <1>2, <1>3

(* Reached: what is said of the action that is left behind, when nothing    *)
(* hides it; Misread: nothing is clear of a table that it was misread for.  *)
LEMMA Reached ==
  ASSUME IInv, [Next]_vars, pc # "idle", NEW names, InHand.name \in names,
         NEW target, InHand.target = target,
         NEW n \in Nat, n = pos', pos' = pos + 1, Clear(names, target, n)'
  PROVE  /\ Written(pos) /\ <<pos, "parse_actions">> \notin failed'
         /\ LastAbout(names, target, n)' = pos
         /\ Said(names, target, n)' = InHand.value
<1>1. Grows /\ LogInv /\ pos \in 1..Len(log)
  BY StepFacts, InvFacts
<1>2. PICK m \in 1..Len(log) : m = pos
  BY <1>1
<1>3. n = m + 1 /\ InHand = log[m]
  BY <1>2 DEF InHand
<1>4. /\ Written(m)'
      /\ LastAbout(names, target, m + 1)' = m
      /\ Said(names, target, m + 1)' = log[m].value
  BY <1>1, <1>2, <1>3, ClearHere
<1>5. Written(m) /\ <<m, "parse_actions">> \notin failed'
  BY <1>1, <1>4, Harder DEF Written
<1> QED
  BY <1>2, <1>3, <1>4, <1>5

LEMMA Misread ==
  ASSUME IInv, [Next]_vars, pc # "idle", NEW names, InHand.name \in names, ~KnowsAbiOf(pos),
         NEW n \in Nat, n = pos', pos' = pos + 1, NEW target
  PROVE  ~Clear(names, target, n)'
<1>1. Grows /\ LogInv /\ pos \in 1..Len(log) /\ Handed(pos)
  BY StepFacts, InvFacts
<1>2. PICK m \in 1..Len(log) : m = pos
  BY <1>1
<1>3. n = m + 1 /\ log[m].name \in names /\ Handed(m) /\ ~KnowsAbiOf(m)
  BY <1>1, <1>2 DEF InHand
<1> QED
  BY <1>1, <1>2, <1>3, NotClear

(* Statements that write to one row what the action in hand says. *)
LEMMA VotesStep ==
  ASSUME IInv, [Next]_vars
  PROVE  VotesFollow(pos)'
<1> DEFINE names == {"voteproducer"}
<1>1. PICK n \in Nat : n = pos'
  BY StepFacts
<1>2. VotesFollow(pos)
  BY DEF IInv, RowsInv
<1>3. TablesOK /\ LogInv
  BY InvFacts
<1>4. CASE ~VoteProducer
  <2>1. votes' = votes
    <3>1. ChainStep => votes' = votes
      BY <1>3, InvFacts, ChainStepFacts DEF worker, side
    <3>2. Quiet => votes' = votes
      BY DEF Quiet, Begin, DecodeData, ThrowOut, InsertAction, NothingToWrite, NewAccount,
             NextPermission, side
    <3>3. Writing => votes' = votes
      BY <1>4 DEF Writing, StoreAbi, AccountRow, KeyRow, Propose, CancelOrExec, Create, side
    <3> QED
      BY <3>1, <3>2, <3>3, Steps DEF Restart, side
  <2>2. ~(LeftWritten /\ InHand.name \in names)
    BY <1>4 DEF LeftWritten, Ends
  <2>3. ASSUME NEW v \in Voters, Clear(names, v, n)' PROVE votes'[v] = Said(names, v, n)'
    BY <1>1, <1>2, <2>1, <2>2, <2>3, Kept DEF VotesFollow
  <2>4. VotesFollow(n)'
    BY <2>3 DEF VotesFollow
  <2> QED
    BY <1>1, <2>4
<1>5. CASE VoteProducer
  <2>1. pc = "parse_actions" /\ InHand.name = "voteproducer" /\ pos' = pos + 1
    BY <1>5 DEF VoteProducer, Parsing, Done, NextPos
  <2>2. InHand.target \in Voters
    BY <2>1, InvFacts, InHandEntry DEF WellMade
  <2>3. CASE ~KnowsAbiOf(pos)
    <3>1. \A v \in Voters : ~Clear(names, v, n)'
      BY <1>1, <2>1, <2>3, Misread
    <3>2. VotesFollow(n)'
      BY <3>1 DEF VotesFollow
    <3> QED
      BY <1>1, <3>2
  <2>4. CASE KnowsAbiOf(pos)
    <3>1. Readings(ParseAbi) = {"right"}
      BY <2>1, <2>4, ParsedRight
    <3>2. votes' = [votes EXCEPT ![InHand.target] = InHand.value]
      BY <1>5, <3>1 DEF VoteProducer, Parsing
    <3>3. ASSUME NEW v \in Voters, Clear(names, v, n)' PROVE votes'[v] = Said(names, v, n)'
      <4>1. CASE InHand.target = v
        <5>1. Said(names, v, n)' = InHand.value
          BY <1>1, <2>1, <3>3, <4>1, Reached
        <5> QED
          BY <1>3, <3>2, <4>1, <5>1 DEF TablesOK
      <4>2. CASE InHand.target # v
        <5>1. Clear(names, v, pos) /\ Said(names, v, n)' = Said(names, v, pos)
          BY <1>1, <3>3, <4>2, Kept
        <5>2. votes'[v] = votes[v]
          BY <1>3, <3>2, <4>2 DEF TablesOK
        <5> QED
          BY <1>2, <5>1, <5>2 DEF VotesFollow
      <4> QED
        BY <4>1, <4>2
    <3>4. VotesFollow(n)'
      BY <3>3 DEF VotesFollow
    <3> QED
      BY <1>1, <3>4
  <2> QED
    BY <2>3, <2>4
<1> QED
  BY <1>4, <1>5

LEMMA ProposalsStep ==
  ASSUME IInv, [Next]_vars
  PROVE  ProposalsFollow(pos)'
<1>1. PICK n \in Nat : n = pos'
  BY StepFacts
<1>2. ProposalsFollow(pos)
  BY DEF IInv, RowsInv
<1>3. TablesOK /\ LogInv
  BY InvFacts
<1>4. CASE ~(Propose \/ CancelOrExec)
  <2>1. proposal' = proposal
    <3>1. ChainStep => proposal' = proposal
      BY <1>3, InvFacts, ChainStepFacts DEF worker, side
    <3>2. Quiet => proposal' = proposal
      BY DEF Quiet, Begin, DecodeData, ThrowOut, InsertAction, NothingToWrite, NewAccount,
             NextPermission, side
    <3>3. Writing => proposal' = proposal
      BY <1>4 DEF Writing, StoreAbi, AccountRow, KeyRow, VoteProducer, Create, side
    <3> QED
      BY <3>1, <3>2, <3>3, Steps DEF Restart, side
  <2>2. ~(LeftWritten /\ InHand.name \in Proposing)
    BY <1>4 DEF LeftWritten, Ends, Proposing
  <2>3. ASSUME NEW p \in Proposals, Clear(Proposing, p, n)'
        PROVE  proposal'[p] = Said(Proposing, p, n)'
    BY <1>1, <1>2, <2>1, <2>2, <2>3, Kept DEF ProposalsFollow
  <2>4. ProposalsFollow(n)'
    BY <2>3 DEF ProposalsFollow
  <2> QED
    BY <1>1, <2>4
<1>5. CASE Propose \/ CancelOrExec
  <2>1. pc = "parse_actions" /\ InHand.name \in Proposing /\ pos' = pos + 1
    BY <1>5 DEF Propose, CancelOrExec, Parsing, Done, NextPos, Proposing
  <2>2. InHand.target \in Proposals /\ (InHand.name \in {"cancel", "exec"} => InHand.value = None)
    BY <2>1, InvFacts, InHandEntry DEF WellMade, Proposing
  <2>3. CASE ~KnowsAbiOf(pos)
    <3>1. \A p \in Proposals : ~Clear(Proposing, p, n)'
      BY <1>1, <2>1, <2>3, Misread
    <3>2. ProposalsFollow(n)'
      BY <3>1 DEF ProposalsFollow
    <3> QED
      BY <1>1, <3>2
  <2>4. CASE KnowsAbiOf(pos)
    <3>1. Readings(ParseAbi) = {"right"}
      BY <2>1, <2>4, ParsedRight DEF Proposing
    <3>2. proposal' = [proposal EXCEPT ![InHand.target] = InHand.value]
      BY <1>5, <2>2, <3>1 DEF Propose, CancelOrExec, Parsing
    <3>3. ASSUME NEW p \in Proposals, Clear(Proposing, p, n)'
          PROVE  proposal'[p] = Said(Proposing, p, n)'
      <4>1. CASE InHand.target = p
        <5>1. Said(Proposing, p, n)' = InHand.value
          BY <1>1, <2>1, <3>3, <4>1, Reached
        <5> QED
          BY <1>3, <3>2, <4>1, <5>1 DEF TablesOK
      <4>2. CASE InHand.target # p
        <5>1. Clear(Proposing, p, pos) /\ Said(Proposing, p, n)' = Said(Proposing, p, pos)
          BY <1>1, <3>3, <4>2, Kept
        <5>2. proposal'[p] = proposal[p]
          BY <1>3, <3>2, <4>2 DEF TablesOK
        <5> QED
          BY <1>2, <5>1, <5>2 DEF ProposalsFollow
      <4> QED
        BY <4>1, <4>2
    <3>4. ProposalsFollow(n)'
      BY <3>3 DEF ProposalsFollow
    <3> QED
      BY <1>1, <3>4
  <2> QED
    BY <2>3, <2>4
<1> QED
  BY <1>4, <1>5

LEMMA AssetsStays ==
  ASSUME IInv, [Next]_vars, ~Create
  PROVE  assets' = assets
<1>1. ChainStep => assets' = assets
  BY InvFacts, ChainStepFacts DEF worker, side
<1>2. Quiet => assets' = assets
  BY DEF Quiet, Begin, DecodeData, ThrowOut, InsertAction, NothingToWrite, NewAccount,
         NextPermission, side
<1>3. Writing => assets' = assets
  BY DEF Writing, StoreAbi, AccountRow, KeyRow, VoteProducer, Propose, CancelOrExec, side
<1> QED
  BY <1>1, <1>2, <1>3, Steps DEF Restart, side

LEMMA BoundedStep ==
  ASSUME IInv, [Next]_vars
  PROVE  Bounded'
<1>1. PICK b \in Nat : \A s \in Symbols : assets[s] <= b
  BY InvFacts DEF Bounded
<1>2. TablesOK
  BY InvFacts
<1>3. NextId \in Nat /\ \A s \in Symbols : assets[s] < NextId
  BY <1>1, <1>2, NextIdType
<1>4. PICK id \in Nat : id = NextId
  BY <1>3
<1>5. \A s \in Symbols : assets[s] \in Nat /\ assets[s] < id
  BY <1>2, <1>3, <1>4 DEF TablesOK
<1>6. \A s \in Symbols : assets'[s] = assets[s] \/ assets'[s] = id
  <2>1. assets' = assets \/ \E s : assets' = [assets EXCEPT ![s] = id]
    BY <1>4, AssetsStays DEF Create, Replaced
  <2> QED
    BY <1>2, <2>1 DEF TablesOK
<1>7. \A s \in Symbols : assets'[s] <= id
  BY <1>5, <1>6
<1> QED
  BY <1>7 DEF Bounded

LEMMA AssetsStep ==
  ASSUME IInv, [Next]_vars
  PROVE  AssetsFollow(pos)'
<1> DEFINE names == {"create"}
<1>1. PICK n \in Nat : n = pos'
  BY StepFacts
<1>2. AssetsFollow(pos)
  BY DEF IInv, RowsInv
<1>3. TablesOK /\ LogInv /\ pos \in Nat \ {0}
  BY InvFacts
<1> DEFINE Of(s) == LastAbout(names, s, pos)
<1>4. CASE ~Create
  <2>1. assets' = assets
    BY <1>4, AssetsStays
  <2>2. ~(LeftWritten /\ InHand.name \in names)
    BY <1>4 DEF LeftWritten, Ends
  <2>3. ASSUME NEW s \in Symbols, Clear(names, s, n)'
        PROVE  Clear(names, s, pos) /\ LastAbout(names, s, n)' = LastAbout(names, s, pos)
    BY <1>1, <2>2, <2>3, Kept
  <2>4. AssetsFollow(n)'
    BY <1>2, <2>1, <2>3 DEF AssetsFollow
  <2> QED
    BY <1>1, <2>4
<1>5. CASE Create
  <2>1. pc = "parse_actions" /\ InHand.name = "create" /\ pos' = pos + 1
    BY <1>5 DEF Create, Parsing, Done, NextPos
  <2>2. InHand.target \in Symbols
    BY <2>1, InvFacts, InHandEntry DEF WellMade
  <2>3. CASE ~KnowsAbiOf(pos)
    <3>1. \A s \in Symbols : ~Clear(names, s, n)'
      BY <1>1, <2>1, <2>3, Misread
    <3>2. AssetsFollow(n)'
      BY <3>1 DEF AssetsFollow
    <3> QED
      BY <1>1, <3>2
  <2>4. CASE KnowsAbiOf(pos)
    <3>1. Readings(ParseAbi) = {"right"}
      BY <2>1, <2>4, ParsedRight
    <3>2. assets' = [assets EXCEPT ![InHand.target] = NextId]
      BY <1>5, <3>1 DEF Create, Parsing, Replaced
    <3>3. PICK t \in Symbols : t = InHand.target
      BY <2>2
    <3>4. PICK id \in Nat : id = NextId /\ \A s \in Symbols : assets[s] < id
      BY <1>3, InvFacts, NextIdType DEF Bounded
    <3>5. PICK l \in Nat \ {0} : l = pos
      BY <1>3
    <3>6. ASSUME NEW s \in Symbols, Clear(names, s, n)', s # t
          PROVE  /\ Clear(names, s, pos) /\ LastAbout(names, s, n)' = Of(s)
                 /\ assets'[s] = assets[s] /\ assets[s] \in Nat /\ Of(s) \in 0..(l - 1)
      <4>1. Clear(names, s, pos) /\ LastAbout(names, s, n)' = Of(s)
        BY <1>1, <3>3, <3>6, Kept
      <4>2. assets'[s] = assets[s] /\ assets[s] \in Nat
        BY <1>3, <3>2, <3>3, <3>6 DEF TablesOK
      <4>3. LastAbout(names, s, l) \in 0..(l - 1)
        BY LastPlace
      <4> QED
        BY <3>5, <4>1, <4>2, <4>3
    <3>7. ASSUME Clear(names, t, n)'
          PROVE  LastAbout(names, t, n)' = l /\ assets'[t] = id
      <4>1. LastAbout(names, t, n)' = l
        BY <1>1, <2>1, <3>3, <3>5, <3>7, Reached
      <4> QED
        BY <1>3, <3>2, <3>3, <3>4, <4>1 DEF TablesOK
    <3>8. ASSUME NEW s \in Symbols, Clear(names, s, n)'
          PROVE  (assets'[s] > 0) = (LastAbout(names, s, n)' > 0)
      <4>1. CASE s = t
        <5>1. assets[t] \in Nat /\ assets[t] < id
          BY <1>3, <3>4 DEF TablesOK
        <5>2. id > 0 /\ l > 0
          BY <5>1
        <5>3. assets'[s] = id /\ LastAbout(names, s, n)' = l
          BY <3>7, <3>8, <4>1
        <5>4. assets'[s] > 0 /\ LastAbout(names, s, n)' > 0
          BY <5>2, <5>3
        <5> QED
          BY <5>4
      <4>2. CASE s # t
        BY <1>2, <3>6, <3>8, <4>2 DEF AssetsFollow
      <4> QED
        BY <4>1, <4>2
    <3>9. ASSUME NEW s \in Symbols, NEW u \in Symbols,
                 Clear(names, s, n)', Clear(names, u, n)',
                 0 < LastAbout(names, s, n)', LastAbout(names, s, n)' < LastAbout(names, u, n)'
          PROVE  assets'[s] < assets'[u]
      <4>1. CASE s # t /\ u # t
        BY <1>2, <3>6, <3>9, <4>1 DEF AssetsFollow
      <4>2. CASE s # t /\ u = t
        <5>1. assets'[s] = assets[s] /\ assets'[u] = id
          BY <3>6, <3>7, <3>9, <4>2
        <5> QED
          BY <3>4, <5>1
      <4>3. CASE s = t /\ u # t
        <5>1. LastAbout(names, s, n)' = l /\ LastAbout(names, u, n)' \in 0..(l - 1)
          BY <3>6, <3>7, <3>9, <4>3
        <5> QED
          BY <3>9, <5>1
      <4>4. CASE s = t /\ u = t
        <5>1. LastAbout(names, s, n)' = l /\ LastAbout(names, u, n)' = l
          BY <3>7, <3>9, <4>4
        <5> QED
          BY <3>9, <5>1
      <4> QED
        BY <4>1, <4>2, <4>3, <4>4
    <3>10. AssetsFollow(n)'
      BY <3>8, <3>9 DEF AssetsFollow
    <3> QED
      BY <1>1, <3>10
  <2> QED
    BY <2>3, <2>4
<1> QED
  BY <1>4, <1>5

(* What the worker has in hand stays in hand until it goes on. *)
LEMMA InHandStays ==
  ASSUME IInv, [Next]_vars, pc # "idle", pos' = pos
  PROVE  InHand' = InHand /\ Handed(pos)'
<1>1. Grows /\ LogInv /\ pos \in 1..Len(log) /\ Handed(pos)
  BY StepFacts, InvFacts
<1>2. PICK m \in 1..Len(log) : m = pos
  BY <1>1
<1>3. log'[m] = log[m] /\ Handed(m)'
  BY <1>1, <1>2, Harder DEF Grows
<1> QED
  BY <1>2, <1>3 DEF InHand

(* Only these steps add to accounts and accounts_keys, or prepare for it. *)
Adding ==
  \/ NewAccount \/ AccountRow \/ NextPermission \/ (\E p \in Permissions : KeyRow(p))

LEMMA NotAdding ==
  ASSUME IInv, [Next]_vars, ~Adding
  PROVE  /\ account' = account /\ keys' = keys
         /\ pc' \in AddingKeys => pos' = pos /\ pc' = pc /\ left' = left
<1>1. CASE ChainStep
  BY <1>1, InvFacts, ChainStepFacts DEF worker, side
<1>2. CASE Quiet
  BY <1>2 DEF Adding, Quiet, Begin, DecodeData, ThrowOut, InsertAction, NothingToWrite,
              AddingKeys, Permissions, Goto, Done, side
<1>3. CASE Writing
  BY <1>3 DEF Adding, Writing, StoreAbi, VoteProducer, Propose, CancelOrExec, Create,
              AddingKeys, Permissions, Goto, Done, side
<1>4. ASSUME NEW replay \in BOOLEAN, Restart(replay)
      PROVE  account' = account /\ keys' = keys /\ pc' = "idle"
  BY <1>4 DEF Restart, side
<1> QED
  BY <1>1, <1>2, <1>3, <1>4, Steps DEF AddingKeys, Permissions

LEMMA KeysStep ==
  ASSUME IInv, [Next]_vars
  PROVE  KeysInv'
<1>1. KeysInv /\ keys \in [Permissions -> Nat] /\ left \in Nat
  BY InvFacts DEF IInv, TablesOK, StageOK
<1>2. CASE ~Adding
  <2>1. /\ account' = account /\ keys' = keys
        /\ pc' \in AddingKeys =>
             pos' = pos /\ pc' = pc /\ left' = left /\ pc # "idle"
    BY <1>2, NotAdding DEF AddingKeys, Permissions
  <2>2. pc' \in AddingKeys => InHand' = InHand
    BY <2>1, InHandStays
  <2> QED
    BY <1>1, <2>1, <2>2 DEF KeysInv, KeysHaveAccount, AddingKeys, Permissions
<1>3. CASE NewAccount
  <2>1. /\ pos' = pos /\ pc # "idle" /\ pc' = "account" /\ account' = account /\ keys' = keys
        /\ left' = InHand.value["owner"]
    BY <1>3 DEF NewAccount, Parsing, Goto, FirstOfAccount, side
  <2>2. InHand' = InHand
    BY <2>1, InHandStays
  <2> QED
    BY <1>1, <2>1, <2>2 DEF KeysInv, KeysHaveAccount, Permissions
<1>4. CASE AccountRow
  <2>1. CASE pc' = "owner"
    <3>1. pos' = pos /\ pc = "account" /\ account' = TRUE /\ keys' = keys /\ left' = left
      BY <1>4, <2>1 DEF AccountRow, Goto, Done
    <3>2. InHand' = InHand
      BY <3>1, InHandStays
    <3>3. InHand.value["owner"] = left
      BY <1>1, <3>1 DEF KeysInv
    <3>4. keys["owner"] \in Nat
      BY <1>1 DEF Permissions
    <3>5. keys["owner"] + left >= left
      BY <1>1, <3>4
    <3> QED
      BY <2>1, <3>1, <3>2, <3>3, <3>5 DEF KeysInv, KeysHaveAccount
  <2>2. CASE pc' # "owner"
    <3>1. pc' = "idle" /\ account' = account /\ keys' = keys
      BY <1>4, <2>2 DEF AccountRow, Goto, Done
    <3> QED
      BY <1>1, <3>1 DEF KeysInv, KeysHaveAccount, Permissions
  <2> QED
    BY <2>1, <2>2
<1>5. ASSUME NEW p \in Permissions, KeyRow(p) PROVE KeysInv'
  <2>1. pc = p /\ left > 0 /\ account' = account /\ account
    BY <1>1, <1>5 DEF KeyRow, KeysInv
  <2>2. CASE keys' = keys
    <3>1. CASE pc' = "idle"
      BY <1>1, <2>1, <2>2, <3>1 DEF KeysInv, KeysHaveAccount, Permissions
    <3>2. CASE pc' # "idle"
      <4>1. keys' = [keys EXCEPT ![p] = keys[p] + 1] /\ keys[p] \in Nat
        BY <1>1, <1>5, <3>2 DEF KeyRow, Done
      <4>2. keys'[p] = keys[p] + 1 /\ keys[p] + 1 # keys[p]
        BY <1>1, <4>1
      <4> QED
        BY <2>2, <4>2
    <3> QED
      BY <3>1, <3>2
  <2>3. CASE keys' # keys
    <3>1. /\ keys' = [keys EXCEPT ![p] = keys[p] + 1] /\ left' = left - 1
          /\ pos' = pos /\ pc' = p /\ pc # "idle"
      BY <1>5, <2>1, <2>3 DEF KeyRow, Goto, Permissions
    <3>2. InHand' = InHand
      BY <3>1, InHandStays
    <3>3. keys'[p] = keys[p] + 1 /\ \A q \in Permissions : q # p => keys'[q] = keys[q]
      BY <1>1, <3>1
    <3>4. keys'[p] + left' = keys[p] + left
      <4>1. keys[p] \in Nat
        BY <1>1
      <4>2. (keys[p] + 1) + (left - 1) = keys[p] + left
        BY <1>1, <4>1
      <4> QED
        BY <3>1, <3>3, <4>2
    <3>5. keys[p] + left >= InHand.value[p]
      BY <1>1, <2>1 DEF KeysInv
    <3>6. p = "active" => keys'["owner"] >= InHand.value["owner"]
      BY <1>1, <2>1, <3>3 DEF KeysInv, Permissions
    <3> QED
      BY <2>1, <3>1, <3>2, <3>4, <3>5, <3>6 DEF KeysInv, KeysHaveAccount, Permissions
  <2> QED
    BY <2>2, <2>3
<1>6. CASE NextPermission
  <2>1. pc \in Permissions /\ left = 0 /\ account' = account /\ keys' = keys /\ account
    BY <1>1, <1>6 DEF NextPermission, side, KeysInv
  <2>2. CASE pc = "active"
    <3>1. pc' = "idle"
      BY <1>6, <2>2 DEF NextPermission, Done
    <3> QED
      BY <2>1, <3>1 DEF KeysInv, KeysHaveAccount, Permissions
  <2>3. CASE pc = "owner"
    <3>1. pos' = pos /\ pc # "idle" /\ pc' = "active" /\ left' = InHand.value["active"]
      BY <1>6, <2>3 DEF NextPermission, Goto
    <3>2. InHand' = InHand
      BY <3>1, InHandStays
    <3>3. keys["owner"] + 0 >= InHand.value["owner"]
      BY <1>1, <2>1, <2>3 DEF KeysInv
    <3>4. keys["owner"] \in Nat /\ keys["active"] \in Nat
      BY <1>1 DEF Permissions
    <3>5. keys["owner"] >= InHand.value["owner"]
      BY <3>3, <3>4
    <3>6. InHand.value["active"] \in Nat
      BY <2>1, InvFacts, InHandEntry, <3>1 DEF WellMade, Counts, Permissions
    <3>7. keys["active"] + InHand.value["active"] >= InHand.value["active"]
      BY <3>4, <3>6
    <3> QED
      BY <2>1, <3>1, <3>2, <3>5, <3>7 DEF KeysInv, KeysHaveAccount, Permissions
  <2> QED
    BY <2>1, <2>2, <2>3 DEF Permissions
<1> QED
  BY <1>2, <1>3, <1>4, <1>5, <1>6 DEF Adding

(* An action that is left behind unwritten hides its row. *)
LEMMA Abandoned ==
  ASSUME IInv, [Next]_vars, pc # "idle", NEW names, InHand.name \in names,
         NEW target, InHand.target = target, NEW n \in Nat, n = pos', pos < n,
         \A i \in pos..(n - 1) : <<i, "parse_actions">> \in failed'
  PROVE  ~Clear(names, target, n)'
<1> SUFFICES ASSUME Clear(names, target, n)' PROVE FALSE
  OBVIOUS
<1>1. /\ Grows /\ LogInv /\ Len(log) \in Nat /\ n <= Len(log) + 1
      /\ pos \in Nat \ {0} /\ pos \in 1..Len(log)
  BY StepFacts, InvFacts
<1>2. PICK m \in 1..Len(log) : m = pos
  BY <1>1
<1>3. n \in 1..(Len(log) + 1) /\ m < n /\ n \in Nat \ {0}
  BY <1>1, <1>2
<1>4. PICK i : i = LastAbout(names, target, n)
  OBVIOUS
<1>5. i = LastAbout(names, target, n)'
  BY <1>1, <1>3, <1>4, LastStays DEF LastAbout
<1>6. /\ i \in 0..(n - 1)
      /\ \A j \in 1..(n - 1) : log[j].name \in names /\ log[j].target = target => j <= i
  BY <1>3, <1>4, LastPlace
<1>7. log[m].name \in names /\ log[m].target = target /\ m \in 1..(n - 1)
  <2>1. m \in Nat /\ n \in Nat /\ 0 < m
    BY <1>1, <1>2
  <2>2. m \in 1..(n - 1)
    BY <1>3, <2>1, Below
  <2> QED
    BY <1>2, <2>2 DEF InHand
<1>8. i > 0 /\ i \in m..(n - 1)
  <2>1. m <= i
    BY <1>6, <1>7
  <2>2. m \in Nat \ {0}
    BY <1>1, <1>2
  <2> QED
    BY <1>6, <2>1, <2>2, LaterPlace
<1>9. ~Written(i)'
  BY <1>2, <1>8 DEF Written
<1> QED
  BY <1>5, <1>8, <1>9 DEF Clear

LEMMA AccountStep ==
  ASSUME IInv, [Next]_vars, pc' \notin Permissions
  PROVE  AccountFollows(pos)'
<1> DEFINE names == {"newaccount"}
<1>1. PICK n \in Nat : n = pos'
  BY StepFacts
<1>2. KeysInv /\ keys \in [Permissions -> Nat]
  BY InvFacts DEF IInv, TablesOK
<1>3. CASE pc \notin Permissions
  <2>1. AccountFollows(pos)
    BY <1>3 DEF IInv, RowsInv
  <2>2. account' = account /\ keys' = keys
    <3>1. CASE ~Adding
      BY <3>1, NotAdding
    <3>2. CASE Adding
      BY <1>3, <3>2 DEF Adding, NewAccount, AccountRow, KeyRow, NextPermission, Goto,
                        Permissions, side
    <3> QED
      BY <3>1, <3>2
  <2>3. ~(LeftWritten /\ InHand.name \in names)
    BY <1>3 DEF LeftWritten, Ends, NextPermission
  <2>4. Clear(names, "alice", n)' =>
          /\ Clear(names, "alice", pos)
          /\ LastAbout(names, "alice", n)' = LastAbout(names, "alice", pos)
    BY <1>1, <2>3, Kept
  <2>5. LastAbout(names, "alice", pos) > 0 =>
          log'[LastAbout(names, "alice", pos)] = log[LastAbout(names, "alice", pos)]
    <3>1. PICK m \in 1..(Len(log) + 1) : m = pos
      BY InvFacts
    <3>2. Len(log) \in Nat /\ m \in Nat \ {0} /\ Grows
      BY InvFacts, StepFacts
    <3>3. LastAbout(names, "alice", m) \in 0..(m - 1)
      BY <3>2, LastPlace
    <3>4. LastAbout(names, "alice", m) > 0 => LastAbout(names, "alice", m) \in 1..Len(log)
      BY <3>2, <3>3
    <3> QED
      BY <3>1, <3>2, <3>4 DEF Grows
  <2>6. AccountFollows(n)'
    BY <2>1, <2>2, <2>4, <2>5 DEF AccountFollows
  <2> QED
    BY <1>1, <2>6
<1>4. CASE pc \in Permissions
  <2>1. /\ pc # "idle" /\ InHand.name \in names /\ pos \in 1..Len(log) /\ Len(log) \in Nat
        /\ pos \in Nat \ {0}
    BY <1>4, InvFacts DEF Permissions
  <2>2. InHand.target = "alice"
    BY <2>1, InvFacts, InHandEntry DEF WellMade
  <2>3. ASSUME ~Clear(names, "alice", n)' PROVE AccountFollows(pos)'
    <3>1. AccountFollows(n)'
      BY <2>3 DEF AccountFollows
    <3> QED
      BY <1>1, <3>1
  <2>4. CASE NextPermission
    <3>1. pc = "active" /\ pos' = pos + 1 /\ left = 0 /\ account' = account /\ keys' = keys
      BY <1>4, <2>4 DEF NextPermission, Goto, Done, NextPos, Permissions, side
    <3>2. account /\ keys["active"] >= InHand.value["active"]
          /\ keys["owner"] >= InHand.value["owner"]
      <4>1. keys["active"] + left >= InHand.value["active"] /\ keys["active"] \in Nat
        BY <1>2, <3>1 DEF KeysInv, Permissions
      <4>2. keys["active"] + 0 = keys["active"]
        BY <4>1
      <4>3. keys["active"] >= InHand.value["active"]
        BY <3>1, <4>1, <4>2
      <4> QED
        BY <1>2, <3>1, <4>3 DEF KeysInv, Permissions
    <3>3. ASSUME Clear(names, "alice", n)'
          PROVE  LastAbout(names, "alice", n)' = pos /\ log'[pos] = InHand
      <4>1. LastAbout(names, "alice", n)' = pos
        BY <1>1, <2>1, <2>2, <3>1, <3>3, Reached
      <4>2. log'[pos] = log[pos]
        BY <2>1, StepFacts DEF Grows
      <4> QED
        BY <4>1, <4>2 DEF InHand
    <3>4. pos > 0
      BY <2>1
    <3>5. \A p \in Permissions : keys'[p] >= InHand.value[p]
      BY <3>1, <3>2 DEF Permissions
    <3>6. Clear(names, "alice", n)' => account' = (LastAbout(names, "alice", n)' > 0)
      BY <1>2, <3>1, <3>2, <3>3, <3>4, InvFacts DEF TablesOK
    <3>7. AccountFollows(n)'
      BY <3>3, <3>5, <3>6 DEF AccountFollows
    <3> QED
      BY <1>1, <3>7
  <2>5. ASSUME NEW p \in Permissions, KeyRow(p) PROVE AccountFollows(pos)'
    <3>1. Done /\ Fails("parse_actions")
      BY <2>5 DEF KeyRow, Goto
    <3>2. PICK m \in Nat : m = pos
      BY <2>1
    <3>3. n = m + 1 /\ <<m, "parse_actions">> \in failed'
      BY <1>1, <3>1, <3>2 DEF Done, NextPos, Fails
    <3>4. m < n /\ \A i \in m..(n - 1) : i = m
      BY <3>3
    <3>5. ~Clear(names, "alice", n)'
      BY <1>1, <2>1, <2>2, <3>2, <3>3, <3>4, Abandoned
    <3> QED
      BY <2>3, <3>5
  <2>6. ASSUME NEW replay \in BOOLEAN, Restart(replay) PROVE AccountFollows(pos)'
    <3>1. /\ n = Len(log) + 1
          /\ \A i \in pos..(n - 1) : <<i, "parse_actions">> \in failed'
      BY <1>1, <2>6, InvFacts, RestartFailed DEF Calls
    <3>2. pos < n
      BY <2>1, <3>1
    <3>3. ~Clear(names, "alice", n)'
      BY <1>1, <2>1, <2>2, <3>1, <3>2, Abandoned
    <3> QED
      BY <2>3, <3>3
  <2>7. ~ChainStep
    BY <1>4, InvFacts, ChainStepFacts DEF worker
  <2>8. ~(Begin \/ DecodeData \/ ThrowOut \/ InsertAction \/ NothingToWrite \/ NewAccount)
    BY <1>4 DEF Begin, DecodeData, ThrowOut, InsertAction, NothingToWrite, NewAccount, Parsing,
                Permissions
  <2>9. ~(StoreAbi \/ AccountRow \/ VoteProducer \/ Propose \/ CancelOrExec \/ Create)
    BY <1>4 DEF StoreAbi, AccountRow, VoteProducer, Propose, CancelOrExec, Create, Parsing,
                Permissions
  <2> QED
    BY <2>4, <2>5, <2>6, <2>7, <2>8, <2>9, Steps DEF Quiet, Writing
<1> QED
  BY <1>3, <1>4

LEMMA RowsStep ==
  ASSUME IInv, [Next]_vars
  PROVE  RowsInv'
<1>1. VotesFollow(pos)' /\ ProposalsFollow(pos)' /\ AssetsFollow(pos)' /\ Bounded'
  BY VotesStep, ProposalsStep, AssetsStep, BoundedStep
<1> QED
  BY <1>1, AccountStep DEF RowsInv, Bounded

-----------------------------------------------------------------------------
(* What is in hand, the ABIs and the rows of actions.                      *)

(* Which ABI the table has does not change with what stored none.          *)
LEMMA AbiKept ==
  ASSUME LogInv, Grows, NEW c, NEW m \in 1..(Len(log) + 1), NEW n \in m..(Len(log) + 1),
         \A j \in m..(n - 1) :
           log[j].name = "setabi" /\ log[j].target = c => ~Stored(j)',
         Stored(LastAbout({"setabi"}, c, n))'
  PROVE  /\ Stored(LastAbout({"setabi"}, c, m))
         /\ AbiAfter(c, LastAbout({"setabi"}, c, n))' = AbiAfter(c, LastAbout({"setabi"}, c, m))
<1>1. Len(log) \in Nat /\ m \in Nat \ {0} /\ n \in Nat \ {0} /\ n \in 1..(Len(log) + 1)
  BY LogEntries
<1>2. PICK i : i = LastAbout({"setabi"}, c, n)
  OBVIOUS
<1>3. i = LastAbout({"setabi"}, c, n)'
  BY <1>1, <1>2, LastStays DEF LastAbout
<1>4. /\ i \in 0..(n - 1)
      /\ i > 0 => log[i].name \in {"setabi"} /\ log[i].target = c
      /\ \A j \in 1..(n - 1) : log[j].name \in {"setabi"} /\ log[j].target = c => j <= i
  BY <1>1, <1>2, LastPlace
<1>5. Stored(i)'
  BY <1>3
<1>6. i \in 0..(m - 1)
  BY <1>1, <1>4, <1>5
<1>7. i = LastAbout({"setabi"}, c, m)
  <2>1. \A j \in 1..(m - 1) : j \in 1..(n - 1)
    BY <1>1
  <2> QED
    BY <1>1, <1>4, <1>6, <2>1, LastIs
<1>8. i \in 0..Len(log)
  BY <1>1, <1>6
<1>9. Stored(i) /\ AbiAfter(c, i)' = AbiAfter(c, i)
  BY <1>5, <1>8, StoredHarder
<1> QED
  BY <1>3, <1>7, <1>9

(* Which setabi the worker leaves behind, or passes, stored. *)
LEMMA StoredHere ==
  ASSUME IInv, [Next]_vars, NEW m \in Nat, m = AbiPlace, NEW n \in Nat, n = AbiPlace',
         NEW j \in m..(n - 1), log[j].name = "setabi", Stored(j)'
  PROVE  j = pos /\ StoreAbi
<1>1. /\ Len(log) \in Nat /\ pos \in Nat \ {0} /\ j \in Nat /\ j < n /\ m <= j
      /\ pos' \in Nat /\ pos <= pos' /\ pos' <= Len(log) + 1
  <2>1. Len(log) \in Nat /\ pos \in Nat \ {0}
    BY InvFacts
  <2>2. j \in Nat /\ j < n /\ m <= j
    BY Between
  <2> QED
    BY <2>1, <2>2, StepFacts
<1>2. /\ m = IF pc \in Decoded THEN pos + 1 ELSE pos
      /\ n = IF pc' \in Decoded THEN pos' + 1 ELSE pos'
  BY DEF AbiPlace
<1>3. j > 0 /\ pos <= j /\ <<j, "add_data">> \notin failed' /\ Handed(j)' /\ log'[j].value # None
  <2>1. j > 0 /\ pos <= j
    BY <1>1, <1>2
  <2> QED
    BY <2>1 DEF Stored
<1>4. "add_data" \in Calls
  BY DEF Calls
<1>5. pos' = pos /\ (pc \in Decoded \/ pc' \notin Decoded) => FALSE
  BY <1>1, <1>2
<1>6. pos' = pos + 1 /\ pc \in Decoded /\ pc' \notin Decoded => FALSE
  BY <1>1, <1>2
<1>7. ~ChainStep
  <2>1. ChainStep => pos' = pos /\ pc' = pc
    BY InvFacts, ChainStepFacts DEF worker
  <2> QED
    BY <1>5, <2>1
<1>8. ~(\E replay \in BOOLEAN : Restart(replay))
  <2> SUFFICES ASSUME NEW replay \in BOOLEAN, Restart(replay) PROVE FALSE
    OBVIOUS
  <2>1. pc' = "idle" /\ \A i \in pos..(pos' - 1) : <<i, "add_data">> \in failed'
    BY <1>4, InvFacts, RestartFailed DEF Restart
  <2>2. n = pos'
    BY <1>2, <2>1 DEF Decoded, Inserted, AddingKeys, Permissions
  <2>3. j \in pos..(pos' - 1)
    BY <1>1, <1>3, <2>2, InSlice
  <2> QED
    BY <1>3, <2>1, <2>3
<1>9. ~ThrowOut
  <2> SUFFICES ASSUME ThrowOut PROVE FALSE
    OBVIOUS
  <2>1. pc' = "idle" /\ \A i \in pos..(pos' - 1) : <<i, "add_data">> \in failed'
    BY <1>4, InvFacts, ThrowOutFailed DEF ThrowOut
  <2>2. n = pos'
    BY <1>2, <2>1 DEF Decoded, Inserted, AddingKeys, Permissions
  <2>3. j \in pos..(pos' - 1)
    BY <1>1, <1>3, <2>2, InSlice
  <2> QED
    BY <1>3, <2>1, <2>3
<1>10. ~Begin
  <2> SUFFICES ASSUME Begin PROVE FALSE
    OBVIOUS
  <2>1. pos \in 1..Len(log) /\ pc' \notin Decoded
    BY <1>1 DEF Begin, Goto, Done, Decoded, Inserted, AddingKeys, Permissions
  <2>2. pos' = pos + 1 /\ ~Handed(pos)
    BY <1>5, <2>1 DEF Begin, Goto, Done, NextPos
  <2>3. j = pos
    BY <1>1, <1>2, <1>3, <2>1, <2>2
  <2>4. ~Handed(j)'
    BY <2>1, <2>2, <2>3, StepFacts, InvFacts, Harder
  <2> QED
    BY <1>3, <2>4
<1>11. ASSUME pc = "add_data", pc' = "insert", pos' = pos PROVE j = pos
  <2>1. n = pos + 1
    BY <1>2, <1>11 DEF Decoded
  <2> QED
    BY <1>1, <1>3, <2>1
<1>12. ~DecodeData
  <2> SUFFICES ASSUME DecodeData PROVE FALSE
    OBVIOUS
  <2>1. j = pos /\ pos' = pos /\ pc # "idle"
    BY <1>11 DEF DecodeData, Goto
  <2>2. InHand = log'[j] /\ InHand = log[j]
    <3>1. InHand = log'[j]
      BY <2>1, InHandStays DEF InHand
    <3> QED
      BY <2>1, <3>1 DEF InHand
  <2> QED
    BY <1>3, <2>2 DEF DecodeData, CarriesAbi
<1>13. CASE StoreAbi
  <2>1. j = pos
    BY <1>11, <1>13 DEF StoreAbi, Goto
  <2> QED
    BY <1>13, <2>1
<1>14. CASE \/ InsertAction \/ NothingToWrite \/ NewAccount \/ NextPermission \/ AccountRow
            \/ VoteProducer \/ Propose \/ CancelOrExec \/ Create
            \/ \E p \in Permissions : KeyRow(p)
  <2>1. pc \in Decoded
    BY <1>14 DEF InsertAction, NothingToWrite, NewAccount, NextPermission, AccountRow, KeyRow,
                 VoteProducer, Propose, CancelOrExec, Create, Parsing, Decoded, Inserted,
                 AddingKeys
  <2>2. pos' = pos \/ (pos' = pos + 1 /\ pc' = "idle")
    BY <1>14 DEF InsertAction, NothingToWrite, NewAccount, NextPermission, AccountRow, KeyRow,
                 VoteProducer, Propose, CancelOrExec, Create, Goto, Done, NextPos
  <2>3. pc' = "idle" => pc' \notin Decoded
    BY DEF Decoded, Inserted, AddingKeys, Permissions
  <2> QED
    BY <1>5, <1>6, <2>1, <2>2, <2>3
<1> QED
  BY <1>7, <1>8, <1>9, <1>10, <1>12, <1>13, <1>14, Steps DEF Quiet, Writing

(* The worker never goes back within an action. *)
LEMMA Stages ==
  ASSUME IInv, [Next]_vars
  PROVE  /\ pc' \in Decoded => pos' = pos /\ pc # "idle"
         /\ pos' = pos /\ pc \in Decoded => pc' \in Decoded
         /\ pos' = pos /\ pc \in Inserted => pc' \in Inserted
<1> DEFINE P == /\ pc' \in Decoded => pos' = pos /\ pc # "idle"
                /\ pos' = pos /\ pc \in Decoded => pc' \in Decoded
                /\ pos' = pos /\ pc \in Inserted => pc' \in Inserted
<1>1. "idle" \notin Decoded /\ "add_data" \notin Decoded /\ Inserted \subseteq Decoded
  BY DEF Decoded, Inserted, AddingKeys, Permissions
<1>2. CASE ChainStep
  <2>1. pos' = pos /\ pc' = pc
    BY <1>2, InvFacts, ChainStepFacts DEF worker
  <2> QED
    BY <1>1, <2>1
<1>3. CASE ThrowOut
  <2>1. pos' # pos /\ pc' = "idle"
    <3>1. pos < pos' /\ pos' \in Nat /\ pos \in Nat
      BY <1>3, InvFacts, ThrowOutFailed
    <3>2. pos' # pos
      BY <3>1
    <3> QED
      BY <1>3, <3>2 DEF ThrowOut
  <2> QED
    BY <1>1, <2>1
<1>4. ASSUME NEW replay \in BOOLEAN, Restart(replay) PROVE P
  <2>1. pc' = "idle" /\ pos' = Len(log) + 1
    BY <1>4 DEF Restart
  <2>2. pos' = pos => pc = "idle"
    <3>1. Len(log) \in Nat /\ (pc # "idle" => pos \in Nat /\ pos <= Len(log))
      BY InvFacts DEF PlaceOK
    <3> QED
      BY <2>1, <3>1
  <2> QED
    BY <1>1, <2>1, <2>2
<1>5. pos \in Nat
  BY InvFacts
<1>6. Done => pc' = "idle" /\ pos' # pos
  BY <1>5 DEF Done, NextPos
<1>7. CASE Begin \/ DecodeData \/ StoreAbi
  BY <1>1, <1>6, <1>7 DEF Begin, DecodeData, StoreAbi, Goto
<1>8. CASE InsertAction \/ NewAccount
  BY <1>8 DEF InsertAction, NewAccount, Parsing, Goto, FirstOfAccount, Decoded, Inserted,
              AddingKeys
<1>9. CASE AccountRow \/ NextPermission \/ \E p \in Permissions : KeyRow(p)
  <2>1. pc \in AddingKeys /\ (Done \/ (pos' = pos /\ pc' \in AddingKeys))
    BY <1>9 DEF AccountRow, NextPermission, KeyRow, Goto, AddingKeys, Permissions
  <2>2. AddingKeys \subseteq Inserted
    BY DEF Inserted
  <2> QED
    BY <1>1, <1>6, <2>1, <2>2
<1>10. CASE NothingToWrite \/ VoteProducer \/ Propose \/ CancelOrExec \/ Create
  BY <1>1, <1>6, <1>10 DEF NothingToWrite, VoteProducer, Propose, CancelOrExec, Create
<1> QED
  BY <1>2, <1>3, <1>4, <1>7, <1>8, <1>9, <1>10, Steps DEF Quiet, Writing

LEMMA PlaceArithmetic ==
  ASSUME NEW l \in Nat, NEW m \in 1..(l + 1), NEW n \in Nat, m <= n, n <= l + 1,
         NEW a, a = m \/ (a = m + 1 /\ m <= l),
         NEW b, b = n \/ (b = n + 1 /\ n = m /\ m <= l),
         a = m + 1 /\ n = m => b = n + 1
  PROVE  a \in 1..(l + 1) /\ b \in a..(l + 1)
OBVIOUS

LEMMA PlaceBounds ==
  ASSUME IInv, [Next]_vars
  PROVE  /\ AbiPlace \in 1..(Len(log) + 1) /\ RowPlace \in 1..(Len(log) + 1)
         /\ AbiPlace' \in AbiPlace..(Len(log) + 1) /\ RowPlace' \in RowPlace..(Len(log) + 1)
<1>1. PICK l \in Nat : l = Len(log)
  BY InvFacts
<1>2. PICK m \in 1..(l + 1) : m = pos
  BY <1>1, InvFacts
<1>3. PICK n \in Nat : n = pos' /\ m <= n /\ n <= l + 1
  BY <1>1, <1>2, StepFacts
<1>4. "idle" \notin Decoded /\ Inserted \subseteq Decoded
  BY DEF Decoded, Inserted, AddingKeys, Permissions
<1>5. pc # "idle" => m <= l
  BY <1>1, <1>2, InvFacts DEF PlaceOK
<1>6. /\ pc \in Decoded => m <= l /\ (n = m => pc' \in Decoded)
      /\ pc \in Inserted => m <= l /\ (n = m => pc' \in Inserted)
      /\ pc' \in Decoded => n = m /\ m <= l
      /\ pc' \in Inserted => n = m /\ m <= l
  BY <1>2, <1>3, <1>4, <1>5, Stages
<1>7. /\ AbiPlace = IF pc \in Decoded THEN m + 1 ELSE m
      /\ AbiPlace' = IF pc' \in Decoded THEN n + 1 ELSE n
      /\ RowPlace = IF pc \in Inserted THEN m + 1 ELSE m
      /\ RowPlace' = IF pc' \in Inserted THEN n + 1 ELSE n
  BY <1>2, <1>3 DEF AbiPlace, RowPlace
<1>8. PICK a : a = AbiPlace
  OBVIOUS
<1>9. PICK b : b = AbiPlace'
  OBVIOUS
<1>10. PICK c : c = RowPlace
  OBVIOUS
<1>11. PICK d : d = RowPlace'
  OBVIOUS
<1>12. m \in Nat /\ m + 1 # m
  BY <1>1, <1>2
<1>13. a \in 1..(l + 1) /\ b \in a..(l + 1)
  <2>1. /\ a = m \/ (a = m + 1 /\ m <= l)
        /\ b = n \/ (b = n + 1 /\ n = m /\ m <= l)
        /\ a = m + 1 /\ n = m => b = n + 1
    BY <1>6, <1>7, <1>8, <1>9, <1>12
  <2> QED
    BY <1>3, <2>1, PlaceArithmetic
<1>14. c \in 1..(l + 1) /\ d \in c..(l + 1)
  <2>1. /\ c = m \/ (c = m + 1 /\ m <= l)
        /\ d = n \/ (d = n + 1 /\ n = m /\ m <= l)
        /\ c = m + 1 /\ n = m => d = n + 1
    BY <1>6, <1>7, <1>10, <1>11, <1>12
  <2> QED
    BY <1>3, <2>1, PlaceArithmetic
<1> QED
  BY <1>1, <1>8, <1>9, <1>10, <1>11, <1>13, <1>14, SMTT(30)

LEMMA AbiStep ==
  ASSUME IInv, [Next]_vars
  PROVE  AbiFollows(AbiPlace)'
<1>1. /\ Grows /\ LogInv /\ Len(log) \in Nat /\ TablesOK
      /\ pc # "idle" => pos \in 1..Len(log)
  BY StepFacts, InvFacts
<1>2. PICK m \in 1..(Len(log) + 1) : m = AbiPlace
  BY PlaceBounds
<1>3. PICK n \in m..(Len(log) + 1) : n = AbiPlace'
  BY <1>2, PlaceBounds
<1>4. m \in Nat /\ n \in Nat
  BY <1>1
<1>5. AbiFollows(m)
  BY <1>2 DEF IInv
<1> SUFFICES AbiFollows(n)'
  BY <1>3
<1> SUFFICES ASSUME NEW c \in Owners, Stored(LastAbout({"setabi"}, c, n))'
             PROVE  abi'[c] = AbiAfter(c, LastAbout({"setabi"}, c, n))'
  BY DEF AbiFollows
<1>6. CASE StoreAbi /\ InHand.target = c
  <2>1. pc = "add_data" /\ pos' = pos /\ pc' = "insert" /\ InHand.name = "setabi"
    BY <1>6 DEF StoreAbi, CarriesAbi, Goto
  <2>2. PICK l \in 1..Len(log) : l = pos
    BY <1>1, <2>1
  <2>3. n = l + 1 /\ l \in Nat \ {0} /\ (l + 1) - 1 = l /\ l \in 0..l
    BY <1>1, <1>3, <2>1, <2>2 DEF AbiPlace, Decoded
  <2>4. LastAbout({"setabi"}, c, n) = l
    <3>1. log[l].name \in {"setabi"} /\ log[l].target = c
      BY <1>6, <2>1, <2>2 DEF InHand
    <3>2. \A j \in 1..(n - 1) :
            log[j].name \in {"setabi"} /\ log[j].target = c => j <= l
      BY <2>3
    <3> QED
      BY <2>3, <3>1, <3>2, LastIs
  <2>5. n \in 1..(Len(log) + 1)
    BY <1>1, <2>2, <2>3
  <2>6. LastAbout({"setabi"}, c, n)' = l
    BY <1>1, <2>4, <2>5, LastStays DEF LastAbout
  <2>7. AbiAfter(c, LastAbout({"setabi"}, c, n))' = log'[l].value
    BY <2>3, <2>6 DEF AbiAfter
  <2>8. log'[l] = InHand
    BY <1>1, <2>2 DEF Grows, InHand
  <2>9. <<pos, "add_data">> \notin failed'
    BY <2>2, <2>6 DEF Stored
  <2>10. abi' = [abi EXCEPT ![InHand.target] = InHand.value]
    BY <1>6, <2>9 DEF StoreAbi, Fails
  <2> QED
    BY <1>1, <1>6, <2>7, <2>8, <2>10 DEF TablesOK
<1>7. CASE ~(StoreAbi /\ InHand.target = c)
  <2>1. \A j \in m..(n - 1) :
          log[j].name = "setabi" /\ log[j].target = c => ~Stored(j)'
    BY <1>2, <1>3, <1>4, <1>7, StoredHere DEF InHand
  <2>2. /\ Stored(LastAbout({"setabi"}, c, m))
        /\ AbiAfter(c, LastAbout({"setabi"}, c, n))' = AbiAfter(c, LastAbout({"setabi"}, c, m))
    BY <1>1, <2>1, AbiKept
  <2>3. abi[c] = AbiAfter(c, LastAbout({"setabi"}, c, m))
    BY <1>5, <2>2 DEF AbiFollows
  <2>4. abi'[c] = abi[c]
    <3>1. CASE StoreAbi
      <4>1. abi' = abi \/ abi' = [abi EXCEPT ![InHand.target] = InHand.value]
        BY <3>1 DEF StoreAbi
      <4> QED
        BY <1>1, <1>7, <3>1, <4>1 DEF TablesOK
    <3>2. ASSUME NEW replay \in BOOLEAN, Restart(replay) PROVE abi'[c] = abi[c]
      <4>1. abi' = abi \/ abi' = [abi EXCEPT !["eosio"] = IF @ = None THEN BuiltIn ELSE @]
        BY <3>2 DEF Restart
      <4>2. c = "eosio" => abi[c] # None
        BY <2>2, <2>3 DEF Stored, AbiAfter, None, BuiltIn
      <4> QED
        BY <1>1, <4>1, <4>2 DEF TablesOK
    <3>3. ChainStep => abi' = abi
      BY InvFacts, ChainStepFacts DEF worker
    <3>4. Quiet => abi' = abi
      BY DEF Quiet, Begin, DecodeData, ThrowOut, InsertAction, NothingToWrite, NewAccount,
             NextPermission
    <3>5. CASE AccountRow \/ VoteProducer \/ Propose \/ CancelOrExec \/ Create
               \/ \E p \in Permissions : KeyRow(p)
      BY <3>5 DEF AccountRow, KeyRow, VoteProducer, Propose, CancelOrExec, Create
    <3> QED
      BY <3>1, <3>2, <3>3, <3>4, <3>5, Steps DEF Writing
  <2> QED
    BY <2>2, <2>3, <2>4
<1> QED
  BY <1>6, <1>7

Restarts == \E replay \in BOOLEAN : Restart(replay)

LEMMA ActionsGrow ==
  ASSUME IInv, [Next]_vars
  PROVE  /\ actions \subseteq actions'
         /\ ~InsertAction => actions' = actions
         /\ \A row \in actions' : row \in actions \/ (row.at = pos /\ row.data = data)
<1>1. ChainStep => actions' = actions
  BY InvFacts, ChainStepFacts DEF worker
<1>2. Quiet /\ ~InsertAction => actions' = actions
  BY DEF Quiet, Begin, DecodeData, ThrowOut, NothingToWrite, NewAccount, NextPermission
<1>3. InsertAction => actions \subseteq actions'
  BY DEF InsertAction
<1>4. Writing => actions' = actions
  BY DEF Writing, StoreAbi, AccountRow, KeyRow, VoteProducer, Propose, CancelOrExec, Create
<1>5. actions' = actions \/ actions' = actions \cup {[at |-> pos, data |-> data]}
  BY <1>1, <1>2, <1>4, Steps DEF Restart, InsertAction
<1>6. \A row \in actions' : row \in actions \/ row = [at |-> pos, data |-> data]
  BY <1>5
<1>7. Restarts => actions' = actions
  BY DEF Restarts, Restart
<1>8. ~InsertAction => actions' = actions
  BY <1>1, <1>2, <1>4, <1>7, Steps DEF Restarts
<1>9. ASSUME NEW row, row = [at |-> pos, data |-> data] PROVE row.at = pos /\ row.data = data
  BY <1>9
<1> QED
  BY <1>3, <1>6, <1>8, <1>9

(* Which action the worker passes the INSERT of, if it did not fail. *)
LEMMA InsertedHere ==
  ASSUME IInv, [Next]_vars, NEW m \in Nat, m = RowPlace, NEW n \in Nat, n = RowPlace',
         NEW j \in m..(n - 1), Handed(j)', <<j, "insert">> \notin failed'
  PROVE  j = pos /\ InsertAction
<1>1. /\ Len(log) \in Nat /\ pos \in Nat \ {0} /\ j \in Nat /\ j < n /\ m <= j
      /\ pos' \in Nat /\ pos <= pos' /\ pos' <= Len(log) + 1
  <2>1. Len(log) \in Nat /\ pos \in Nat \ {0}
    BY InvFacts
  <2>2. j \in Nat /\ j < n /\ m <= j
    BY Between
  <2> QED
    BY <2>1, <2>2, StepFacts
<1>2. /\ m = IF pc \in Inserted THEN pos + 1 ELSE pos
      /\ n = IF pc' \in Inserted THEN pos' + 1 ELSE pos'
  BY DEF RowPlace
<1>3. pos <= j
  BY <1>1, <1>2
<1>4. "insert" \in Calls /\ "idle" \notin Inserted
  BY DEF Calls, Inserted, AddingKeys, Permissions
<1>5. pos' = pos /\ (pc \in Inserted \/ pc' \notin Inserted) => FALSE
  BY <1>1, <1>2
<1>6. pos' = pos + 1 /\ pc \in Inserted /\ pc' \notin Inserted => FALSE
  BY <1>1, <1>2
<1>7. ~ChainStep
  <2>1. ChainStep => pos' = pos /\ pc' = pc
    BY InvFacts, ChainStepFacts DEF worker
  <2> QED
    BY <1>5, <2>1
<1>8. ASSUME pc' = "idle", \A i \in pos..(pos' - 1) : <<i, "insert">> \in failed'
      PROVE  FALSE
  <2>1. n = pos'
    BY <1>2, <1>4, <1>8
  <2>2. j \in pos..(pos' - 1)
    BY <1>1, <1>3, <2>1, InSlice
  <2> QED
    BY <1>8, <2>2
<1>9. ~(\E replay \in BOOLEAN : Restart(replay))
  BY <1>4, <1>8, InvFacts, RestartFailed DEF Restart
<1>10. ~ThrowOut
  BY <1>4, <1>8, InvFacts, ThrowOutFailed DEF ThrowOut
<1>11. ~Begin
  <2> SUFFICES ASSUME Begin PROVE FALSE
    OBVIOUS
  <2>1. pos \in 1..Len(log) /\ pc' \notin Inserted
    <3>1. pos \in 1..Len(log)
      BY <1>1 DEF Begin
    <3> QED
      BY <3>1 DEF Begin, Goto, Done, Inserted, AddingKeys, Permissions
  <2>2. pos' = pos + 1 /\ ~Handed(pos)
    BY <1>5, <2>1 DEF Begin, Goto, Done, NextPos
  <2>3. j = pos
    BY <1>1, <1>2, <1>3, <2>1, <2>2
  <2>4. ~Handed(j)'
    BY <2>1, <2>2, <2>3, StepFacts, InvFacts, Harder
  <2> QED
    BY <2>4
<1>12. ~(DecodeData \/ StoreAbi)
  <2>1. DecodeData \/ StoreAbi => pos' = pos /\ pc' \notin Inserted
    BY DEF DecodeData, StoreAbi, Goto, Inserted, AddingKeys, Permissions
  <2> QED
    BY <1>5, <2>1
<1>13. CASE InsertAction
  <2>1. pos' = pos /\ pc = "insert" /\ pc' \in Inserted
    BY <1>13 DEF InsertAction, Goto, Inserted
  <2>2. n = pos + 1
    BY <1>2, <2>1
  <2> QED
    BY <1>1, <1>3, <1>13, <2>2
<1>14. CASE \/ NothingToWrite \/ NewAccount \/ NextPermission \/ AccountRow
            \/ VoteProducer \/ Propose \/ CancelOrExec \/ Create
            \/ \E p \in Permissions : KeyRow(p)
  <2>1. pc \in Inserted
    BY <1>14 DEF NothingToWrite, NewAccount, NextPermission, AccountRow, KeyRow,
                 VoteProducer, Propose, CancelOrExec, Create, Parsing, Inserted, AddingKeys
  <2>2. pos' = pos \/ (pos' = pos + 1 /\ pc' = "idle")
    BY <1>14 DEF NothingToWrite, NewAccount, NextPermission, AccountRow, KeyRow,
                 VoteProducer, Propose, CancelOrExec, Create, Goto, Done, NextPos
  <2> QED
    BY <1>4, <1>5, <1>6, <2>1, <2>2
<1> QED
  BY <1>7, <1>9, <1>10, <1>11, <1>12, <1>13, <1>14, Steps DEF Quiet, Writing

LEMMA ActionsStep ==
  ASSUME IInv, [Next]_vars
  PROVE  ActionsFollow(RowPlace)'
<1>1. Grows /\ LogInv /\ Len(log) \in Nat
  BY StepFacts, InvFacts
<1>2. PICK m \in 1..(Len(log) + 1) : m = RowPlace
  BY PlaceBounds
<1>3. PICK n \in m..(Len(log) + 1) : n = RowPlace'
  BY <1>2, PlaceBounds
<1>4. m \in Nat /\ n \in Nat
  BY <1>1
<1>5. ActionsFollow(m)
  BY <1>2 DEF IInv
<1> SUFFICES ActionsFollow(n)'
  BY <1>3
<1> SUFFICES ASSUME NEW i \in 1..(n - 1), Handed(i)', <<i, "insert">> \notin failed'
             PROVE  \E row \in actions' : row.at = i
  BY DEF ActionsFollow
<1>6. i \in 1..Len(log) /\ (i \in 1..(m - 1) \/ i \in m..(n - 1))
  <2>1. PICK l \in Nat : l = Len(log)
    BY <1>1
  <2>2. m \in 1..(l + 1) /\ n \in m..(l + 1)
    BY <2>1
  <2>3. i \in 1..l /\ (i \in 1..(m - 1) \/ i \in m..(n - 1))
    BY <1>4, <2>2
  <2> QED
    BY <2>1, <2>3
<1>7. CASE i \in 1..(m - 1)
  <2>1. Handed(i) /\ <<i, "insert">> \notin failed
    BY <1>1, <1>6, Harder DEF Grows
  <2>2. PICK row \in actions : row.at = i
    BY <1>5, <1>7, <2>1 DEF ActionsFollow
  <2> QED
    BY <2>2, ActionsGrow
<1>8. CASE i \in m..(n - 1)
  <2>1. i = pos /\ InsertAction
    BY <1>2, <1>3, <1>4, <1>8, InsertedHere
  <2>2. actions' = actions \cup {[at |-> pos, data |-> data]}
    BY <2>1 DEF InsertAction, Fails
  <2>3. [at |-> pos, data |-> data] \in actions' /\ [at |-> pos, data |-> data].at = i
    BY <2>1, <2>2
  <2> QED
    BY <2>3
<1> QED
  BY <1>6, <1>7, <1>8

LEMMA InHandStep ==
  ASSUME IInv, [Next]_vars
  PROVE  InHandInv'
<1>1. /\ InHandInv /\ Grows /\ LogInv /\ Len(log) \in Nat /\ TablesOK /\ TypeOK
      /\ pos' \in Nat /\ pos <= pos' /\ pos \in Nat \ {0}
      /\ pc # "idle" => pos \in 1..Len(log)
  BY StepFacts, InvFacts DEF IInv
<1>2. \A row \in actions' : row.at <= pos'
  <2>1. \A row \in actions : row.at \in 1..Len(log)
    BY <1>1, InvFacts DEF TablesOK
  <2>2. \A row \in actions : row.at \in Nat
    BY <1>1, <2>1
  <2>3. \A row \in actions : row.at <= pos
    BY <1>1 DEF InHandInv
  <2>4. \A row \in actions' : row \in actions \/ row.at = pos
    BY ActionsGrow
  <2>5. \A row \in actions : row.at <= pos'
    BY <1>1, <2>2, <2>3
  <2> QED
    BY <1>1, <2>4, <2>5
<1>3. CASE ChainStep
  <2>1. pos' = pos /\ pc' = pc /\ data' = data /\ failed' = failed
    BY <1>3, InvFacts, ChainStepFacts DEF worker
  <2>2. pc # "idle" => InHand' = InHand /\ Handed(pos)'
    BY <2>1, InHandStays
  <2>3. pc # "idle" /\ KnowsAbiOf(pos)' => KnowsAbiOf(pos)
    <3>1. PICK m : m = pos
      OBVIOUS
    <3>2. pc # "idle" /\ KnowsAbiOf(m)' => KnowsAbiOf(m)
      BY <1>1, <3>1, Harder
    <3> QED
      BY <2>1, <3>1, <3>2
  <2> QED
    BY <1>1, <1>2, <2>1, <2>2, <2>3 DEF InHandInv, AddingKeys, Permissions
<1>4. CASE pc' = "idle"
  BY <1>2, <1>4 DEF InHandInv, AddingKeys, Permissions
<1>5. CASE Begin /\ pc' # "idle"
  <2>1. pos' = pos /\ pc' = "add_data" /\ Handed(pos) /\ log' = log
    BY <1>5 DEF Begin, Goto, Done, chain
  <2>2. Handed(pos)'
    BY <2>1 DEF Handed
  <2> QED
    BY <1>2, <2>1, <2>2 DEF InHandInv, AddingKeys, Permissions
<1>6. CASE DecodeData \/ StoreAbi
  <2>1. pc = "add_data" /\ pos' = pos /\ pc' = "insert" /\ pc # "idle"
    BY <1>6 DEF DecodeData, StoreAbi, Goto
  <2>2. Handed(pos)'
    BY <2>1, InHandStays
  <2>3. ASSUME KnowsAbiOf(pos)' PROVE data' = "right" \/ <<pos, "add_data">> \in failed'
    <3>1. PICK m : m = pos
      OBVIOUS
    <3>2. KnowsAbiOf(m)' => KnowsAbiOf(m)
      BY <1>1, <2>1, <3>1, Harder
    <3>3. KnowsAbiOf(pos)
      BY <2>1, <2>3, <3>1, <3>2
    <3>4. AbiFollows(pos)
      BY <2>1 DEF IInv, AbiPlace, Decoded, Inserted, AddingKeys, Permissions
    <3>5. Readings(KnownAbi) = {"right"}
      BY <1>1, <2>1, <3>3, <3>4, ReadRight
    <3> QED
      BY <1>6, <3>5 DEF DecodeData, StoreAbi, Fails
  <2> QED
    BY <1>2, <2>1, <2>2, <2>3 DEF InHandInv, AddingKeys, Permissions
<1>7. ASSUME pc # "idle", pos' = pos, pc' # "insert",
             pc' \in AddingKeys => InHand.name = "newaccount"
      PROVE  InHandInv'
  <2>1. InHand' = InHand /\ Handed(pos)'
    BY <1>7, InHandStays
  <2> QED
    BY <1>2, <1>7, <2>1 DEF InHandInv
<1>8. CASE InsertAction
  BY <1>7, <1>8 DEF InsertAction, Goto, AddingKeys, Permissions
<1>9. CASE NewAccount
  BY <1>7, <1>9 DEF NewAccount, Parsing, Goto, FirstOfAccount
<1>10. CASE AccountRow \/ NextPermission \/ \E p \in Permissions : KeyRow(p)
  <2>1. pc \in AddingKeys /\ (pc' = "idle" \/ (pos' = pos /\ pc' \in AddingKeys))
    BY <1>10 DEF AccountRow, NextPermission, KeyRow, Goto, Done, AddingKeys, Permissions
  <2>2. pc # "idle" /\ "insert" \notin AddingKeys /\ InHand.name = "newaccount"
    BY <1>1, <2>1 DEF AddingKeys, Permissions, InHandInv
  <2> QED
    BY <1>4, <1>7, <2>1, <2>2
<1>11. NothingToWrite \/ VoteProducer \/ Propose \/ CancelOrExec \/ Create \/ ThrowOut
         => pc' = "idle"
  BY DEF NothingToWrite, VoteProducer, Propose, CancelOrExec, Create, Done, ThrowOut
<1>12. (\E replay \in BOOLEAN : Restart(replay)) => pc' = "idle"
  BY DEF Restart
<1> QED
  BY <1>3, <1>4, <1>5, <1>6, <1>8, <1>9, <1>10, <1>11, <1>12, Steps DEF Quiet, Writing

(* The rows of actions keep what they are, and get no easier to claim. *)
LEMMA DecodedStep ==
  ASSUME IInv, [Next]_vars
  PROVE  DecodedAsExecuted'
<1>1. Grows /\ LogInv /\ DOMAIN log = 1..Len(log) /\ TablesOK /\ InHandInv /\ DecodedAsExecuted
  BY StepFacts, InvFacts DEF IInv
<1> SUFFICES ASSUME NEW row \in actions', KnowsAbiOf(row.at)'
             PROVE  row.data = "right" \/ <<row.at, "add_data">> \in failed'
  BY DEF DecodedAsExecuted
<1>2. CASE row \in actions
  <2>1. row.at \in 1..Len(log)
    BY <1>1, <1>2 DEF TablesOK
  <2>2. KnowsAbiOf(row.at)
    BY <1>1, <2>1, Harder
  <2> QED
    BY <1>1, <1>2, <2>2 DEF DecodedAsExecuted, Grows
<1>3. CASE row \notin actions
  <2>1. InsertAction
    BY <1>3, ActionsGrow
  <2>2. row.at = pos /\ row.data = data /\ pc = "insert"
    BY <1>3, <2>1, ActionsGrow DEF InsertAction
  <2>3. row.at \in 1..Len(log)
    BY <2>2, InvFacts
  <2>4. KnowsAbiOf(row.at)
    BY <1>1, <2>3, Harder
  <2> QED
    BY <1>1, <2>2, <2>4 DEF InHandInv, Grows
<1> QED
  BY <1>2, <1>3

-----------------------------------------------------------------------------
(* The invariant.                                                          *)

LEMMA InitInv ==
  Init => IInv
<1> SUFFICES ASSUME Init PROVE IInv
  OBVIOUS
<1>1. /\ log = <<>> /\ branch = <<>> /\ pos = 1 /\ pc = "idle" /\ actions = {}
      /\ data = "{}" /\ left = 0
  BY DEF Init
<1>2. Len(log) = 0 /\ DOMAIN log = {} /\ 1..Len(log) = {}
  <2>1. Len(<<>>) = 0
    OBVIOUS
  <2>2. DOMAIN <<>> = 1..0
    BY <2>1, EmptySeq, LenProperties
  <2>3. 1..0 = {}
    OBVIOUS
  <2> QED
    BY <1>1, <2>1, <2>2, <2>3
<1>3. TypeOK
  <2>1. branch \in Seq(DOMAIN log)
    BY <1>1, EmptySeq
  <2>2. PlaceOK
    <3>1. 1 \in 1..(0 + 1)
      OBVIOUS
    <3> QED
      BY <1>1, <1>2, <3>1 DEF PlaceOK
  <2>3. StageOK
    BY <1>1 DEF StageOK
  <2>4. abi \in [Owners -> AnyAbi]
    BY DEF Init, AnyAbi
  <2>5. TablesOK
    BY <1>1, <2>4 DEF Init, TablesOK
  <2>6. FailedOK
    <3>1. failed = {} \/ failed = {<<0, "add_data">>}
      BY DEF Init
    <3>2. 0 \in 0..0 /\ "add_data" \in Calls
      BY DEF Calls
    <3> QED
      BY <1>2, <3>1, <3>2 DEF FailedOK
  <2> QED
    BY <2>1, <2>2, <2>3, <2>5, <2>6, TypeParts
<1>4. LogInv
  <2>1. log \in Seq(Entries)
    BY <1>1, EmptySeq
  <2> QED
    BY <1>2, <2>1 DEF LogInv
<1>5. "idle" \notin Decoded /\ Inserted \subseteq Decoded /\ AddingKeys \subseteq Inserted
      /\ Permissions \subseteq AddingKeys
  BY DEF Decoded, Inserted, AddingKeys, Permissions
<1>6. InHandInv
  BY <1>1, <1>5 DEF InHandInv
<1>7. AbiPlace = 1 /\ RowPlace = 1
  BY <1>1, <1>5 DEF AbiPlace, RowPlace
<1>8. \A names, target : LastAbout(names, target, 1) = 0
  <2> TAKE names, target
  <2>1. 0 \in 0..(1 - 1) /\ 1 \in Nat \ {0} /\ 1..(1 - 1) = {}
    OBVIOUS
  <2> QED
    BY <2>1, LastIs
<1>9. AbiFollows(1)
  <2>1. \A c \in Owners : Stored(0) => abi[c] = AbiAfter(c, 0)
    <3>1. Stored(0) => <<0, "add_data">> \notin failed
      BY DEF Stored
    <3>2. \/ abi = [c \in Owners |-> IF c = "eosio" THEN BuiltIn ELSE None]
          \/ <<0, "add_data">> \in failed
      BY DEF Init
    <3>3. \A c : AbiAfter(c, 0) = IF c = "eosio" THEN BuiltIn ELSE None
      <4>1. ~(0 > 0)
        OBVIOUS
      <4> QED
        BY <4>1 DEF AbiAfter
    <3> QED
      BY <3>1, <3>2, <3>3
  <2> QED
    BY <1>8, <2>1 DEF AbiFollows
<1>10. ActionsFollow(1)
  BY DEF ActionsFollow
<1>11. KeysInv
  <2>1. \A p \in Permissions : keys[p] = 0
    BY DEF Init
  <2>2. KeysHaveAccount
    <3>1. ~(0 > 0)
      OBVIOUS
    <3> QED
      BY <2>1, <3>1 DEF KeysHaveAccount
  <2> QED
    BY <1>1, <2>2 DEF KeysInv, Permissions
<1>12. VotesFollow(1) /\ ProposalsFollow(1) /\ AccountFollows(1)
  <2>1. votes = [v \in Voters |-> None] /\ proposal = [p \in Proposals |-> None]
        /\ account = FALSE
    BY DEF Init
  <2>2. ~(0 > 0)
    OBVIOUS
  <2>3. \A names, target : Said(names, target, 1) = None
    BY <1>8, <2>2 DEF Said
  <2>4. VotesFollow(1) /\ ProposalsFollow(1)
    BY <2>1, <2>3 DEF VotesFollow, ProposalsFollow
  <2>5. AccountFollows(1)
    <3>1. (LastAbout({"newaccount"}, "alice", 1) > 0) = FALSE
      BY <1>8, <2>2
    <3> QED
      BY <2>1, <3>1 DEF AccountFollows
  <2> QED
    BY <2>4, <2>5
<1>13. AssetsFollow(1) /\ Bounded
  <2>1. assets = [s \in Symbols |-> 0]
    BY DEF Init
  <2>2. AssetsFollow(1)
    BY <1>8, <2>1 DEF AssetsFollow
  <2>3. 0 \in Nat /\ \A s \in Symbols : assets[s] <= 0
    BY <2>1
  <2> QED
    BY <2>2, <2>3 DEF Bounded
<1>14. RowsInv
  BY <1>1, <1>12, <1>13 DEF RowsInv, Bounded
<1>15. DecodedAsExecuted
  BY <1>1 DEF DecodedAsExecuted
<1> QED
  BY <1>3, <1>4, <1>6, <1>7, <1>9, <1>10, <1>11, <1>14, <1>15 DEF IInv

LEMMA StepInv ==
  IInv /\ [Next]_vars => IInv'
<1> SUFFICES ASSUME IInv, [Next]_vars PROVE IInv'
  OBVIOUS
<1>1. TypeOK' /\ LogInv'
  BY StepFacts
<1>2. InHandInv' /\ AbiFollows(AbiPlace)' /\ ActionsFollow(RowPlace)'
  BY InHandStep, AbiStep, ActionsStep
<1>3. KeysInv' /\ RowsInv' /\ DecodedAsExecuted'
  BY KeysStep, RowsStep, DecodedStep
<1> QED
  BY <1>1, <1>2, <1>3 DEF IInv

(* The invariant of the tables holds in every reachable state. *)
THEOREM Invariance ==
  Spec => []IInv
BY InitInv, StepInv, PTL DEF Spec

(* Every variable keeps its type. *)
THEOREM TypeCorrectness ==
  Spec => []TypeOK
<1>1. IInv => TypeOK
  BY DEF IInv
<1> QED
  BY <1>1, Invariance, PTL

(* parse_actions inserts the keys of an account only behind its row. *)
THEOREM KeysOfAccounts ==
  Spec => []KeysHaveAccount
<1>1. IInv => KeysHaveAccount
  BY DEF IInv, KeysInv
<1> QED
  BY <1>1, Invariance, PTL

(* add_data decodes with the ABI that the action was executed under, if    *)
(* the last setabi signalled before it stored this one.                    *)
THEOREM DecodedRight ==
  Spec => []DecodedAsExecuted
<1>1. IInv => DecodedAsExecuted
  BY DEF IInv
<1> QED
  BY <1>1, Invariance, PTL

LEMMA Idle ==
  ASSUME IInv, pos > Len(log)
  PROVE  /\ pc = "idle" /\ AbiPlace = pos /\ RowPlace = pos /\ pc \notin Permissions
         /\ pos = Len(log) + 1
<1>1. Len(log) \in Nat /\ pos \in Nat \ {0} /\ pos <= Len(log) + 1
  BY InvFacts
<1>2. pc = "idle"
  <2>1. pc # "idle" => pos <= Len(log)
    BY InvFacts DEF PlaceOK
  <2> QED
    BY <1>1, <2>1
<1>3. pos = Len(log) + 1
  BY <1>1
<1> QED
  BY <1>2, <1>3 DEF AbiPlace, RowPlace, Decoded, Inserted, AddingKeys, Permissions

(* Once the worker has caught up, each row is as the last action signalled *)
(* about it says, if this one was handed to add(), was read with its own   *)
(* ABI and did not fail.                                                   *)
THEOREM RowsFollow ==
  Spec => []CaughtUpMirrors
<1>1. IInv => CaughtUpMirrors
  <2> SUFFICES ASSUME IInv, pos > Len(log)
               PROVE  /\ AbiFollows(pos) /\ AccountFollows(pos) /\ VotesFollow(pos)
                      /\ ProposalsFollow(pos) /\ AssetsFollow(pos) /\ ActionsFollow(pos)
    BY DEF CaughtUpMirrors
  <2> QED
    BY Idle DEF IInv, RowsInv
<1> QED
  BY <1>1, Invariance, PTL

(* What stands on the branch last is the last that was signalled. *)
LEMMA StandsLatest ==
  ASSUME IInv, pos > Len(log), NEW names, NEW target, Stands(names, target, pos), NEW default
  PROVE  LET i == LastAbout(names, target, pos) IN
         Latest(OnBranch(names, target), default) = IF i > 0 THEN log[i].value ELSE default
<1>1. Len(log) \in Nat /\ ToSet(branch) \subseteq 1..Len(log)
  BY InvFacts, BranchPlaces
<1>2. PICK n \in Nat \ {0} : n = pos /\ n = Len(log) + 1
  BY <1>1, Idle
<1>3. PICK i : i = LastAbout(names, target, n)
  OBVIOUS
<1>4. /\ i \in 0..(n - 1)
      /\ i > 0 => log[i].name \in names /\ log[i].target = target
      /\ \A j \in 1..(n - 1) : log[j].name \in names /\ log[j].target = target => j <= i
  BY <1>3, LastPlace
<1>5. i \in {0} \cup ToSet(branch)
  BY <1>2, <1>3 DEF Stands
<1> DEFINE S == OnBranch(names, target)
<1>6. S \subseteq 1..Len(log) /\ \A j \in S : j <= i
  <2>1. \A j \in S : /\ j \in 1..Len(log)
                     /\ log[j].name \in names /\ log[j].target = target
    BY <1>1 DEF OnBranch, About
  <2>2. n - 1 = Len(log)
    BY <1>1, <1>2
  <2> QED
    BY <1>4, <2>1, <2>2
<1>7. CASE i > 0
  <2>1. i \in S
    BY <1>4, <1>5, <1>7 DEF OnBranch, About
  <2>2. \A j \in S : j \in Nat
    BY <1>1, <1>6
  <2> HIDE DEF S
  <2>3. Max(S) = i /\ S # {}
    BY <1>6, <2>1, <2>2, NewGreatest
  <2>4. Latest(S, default) = log[i].value
    BY <2>3 DEF Latest
  <2> QED
    BY <1>2, <1>3, <1>7, <2>4 DEF S
<1>8. CASE ~(i > 0)
  <2>1. \A j \in 1..Len(log) : ~(j <= i)
    BY <1>1, <1>4, <1>8
  <2>2. S = {}
    BY <1>6, <2>1
  <2> HIDE DEF S
  <2>3. Latest(S, default) = default
    BY <2>2 DEF Latest
  <2> QED
    BY <1>2, <1>3, <1>8, <2>3 DEF S
<1> QED
  BY <1>7, <1>8

(* The ABIs, votes and proposals are then those of the chain, unless the   *)
(* last action about them was undone.                                      *)
THEOREM TablesHoldTheChain ==
  Spec => []CaughtUpHolds
<1>1. IInv => CaughtUpHolds
  <2> SUFFICES ASSUME IInv, pos > Len(log) PROVE CaughtUpHolds
    BY DEF CaughtUpHolds
  <2>1. AbiFollows(pos) /\ VotesFollow(pos) /\ ProposalsFollow(pos)
    BY Idle DEF IInv, RowsInv
  <2>2. ASSUME NEW c \in Owners, Stands({"setabi"}, c, pos),
               Stored(LastAbout({"setabi"}, c, pos))
        PROVE  abi[c] = ChainAbi(c)
    <3>1. abi[c] = AbiAfter(c, LastAbout({"setabi"}, c, pos))
      BY <2>1, <2>2 DEF AbiFollows
    <3> QED
      BY <2>2, <3>1, StandsLatest DEF ChainAbi, AbiAfter
  <2>3. ASSUME NEW v \in Voters, Stands({"voteproducer"}, v, pos),
               Clear({"voteproducer"}, v, pos)
        PROVE  votes[v] = ChainVotes(v)
    <3>1. votes[v] = Said({"voteproducer"}, v, pos)
      BY <2>1, <2>3 DEF VotesFollow
    <3> QED
      BY <2>3, <3>1, StandsLatest DEF ChainVotes, Said
  <2>4. ASSUME NEW p \in Proposals, Stands(Proposing, p, pos), Clear(Proposing, p, pos)
        PROVE  proposal[p] = ChainProposal(p)
    <3>1. proposal[p] = Said(Proposing, p, pos)
      BY <2>1, <2>4 DEF ProposalsFollow
    <3> QED
      BY <2>4, <3>1, StandsLatest DEF ChainProposal, Said
  <2> QED
    BY <2>2, <2>3, <2>4 DEF CaughtUpHolds
<1> QED
  BY <1>1, Invariance, PTL

(* A step of parse_actions changes no other row than that of the action in *)
(* hand, and changes it to what this one says.                             *)
THEOREM OnlyRowsOfActions ==
  Spec => NoPhantomRows
<1> DEFINE Own ==
      \/ UNCHANGED <<votes, proposal, assets>>
      \/ ~KnowsAbiOf(pos)
      \/ /\ \A v \in Voters :
              votes'[v] # votes[v] => v = InHand.target /\ votes'[v] = InHand.value
         /\ \A p \in Proposals :
              proposal'[p] # proposal[p] => p = InHand.target /\ proposal'[p] = InHand.value
         /\ \A s \in Symbols : assets'[s] # assets[s] => s = InHand.target
<1>1. ASSUME IInv, [Next]_vars PROVE [Own]_vars
  <2> SUFFICES ASSUME KnowsAbiOf(pos) PROVE Own
    OBVIOUS
  <2>1. TablesOK
    BY <1>1, InvFacts
  <2>2. CASE VoteProducer
    <3>1. Readings(ParseAbi) = {"right"}
      BY <1>1, <2>2, ParsedRight DEF VoteProducer, Parsing
    <3>2. votes' = [votes EXCEPT ![InHand.target] = InHand.value]
          /\ proposal' = proposal /\ assets' = assets
      BY <2>2, <3>1 DEF VoteProducer, Parsing
    <3> QED
      BY <2>1, <3>2 DEF TablesOK
  <2>3. CASE Propose \/ CancelOrExec
    <3>1. Readings(ParseAbi) = {"right"}
      BY <1>1, <2>3, ParsedRight DEF Propose, CancelOrExec, Parsing
    <3>2. InHand.name \in {"cancel", "exec"} => InHand.value = None
      <4>1. pc = "parse_actions"
        BY <2>3 DEF Propose, CancelOrExec, Parsing
      <4> QED
        BY <1>1, <4>1, InvFacts, InHandEntry DEF WellMade
    <3>3. proposal' = [proposal EXCEPT ![InHand.target] = InHand.value]
          /\ votes' = votes /\ assets' = assets
      BY <2>3, <3>1, <3>2 DEF Propose, CancelOrExec, Parsing
    <3> QED
      BY <2>1, <3>3 DEF TablesOK
  <2>4. CASE Create
    <3>1. Readings(ParseAbi) = {"right"}
      BY <1>1, <2>4, ParsedRight DEF Create, Parsing
    <3>2. assets' = [assets EXCEPT ![InHand.target] = NextId]
          /\ votes' = votes /\ proposal' = proposal
      BY <2>4, <3>1 DEF Create, Parsing, Replaced
    <3> QED
      BY <2>1, <3>2 DEF TablesOK
  <2>5. CASE ~(VoteProducer \/ Propose \/ CancelOrExec \/ Create)
    <3>1. ChainStep => UNCHANGED <<votes, proposal, assets>>
      BY <1>1, InvFacts, ChainStepFacts DEF worker, side
    <3>2. Quiet => UNCHANGED <<votes, proposal, assets>>
      BY DEF Quiet, Begin, DecodeData, ThrowOut, InsertAction, NothingToWrite, NewAccount,
             NextPermission, side
    <3>3. Writing => UNCHANGED <<votes, proposal, assets>>
      BY <2>5 DEF Writing, StoreAbi, AccountRow, KeyRow, side
    <3> QED
      BY <1>1, <3>1, <3>2, <3>3, Steps DEF Restart, side
  <2> QED
    BY <2>2, <2>3, <2>4, <2>5
<1>2. [][Own]_vars => NoPhantomRows
  BY PTL DEF NoPhantomRows
<1> QED
  BY <1>1, <1>2, Invariance, PTL DEF Spec

=============================================================================
