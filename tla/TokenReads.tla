----------------------------- MODULE TokenReads -----------------------------
(***************************************************************************)
(* The balances that the API reports: get_tokens, get_all_tokens and       *)
(* get_hold_tokens of sql_db_plugin.cpp.  Each goes through a list of      *)
(* tokens (the request, a page of the SQL table assets, all of it) and     *)
(* looks each one up in the table accounts that its contract keeps for the *)
(* account on the chain.  The calls keep no state and run on the main      *)
(* thread, so an answer is a function of the state; a client that asks for *)
(* page after page sees the table assets change in between.                *)
(*                                                                         *)
(* One account stands for all.  A row of accounts is given by its symbol.  *)
(* An operator whose name starts with Faulty is a seeded bug and is not    *)
(* used by Next or by a call.                                              *)
(***************************************************************************)
EXTENDS Integers, FiniteSets, SequencesExt, FiniteSetsExt

CONSTANTS
  Contracts,   \* accounts that may have issued a token
  Symbols,     \* symbol names
  PageSize,    \* the pageSize that the client asks for
  MaxDecimals, \* decimals of a symbol, 18 in the chain
  Limit,       \* amounts are in -Limit..Limit-1, where Limit is 2^63
  MaxAssets,   \* bounds of the model: rows of assets, and of those that a
  MaxMoves     \*   REPLACE moves while a client turns pages

Broken == "broken"   \* a row that does not unpack to a valid asset

\* symbol::precision(): the power of ten for a number of decimals.
Precision[decimals \in Nat] == IF decimals = 0 THEN 1 ELSE 10 * Precision[decimals - 1]

\* The name of a symbol is made of capital letters.
ASSUME TokenReadsAssumption ==
  /\ Symbols \cap {Broken, "no table", "no row"} = {}
  /\ PageSize \in Nat \ {0}
  /\ MaxDecimals \in Nat
  /\ Limit \in Nat /\ 2 * Precision[MaxDecimals] <= Limit
  /\ MaxAssets \in Nat
  /\ MaxMoves \in Nat

Tokens == [contract : Contracts, symbol : Symbols]

NoTable == <<>>      \* the chain drops a table with its last row

VARIABLES
  declared,   \* external: the contracts whose ABI has a table accounts
  accounts,   \* external: the rows of the account at each contract, by key
  assets,     \* table assets: its tokens in the order of their ids
  offset,     \* startNum of the client's next page
  read,       \* history: the tokens its pages went through
  moves       \* history: rows that got a new id since its first page

chain == <<declared, accounts>>
client == <<offset, read, moves>>
vars == <<declared, accounts, assets, offset, read, moves>>

Init ==
  /\ declared = Contracts
  /\ accounts = [c \in Contracts |-> NoTable]
  /\ assets = <<>>
  /\ offset = 0
  /\ read = <<>>
  /\ moves = 0

-----------------------------------------------------------------------------
(* The calls.  Each has a loop of its own over its tokens, with a try around *)
(* what it does for one: those after a token that throws are handled.        *)

\* walk_key_value_table: the row at which its first lambda returns false or
\* throws; the second lambda is called when there is no table.
Walk(c, stopsAt) ==
  LET stops == {i \in DOMAIN accounts[c] : accounts[c][i] \in stopsAt}
  IN  IF accounts[c] = NoTable THEN "no table"
      ELSE IF stops = {} THEN "no row" ELSE accounts[c][Min(stops)]

\* get_abi and get_table_type throw when the ABI has no table accounts.
HasTable(c) == c \in declared

\* An entry with the balance of a row, and one made of a zero.
Has(t) == [token |-> t, held |-> TRUE]
Zero(t) == [token |-> t, held |-> FALSE]

\* get_tokens: zero for a precision that a symbol can have.
TokenEntries(t, precision) ==
  LET found == Walk(t.contract, {t.symbol, Broken})
  IN  IF ~HasTable(t.contract) \/ found = Broken THEN <<>>
      ELSE IF found = t.symbol THEN <<Has(t)>>
      ELSE IF found = "no table" /\ ~(precision > 18) THEN <<Zero(t)>>
      ELSE <<>>

\* A request that leaves its precision out has 255.
GetTokens(tokens, precision) ==
  FlattenSeq([i \in DOMAIN tokens |-> TokenEntries(tokens[i], precision)])

\* get_all_tokens: zero with the precision of the row of assets.
AllTokensEntries(t) ==
  LET found == Walk(t.contract, {t.symbol, Broken})
  IN  IF ~HasTable(t.contract) \/ found = Broken THEN <<>>
      ELSE IF found = t.symbol THEN <<Has(t)>>
      ELSE IF found = "no table" THEN <<Zero(t)>>
      ELSE <<>>

\* "order by id limit startNum, pageSize"
Page(startNum, pageSize) ==
  SubSeq(assets, startNum + 1, Min({startNum + pageSize, Len(assets)}))

GetAllTokens(startNum, pageSize) ==
  LET page == Page(startNum, pageSize)
  IN  IF startNum < 0 \/ pageSize < 0 THEN <<>>
      ELSE FlattenSeq([i \in DOMAIN page |-> AllTokensEntries(page[i])])

\* get_hold_tokens: its second lambda is empty.
HoldTokensEntries(t) ==
  LET found == Walk(t.contract, {t.symbol, Broken})
  IN  IF ~HasTable(t.contract) \/ found # t.symbol THEN <<>> ELSE <<Has(t)>>

\* One try around the whole loop: a token that throws ends it.
FaultyGetHoldTokens ==
  LET throws == {i \in DOMAIN assets :
                   \/ ~HasTable(assets[i].contract)
                   \/ Walk(assets[i].contract, {assets[i].symbol, Broken}) = Broken}
      last == Min({Len(assets)} \cup {i - 1 : i \in throws})
  IN  FlattenSeq([i \in 1..last |-> HoldTokensEntries(assets[i])])

GetHoldTokens == FlattenSeq([i \in DOMAIN assets |-> HoldTokensEntries(assets[i])])

-----------------------------------------------------------------------------
(* asset_amount_to_string: the quantity of an entry.                       *)

Amounts == (0 - Limit)..(Limit - 1)

\* std::abs in the width of an amount: the least one has no opposite.
AbsAmount(a) == IF a >= 0 \/ a = 0 - Limit THEN a ELSE 0 - a

\* / and % of C++ round towards zero.
Quotient(a, b) == IF a >= 0 THEN a \div b ELSE 0 - ((0 - a) \div b)

Digits[n \in Nat] == IF n < 10 THEN <<n>> ELSE Append(Digits[n \div 10], n % 10)

FaultyFraction(fract, decimals) == Digits[fract]

\* The digits of precision + fract without the first: the leading zeros stay.
Fraction(fract, decimals) ==
  IF decimals = 0 THEN <<>> ELSE Tail(Digits[Precision[decimals] + fract])

AmountToString(a, decimals) ==
  LET abs == AbsAmount(a)
      whole == Quotient(abs, Precision[decimals])
  IN  [minus |-> a < 0, whole |-> whole,
       fraction |-> Fraction(abs - whole * Precision[decimals], decimals)]

-----------------------------------------------------------------------------
(* A client turns pages, the worker handles create, the chain changes.     *)

FirstPage ==
  /\ read' = Page(0, PageSize)
  /\ offset' = PageSize
  /\ moves' = 0
  /\ UNCHANGED <<chain, assets>>

NextPage ==
  /\ offset > 0 /\ Len(read) = offset   \* the page before was full
  /\ read' = read \o Page(offset, PageSize)
  /\ offset' = offset + PageSize
  /\ UNCHANGED <<chain, assets, moves>>

FaultyInserted(t) == Append(assets, t)
FaultyNewestFirst(t) == <<t>> \o RemoveFirst(assets, t)

\* REPLACE deletes the row of the token, if there is one, and inserts it anew.
Replaced(t) == Append(RemoveFirst(assets, t), t)

HandleCreate(t) ==
  /\ assets' = Replaced(t)
  /\ Len(assets') <= MaxAssets
  /\ moves' = moves + (IF Contains(assets, t) THEN 1 ELSE 0)
  /\ moves' <= MaxMoves
  /\ UNCHANGED <<chain, offset, read>>

SetAbi(c) ==
  /\ declared' = (declared \ {c}) \cup ({c} \ declared)
  /\ UNCHANGED <<accounts, assets, client>>

\* A contract writes or erases a row of the account, anywhere in key order.
Write(c, row) ==
  /\ ~Contains(accounts[c], row)
  /\ \E i \in 1..(Len(accounts[c]) + 1) :
       accounts' = [accounts EXCEPT ![c] = InsertAt(@, i, row)]
  /\ UNCHANGED <<declared, assets, client>>

Erase(c, row) ==
  /\ Contains(accounts[c], row)
  /\ accounts' = [accounts EXCEPT ![c] = RemoveFirst(@, row)]
  /\ UNCHANGED <<declared, assets, client>>

Next ==
  \/ FirstPage \/ NextPage
  \/ \E t \in Tokens : HandleCreate(t)
  \/ \E c \in Contracts :
       SetAbi(c) \/ \E row \in Symbols \cup {Broken} : Write(c, row) \/ Erase(c, row)

Spec == Init /\ [][Next]_vars

-----------------------------------------------------------------------------
(* Every variable has its type; a token has one row, a symbol one balance. *)
TypeOK ==
  /\ declared \subseteq Contracts
  /\ accounts \in [Contracts -> Seq(Symbols \cup {Broken})]
  /\ \A c \in Contracts : IsInjective(accounts[c])
  /\ assets \in Seq(Tokens) /\ IsInjective(assets) /\ Len(assets) <= MaxAssets
  /\ offset \in Nat
  /\ read \in Seq(Tokens)
  /\ moves \in 0..MaxMoves

(* A client that turns pages while the worker writes goes through the      *)
(* tokens by their ids, each once and none left out, as long as no row got *)
(* a new id.  Each REPLACE of a row that was there can hide one token from *)
(* it and show it one twice, and no more than that: new tokens never       *)
(* disturb a client, only tokens that are created again do.                *)
PagesMissOnlyMoved ==
  LET passed == SubSeq(assets, 1, Len(read)) IN
  /\ moves = 0 => read = passed
  /\ Cardinality(ToSet(passed) \ ToSet(read)) <= moves
  /\ Len(read) - Cardinality(ToSet(read)) <= moves

\* The account has a row of the symbol before any that cannot be read.
Readable(t) ==
  \E i \in DOMAIN accounts[t.contract] :
    /\ accounts[t.contract][i] = t.symbol
    /\ \A j \in 1..i : accounts[t.contract][j] # Broken

\* The entries are the balances of assets on the chain; with zero, those that
\* a contract has nothing of are among them.
Reports(entries, zero) ==
  /\ \A t \in ToSet(assets) :
       /\ Has(t) \in ToSet(entries) <=> t.contract \in declared /\ Readable(t)
       /\ Zero(t) \in ToSet(entries) <=>
            zero /\ t.contract \in declared /\ accounts[t.contract] = NoTable
  /\ \A i, j \in DOMAIN entries : entries[i].token = entries[j].token => i = j

(* In each of the three calls a token is reported with the balance that    *)
(* its contract has for the account unless a row before it cannot be read  *)
(* or the ABI names no such table, and whatever is wrong with another      *)
(* contract.  A token the account does not have is reported as zero only   *)
(* by a contract that has nothing at all for the account, never by         *)
(* get_hold_tokens and by get_tokens only with a precision that a symbol   *)
(* can have; no call reports a token twice.                                *)
HeldIsReported ==
  /\ Reports(GetAllTokens(0, MaxAssets), TRUE)
  /\ Reports(GetHoldTokens, FALSE)
  /\ \A precision \in {0, 18, 19, 255} :
       Reports(GetTokens(assets, precision), precision \in 0..18)

\* What a decimal numeral with a sign, a whole part and decimals stands for.
Numeral(text) ==
  LET places == Len(text.fraction)
      upTo[k \in 0..places] ==
        IF k = 0 THEN text.whole ELSE 10 * upTo[k - 1] + text.fraction[k]
  IN  IF text.minus THEN 0 - upTo[places] ELSE upTo[places]

\* The amounts and decimals whose text is not the amount, or has another number
\* of digits after the point.
Misread ==
  {q \in (Amounts \ {0 - Limit}) \X (0..MaxDecimals) :
     LET text == AmountToString(q[1], q[2])
     IN  Numeral(text) # q[1] \/ Len(text.fraction) # q[2]}

(* Whatever amount an account holds of a token, its quantity in an answer  *)
(* reads back as that amount, with as many digits after the point as the   *)
(* symbol has decimals: small fractions keep their zeros, and a negative   *)
(* amount has one sign.  The least amount of the type is left out: nothing *)
(* keeps it out of a row, of which the code checks the symbol only, but it *)
(* has no absolute value, and its text depends on the build.               *)
QuantitiesReadBack == GetHoldTokens # <<>> => Misread = {}
=============================================================================
