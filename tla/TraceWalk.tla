----------------------------- MODULE TraceWalk -----------------------------
(***************************************************************************)
(* How one transaction trace becomes rows: consume_transaction_trace and   *)
(* dfs_inline_traces of db/database.cpp, with the outcomes that            *)
(* actions_table::add of db/actions_table.cpp can have for an action.      *)
(*                                                                         *)
(* The trace is a forest of actions, numbered 1, 2, 3... in the order they *)
(* were executed: an action before the actions and notifications in its    *)
(* inline_traces.  The walk runs in one worker thread; what varies is the  *)
(* trace and which database statements fail.  An operator whose name       *)
(* starts with Faulty is a seeded bug and is not used by Next.             *)
(***************************************************************************)
EXTENDS Naturals, Sequences

CONSTANT MaxActions   \* bound of the model: actions in the trace

ASSUME TraceWalkAssumption == MaxActions \in Nat \ {0}

Kinds ==
  {"notified",    \* receipt.receiver is not act.account: another contract is told
   "other",       \* act.name is not in sql_db-action-filter-on
   "filtered",    \* act.name is in the filter
   "unreadable"}  \* so too, but its decoded data is no system_contract_arg

Saved == {"filtered", "unreadable"}

VARIABLES
  parent,    \* the action whose inline_traces hold it, 0 for action_traces
  kind,      \* what the code can tell of each action
  status,    \* where consume_transaction_trace is
  frames,    \* the active calls of dfs_inline_traces, outermost first: the
             \* elements of each one's trace that its loop has not reached
  current,   \* the action being added
  added,     \* history: the actions add() found in the filter, in its order
  rows,      \* table actions: the actions inserted, in insertion order
  parsed     \* the actions whose parse_actions ended normally

trace == <<parent, kind>>
tables == <<added, rows, parsed>>
vars == <<parent, kind, status, frames, current, added, rows, parsed>>

\* Numbering the actions of a forest as they were executed never crosses: an
\* action is inside the one before it, or beside it or one of its ancestors.
InExecutionOrder(p) ==
  \A j \in DOMAIN p :
    p[j] < j /\ \A i \in 1..(j - 1) : i <= p[j] \/ p[j] <= p[i]

Actions == DOMAIN parent

Inline(n) == {m \in Actions : parent[m] = n}

Init ==
  /\ \E size \in 1..MaxActions :
       /\ parent \in {p \in [1..size -> 0..(size - 1)] : InExecutionOrder(p)}
       /\ kind \in [1..size -> Kinds]
  /\ status = "start"
  /\ frames = <<>>
  /\ current = 0
  /\ added = <<>>
  /\ rows = <<>>
  /\ parsed = {}

-----------------------------------------------------------------------------
FaultyTopLevel == {0}
TopLevel == Inline(0)

\* get_session leases a connection and reconnects it, twice if need be; when
\* that throws the consumer logs it and the trace is lost.
GetSession ==
  /\ status = "start"
  /\ \/ status' = "walk" /\ frames' = <<TopLevel>>
     \/ status' = "lost" /\ UNCHANGED frames
  /\ UNCHANGED <<trace, current, tables>>

Depth == Len(frames)

\* for (auto& atc : trace) comes to action n, the first one left.
AtAction(n) ==
  /\ status = "walk"
  /\ Depth > 0
  /\ n \in frames[Depth]
  /\ \A m \in frames[Depth] : n <= m

FaultyStepOver(n) == frames
StepOver(n) == [frames EXCEPT ![Depth] = @ \ {n}]

Notification(n) ==
  /\ AtAction(n)
  /\ kind[n] = "notified"
  /\ frames' = StepOver(n)
  /\ UNCHANGED <<trace, status, current, tables>>

FaultyDescend(n) == <<Inline(n)>> \o StepOver(n)
Descend(n) == Append(StepOver(n), Inline(n))

\* add() returns false: the walk goes into the inline traces.
NotFiltered(n) ==
  /\ AtAction(n)
  /\ kind[n] = "other"
  /\ frames' = IF Inline(n) = {} THEN StepOver(n) ELSE Descend(n)
  /\ UNCHANGED <<trace, status, current, tables>>

\* add() from its start to the INSERT.  Decoding never throws: with no ABI or
\* a failed SELECT the data is "{}", which reads as a system_contract_arg.
\* Data that was decoded and does not read as one throws out of the walk.
AddData(n) ==
  /\ AtAction(n)
  /\ kind[n] \in Saved
  /\ added' = Append(added, n)
  /\ current' = n
  /\ \/ status' = "insert" /\ frames' = StepOver(n)
     \/ kind[n] = "unreadable" /\ status' = "aborted" /\ frames' = <<>>
  /\ UNCHANGED <<trace, rows, parsed>>

\* A failing INSERT is logged and forgotten.
Insert ==
  /\ status = "insert"
  /\ status' = "parse"
  /\ rows' \in {rows, Append(rows, current)}
  /\ UNCHANGED <<trace, frames, current, added, parsed>>

FaultyIntoSaved == Append(frames, Inline(current))
IntoSaved == frames

\* Whatever parse_actions throws is logged too; add() returns true, so the
\* walk does not go into the inline traces of an action it saved.
Parse ==
  /\ status = "parse"
  /\ status' = "walk"
  /\ parsed' \in {parsed, parsed \cup {current}}
  /\ frames' = IntoSaved
  /\ UNCHANGED <<trace, current, added, rows>>

\* The end of a loop: back to the caller's loop, and at last to the consumer.
Return ==
  /\ status = "walk"
  /\ Depth > 0
  /\ frames[Depth] = {}
  /\ frames' = SubSeq(frames, 1, Depth - 1)
  /\ status' = IF Depth = 1 THEN "done" ELSE "walk"
  /\ UNCHANGED <<trace, current, tables>>

Next ==
  \/ GetSession
  \/ \E n \in Actions : Notification(n) \/ NotFiltered(n) \/ AddData(n)
  \/ Insert
  \/ Parse
  \/ Return

Spec == Init /\ [][Next]_vars

\* The worker thread is scheduled and a database statement returns.
FairSpec == Spec /\ WF_vars(Next)

-----------------------------------------------------------------------------
(* What the walk is to do, said of the trace and not of the walk.          *)

\* The actions whose inline traces, directly or not, hold action n: what was
\* executed between such an action and n is inside it too.
Enclosing(n) == {m \in 1..(n - 1) : \A k \in (m + 1)..n : parent[k] >= m}

\* Actions in the filter that the contract itself executed, and that no other
\* saved action or notification encloses.
Outermost ==
  {n \in Actions : kind[n] \in Saved /\ \A m \in Enclosing(n) : kind[m] = "other"}

Ended == status \in {"done", "lost", "aborted"}

Sorted(s) == \A i, j \in DOMAIN s : i < j => s[i] < s[j]

(* Every variable has its type. *)
TypeOK ==
  /\ status \in {"start", "walk", "insert", "parse", "done", "lost", "aborted"}
  /\ InExecutionOrder(parent)
  /\ kind \in [Actions -> Kinds]
  /\ frames \in Seq(SUBSET Actions)
  /\ current \in Actions \cup {0}
  /\ added \in Seq(Actions)
  /\ rows \in Seq(Actions)
  /\ parsed \subseteq Actions

(* The walk adds the outermost filtered actions, each once, in the order   *)
(* of execution and leaving out none before the last one added, however    *)
(* deep the inline traces nest and whatever statement fails on the way.    *)
AddedInOrder ==
  /\ Sorted(added)
  /\ \A i \in DOMAIN added :
       /\ added[i] \in Outermost
       /\ \A n \in Outermost : n < added[i] => \E j \in 1..i : added[j] = n

(* A trace walked to its end had all of its outermost filtered actions     *)
(* added; one cut short by an exception was cut at an action whose decoded *)
(* data is no system_contract_arg, and has no row for it or for any later  *)
(* action.                                                                 *)
EndedAsPromised ==
  /\ status = "done" => \A n \in Outermost : \E i \in DOMAIN added : added[i] = n
  /\ status = "lost" => added = <<>>
  /\ status = "aborted" =>
       /\ kind[current] = "unreadable"
       /\ \A i \in DOMAIN rows : rows[i] < current
       /\ \A n \in parsed : n < current

(* The table actions has its rows in execution order, with no duplicate,   *)
(* and nothing of the side tables is written for an action before its row  *)
(* was attempted.                                                          *)
RowsInOrder ==
  /\ Sorted(rows)
  /\ \A i \in DOMAIN rows : \E j \in DOMAIN added : added[j] = rows[i]
  /\ \A n \in parsed : \E i \in DOMAIN added : added[i] = n
  /\ status = "insert" =>
       current \notin parsed /\ \A i \in DOMAIN rows : rows[i] # current

(* The walk ends: the worker thread comes back for the next entry. *)
WalkEnds == <>Ended
=============================================================================
