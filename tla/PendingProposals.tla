-------------------------- MODULE PendingProposals --------------------------
(***************************************************************************)
(* The multisig proposals of the plugin, from the chain and back to it:    *)
(* the main thread executes actions of eosio.msig and queues their traces, *)
(* the worker mirrors propose, cancel and exec in the table proposal       *)
(* (parse_actions of db/actions_table.cpp), and get_pending_proposals of   *)
(* sql_db_plugin.cpp, on the main thread, joins that table with the        *)
(* chain's.  The mirror may be behind the chain, keeps what was requested  *)
(* when the proposal was made, and is told neither of what the chain takes *)
(* back nor of actions the walk over a trace passes over.  The three names *)
(* are in the filter, and their data is read right (see ActionTables for   *)
(* when it is not).  Proposal names are given with their proposer.  An     *)
(* operator whose name starts with Faulty is a seeded bug and is not used  *)
(* by Next.                                                                *)
(***************************************************************************)
EXTENDS Naturals, Sequences, SequencesExt

CONSTANTS
  Names,        \* proposals
  Approvers,    \* accounts whose approval may be requested
  MaxQueued     \* bound of the model: traces queued

ASSUME PendingProposalsAssumption == MaxQueued \in Nat

Closed == [open |-> FALSE, requested |-> {}, provided |-> {}]
NoRow == {}   \* a proposal requests somebody's approval
NotAsked == "nobody"

VARIABLES
  msig,       \* external: the rows approvals and proposal of eosio.msig
  base,       \* external: an earlier state of msig the chain may go back to
  queue,      \* traces the worker has not handled yet
  proposal,   \* table proposal: requested_approvals of its rows
  lost,       \* history: proposals whose INSERT failed or was lost, and was
              \* not followed by a statement that worked
  untold,     \* history: proposals that are open, or open otherwise, because
              \* an action was undone or passed over, and the worker was handed
              \* no other since
  asked,      \* who called get_pending_proposals last
  answer      \* the proposals it returned

vars == <<msig, base, queue, proposal, lost, untold, asked, answer>>
call == <<asked, answer>>

Init ==
  /\ msig = [n \in Names |-> Closed]
  /\ base = msig
  /\ queue = <<>>
  /\ proposal = [n \in Names |-> NoRow]
  /\ lost = {}
  /\ untold = {}
  /\ asked = NotAsked
  /\ answer = {}

\* An answer is only looked at until something else happens.
Forget == asked' = NotAsked /\ answer' = {}

-----------------------------------------------------------------------------
(* The main thread executes an action and queues its trace.                *)

Mirrored == {"propose", "cancel", "exec"}

\* The walk over the trace does not hand add() an action that is inside a
\* notification or inside an action that was saved (see TraceWalk).
Queued(name, n, requested) ==
  /\ \/ /\ Len(queue) < MaxQueued
        /\ queue' = Append(queue, [name |-> name, of |-> n, requested |-> requested])
        /\ untold' = IF name \in Mirrored THEN untold \ {n} ELSE untold
     \/ /\ name \in Mirrored
        /\ untold' = IF name = "propose" THEN untold \cup {n} ELSE untold
        /\ UNCHANGED queue
  /\ Forget
  /\ UNCHANGED <<base, proposal, lost>>

Propose(n, requested) ==
  /\ ~msig[n].open
  /\ msig' = [msig EXCEPT ![n] = [open |-> TRUE, requested |-> requested, provided |-> {}]]
  /\ Queued("propose", n, requested)

Approve(n, a) ==
  /\ a \in msig[n].requested
  /\ msig' = [msig EXCEPT ![n].requested = @ \ {a}, ![n].provided = @ \cup {a}]
  /\ Queued("approve", n, {})

Unapprove(n, a) ==
  /\ a \in msig[n].provided
  /\ msig' = [msig EXCEPT ![n].provided = @ \ {a}, ![n].requested = @ \cup {a}]
  /\ Queued("unapprove", n, {})

Close(name, n) ==
  /\ msig[n].open
  /\ msig' = [msig EXCEPT ![n] = Closed]
  /\ Queued(name, n, {})

\* Whom a proposal asked when it was made; approvals move them about.
Asked(rows, n) == rows[n].requested \cup rows[n].provided

\* A state of the chain that it will go back to, if it goes back.
Mark ==
  /\ base' = msig
  /\ Forget
  /\ UNCHANGED <<msig, queue, proposal, lost, untold>>

\* What was executed ahead of a block is dropped, or the chain changes to
\* another fork: nothing tells the plugin.
Undo ==
  /\ msig' = base
  /\ untold' = untold \cup
       {n \in Names : base[n].open /\ ~(msig[n].open /\ Asked(base, n) = Asked(msig, n))}
  /\ Forget
  /\ UNCHANGED <<base, queue, proposal, lost>>

-----------------------------------------------------------------------------
(* The worker: one queued trace, one statement.                            *)

Unsaved(entries) == {e.of : e \in {f \in entries : f.name = "propose"}}

FaultyBoundInOrder(entry) == {entry.of}
FaultyRowFor(entry) == IF proposal[entry.of] = NoRow THEN entry.requested ELSE proposal[entry.of]

\* INSERT ... ON DUPLICATE KEY UPDATE for propose, DELETE for the others.
RowFor(entry) == entry.requested

Handle ==
  /\ queue # <<>>
  /\ queue' = Tail(queue)
  /\ LET entry == Head(queue) IN
       IF entry.name \notin Mirrored THEN UNCHANGED <<proposal, lost>>
       ELSE \/ /\ proposal' = [proposal EXCEPT ![entry.of] =
                                 IF entry.name = "propose" THEN RowFor(entry) ELSE NoRow]
               /\ lost' = lost \ {entry.of}
            \/ /\ lost' = lost \cup Unsaved({entry})   \* it threw, and is logged
               /\ UNCHANGED proposal
  /\ Forget
  /\ UNCHANGED <<msig, base, untold>>

\* nodeos dies with what is queued, and goes on without a replay.
Restart ==
  /\ queue' = <<>>
  /\ lost' = lost \cup Unsaved(ToSet(queue))
  /\ Forget
  /\ UNCHANGED <<msig, base, proposal, untold>>

-----------------------------------------------------------------------------
(* get_pending_proposals(a): the rows of the table that name a, as far as  *)
(* the chain still has both rows of the proposal.                          *)

Selected(a) == {n \in Names : a \in proposal[n]}

GetPendingProposals(a) ==
  /\ asked' = a
  /\ answer' = {n \in Selected(a) : msig[n].open}
  /\ UNCHANGED <<msig, base, queue, proposal, lost, untold>>

Next ==
  \/ \E n \in Names :
       \/ \E requested \in SUBSET Approvers \ {{}} : Propose(n, requested)
       \/ \E a \in Approvers : Approve(n, a) \/ Unapprove(n, a)
       \/ \E name \in {"cancel", "exec"} : Close(name, n)
  \/ Mark \/ Undo
  \/ Handle
  \/ Restart
  \/ \E a \in Approvers : GetPendingProposals(a)

Spec == Init /\ [][Next]_vars

\* The worker thread of the consumer is scheduled (see Consumer).
FairSpec == Spec /\ WF_vars(Handle)

-----------------------------------------------------------------------------
Entries == [name : Mirrored \cup {"approve", "unapprove"}, of : Names,
            requested : SUBSET Approvers]

Rows == [open : BOOLEAN, requested : SUBSET Approvers, provided : SUBSET Approvers]

(* Every variable has its type. *)
TypeOK ==
  /\ msig \in [Names -> Rows]
  /\ base \in [Names -> Rows]
  /\ queue \in Seq(Entries)
  /\ proposal \in [Names -> SUBSET Approvers]
  /\ lost \subseteq Names
  /\ untold \subseteq Names
  /\ asked \in Approvers \cup {NotAsked}
  /\ answer \subseteq Names

\* The chain's proposals that asked a for an approval when they were made.
Concerning(a) == {n \in Names : a \in Asked(msig, n)}

(* An answer of get_pending_proposals misses a proposal, or has one that   *)
(* never asked for the caller's approval, only while a statement for that  *)
(* very proposal is queued, or its INSERT failed or was lost, or the last  *)
(* action about it was undone or passed over.  Approvals do not change     *)
(* that, a proposal made again under its old name replaces the row, and a  *)
(* DELETE that failed, or was lost, passed over or undone with all of its  *)
(* proposal, is made up for by the join with the chain and by the next     *)
(* INSERT.                                                                 *)
AnswerOnlyBehindQueue ==
  asked # NotAsked =>
    \A n \in Names \ (lost \cup untold) :
      (n \in answer) # (n \in Concerning(asked)) =>
        \E e \in ToSet(queue) : e.of = n /\ e.name \in Mirrored

(* The mirror catches up: an open proposal comes to be selected for every  *)
(* account whose approval it asked for, unless it is closed first, its     *)
(* INSERT failed or was lost, or the last action about it was undone or    *)
(* passed over.                                                            *)
ProposalComesThrough ==
  \A n \in Names : \A a \in Approvers :
    n \in Concerning(a) ~> n \in Selected(a) \cup lost \cup untold \/ n \notin Concerning(a)
=============================================================================
