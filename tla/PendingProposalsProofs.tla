----------------------- MODULE PendingProposalsProofs -----------------------
(***************************************************************************)
(* Proofs about the mirror of the proposals, for every set of proposals    *)
(* and of approvers and every length of the queue.                         *)
(*                                                                         *)
(* AnswerOnlyBehindQueue compares an answer with the chain.  It rests on   *)
(* ToldInv: what the chain says of an open proposal is in the last         *)
(* statement that is queued for it, or, when none is, in its row, unless   *)
(* the statement was lost, or the worker was never told.  A closed         *)
(* proposal needs no such fact: the join with the chain leaves it out      *)
(* whatever its row says.                                                  *)
(***************************************************************************)
EXTENDS PendingProposals, SequenceTheorems, TLAPS

(* Whom a proposal of the chain as it is now asked when it was made. *)
AskedNow(n) == Asked(msig, n)

For(entry, n) == entry.of = n /\ entry.name \in Mirrored

Says(entry, n) == entry.name = "propose" /\ entry.requested = AskedNow(n)

(* The last queued statement for a proposal. *)
LastFor(i, n) ==
  For(queue[i], n) /\ \A j \in DOMAIN queue : j > i => ~For(queue[j], n)

Told(n) ==
  \/ \E i \in DOMAIN queue : LastFor(i, n) /\ Says(queue[i], n)
  \/ /\ \A i \in DOMAIN queue : ~For(queue[i], n)
     /\ n \in lost \/ proposal[n] = AskedNow(n)

ToldInv == \A n \in Names : msig[n].open => n \in untold \/ Told(n)

(* The chain erases the rows of a closed proposal. *)
ClosedInv ==
  \A n \in Names :
    /\ ~msig[n].open => AskedNow(n) = {}
    /\ ~base[n].open => Asked(base, n) = {}

(* An answer is remembered only until something else happens. *)
AnswerInv == asked # NotAsked => answer = {n \in Selected(asked) : msig[n].open}

IInv == TypeOK /\ ToldInv /\ ClosedInv /\ AnswerInv

-----------------------------------------------------------------------------
(* The invariant holds while no proposal was ever made. *)
LEMMA InitIInv == Init => IInv
<1> SUFFICES ASSUME Init PROVE IInv
  OBVIOUS
<1>1. <<>> \in Seq(Entries)
  BY EmptySeq
<1>2. \A n \in Names : msig[n] = Closed /\ ~msig[n].open /\ AskedNow(n) = {}
  BY DEF Init, Closed, AskedNow, Asked
<1>3. TypeOK
  <2>1. Closed \in Rows
    BY DEF Closed, Rows
  <2> QED
    BY <1>1, <2>1 DEF Init, TypeOK, NoRow
<1>4. ToldInv /\ ClosedInv
  <2>1. base = msig
    BY DEF Init
  <2> QED
    BY <1>2, <2>1 DEF ToldInv, ClosedInv, AskedNow
<1>5. AnswerInv
  BY DEF Init, AnswerInv
<1> QED
  BY <1>3, <1>4, <1>5 DEF IInv

(* What is queued at the end comes after what was queued. *)
LEMMA QueuedEntry ==
  ASSUME TypeOK, NEW e \in Entries, queue' = Append(queue, e)
  PROVE  /\ Len(queue) \in Nat /\ DOMAIN queue = 1..Len(queue)
         /\ queue' \in Seq(Entries)
         /\ DOMAIN queue' = 1..(Len(queue) + 1)
         /\ queue'[Len(queue) + 1] = e
         /\ \A i \in 1..Len(queue) : queue'[i] = queue[i]
  BY AppendProperties, LenProperties DEF TypeOK

(* A proposal stays told when what is queued says nothing of it, and the   *)
(* chain leaves it open and its approvers the same.                        *)
LEMMA StaysTold ==
  ASSUME TypeOK, NEW e \in Entries, queue' = Append(queue, e),
         UNCHANGED <<proposal, lost>>,
         NEW n \in Names, ~For(e, n), Told(n), AskedNow(n)' = AskedNow(n)
  PROVE  Told(n)'
<1> DEFINE k == Len(queue) + 1
<1>1. /\ Len(queue) \in Nat /\ DOMAIN queue = 1..Len(queue)
      /\ DOMAIN queue' = 1..k
      /\ queue'[k] = e
      /\ \A i \in 1..Len(queue) : queue'[i] = queue[i]
  BY QueuedEntry
<1>2. CASE \E i \in DOMAIN queue : LastFor(i, n) /\ Says(queue[i], n)
  <2>1. PICK i \in 1..Len(queue) : LastFor(i, n) /\ Says(queue[i], n)
    BY <1>1, <1>2
  <2>2. i \in DOMAIN queue' /\ queue'[i] = queue[i]
    BY <1>1, <2>1
  <2>3. ASSUME NEW j \in DOMAIN queue', j > i PROVE ~For(queue'[j], n)
    <3>1. CASE j = k
      BY <1>1, <3>1
    <3>2. CASE j # k
      <4>1. j \in DOMAIN queue /\ queue'[j] = queue[j]
        BY <1>1, <3>2
      <4> QED
        BY <2>1, <2>3, <4>1 DEF LastFor
    <3> QED
      BY <3>1, <3>2
  <2>4. LastFor(i, n)'
    BY <2>1, <2>2, <2>3 DEF LastFor, For
  <2>5. Says(queue[i], n)'
    BY <2>1, <2>2 DEF Says
  <2> QED
    BY <2>2, <2>4, <2>5 DEF Told
<1>3. CASE (\A i \in DOMAIN queue : ~For(queue[i], n)) /\ (n \in lost \/ proposal[n] = AskedNow(n))
  <2>1. ASSUME NEW i \in DOMAIN queue' PROVE ~For(queue'[i], n)
    BY <1>1, <1>3, <2>1
  <2> QED
    BY <1>3, <2>1 DEF Told
<1> QED
  BY <1>2, <1>3 DEF Told

(* The action of a step that was executed: it is queued or passed over.    *)
Handed(name, n, r) ==
  /\ queue' = Append(queue, [name |-> name, of |-> n, requested |-> r])
  /\ untold' = IF name \in Mirrored THEN untold \ {n} ELSE untold

PassedOver(name, n) ==
  /\ name \in Mirrored
  /\ untold' = IF name = "propose" THEN untold \cup {n} ELSE untold
  /\ queue' = queue

Signals == Mirrored \cup {"approve", "unapprove"}

(* An executed action changes only the queue and who is told. *)
LEMMA QueuedCases ==
  ASSUME NEW name, NEW n, NEW r, Queued(name, n, r)
  PROVE  /\ Handed(name, n, r) \/ PassedOver(name, n)
         /\ asked' = NotAsked /\ answer' = {}
         /\ base' = base /\ proposal' = proposal /\ lost' = lost
  BY DEF Queued, Handed, PassedOver, Forget

(* An executed action keeps the types of what it changes. *)
LEMMA QueuedType ==
  ASSUME TypeOK, NEW name \in Signals, NEW n \in Names, NEW r \in SUBSET Approvers,
         Queued(name, n, r), msig' \in [Names -> Rows]
  PROVE  TypeOK'
<1>1. [name |-> name, of |-> n, requested |-> r] \in Entries
  BY DEF Entries, Signals
<1>2. queue' \in Seq(Entries)
  BY <1>1, QueuedCases, QueuedEntry DEF Handed, PassedOver, TypeOK
<1>3. untold' \subseteq Names
  <2>1. untold \subseteq Names
    BY DEF TypeOK
  <2>2. \/ untold' = untold \cup {n} \/ untold' = untold \/ untold' = untold \ {n}
    BY QueuedCases DEF Handed, PassedOver
  <2> QED
    BY <2>1, <2>2
<1> QED
  BY <1>2, <1>3, QueuedCases DEF TypeOK

(* It leaves the proposals told that it is not about. *)
LEMMA QueuedTold ==
  ASSUME TypeOK, ToldInv, NEW name \in Signals, NEW n \in Names, NEW r \in SUBSET Approvers,
         Queued(name, n, r),
         NEW m \in Names, m # n \/ name \notin Mirrored, msig[m].open,
         AskedNow(m)' = AskedNow(m)
  PROVE  m \in untold' \/ Told(m)'
<1> DEFINE e == [name |-> name, of |-> n, requested |-> r]
<1>1. e \in Entries /\ ~For(e, m)
  BY DEF Entries, Signals, For
<1>2. CASE m \in untold
  BY <1>2, QueuedCases DEF Handed, PassedOver
<1>3. CASE Told(m) /\ Handed(name, n, r)
  BY <1>1, <1>3, QueuedCases, StaysTold DEF Handed
<1>4. CASE Told(m) /\ PassedOver(name, n)
  <2>1. queue' = queue /\ proposal' = proposal /\ lost' = lost
    BY <1>4, QueuedCases DEF PassedOver
  <2> QED
    BY <1>4, <2>1 DEF Told, LastFor, Says
<1> QED
  BY <1>2, <1>3, <1>4, QueuedCases DEF ToldInv

(* The state the chain may go back to stays. *)
LEMMA BaseStays ==
  ASSUME ClosedInv, base' = base
  PROVE  \A m \in Names : ~base'[m].open => Asked(base, m)' = {}
  BY DEF ClosedInv, Asked

(* propose: the statement that is queued says whom the proposal asks. *)
LEMMA ProposeStep ==
  ASSUME IInv, NEW n \in Names, NEW requested \in SUBSET Approvers \ {{}},
         Propose(n, requested)
  PROVE  IInv'
<1> DEFINE e == [name |-> "propose", of |-> n, requested |-> requested]
<1>1. e \in Entries /\ "propose" \in Signals
  BY DEF Entries, Mirrored, Signals
<1>2. /\ msig' = [msig EXCEPT ![n] = [open |-> TRUE, requested |-> requested, provided |-> {}]]
      /\ Queued("propose", n, requested)
  BY DEF Propose
<1>3. /\ msig'[n].open /\ AskedNow(n)' = requested
      /\ \A m \in Names \ {n} : msig'[m] = msig[m] /\ AskedNow(m)' = AskedNow(m)
  BY <1>2 DEF IInv, TypeOK, AskedNow, Asked
<1>4. TypeOK'
  <2>1. msig' \in [Names -> Rows]
    BY <1>2 DEF IInv, TypeOK, Rows
  <2> QED
    BY <1>1, <1>2, <2>1, QueuedType DEF IInv
<1>5. ASSUME NEW m \in Names, msig'[m].open PROVE m \in untold' \/ Told(m)'
  <2>1. CASE m = n /\ Handed("propose", n, requested)
    <3>1. queue' = Append(queue, e)
      BY <2>1 DEF Handed
    <3>2. PICK k \in DOMAIN queue' : queue'[k] = e /\ \A j \in DOMAIN queue' : ~(j > k)
      <4>1. Len(queue) + 1 \in DOMAIN queue' /\ queue'[Len(queue) + 1] = e
        BY <1>1, <3>1, QueuedEntry DEF IInv
      <4>2. \A j \in DOMAIN queue' : ~(j > Len(queue) + 1)
        BY <1>1, <3>1, QueuedEntry DEF IInv
      <4> QED
        BY <4>1, <4>2
    <3>3. LastFor(k, m)' /\ Says(queue[k], m)'
      BY <1>3, <2>1, <3>2 DEF LastFor, For, Says, Mirrored
    <3> QED
      BY <3>2, <3>3 DEF Told
  <2>2. CASE m = n /\ PassedOver("propose", n)
    BY <2>2 DEF PassedOver
  <2>3. CASE m # n
    BY <1>1, <1>2, <1>3, <1>5, <2>3, QueuedTold DEF IInv
  <2> QED
    BY <1>2, <2>1, <2>2, <2>3, QueuedCases
<1>6. ClosedInv'
  BY <1>2, <1>3, QueuedCases, BaseStays DEF IInv, ClosedInv
<1>7. AnswerInv'
  BY <1>2, QueuedCases DEF AnswerInv
<1> QED
  BY <1>4, <1>5, <1>6, <1>7 DEF IInv, ToldInv

(* approve and unapprove move an approver; no statement mirrors them. *)
LEMMA ApproveStep ==
  ASSUME IInv, NEW n \in Names, NEW a \in Approvers, Approve(n, a) \/ Unapprove(n, a)
  PROVE  IInv'
<1>1. PICK name \in {"approve", "unapprove"} : Queued(name, n, {})
  BY DEF Approve, Unapprove
<1>2. name \in Signals /\ name \notin Mirrored
  BY DEF Signals, Mirrored
<1>3. /\ msig' \in [Names -> Rows]
      /\ \A m \in Names : msig'[m].open = msig[m].open /\ AskedNow(m)' = AskedNow(m)
  <2>1. msig \in [Names -> Rows]
    BY DEF IInv, TypeOK
  <2>2. CASE Approve(n, a)
    BY <2>1, <2>2, ZenonT(40) DEF Approve, AskedNow, Asked, Rows
  <2>3. CASE Unapprove(n, a)
    BY <2>1, <2>3, ZenonT(40) DEF Unapprove, AskedNow, Asked, Rows
  <2> QED
    BY <2>2, <2>3
<1>4. TypeOK'
  BY <1>1, <1>2, <1>3, QueuedType DEF IInv
<1>5. ToldInv'
  BY <1>1, <1>2, <1>3, QueuedTold DEF IInv, ToldInv
<1>6. ClosedInv'
  BY <1>1, <1>3, QueuedCases DEF IInv, ClosedInv, Asked
<1>7. AnswerInv'
  BY <1>1, QueuedCases DEF AnswerInv
<1> QED
  BY <1>4, <1>5, <1>6, <1>7 DEF IInv

(* cancel and exec close a proposal: nothing is to be told of it. *)
LEMMA CloseStep ==
  ASSUME IInv, NEW n \in Names, NEW name \in {"cancel", "exec"}, Close(name, n)
  PROVE  IInv'
<1>1. name \in Signals
  BY DEF Signals, Mirrored
<1>2. msig' = [msig EXCEPT ![n] = Closed] /\ Queued(name, n, {})
  BY DEF Close
<1>3. /\ ~msig'[n].open /\ AskedNow(n)' = {}
      /\ \A m \in Names \ {n} : msig'[m] = msig[m] /\ AskedNow(m)' = AskedNow(m)
  BY <1>2 DEF IInv, TypeOK, AskedNow, Asked, Closed
<1>4. TypeOK'
  <2>1. msig' \in [Names -> Rows]
    BY <1>2 DEF IInv, TypeOK, Rows, Closed
  <2> QED
    BY <1>1, <1>2, <2>1, QueuedType DEF IInv
<1>5. ASSUME NEW m \in Names, msig'[m].open PROVE m \in untold' \/ Told(m)'
  BY <1>1, <1>2, <1>3, <1>5, QueuedTold DEF IInv
<1>6. ClosedInv'
  BY <1>2, <1>3, QueuedCases, BaseStays DEF IInv, ClosedInv
<1>7. AnswerInv'
  BY <1>2, QueuedCases DEF AnswerInv
<1> QED
  BY <1>4, <1>5, <1>6, <1>7 DEF IInv, ToldInv

(* The chain as it is becomes one it may go back to. *)
LEMMA MarkStep ==
  ASSUME IInv, Mark
  PROVE  IInv'
<1>1. /\ base' = msig /\ asked' = NotAsked /\ answer' = {}
      /\ UNCHANGED <<msig, queue, proposal, lost, untold>>
  BY DEF Mark, Forget
<1>2. TypeOK'
  BY <1>1 DEF IInv, TypeOK
<1>3. ToldInv'
  BY <1>1 DEF IInv, ToldInv, Told, LastFor, Says, AskedNow
<1>4. ClosedInv' /\ AnswerInv'
  BY <1>1 DEF IInv, ClosedInv, AnswerInv, AskedNow, Asked
<1> QED
  BY <1>2, <1>3, <1>4 DEF IInv

(* The chain goes back: a proposal that is open in it is as the worker was *)
(* told, or it is untold from now on.                                      *)
LEMMA UndoStep ==
  ASSUME IInv, Undo
  PROVE  IInv'
<1> DEFINE Differ ==
      {n \in Names : base[n].open /\ ~(msig[n].open /\ Asked(base, n) = Asked(msig, n))}
<1>1. /\ msig' = base /\ untold' = untold \cup Differ
      /\ asked' = NotAsked /\ answer' = {}
      /\ base' = base /\ queue' = queue /\ proposal' = proposal /\ lost' = lost
  BY DEF Undo, Forget
<1>2. TypeOK'
  BY <1>1 DEF IInv, TypeOK
<1>3. ASSUME NEW m \in Names, msig'[m].open PROVE m \in untold' \/ Told(m)'
  <2>1. CASE m \in Differ \/ m \in untold
    BY <1>1, <2>1
  <2>2. CASE m \notin Differ /\ m \notin untold
    <3>1. msig[m].open /\ Asked(base, m) = Asked(msig, m)
      BY <1>1, <1>3, <2>2
    <3>2. Told(m) /\ AskedNow(m)' = AskedNow(m)
      BY <1>1, <2>2, <3>1 DEF IInv, ToldInv, AskedNow, Asked
    <3> QED
      BY <1>1, <3>2 DEF Told, LastFor, Says
  <2> QED
    BY <2>1, <2>2
<1>4. ClosedInv' /\ AnswerInv'
  BY <1>1 DEF IInv, ClosedInv, AnswerInv, AskedNow, Asked
<1> QED
  BY <1>2, <1>3, <1>4 DEF IInv, ToldInv

(* A statement succeeds: the row says what the last one for it said.  Or   *)
(* it fails, and a proposal that was not inserted is lost.                 *)
LEMMA HandleStep ==
  ASSUME IInv, Handle
  PROVE  IInv'
<1> DEFINE e == Head(queue)
<1>1. /\ queue # <<>> /\ queue' = Tail(queue)
      /\ asked' = NotAsked /\ answer' = {}
      /\ msig' = msig /\ base' = base /\ untold' = untold
  BY DEF Handle, Forget
<1>2. \/ e.name \notin Mirrored /\ UNCHANGED <<proposal, lost>>
      \/ /\ e.name \in Mirrored
         /\ proposal' = [proposal EXCEPT ![e.of] =
                           IF e.name = "propose" THEN e.requested ELSE NoRow]
         /\ lost' = lost \ {e.of}
      \/ /\ e.name \in Mirrored
         /\ lost' = lost \cup (IF e.name = "propose" THEN {e.of} ELSE {})
         /\ UNCHANGED proposal
  BY DEF Handle, RowFor, Unsaved
<1>3. queue \in Seq(Entries) /\ DOMAIN queue = 1..Len(queue) /\ Len(queue) \in Nat \ {0}
  BY <1>1, LenProperties, EmptySeq DEF IInv, TypeOK
<1>4. /\ e = queue[1] /\ e \in Entries
      /\ queue' \in Seq(Entries)
      /\ DOMAIN queue' = 1..(Len(queue) - 1)
      /\ \A i \in 1..(Len(queue) - 1) : queue'[i] = queue[i + 1]
  BY <1>1, <1>3, HeadTailProperties, ElementOfSeq
<1>5. e.of \in Names /\ e.requested \in SUBSET Approvers
  BY <1>4 DEF Entries
<1>6. TypeOK'
  <2>1. proposal' \in [Names -> SUBSET Approvers] /\ lost' \subseteq Names
    BY <1>2, <1>5 DEF IInv, TypeOK, NoRow
  <2> QED
    BY <1>1, <1>4, <2>1 DEF IInv, TypeOK
<1>7. ASSUME NEW m \in Names, msig'[m].open, m \notin untold PROVE Told(m)'
  <2>1. Told(m) /\ AskedNow(m)' = AskedNow(m)
    BY <1>1, <1>7 DEF IInv, ToldInv, AskedNow, Asked
  <2>2. CASE \E i \in DOMAIN queue : LastFor(i, m) /\ Says(queue[i], m)
    <3>1. PICK i \in 1..Len(queue) : LastFor(i, m) /\ Says(queue[i], m)
      BY <1>3, <2>2
    <3>2. CASE i = 1
      <4>1. For(e, m) /\ Says(e, m)
        BY <1>4, <3>1, <3>2 DEF LastFor
      <4>2. ASSUME NEW j \in DOMAIN queue' PROVE ~For(queue'[j], m)
        <5>1. j + 1 \in DOMAIN queue /\ j + 1 > i /\ queue'[j] = queue[j + 1]
          BY <1>3, <1>4, <3>2, <4>2
        <5> QED
          BY <3>1, <5>1 DEF LastFor
      <4>3. m \in lost' \/ proposal'[m] = AskedNow(m)'
        BY <1>2, <2>1, <4>1 DEF For, Says, IInv, TypeOK
      <4> QED
        BY <4>2, <4>3 DEF Told
    <3>3. CASE i # 1
      <4>1. i - 1 \in DOMAIN queue' /\ queue'[i - 1] = queue[i]
        BY <1>3, <1>4, <3>3
      <4>2. ASSUME NEW j \in DOMAIN queue', j > i - 1 PROVE ~For(queue'[j], m)
        <5>1. j + 1 \in DOMAIN queue /\ j + 1 > i /\ queue'[j] = queue[j + 1]
          BY <1>3, <1>4, <4>2
        <5> QED
          BY <3>1, <5>1 DEF LastFor
      <4>3. LastFor(i - 1, m)' /\ Says(queue[i - 1], m)'
        BY <2>1, <3>1, <4>1, <4>2 DEF LastFor, For, Says
      <4> QED
        BY <4>1, <4>3 DEF Told
    <3> QED
      BY <3>2, <3>3
  <2>3. CASE /\ \A i \in DOMAIN queue : ~For(queue[i], m)
             /\ m \in lost \/ proposal[m] = AskedNow(m)
    <3>1. ~For(e, m)
      BY <1>3, <1>4, <2>3
    <3>2. ASSUME NEW j \in DOMAIN queue' PROVE ~For(queue'[j], m)
      <4>1. j + 1 \in DOMAIN queue /\ queue'[j] = queue[j + 1]
        BY <1>3, <1>4, <3>2
      <4> QED
        BY <2>3, <4>1
    <3>3. m \in lost' \/ proposal'[m] = AskedNow(m)'
      BY <1>2, <2>1, <2>3, <3>1 DEF For, IInv, TypeOK
    <3> QED
      BY <3>2, <3>3 DEF Told
  <2> QED
    BY <2>1, <2>2, <2>3 DEF Told
<1>8. ClosedInv' /\ AnswerInv'
  BY <1>1 DEF IInv, ClosedInv, AnswerInv, AskedNow, Asked
<1> QED
  BY <1>1, <1>6, <1>7, <1>8 DEF IInv, ToldInv

(* nodeos dies: an open proposal whose statement was queued is lost. *)
LEMMA RestartStep ==
  ASSUME IInv, Restart
  PROVE  IInv'
<1>1. /\ queue' = <<>> /\ lost' = lost \cup Unsaved(ToSet(queue))
      /\ asked' = NotAsked /\ answer' = {}
      /\ msig' = msig /\ base' = base /\ proposal' = proposal /\ untold' = untold
  BY DEF Restart, Forget
<1>2. queue' \in Seq(Entries) /\ DOMAIN queue' = {}
  BY <1>1, EmptySeq, LenProperties
<1>3. queue \in Seq(Entries) /\ DOMAIN queue = 1..Len(queue)
  BY LenProperties DEF IInv, TypeOK
<1>4. \A i \in DOMAIN queue : queue[i] \in Entries
  BY <1>3, ElementOfSeq
<1>5. TypeOK'
  <2>1. lost' \subseteq Names
    BY <1>1, <1>4 DEF IInv, TypeOK, Unsaved, ToSet, Entries
  <2> QED
    BY <1>1, <1>2, <2>1 DEF IInv, TypeOK
<1>6. ASSUME NEW m \in Names, msig'[m].open, m \notin untold PROVE Told(m)'
  <2>1. Told(m) /\ AskedNow(m)' = AskedNow(m)
    BY <1>1, <1>6 DEF IInv, ToldInv, AskedNow, Asked
  <2>2. m \in lost' \/ proposal'[m] = AskedNow(m)'
    <3>1. CASE \E i \in DOMAIN queue : LastFor(i, m) /\ Says(queue[i], m)
      <4>1. PICK i \in DOMAIN queue : queue[i].of = m /\ queue[i].name = "propose"
        BY <3>1 DEF LastFor, For, Says
      <4>2. m \in Unsaved(ToSet(queue))
        BY <4>1 DEF Unsaved, ToSet
      <4> QED
        BY <1>1, <4>2
    <3>2. CASE m \in lost \/ proposal[m] = AskedNow(m)
      BY <1>1, <2>1, <3>2
    <3> QED
      BY <2>1, <3>1, <3>2 DEF Told
  <2> QED
    BY <1>2, <2>2 DEF Told
<1>7. ClosedInv' /\ AnswerInv'
  BY <1>1 DEF IInv, ClosedInv, AnswerInv, AskedNow, Asked
<1> QED
  BY <1>1, <1>5, <1>6, <1>7 DEF IInv, ToldInv

(* An API call changes nothing but what is remembered of it. *)
LEMMA CallStep ==
  ASSUME IInv, NEW a \in Approvers, GetPendingProposals(a)
  PROVE  IInv'
<1>1. /\ asked' = a /\ answer' = {n \in Selected(a) : msig[n].open}
      /\ UNCHANGED <<msig, base, queue, proposal, lost, untold>>
  BY DEF GetPendingProposals
<1>2. TypeOK'
  BY <1>1 DEF IInv, TypeOK, Selected
<1>3. ToldInv' /\ ClosedInv'
  BY <1>1 DEF IInv, ToldInv, ClosedInv, Told, LastFor, Says, AskedNow, Asked
<1>4. AnswerInv'
  BY <1>1 DEF AnswerInv, Selected
<1> QED
  BY <1>2, <1>3, <1>4 DEF IInv

-----------------------------------------------------------------------------
(* The invariant holds in every state. *)
THEOREM Invariance == Spec => []IInv
<1>1. IInv /\ [Next]_vars => IInv'
  <2> SUFFICES ASSUME IInv, [Next]_vars PROVE IInv'
    OBVIOUS
  <2>1. CASE UNCHANGED vars
    BY <2>1 DEF vars, IInv, TypeOK, ToldInv, ClosedInv, AnswerInv, Told, LastFor, Says, AskedNow,
                   Asked, Selected
  <2>2. CASE Next
    BY <2>2, ProposeStep, ApproveStep, CloseStep, MarkStep, UndoStep, HandleStep,
       RestartStep, CallStep DEF Next
  <2> QED
    BY <2>1, <2>2
<1> QED
  BY <1>1, InitIInv, PTL DEF Spec

(* Every variable keeps its type. *)
THEOREM TypeCorrect == Spec => []TypeOK
  BY Invariance, PTL DEF IInv

(* An answer of get_pending_proposals is wrong about a proposal only while *)
(* a statement for it is queued, its INSERT was lost, or what happened to  *)
(* it last was undone or passed over.                                      *)
THEOREM AnswerBehindQueue == Spec => []AnswerOnlyBehindQueue
<1>1. IInv => AnswerOnlyBehindQueue
  <2> SUFFICES ASSUME IInv, asked # NotAsked, NEW n \in Names \ (lost \cup untold),
                      \A i \in DOMAIN queue : ~For(queue[i], n)
               PROVE  n \in answer <=> n \in Concerning(asked)
    BY DEF AnswerOnlyBehindQueue, ToSet, For
  <2>1. n \in answer <=> asked \in proposal[n] /\ msig[n].open
    BY DEF IInv, AnswerInv, Selected
  <2>2. n \in Concerning(asked) <=> asked \in AskedNow(n)
    BY DEF Concerning, AskedNow, Asked
  <2>3. CASE msig[n].open
    <3>1. proposal[n] = AskedNow(n)
      BY <2>3 DEF IInv, ToldInv, Told, LastFor
    <3> QED
      BY <2>1, <2>2, <2>3, <3>1
  <2>4. CASE ~msig[n].open
    BY <2>1, <2>2, <2>4 DEF IInv, ClosedInv
  <2> QED
    BY <2>3, <2>4
<1> QED
  BY <1>1, Invariance, PTL
=============================================================================
