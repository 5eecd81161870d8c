-------------------------- MODULE TraceWalkProofs --------------------------
(***************************************************************************)
(* Proofs about the walk over a trace, for traces of every size and shape. *)
(*                                                                         *)
(* AddedInOrder rests on the order of what the calls have yet to visit     *)
(* (OrderInv): the deeper call comes first, and every action that is left  *)
(* comes after what was added (AheadInv).  That nothing is left out is     *)
(* CoverInv: an outermost action that was not added is one that a call has *)
(* yet to visit, or inside one.  It holds at the start because each action *)
(* is inside a top-level one (InsideSome), and when the walk descends      *)
(* because what is inside an action is inside one of its inline traces.    *)
(***************************************************************************)
EXTENDS TraceWalk, SequenceTheorems, WellFoundedInduction, TLAPS

(* The trace has a size. *)
ShapeInv == \E size \in Nat \ {0} : parent \in [1..size -> 0..(size - 1)]

(* Where the walk is says what it has left and what it did. *)
StatusInv ==
  /\ status \in {"start", "lost", "done", "aborted"} => frames = <<>>
  /\ status \in {"start", "lost"} => added = <<>> /\ rows = <<>> /\ parsed = {}
  /\ status \in {"insert", "parse"} => added # <<>> /\ current = added[Len(added)]
  /\ status \in {"insert", "aborted"} =>
       /\ \A i \in DOMAIN rows : rows[i] < current
       /\ \A n \in parsed : n < current
  /\ status = "aborted" => kind[current] = "unreadable"

(* Deeper calls come first, and nothing that is left is inside another. *)
OrderInv ==
  \A d, e \in DOMAIN frames : \A x \in frames[d], y \in frames[e] :
    /\ d <= e => parent[x] < y
    /\ d < e => y < x

(* Whatever encloses an action that is left is not in the filter. *)
OtherInv ==
  \A d \in DOMAIN frames : \A x \in frames[d] : \A m \in Enclosing(x) : kind[m] = "other"

(* What is left comes after what was added. *)
AheadInv ==
  \A i \in DOMAIN added : \A d \in DOMAIN frames : \A x \in frames[d] : added[i] < x

Within(n, x) == n = x \/ x \in Enclosing(n)

IsAdded(n) == \E i \in DOMAIN added : added[i] = n

IsLeft(n) == \E d \in DOMAIN frames : \E x \in frames[d] : Within(n, x)

(* No outermost action is left out. *)
CoverInv ==
  status \in {"walk", "insert", "parse", "done"} => \A n \in Outermost : IsAdded(n) \/ IsLeft(n)

IInv ==
  /\ TypeOK /\ ShapeInv /\ StatusInv
  /\ OrderInv /\ OtherInv /\ AheadInv /\ CoverInv
  /\ AddedInOrder /\ RowsInOrder

-----------------------------------------------------------------------------
(* Numbers and sequences.                                                  *)

LessThan == {pair \in Nat \X Nat : pair[1] < pair[2]}

(* A set of natural numbers that is not empty has a least element. *)
LEMMA LeastElement ==
  ASSUME NEW S, S \subseteq Nat, S # {}
  PROVE  \E m \in S : \A k \in S : m <= k
<1>1. IsWellFoundedOn(LessThan, Nat)
  BY NatLessThanWellFounded DEF OpToRel, LessThan
<1>2. PICK m \in S : \A k \in S : <<k, m>> \notin LessThan
  BY <1>1, WFMin
<1>3. \A k \in S : ~(k < m)
  BY <1>2 DEF LessThan
<1> QED
  BY <1>3

(* What appending to a sequence gives. *)
LEMMA Appended ==
  ASSUME NEW S, NEW s \in Seq(S), NEW e \in S
  PROVE  LET t == Append(s, e)
         IN  /\ t \in Seq(S)
             /\ t # <<>>
             /\ Len(s) \in Nat /\ Len(t) = Len(s) + 1
             /\ DOMAIN s = 1..Len(s)
             /\ DOMAIN t = 1..(Len(s) + 1)
             /\ t[Len(s) + 1] = e
             /\ \A i \in 1..Len(s) : t[i] = s[i]
  BY AppendProperties, LenProperties

(* Numbers below e that grow, with e after them, grow. *)
LEMMA AppendedSorted ==
  ASSUME NEW s \in Seq(Nat), NEW e \in Nat, Sorted(s), \A i \in DOMAIN s : s[i] < e
  PROVE  Sorted(Append(s, e))
<1> DEFINE t == Append(s, e)
<1>1. /\ Len(s) \in Nat
      /\ DOMAIN s = 1..Len(s)
      /\ DOMAIN t = 1..(Len(s) + 1)
      /\ t[Len(s) + 1] = e
      /\ \A i \in 1..Len(s) : t[i] = s[i]
  BY Appended
<1> SUFFICES ASSUME NEW i \in 1..(Len(s) + 1), NEW j \in 1..(Len(s) + 1), i < j
             PROVE  t[i] < t[j]
  BY <1>1 DEF Sorted
<1>2. i \in 1..Len(s) /\ t[i] = s[i]
  BY <1>1
<1>3. CASE j = Len(s) + 1
  BY <1>1, <1>2, <1>3
<1>4. CASE j # Len(s) + 1
  <2>1. j \in 1..Len(s) /\ t[j] = s[j]
    BY <1>1, <1>4
  <2> QED
    BY <1>1, <1>2, <2>1 DEF Sorted
<1> QED
  BY <1>3, <1>4

-----------------------------------------------------------------------------
(* The trace.                                                              *)

(* Actions are numbered from 1, each after the one that holds it, and the  *)
(* numbering never crosses.                                                *)
LEMMA Numbering ==
  ASSUME TypeOK, ShapeInv
  PROVE  /\ Actions \subseteq Nat \ {0}
         /\ \A n \in Actions :
              /\ parent[n] \in Nat /\ parent[n] < n
              /\ parent[n] # 0 => parent[n] \in Actions
              /\ 1..n \subseteq Actions
              /\ \A i \in 1..(n - 1) : i <= parent[n] \/ parent[n] <= parent[i]
<1>1. PICK size \in Nat \ {0} : parent \in [1..size -> 0..(size - 1)]
  BY DEF ShapeInv
<1>2. Actions = 1..size
  BY <1>1 DEF Actions
<1>3. \A n \in 1..size : parent[n] \in 0..(size - 1)
  BY <1>1
<1>4. \A n \in 1..size :
        parent[n] < n /\ \A i \in 1..(n - 1) : i <= parent[n] \/ parent[n] <= parent[i]
  BY <1>2 DEF TypeOK, InExecutionOrder, Actions
<1> QED
  BY <1>2, <1>3, <1>4

(* What is within an action is within the one that holds it. *)
LEMMA WithinParent ==
  ASSUME TypeOK, ShapeInv, NEW n \in Actions, NEW m \in Actions, m <= n, Within(n, m),
         parent[m] # 0
  PROVE  Within(n, parent[m])
<1> DEFINE p == parent[m]
<1>1. n \in Nat /\ m \in Nat /\ p \in Nat /\ 1 <= p /\ p < m
  BY Numbering
<1>2. ASSUME NEW k \in (p + 1)..n PROVE parent[k] >= p
  <2>1. CASE k < m
    <3>1. k \in 1..(m - 1)
      BY <1>1, <2>1
    <3>2. k <= p \/ p <= parent[k]
      BY <3>1, Numbering
    <3>3. k \in Actions /\ parent[k] \in Nat
      BY <1>1, <1>2, Numbering
    <3> QED
      BY <1>1, <1>2, <3>2, <3>3
  <2>2. CASE k = m
    BY <1>1, <2>2
  <2>3. CASE k > m
    <3>1. k \in (m + 1)..n /\ m \in Enclosing(n)
      BY <1>1, <2>3 DEF Within
    <3>2. parent[k] >= m
      BY <3>1 DEF Enclosing
    <3>3. k \in Actions /\ parent[k] \in Nat
      BY <1>1, <1>2, Numbering
    <3> QED
      BY <1>1, <3>2, <3>3
  <2> QED
    BY <1>1, <2>1, <2>2, <2>3
<1>3. p \in Enclosing(n)
  BY <1>1, <1>2 DEF Enclosing
<1> QED
  BY <1>3 DEF Within

(* What is inside an action is within one of its inline traces; for 0, the *)
(* trace itself, within a top-level action.                                *)
LEMMA InsideSome ==
  ASSUME TypeOK, ShapeInv, NEW n \in Nat, NEW o \in Actions, n < o,
         \A k \in (n + 1)..o : parent[k] >= n
  PROVE  \E c \in Inline(n) : Within(o, c)
<1> DEFINE S == {m \in (n + 1)..o : Within(o, m)}
<1>1. o \in Nat /\ o \in S
  BY Numbering DEF Within
<1>2. S \subseteq Nat
  BY <1>1
<1>3. PICK c \in S : \A k \in S : c <= k
  BY <1>1, <1>2, LeastElement
<1>4. c \in (n + 1)..o /\ Within(o, c) /\ c \in Actions
  BY <1>1, <1>3, Numbering
<1>5. parent[c] \in Nat /\ parent[c] >= n /\ parent[c] < c
  BY <1>4, Numbering
<1>6. CASE parent[c] = n
  BY <1>4, <1>6 DEF Inline
<1>7. CASE parent[c] # n
  <2>1. parent[c] # 0 /\ parent[c] \in (n + 1)..o
    BY <1>1, <1>4, <1>5, <1>7
  <2>2. Within(o, parent[c])
    BY <1>1, <1>4, <2>1, WithinParent
  <2>3. parent[c] \in S
    BY <2>1, <2>2
  <2> QED
    BY <1>3, <1>4, <1>5, <2>3
<1> QED
  BY <1>6, <1>7

(* What encloses an inline trace is the action that holds it, or encloses  *)
(* that.                                                                   *)
LEMMA EnclosingInline ==
  ASSUME TypeOK, ShapeInv, NEW n \in Nat, NEW c \in Inline(n), NEW m \in Enclosing(c)
  PROVE  n # 0 /\ (m = n \/ m \in Enclosing(n))
<1>1. c \in Actions /\ c \in Nat /\ parent[c] = n /\ n < c
  BY Numbering DEF Inline
<1>2. m \in 1..(c - 1) /\ \A k \in (m + 1)..c : parent[k] >= m
  BY DEF Enclosing
<1>3. m <= n
  BY <1>1, <1>2
<1>4. CASE m < n
  BY <1>1, <1>2, <1>4 DEF Enclosing
<1> QED
  BY <1>2, <1>3, <1>4

-----------------------------------------------------------------------------
(* The calls.                                                              *)

(* The calls are a sequence of sets of actions, all of them numbers.       *)
LEMMA Frames ==
  ASSUME TypeOK, ShapeInv
  PROVE  /\ Depth \in Nat /\ DOMAIN frames = 1..Depth
         /\ \A d \in 1..Depth : frames[d] \subseteq Actions /\ frames[d] \subseteq Nat
<1>1. frames \in Seq(SUBSET Actions)
  BY DEF TypeOK
<1>2. /\ Len(frames) \in Nat /\ DOMAIN frames = 1..Len(frames)
      /\ \A d \in 1..Len(frames) : frames[d] \in SUBSET Actions
  BY <1>1, LenProperties, ElementOfSeq
<1>3. Actions \subseteq Nat
  BY Numbering
<1> QED
  BY <1>2, <1>3 DEF Depth

(* The action the walk comes to is before everything else that is left.    *)
LEMMA ComesFirst ==
  ASSUME TypeOK, ShapeInv, OrderInv, NEW n \in Actions, AtAction(n),
         NEW d \in 1..Depth, NEW x \in frames[d]
  PROVE  n < x \/ (d = Depth /\ x = n)
<1>1. Depth \in 1..Depth /\ DOMAIN frames = 1..Depth /\ x \in Nat /\ n \in Nat /\ d \in Nat
  BY Frames, Numbering DEF AtAction
<1>2. n \in frames[Depth] /\ \A m \in frames[Depth] : n <= m
  BY DEF AtAction
<1>3. d < Depth => n < x
  BY <1>1, <1>2 DEF OrderInv
<1>4. Depth \in Nat /\ (d = Depth => n <= x)
  BY <1>2, Frames
<1> QED
  BY <1>1, <1>3, <1>4

(* Leaving things out of the calls, or calls out, keeps their order.       *)
LEMMA Fewer ==
  ASSUME OrderInv, OtherInv, AheadInv, parent' = parent, kind' = kind,
         DOMAIN frames' \subseteq DOMAIN frames,
         \A d \in DOMAIN frames' : frames'[d] \subseteq frames[d]
  PROVE  OrderInv' /\ OtherInv' /\ (added' = added => AheadInv')
<1>1. OrderInv'
  BY DEF OrderInv
<1>2. OtherInv'
  BY DEF OtherInv, Enclosing
<1>3. added' = added => AheadInv'
  BY DEF AheadInv
<1> QED
  BY <1>1, <1>2, <1>3

(* What StepOver leaves of the calls. *)
LEMMA SteppedOver ==
  ASSUME TypeOK, ShapeInv, NEW n \in Actions, AtAction(n)
  PROVE  LET f == StepOver(n)
         IN  /\ f \in Seq(SUBSET Actions) /\ DOMAIN f = 1..Depth /\ Len(f) = Depth
             /\ Depth \in 1..Depth
             /\ \A d \in 1..Depth : f[d] = IF d = Depth THEN frames[d] \ {n} ELSE frames[d]
<1>1. frames \in Seq(SUBSET Actions) /\ Depth = Len(frames) /\ Depth \in 1..Depth
  BY Frames DEF TypeOK, Depth, AtAction
<1> DEFINE rest == frames[Depth] \ {n}
           f == [frames EXCEPT ![Depth] = rest]
<1>2. rest \in SUBSET Actions
  BY <1>1, Frames
<1>3. f = StepOver(n)
  BY DEF StepOver
<1> HIDE DEF rest
<1>4. /\ f \in Seq(SUBSET Actions) /\ Len(f) = Depth
      /\ \A d \in 1..Depth : f[d] = IF d = Depth THEN rest ELSE frames[d]
  BY <1>1, <1>2, ExceptSeq
<1>5. DOMAIN f = 1..Depth
  BY <1>4, LenProperties
<1> QED
  BY <1>1, <1>3, <1>4, <1>5 DEF rest

(* What Descend makes of the calls. *)
LEMMA Descended ==
  ASSUME TypeOK, ShapeInv, NEW n \in Actions, AtAction(n)
  PROVE  LET f == Descend(n)
         IN  /\ f \in Seq(SUBSET Actions) /\ DOMAIN f = 1..(Depth + 1)
             /\ f[Depth + 1] = Inline(n)
             /\ \A d \in 1..Depth : f[d] = IF d = Depth THEN frames[d] \ {n} ELSE frames[d]
<1> DEFINE g == StepOver(n)
<1>1. /\ g \in Seq(SUBSET Actions) /\ Len(g) = Depth
      /\ \A d \in 1..Depth : g[d] = IF d = Depth THEN frames[d] \ {n} ELSE frames[d]
  BY SteppedOver
<1>2. Inline(n) \in SUBSET Actions
  BY DEF Inline
<1> HIDE DEF g
<1>3. /\ Append(g, Inline(n)) \in Seq(SUBSET Actions)
      /\ DOMAIN Append(g, Inline(n)) = 1..(Depth + 1)
      /\ Append(g, Inline(n))[Depth + 1] = Inline(n)
      /\ \A d \in 1..Depth : Append(g, Inline(n))[d] = g[d]
  BY <1>1, <1>2, Appended
<1> QED
  BY <1>1, <1>3 DEF g, Descend

-----------------------------------------------------------------------------
(* The steps.                                                              *)

LEMMA InitIInv == Init => IInv
<1> SUFFICES ASSUME Init PROVE IInv
  OBVIOUS
<1>1. PICK size \in 1..MaxActions :
        /\ parent \in [1..size -> 0..(size - 1)] /\ InExecutionOrder(parent)
        /\ kind \in [1..size -> Kinds]
  BY DEF Init
<1>2. size \in Nat \ {0} /\ Actions = 1..size
  BY <1>1, TraceWalkAssumption DEF Actions
<1>3. /\ status = "start" /\ frames = <<>> /\ current = 0
      /\ added = <<>> /\ rows = <<>> /\ parsed = {}
  BY DEF Init
<1>4. TypeOK
  BY <1>1, <1>2, <1>3 DEF TypeOK
<1>5. ShapeInv
  BY <1>1, <1>2 DEF ShapeInv
<1>6. StatusInv
  BY <1>3 DEF StatusInv
<1>7. OrderInv /\ OtherInv /\ AheadInv /\ CoverInv
  BY <1>3 DEF OrderInv, OtherInv, AheadInv, CoverInv
<1>8. AddedInOrder /\ RowsInOrder
  BY <1>3 DEF AddedInOrder, RowsInOrder, Sorted
<1> QED
  BY <1>4, <1>5, <1>6, <1>7, <1>8 DEF IInv

(* The trace does not change, nor what is said of it. *)
LEMMA SameTrace ==
  ASSUME UNCHANGED trace, ShapeInv
  PROVE  /\ parent' = parent /\ kind' = kind /\ ShapeInv'
         /\ Actions' = Actions /\ Outermost' = Outermost
         /\ \A n, x : Within(n, x)' <=> Within(n, x)
  BY DEF trace, ShapeInv, Actions, Outermost, Within, Enclosing

(* What the rows and the additions satisfy stays so while they do. *)
LEMMA SameTables ==
  ASSUME IInv, UNCHANGED trace, added' = added, rows' = rows, parsed' = parsed,
         status' \notin {"insert"}
  PROVE  AddedInOrder' /\ RowsInOrder'
<1>1. Outermost' = Outermost
  BY SameTrace DEF IInv
<1>2. AddedInOrder'
  BY <1>1 DEF IInv, AddedInOrder, Sorted
<1>3. RowsInOrder'
  BY DEF IInv, RowsInOrder, Sorted
<1> QED
  BY <1>2, <1>3

LEMMA GetSessionStep == IInv /\ GetSession => IInv'
<1> SUFFICES ASSUME IInv, GetSession PROVE IInv'
  OBVIOUS
<1>1. /\ status = "start" /\ frames = <<>>
      /\ UNCHANGED trace
      /\ current' = current /\ added' = added /\ rows' = rows /\ parsed' = parsed
      /\ added = <<>> /\ rows = <<>> /\ parsed = {}
      /\ status' \in {"walk", "lost"}
  BY DEF IInv, StatusInv, GetSession, tables
<1>2. \/ status' = "walk" /\ frames' = <<TopLevel>>
      \/ status' = "lost" /\ frames' = <<>>
  BY <1>1 DEF GetSession
<1>3. TypeOK /\ ShapeInv /\ InExecutionOrder(parent)
  BY DEF IInv, TypeOK
<1>4. /\ parent' = parent /\ kind' = kind /\ ShapeInv'
      /\ Actions' = Actions /\ Outermost' = Outermost
      /\ \A n, x : Within(n, x)' <=> Within(n, x)
  BY <1>1, <1>3, SameTrace
<1>5. TopLevel \in SUBSET Actions
  BY DEF TopLevel, Inline
<1>6. frames' \in Seq(SUBSET Actions)
  <2>1. <<TopLevel>> \in Seq(SUBSET Actions) /\ <<>> \in Seq(SUBSET Actions)
    BY <1>5
  <2> QED
    BY <1>2, <2>1
<1>7. TypeOK'
  BY <1>1, <1>3, <1>4, <1>6 DEF TypeOK, InExecutionOrder
<1>8. StatusInv'
  BY <1>1, <1>2 DEF StatusInv
<1>9. \A x \in TopLevel : x \in Nat /\ x > 0 /\ parent[x] = 0
  BY <1>3, Numbering DEF TopLevel, Inline
<1>10. OrderInv'
  <2>1. \A d \in DOMAIN frames' : d = 1 /\ frames'[d] = TopLevel
    BY <1>2
  <2> QED
    BY <1>4, <1>9, <2>1 DEF OrderInv
<1>11. OtherInv'
  <2>1. \A d \in DOMAIN frames' : frames'[d] = TopLevel
    BY <1>2
  <2>2. \A x \in TopLevel : Enclosing(x) = {}
    BY <1>3, EnclosingInline DEF TopLevel
  <2>3. \A x : Enclosing(x)' = Enclosing(x)
    BY <1>4 DEF Enclosing
  <2> QED
    BY <2>1, <2>2, <2>3 DEF OtherInv
<1>12. AheadInv'
  BY <1>1 DEF AheadInv
<1>13. CoverInv'
  <2> SUFFICES ASSUME status' = "walk", NEW o \in Outermost
               PROVE  IsLeft(o)'
    BY <1>1, <1>4 DEF CoverInv
  <2>1. o \in Actions /\ o \in Nat /\ o > 0 /\ \A k \in 1..o : parent[k] \in Nat
    BY <1>3, Numbering DEF Outermost
  <2>2. \A k \in (0 + 1)..o : parent[k] >= 0
    BY <2>1
  <2>3. PICK c \in Inline(0) : Within(o, c)
    BY <1>3, <2>1, <2>2, InsideSome
  <2>4. frames' = <<TopLevel>> /\ c \in TopLevel
    BY <1>2, <2>3 DEF TopLevel
  <2> QED
    BY <1>4, <2>3, <2>4 DEF IsLeft
<1>14. AddedInOrder' /\ RowsInOrder'
  BY <1>1, SameTables
<1> QED
  BY <1>4, <1>7, <1>8, <1>10, <1>11, <1>12, <1>13, <1>14 DEF IInv

(* What is left still is when the walk steps over an action nothing of     *)
(* which was to be added.                                                  *)
LEMMA NotificationStep == ASSUME NEW n \in Actions PROVE IInv /\ Notification(n) => IInv'
<1> SUFFICES ASSUME IInv, Notification(n) PROVE IInv'
  OBVIOUS
<1>1. /\ AtAction(n) /\ kind[n] = "notified" /\ frames' = StepOver(n)
      /\ UNCHANGED trace
      /\ status' = "walk" /\ status = "walk" /\ current' = current
      /\ added' = added /\ rows' = rows /\ parsed' = parsed
  BY DEF Notification, tables, AtAction
<1>2. TypeOK /\ ShapeInv /\ InExecutionOrder(parent)
  BY DEF IInv, TypeOK
<1>3. /\ parent' = parent /\ kind' = kind /\ ShapeInv'
      /\ Actions' = Actions /\ Outermost' = Outermost
      /\ \A m, x : Within(m, x)' <=> Within(m, x)
  BY <1>1, <1>2, SameTrace
<1>4. /\ frames' \in Seq(SUBSET Actions) /\ DOMAIN frames' = 1..Depth
      /\ \A d \in 1..Depth :
           frames'[d] = IF d = Depth THEN frames[d] \ {n} ELSE frames[d]
  BY <1>1, <1>2, SteppedOver
<1>5. TypeOK'
  BY <1>1, <1>2, <1>3, <1>4 DEF TypeOK, InExecutionOrder
<1>6. StatusInv'
  BY <1>1 DEF StatusInv
<1>7. DOMAIN frames = 1..Depth
  BY <1>2, Frames
<1>8. OrderInv' /\ OtherInv' /\ AheadInv'
  BY <1>1, <1>3, <1>4, <1>7, Fewer DEF IInv
<1>9. CoverInv'
  <2> SUFFICES ASSUME NEW o \in Outermost PROVE IsAdded(o)' \/ IsLeft(o)'
    BY <1>3 DEF CoverInv
  <2>1. IsAdded(o) \/ IsLeft(o)
    BY <1>1 DEF IInv, CoverInv
  <2>2. IsAdded(o) => IsAdded(o)'
    BY <1>1 DEF IsAdded
  <2>3. ~Within(o, n)
    BY <1>1 DEF Within, Outermost, Saved
  <2>4. IsLeft(o) => IsLeft(o)'
    BY <1>3, <1>4, <1>7, <2>3 DEF IsLeft
  <2> QED
    BY <2>1, <2>2, <2>4
<1>10. AddedInOrder' /\ RowsInOrder'
  BY <1>1, SameTables
<1> QED
  BY <1>3, <1>5, <1>6, <1>8, <1>9, <1>10 DEF IInv
(* Of an action that is not in the filter the walk steps into the inline   *)
(* traces, and what is inside it is within one of them.                    *)
LEMMA NotFilteredStep == ASSUME NEW n \in Actions PROVE IInv /\ NotFiltered(n) => IInv'
<1> SUFFICES ASSUME IInv, NotFiltered(n) PROVE IInv'
  OBVIOUS
<1>1. /\ AtAction(n) /\ kind[n] = "other"
      /\ frames' = IF Inline(n) = {} THEN StepOver(n) ELSE Descend(n)
      /\ UNCHANGED trace
      /\ status' = "walk" /\ status = "walk" /\ current' = current
      /\ added' = added /\ rows' = rows /\ parsed' = parsed
  BY DEF NotFiltered, tables, AtAction
<1>2. TypeOK /\ ShapeInv /\ OrderInv /\ OtherInv /\ AheadInv /\ InExecutionOrder(parent)
  BY DEF IInv, TypeOK
<1>3. /\ parent' = parent /\ kind' = kind /\ ShapeInv'
      /\ Actions' = Actions /\ Outermost' = Outermost
      /\ \A m, x : Within(m, x)' <=> Within(m, x)
  BY <1>1, <1>2, SameTrace
<1>4. DOMAIN frames = 1..Depth /\ Depth \in Nat /\ Depth \in 1..Depth /\ n \in frames[Depth]
  BY <1>1, <1>2, Frames DEF AtAction
<1>5. /\ frames' \in Seq(SUBSET Actions)
      /\ DOMAIN frames' = 1..(IF Inline(n) = {} THEN Depth ELSE Depth + 1)
      /\ Inline(n) # {} => frames'[Depth + 1] = Inline(n)
      /\ \A d \in 1..Depth :
           frames'[d] = IF d = Depth THEN frames[d] \ {n} ELSE frames[d]
  BY <1>1, <1>2, SteppedOver, Descended
<1>5a. 1..Depth \subseteq DOMAIN frames' /\ DOMAIN frames' \subseteq 1..(Depth + 1)
  BY <1>4, <1>5
<1>5b. Depth + 1 \in DOMAIN frames' <=> Inline(n) # {}
  BY <1>4, <1>5
<1>6. TypeOK'
  BY <1>1, <1>2, <1>3, <1>5 DEF TypeOK, InExecutionOrder
<1>7. StatusInv'
  BY <1>1 DEF StatusInv
<1>8. \A d \in DOMAIN frames' : \A x \in frames'[d] :
        \/ d \in 1..Depth /\ x \in frames[d] /\ n < x /\ parent[x] < n
        \/ d = Depth + 1 /\ x \in Inline(n)
  <2>0. ASSUME NEW d \in DOMAIN frames', NEW x \in frames'[d], d = Depth + 1
        PROVE  x \in Inline(n)
    BY <1>5, <1>5b, <2>0
  <2> SUFFICES ASSUME NEW d \in DOMAIN frames', NEW x \in frames'[d], d # Depth + 1
               PROVE  d \in 1..Depth /\ x \in frames[d] /\ n < x /\ parent[x] < n
    BY <2>0
  <2>1. d \in 1..Depth
    BY <1>4, <1>5a
  <2>2. x \in frames[d] /\ ~(d = Depth /\ x = n)
    BY <1>5, <2>1
  <2>3. n < x
    BY <1>1, <1>2, <2>1, <2>2, ComesFirst
  <2>4. parent[x] < n
    BY <1>2, <1>4, <2>1, <2>2 DEF OrderInv
  <2> QED
    BY <2>1, <2>2, <2>3, <2>4
<1>9. /\ n \in Nat
      /\ \A y \in Inline(n) : y \in Actions /\ y \in Nat /\ parent[y] = n /\ n < y
  BY <1>2, Numbering DEF Inline
<1>10. OrderInv'
  <2> SUFFICES ASSUME NEW d \in DOMAIN frames', NEW e \in DOMAIN frames',
                      NEW x \in frames'[d], NEW y \in frames'[e]
               PROVE  (d <= e => parent[x] < y) /\ (d < e => y < x)
    BY <1>3 DEF OrderInv
  <2>1. CASE d \in 1..Depth /\ e \in 1..Depth
    BY <1>2, <1>4, <1>5, <2>1 DEF OrderInv
  <2>2. CASE d \in 1..Depth /\ e = Depth + 1
    <3>1. x \in frames[d] /\ n < x /\ parent[x] < n /\ y \in Inline(n)
      BY <1>4, <1>8, <2>2
    <3>2. x \in Actions /\ x \in Nat /\ parent[x] \in Nat
      BY <1>2, <2>2, <3>1, Frames, Numbering
    <3>3. y \in Actions /\ y \in Nat /\ parent[y] = n /\ n < y
      BY <1>9, <3>1
    <3>4. \A i \in 1..(y - 1) : i <= n \/ n <= parent[i]
      BY <1>2, <3>3, Numbering
    <3>5. ~(x < y)
      BY <1>9, <3>1, <3>2, <3>3, <3>4
    <3>6. x # y
      BY <1>9, <3>1, <3>2, <3>3
    <3> QED
      BY <1>9, <3>1, <3>2, <3>3, <3>5, <3>6
  <2>3. CASE d = Depth + 1 /\ e \in 1..Depth
    BY <1>4, <2>3
  <2>4. CASE d = Depth + 1 /\ e = Depth + 1
    <3>1. x \in Inline(n) /\ y \in Inline(n)
      BY <1>4, <1>8, <2>4
    <3> QED
      BY <1>4, <1>9, <2>4, <3>1
  <2> QED
    BY <1>8, <2>1, <2>2, <2>3, <2>4
<1>11. OtherInv'
  <2> SUFFICES ASSUME NEW d \in DOMAIN frames', NEW x \in frames'[d], NEW m \in Enclosing(x)
               PROVE  kind[m] = "other"
    BY <1>3 DEF OtherInv, Enclosing
  <2>1. CASE d \in 1..Depth /\ x \in frames[d]
    BY <1>2, <1>4, <2>1 DEF OtherInv
  <2>2. CASE x \in Inline(n)
    <3>1. m = n \/ m \in Enclosing(n)
      BY <1>2, <1>9, <2>2, EnclosingInline
    <3>2. m \in Enclosing(n) => kind[m] = "other"
      BY <1>2, <1>4 DEF OtherInv
    <3> QED
      BY <1>1, <3>1, <3>2
  <2> QED
    BY <1>8, <2>1, <2>2
<1>12. AheadInv'
  <2> SUFFICES ASSUME NEW i \in DOMAIN added, NEW d \in DOMAIN frames', NEW x \in frames'[d]
               PROVE  added[i] < x
    BY <1>1 DEF AheadInv
  <2>1. added[i] < n
    BY <1>2, <1>4 DEF AheadInv
  <2>2. n < x /\ x \in Nat
    BY <1>2, <1>8, <1>9, Frames
  <2>3. added[i] \in Nat
    BY <1>2, Numbering, ElementOfSeq, LenProperties DEF TypeOK
  <2> QED
    BY <1>9, <2>1, <2>2, <2>3
<1>13. CoverInv'
  <2> SUFFICES ASSUME NEW o \in Outermost PROVE IsAdded(o)' \/ IsLeft(o)'
    BY <1>3 DEF CoverInv
  <2>1. IsAdded(o) \/ IsLeft(o)
    BY <1>1 DEF IInv, CoverInv
  <2>2. IsAdded(o) => IsAdded(o)'
    BY <1>1 DEF IsAdded
  <2>3. CASE IsLeft(o) /\ ~Within(o, n)
    <3>1. PICK d \in 1..Depth : \E x \in frames[d] : Within(o, x)
      BY <1>4, <2>3 DEF IsLeft
    <3>2. PICK x \in frames[d] : Within(o, x)
      BY <3>1
    <3>3. x # n
      BY <2>3, <3>2
    <3>4. d \in DOMAIN frames' /\ x \in frames'[d]
      BY <1>5, <1>5a, <3>2, <3>3
    <3> QED
      BY <1>3, <3>2, <3>4 DEF IsLeft
  <2>4. CASE Within(o, n)
    <3>1. n \in Enclosing(o)
      BY <1>1, <2>4 DEF Within, Outermost, Saved
    <3>2. o \in Actions /\ o \in Nat /\ n < o /\ \A k \in (n + 1)..o : parent[k] >= n
      BY <1>2, <1>9, <3>1, Numbering DEF Enclosing, Outermost
    <3>3. PICK c \in Inline(n) : Within(o, c)
      BY <1>2, <1>9, <3>2, InsideSome
    <3>4. Depth + 1 \in DOMAIN frames' /\ c \in frames'[Depth + 1]
      BY <1>5, <1>5b, <3>3
    <3> QED
      BY <1>3, <3>3, <3>4 DEF IsLeft
  <2> QED
    BY <2>1, <2>2, <2>3, <2>4
<1>14. AddedInOrder' /\ RowsInOrder'
  BY <1>1, SameTables
<1> QED
  BY <1>3, <1>6, <1>7, <1>10, <1>11, <1>12, <1>13, <1>14 DEF IInv
(* An action that is added is outermost, and no outermost action before it *)
(* is still to come.                                                       *)
LEMMA AddDataStep == ASSUME NEW n \in Actions PROVE IInv /\ AddData(n) => IInv'
<1> SUFFICES ASSUME IInv, AddData(n) PROVE IInv'
  OBVIOUS
<1>1. /\ AtAction(n) /\ kind[n] \in Saved /\ status = "walk"
      /\ UNCHANGED trace
      /\ added' = Append(added, n) /\ current' = n /\ rows' = rows /\ parsed' = parsed
      /\ \/ status' = "insert" /\ frames' = StepOver(n)
         \/ kind[n] = "unreadable" /\ status' = "aborted" /\ frames' = <<>>
  BY DEF AddData, AtAction
<1>2. /\ TypeOK /\ ShapeInv /\ OrderInv /\ OtherInv /\ AheadInv /\ RowsInOrder
      /\ InExecutionOrder(parent)
  BY DEF IInv, TypeOK
<1>3. /\ parent' = parent /\ kind' = kind /\ ShapeInv'
      /\ Actions' = Actions /\ Outermost' = Outermost
      /\ \A m, x : Within(m, x)' <=> Within(m, x)
  BY <1>1, <1>2, SameTrace
<1>4. DOMAIN frames = 1..Depth /\ Depth \in 1..Depth /\ n \in frames[Depth] /\ n \in Nat
  BY <1>1, <1>2, Frames, Numbering DEF AtAction
<1>5. /\ StepOver(n) \in Seq(SUBSET Actions) /\ DOMAIN StepOver(n) = 1..Depth
      /\ \A d \in 1..Depth :
           StepOver(n)[d] = IF d = Depth THEN frames[d] \ {n} ELSE frames[d]
  BY <1>1, <1>2, SteppedOver
<1>6. /\ frames' \in Seq(SUBSET Actions) /\ DOMAIN frames' \subseteq 1..Depth
      /\ \A d \in DOMAIN frames' :
           frames'[d] \subseteq frames[d] /\ ~(d = Depth /\ n \in frames'[d])
  <2>1. CASE frames' = <<>>
    <3>1. <<>> \in Seq(SUBSET Actions) /\ DOMAIN <<>> = {}
      OBVIOUS
    <3> QED
      BY <2>1, <3>1
  <2>2. CASE frames' = StepOver(n)
    BY <1>5, <2>2
  <2> QED
    BY <1>1, <2>1, <2>2
<1>7. /\ added \in Seq(Actions) /\ added \in Seq(Nat) /\ Len(added) \in Nat
      /\ DOMAIN added = 1..Len(added)
      /\ added' \in Seq(Actions) /\ added' # <<>>
      /\ Len(added') = Len(added) + 1
      /\ DOMAIN added' = 1..(Len(added) + 1)
      /\ added'[Len(added) + 1] = n
      /\ \A i \in 1..Len(added) : added'[i] = added[i]
  <2>1. added \in Seq(Actions) /\ added \in Seq(Nat)
    BY <1>2, Numbering, SeqMonotonic DEF TypeOK
  <2> QED
    BY <1>1, <2>1, Appended
<1>8. \A i \in DOMAIN added : added[i] \in Nat /\ added[i] < n
  BY <1>2, <1>4, <1>7, ElementOfSeq DEF AheadInv
<1>9. TypeOK'
  <2>1. status' \in {"start", "walk", "insert", "parse", "done", "lost", "aborted"}
    BY <1>1
  <2>2. current' \in Actions
    BY <1>1
  <2>3. kind \in [Actions -> Kinds] /\ rows \in Seq(Actions) /\ parsed \subseteq Actions
    BY <1>2 DEF TypeOK
  <2> QED
    BY <1>1, <1>2, <1>3, <1>6, <1>7, <2>1, <2>2, <2>3 DEF TypeOK, InExecutionOrder
<1>10. (\A i \in DOMAIN rows : rows[i] < n) /\ (\A m \in parsed : m < n)
  BY <1>2, <1>8 DEF RowsInOrder
<1>11. StatusInv'
  <2>1. status' = "insert" \/ (status' = "aborted" /\ frames' = <<>> /\ kind[n] = "unreadable")
    BY <1>1
  <2>2. added'[Len(added')] = n /\ added' # <<>>
    BY <1>7
  <2> QED
    BY <1>1, <1>3, <1>10, <2>1, <2>2 DEF StatusInv
<1>12. OrderInv' /\ OtherInv'
  BY <1>2, <1>3, <1>4, <1>6, Fewer
<1>13. AheadInv'
  <2> SUFFICES ASSUME NEW i \in DOMAIN added', NEW d \in DOMAIN frames', NEW x \in frames'[d]
               PROVE  added'[i] < x
    BY DEF AheadInv
  <2>1. d \in 1..Depth /\ x \in frames[d] /\ ~(d = Depth /\ x = n)
    BY <1>6
  <2>2. n < x /\ x \in Nat
    BY <1>1, <1>2, <2>1, ComesFirst, Frames
  <2>3. CASE i = Len(added) + 1
    BY <1>7, <2>2, <2>3
  <2>4. CASE i # Len(added) + 1
    <3>1. i \in DOMAIN added /\ added'[i] = added[i]
      BY <1>7, <2>4
    <3> QED
      BY <1>4, <1>8, <2>2, <3>1
  <2> QED
    BY <2>3, <2>4
<1>14. n \in Outermost
  BY <1>1, <1>2, <1>4 DEF Outermost, OtherInv
<1>15. \A o \in Outermost : IsAdded(o) \/ IsLeft(o)
  BY <1>1 DEF IInv, CoverInv
<1>16. \A o : IsAdded(o) => IsAdded(o)'
  BY <1>7 DEF IsAdded
<1>17. CoverInv'
  <2> SUFFICES ASSUME NEW o \in Outermost, status' = "insert"
               PROVE  IsAdded(o)' \/ IsLeft(o)'
    BY <1>1, <1>3 DEF CoverInv
  <2>1. frames' = StepOver(n)
    BY <1>1
  <2>2. CASE o = n
    BY <1>7, <2>2 DEF IsAdded
  <2>3. CASE o # n
    <3>1. ~Within(o, n)
      BY <1>1, <2>3 DEF Within, Outermost, Saved
    <3>2. IsLeft(o) => IsLeft(o)'
      BY <1>3, <1>4, <1>5, <2>1, <3>1 DEF IsLeft
    <3> QED
      BY <1>15, <1>16, <3>2
  <2> QED
    BY <2>2, <2>3
<1>18. AddedInOrder'
  <2>1. Sorted(added')
    BY <1>1, <1>2, <1>4, <1>7, <1>8, AppendedSorted DEF IInv, AddedInOrder
  <2>2. \A o \in Outermost : o < n => IsAdded(o)
    <3> SUFFICES ASSUME NEW o \in Outermost, o < n, IsLeft(o) PROVE FALSE
      BY <1>15
    <3>1. PICK d \in 1..Depth : \E x \in frames[d] : Within(o, x)
      BY <1>4 DEF IsLeft
    <3>2. PICK x \in frames[d] : Within(o, x)
      BY <3>1
    <3>3. o \in Nat /\ x \in Nat /\ n <= x
      BY <1>1, <1>2, <1>4, ComesFirst, Frames, Numbering DEF Outermost
    <3>4. x <= o
      BY <3>2, <3>3 DEF Within, Enclosing
    <3> QED
      BY <1>4, <3>3, <3>4
  <2>3. ASSUME NEW i \in DOMAIN added'
        PROVE  /\ added'[i] \in Outermost
               /\ \A o \in Outermost : o < added'[i] => \E j \in 1..i : added'[j] = o
    <3>1. CASE i = Len(added) + 1
      <4>1. added'[i] = n
        BY <1>7, <3>1
      <4>2. ASSUME NEW o \in Outermost, o < n PROVE \E j \in 1..i : added'[j] = o
        <5>1. PICK j \in 1..Len(added) : added[j] = o
          BY <1>7, <2>2, <4>2 DEF IsAdded
        <5> QED
          BY <1>7, <3>1, <5>1
      <4> QED
        BY <1>14, <4>1, <4>2
    <3>2. CASE i # Len(added) + 1
      <4>1. i \in 1..Len(added) /\ added'[i] = added[i]
        BY <1>7, <3>2
      <4>2. \A j \in 1..i : added'[j] = added[j]
        BY <1>7, <4>1
      <4> QED
        BY <1>7, <4>1, <4>2 DEF IInv, AddedInOrder
    <3> QED
      BY <3>1, <3>2
  <2> QED
    BY <1>3, <2>1, <2>3 DEF AddedInOrder
<1>19. RowsInOrder'
  <2>1. \A i \in DOMAIN added : i \in DOMAIN added' /\ added'[i] = added[i]
    BY <1>7
  <2>2. Sorted(rows) /\ n \notin parsed /\ \A i \in DOMAIN rows : rows[i] # n
    <3>1. \A m \in parsed : m \in Nat
      BY <1>2, Numbering DEF TypeOK
    <3> QED
      BY <1>2, <1>4, <1>10, <3>1 DEF RowsInOrder
  <2> QED
    BY <1>1, <1>2, <2>1, <2>2 DEF RowsInOrder, Sorted
<1> QED
  BY <1>3, <1>9, <1>11, <1>12, <1>13, <1>17, <1>18, <1>19 DEF IInv

(* The steps after an addition leave the calls and the additions alone. *)
LEMMA SameCalls ==
  ASSUME IInv, UNCHANGED trace, frames' = frames, added' = added,
         status \in {"insert", "parse"}, status' \in {"parse", "walk"}
  PROVE  ShapeInv' /\ OrderInv' /\ OtherInv' /\ AheadInv' /\ CoverInv' /\ AddedInOrder'
<1>1. /\ parent' = parent /\ kind' = kind /\ ShapeInv' /\ Outermost' = Outermost
      /\ \A m, x : Within(m, x)' <=> Within(m, x)
  BY SameTrace DEF IInv
<1>2. OrderInv' /\ OtherInv' /\ AheadInv'
  BY <1>1, Fewer DEF IInv
<1>3. CoverInv'
  BY <1>1 DEF IInv, CoverInv, IsAdded, IsLeft
<1>4. AddedInOrder'
  BY <1>1 DEF IInv, AddedInOrder, Sorted
<1> QED
  BY <1>1, <1>2, <1>3, <1>4
LEMMA InsertStep == IInv /\ Insert => IInv'
<1> SUFFICES ASSUME IInv, Insert PROVE IInv'
  OBVIOUS
<1>1. /\ status = "insert" /\ status' = "parse"
      /\ UNCHANGED trace
      /\ frames' = frames /\ current' = current /\ added' = added /\ parsed' = parsed
      /\ rows' = rows \/ rows' = Append(rows, current)
  BY DEF Insert
<1>2. TypeOK /\ ShapeInv /\ StatusInv /\ RowsInOrder /\ InExecutionOrder(parent)
  BY DEF IInv, TypeOK
<1>3. parent' = parent /\ kind' = kind /\ Actions' = Actions
  BY <1>1, <1>2, SameTrace
<1>4. ShapeInv' /\ OrderInv' /\ OtherInv' /\ AheadInv' /\ CoverInv' /\ AddedInOrder'
  BY <1>1, SameCalls
<1>5. /\ added # <<>> /\ current = added[Len(added)]
      /\ \A i \in DOMAIN rows : rows[i] < current
  BY <1>1, <1>2 DEF StatusInv
<1>6. /\ Len(added) \in DOMAIN added /\ current \in Actions /\ current \in Nat
      /\ rows \in Seq(Actions) /\ rows \in Seq(Nat)
  <2>1. added \in Seq(Actions) /\ rows \in Seq(Actions)
    BY <1>2 DEF TypeOK
  <2>2. Len(added) \in DOMAIN added
    BY <1>5, <2>1, EmptySeq, LenProperties
  <2>3. added[Len(added)] \in Actions
    BY <2>1, <2>2, LenProperties, ElementOfSeq
  <2>4. Actions \subseteq Nat
    BY <1>2, Numbering
  <2> QED
    BY <1>5, <2>1, <2>2, <2>3, <2>4, SeqMonotonic
<1>7. /\ rows' \in Seq(Actions) /\ Sorted(rows')
      /\ \A i \in DOMAIN rows' : \E j \in DOMAIN added : added[j] = rows'[i]
  <2>1. CASE rows' = rows
    BY <1>2, <1>6, <2>1 DEF RowsInOrder, Sorted
  <2>2. CASE rows' = Append(rows, current)
    <3>1. /\ Len(rows) \in Nat /\ DOMAIN rows = 1..Len(rows)
          /\ rows' \in Seq(Actions) /\ DOMAIN rows' = 1..(Len(rows) + 1)
          /\ rows'[Len(rows) + 1] = current
          /\ \A i \in 1..Len(rows) : rows'[i] = rows[i]
      BY <1>6, <2>2, Appended
    <3>2. Sorted(rows')
      BY <1>2, <1>5, <1>6, <2>2, AppendedSorted DEF RowsInOrder
    <3>3. ASSUME NEW i \in DOMAIN rows' PROVE \E j \in DOMAIN added : added[j] = rows'[i]
      <4>1. CASE i = Len(rows) + 1
        BY <1>5, <1>6, <3>1, <4>1
      <4>2. CASE i # Len(rows) + 1
        BY <1>2, <3>1, <4>2 DEF RowsInOrder
      <4> QED
        BY <4>1, <4>2
    <3> QED
      BY <3>1, <3>2, <3>3
  <2> QED
    BY <1>1, <2>1, <2>2
<1>8. TypeOK'
  BY <1>1, <1>2, <1>3, <1>7 DEF TypeOK, InExecutionOrder
<1>9. StatusInv'
  BY <1>1, <1>5 DEF StatusInv
<1>10. RowsInOrder'
  BY <1>1, <1>2, <1>7 DEF RowsInOrder
<1> QED
  BY <1>4, <1>8, <1>9, <1>10 DEF IInv

LEMMA ParseStep == IInv /\ Parse => IInv'
<1> SUFFICES ASSUME IInv, Parse PROVE IInv'
  OBVIOUS
<1>1. /\ status = "parse" /\ status' = "walk"
      /\ UNCHANGED trace
      /\ frames' = frames /\ current' = current /\ added' = added /\ rows' = rows
      /\ parsed' = parsed \/ parsed' = parsed \cup {current}
  BY DEF Parse, IntoSaved
<1>2. TypeOK /\ ShapeInv /\ StatusInv /\ RowsInOrder /\ InExecutionOrder(parent)
  BY DEF IInv, TypeOK
<1>3. parent' = parent /\ kind' = kind /\ Actions' = Actions
  BY <1>1, <1>2, SameTrace
<1>4. ShapeInv' /\ OrderInv' /\ OtherInv' /\ AheadInv' /\ CoverInv' /\ AddedInOrder'
  BY <1>1, SameCalls
<1>5. added # <<>> /\ current = added[Len(added)]
  BY <1>1, <1>2 DEF StatusInv
<1>6. Len(added) \in DOMAIN added /\ current \in Actions
  <2>1. added \in Seq(Actions)
    BY <1>2 DEF TypeOK
  <2>2. Len(added) \in DOMAIN added
    BY <1>5, <2>1, EmptySeq, LenProperties
  <2> QED
    BY <1>5, <2>1, <2>2, LenProperties, ElementOfSeq
<1>7. TypeOK'
  BY <1>1, <1>2, <1>3, <1>6 DEF TypeOK, InExecutionOrder
<1>8. StatusInv'
  BY <1>1 DEF StatusInv
<1>9. \A m \in parsed' : \E i \in DOMAIN added : added[i] = m
  BY <1>1, <1>2, <1>5, <1>6 DEF RowsInOrder
<1>10. RowsInOrder'
  BY <1>1, <1>2, <1>9 DEF RowsInOrder, Sorted
<1> QED
  BY <1>4, <1>7, <1>8, <1>10 DEF IInv

LEMMA ReturnStep == IInv /\ Return => IInv'
<1> SUFFICES ASSUME IInv, Return PROVE IInv'
  OBVIOUS
<1>1. /\ status = "walk" /\ Depth > 0 /\ frames[Depth] = {}
      /\ frames' = SubSeq(frames, 1, Depth - 1)
      /\ status' = IF Depth = 1 THEN "done" ELSE "walk"
      /\ UNCHANGED trace
      /\ current' = current /\ added' = added /\ rows' = rows /\ parsed' = parsed
  BY DEF Return, tables
<1>2. TypeOK /\ ShapeInv /\ InExecutionOrder(parent)
  BY DEF IInv, TypeOK
<1>3. /\ parent' = parent /\ kind' = kind /\ ShapeInv'
      /\ Actions' = Actions /\ Outermost' = Outermost
      /\ \A m, x : Within(m, x)' <=> Within(m, x)
  BY <1>1, <1>2, SameTrace
<1>4. /\ Depth \in Nat /\ Depth = Len(frames) /\ DOMAIN frames = 1..Depth
      /\ frames \in Seq(SUBSET Actions)
  BY <1>2, Frames DEF TypeOK, Depth
<1>5. /\ frames' \in Seq(SUBSET Actions) /\ Len(frames') = Depth - 1
      /\ DOMAIN frames' = 1..(Depth - 1)
      /\ \A d \in 1..(Depth - 1) : frames'[d] = frames[d]
  BY <1>1, <1>4
<1>6. TypeOK'
  <2>1. status' \in {"done", "walk"}
    BY <1>1
  <2> QED
    BY <1>1, <1>2, <1>3, <1>5, <2>1 DEF TypeOK, InExecutionOrder
<1>7. StatusInv'
  <2>1. Depth = 1 => frames' = <<>>
    BY <1>4, <1>5, EmptySeq
  <2> QED
    BY <1>1, <2>1 DEF StatusInv
<1>8. OrderInv' /\ OtherInv' /\ AheadInv'
  <2>1. DOMAIN frames' \subseteq DOMAIN frames
    BY <1>4, <1>5
  <2> QED
    BY <1>1, <1>3, <1>5, <2>1, Fewer DEF IInv
<1>9. CoverInv'
  <2> SUFFICES ASSUME NEW o \in Outermost PROVE IsAdded(o)' \/ IsLeft(o)'
    BY <1>3 DEF CoverInv
  <2>1. IsAdded(o) \/ IsLeft(o)
    BY <1>1 DEF IInv, CoverInv
  <2>2. IsAdded(o) => IsAdded(o)'
    BY <1>1 DEF IsAdded
  <2>3. CASE IsLeft(o)
    <3>1. PICK d \in 1..Depth : \E x \in frames[d] : Within(o, x)
      BY <1>4, <2>3 DEF IsLeft
    <3>2. d # Depth
      BY <1>1, <3>1
    <3>3. d \in DOMAIN frames' /\ frames'[d] = frames[d]
      BY <1>4, <1>5, <3>2
    <3> QED
      BY <1>3, <3>1, <3>3 DEF IsLeft
  <2> QED
    BY <2>1, <2>2, <2>3
<1>10. AddedInOrder' /\ RowsInOrder'
  <2>1. status' \notin {"insert"}
    BY <1>1
  <2> QED
    BY <1>1, <2>1, SameTables
<1> QED
  BY <1>3, <1>6, <1>7, <1>8, <1>9, <1>10 DEF IInv

-----------------------------------------------------------------------------
(* The theorems.                                                           *)

(* Every step of the walk keeps the inductive invariant. *)
LEMMA NextIInv == IInv /\ [Next]_vars => IInv'
<1> SUFFICES ASSUME IInv, [Next]_vars PROVE IInv'
  OBVIOUS
<1>1. CASE GetSession
  BY <1>1, GetSessionStep
<1>2. ASSUME NEW n \in Actions, Notification(n) PROVE IInv'
  BY <1>2, NotificationStep
<1>3. ASSUME NEW n \in Actions, NotFiltered(n) PROVE IInv'
  BY <1>3, NotFilteredStep
<1>4. ASSUME NEW n \in Actions, AddData(n) PROVE IInv'
  BY <1>4, AddDataStep
<1>5. CASE Insert
  BY <1>5, InsertStep
<1>6. CASE Parse
  BY <1>6, ParseStep
<1>7. CASE Return
  BY <1>7, ReturnStep
<1>8. CASE UNCHANGED vars
  <2>1. /\ UNCHANGED trace /\ frames' = frames /\ status' = status /\ current' = current
        /\ added' = added /\ rows' = rows /\ parsed' = parsed
        /\ parent' = parent /\ kind' = kind
    BY <1>8 DEF vars, trace
  <2>2. TypeOK' /\ ShapeInv' /\ StatusInv' /\ OrderInv' /\ OtherInv' /\ AheadInv'
    <3>1. TypeOK'
      BY <2>1 DEF IInv, TypeOK, Actions, InExecutionOrder
    <3>2. ShapeInv'
      BY <2>1 DEF IInv, ShapeInv
    <3>3. StatusInv'
      BY <2>1 DEF IInv, StatusInv
    <3>4. OrderInv' /\ OtherInv' /\ AheadInv'
      BY <2>1, Fewer DEF IInv
    <3> QED
      BY <3>1, <3>2, <3>3, <3>4
  <2>3. Outermost' = Outermost
    BY <2>1 DEF Outermost, Actions, Enclosing
  <2>4. CoverInv'
    BY <2>1, <2>3 DEF IInv, CoverInv, IsAdded, IsLeft, Within, Enclosing
  <2>5. AddedInOrder' /\ RowsInOrder'
    BY <2>1, <2>3 DEF IInv, AddedInOrder, RowsInOrder, Sorted
  <2> QED
    BY <2>2, <2>4, <2>5 DEF IInv
<1> QED
  BY <1>1, <1>2, <1>3, <1>4, <1>5, <1>6, <1>7, <1>8 DEF Next

(* In every reachable state the calls are in order and nothing is left     *)
(* out: the inductive invariant of the walk.                               *)
THEOREM Invariance == Spec => []IInv
<1> QED
  BY InitIInv, NextIInv, PTL DEF Spec

(* Every variable has its type, whatever the size of the trace. *)
THEOREM TypeCorrect == Spec => []TypeOK
<1>1. IInv => TypeOK
  BY DEF IInv
<1> QED
  BY <1>1, Invariance, PTL

(* The walk adds the outermost filtered actions in the order of their      *)
(* execution and leaves out none before the last one added.                *)
THEOREM OutermostInOrder == Spec => []AddedInOrder
<1>1. IInv => AddedInOrder
  BY DEF IInv
<1> QED
  BY <1>1, Invariance, PTL

(* The rows of table actions come in the order of execution, once each,    *)
(* and nothing is parsed before its row was attempted.                     *)
THEOREM RowsAsAdded == Spec => []RowsInOrder
<1>1. IInv => RowsInOrder
  BY DEF IInv
<1> QED
  BY <1>1, Invariance, PTL

(* A trace walked to its end had all its outermost filtered actions added, *)
(* and a walk cut short was cut at an action that cannot be read.          *)
THEOREM WalkedToTheEnd == Spec => []EndedAsPromised
<1>1. IInv => EndedAsPromised
  <2> SUFFICES ASSUME IInv PROVE EndedAsPromised
    OBVIOUS
  <2>1. status = "done" => frames = <<>>
    BY DEF IInv, StatusInv
  <2>2. status = "done" => \A n \in Outermost : IsAdded(n)
    BY <2>1 DEF IInv, CoverInv, IsLeft
  <2> QED
    BY <2>2 DEF IInv, StatusInv, EndedAsPromised, IsAdded
<1> QED
  BY <1>1, Invariance, PTL
=============================================================================
