---------------------------- MODULE SequenceFacts ----------------------------
(***************************************************************************)
(* Facts about numbers and sequences that the proofs about the tables and  *)
(* about the calls need and the library does not state: least and greatest *)
(* numbers, RemoveFirst (what a REPLACE does to a table with a unique key) *)
(* and FlattenSeq (what a call makes of a list, entry by entry).           *)
(*                                                                         *)
(* A fact about all of a sequence is proved for longer and longer prefixes *)
(* with UpTo: the numbers for which it holds are a set.  A function that   *)
(* is defined by recursion has its defining equation when there is such a  *)
(* function, which Recursion says of definitions that go down.             *)
(***************************************************************************)
EXTENDS Integers, SequencesExt, FiniteSetsExt, SequenceTheorems, FiniteSetTheorems,
        WellFoundedInduction, TLAPS

-----------------------------------------------------------------------------
(* Numbers.                                                                *)

LessThan == {pair \in Nat \X Nat : pair[1] < pair[2]}

(* A set of natural numbers that is not empty has a least element. *)
LEMMA LeastElement ==
  ASSUME NEW S, S \subseteq Nat, S # {}
  PROVE  \E m \in S : \A k \in S : m <= k
<1>1. IsWellFoundedOn(LessThan, Nat)
  BY NatLessThanWellFounded DEF OpToRel, LessThan
<1>2. PICK m \in S : \A k \in S : <<k, m>> \notin LessThan
  BY <1>1, WFMin
<1>3. \A k \in S : ~(k < m)
  BY <1>2 DEF LessThan
<1> QED
  BY <1>3

(* It is what Min chooses. *)
LEMMA Least ==
  ASSUME NEW S, S \subseteq Nat, S # {}
  PROVE  Min(S) \in S /\ \A k \in S : Min(S) <= k
BY LeastElement DEF Min

(* A set that has 0 and, with a number, the next one has all. *)
LEMMA UpTo ==
  ASSUME NEW N \in Nat, NEW S, 0 \in S,
         \A n \in Nat : n < N /\ n \in S => n + 1 \in S
  PROVE  \A n \in 0..N : n \in S
<1> DEFINE U == {n \in 0..N : n \notin S}
<1> SUFFICES ASSUME U # {} PROVE FALSE
  OBVIOUS
<1>1. PICK m \in U : \A k \in U : m <= k
  <2>1. U \subseteq Nat
    OBVIOUS
  <2> HIDE DEF U
  <2> QED
    BY <2>1, LeastElement
<1>2. m \in Nat /\ m # 0 /\ m <= N /\ m \notin S
  OBVIOUS
<1>3. m - 1 \in Nat /\ m - 1 < N /\ m - 1 \in 0..N /\ (m - 1) + 1 = m
  BY <1>2
<1>4. m - 1 \in S
  BY <1>1, <1>3
<1> QED
  BY <1>2, <1>3, <1>4

(* A set of natural numbers with a bound has a greatest element. *)
LEMMA Greatest ==
  ASSUME NEW b \in Nat, NEW S, S \subseteq 0..b, S # {}
  PROVE  Max(S) \in S /\ \A k \in S : k <= Max(S)
<1> DEFINE U == {u \in Nat : \A k \in S : k <= u}
<1>1. b \in U /\ U \subseteq Nat
  OBVIOUS
<1>2. PICK m \in U : \A u \in U : m <= u
  <2> HIDE DEF U
  <2> QED
    BY <1>1, LeastElement
<1>3. m \in S
  <2> SUFFICES ASSUME m \notin S PROVE FALSE
    OBVIOUS
  <2>1. \A k \in S : k \in Nat /\ k < m
    BY <1>2
  <2>2. m \in Nat /\ m # 0
    <3>1. PICK k \in S : k \in Nat /\ k < m
      BY <2>1
    <3> QED
      BY <1>2, <3>1
  <2>3. m - 1 \in U
    BY <2>1, <2>2
  <2> QED
    BY <1>2, <2>2, <2>3
<1>4. \A k \in S : m >= k
  BY <1>2
<1> QED
  BY <1>3, <1>4 DEF Max

(* A number that no other of a set exceeds is its greatest. *)
LEMMA NewGreatest ==
  ASSUME NEW S, S \subseteq Nat, NEW m \in S, \A k \in S : k <= m
  PROVE  Max(S) = m
<1>1. \A x \in S : (\A y \in S : x >= y) => x = m
  OBVIOUS
<1>2. \A y \in S : m >= y
  OBVIOUS
<1> QED
  BY <1>1, <1>2 DEF Max

(* Quotient and rest. *)
LEMMA Division ==
  ASSUME NEW a \in Nat, NEW p \in Nat \ {0}
  PROVE  /\ a \div p \in Nat
         /\ a - (a \div p) * p \in 0..(p - 1)
OBVIOUS

-----------------------------------------------------------------------------
(* Recursive definitions.                                                  *)

\* Outside B the function d goes down.
Descends(d, B) == \A n \in Nat : n \notin B => d[n] < n

\* The function f is b on B, and elsewhere h of what f is further down.
Unfolds(f, B, b, d, h) ==
  \A n \in Nat : f[n] = IF n \in B THEN b[n] ELSE h[<<n, f[d[n]]>>]

(* There is such a function, which is what a recursive definition needs.   *)
LEMMA Recursion ==
  ASSUME NEW S, NEW B, NEW b \in [Nat -> S], NEW d \in [Nat -> Nat], NEW h \in [Nat \X S -> S],
         Descends(d, B)
  PROVE  \E f \in [Nat -> S] : Unfolds(f, B, b, d, h)
<1> DEFINE Good(f, n) ==
      /\ f \in [0..n -> S]
      /\ \A k \in 0..n : f[k] = IF k \in B THEN b[k] ELSE h[<<k, f[d[k]]>>]
<1>0. \A n \in Nat : n \notin B => d[n] < n
  BY DEF Descends
<1>1. ASSUME NEW m \in Nat, NEW n \in Nat, NEW f, NEW g, Good(f, m), Good(g, n),
             NEW i \in Nat, i <= m, i <= n
      PROVE  f[i] = g[i]
  <2> DEFINE D == {k \in 0..i : f[k] # g[k]}
  <2> SUFFICES ASSUME D # {} PROVE FALSE
    OBVIOUS
  <2>1. PICK k \in D : \A j \in D : k <= j
    <3>1. D \subseteq Nat
      OBVIOUS
    <3> HIDE DEF D
    <3> QED
      BY <3>1, LeastElement
  <2>2. k \in 0..i /\ k \in 0..m /\ k \in 0..n /\ k \in Nat /\ f[k] # g[k]
    <3>1. k \in 0..i /\ f[k] # g[k]
      OBVIOUS
    <3>2. i \in Nat /\ m \in Nat /\ n \in Nat /\ i <= m /\ i <= n
      BY <1>1
    <3> QED
      BY <3>1, <3>2
  <2>3. /\ f[k] = IF k \in B THEN b[k] ELSE h[<<k, f[d[k]]>>]
        /\ g[k] = IF k \in B THEN b[k] ELSE h[<<k, g[d[k]]>>]
    BY <1>1, <2>2
  <2>4. k \notin B /\ f[d[k]] # g[d[k]]
    BY <2>2, <2>3
  <2>5. d[k] \in 0..i /\ d[k] < k
    BY <1>0, <2>2, <2>4
  <2>6. d[k] \in D
    BY <2>4, <2>5
  <2> QED
    BY <2>1, <2>2, <2>5, <2>6
<1>2. \A n \in Nat : \E f : Good(f, n)
  <2> SUFFICES ASSUME NEW N \in Nat PROVE \E f : Good(f, N)
    OBVIOUS
  <2> DEFINE T == {n \in Nat : \E f : Good(f, n)}
  <2>1. 0 \in T
    <3>1. 0 \in B
      BY <1>0
    <3>2. Good([k \in 0..0 |-> b[0]], 0)
      BY <3>1
    <3> QED
      BY <3>2
  <2>2. ASSUME NEW n \in Nat, n < N, n \in T PROVE n + 1 \in T
    <3>1. PICK f : Good(f, n)
      BY <2>2
    <3> DEFINE v == IF n + 1 \in B THEN b[n + 1] ELSE h[<<n + 1, f[d[n + 1]]>>]
               g == [k \in 0..(n + 1) |-> IF k = n + 1 THEN v ELSE f[k]]
    <3>2. v \in S
      <4>1. CASE n + 1 \in B
        BY <4>1
      <4>2. CASE n + 1 \notin B
        <5>1. d[n + 1] \in 0..n
          BY <1>0, <4>2
        <5>2. f[d[n + 1]] \in S
          BY <3>1, <5>1
        <5> QED
          BY <4>2, <5>2
      <4> QED
        BY <4>1, <4>2
    <3> HIDE DEF v
    <3>3. g \in [0..(n + 1) -> S]
      BY <3>1, <3>2
    <3>4. ASSUME NEW k \in 0..(n + 1)
          PROVE  g[k] = IF k \in B THEN b[k] ELSE h[<<k, g[d[k]]>>]
      <4>1. k \notin B => d[k] \in 0..n /\ g[d[k]] = f[d[k]]
        <5>1. k \in Nat /\ d[k] \in Nat
          OBVIOUS
        <5>2. k \notin B => d[k] < k
          BY <1>0, <5>1
        <5>3. k \notin B => d[k] \in 0..n
          BY <5>1, <5>2
        <5> QED
          BY <5>3
      <4>2. CASE k = n + 1
        BY <4>1, <4>2 DEF v
      <4>3. CASE k # n + 1
        <5>1. k \in 0..n /\ g[k] = f[k]
          BY <4>3
        <5> QED
          BY <3>1, <4>1, <5>1
      <4> QED
        BY <4>2, <4>3
    <3>5. Good(g, n + 1)
      BY <3>3, <3>4
    <3> HIDE DEF Good, g
    <3> QED
      BY <3>5
  <2> HIDE DEF T
  <2>3. N \in T
    <3>1. N \in 0..N
      OBVIOUS
    <3> QED
      BY <2>1, <2>2, <3>1, UpTo
  <2> HIDE DEF Good
  <2> QED
    BY <2>3 DEF T
<1> DEFINE Part(n) == CHOOSE f : Good(f, n)
           F == [n \in Nat |-> Part(n)[n]]
<1>3. \A n \in Nat : Good(Part(n), n)
  BY <1>2
<1> HIDE DEF Part
<1>4. F \in [Nat -> S]
  BY <1>3
<1>5. ASSUME NEW n \in Nat PROVE F[n] = IF n \in B THEN b[n] ELSE h[<<n, F[d[n]]>>]
  <2>1. Part(n)[n] = IF n \in B THEN b[n] ELSE h[<<n, Part(n)[d[n]]>>]
    <3>1. Good(Part(n), n) /\ n \in 0..n
      BY <1>3
    <3> QED
      BY <3>1
  <2>2. ASSUME n \notin B PROVE Part(n)[d[n]] = F[d[n]]
    <3>1. d[n] \in Nat /\ d[n] <= n /\ d[n] <= d[n]
      BY <1>0, <2>2
    <3> HIDE DEF Good
    <3>2. Part(n)[d[n]] = Part(d[n])[d[n]]
      BY <1>1, <1>3, <3>1
    <3> QED
      BY <3>1, <3>2
  <2> QED
    BY <2>1, <2>2
<1> QED
  BY <1>4, <1>5 DEF Unfolds

-----------------------------------------------------------------------------
(* Sequences without repetition, and RemoveFirst.                          *)

(* A function on the first natural numbers is a sequence. *)
LEMMA SequenceOf ==
  ASSUME NEW S, NEW n \in Nat, NEW f, f \in [1..n -> S]
  PROVE  f \in Seq(S) /\ Len(f) = n
BY SeqDef

(* What is not in a sequence is not removed. *)
LEMMA RemoveAbsent ==
  ASSUME NEW s, NEW e, \A i \in 1..Len(s) : s[i] # e
  PROVE  RemoveFirst(s, e) = s
BY DEF RemoveFirst

(* A slice of a sequence. *)
LEMMA Slice ==
  ASSUME NEW S, NEW s \in Seq(S), NEW m \in 1..(Len(s) + 1), NEW n \in 0..Len(s), m <= n + 1
  PROVE  /\ SubSeq(s, m, n) \in Seq(S)
         /\ Len(SubSeq(s, m, n)) = n - m + 1
         /\ \A j \in 1..(n - m + 1) : SubSeq(s, m, n)[j] = s[m + j - 1]
<1>1. Len(s) \in Nat /\ \A j \in 1..Len(s) : s[j] \in S
  BY LenProperties, ElementOfSeq
<1>2. m \in Int /\ n \in Int /\ (IF m <= n THEN n - m + 1 ELSE 0) = n - m + 1
  BY <1>1
<1>3. \A j \in m..n : s[j] \in S
  BY <1>1
<1> QED
  BY <1>2, <1>3, SubSeqProperties

(* Removing an element moves those behind it up. *)
LEMMA RemovePresent ==
  ASSUME NEW S, NEW s \in Seq(S), IsInjective(s), NEW i \in 1..Len(s)
  PROVE  LET t == RemoveFirst(s, s[i])
         IN  /\ t \in Seq(S)
             /\ Len(t) = Len(s) - 1
             /\ \A j \in 1..(Len(s) - 1) : t[j] = IF j < i THEN s[j] ELSE s[j + 1]
<1>1. Len(s) \in Nat /\ DOMAIN s = 1..Len(s) /\ \A j \in 1..Len(s) : s[j] \in S
  BY LenProperties, ElementOfSeq
<1>2. {j \in 1..Len(s) : s[j] = s[i]} = {i}
  BY <1>1 DEF IsInjective
<1>3. Min({i}) = i
  BY DEF Min
<1>4. SelectInSeq(s, LAMBDA v : v = s[i]) = i
  BY <1>2, <1>3 DEF SelectInSeq
<1>5. RemoveFirst(s, s[i]) = SubSeq(s, 1, i - 1) \o SubSeq(s, i + 1, Len(s))
  BY <1>4 DEF RemoveFirst, RemoveAt
<1> DEFINE a == SubSeq(s, 1, i - 1)
           b == SubSeq(s, i + 1, Len(s))
<1>6. /\ a \in Seq(S) /\ Len(a) = i - 1
      /\ \A j \in 1..(i - 1) : a[j] = s[j]
  <2>1. 1 \in 1..(Len(s) + 1) /\ i - 1 \in 0..Len(s) /\ 1 <= (i - 1) + 1
    BY <1>1
  <2>2. /\ a \in Seq(S)
        /\ Len(a) = (i - 1) - 1 + 1
        /\ \A j \in 1..((i - 1) - 1 + 1) : a[j] = s[1 + j - 1]
    BY <2>1, Slice
  <2>3. (i - 1) - 1 + 1 = i - 1 /\ \A j \in 1..(i - 1) : 1 + j - 1 = j
    BY <1>1
  <2> HIDE DEF a
  <2> QED
    BY <2>2, <2>3
<1>7. /\ b \in Seq(S) /\ Len(b) = Len(s) - i
      /\ \A j \in 1..(Len(s) - i) : b[j] = s[i + j]
  <2>1. i + 1 \in 1..(Len(s) + 1) /\ Len(s) \in 0..Len(s) /\ i + 1 <= Len(s) + 1
    BY <1>1
  <2>2. /\ b \in Seq(S)
        /\ Len(b) = Len(s) - (i + 1) + 1
        /\ \A j \in 1..(Len(s) - (i + 1) + 1) : b[j] = s[(i + 1) + j - 1]
    BY <2>1, Slice
  <2>3. /\ Len(s) - (i + 1) + 1 = Len(s) - i
        /\ \A j \in 1..(Len(s) - i) : (i + 1) + j - 1 = i + j
    BY <1>1
  <2> HIDE DEF b
  <2> QED
    BY <2>2, <2>3
<1> HIDE DEF a, b
<1>8. /\ a \o b \in Seq(S)
      /\ Len(a \o b) = Len(a) + Len(b)
      /\ \A j \in 1..(Len(a) + Len(b)) :
           (a \o b)[j] = IF j <= Len(a) THEN a[j] ELSE b[j - Len(a)]
  BY <1>6, <1>7, ConcatProperties
<1>9. Len(a \o b) = Len(s) - 1
  BY <1>1, <1>6, <1>7, <1>8
<1>10. ASSUME NEW j \in 1..(Len(s) - 1)
       PROVE  (a \o b)[j] = IF j < i THEN s[j] ELSE s[j + 1]
  <2>1. j \in 1..(Len(a) + Len(b))
    BY <1>1, <1>6, <1>7
  <2>2. CASE j < i
    <3>1. j <= Len(a) /\ j \in 1..(i - 1)
      BY <1>1, <1>6, <2>2
    <3> QED
      BY <1>6, <1>8, <2>1, <2>2, <3>1
  <2>3. CASE ~(j < i)
    <3>1. ~(j <= Len(a)) /\ j - Len(a) \in 1..(Len(s) - i) /\ i + (j - Len(a)) = j + 1
      BY <1>1, <1>6, <2>3
    <3> QED
      BY <1>7, <1>8, <2>1, <2>3, <3>1
  <2> QED
    BY <2>2, <2>3
<1>11. RemoveFirst(s, s[i]) = a \o b
  BY <1>5 DEF a, b
<1> QED
  BY <1>8, <1>9, <1>10, <1>11

(* A concatenation has the elements of both. *)
LEMMA ConcatContains ==
  ASSUME NEW S, NEW s \in Seq(S), NEW t \in Seq(S), NEW x
  PROVE  Contains(s \o t, x) <=> Contains(s, x) \/ Contains(t, x)
<1> DEFINE u == s \o t
<1>1. Len(s) \in Nat /\ Len(t) \in Nat
  BY LenProperties
<1>2. /\ u \in Seq(S) /\ Len(u) = Len(s) + Len(t)
      /\ \A i \in 1..(Len(s) + Len(t)) :
           u[i] = IF i <= Len(s) THEN s[i] ELSE t[i - Len(s)]
  BY ConcatProperties
<1> HIDE DEF u
<1>3. ASSUME NEW k \in 1..Len(u)
      PROVE  (\E i \in 1..Len(s) : s[i] = u[k]) \/ (\E j \in 1..Len(t) : t[j] = u[k])
  <2>1. CASE k <= Len(s)
    BY <1>1, <1>2, <2>1
  <2>2. CASE ~(k <= Len(s))
    <3>1. k - Len(s) \in 1..Len(t) /\ u[k] = t[k - Len(s)]
      BY <1>1, <1>2, <2>2
    <3> QED
      BY <3>1
  <2> QED
    BY <2>1, <2>2
<1>4. ASSUME NEW i \in 1..Len(s) PROVE \E k \in 1..Len(u) : u[k] = s[i]
  <2>1. i \in 1..Len(u) /\ u[i] = s[i]
    BY <1>1, <1>2
  <2> QED
    BY <2>1
<1>5. ASSUME NEW j \in 1..Len(t) PROVE \E k \in 1..Len(u) : u[k] = t[j]
  <2>1. Len(s) + j \in 1..Len(u) /\ ~(Len(s) + j <= Len(s)) /\ (Len(s) + j) - Len(s) = j
    BY <1>1, <1>2
  <2>2. u[Len(s) + j] = t[j]
    BY <1>2, <2>1
  <2> QED
    BY <2>1, <2>2
<1>6. ASSUME Contains(u, x) PROVE Contains(s, x) \/ Contains(t, x)
  <2>1. PICK k \in 1..Len(u) : u[k] = x
    BY <1>6 DEF Contains
  <2> QED
    BY <1>3, <2>1 DEF Contains
<1>7. ASSUME Contains(s, x) \/ Contains(t, x) PROVE Contains(u, x)
  <2>1. CASE Contains(s, x)
    BY <1>4, <2>1 DEF Contains
  <2>2. CASE Contains(t, x)
    BY <1>5, <2>2 DEF Contains
  <2> QED
    BY <1>7, <2>1, <2>2
<1> QED
  BY <1>6, <1>7 DEF u

LEMMA ToSetConcat ==
  ASSUME NEW S, NEW s \in Seq(S), NEW t \in Seq(S)
  PROVE  ToSet(s \o t) = ToSet(s) \cup ToSet(t)
<1>1. s \o t \in Seq(S)
  BY ConcatProperties
<1>2. \A u \in Seq(S) : DOMAIN u = 1..Len(u)
  BY LenProperties
<1>3. \A u \in Seq(S) : \A x : x \in ToSet(u) <=> Contains(u, x)
  BY <1>2 DEF ToSet, Contains
<1>4. \A x : x \in ToSet(s \o t) <=> x \in ToSet(s) \/ x \in ToSet(t)
  BY <1>1, <1>3, ConcatContains
<1> QED
  BY <1>4

(* What RemoveFirst leaves of a sequence without repetition. *)
LEMMA Removed ==
  ASSUME NEW S, NEW s \in Seq(S), IsInjective(s), NEW e
  PROVE  LET t == RemoveFirst(s, e)
         IN  /\ t \in Seq(S)
             /\ IsInjective(t)
             /\ Len(t) \in Nat /\ Len(t) <= Len(s) /\ DOMAIN t = 1..Len(t)
             /\ \A j \in 1..Len(t) : t[j] # e /\ \E k \in 1..Len(s) : s[k] = t[j]
             /\ \A j \in 1..Len(s) : s[j] # e => \E k \in 1..Len(t) : t[k] = s[j]
<1>1. Len(s) \in Nat /\ DOMAIN s = 1..Len(s)
  BY LenProperties
<1> DEFINE t == RemoveFirst(s, e)
<1>2. CASE \A i \in 1..Len(s) : s[i] # e
  BY <1>1, <1>2, RemoveAbsent
<1>3. CASE \E i \in 1..Len(s) : s[i] = e
  <2>1. PICK i \in 1..Len(s) : s[i] = e
    BY <1>3
  <2>2. /\ t \in Seq(S) /\ Len(t) = Len(s) - 1
        /\ \A j \in 1..(Len(s) - 1) : t[j] = IF j < i THEN s[j] ELSE s[j + 1]
    BY <2>1, RemovePresent
  <2> HIDE DEF t
  <2>3. Len(t) \in Nat /\ Len(t) <= Len(s) /\ DOMAIN t = 1..Len(t)
    BY <1>1, <2>1, <2>2, LenProperties
  <2>4. ASSUME NEW j \in 1..Len(t)
        PROVE  t[j] # e /\ \E k \in 1..Len(s) : s[k] = t[j]
    <3>1. CASE j < i
      <4>1. j \in 1..Len(s) /\ t[j] = s[j] /\ j # i
        BY <1>1, <2>2, <3>1
      <4> QED
        BY <1>1, <2>1, <4>1 DEF IsInjective
    <3>2. CASE ~(j < i)
      <4>1. j + 1 \in 1..Len(s) /\ t[j] = s[j + 1] /\ j + 1 # i
        BY <1>1, <2>2, <3>2
      <4> QED
        BY <1>1, <2>1, <4>1 DEF IsInjective
    <3> QED
      BY <3>1, <3>2
  <2>5. ASSUME NEW j \in 1..Len(s), s[j] # e
        PROVE  \E k \in 1..Len(t) : t[k] = s[j]
    <3>1. CASE j < i
      BY <1>1, <2>2, <3>1
    <3>2. CASE ~(j < i)
      <4>1. j # i
        BY <2>1, <2>5
      <4>2. j - 1 \in 1..Len(t) /\ ~(j - 1 < i) /\ (j - 1) + 1 = j
        BY <1>1, <2>2, <3>2, <4>1
      <4>3. t[j - 1] = s[j]
        BY <2>2, <4>2
      <4> QED
        BY <4>2, <4>3
    <3> QED
      BY <3>1, <3>2
  <2>6. ASSUME NEW j \in 1..Len(t), NEW k \in 1..Len(t), t[j] = t[k]
        PROVE  j = k
    <3> DEFINE Old(n) == IF n < i THEN n ELSE n + 1
    <3>1. /\ t[j] = s[Old(j)] /\ Old(j) \in 1..Len(s)
          /\ t[k] = s[Old(k)] /\ Old(k) \in 1..Len(s)
      BY <1>1, <2>2
    <3>2. Old(j) = Old(k)
      BY <1>1, <2>6, <3>1 DEF IsInjective
    <3> QED
      BY <1>1, <3>2
  <2> QED
    BY <2>2, <2>3, <2>4, <2>5, <2>6 DEF IsInjective, t
<1> QED
  BY <1>2, <1>3

(* The first n + 1 of a sequence are the first n and one more. *)
LEMMA FirstElements ==
  ASSUME NEW S, NEW s \in Seq(S)
  PROVE  /\ SubSeq(s, 1, 0) = <<>>
         /\ SubSeq(s, 1, Len(s)) = s
         /\ \A n \in 0..Len(s) :
              /\ SubSeq(s, 1, n) \in Seq(S) /\ Len(SubSeq(s, 1, n)) = n
              /\ \A i \in 1..n : SubSeq(s, 1, n)[i] = s[i]
         /\ \A n \in Nat : n < Len(s) =>
              s[n + 1] \in S /\ SubSeq(s, 1, n + 1) = Append(SubSeq(s, 1, n), s[n + 1])
<1>1. Len(s) \in Nat /\ \A i \in 1..Len(s) : s[i] \in S
  BY LenProperties, ElementOfSeq
<1>2. ASSUME NEW n \in 0..Len(s)
      PROVE  /\ SubSeq(s, 1, n) \in Seq(S) /\ Len(SubSeq(s, 1, n)) = n
             /\ \A i \in 1..n : SubSeq(s, 1, n)[i] = s[i]
  <2> DEFINE p == SubSeq(s, 1, n)
  <2>1. \A i \in 1..n : s[i] \in S
    BY <1>1
  <2>2. /\ p \in Seq(S) /\ Len(p) = IF 1 <= n THEN n - 1 + 1 ELSE 0
        /\ \A i \in 1..(n - 1 + 1) : p[i] = s[1 + i - 1]
    BY <2>1, SubSeqProperties
  <2> HIDE DEF p
  <2>3. p \in Seq(S) /\ Len(p) = n /\ \A i \in 1..n : p[i] = s[i]
    BY <1>1, <2>2
  <2> QED
    BY <2>3 DEF p
<1>3. ASSUME NEW n \in Nat, n < Len(s)
      PROVE  s[n + 1] \in S /\ SubSeq(s, 1, n + 1) = Append(SubSeq(s, 1, n), s[n + 1])
  <2> DEFINE p == SubSeq(s, 1, n)
             q == SubSeq(s, 1, n + 1)
             r == Append(p, s[n + 1])
  <2>1. n \in 0..Len(s) /\ n + 1 \in 0..Len(s) /\ n + 1 \in 1..Len(s)
    BY <1>1, <1>3
  <2>2. /\ p \in Seq(S) /\ Len(p) = n /\ \A i \in 1..n : p[i] = s[i]
        /\ q \in Seq(S) /\ Len(q) = n + 1 /\ \A i \in 1..(n + 1) : q[i] = s[i]
        /\ s[n + 1] \in S
    BY <1>1, <1>2, <2>1
  <2> HIDE DEF p, q
  <2>3. /\ r \in Seq(S) /\ Len(r) = Len(p) + 1
        /\ \A i \in 1..Len(p) : r[i] = p[i]
        /\ r[Len(p) + 1] = s[n + 1]
    BY <2>2, AppendProperties
  <2> HIDE DEF r
  <2>4. \A i \in 1..Len(q) : q[i] = r[i]
    BY <2>2, <2>3
  <2>5. q = r
    BY <2>2, <2>3, <2>4, SeqEqual
  <2> QED
    BY <2>2, <2>5 DEF p, q, r
<1>4. SubSeq(s, 1, 0) = <<>>
  BY SubSeqEmpty
<1>5. SubSeq(s, 1, Len(s)) = s
  BY SubSeqFull
<1> QED
  BY <1>2, <1>3, <1>4, <1>5

(* Inserting what is not there yet. *)
LEMMA InsertNew ==
  ASSUME NEW S, NEW s \in Seq(S), IsInjective(s), NEW x \in S,
         \A j \in 1..Len(s) : s[j] # x,
         NEW i \in 1..(Len(s) + 1)
  PROVE  InsertAt(s, i, x) \in Seq(S) /\ IsInjective(InsertAt(s, i, x))
<1>0. Len(s) \in Nat /\ DOMAIN s = 1..Len(s) /\ \A j \in 1..Len(s) : s[j] \in S
  BY LenProperties, ElementOfSeq
<1> DEFINE a == SubSeq(s, 1, i - 1)
           b == SubSeq(s, i, Len(s))
           c == a \o <<x>>
           t == c \o b
<1>1. /\ a \in Seq(S) /\ Len(a) = i - 1
      /\ \A j \in 1..(i - 1) : a[j] = s[j]
  <2>1. i - 1 \in 0..Len(s)
    BY <1>0
  <2> QED
    BY <2>1, FirstElements
<1>2. /\ b \in Seq(S) /\ Len(b) = Len(s) - i + 1
      /\ \A j \in 1..(Len(s) - i + 1) : b[j] = s[i + j - 1]
  <2>1. \A j \in i..Len(s) : s[j] \in S
    BY <1>0
  <2>2. i \in Int /\ Len(s) \in Int
    BY <1>0
  <2>3. /\ b \in Seq(S) /\ Len(b) = IF i <= Len(s) THEN Len(s) - i + 1 ELSE 0
        /\ \A j \in 1..(Len(s) - i + 1) : b[j] = s[i + j - 1]
    BY <2>1, <2>2, SubSeqProperties
  <2> HIDE DEF b
  <2> QED
    BY <1>0, <2>3
<1> HIDE DEF a, b
<1>3. /\ c \in Seq(S) /\ Len(c) = i
      /\ \A j \in 1..i : c[j] = IF j < i THEN s[j] ELSE x
  <2>1. c = Append(a, x)
    BY <1>1, AppendIsConcat
  <2>2. /\ c \in Seq(S) /\ Len(c) = Len(a) + 1
        /\ \A j \in 1..Len(a) : c[j] = a[j]
        /\ c[Len(a) + 1] = x
    BY <1>1, <2>1, AppendProperties
  <2> HIDE DEF c
  <2> QED
    BY <1>0, <1>1, <2>2
<1> HIDE DEF c
<1>4. /\ t \in Seq(S) /\ Len(t) = Len(c) + Len(b)
      /\ \A j \in 1..(Len(c) + Len(b)) : t[j] = IF j <= Len(c) THEN c[j] ELSE b[j - Len(c)]
  BY <1>2, <1>3, ConcatProperties
<1>5. DOMAIN t = 1..Len(t)
  BY <1>4, LenProperties
<1> HIDE DEF t
\* Where an element of the result comes from.
<1> DEFINE Old(j) == IF j < i THEN j ELSE j - 1
<1>6. ASSUME NEW j \in 1..Len(t), j # i
      PROVE  Old(j) \in 1..Len(s) /\ t[j] = s[Old(j)]
  <2>1. CASE j < i
    BY <1>0, <1>2, <1>3, <1>4, <2>1
  <2>2. CASE ~(j < i)
    <3>1. /\ ~(j <= Len(c)) /\ j - Len(c) \in 1..(Len(s) - i + 1)
          /\ i + (j - Len(c)) - 1 = j - 1 /\ j - 1 \in 1..Len(s)
      BY <1>0, <1>2, <1>3, <1>4, <1>6, <2>2
    <3>2. t[j] = b[j - Len(c)]
      BY <1>4, <3>1
    <3>3. b[j - Len(c)] = s[i + (j - Len(c)) - 1]
      BY <1>2, <3>1
    <3> QED
      BY <2>2, <3>1, <3>2, <3>3
  <2> QED
    BY <2>1, <2>2
<1>7. i \in 1..Len(t) /\ t[i] = x
  <2>1. i \in 1..(Len(c) + Len(b)) /\ i <= Len(c) /\ i \in 1..i
    BY <1>0, <1>2, <1>3
  <2> QED
    BY <1>3, <1>4, <2>1
<1>8. ASSUME NEW j \in 1..Len(t), NEW k \in 1..Len(t), t[j] = t[k]
      PROVE  j = k
  <2>1. CASE j = i \/ k = i
    BY <1>6, <1>7, <1>8, <2>1
  <2>2. CASE j # i /\ k # i
    <3>1. Old(j) = Old(k)
      BY <1>0, <1>6, <1>8, <2>2 DEF IsInjective
    <3> QED
      BY <1>0, <2>2, <3>1
  <2> QED
    BY <2>1, <2>2
<1>9. IsInjective(t)
  BY <1>5, <1>8 DEF IsInjective
<1>10. InsertAt(s, i, x) = t
  BY DEF InsertAt, t, c, a, b
<1> QED
  BY <1>4, <1>9, <1>10

(* A sequence without repetition has as many elements as places. *)
LEMMA ElementsOf ==
  ASSUME NEW S, NEW s \in Seq(S)
  PROVE  /\ IsFiniteSet(ToSet(s)) /\ Cardinality(ToSet(s)) \in Nat
         /\ IsInjective(s) => Cardinality(ToSet(s)) = Len(s)
<1> DEFINE n == Len(s)
           T == ToSet(s)
<1>1. n \in Nat /\ DOMAIN s = 1..n /\ s \in [1..n -> S]
  BY LenProperties
<1>2. s \in Surjection(1..n, T)
  BY <1>1 DEF Surjection, ToSet
<1>3. IsFiniteSet(1..n) /\ Cardinality(1..n) = n
  BY <1>1, FS_Interval, SMTT(30)
<1>4. IsFiniteSet(T) /\ (Cardinality(T) = n <=> s \in Injection(1..n, T))
  BY <1>2, <1>3, FS_Surjection
<1>5. IsInjective(s) => s \in Injection(1..n, T)
  BY <1>2 DEF Injection, Surjection
<1>6. Cardinality(T) \in Nat
  BY <1>4, FS_CardinalityType
<1> QED
  BY <1>4, <1>5, <1>6

(* Appending what is not there yet. *)
LEMMA AppendNew ==
  ASSUME NEW S, NEW s \in Seq(S), IsInjective(s), NEW x \in S,
         \A j \in 1..Len(s) : s[j] # x
  PROVE  Append(s, x) \in Seq(S) /\ IsInjective(Append(s, x))
<1>1. Len(s) \in Nat /\ DOMAIN s = 1..Len(s)
  BY LenProperties
<1> DEFINE t == Append(s, x)
<1>2. /\ t \in Seq(S) /\ Len(t) = Len(s) + 1
      /\ \A i \in 1..Len(s) : t[i] = s[i]
      /\ t[Len(s) + 1] = x
  BY AppendProperties
<1>3. DOMAIN t = 1..(Len(s) + 1)
  BY <1>2, LenProperties
<1> HIDE DEF t
<1>4. ASSUME NEW i \in 1..(Len(s) + 1), NEW j \in 1..(Len(s) + 1), t[i] = t[j]
      PROVE  i = j
  <2>1. CASE i \in 1..Len(s) /\ j \in 1..Len(s)
    BY <1>1, <1>2, <1>4, <2>1 DEF IsInjective
  <2>2. CASE i \notin 1..Len(s) /\ j \notin 1..Len(s)
    BY <1>1, <2>2
  <2>3. CASE i \in 1..Len(s) /\ j \notin 1..Len(s)
    <3>1. j = Len(s) + 1
      BY <1>1, <2>3
    <3> QED
      BY <1>2, <1>4, <2>3, <3>1
  <2>4. CASE i \notin 1..Len(s) /\ j \in 1..Len(s)
    <3>1. i = Len(s) + 1
      BY <1>1, <2>4
    <3> QED
      BY <1>2, <1>4, <2>4, <3>1
  <2> QED
    BY <2>1, <2>2, <2>3, <2>4
<1> QED
  BY <1>2, <1>3, <1>4 DEF IsInjective, t

-----------------------------------------------------------------------------
(* FlattenSeq.                                                             *)

(* f[i] is the concatenation of the first i of s: how FlattenSeq computes. *)
Flattens(f, s, n) ==
  f = [i \in 1..n |-> IF i = 1 THEN s[i] ELSE f[i - 1] \o s[i]]

(* There is such a function, one position after the other. *)
LEMMA FlattensExists ==
  ASSUME NEW s, Len(s) \in Nat
  PROVE  \E f : Flattens(f, s, Len(s))
<1> DEFINE T == {n \in Nat : \E f : Flattens(f, s, n)}
<1>1. 0 \in T
  <2> DEFINE f == [i \in 1..0 |-> 0]
  <2>1. Flattens(f, s, 0)
    BY DEF Flattens
  <2> QED
    BY <2>1
<1>2. ASSUME NEW n \in Nat, n \in T PROVE n + 1 \in T
  <2>0. PICK f : Flattens(f, s, n)
    BY <1>2
  <2>1. f = [i \in 1..n |-> IF i = 1 THEN s[i] ELSE f[i - 1] \o s[i]]
    BY <2>0 DEF Flattens
  <2> DEFINE last == IF n + 1 = 1 THEN s[n + 1] ELSE f[n] \o s[n + 1]
             g == [i \in 1..(n + 1) |-> IF i = n + 1 THEN last ELSE f[i]]
  <2>2. ASSUME NEW i \in 1..(n + 1)
        PROVE  g[i] = IF i = 1 THEN s[i] ELSE g[i - 1] \o s[i]
    <3>1. CASE i = n + 1 /\ i = 1
      BY <3>1
    <3>2. CASE i = n + 1 /\ i # 1
      <4>1. n \in 1..(n + 1) /\ n # n + 1 /\ i - 1 = n
        BY <3>2
      <4>2. g[n] = f[n]
        BY <4>1
      <4> QED
        BY <3>2, <4>1, <4>2
    <3>3. CASE i # n + 1 /\ i = 1
      <4>1. i \in 1..n
        BY <3>3
      <4>2. f[i] = s[i]
        BY <2>1, <3>3, <4>1
      <4> QED
        BY <3>3, <4>2
    <3>4. CASE i # n + 1 /\ i # 1
      <4>1. i \in 1..n /\ i - 1 \in 1..(n + 1) /\ i - 1 # n + 1
        BY <3>4
      <4>2. f[i] = f[i - 1] \o s[i]
        BY <2>1, <3>4, <4>1
      <4> QED
        BY <3>4, <4>1, <4>2
    <3> QED
      BY <3>1, <3>2, <3>3, <3>4
  <2>3. DOMAIN g = 1..(n + 1) /\ g = [i \in 1..(n + 1) |-> g[i]]
    OBVIOUS
  <2> HIDE DEF g
  <2>4. Flattens(g, s, n + 1)
    BY <2>2, <2>3 DEF Flattens
  <2> QED
    BY <2>4
<1> HIDE DEF T
<1>3. \A n \in 0..Len(s) : n \in T
  BY <1>1, <1>2, UpTo
<1>4. Len(s) \in T
  BY <1>3
<1> QED
  BY <1>4 DEF T

(* Two such functions agree where their sequences do. *)
LEMMA FlattensAgree ==
  ASSUME NEW s, Len(s) \in Nat, NEW t, Len(t) \in Nat, Len(s) <= Len(t),
         \A i \in 1..Len(s) : s[i] = t[i],
         NEW f, Flattens(f, s, Len(s)), NEW g, Flattens(g, t, Len(t))
  PROVE  \A i \in 1..Len(s) : f[i] = g[i]
<1> DEFINE T == {n \in Nat : n \in 1..Len(s) => f[n] = g[n]}
<1>1. 0 \in T
  OBVIOUS
<1>2. ASSUME NEW n \in Nat, n < Len(s), n \in T PROVE n + 1 \in T
  <2>1. n + 1 \in 1..Len(s) /\ n + 1 \in 1..Len(t) /\ (n + 1) - 1 = n
    BY <1>2
  <2>2. /\ f[n + 1] = IF n + 1 = 1 THEN s[n + 1] ELSE f[n] \o s[n + 1]
        /\ g[n + 1] = IF n + 1 = 1 THEN t[n + 1] ELSE g[n] \o t[n + 1]
    BY <2>1 DEF Flattens
  <2>3. CASE n = 0
    BY <2>1, <2>2, <2>3
  <2>4. CASE n # 0
    <3>1. f[n] = g[n]
      BY <1>2, <2>4
    <3> QED
      BY <2>1, <2>2, <3>1
  <2> QED
    BY <2>3, <2>4
<1> HIDE DEF T
<1>3. \A n \in 0..Len(s) : n \in T
  BY <1>1, <1>2, UpTo
<1> QED
  BY <1>3 DEF T

(* What FlattenSeq is, by such a function. *)
LEMMA FlattenSeqIs ==
  ASSUME NEW s, Len(s) \in Nat, Len(s) # 0, NEW f, Flattens(f, s, Len(s))
  PROVE  FlattenSeq(s) = f[Len(s)]
<1> DEFINE g == CHOOSE h : Flattens(h, s, Len(s))
<1>1. Flattens(g, s, Len(s))
  BY FlattensExists
<1>2. FlattenSeq(s) = g[Len(s)]
  BY DEF FlattenSeq, Flattens
<1>3. Len(s) \in 1..Len(s)
  OBVIOUS
<1> HIDE DEF g
<1>4. \A i \in 1..Len(s) : f[i] = g[i]
  BY <1>1, FlattensAgree
<1> QED
  BY <1>2, <1>3, <1>4

LEMMA FlattenEmpty == FlattenSeq(<<>>) = <<>>
BY DEF FlattenSeq

(* One element is all there is. *)
LEMMA FlattenSingle ==
  ASSUME NEW s, Len(s) = 1
  PROVE  FlattenSeq(s) = s[1]
<1>1. Len(s) \in Nat /\ Len(s) # 0
  OBVIOUS
<1>2. PICK f : Flattens(f, s, Len(s))
  BY <1>1, FlattensExists
<1>3. f[1] = s[1]
  BY <1>2 DEF Flattens
<1>4. FlattenSeq(s) = f[Len(s)]
  BY <1>1, <1>2, FlattenSeqIs
<1> QED
  BY <1>3, <1>4

(* One element more comes at the end. *)
LEMMA FlattenLonger ==
  ASSUME NEW s, Len(s) \in Nat, Len(s) # 0, NEW t, Len(t) = Len(s) + 1,
         \A i \in 1..Len(s) : s[i] = t[i]
  PROVE  FlattenSeq(t) = FlattenSeq(s) \o t[Len(t)]
<1>1. Len(t) \in Nat /\ Len(t) # 0 /\ Len(s) <= Len(t)
  OBVIOUS
<1>2. PICK f : Flattens(f, s, Len(s))
  BY FlattensExists
<1>3. PICK g : Flattens(g, t, Len(t))
  BY <1>1, FlattensExists
<1>4. \A i \in 1..Len(s) : f[i] = g[i]
  BY <1>1, <1>2, <1>3, FlattensAgree, SMTT(30)
<1>5. Len(s) \in 1..Len(s) /\ Len(t) \in 1..Len(t) /\ Len(t) # 1 /\ Len(t) - 1 = Len(s)
  BY <1>1
<1>6. g[Len(t)] = g[Len(s)] \o t[Len(t)]
  BY <1>3, <1>5 DEF Flattens
<1>7. FlattenSeq(t) = g[Len(t)]
  BY <1>1, <1>3, FlattenSeqIs
<1>8. FlattenSeq(s) = f[Len(s)]
  BY <1>2, FlattenSeqIs
<1> QED
  BY <1>4, <1>5, <1>6, <1>7, <1>8

LEMMA FlattenAppend ==
  ASSUME NEW E, NEW s \in Seq(Seq(E)), NEW x \in Seq(E)
  PROVE  FlattenSeq(Append(s, x)) = FlattenSeq(s) \o x
<1>1. Len(s) \in Nat
  BY LenProperties
<1> DEFINE t == Append(s, x)
<1>2. /\ Len(t) = Len(s) + 1
      /\ \A i \in 1..Len(s) : s[i] = t[i]
      /\ t[Len(s) + 1] = x
  BY AppendProperties
<1>3. CASE s = <<>>
  <2>1. Len(t) = 1 /\ t[1] = x
    BY <1>3
  <2>2. FlattenSeq(t) = x
    BY <2>1, FlattenSingle
  <2>3. FlattenSeq(s) = <<>> /\ <<>> \o x = x
    BY <1>3, FlattenEmpty, ConcatEmptySeq
  <2> QED
    BY <2>2, <2>3
<1>4. CASE s # <<>>
  <2>1. Len(s) # 0
    BY <1>1, <1>4, EmptySeq
  <2> HIDE DEF t
  <2>2. FlattenSeq(t) = FlattenSeq(s) \o t[Len(t)]
    BY <1>1, <1>2, <2>1, FlattenLonger
  <2> QED
    BY <1>2, <2>2 DEF t
<1> QED
  BY <1>3, <1>4

(* Flattening gives a sequence of the elements of the elements. *)
LEMMA FlattenType ==
  ASSUME NEW E, NEW s \in Seq(Seq(E))
  PROVE  FlattenSeq(s) \in Seq(E)
<1> DEFINE Pre(n) == SubSeq(s, 1, n)
           P(n) == n <= Len(s) => FlattenSeq(Pre(n)) \in Seq(E)
           T == {n \in Nat : P(n)}
<1>1. Len(s) \in Nat
  BY LenProperties
<1>2. P(0)
  <2>1. FlattenSeq(Pre(0)) = <<>>
    BY FirstElements, FlattenEmpty
  <2> QED
    BY <2>1, EmptySeq
<1>3. ASSUME NEW n \in Nat, n < Len(s), P(n) PROVE P(n + 1)
  <2>1. n \in 0..Len(s) /\ n <= Len(s)
    BY <1>1, <1>3
  <2>2. /\ Pre(n) \in Seq(Seq(E)) /\ s[n + 1] \in Seq(E)
        /\ Pre(n + 1) = Append(Pre(n), s[n + 1])
    BY <1>3, <2>1, FirstElements
  <2>3. FlattenSeq(Pre(n)) \in Seq(E)
    BY <1>3, <2>1
  <2> HIDE DEF Pre
  <2>4. FlattenSeq(Pre(n + 1)) = FlattenSeq(Pre(n)) \o s[n + 1]
    BY <2>2, FlattenAppend
  <2>5. \A u, v \in Seq(E) : u \o v \in Seq(E)
    OBVIOUS
  <2> QED
    BY <2>2, <2>3, <2>4, <2>5
<1>4. P(Len(s)) => FlattenSeq(s) \in Seq(E)
  <2>1. Pre(Len(s)) = s /\ Len(s) <= Len(s)
    BY <1>1, FirstElements
  <2> QED
    BY <2>1
<1> HIDE DEF P
<1>5. 0 \in T /\ \A n \in Nat : n < Len(s) /\ n \in T => n + 1 \in T
  BY <1>2, <1>3
<1>6. Len(s) \in T
  <2> HIDE DEF T
  <2>1. \A n \in 0..Len(s) : n \in T
    BY <1>1, <1>5, UpTo
  <2> QED
    BY <1>1, <2>1
<1> QED
  BY <1>4, <1>6

LEMMA FlattenContains ==
  ASSUME NEW E, NEW s \in Seq(Seq(E)), NEW x
  PROVE  Contains(FlattenSeq(s), x) <=> \E i \in 1..Len(s) : Contains(s[i], x)
<1> DEFINE Pre(n) == SubSeq(s, 1, n)
           P(n) == n <= Len(s) =>
                     (Contains(FlattenSeq(Pre(n)), x) <=> \E i \in 1..n : Contains(s[i], x))
           T == {n \in Nat : P(n)}
<1>1. Len(s) \in Nat
  BY LenProperties
<1>2. P(0)
  <2>1. FlattenSeq(Pre(0)) = <<>>
    BY FirstElements, FlattenEmpty
  <2>2. ~Contains(<<>>, x)
    BY DEF Contains
  <2> QED
    BY <2>1, <2>2
<1>3. ASSUME NEW n \in Nat, n < Len(s), P(n) PROVE P(n + 1)
  <2>1. n \in 0..Len(s) /\ n <= Len(s)
    BY <1>1, <1>3
  <2>2. /\ Pre(n) \in Seq(Seq(E)) /\ s[n + 1] \in Seq(E)
        /\ Pre(n + 1) = Append(Pre(n), s[n + 1])
    BY <1>3, <2>1, FirstElements
  <2>3. Contains(FlattenSeq(Pre(n)), x) <=> \E i \in 1..n : Contains(s[i], x)
    BY <1>3, <2>1
  <2> HIDE DEF Pre
  <2>4. FlattenSeq(Pre(n + 1)) = FlattenSeq(Pre(n)) \o s[n + 1]
    BY <2>2, FlattenAppend
  <2>5. FlattenSeq(Pre(n)) \in Seq(E)
    BY <2>2, FlattenType
  <2>6. \A u, v \in Seq(E) : Contains(u \o v, x) <=> Contains(u, x) \/ Contains(v, x)
    BY ConcatContains
  <2>7. Contains(FlattenSeq(Pre(n)) \o s[n + 1], x)
          <=> Contains(FlattenSeq(Pre(n)), x) \/ Contains(s[n + 1], x)
    BY <2>2, <2>5, <2>6
  <2>8. \A i \in 1..(n + 1) : i \in 1..n \/ i = n + 1
    OBVIOUS
  <2>9. n + 1 \in 1..(n + 1) /\ \A i \in 1..n : i \in 1..(n + 1)
    OBVIOUS
  <2> QED
    BY <2>3, <2>4, <2>7, <2>8, <2>9
<1>4. P(Len(s)) => (Contains(FlattenSeq(s), x) <=> \E i \in 1..Len(s) : Contains(s[i], x))
  <2>1. Pre(Len(s)) = s /\ Len(s) <= Len(s)
    BY <1>1, FirstElements
  <2> QED
    BY <2>1
<1> HIDE DEF P
<1>5. 0 \in T /\ \A n \in Nat : n < Len(s) /\ n \in T => n + 1 \in T
  BY <1>2, <1>3
<1>6. Len(s) \in T
  <2> HIDE DEF T
  <2>1. \A n \in 0..Len(s) : n \in T
    BY <1>1, <1>5, UpTo
  <2> QED
    BY <1>1, <2>1
<1> QED
  BY <1>4, <1>6
=============================================================================
